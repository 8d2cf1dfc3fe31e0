------------------------------ MODULE Registry ------------------------------
(***************************************************************************)
(* xml_config_repository: configuration parsers registered by name.  The   *)
(* repository holds raw pointers to parsers that its factory owns, and a   *)
(* map from a configuration's type to the name of the parser that makes    *)
(* it.  The client may register a name again, with the same or another     *)
(* class, unregister it, and parse one document after another.             *)
(*                                                                         *)
(* A document says for each class of parser whether its section is absent, *)
(* lacks an attribute, or holds invalid or valid values.  An incomplete    *)
(* section throws out of parse(), after the configuration was allocated.   *)
(*                                                                         *)
(* Operators with a suffix (Unregister_Types, ...) are faulty variants of  *)
(* a definition; no specification uses them.                               *)
(***************************************************************************)
EXTENDS Integers, Factory

CONSTANTS
  Names,       \* the names, numbers in the order of the map
  Classes,     \* the classes of parsers
  ConfigOf,    \* class -> the type of its configuration
  Required,    \* the classes that assert that their section is there
  Documents,   \* class -> "absent", "incomplete", "invalid" or "valid"
  Unparsed,    \* the null configuration
  MaxObjects   \* bound on the parsers made in a behaviour

VARIABLES
  workers,     \* m_factory
  parsers,     \* m_parsers: name -> parser
  types,       \* m_config_types: type of configuration -> name
  heap,        \* the parsers made, destroyed ones too
  status,      \* "running", "halted" by an assertion, or "undefined"
  mixed,       \* history: a name was used with two classes
  latest       \* history: name -> what was read for each class since the name
               \* was registered last

vars == <<workers, parsers, types, heap, status, mixed, latest>>

(* What a document whose parse was broken off leaves: old or new.          *)
Either == [text |-> "either"]

Init ==
  /\ workers = NoWorkers
  /\ parsers = <<>>
  /\ types = <<>>
  /\ heap = <<>>
  /\ status = "running"
  /\ mixed = FALSE
  /\ latest = <<>>

Dangling(name) == parsers[name] \notin Kept(workers)
ClassOf(name) == heap[parsers[name]].class

(* Mutant: a pointer that is there already stays (emplace).                *)
Enter_Emplace(name, class) ==
  LET registered == RegisterType(workers, name, class)
      id == Len(heap) + 1
  IN
  /\ status = "running"
  /\ id <= MaxObjects
  /\ workers' = Create(registered, name, id)
  /\ heap' = Append(heap, [class |-> registered[name].makes,
                           config |-> Unparsed])
  /\ parsers' = IF name \in DOMAIN parsers THEN parsers
                 ELSE Put(parsers, name, id)
  /\ mixed' = (mixed \/ registered[name].makes # class)
  /\ latest' = Put(latest, name, [c \in Classes |-> Unparsed])
  /\ UNCHANGED status

(* The first half of both parser_register(): the factory makes a parser,   *)
(* of the class that its worker for the name has.                          *)
Enter(name, class) ==
  LET registered == RegisterType(workers, name, class)
      id == Len(heap) + 1
  IN
  /\ status = "running"
  /\ id <= MaxObjects
  /\ workers' = Create(registered, name, id)
  /\ heap' = Append(heap, [class |-> registered[name].makes,
                           config |-> Unparsed])
  /\ parsers' = Put(parsers, name, id)
  /\ mixed' = (mixed \/ registered[name].makes # class)
  /\ latest' = Put(latest, name, [c \in Classes |-> Unparsed])
  /\ UNCHANGED status

(* parser_register<T>(): found by name only.                               *)
Register(name, class) == Enter(name, class) /\ UNCHANGED types

(* parser_register<T, S>().                                                *)
RegisterTyped(name, class) ==
  /\ Enter(name, class)
  /\ types' = Put(types, ConfigOf[class], name)

(* Mutant: the entry in m_config_types stays.                              *)
Unregister_Types(name, class) ==
  /\ status = "running"
  /\ workers' = UnregisterType(workers, name)
  /\ mixed' = (mixed \/ (name \in DOMAIN workers /\ workers[name].makes # class))
  /\ UNCHANGED <<parsers, types, heap, status, latest>>

(* parser_unregister<T, S>(): the pointer in m_parsers stays, and whatever *)
(* name has S loses it.                                                    *)
Unregister(name, class) ==
  /\ status = "running"
  /\ workers' = UnregisterType(workers, name)
  /\ types' = Restrict(types, DOMAIN types \ {ConfigOf[class]})
  /\ mixed' = (mixed \/ (name \in DOMAIN workers /\ workers[name].makes # class))
  /\ UNCHANGED <<parsers, heap, status, latest>>

(* parse() of one parser does not return: the pointer dangles, a required  *)
(* section is missing, or one of its attributes is.                        *)
Stops(name, doc) ==
  \/ Dangling(name)
  \/ doc[ClassOf(name)] = "absent" /\ ClassOf(name) \in Required
  \/ doc[ClassOf(name)] = "incomplete"

(* The configuration that parse() leaves: without a section, the old one.  *)
Parsed(name, doc) ==
  LET old == heap[parsers[name]] IN
  IF doc[old.class] = "absent" THEN old
  ELSE [old EXCEPT !.config = [text |-> doc[old.class], from |-> doc]]

(* Mutant: the first parser only.                                          *)
Visited_First(doc) ==
  {n \in DOMAIN parsers : \A m \in DOMAIN parsers : n <= m}

(* parse_all() goes through the map in its order, up to a parser that does *)
(* not return.                                                             *)
Visited(doc) ==
  {n \in DOMAIN parsers :
     \A m \in DOMAIN parsers : Stops(m, doc) => n <= m}

ParseAll(doc) ==
  LET visited == Visited(doc)
      stopped == {n \in visited : Stops(n, doc)}
      written == {n \in visited : ~Dangling(n)}
  IN
  /\ status = "running"
  /\ heap' = [i \in DOMAIN heap |->
                IF \E n \in written : parsers[n] = i
                THEN Parsed(CHOOSE n \in written : parsers[n] = i, doc)
                ELSE heap[i]]
  /\ status' = CASE \E n \in stopped : Dangling(n) -> "undefined"
                 [] \E n \in stopped : doc[ClassOf(n)] = "absent" -> "halted"
                 [] OTHER -> "running"
  /\ latest' = [n \in DOMAIN latest |-> [c \in Classes |->
                  IF doc[c] = "absent" THEN latest[n][c]
                  ELSE IF stopped = {} THEN [text |-> doc[c], from |-> doc]
                  ELSE Either]]
  /\ UNCHANGED <<workers, parsers, types, mixed>>

(* validate_all() asks in the order of the map, up to the first no.  A     *)
(* parser with a required section looks into its configuration unchecked.  *)
Invalid(name) ==
  /\ ~Dangling(name)
  /\ ClassOf(name) \in Required
  /\ heap[parsers[name]].config # Unparsed
  /\ heap[parsers[name]].config.text # "valid"
Unsafe(name) ==
  \/ Dangling(name)
  \/ ClassOf(name) \in Required /\ heap[parsers[name]].config = Unparsed

ValidateAll ==
  /\ status = "running"
  /\ \E n \in DOMAIN parsers :
       Unsafe(n) /\ \A m \in DOMAIN parsers : Invalid(m) => n < m
  /\ status' = "undefined"
  /\ UNCHANGED <<workers, parsers, types, heap, mixed, latest>>

Next ==
  \/ \E n \in Names, c \in Classes :
       Register(n, c) \/ RegisterTyped(n, c) \/ Unregister(n, c)
  \/ \E doc \in Documents : ParseAll(doc)
  \/ ValidateAll

Spec == Init /\ [][Next]_vars

----------------------------------------------------------------------------
TypeOK ==
  /\ DOMAIN parsers \subseteq Names
  /\ DOMAIN workers \subseteq DOMAIN parsers
  /\ Kept(workers) \subseteq DOMAIN heap
  /\ \A n \in DOMAIN parsers : parsers[n] \in DOMAIN heap
  /\ DOMAIN types \subseteq {ConfigOf[c] : c \in Classes}
  /\ \A s \in DOMAIN types : types[s] \in DOMAIN parsers
  /\ status \in {"running", "halted", "undefined"}
  /\ mixed \in BOOLEAN /\ DOMAIN latest = DOMAIN parsers

(* The parser that a registered name leads to is alive, one of its own     *)
(* worker, whatever other names were unregistered and however often it was *)
(* registered again; and no other name leads to it, not even one that was  *)
(* unregistered.  (What such a name leads to is left open: documented is   *)
(* NULL, and the code keeps the pointer to the parser that is gone.)       *)
PointersOwned ==
  \A n \in DOMAIN workers :
    /\ \E i \in DOMAIN workers[n].items : workers[n].items[i] = parsers[n]
    /\ \A m \in DOMAIN parsers : parsers[m] = parsers[n] => m = n

(* While every name keeps to one class, what config_get<S>() finds by type *)
(* is a live parser whose configuration is an S, although names can share  *)
(* a configuration type and be unregistered in any order.                  *)
TypedLookup ==
  ~mixed => \A s \in DOMAIN types :
              ~Dangling(types[s]) /\ ConfigOf[ClassOf(types[s])] = s

(* The parser of a registered name has the section of the last document    *)
(* since its registration that had one for its class, and nothing if there *)
(* was none: documents without the section leave it the old one.  Only if  *)
(* the parse of that last document was broken off, it may be either.       *)
ConfigsCurrent ==
  status = "running" =>
    \A n \in DOMAIN workers :
      LET p == heap[parsers[n]] IN
      latest[n][p.class] # Either => p.config = latest[n][p.class]

=============================================================================
