--------------------------- MODULE RegistryProofs ---------------------------
(***************************************************************************)
(* Who owns the parsers of an xml_config_repository, what is found by type *)
(* and whose section it holds, for any names, classes and documents; and   *)
(* what is made of the documents and the names by their other users.  The  *)
(* variables of a part have the names that they have in its own module.    *)
(***************************************************************************)
EXTENDS ComponentProofs, SequenceTheorems, FiniteSetTheorems, TLAPS

----------------------------------------------------------------------------
(* The registry.                                                           *)
workers == v1
parsers == v2
types == v3
heap == v4
mixed == v6
latest == v7
USE DEF workers, parsers, types, heap, status, mixed, latest

LEMMA RegistryPart ==
  /\ Init /\ part = "registry" => Registry!Init
  /\ [Next]_vars => /\ part' = part
                    /\ part = "registry" => [Registry!Next]_Registry!vars
  BY DEF Init, Next, vars, Registry!vars

Texts == {"absent", "incomplete", "invalid", "valid"}
Configs == {Unparsed} \cup [text : Texts, from : [ParserClasses -> Texts]]
ItemsOf(n) == Range(workers[n].items)

Shape ==
  /\ workers \in [DOMAIN workers -> [makes : ParserClasses, items : Seq(Nat)]]
  /\ parsers \in [DOMAIN parsers -> Nat]
  /\ heap \in Seq([class : ParserClasses, config : Configs])
  /\ mixed \in BOOLEAN
  /\ DOMAIN workers \subseteq DOMAIN parsers

(* Objects are numbered in the order in which they were made: a new one is *)
(* none of those that a worker or a pointer knows.                         *)
Numbered ==
  /\ \A n \in DOMAIN parsers : parsers[n] \in 1 .. Len(heap)
  /\ \A n \in DOMAIN workers : ItemsOf(n) \subseteq 1 .. Len(heap)

(* The pointer of a name is kept by the worker of the name, if there is    *)
(* one, and never by that of another; it points to what that worker makes. *)
Owned ==
  /\ \A n \in DOMAIN workers : parsers[n] \in ItemsOf(n)
  /\ \A n \in DOMAIN parsers, w \in DOMAIN workers :
       w # n => parsers[n] \notin ItemsOf(w)
  /\ \A n \in DOMAIN workers : heap[parsers[n]].class = workers[n].makes

(* While no name changed its class, every type is that of a worker.        *)
Registered ==
  ~mixed => \A s \in DOMAIN types :
              /\ types[s] \in DOMAIN workers
              /\ ConfigOf[workers[types[s]].makes] = s

RegistryInv == Shape /\ Numbered /\ Owned /\ Registered

----------------------------------------------------------------------------
(* What is appended is added to the elements.                              *)
LEMMA RangeOfAppend ==
  ASSUME NEW S, NEW seq \in Seq(S), NEW e \in S
  PROVE  Range(Append(seq, e)) = Range(seq) \cup {e}
  <1>1. /\ DOMAIN Append(seq, e) = 1 .. Len(seq) + 1
        /\ \A i \in 1 .. Len(seq) : Append(seq, e)[i] = seq[i]
        /\ Append(seq, e)[Len(seq) + 1] = e
        /\ DOMAIN seq = 1 .. Len(seq) /\ Len(seq) \in Nat
    BY AppendProperties
  <1>2. DOMAIN Append(seq, e) = (DOMAIN seq) \cup {Len(seq) + 1}
    BY <1>1
  <1>. QED
    BY <1>1, <1>2 DEF Range

(* A function on 1 .. n is a sequence of length n.                         *)
LEMMA SequenceOfLength ==
  ASSUME NEW S, NEW n \in Nat, NEW f \in [1 .. n -> S]
  PROVE  f \in Seq(S) /\ Len(f) = n
  <1>1. f \in UNION {[1 .. q -> S] : q \in Nat}
    OBVIOUS
  <1>2. f \in Seq(S)
    BY <1>1, SeqDef, Zenon
  <1>. DEFINE m == Len(f)
  <1>3. m \in Nat /\ DOMAIN f = 1 .. m
    BY <1>2, LenProperties
  <1>4. 1 .. m = 1 .. n
    BY <1>3
  <1>. HIDE DEF m
  <1>5. m = n
    <2>1. CASE m < n
      <3>1. n \in 1 .. n /\ n \notin 1 .. m
        BY <1>3, <2>1
      <3>. QED
        BY <1>4, <3>1
    <2>2. CASE n < m
      <3>1. m \in 1 .. m /\ m \notin 1 .. n
        BY <1>3, <2>2
      <3>. QED
        BY <1>4, <3>1
    <2>. QED
      BY <1>3, <2>1, <2>2
  <1>. QED
    BY <1>2, <1>5 DEF m

(* No name, no object.                                                     *)
LEMMA InitInv == Registry!Init => RegistryInv
  <1>. SUFFICES ASSUME Registry!Init PROVE RegistryInv
    OBVIOUS
  <1>1. /\ workers = <<>> /\ parsers = <<>> /\ types = <<>> /\ heap = <<>>
        /\ mixed = FALSE
    BY DEF Registry!Init, Registry!NoWorkers
  <1>2. DOMAIN workers = {} /\ DOMAIN parsers = {} /\ DOMAIN types = {}
    BY <1>1
  <1>3. heap \in Seq([class : ParserClasses, config : Configs])
    BY <1>1
  <1>4. /\ workers \in
             [DOMAIN workers -> [makes : ParserClasses, items : Seq(Nat)]]
        /\ parsers \in [DOMAIN parsers -> Nat]
    <2>1. workers \in Seq([makes : ParserClasses, items : Seq(Nat)])
          /\ parsers \in Seq(Nat)
      BY <1>1
    <2>. QED
      BY <2>1, LenProperties
  <1>5. Shape
    BY <1>1, <1>2, <1>3, <1>4 DEF Shape
  <1>. QED
    BY <1>2, <1>5 DEF RegistryInv, Numbered, Owned, Registered

(* What Enter does to the worker and the pointer of its name, and that it  *)
(* leaves those of other names alone.                                      *)
LEMMA EnterEffect ==
  ASSUME RegistryInv, NEW name \in Names, NEW class \in ParserClasses,
         Registry!Enter(name, class)
  PROVE  /\ Shape'
         /\ Len(heap') = Len(heap) + 1
         /\ \A i \in 1 .. Len(heap) : heap'[i] = heap[i]
         /\ DOMAIN workers' = DOMAIN workers \cup {name}
         /\ DOMAIN parsers' = DOMAIN parsers \cup {name}
         /\ parsers'[name] = Len(heap) + 1
         /\ Range(workers'[name].items)
              = (IF name \in DOMAIN workers THEN ItemsOf(name) ELSE {})
                  \cup {Len(heap) + 1}
         /\ heap'[Len(heap) + 1].class = workers'[name].makes
         /\ name \in DOMAIN workers =>
              workers'[name].makes = workers[name].makes
         /\ \A n \in DOMAIN workers \ {name} : workers'[n] = workers[n]
         /\ \A n \in DOMAIN parsers \ {name} : parsers'[n] = parsers[n]
         /\ ~mixed' => ~mixed /\ workers'[name].makes = class
  <1>. DEFINE registered == Registry!RegisterType(workers, name, class)
              id == Len(heap) + 1
              old == registered[name]
              object == [class |-> old.makes, config |-> Unparsed]
  <1>1. Len(heap) \in Nat /\ id \in Nat
    BY DEF RegistryInv, Shape
  <1>2. /\ registered \in [DOMAIN workers \cup {name} ->
                             [makes : ParserClasses, items : Seq(Nat)]]
        /\ name \notin DOMAIN workers => old = [makes |-> class, items |-> <<>>]
        /\ \A n \in DOMAIN workers : registered[n] = workers[n]
    <2>1. CASE name \in DOMAIN workers
      <3>1. registered = workers
        BY <2>1 DEF Registry!RegisterType
      <3>2. DOMAIN workers \cup {name} = DOMAIN workers
        BY <2>1
      <3>. QED
        BY <2>1, <3>1, <3>2 DEF RegistryInv, Shape
    <2>2. CASE name \notin DOMAIN workers
      <3>1. registered =
              Registry!Put(workers, name, [makes |-> class, items |-> <<>>])
        BY <2>2 DEF Registry!RegisterType
      <3>2. [makes |-> class, items |-> <<>>]
              \in [makes : ParserClasses, items : Seq(Nat)]
        OBVIOUS
      <3>. QED
        BY <2>2, <3>1, <3>2 DEF Registry!Put, RegistryInv, Shape
    <2>. QED
      BY <2>1, <2>2
  <1>3. old \in [makes : ParserClasses, items : Seq(Nat)]
    BY <1>2
  <1>. HIDE DEF registered, old, id
  <1>4. /\ workers' = [registered EXCEPT ![name].items = Append(@, id)]
        /\ parsers' = Registry!Put(parsers, name, id)
        /\ heap' = Append(heap, object)
        /\ mixed' = (mixed \/ old.makes # class)
    BY DEF Registry!Enter, Registry!Create, registered, old, id
  <1>5. Append(old.items, id) \in Seq(Nat)
    BY <1>1, <1>3, AppendProperties
  <1>6. /\ workers' \in [DOMAIN workers \cup {name} ->
                           [makes : ParserClasses, items : Seq(Nat)]]
        /\ workers'[name].makes = old.makes
        /\ workers'[name].items = Append(old.items, id)
        /\ \A n \in DOMAIN workers \ {name} : workers'[n] = workers[n]
    BY <1>2, <1>3, <1>4, <1>5 DEF old
  <1>7. /\ parsers' \in [DOMAIN parsers \cup {name} -> Nat]
        /\ parsers'[name] = id
        /\ \A n \in DOMAIN parsers \ {name} : parsers'[n] = parsers[n]
    BY <1>1, <1>4 DEF Registry!Put, RegistryInv, Shape
  <1>8. object \in [class : ParserClasses, config : Configs]
    BY <1>3 DEF Configs
  <1>9. /\ heap' \in Seq([class : ParserClasses, config : Configs])
        /\ Len(heap') = Len(heap) + 1
        /\ \A i \in 1 .. Len(heap) : heap'[i] = heap[i]
        /\ heap'[id] = object
    BY <1>4, <1>8, AppendProperties DEF RegistryInv, Shape, id
  <1>10. Range(workers'[name].items) = Range(old.items) \cup {id}
    BY <1>1, <1>3, <1>6, RangeOfAppend
  <1>11. Range(old.items) =
           IF name \in DOMAIN workers THEN ItemsOf(name) ELSE {}
    <2>1. CASE name \in DOMAIN workers
      BY <1>2, <2>1 DEF ItemsOf, old
    <2>2. CASE name \notin DOMAIN workers
      <3>1. old.items = <<>> /\ DOMAIN <<>> = {}
        BY <1>2, <2>2
      <3>. QED
        BY <2>2, <3>1 DEF Range
    <2>. QED
      BY <2>1, <2>2
  <1>12. name \in DOMAIN workers => old = workers[name]
    BY <1>2 DEF old
  <1>13. Shape'
    BY <1>4, <1>6, <1>7, <1>9 DEF RegistryInv, Shape
  <1>14. ~mixed' => ~mixed /\ workers'[name].makes = class
    BY <1>4, <1>6 DEF RegistryInv, Shape
  <1>15. DOMAIN workers' = DOMAIN workers \cup {name}
         /\ DOMAIN parsers' = DOMAIN parsers \cup {name}
    BY <1>6, <1>7
  <1>16. heap'[id].class = workers'[name].makes
    BY <1>6, <1>9
  <1>17. Range(workers'[name].items)
           = (IF name \in DOMAIN workers THEN ItemsOf(name) ELSE {}) \cup {id}
    BY <1>10, <1>11
  <1>. QED
    BY <1>6, <1>7, <1>9, <1>12, <1>13, <1>14, <1>15, <1>16, <1>17 DEF id

(* Entering a name keeps all but what is said of types.                    *)
LEMMA EnterInv ==
  ASSUME RegistryInv, NEW name \in Names, NEW class \in ParserClasses,
         Registry!Enter(name, class)
  PROVE  Shape' /\ Numbered' /\ Owned'
  <1>. DEFINE id == Len(heap) + 1
  <1>1. /\ Shape' /\ Len(heap') = id
        /\ \A i \in 1 .. Len(heap) : heap'[i] = heap[i]
        /\ DOMAIN workers' = DOMAIN workers \cup {name}
        /\ DOMAIN parsers' = DOMAIN parsers \cup {name}
        /\ parsers'[name] = id
        /\ heap'[id].class = workers'[name].makes
        /\ \A n \in DOMAIN workers \ {name} : workers'[n] = workers[n]
        /\ \A n \in DOMAIN parsers \ {name} : parsers'[n] = parsers[n]
    BY EnterEffect
  <1>2. ItemsOf(name)' = (IF name \in DOMAIN workers THEN ItemsOf(name) ELSE {})
                         \cup {id}
    BY EnterEffect DEF ItemsOf
  <1>3. \A n \in DOMAIN workers \ {name} : ItemsOf(n)' = ItemsOf(n)
    BY <1>1 DEF ItemsOf
  <1>4. Len(heap) \in Nat /\ DOMAIN workers \subseteq DOMAIN parsers
    BY DEF RegistryInv, Shape
  <1>5. Numbered'
    <2>1. \A n \in DOMAIN parsers' : parsers'[n] \in 1 .. id
      BY <1>1, <1>4 DEF RegistryInv, Numbered
    <2>2. \A n \in DOMAIN workers' : ItemsOf(n)' \subseteq 1 .. id
      BY <1>1, <1>2, <1>3, <1>4 DEF RegistryInv, Numbered
    <2>. QED
      BY <1>1, <2>1, <2>2 DEF Numbered
  <1>6. Owned'
    <2>1. \A n \in DOMAIN workers' : parsers'[n] \in ItemsOf(n)'
      BY <1>1, <1>2, <1>3, <1>4 DEF RegistryInv, Owned
    <2>2. ASSUME NEW n \in DOMAIN parsers', NEW w \in DOMAIN workers', w # n
          PROVE  parsers'[n] \notin ItemsOf(w)'
      <3>1. CASE n = name
        BY <1>1, <1>3, <1>4, <2>2, <3>1 DEF RegistryInv, Numbered
      <3>2. CASE n # name
        BY <1>1, <1>2, <1>3, <1>4, <2>2, <3>2 DEF RegistryInv, Numbered, Owned
      <3>. QED
        BY <3>1, <3>2
    <2>3. \A n \in DOMAIN workers' :
            heap'[parsers'[n]].class = workers'[n].makes
      BY <1>1, <1>4 DEF RegistryInv, Numbered, Owned
    <2>. QED
      BY <2>1, <2>2, <2>3 DEF Owned
  <1>. QED
    BY <1>1, <1>5, <1>6

(* Entering a name keeps the types of all names, the new one's included.   *)
LEMMA EnterRegistered ==
  ASSUME RegistryInv, NEW name \in Names, NEW class \in ParserClasses,
         Registry!Enter(name, class), ~mixed'
  PROVE  /\ \A s \in DOMAIN types :
              /\ types[s] \in DOMAIN workers'
              /\ ConfigOf[workers'[types[s]].makes] = s
         /\ name \in DOMAIN workers' /\ workers'[name].makes = class
  <1>1. /\ ~mixed /\ workers'[name].makes = class
        /\ DOMAIN workers' = DOMAIN workers \cup {name}
        /\ name \in DOMAIN workers => workers'[name].makes = workers[name].makes
        /\ \A n \in DOMAIN workers \ {name} : workers'[n] = workers[n]
    BY EnterEffect
  <1>2. \A s \in DOMAIN types :
          types[s] \in DOMAIN workers /\ ConfigOf[workers[types[s]].makes] = s
    BY <1>1 DEF RegistryInv, Registered
  <1>3. \A n \in DOMAIN workers : workers'[n].makes = workers[n].makes
    BY <1>1
  <1>. QED
    BY <1>1, <1>2, <1>3

LEMMA RegisterInv ==
  ASSUME RegistryInv, NEW name \in Names, NEW class \in ParserClasses,
         Registry!Register(name, class)
  PROVE  RegistryInv'
  <1>1. Registry!Enter(name, class) /\ types' = types
    BY DEF Registry!Register
  <1>2. Shape' /\ Numbered' /\ Owned'
    BY <1>1, EnterInv
  <1>3. Registered'
    BY <1>1, EnterRegistered DEF Registered
  <1>. QED
    BY <1>2, <1>3 DEF RegistryInv

LEMMA RegisterTypedInv ==
  ASSUME RegistryInv, NEW name \in Names, NEW class \in ParserClasses,
         Registry!RegisterTyped(name, class)
  PROVE  RegistryInv'
  <1>1. Registry!Enter(name, class)
        /\ types' = Registry!Put(types, ConfigOf[class], name)
    BY DEF Registry!RegisterTyped
  <1>2. Shape' /\ Numbered' /\ Owned'
    BY <1>1, EnterInv
  <1>3. ASSUME ~mixed', NEW s \in DOMAIN types'
        PROVE  /\ types'[s] \in DOMAIN workers'
               /\ ConfigOf[workers'[types'[s]].makes] = s
    <2>1. CASE s = ConfigOf[class]
      <3>1. types'[s] = name
        BY <1>1, <2>1 DEF Registry!Put
      <3>. QED
        BY <1>1, <1>3, <2>1, <3>1, EnterRegistered
    <2>2. CASE s # ConfigOf[class]
      <3>1. s \in DOMAIN types /\ types'[s] = types[s]
        BY <1>1, <1>3, <2>2 DEF Registry!Put
      <3>. QED
        BY <1>1, <1>3, <3>1, EnterRegistered
    <2>. QED
      BY <2>1, <2>2
  <1>4. Registered'
    BY <1>3 DEF Registered
  <1>. QED
    BY <1>2, <1>4 DEF RegistryInv

(* What is unregistered has nothing that the others need.                  *)
LEMMA UnregisterInv ==
  ASSUME RegistryInv, NEW name \in Names, NEW class \in ParserClasses,
         Registry!Unregister(name, class)
  PROVE  RegistryInv'
  <1>1. /\ workers' = Registry!Restrict(workers, DOMAIN workers \ {name})
        /\ types' = Registry!Restrict(types, DOMAIN types \ {ConfigOf[class]})
        /\ mixed' = (mixed \/ (name \in DOMAIN workers
                                 /\ workers[name].makes # class))
        /\ UNCHANGED <<parsers, heap>>
    BY DEF Registry!Unregister, Registry!UnregisterType
  <1>2. /\ DOMAIN workers' = DOMAIN workers \ {name}
        /\ \A n \in DOMAIN workers' : workers'[n] = workers[n]
        /\ workers' \in [DOMAIN workers' ->
                           [makes : ParserClasses, items : Seq(Nat)]]
    BY <1>1 DEF Registry!Restrict, RegistryInv, Shape
  <1>3. \A n \in DOMAIN workers' : n \in DOMAIN workers /\ ItemsOf(n)' = ItemsOf(n)
    BY <1>2 DEF ItemsOf
  <1>4. Shape'
    BY <1>1, <1>2 DEF RegistryInv, Shape
  <1>5. Numbered'
    BY <1>1, <1>3 DEF RegistryInv, Numbered
  <1>6. Owned'
    <2>1. \A n \in DOMAIN workers' : parsers'[n] \in ItemsOf(n)'
      BY <1>1, <1>3 DEF RegistryInv, Owned
    <2>2. ASSUME NEW n \in DOMAIN parsers', NEW w \in DOMAIN workers', w # n
          PROVE  parsers'[n] \notin ItemsOf(w)'
      <3>1. w \in DOMAIN workers /\ ItemsOf(w)' = ItemsOf(w) /\ parsers' = parsers
        BY <1>1, <1>3
      <3>2. parsers[n] \notin ItemsOf(w)
        BY <2>2, <3>1 DEF RegistryInv, Owned
      <3>. QED
        BY <3>1, <3>2
    <2>3. \A n \in DOMAIN workers' :
            heap'[parsers'[n]].class = workers'[n].makes
      BY <1>1, <1>2, <1>3 DEF RegistryInv, Owned
    <2>. QED
      BY <2>1, <2>2, <2>3 DEF Owned
  <1>7. ASSUME ~mixed', NEW s \in DOMAIN types'
        PROVE  /\ types'[s] \in DOMAIN workers'
               /\ ConfigOf[workers'[types'[s]].makes] = s
    <2>1. s \in DOMAIN types /\ types'[s] = types[s] /\ s # ConfigOf[class]
      BY <1>1, <1>7 DEF Registry!Restrict
    <2>2. ~mixed /\ (name \in DOMAIN workers => workers[name].makes = class)
      BY <1>1, <1>7 DEF RegistryInv, Shape
    <2>3. /\ types[s] \in DOMAIN workers
          /\ ConfigOf[workers[types[s]].makes] = s
      BY <2>1, <2>2 DEF RegistryInv, Registered
    <2>4. types[s] # name
      BY <2>1, <2>2, <2>3
    <2>. QED
      BY <1>2, <2>1, <2>3, <2>4
  <1>8. Registered'
    BY <1>7 DEF Registered
  <1>. QED
    BY <1>4, <1>5, <1>6, <1>8 DEF RegistryInv

(* Parsing writes configurations, and no object changes its class.         *)
LEMMA ParseAllInv ==
  ASSUME RegistryInv, NEW doc \in ParserDocuments, Registry!ParseAll(doc)
  PROVE  RegistryInv'
  <1>. DEFINE written == {n \in Registry!Visited(doc) : ~Registry!Dangling(n)}
              Hit(i) == \E n \in written : parsers[n] = i
              By(i) == CHOOSE n \in written : parsers[n] = i
  <1>1. /\ heap' = [i \in DOMAIN heap |->
                      IF Hit(i) THEN Registry!Parsed(By(i), doc) ELSE heap[i]]
        /\ UNCHANGED <<workers, parsers, types, mixed>>
    BY DEF Registry!ParseAll
  <1>2. doc \in [ParserClasses -> Texts]
    BY RegistryAssumption DEF Texts
  <1>3. /\ Len(heap) \in Nat /\ DOMAIN heap = 1 .. Len(heap)
        /\ \A i \in DOMAIN heap :
             heap[i] \in [class : ParserClasses, config : Configs]
    <2>1. heap \in Seq([class : ParserClasses, config : Configs])
      BY DEF RegistryInv, Shape
    <2>2. /\ Len(heap) \in Nat /\ DOMAIN heap = 1 .. Len(heap)
          /\ heap \in
               [1 .. Len(heap) -> [class : ParserClasses, config : Configs]]
      BY <2>1, LenProperties
    <2>. QED
      BY <2>2
  <1>4. ASSUME NEW i \in DOMAIN heap
        PROVE  /\ heap'[i] \in [class : ParserClasses, config : Configs]
               /\ heap'[i].class = heap[i].class
    <2>1. CASE Hit(i)
      <3>1. parsers[By(i)] = i
        BY <2>1
      <3>. HIDE DEF By
      <3>2. heap'[i] = Registry!Parsed(By(i), doc)
        BY <1>1, <2>1
      <3>3. heap'[i] = IF doc[heap[i].class] = "absent" THEN heap[i]
                       ELSE [heap[i] EXCEPT !.config =
                               [text |-> doc[heap[i].class], from |-> doc]]
        BY <3>1, <3>2 DEF Registry!Parsed
      <3>4. [text |-> doc[heap[i].class], from |-> doc] \in Configs
        BY <1>2, <1>3 DEF Configs
      <3>. QED
        BY <1>3, <3>3, <3>4
    <2>2. CASE ~Hit(i)
      BY <1>1, <1>3, <2>2
    <2>. QED
      BY <2>1, <2>2
  <1>. HIDE DEF Hit, By, written
  <1>5. DOMAIN heap' = DOMAIN heap
    BY <1>1
  <1>6. heap' \in Seq([class : ParserClasses, config : Configs])
        /\ Len(heap') = Len(heap)
    <2>1. heap' \in
            [1 .. Len(heap) -> [class : ParserClasses, config : Configs]]
      BY <1>1, <1>3, <1>4
    <2>. QED
      BY <1>3, <2>1, SequenceOfLength
  <1>7. Shape'
    BY <1>1, <1>6 DEF RegistryInv, Shape
  <1>8. \A n : ItemsOf(n)' = ItemsOf(n)
    BY <1>1 DEF ItemsOf
  <1>9. Numbered'
    BY <1>1, <1>6, <1>8 DEF RegistryInv, Numbered
  <1>10. Owned'
    <2>1. \A n \in DOMAIN workers :
            heap'[parsers[n]].class = heap[parsers[n]].class
      BY <1>3, <1>4 DEF RegistryInv, Shape, Numbered
    <2>. QED
      BY <1>1, <1>8, <2>1 DEF RegistryInv, Owned
  <1>11. Registered'
    BY <1>1 DEF RegistryInv, Registered
  <1>. QED
    BY <1>7, <1>9, <1>10, <1>11 DEF RegistryInv

(* No step breaks the invariant.                                           *)
LEMMA StepInv ==
  ASSUME RegistryInv, [Registry!Next]_Registry!vars
  PROVE  RegistryInv'
  <1>1. ASSUME NEW n \in Names, NEW c \in ParserClasses, Registry!Register(n, c)
        PROVE  RegistryInv'
    BY <1>1, RegisterInv
  <1>2. ASSUME NEW n \in Names, NEW c \in ParserClasses, Registry!RegisterTyped(n, c)
        PROVE  RegistryInv'
    BY <1>2, RegisterTypedInv
  <1>3. ASSUME NEW n \in Names, NEW c \in ParserClasses, Registry!Unregister(n, c)
        PROVE  RegistryInv'
    BY <1>3, UnregisterInv
  <1>4. ASSUME NEW doc \in ParserDocuments, Registry!ParseAll(doc)
        PROVE  RegistryInv'
    BY <1>4, ParseAllInv
  <1>5. CASE UNCHANGED <<workers, parsers, types, heap, mixed>>
    BY <1>5 DEF RegistryInv, Shape, Numbered, Owned, Registered, ItemsOf
  <1>. QED
    BY <1>1, <1>2, <1>3, <1>4, <1>5
    DEF Registry!Next, Registry!ValidateAll, Registry!vars

(* The invariant says what the two properties ask.                         *)
LEMMA InvOwned ==
  ASSUME RegistryInv
  PROVE  Registry!PointersOwned /\ Registry!TypedLookup
  <1>1. Registry!Kept(workers) = UNION {ItemsOf(w) : w \in DOMAIN workers}
    BY DEF Registry!Kept, Registry!Range, Range, ItemsOf
  <1>2. \A n \in DOMAIN workers : parsers[n] \in ItemsOf(n)
    BY DEF RegistryInv, Owned
  <1>3. Registry!PointersOwned
    <2>1. ASSUME NEW n \in DOMAIN workers
          PROVE  \E i \in DOMAIN workers[n].items :
                   workers[n].items[i] = parsers[n]
      BY <1>2 DEF ItemsOf, Range
    <2>2. ASSUME NEW n \in DOMAIN workers, NEW m \in DOMAIN parsers,
                 parsers[m] = parsers[n]
          PROVE  m = n
      BY <1>2, <2>2 DEF RegistryInv, Owned
    <2>. QED
      BY <2>1, <2>2 DEF Registry!PointersOwned
  <1>4. Registry!TypedLookup
    <2>. SUFFICES ASSUME ~mixed, NEW s \in DOMAIN types
                  PROVE  /\ ~Registry!Dangling(types[s])
                         /\ ConfigOf[Registry!ClassOf(types[s])] = s
      BY DEF Registry!TypedLookup
    <2>1. /\ types[s] \in DOMAIN workers
          /\ ConfigOf[workers[types[s]].makes] = s
      BY DEF RegistryInv, Registered
    <2>2. heap[parsers[types[s]]].class = workers[types[s]].makes
      BY <2>1 DEF RegistryInv, Owned
    <2>. QED
      BY <1>1, <1>2, <2>1, <2>2 DEF Registry!Dangling, Registry!ClassOf
  <1>. QED
    BY <1>3, <1>4

(* However names are registered, registered again and unregistered, a name *)
(* that is registered leads to a live parser of its own, to which no other *)
(* name leads.                                                             *)
THEOREM PointersAreOwned == Spec => []PointersOwned
  <1>. DEFINE Inv == part = "registry" => RegistryInv
  <1>1. Init => Inv
    BY RegistryPart, InitInv
  <1>2. Inv /\ [Next]_vars => Inv'
    BY RegistryPart, StepInv
  <1>3. Inv => PointersOwned
    BY InvOwned DEF PointersOwned
  <1>. QED
    BY <1>1, <1>2, <1>3, PTL DEF Spec

(* While names keep to one class, config_get<S>() never meets a parser     *)
(* that was destroyed, or one of another configuration than S.             *)
THEOREM LookupIsTyped == Spec => []TypedLookup
  <1>. DEFINE Inv == part = "registry" => RegistryInv
  <1>1. Init => Inv
    BY RegistryPart, InitInv
  <1>2. Inv /\ [Next]_vars => Inv'
    BY RegistryPart, StepInv
  <1>3. Inv => TypedLookup
    BY InvOwned DEF TypedLookup
  <1>. QED
    BY <1>1, <1>2, <1>3, PTL DEF Spec

(* What parse_all() goes through, as long as no parser stops it: all.      *)
LEMMA AllVisited ==
  ASSUME DOMAIN parsers \subseteq Names, NEW doc,
         {n \in Registry!Visited(doc) : Registry!Stops(n, doc)} = {}
  PROVE  Registry!Visited(doc) = DOMAIN parsers
  <1>. DEFINE S == {n \in DOMAIN parsers : Registry!Stops(n, doc)}
  <1>1. CASE S = {}
    BY <1>1 DEF Registry!Visited
  <1>2. CASE S # {}
    <2>1. S \in SUBSET Nat
      BY RegistryAssumption
    <2>2. PICK least \in S : \A n \in S : least <= n
      BY <1>2, <2>1, LeastElement
    <2>3. least \in Registry!Visited(doc)
      BY <2>2 DEF Registry!Visited
    <2>. QED
      BY <2>3
  <1>. QED
    BY <1>1, <1>2

Current ==
  /\ RegistryInv
  /\ DOMAIN parsers \subseteq Names
  /\ DOMAIN latest = DOMAIN parsers
  /\ Registry!ConfigsCurrent

(* A new parser has no configuration, and no other name changes its.       *)
LEMMA EnterCurrent ==
  ASSUME Current, NEW name \in Names, NEW class \in ParserClasses,
         Registry!Enter(name, class)
  PROVE  Current' \/ ~RegistryInv'
  <1>. DEFINE id == Len(heap) + 1
              none == [c \in ParserClasses |-> Unparsed]
  <1>1. /\ Shape' /\ Len(heap') = id
        /\ \A i \in 1 .. Len(heap) : heap'[i] = heap[i]
        /\ DOMAIN workers' = DOMAIN workers \cup {name}
        /\ DOMAIN parsers' = DOMAIN parsers \cup {name}
        /\ parsers'[name] = id
        /\ \A n \in DOMAIN parsers \ {name} : parsers'[n] = parsers[n]
    BY EnterEffect DEF Current
  <1>2. /\ status' = status
        /\ latest' = [n \in DOMAIN latest \cup {name} |->
                        IF n = name THEN none ELSE latest[n]]
    BY DEF Registry!Enter, Registry!Put
  <1>3. heap'[id].config = Unparsed /\ heap'[id].class \in ParserClasses
    <2>1. \E class1 : heap' = Append(heap, [class |-> class1, config |-> Unparsed])
      BY DEF Registry!Enter
    <2>2. heap \in Seq([class : ParserClasses, config : Configs])
      BY DEF Current, RegistryInv, Shape
    <2>3. heap'[id].config = Unparsed
      BY <2>1, <2>2
    <2>4. heap'[id] \in [class : ParserClasses, config : Configs]
      <3>1. heap' \in Seq([class : ParserClasses, config : Configs])
        BY <1>1 DEF Shape
      <3>2. Len(heap) \in Nat /\ id \in 1 .. Len(heap')
        BY <1>1, <2>2
      <3>. QED
        BY <3>1, <3>2, ElementOfSeq
    <2>. QED
      BY <2>3, <2>4
  <1>4. DOMAIN latest' = DOMAIN parsers'
    BY <1>1, <1>2 DEF Current
  <1>5. ASSUME status = "running", NEW n \in DOMAIN workers',
               latest'[n][heap'[parsers'[n]].class] # Registry!Either
        PROVE  heap'[parsers'[n]].config = latest'[n][heap'[parsers'[n]].class]
    <2>1. CASE n = name
      BY <1>1, <1>2, <1>3, <2>1
    <2>2. CASE n # name
      <3>1. n \in DOMAIN parsers /\ parsers'[n] = parsers[n] /\ n \in DOMAIN workers
        BY <1>1, <2>2 DEF Current, RegistryInv, Shape
      <3>2. heap'[parsers'[n]] = heap[parsers[n]]
        BY <1>1, <3>1 DEF Current, RegistryInv, Numbered
      <3>3. latest'[n] = latest[n]
        BY <1>2, <2>2, <3>1 DEF Current
      <3>. QED
        BY <1>5, <3>1, <3>2, <3>3 DEF Current, Registry!ConfigsCurrent
    <2>. QED
      BY <2>1, <2>2
  <1>6. Registry!ConfigsCurrent'
    BY <1>2, <1>5 DEF Registry!ConfigsCurrent
  <1>. QED
    BY <1>1, <1>4, <1>6 DEF Current

(* parse_all() gives every live parser the section of the document, if it  *)
(* has one; if it is stopped, none whose section was absent changes.       *)
LEMMA ParseAllCurrent ==
  ASSUME Current, NEW doc \in ParserDocuments, Registry!ParseAll(doc)
  PROVE  Registry!ConfigsCurrent' /\ DOMAIN latest' = DOMAIN latest
  <1>. DEFINE visited == Registry!Visited(doc)
              stopped == {n \in visited : Registry!Stops(n, doc)}
              written == {n \in visited : ~Registry!Dangling(n)}
              Hit(i) == \E n \in written : parsers[n] = i
              By(i) == CHOOSE n \in written : parsers[n] = i
  <1>1. /\ heap' = [i \in DOMAIN heap |->
                      IF Hit(i) THEN Registry!Parsed(By(i), doc) ELSE heap[i]]
        /\ workers' = workers /\ parsers' = parsers
        /\ status = "running"
        /\ latest' = [n \in DOMAIN latest |-> [c \in ParserClasses |->
                        IF doc[c] = "absent" THEN latest[n][c]
                        ELSE IF stopped = {} THEN [text |-> doc[c], from |-> doc]
                        ELSE Registry!Either]]
    BY DEF Registry!ParseAll
  <1>. HIDE DEF visited, stopped, written, Hit, By
  <1>0. DOMAIN latest' = DOMAIN latest
    BY <1>1
  <1>. SUFFICES ASSUME NEW n \in DOMAIN workers,
                       latest'[n][heap'[parsers[n]].class] # Registry!Either
                PROVE  heap'[parsers[n]].config
                         = latest'[n][heap'[parsers[n]].class]
    <2>1. workers' = workers /\ parsers' = parsers
      BY <1>1
    <2>. QED
      BY <1>0, <2>1, Zenon DEF Registry!ConfigsCurrent
  <1>2. /\ n \in DOMAIN parsers /\ n \in DOMAIN latest
        /\ parsers[n] \in DOMAIN heap
        /\ heap[parsers[n]] \in [class : ParserClasses, config : Configs]
    <2>1. n \in DOMAIN parsers /\ parsers[n] \in 1 .. Len(heap)
      BY DEF Current, RegistryInv, Shape, Numbered
    <2>2. /\ DOMAIN heap = 1 .. Len(heap)
          /\ heap \in
               [1 .. Len(heap) -> [class : ParserClasses, config : Configs]]
      BY LenProperties DEF Current, RegistryInv, Shape
    <2>. QED
      BY <2>1, <2>2 DEF Current
  <1>3. ~Registry!Dangling(n)
    BY <1>2 DEF Current, RegistryInv, Owned, Registry!Dangling, Registry!Kept,
                Registry!Range, Range, ItemsOf
  <1>. DEFINE p == heap[parsers[n]]
              parsed == IF doc[p.class] = "absent" THEN p
                        ELSE [p EXCEPT !.config = [text |-> doc[p.class],
                                                   from |-> doc]]
  <1>4. heap'[parsers[n]] \in {p, parsed} /\ heap'[parsers[n]].class = p.class
    <2>1. CASE Hit(parsers[n])
      <3>1. parsers[By(parsers[n])] = parsers[n]
        BY <2>1 DEF Hit, By
      <3>2. heap'[parsers[n]] = Registry!Parsed(By(parsers[n]), doc)
        BY <1>1, <1>2, <2>1
      <3>3. heap'[parsers[n]] = parsed
        BY <3>1, <3>2 DEF Registry!Parsed
      <3>. QED
        BY <1>2, <3>3
    <2>2. CASE ~Hit(parsers[n])
      BY <1>1, <1>2, <2>2
    <2>. QED
      BY <2>1, <2>2
  <1>5. p.config = latest[n][p.class] \/ latest[n][p.class] = Registry!Either
    BY <1>1 DEF Current, Registry!ConfigsCurrent
  <1>6. \A c \in ParserClasses :
          latest'[n][c] =
            IF doc[c] = "absent" THEN latest[n][c]
            ELSE IF stopped = {} THEN [text |-> doc[c], from |-> doc]
            ELSE Registry!Either
    BY <1>1, <1>2
  <1>7. p.class \in ParserClasses
    BY <1>2
  <1>8. CASE doc[p.class] = "absent"
    <2>1. latest'[n][p.class] = latest[n][p.class]
      BY <1>6, <1>7, <1>8
    <2>2. heap'[parsers[n]] = p
      BY <1>4, <1>8
    <2>. QED
      BY <1>4, <1>5, <2>1, <2>2
  <1>9. CASE doc[p.class] # "absent" /\ stopped = {}
    <2>1. n \in written
      BY <1>2, <1>3, <1>9, AllVisited DEF Current, visited, stopped, written
    <2>2. Hit(parsers[n]) /\ parsers[By(parsers[n])] = parsers[n]
      BY <2>1 DEF Hit, By
    <2>3. heap'[parsers[n]] = Registry!Parsed(By(parsers[n]), doc)
      BY <1>1, <1>2, <2>2
    <2>4. heap'[parsers[n]] = parsed
      BY <2>2, <2>3 DEF Registry!Parsed
    <2>5. latest'[n][p.class] = [text |-> doc[p.class], from |-> doc]
      BY <1>6, <1>7, <1>9
    <2>. QED
      BY <1>2, <1>4, <1>9, <2>4, <2>5
  <1>10. CASE doc[p.class] # "absent" /\ stopped # {}
    <2>1. latest'[n][p.class] = Registry!Either
      BY <1>6, <1>7, <1>10
    <2>. QED
      BY <1>4, <2>1
  <1>. QED
    BY <1>8, <1>9, <1>10

LEMMA StepCurrent ==
  ASSUME Current, [Registry!Next]_Registry!vars
  PROVE  Current'
  <1>. RegistryInv'
    BY StepInv DEF Current
  <1>1. ASSUME NEW n \in Names, NEW c \in ParserClasses,
               Registry!Register(n, c) \/ Registry!RegisterTyped(n, c)
        PROVE  Current'
    BY <1>1, EnterCurrent DEF Registry!Register, Registry!RegisterTyped
  <1>2. ASSUME NEW n \in Names, NEW c \in ParserClasses,
               Registry!Unregister(n, c)
        PROVE  Current'
    <2>1. /\ UNCHANGED <<parsers, heap, status, latest>>
          /\ DOMAIN workers' \subseteq DOMAIN workers
      BY <1>2 DEF Registry!Unregister, Registry!UnregisterType,
                  Registry!Restrict
    <2>. QED
      BY <2>1 DEF Current, Registry!ConfigsCurrent
  <1>3. ASSUME NEW doc \in ParserDocuments, Registry!ParseAll(doc)
        PROVE  Current'
    <2>1. parsers' = parsers
      BY <1>3 DEF Registry!ParseAll
    <2>. QED
      BY <1>3, <2>1, ParseAllCurrent DEF Current
  <1>4. CASE Registry!ValidateAll
    BY <1>4 DEF Registry!ValidateAll, Current, Registry!ConfigsCurrent
  <1>5. CASE UNCHANGED Registry!vars
    BY <1>5 DEF Registry!vars, Current, Registry!ConfigsCurrent
  <1>. QED
    BY <1>1, <1>2, <1>3, <1>4, <1>5 DEF Registry!Next

(* Whatever documents are parsed and in whatever order names are           *)
(* registered, again too, and unregistered: the configuration of a parser  *)
(* is that of its section in the last document since its registration that *)
(* had one, and empty before the first, unless the parse of that document  *)
(* was broken off.                                                         *)
THEOREM ConfigsAreCurrent == Spec => []ConfigsCurrent
  <1>. DEFINE Inv == part = "registry" => Current
  <1>1. Registry!Init => Current
    <2>. SUFFICES ASSUME Registry!Init PROVE Current
      OBVIOUS
    <2>1. DOMAIN workers = {} /\ DOMAIN parsers = {} /\ latest = parsers
      BY DEF Registry!Init, Registry!NoWorkers
    <2>. QED
      BY <2>1, InitInv DEF Current, Registry!ConfigsCurrent
  <1>2. Init => Inv
    BY <1>1, RegistryPart
  <1>3. Inv /\ [Next]_vars => Inv'
    BY RegistryPart, StepCurrent
  <1>4. Inv => ConfigsCurrent
    BY DEF Current, ConfigsCurrent
  <1>. QED
    BY <1>2, <1>3, <1>4, PTL DEF Spec

HIDE DEF parsers, types, heap, status, mixed, latest

----------------------------------------------------------------------------
(* The objects made by name.                                               *)
objs == v2
made == v3
first == v4
USE DEF objs, made, first

LEMMA PrototypePart ==
  /\ Init /\ part = "prototype" => Prototype!Init
  /\ [Next]_vars => /\ part' = part
                    /\ part = "prototype" => [Prototype!Next]_Prototype!vars
  BY DEF Init, Next, vars, Prototype!vars

Requests == [args : Args, class : ObjectClasses]

(* The null pointer is what is cached for a name that had no worker.       *)
NullCached == \A n \in DOMAIN objs : first[n].class = Null => objs[n] = Null

(* Every object made is kept, by one worker; it was made for one name.     *)
PrototypeInv ==
  /\ workers \in [DOMAIN workers -> [makes : ObjectClasses, items : Seq(Nat)]]
  /\ made \in Seq(Requests)
  /\ DOMAIN first = DOMAIN objs
  /\ Prototype!Kept(workers) = 1 .. Len(made)
  /\ NullCached
  /\ Prototype!FirstRequestDecides

LEMMA NewWorkerKeepsNothing ==
  ASSUME PrototypeInv, NEW name \in Names, NEW class \in ObjectClasses,
         Prototype!Register(name, class)
  PROVE  PrototypeInv'
  <1>1. CASE name \in DOMAIN workers
    BY <1>1 DEF Prototype!Register, Prototype!RegisterType, PrototypeInv,
                Prototype!FirstRequestDecides, NullCached
  <1>2. CASE name \notin DOMAIN workers
    <2>. DEFINE new == [makes |-> class, items |-> <<>>]
    <2>1. /\ workers' = [n \in DOMAIN workers \cup {name} |->
                           IF n = name THEN new ELSE workers[n]]
          /\ UNCHANGED <<objs, made, first>>
      BY <1>2 DEF Prototype!Register, Prototype!RegisterType, Prototype!Put
    <2>2. new \in [makes : ObjectClasses, items : Seq(Nat)]
      OBVIOUS
    <2>3. Prototype!Range(new.items) = {}
      <3>1. DOMAIN new.items = {}
        OBVIOUS
      <3>. QED
        BY <3>1 DEF Prototype!Range
    <2>. HIDE DEF new
    <2>4. workers' \in
            [DOMAIN workers' -> [makes : ObjectClasses, items : Seq(Nat)]]
      BY <2>1, <2>2 DEF PrototypeInv
    <2>5. Prototype!Kept(workers') = Prototype!Kept(workers)
      <3>1. /\ DOMAIN workers' = DOMAIN workers \cup {name}
            /\ workers'[name] = new
            /\ \A n \in DOMAIN workers : workers'[n] = workers[n]
        BY <1>2, <2>1
      <3>. QED
        BY <2>3, <3>1, Zenon DEF Prototype!Kept
    <2>. QED
      BY <2>1, <2>4, <2>5 DEF PrototypeInv, Prototype!FirstRequestDecides, NullCached
  <1>. QED
    BY <1>1, <1>2

LEMMA MadeForOneName ==
  ASSUME PrototypeInv, NEW name \in Names, NEW args \in Args,
         Prototype!CreateObject(name, args)
  PROVE  PrototypeInv'
  <1>. DEFINE id == Len(made) + 1
              request == [args |-> args, class |-> workers[name].makes]
  <1>0. Len(made) \in Nat /\ id \in Nat /\ DOMAIN made = 1 .. Len(made)
    BY DEF PrototypeInv
  <1>1. CASE name \in DOMAIN objs
    BY <1>1 DEF Prototype!CreateObject, PrototypeInv,
                Prototype!FirstRequestDecides, NullCached
  <1>2. CASE name \notin DOMAIN objs /\ name \in DOMAIN workers
    <2>1. /\ workers' = [workers EXCEPT ![name].items = Append(@, id)]
          /\ made' = Append(made, request)
          /\ objs' = [n \in DOMAIN objs \cup {name} |->
                        IF n = name THEN id ELSE objs[n]]
          /\ first' = [n \in DOMAIN first \cup {name} |->
                         IF n = name THEN request ELSE first[n]]
      BY <1>2 DEF Prototype!CreateObject, Prototype!Request, Prototype!Create,
                  Prototype!Put, PrototypeInv
    <2>2. /\ workers[name].makes \in ObjectClasses
          /\ workers[name].items \in Seq(Nat)
          /\ request \in Requests
      BY <1>2 DEF PrototypeInv, Requests
    <2>3. Append(workers[name].items, id) \in Seq(Nat)
      BY <1>0, <2>2, AppendProperties
    <2>4. /\ workers' \in
               [DOMAIN workers' -> [makes : ObjectClasses, items : Seq(Nat)]]
          /\ DOMAIN workers' = DOMAIN workers
          /\ workers'[name].items = Append(workers[name].items, id)
          /\ \A n \in DOMAIN workers \ {name} : workers'[n] = workers[n]
      BY <1>2, <2>1, <2>3 DEF PrototypeInv
    <2>. HIDE DEF request, id
    <2>5. /\ made' \in Seq(Requests) /\ Len(made') = id
          /\ made'[id] = request
          /\ \A i \in 1 .. Len(made) : made'[i] = made[i]
      BY <2>1, <2>2, AppendProperties DEF PrototypeInv, id
    <2>6. Prototype!Kept(workers') = Prototype!Kept(workers) \cup {id}
      <3>. DEFINE old == workers[name].items
      <3>1. old \in Seq(Nat) /\ id \in Nat
        BY <1>0, <2>2
      <3>. HIDE DEF old
      <3>2. Range(Append(old, id)) = Range(old) \cup {id}
        BY <3>1, RangeOfAppend
      <3>3. Range(workers'[name].items) = Range(workers[name].items) \cup {id}
        BY <2>4, <3>2 DEF old
      <3>4. \A n \in DOMAIN workers \ {name} :
              Range(workers'[n].items) = Range(workers[n].items)
        BY <2>4
      <3>5. /\ Prototype!Kept(workers) =
                 UNION {Range(workers[n].items) : n \in DOMAIN workers}
            /\ Prototype!Kept(workers') =
                 UNION {Range(workers'[n].items) : n \in DOMAIN workers}
        BY <2>4 DEF Prototype!Kept, Prototype!Range, Range
      <3>. HIDE DEF old
      <3>. QED
        BY <1>2, <3>3, <3>4, <3>5
    <2>7. Prototype!Kept(workers') = 1 .. Len(made')
      BY <1>0, <2>5, <2>6 DEF PrototypeInv, id
    <2>8. request.class # Null
      BY <2>2, PrototypeAssumption DEF request
    <2>9. /\ DOMAIN objs' = DOMAIN objs \cup {name}
          /\ DOMAIN first' = DOMAIN objs \cup {name}
          /\ objs'[name] = id /\ first'[name] = request
          /\ \A n \in DOMAIN objs : objs'[n] = objs[n] /\ first'[n] = first[n]
      BY <1>2, <2>1 DEF PrototypeInv
    <2>10. \A n \in DOMAIN objs : objs[n] \in 1 .. Len(made) \/ objs[n] = Null
      BY DEF PrototypeInv, Prototype!FirstRequestDecides, NullCached
    <2>11. id # Null /\ id \notin 1 .. Len(made)
      BY <1>0, PrototypeAssumption DEF id
    <2>12. Prototype!FirstRequestDecides' /\ NullCached'
      <3>1. ASSUME NEW n \in DOMAIN objs, first[n].class # Null
            PROVE  /\ objs'[n] \in Prototype!Kept(workers')
                   /\ made'[objs'[n]] = first'[n]
                   /\ \A m \in DOMAIN objs' : objs'[m] = objs'[n] => m = n
        BY <2>5, <2>6, <2>9, <2>11, <3>1
        DEF PrototypeInv, Prototype!FirstRequestDecides, NullCached
      <3>2. ASSUME NEW n \in DOMAIN objs, first[n].class = Null
            PROVE  objs'[n] = Null
        BY <2>9, <3>2 DEF PrototypeInv, Prototype!FirstRequestDecides, NullCached
      <3>3. /\ objs'[name] \in Prototype!Kept(workers')
            /\ made'[objs'[name]] = first'[name]
            /\ \A m \in DOMAIN objs' : objs'[m] = objs'[name] => m = name
        BY <2>5, <2>6, <2>9, <2>10, <2>11
      <3>. QED
        BY <2>8, <2>9, <3>1, <3>2, <3>3 DEF Prototype!FirstRequestDecides, NullCached
    <2>. QED
      BY <2>4, <2>5, <2>7, <2>9, <2>12 DEF PrototypeInv
  <1>3. CASE name \notin DOMAIN objs /\ name \notin DOMAIN workers
    <2>1. /\ objs' = [n \in DOMAIN objs \cup {name} |->
                        IF n = name THEN Null ELSE objs[n]]
          /\ first' = [n \in DOMAIN first \cup {name} |->
                         IF n = name THEN [args |-> args, class |-> Null]
                         ELSE first[n]]
          /\ UNCHANGED <<workers, made>>
      BY <1>3 DEF Prototype!CreateObject, Prototype!Request, Prototype!Put,
                  PrototypeInv
    <2>2. /\ DOMAIN objs' = DOMAIN objs \cup {name}
          /\ DOMAIN first' = DOMAIN objs \cup {name}
          /\ objs'[name] = Null /\ first'[name].class = Null
          /\ \A n \in DOMAIN objs : objs'[n] = objs[n] /\ first'[n] = first[n]
      BY <1>3, <2>1 DEF PrototypeInv
    <2>3. \A i \in 1 .. Len(made) : i # Null
      BY PrototypeAssumption
    <2>4. Prototype!FirstRequestDecides' /\ NullCached'
      BY <2>1, <2>2, <2>3 DEF PrototypeInv, Prototype!FirstRequestDecides, NullCached
    <2>. QED
      BY <2>1, <2>2, <2>4 DEF PrototypeInv
  <1>. QED
    BY <1>1, <1>2, <1>3

(* For any names, classes and arguments, and in whatever order names are   *)
(* registered and asked for: the first request for a name decides what     *)
(* every later one returns, if the name was registered by then, and no two *)
(* names share an object.                                                  *)
THEOREM FirstRequestsDecide == Spec => []FirstRequestDecides
  <1>. DEFINE Inv == part = "prototype" => PrototypeInv
  <1>1. Prototype!Init => PrototypeInv
    <2>. SUFFICES ASSUME Prototype!Init PROVE PrototypeInv
      OBVIOUS
    <2>1. /\ workers = <<>> /\ objs = <<>> /\ made = <<>> /\ first = <<>>
      BY DEF Prototype!Init, Prototype!NoWorkers
    <2>2. /\ DOMAIN workers = {} /\ DOMAIN objs = {} /\ DOMAIN first = {}
          /\ Len(made) = 0 /\ made \in Seq(Requests)
      BY <2>1
    <2>3. workers \in [DOMAIN workers -> [makes : ObjectClasses, items : Seq(Nat)]]
      <3>1. workers \in Seq([makes : ObjectClasses, items : Seq(Nat)])
        BY <2>1
      <3>. QED
        BY <3>1, LenProperties
    <2>4. Prototype!Kept(workers) = 1 .. Len(made)
      BY <2>2 DEF Prototype!Kept
    <2>. QED
      BY <2>2, <2>3, <2>4 DEF PrototypeInv, Prototype!FirstRequestDecides, NullCached
  <1>2. PrototypeInv /\ [Prototype!Next]_Prototype!vars => PrototypeInv'
    <2>. SUFFICES ASSUME PrototypeInv, [Prototype!Next]_Prototype!vars
                  PROVE  PrototypeInv'
      OBVIOUS
    <2>1. CASE UNCHANGED Prototype!vars
      BY <2>1 DEF Prototype!vars, PrototypeInv, Prototype!FirstRequestDecides, NullCached
    <2>. QED
      BY <2>1, NewWorkerKeepsNothing, MadeForOneName DEF Prototype!Next
  <1>3. Init => Inv
    BY <1>1, PrototypePart
  <1>4. Inv /\ [Next]_vars => Inv'
    BY <1>2, PrototypePart
  <1>5. Inv => FirstRequestDecides
    BY DEF PrototypeInv, FirstRequestDecides
  <1>. QED
    BY <1>3, <1>4, <1>5, PTL DEF Spec

HIDE DEF workers, objs, made, first

----------------------------------------------------------------------------
(* The documents that say which metrics are collected.                     *)
sinks == v1
config == v2
broken == v3
last == v4
USE DEF sinks, config, broken, last

LEMMA ConfigPart ==
  /\ Init /\ part = "config" => Config!Init
  /\ [Next]_vars => /\ part' = part
                    /\ part = "config" => [Config!Next]_Config!vars
  BY DEF Init, Next, vars, Config!vars

Sections == [Config!Modes -> {Absent} \cup Config!Subsections]

(* As long as no parse threw, the configuration is what a document with a  *)
(* file section had in it, and nothing is at fault there.                  *)
ConfigInv ==
  /\ last.file \in {Absent} \cup Sections
  /\ ~broken /\ last.file # Absent =>
       /\ Config!Faults(last.file) = {}
       /\ config.csv = Config!SinkRead(last.file)

LEMMA SinkReadThere ==
  ASSUME NEW section \in Sections
  PROVE  Config!SinkRead(section) # Absent
  <1>1. Config!SinkRead(section) \in [Config!Modes -> Config!Subsections]
    BY DEF Config!SinkRead, Sections, Config!Disabled, Config!Subsections
  <1>. QED
    BY <1>1, MetricsAssumption

LEMMA ParseFollows ==
  ASSUME NEW doc \in MetricsDocuments, Config!Parse(doc)
  PROVE  ConfigInv'
  <1>1. doc.file \in {Absent} \cup Sections /\ last'.file = doc.file
    BY MetricsAssumption DEF Sections, Config!Parse
  <1>2. ASSUME ~broken', doc.file # Absent
        PROVE  /\ Config!Faults(doc.file) = {}
               /\ config'.csv = Config!SinkRead(doc.file)
    <2>1. ~Config!Throws(doc)
      BY <1>2 DEF Config!Parse
    <2>2. /\ sinks'.csv = Config!SinkParse(sinks.csv, doc.file)
          /\ config'.csv = IF sinks'.csv = Absent THEN Config!NoFile
                           ELSE sinks'.csv
      BY <2>1 DEF Config!Parse
    <2>. QED
      BY <1>1, <1>2, <2>1, <2>2, SinkReadThere
      DEF Config!SinkParse, Config!Throws
  <1>. QED
    BY <1>1, <1>2 DEF ConfigInv, Config!Faults, Config!SinkRead

(* In a section without a fault a collector is enabled where it is listed. *)
LEMMA EnabledWhereListed ==
  ASSUME ConfigInv, ~broken, last.file # Absent, NEW c
  PROVE  Config!EnabledIn(c) =
           {m \in Config!Modes : /\ last.file[m] # Absent
                                 /\ c \in last.file[m].enabled}
  <1>1. Config!Disabled.enabled = {}
    BY DEF Config!Disabled
  <1>2. config.csv = [m \in Config!Modes |->
                        IF last.file[m] # Absent THEN last.file[m]
                        ELSE Config!Disabled]
    BY DEF ConfigInv, Config!SinkRead
  <1>. QED
    BY <1>1, <1>2 DEF Config!EnabledIn

LEMMA CardinalityIs == \A S : Config!Cardinality(S) = Cardinality(S)
  BY DEF Config!Cardinality, Cardinality

LEMMA RegisteredWhereEnabled ==
  ASSUME NEW c \in Collectors
  PROVE  LET E == Config!EnabledIn(c)
             spec == Config!RegistrationSpec(c)
         IN  /\ spec = "disabled" <=> E = {}
             /\ spec \in Config!Modes => E = {spec}
  <1>. DEFINE E == Config!EnabledIn(c)
              spec == Config!RegistrationSpec(c)
              chosen == CHOOSE m \in Config!Modes : m \in E
  <1>1. E \in SUBSET Config!Modes
    BY DEF Config!EnabledIn
  <1>2. IsFiniteSet(Config!Modes)
    <2>1. IsFiniteSet({"create"}) /\ IsFiniteSet({"append"})
            /\ IsFiniteSet({"truncate"})
      BY FS_Singleton
    <2>2. IsFiniteSet({"create"} \cup {"append"} \cup {"truncate"})
      BY <2>1, FS_Union
    <2>3. Config!Modes = {"create"} \cup {"append"} \cup {"truncate"}
      BY DEF Config!Modes
    <2>. QED
      BY <2>2, <2>3
  <1>3. IsFiniteSet(E) /\ Cardinality(E) \in Nat
    BY <1>1, <1>2, FS_Subset, FS_CardinalityType
  <1>4. spec = CASE Cardinality(E) > 1 -> "halt"
                 [] E = {} -> "disabled"
                 [] OTHER -> IF chosen \in Allowed[c] THEN chosen ELSE "halt"
    BY CardinalityIs DEF Config!RegistrationSpec
  <1>5. "halt" \notin Config!Modes /\ "disabled" \notin Config!Modes
    BY DEF Config!Modes
  <1>. HIDE DEF E, spec
  <1>6. CASE E = {}
    <2>1. Cardinality(E) = 0
      BY <1>6, FS_EmptySet
    <2>2. spec = "disabled"
      BY <1>4, <1>6, <2>1
    <2>. QED
      BY <1>5, <1>6, <2>2 DEF E, spec
  <1>7. CASE E # {} /\ Cardinality(E) > 1
    <2>1. spec = "halt"
      BY <1>4, <1>7
    <2>. QED
      BY <1>5, <1>7, <2>1 DEF E, spec
  <1>8. CASE E # {} /\ ~(Cardinality(E) > 1)
    <2>1. Cardinality(E) = 1
      BY <1>3, <1>8, FS_EmptySet
    <2>2. PICK m : E = {m}
      BY <1>3, <2>1, FS_Singleton
    <2>3. chosen = m /\ m \in Config!Modes
      BY <1>1, <2>2
    <2>4. spec = m \/ spec = "halt"
      BY <1>4, <1>8, <2>3
    <2>. QED
      BY <1>5, <1>8, <2>2, <2>3, <2>4 DEF E, spec
  <1>. QED
    BY <1>6, <1>7, <1>8

(* Whatever documents are parsed one after another, none of them rejected: *)
(* if the last one has a file section, every collector is registered with  *)
(* the mode under which this section lists it, or rejected, and with none  *)
(* when it is listed no more.                                              *)
THEOREM CollectorsFollowDocuments == Spec => []CollectorsFollowDocument
  <1>. DEFINE Inv == part = "config" => ConfigInv
  <1>1. Init => Inv
    BY ConfigPart DEF Config!Init, ConfigInv
  <1>2. Inv /\ [Next]_vars => Inv'
    <2>1. ConfigInv /\ UNCHANGED Config!vars => ConfigInv'
      BY DEF ConfigInv, Config!vars, Config!Faults, Config!SinkRead
    <2>. QED
      BY <2>1, ConfigPart, ParseFollows DEF Config!Next
  <1>3. Inv => CollectorsFollowDocument
    <2>. SUFFICES ASSUME part = "config", ConfigInv
                  PROVE  Config!CollectorsFollowDocument
      BY DEF CollectorsFollowDocument
    <2>. QED
      BY EnabledWhereListed, RegisteredWhereEnabled
      DEF Config!CollectorsFollowDocument
  <1>. QED
    BY <1>1, <1>2, <1>3, PTL DEF Spec

HIDE DEF sinks, config, broken, last
=============================================================================
