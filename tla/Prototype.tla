----------------------------- MODULE Prototype -----------------------------
(***************************************************************************)
(* caching_factory, and rngm, the singleton made of it: the first request  *)
(* for a name creates an object of the class registered for the name, and  *)
(* every later request returns the same pointer, whatever its arguments.   *)
(*                                                                         *)
(* CreateObject_NoCache is a faulty variant; no specification uses it.     *)
(***************************************************************************)
EXTENDS Integers, Factory

CONSTANTS
  Names, Classes,
  Args,        \* constructor arguments (the seed of an rng)
  Null,        \* the null pointer
  MaxObjects   \* bound on the objects made in a behaviour

VARIABLES
  workers,     \* m_factory
  objs,        \* m_objs: name -> object
  made,        \* the objects made: [class, args]
  first        \* history: name -> its first request

vars == <<workers, objs, made, first>>

Init == workers = NoWorkers /\ objs = <<>> /\ made = <<>> /\ first = <<>>

Register(name, class) ==
  /\ workers' = RegisterType(workers, name, class)
  /\ UNCHANGED <<objs, made, first>>

Request(name, args) ==
  [args |-> args,
   class |-> IF name \in DOMAIN workers THEN workers[name].makes ELSE Null]

(* Mutant: the cache is filled and never looked up.                        *)
CreateObject_NoCache(name, args) ==
  /\ Len(made) < MaxObjects
  /\ first' = IF name \in DOMAIN first THEN first
              ELSE Put(first, name, Request(name, args))
  /\ IF name \in DOMAIN workers
     THEN /\ workers' = Create(workers, name, Len(made) + 1)
          /\ made' = Append(made, Request(name, args))
          /\ objs' = Put(objs, name, Len(made) + 1)
     ELSE /\ objs' = Put(objs, name, Null)
          /\ UNCHANGED <<workers, made>>

(* create(): a name that has no worker is remembered with a null pointer.  *)
CreateObject(name, args) ==
  /\ Len(made) < MaxObjects
  /\ first' = IF name \in DOMAIN first THEN first
              ELSE Put(first, name, Request(name, args))
  /\ IF name \in DOMAIN objs
     THEN UNCHANGED <<workers, objs, made>>
     ELSE IF name \in DOMAIN workers
     THEN /\ workers' = Create(workers, name, Len(made) + 1)
          /\ made' = Append(made, Request(name, args))
          /\ objs' = Put(objs, name, Len(made) + 1)
     ELSE /\ objs' = Put(objs, name, Null)
          /\ UNCHANGED <<workers, made>>

Next ==
  \E n \in Names :
    \/ \E c \in Classes : Register(n, c)
    \/ \E a \in Args : CreateObject(n, a)

Spec == Init /\ [][Next]_vars

----------------------------------------------------------------------------
TypeOK ==
  /\ DOMAIN workers \subseteq Names
  /\ DOMAIN objs \subseteq Names /\ DOMAIN first = DOMAIN objs
  /\ Kept(workers) = DOMAIN made

(* The first request for a registered name decides for good: every later   *)
(* one returns the object made of the class and the arguments of that      *)
(* moment, which the factory keeps and no other name shares, whatever is   *)
(* registered and asked for since.  (A name whose first request came       *)
(* before its registration is left open: documented is that it gets an     *)
(* object later, and the code keeps returning the null pointer it cached.) *)
FirstRequestDecides ==
  \A n \in DOMAIN objs :
    first[n].class # Null =>
      /\ objs[n] \in Kept(workers) /\ made[objs[n]] = first[n]
      /\ \A k \in DOMAIN objs : objs[k] = objs[n] => k = n
=============================================================================
