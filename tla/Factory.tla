------------------------------ MODULE Factory ------------------------------
(***************************************************************************)
(* base_factory with shared ownership: a map from names to workers.  A     *)
(* worker makes objects of one class and keeps every object it made; when  *)
(* the worker is erased, objects that nobody else holds are destroyed.     *)
(***************************************************************************)
EXTENDS Sequences, Functions

(* map[key] = value, of a std::map.                                         *)
Put(map, key, value) ==
  [k \in DOMAIN map \cup {key} |-> IF k = key THEN value ELSE map[k]]

NoWorkers == <<>>

(* register_type() leaves a name that has a worker alone.                  *)
RegisterType(workers, name, class) ==
  IF name \in DOMAIN workers
  THEN workers
  ELSE Put(workers, name, [makes |-> class, items |-> <<>>])

UnregisterType(workers, name) ==
  Restrict(workers, DOMAIN workers \ {name})

(* create(), for a name with a worker, of the object to be known as id.    *)
Create(workers, name, id) ==
  [workers EXCEPT ![name].items = Append(@, id)]

(* The objects that the factory keeps alive.                               *)
Kept(workers) == UNION {Range(workers[n].items) : n \in DOMAIN workers}
=============================================================================
