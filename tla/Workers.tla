------------------------------ MODULE Workers ------------------------------
(***************************************************************************)
(* multithread::threadable and multiprocess::forkable: an object whose     *)
(* owner starts a worker, a thread or a child process, which runs the main *)
(* function of the derived class.  The two differ in what the worker       *)
(* shares with the owner: a thread reads the members of the object, a      *)
(* child process has a copy of them, made by fork().                       *)
(*                                                                         *)
(* The owner waits for a worker (join(), or waitpid() of pid()) before it  *)
(* starts another, MaxStarts in all (a bound of the model); a start() that *)
(* returned an error it may repeat at once.  Another thread of the owner   *)
(* may call term() at any time.  The main function of a worker loops while *)
(* terminated() is false; a thread may also end by exit(), a child by      *)
(* exiting the process.  A child that comes back from start() runs the     *)
(* code of the owner: it is astray.                                        *)
(*                                                                         *)
(* An operator X_Fault is no part of the model: it is X with a plausible   *)
(* bug, kept to show that a property is able to fail.                      *)
(***************************************************************************)
EXTENDS Naturals

CONSTANTS
  Kinds,        (* "thread" (threadable) and "process" (forkable) *)
  Args,         (* arguments of threadable::start() *)
  NoArg,        (* nullptr *)
  MaxStarts,    (* bound: workers one object starts *)
  BindFails     (* may binding a thread to its core fail? *)

ASSUME WorkersAssumption ==
  /\ Kinds \subseteq {"thread", "process"}
  /\ NoArg \notin Args
  /\ MaxStarts \in Nat
  /\ BindFails \in BOOLEAN

VARIABLES
  kind,     (* the class of the object *)
  flag,     (* m_thread_run or m_proc_run in the owner's memory *)
  arg,      (* m_arg *)
  pc,       (* where the owner is in start() *)
  asked,    (* the argument of that start() *)
  started,  (* workers started so far *)
  handle,   (* m_thread or m_pid: the last worker started, or 0 *)
  worker,   (* each worker: its place, arguments and copy of the flag *)
  joined,   (* has the owner nothing to wait for? *)
  failed,   (* history: workers whose start() returned an error *)
  told      (* has term() been called since the last start()? *)

vars == <<kind, flag, arg, pc, asked, started, handle, worker, joined, failed, told>>

Ids    == 1 .. MaxStarts
Worker == [pc : {"none", "new", "main", "astray", "done"},
           given : Args \cup {NoArg},   (* the argument its start() was given *)
           got : Args \cup {NoArg},     (* the one its main function was given *)
           flag : BOOLEAN]              (* a child's copy of the flag *)

NoWorker == [pc |-> "none", given |-> NoArg, got |-> NoArg, flag |-> FALSE]
Live(i)  == worker[i].pc \in {"new", "main", "astray"}
Move(i, from, to) ==
  /\ worker[i].pc = from
  /\ worker' = [worker EXCEPT ![i].pc = to]

(* What terminated() returns to worker i: threadable tests the flag, and   *)
(* forkable the opposite.                                                  *)
Terminated(i) == IF kind = "thread" THEN flag ELSE ~worker[i].flag

Init ==
  /\ kind \in Kinds
  /\ flag = FALSE
  /\ arg = NoArg
  /\ pc = "idle"
  /\ asked = NoArg
  /\ started = 0
  /\ handle = 0
  /\ worker = [i \in Ids |-> NoWorker]
  /\ joined = TRUE
  /\ failed = {}
  /\ told = FALSE

----------------------------------------------------------------------------
(* The owner *)

(* start(a) up to pthread_create() or fork() *)
Prepare_Fault(a) ==
  /\ pc = "idle" /\ (joined \/ handle \in failed)
  /\ started < MaxStarts
  /\ flag' = TRUE
  /\ asked' = a
  /\ pc' = "create"
  /\ told' = FALSE
  /\ UNCHANGED <<kind, arg, started, handle, worker, joined, failed>>

Prepare(a) ==
  /\ pc = "idle" /\ (joined \/ handle \in failed)
  /\ started < MaxStarts
  /\ flag' = TRUE
  /\ arg' = a
  /\ asked' = a
  /\ pc' = "create"
  /\ told' = FALSE
  /\ UNCHANGED <<kind, started, handle, worker, joined, failed>>

Create ==
  /\ pc = "create"
  /\ started' = started + 1
  /\ handle' = started + 1
  /\ worker' = [worker EXCEPT ![started + 1] =
                  [NoWorker EXCEPT !.pc = "new", !.given = asked, !.flag = flag]]
  /\ joined' = FALSE
  /\ pc' = IF kind = "thread" THEN "bind" ELSE "idle"
  /\ UNCHANGED <<kind, flag, arg, asked, failed, told>>

(* No worker: pthread_create() leaves its handle undefined, fork() sets    *)
(* the pid to -1.                                                          *)
CreateFails ==
  /\ pc = "create"
  /\ handle' = 0
  /\ joined' = TRUE
  /\ pc' = "idle"
  /\ UNCHANGED <<kind, flag, arg, asked, started, worker, failed, told>>

(* threadable::start() with a core: when the binding fails it returns an   *)
(* error, but the thread is running.                                       *)
Bind ==
  /\ pc = "bind"
  /\ pc' = "idle"
  /\ failed' \in {failed} \cup (IF BindFails THEN {failed \cup {handle}} ELSE {})
  /\ UNCHANGED <<kind, flag, arg, asked, started, handle, worker, joined, told>>

Term ==
  /\ flag' = FALSE
  /\ told' = TRUE
  /\ UNCHANGED <<kind, arg, pc, asked, started, handle, worker, joined, failed>>

Join_Fault ==
  /\ pc = "idle" /\ ~joined /\ handle \notin failed
  /\ joined' = TRUE
  /\ UNCHANGED <<kind, flag, arg, pc, asked, started, handle, worker, failed, told>>

Join ==
  /\ pc = "idle" /\ ~joined /\ handle \notin failed
  /\ worker[handle].pc = "done"
  /\ joined' = TRUE
  /\ UNCHANGED <<kind, flag, arg, pc, asked, started, handle, worker, failed, told>>

----------------------------------------------------------------------------
(* The workers *)

(* entry_point(); a thread reads m_arg only now. *)
Enter(i) ==
  /\ worker[i].pc = "new"
  /\ worker' = [worker EXCEPT ![i] = [@ EXCEPT !.pc = "main", !.got = arg]]
  /\ UNCHANGED <<kind, flag, arg, pc, asked, started, handle, joined, failed, told>>

(* A child cannot change to its directory: start() returns -1 in the child.*)
ChdirFails(i) ==
  /\ kind = "process" /\ Move(i, "new", "astray")
  /\ UNCHANGED <<kind, flag, arg, pc, asked, started, handle, joined, failed, told>>

(* The main function sees terminated() and returns; a child's start()      *)
(* then returns 0 in the child.                                            *)
Leave(i) ==
  /\ Terminated(i)
  /\ Move(i, "main", IF kind = "thread" THEN "done" ELSE "astray")
  /\ UNCHANGED <<kind, flag, arg, pc, asked, started, handle, joined, failed, told>>

(* threadable::exit() clears the flag; a child leaves with exit(2). *)
Exit(i) ==
  /\ Move(i, "main", "done")
  /\ flag' = IF kind = "thread" THEN FALSE ELSE flag
  /\ UNCHANGED <<kind, arg, pc, asked, started, handle, joined, failed, told>>

StrayEnds(i) ==
  /\ Move(i, "astray", "done")
  /\ UNCHANGED <<kind, flag, arg, pc, asked, started, handle, joined, failed, told>>

----------------------------------------------------------------------------
Next ==
  \/ \E a \in IF kind = "thread" THEN Args ELSE {NoArg} : Prepare(a)
  \/ Create \/ CreateFails \/ Bind \/ Term \/ Join
  \/ \E i \in Ids : Enter(i) \/ ChdirFails(i) \/ Leave(i) \/ Exit(i) \/ StrayEnds(i)

Spec == Init /\ [][Next]_vars

(* A worker keeps running: it enters its main function and leaves it when  *)
(* its test of terminated() says so (it does read the flag, a plain bool,  *)
(* in every round).  Nobody has to call start(), term(), join() or exit(). *)
FairSpec == Spec /\ \A i \in Ids : WF_vars(Enter(i)) /\ WF_vars(Leave(i))

----------------------------------------------------------------------------
(* Properties *)

(* Everything has its type. *)
TypeOK ==
  /\ kind \in Kinds
  /\ {flag, joined, told} \subseteq BOOLEAN
  /\ {arg, asked} \subseteq Args \cup {NoArg}
  /\ pc \in {"idle", "create", "bind"}
  /\ {started, handle} \subseteq 0 .. MaxStarts
  /\ worker \in [Ids -> Worker]
  /\ failed \subseteq Ids

(* No worker is left running behind the owner's back: one that runs is the *)
(* one that join() would wait for, or its start() returned an error.       *)
LiveAccounted ==
  \A i \in Ids : Live(i) => (i = handle /\ ~joined) \/ i \in failed

(* A thread is given the argument of its own start(), though it reads it   *)
(* from the object after start() may have returned, unless that start()    *)
(* returned an error and was repeated.                                     *)
ArgDelivered ==
  \A i \in Ids \ failed :
    worker[i].pc \in {"main", "done"} => worker[i].got = worker[i].given

(* A worker told to terminate leaves its main function. *)
StopsWhenTold ==
  \A i \in Ids :
    (told /\ worker[i].pc = "main" /\ i = handle)
      ~> (~told \/ worker[i].pc # "main")
=============================================================================
