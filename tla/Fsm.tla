-------------------------------- MODULE Fsm --------------------------------
(***************************************************************************)
(* The event engine of rcppsw::patterns::fsm: base_fsm (simple state maps  *)
(* and extended ones with guard, entry and exit callbacks) and hfsm (a     *)
(* handler that does not handle an event passes it to its parent state).   *)
(*                                                                         *)
(* A derived FSM supplies the callbacks.  The engine runs them             *)
(* synchronously, so the only interleaving is that of the engine's steps   *)
(* with whatever a callback calls before it returns: internal_event(),     *)
(* event_data_hold(), event_data_release(), change_parent() and, when      *)
(* Reentrant, external_event() or inject_event() of the same FSM, which    *)
(* starts a second engine loop under the running callback.  Callbacks are  *)
(* nondeterministic.                                                       *)
(*                                                                         *)
(* Event data is an identity; its signal, type and payload are abstracted, *)
(* since no property tells them apart.  States below the hierarchy's root  *)
(* that are in no state map are Composites.                                *)
(*                                                                         *)
(* An operator X_Fault is no part of the model: it is X with a plausible   *)
(* bug, kept to show that a property is able to fail.                      *)
(***************************************************************************)
EXTENDS Integers

CONSTANTS
  MaxStates,      (* mc_max_states *)
  InitialState,   (* the constructor's initial_state *)
  Composites,     (* parent states that are not rows of the state map *)
  Top,            (* hfsm::top_state() *)
  Hierarchy,      (* the parent of each composite: a composite or Top *)
  Data,           (* identities (addresses) of event_data objects *)
  NoData,         (* nullptr *)
  MaxDepth,       (* bound: engine loops on the call stack *)
  Reentrant,      (* do callbacks call external_event()/inject_event()? *)
  ErLevel         (* RCPPSW_ER: which assertions the build compiles in *)

ekIGNORED == 254
ekFATAL   == 255

States     == 0 .. MaxStates - 1
Nodes      == States \cup Composites \cup {Top}

ASSUME FsmAssumption ==
  /\ MaxStates \in 1 .. ekIGNORED - 1
  /\ InitialState \in States
  /\ Top \notin States \cup Composites
  /\ Composites \cap States = {}
  /\ Hierarchy \in [Composites -> Composites \cup {Top}]
  /\ NoData \notin Data \cup States
  /\ MaxDepth \in Nat \ {0}
  /\ Reentrant \in BOOLEAN
  /\ ErLevel \in {"NONE", "FATAL", "ALL"}

VARIABLES
  style,   (* which maps the derived class has, and whether it is an hfsm *)
  m,       (* the data members of base_fsm *)
  data,    (* m_event_data *)
  parent,  (* hfsm_state::m_parent of each state of the map *)
  frame,   (* the locals of each running engine loop *)
  depth,   (* how many engine loops are on the call stack *)
  mode,    (* "run", "aborted" or, past undefined behaviour, "undefined" *)
  inside,  (* history: states whose entry callback ran and exit did not *)
  skipped, (* history: states entered or left by init() or by a constructor, *)
           (* which run no callback, and no entry or exit of theirs since    *)
  bare     (* history: the derived class raised the event under way without *)
           (* data, or released its data                                    *)

hist == <<inside, skipped, bare>>
vars == <<style, m, data, parent, frame, depth, mode, hist>>

Styles     == [extended : BOOLEAN, hier : BOOLEAN]
Callbacks  == {"guard", "exit", "entry", "act"}
AssertHalts   == ErLevel = "ALL"
SentinelHalts == ErLevel # "NONE"

(* An unused stack slot.  `pc' is where the loop is, `to' and `from' the   *)
(* states whose guard/entry and exit pointers it fetched and `at' the      *)
(* state whose action runs.                                                *)
NoFrame == [pc |-> "idle", to |-> 0, from |-> 0, at |-> Top]

Frames == [pc : {"idle", "loop"} \cup Callbacks, to : States, from : States,
           at : Nodes]

----------------------------------------------------------------------------
(* Helpers *)

ParentOf(n)  == IF n \in States THEN parent[n] ELSE Hierarchy[n]
Running(pc)  == mode = "run" /\ depth > 0 /\ frame[depth].pc = pc
InCallback   == \E pc \in Callbacks : Running(pc)
SetFrame(f)  == frame' = [frame EXCEPT ![depth] = f]
InLoop       == SetFrame([NoFrame EXCEPT !.pc = "loop"])
InAction(n)  == SetFrame([NoFrame EXCEPT !.pc = "act", !.at = n])
Invoke(pc)   == SetFrame([frame[depth] EXCEPT !.pc = pc])

(* What a caller can pass as event data: the object the FSM holds (the     *)
(* one-argument internal_event() moves it), none, or another object, just  *)
(* allocated or released earlier.                                          *)
Payloads == Data \cup {NoData}

UpdateState(ms, s) ==
  [ms EXCEPT !.previous_state = IF s # ms.current_state THEN ms.current_state ELSE @,
             !.last_state     = ms.current_state,
             !.current_state  = s]

NextEvent(ms, s) == [ms EXCEPT !.next_state = s, !.event_generated = TRUE]

----------------------------------------------------------------------------
Init ==
  /\ style \in Styles
  /\ m = [current_state |-> InitialState, next_state |-> 0,
          initial_state |-> InitialState, previous_state |-> 0, last_state |-> 0,
          event_generated |-> FALSE, event_data_hold |-> FALSE]
  /\ data = NoData
  /\ parent = [s \in States |-> Top]
  /\ frame = [k \in 1 .. MaxDepth |-> NoFrame]
  /\ depth = 0
  /\ mode = "run"
  /\ inside = {}
  /\ skipped = {InitialState}
  /\ bare = FALSE

(* init(): back to the initial state, without exit or entry callbacks. *)
Reset ==
  /\ mode = "run" /\ depth = 0
  /\ m' = [UpdateState(m, m.initial_state) EXCEPT
             !.event_generated = FALSE, !.next_state = m.initial_state]
  /\ data' = NoData
  /\ skipped' = IF m.initial_state = m.current_state THEN skipped
                  ELSE skipped \cup {m.current_state, m.initial_state}
  /\ UNCHANGED <<style, parent, frame, depth, mode, inside, bare>>

(* The FSM is replaced by its copy: the copy constructor makes the current *)
(* state the initial one, takes neither the event nor its data, and runs   *)
(* no callback.                                                            *)
Copy ==
  /\ mode = "run" /\ depth = 0
  /\ m' = [m EXCEPT !.initial_state = m.current_state,
                    !.event_generated = FALSE, !.event_data_hold = FALSE]
  /\ data' = NoData
  /\ inside' = {}
  /\ skipped' = {m.current_state}
  /\ UNCHANGED <<style, parent, frame, depth, mode, bare>>

(* external_event(s, d) up to the first test of the engine loop; with      *)
(* s = current_state() it is inject_event().                               *)
ExternalEvent(s, d) ==
  /\ mode = "run" /\ depth < MaxDepth
  /\ depth = 0 \/ (Reentrant /\ InCallback)
  /\ m' = [NextEvent(m, s) EXCEPT !.event_data_hold = FALSE]
  /\ data' = d
  /\ depth' = depth + 1
  /\ frame' = [frame EXCEPT ![depth + 1] = [NoFrame EXCEPT !.pc = "loop"]]
  /\ bare' = (d = NoData)
  /\ UNCHANGED <<style, parent, mode, inside, skipped>>

(* external_event(ekFATAL): without halting assertions the engine goes on  *)
(* and indexes the state map out of its bounds.                            *)
FatalEvent_Fault ==
  /\ mode = "run" /\ depth < MaxDepth
  /\ depth = 0 \/ (Reentrant /\ InCallback)
  /\ m' = [NextEvent(m, ekFATAL) EXCEPT !.event_data_hold = FALSE]
  /\ UNCHANGED <<style, data, parent, frame, depth, mode, hist>>

FatalEvent ==
  /\ mode = "run" /\ depth < MaxDepth
  /\ depth = 0 \/ (Reentrant /\ InCallback)
  /\ mode' = IF AssertHalts THEN "aborted" ELSE "undefined"
  /\ UNCHANGED <<style, m, data, parent, frame, depth, hist>>

----------------------------------------------------------------------------
(* What a callback may call while it runs *)

InternalEvent_Fault(s, d) ==
  /\ InCallback
  /\ m' = NextEvent(m, s)
  /\ data' = IF d = data THEN NoData ELSE d
  /\ bare' = (d = NoData)
  /\ UNCHANGED <<style, parent, frame, depth, mode, inside, skipped>>

InternalEvent(s, d) ==
  /\ InCallback
  /\ m' = NextEvent(m, s)
  /\ data' = d
  /\ bare' = (d = NoData)
  /\ UNCHANGED <<style, parent, frame, depth, mode, inside, skipped>>

HoldData(b) ==
  /\ InCallback
  /\ m' = [m EXCEPT !.event_data_hold = b]
  /\ UNCHANGED <<style, data, parent, frame, depth, mode, hist>>

(* event_data_release(): the caller owns the data from here on. *)
ReleaseData ==
  /\ mode = "run" /\ (depth = 0 \/ InCallback)
  /\ data # NoData
  /\ data' = NoData
  /\ bare' = TRUE
  /\ UNCHANGED <<style, m, parent, frame, depth, mode, inside, skipped>>

ChangeParent(s, p) ==
  /\ mode = "run" /\ style.hier /\ (depth = 0 \/ InCallback)
  /\ parent' = [parent EXCEPT ![s] = p]
  /\ UNCHANGED <<style, m, data, frame, depth, mode, hist>>

----------------------------------------------------------------------------
(* The engine loop *)

(* state_engine_map(): take the pending event and run the new state. *)
TakeEvent_Fault ==
  /\ Running("loop") /\ ~style.extended /\ m.event_generated
  /\ m' = UpdateState(m, m.next_state)
  /\ InAction(m.next_state)
  /\ UNCHANGED <<style, data, parent, depth, mode, hist>>

TakeEvent ==
  /\ Running("loop") /\ ~style.extended /\ m.event_generated
  /\ m' = [UpdateState(m, m.next_state) EXCEPT !.event_generated = FALSE]
  /\ InAction(m.next_state)
  /\ UNCHANGED <<style, data, parent, depth, mode, hist>>

(* state_engine_map_ex(): fetch the callbacks and run the guard. *)
FetchEvent ==
  /\ Running("loop") /\ style.extended /\ m.event_generated
  /\ m' = [m EXCEPT !.event_generated = FALSE]
  /\ SetFrame([frame[depth] EXCEPT !.pc = "guard", !.to = m.next_state,
                                   !.from = m.current_state])
  /\ UNCHANGED <<style, data, parent, depth, mode, hist>>

(* The switch to the new state and the start of its action; next_state is  *)
(* read again here, after the callbacks.                                   *)
Switch ==
  /\ m' = UpdateState(m, m.next_state)
  /\ InAction(m.next_state)

GuardRejects_Fault ==
  /\ Running("guard")
  /\ m' = UpdateState(m, m.next_state)
  /\ InLoop
  /\ UNCHANGED <<style, data, parent, depth, mode, hist>>

GuardRejects ==
  /\ Running("guard")
  /\ InLoop
  /\ UNCHANGED <<style, m, data, parent, depth, mode, hist>>

GuardAccepts ==
  /\ Running("guard")
  /\ IF m.next_state # m.current_state
       THEN Invoke("exit") /\ UNCHANGED m
       ELSE Switch
  /\ UNCHANGED <<style, data, parent, depth, mode, hist>>

ExitReturns ==
  /\ Running("exit")
  /\ Invoke("entry")
  /\ inside' = inside \ {frame[depth].from}
  /\ skipped' = skipped \ {frame[depth].from}
  /\ UNCHANGED <<style, m, data, parent, depth, mode, bare>>

EntryReturns_Fault ==
  /\ Running("entry")
  /\ inside' = inside \cup {frame[depth].to}
  /\ skipped' = skipped \ {frame[depth].to}
  /\ Switch /\ UNCHANGED mode
  /\ UNCHANGED <<style, data, parent, depth, bare>>

EntryReturns ==
  /\ Running("entry")
  /\ inside' = inside \cup {frame[depth].to}
  /\ skipped' = skipped \ {frame[depth].to}
  /\ IF m.event_generated /\ AssertHalts
       THEN mode' = "aborted" /\ UNCHANGED <<m, frame>>
       ELSE Switch /\ UNCHANGED mode
  /\ UNCHANGED <<style, data, parent, depth, bare>>

(* A state action returns a signal that ends the step: any signal for a    *)
(* base_fsm, ekHANDLED for an hfsm.                                        *)
ActionHandles ==
  /\ Running("act") /\ frame[depth].at # Top
  /\ InLoop
  /\ UNCHANGED <<style, m, data, parent, depth, mode, hist>>

(* hfsm::state_engine_step(): the parent of a state that did not handle    *)
(* the event runs next, once the data were retyped as a child's signal.    *)
ActionEscalates ==
  /\ Running("act") /\ style.hier /\ frame[depth].at # Top
  /\ IF data = NoData
       THEN mode' = "undefined" /\ UNCHANGED frame
       ELSE InAction(ParentOf(frame[depth].at)) /\ UNCHANGED mode
  /\ UNCHANGED <<style, m, data, parent, depth, hist>>

(* ST_top_state(): fatal in every build that keeps the sentinel. *)
TopState ==
  /\ Running("act") /\ frame[depth].at = Top
  /\ IF SentinelHalts
       THEN mode' = "aborted" /\ UNCHANGED frame
       ELSE InLoop /\ UNCHANGED mode
  /\ UNCHANGED <<style, m, data, parent, depth, hist>>

(* The loop ends and external_event() returns, dropping data not held. *)
EventDone_Fault ==
  /\ Running("loop") /\ ~m.event_generated
  /\ depth' = depth - 1
  /\ SetFrame(NoFrame)
  /\ UNCHANGED <<style, m, data, parent, mode, hist>>

EventDone_Early ==
  /\ Running("loop")
  /\ data' = IF m.event_data_hold THEN data ELSE NoData
  /\ depth' = depth - 1
  /\ SetFrame(NoFrame)
  /\ UNCHANGED <<style, m, parent, mode, hist>>

EventDone ==
  /\ Running("loop") /\ ~m.event_generated
  /\ data' = IF m.event_data_hold THEN data ELSE NoData
  /\ depth' = depth - 1
  /\ SetFrame(NoFrame)
  /\ UNCHANGED <<style, m, parent, mode, hist>>

----------------------------------------------------------------------------
Calls ==
  \/ Reset
  \/ Copy
  \/ FatalEvent
  \/ \E s \in States, d \in Payloads : ExternalEvent(s, d) \/ InternalEvent(s, d)
  \/ \E b \in BOOLEAN : HoldData(b)
  \/ ReleaseData
  \/ \E s \in States, p \in Composites \cup {Top} : ChangeParent(s, p)

Engine ==
  \/ TakeEvent     \/ FetchEvent
  \/ GuardRejects  \/ GuardAccepts
  \/ ExitReturns   \/ EntryReturns
  \/ ActionHandles \/ ActionEscalates \/ TopState
  \/ EventDone

Next == Calls \/ Engine

Spec == Init /\ [][Next]_vars

(* The engine is ordinary straight-line code and callbacks return: neither *)
(* stops for ever while it can go on.                                      *)
FairSpec == Spec /\ WF_vars(Engine)

----------------------------------------------------------------------------
(* Properties *)

(* Every member, local and pointer has its type, and a state number that   *)
(* reaches the engine is a row of the state map.                           *)
TypeOK ==
  /\ style \in Styles
  /\ m \in [current_state : States, next_state : States, initial_state : States,
            previous_state : States, last_state : States,
            event_generated : BOOLEAN, event_data_hold : BOOLEAN]
  /\ data \in Payloads
  /\ parent \in [States -> Composites \cup {Top}]
  /\ frame \in [1 .. MaxDepth -> Frames]
  /\ depth \in 0 .. MaxDepth
  /\ mode \in {"run", "aborted", "undefined"}
  /\ inside \in SUBSET States
  /\ skipped \in SUBSET States
  /\ bare \in BOOLEAN

(* external_event() runs to completion: when it has returned, no internal  *)
(* event of a state, guard, entry or exit callback is left unprocessed.    *)
RunToCompletion == (mode = "run" /\ depth = 0) => ~m.event_generated

(* The data of an event does not outlive its processing, whatever chain of *)
(* internal events and replaced data it went through, unless a callback    *)
(* asked to hold it (event_data_hold) during that event.                   *)
IdleDropsData == (depth = 0 /\ ~m.event_data_hold) => data = NoData

(* The engine never loses the event data of an hfsm by itself and never    *)
(* indexes the state map out of bounds: the data can only be missing where *)
(* the event of a child is handed to its parent, which dereferences it,    *)
(* when the derived class raised that event without data or released it.   *)
NoUndefined == mode = "undefined" => bare

(* Entry and exit callbacks of an extended state map pair up: whenever no  *)
(* transition is under way, the current state is the only one whose entry  *)
(* ran without its exit, whatever the callbacks called.  States the        *)
(* machine was put in or out of by init() or a constructor, which run no   *)
(* callback, are exempt until their own next entry or exit.                *)
EntryExitPaired ==
  (style.extended /\ mode = "run" /\ ~Running("exit") /\ ~Running("entry"))
    => \A s \in States \ skipped : s \in inside <=> s = m.current_state

(* The pending event of the abstract machine: requested, and the engine    *)
(* has neither switched nor rejected yet.                                  *)
Pending ==
  IF m.event_generated \/ Running("guard") \/ Running("exit") \/ Running("entry")
    THEN m.next_state ELSE NoData

(* The engine implements the event-driven machine its users see.           *)
Events == INSTANCE FsmEvents WITH
            state <- m.current_state, previous <- m.previous_state,
            home <- m.initial_state, pending <- Pending,
            guarded <- style.extended, None <- NoData

ImplementsEvents == Events!Spec

(* A requested event is decided: the engine switches to its state, or the  *)
(* guard rejects it, or the program stops, even when callbacks generate    *)
(* further events for ever.                                                *)
PendingDecided == m.event_generated ~> (~m.event_generated \/ mode # "run")
=============================================================================
