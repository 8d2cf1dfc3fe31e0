----------------------------- MODULE FsmProofs -----------------------------
(***************************************************************************)
(* Theorems about Fsm for every state map, hierarchy and set of event data *)
(* objects.  Type correctness holds in every build; the safety properties  *)
(* are proved for callbacks that do not re-enter the engine and a build    *)
(* whose assertions halt, the conditions under which the code relies on    *)
(* them.                                                                   *)
(***************************************************************************)
EXTENDS Fsm, TLAPS

USE DEF hist

Members == [current_state : States, next_state : States, initial_state : States,
            previous_state : States, last_state : States,
            event_generated : BOOLEAN, event_data_hold : BOOLEAN]

(* update_state() leaves the members well typed, moves to the state given  *)
(* and touches neither the pending event nor the initial state.            *)
LEMMA UpdateStateType ==
  ASSUME NEW ms \in Members, NEW s \in States
  PROVE  /\ UpdateState(ms, s) \in Members
         /\ UpdateState(ms, s).current_state = s
         /\ UpdateState(ms, s).next_state = ms.next_state
         /\ UpdateState(ms, s).initial_state = ms.initial_state
         /\ UpdateState(ms, s).event_generated = ms.event_generated
         /\ UpdateState(ms, s).event_data_hold = ms.event_data_hold
BY DEF Members, UpdateState

(* Requesting an event sets the next state and the pending flag only. *)
LEMMA NextEventType ==
  ASSUME NEW ms \in Members, NEW s \in States
  PROVE  /\ NextEvent(ms, s) \in Members
         /\ NextEvent(ms, s).current_state = ms.current_state
         /\ NextEvent(ms, s).next_state = s
         /\ NextEvent(ms, s).initial_state = ms.initial_state
         /\ NextEvent(ms, s).event_generated = TRUE
         /\ NextEvent(ms, s).event_data_hold = ms.event_data_hold
BY DEF Members, NextEvent

(* An unused frame is a frame, and what the helpers build from typed parts *)
(* is one too.                                                             *)
LEMMA FrameTypes ==
  ASSUME TypeOK, depth > 0
  PROVE  /\ NoFrame \in Frames
         /\ frame[depth] \in Frames
         /\ \A f \in Frames : SetFrame(f) => frame' \in [1 .. MaxDepth -> Frames]
<1>1. NoFrame \in Frames
  BY FsmAssumption DEF NoFrame, Frames, States, Nodes, Callbacks
<1>2. depth \in 1 .. MaxDepth
  BY FsmAssumption DEF TypeOK
<1>3. frame[depth] \in Frames
  BY <1>2 DEF TypeOK
<1>4. \A f \in Frames : SetFrame(f) => frame' \in [1 .. MaxDepth -> Frames]
  BY <1>2 DEF TypeOK, SetFrame
<1>5. QED
  BY <1>1, <1>3, <1>4

(* Nobody but the environment of a callback moves the type invariant: one  *)
(* case per call or engine step.                                           *)
LEMMA CallsType == TypeOK /\ Calls => TypeOK'
<1> SUFFICES ASSUME TypeOK, Calls PROVE TypeOK'
  OBVIOUS
<1> USE DEF Members
<1>1. CASE Reset
  BY <1>1, UpdateStateType DEF TypeOK, Reset, States, Payloads
<1>2. CASE Copy
  BY <1>2 DEF TypeOK, Copy, Payloads
<1>3. CASE FatalEvent
  BY <1>3 DEF TypeOK, FatalEvent
<1>4. ASSUME NEW s \in States, NEW d \in Payloads, ExternalEvent(s, d)
      PROVE  TypeOK'
  <2>a. bare' \in BOOLEAN
    BY <1>4 DEF ExternalEvent
  <2>b. m' = [NextEvent(m, s) EXCEPT !.event_data_hold = FALSE] /\ data' \in Payloads
    BY <1>4 DEF ExternalEvent
  <2>c. m' \in Members
    <3>1. NextEvent(m, s) \in Members
      BY NextEventType DEF TypeOK
    <3>2. QED
      BY <2>b, <3>1
  <2>1. m' \in Members /\ data' \in Payloads /\ bare' \in BOOLEAN
    BY <2>a, <2>b, <2>c
  <2>2. [NoFrame EXCEPT !.pc = "loop"] \in Frames
    BY FsmAssumption DEF NoFrame, Frames, States, Nodes, Callbacks
  <2>3. depth' \in 0 .. MaxDepth /\ frame' \in [1 .. MaxDepth -> Frames]
    BY <1>4, <2>2, FsmAssumption DEF ExternalEvent, TypeOK
  <2>4. QED
    BY <1>4, <2>1, <2>3 DEF ExternalEvent, TypeOK
<1>5. ASSUME NEW s \in States, NEW d \in Payloads, InternalEvent(s, d)
      PROVE  TypeOK'
  <2>1. m' \in Members /\ data' \in Payloads /\ bare' \in BOOLEAN
    BY <1>5, NextEventType, ZenonT(40) DEF InternalEvent, TypeOK
  <2>2. QED
    BY <1>5, <2>1 DEF InternalEvent, TypeOK
<1>6. ASSUME NEW b \in BOOLEAN, HoldData(b)
      PROVE  TypeOK'
  BY <1>6 DEF HoldData, TypeOK
<1>7. ASSUME NEW s \in States, NEW p \in Composites \cup {Top}, ChangeParent(s, p)
      PROVE  TypeOK'
  BY <1>7 DEF ChangeParent, TypeOK
<1>8. CASE ReleaseData
  BY <1>8 DEF ReleaseData, TypeOK, Payloads
<1>9. QED
  BY <1>1, <1>2, <1>3, <1>4, <1>5, <1>6, <1>7, <1>8 DEF Calls

(* The frame an engine step leaves is well typed. *)
LEMMA EngineFrames ==
  ASSUME TypeOK, depth > 0
  PROVE  /\ InLoop => frame' \in [1 .. MaxDepth -> Frames]
         /\ \A n \in Nodes : InAction(n) => frame' \in [1 .. MaxDepth -> Frames]
         /\ \A pc \in Callbacks : Invoke(pc) => frame' \in [1 .. MaxDepth -> Frames]
<1>1. [NoFrame EXCEPT !.pc = "loop"] \in Frames
  BY FrameTypes DEF Frames
<1>2. ASSUME NEW n \in Nodes
      PROVE  [NoFrame EXCEPT !.pc = "act", !.at = n] \in Frames
  BY FrameTypes DEF Frames, Callbacks
<1>3. ASSUME NEW pc \in Callbacks
      PROVE  [frame[depth] EXCEPT !.pc = pc] \in Frames
  BY FrameTypes DEF Frames
<1>4. QED
  BY <1>1, <1>2, <1>3, FrameTypes DEF InLoop, InAction, Invoke

LEMMA EngineType == TypeOK /\ Engine => TypeOK'
<1> SUFFICES ASSUME TypeOK, Engine PROVE TypeOK'
  OBVIOUS
<1> USE DEF Members
<1>0. depth > 0 /\ depth \in 1 .. MaxDepth
  BY FsmAssumption DEF Engine, TypeOK, Running, TakeEvent, FetchEvent, GuardRejects,
       GuardAccepts, ExitReturns, EntryReturns, ActionHandles, ActionEscalates,
       TopState, EventDone
<1>a. m \in Members /\ m.next_state \in States /\ m.next_state \in Nodes
  BY DEF TypeOK, Nodes
<1>1. CASE TakeEvent
  <2> DEFINE u == UpdateState(m, m.next_state)
  <2>a. u \in Members
    BY <1>a, UpdateStateType
  <2>b. [u EXCEPT !.event_generated = FALSE] \in Members
    <3> HIDE DEF u
    <3> QED BY <2>a
  <2>1. m' \in Members
    BY <1>1, <2>b DEF TakeEvent
  <2>2. QED
    BY <1>0, <1>1, <1>a, <2>1, EngineFrames DEF TakeEvent, TypeOK
<1>2. CASE FetchEvent
  <2>1. [frame[depth] EXCEPT !.pc = "guard", !.to = m.next_state,
           !.from = m.current_state] \in Frames
    BY <1>0, <1>a, FrameTypes DEF Frames, Callbacks
  <2>2. frame' \in [1 .. MaxDepth -> Frames]
    BY <1>0, <1>2, <2>1, FrameTypes DEF FetchEvent
  <2>3. m' \in Members
    BY <1>2, <1>a DEF FetchEvent
  <2>4. QED
    BY <1>2, <2>2, <2>3 DEF FetchEvent, TypeOK
<1>3. CASE GuardRejects
  BY <1>0, <1>3, EngineFrames DEF GuardRejects, TypeOK
<1>b. Switch => m' \in Members /\ frame' \in [1 .. MaxDepth -> Frames]
  BY <1>0, <1>a, EngineFrames, UpdateStateType DEF Switch
<1>4. CASE GuardAccepts
  <2>1. m' \in Members /\ frame' \in [1 .. MaxDepth -> Frames]
    BY <1>0, <1>4, <1>a, <1>b, EngineFrames DEF GuardAccepts, Callbacks
  <2>2. QED
    BY <1>4, <2>1 DEF GuardAccepts, TypeOK
<1>5. CASE ExitReturns
  <2>1. inside' \in SUBSET States /\ skipped' \in SUBSET States
    BY <1>5 DEF ExitReturns, TypeOK
  <2>2. QED
    BY <1>0, <1>5, <2>1, EngineFrames DEF ExitReturns, TypeOK, Callbacks
<1>6. CASE EntryReturns
  <2>1. m' \in Members /\ frame' \in [1 .. MaxDepth -> Frames]
    BY <1>6, <1>a, <1>b DEF EntryReturns, TypeOK
  <2>2. inside' \in SUBSET States /\ skipped' \in SUBSET States
    BY <1>0, <1>6, FrameTypes DEF EntryReturns, TypeOK, Frames
  <2>3. QED
    BY <1>6, <2>1, <2>2 DEF EntryReturns, TypeOK
<1>7. CASE ActionHandles
  BY <1>0, <1>7, EngineFrames DEF ActionHandles, TypeOK
<1>8. CASE ActionEscalates
  <2>1. ParentOf(frame[depth].at) \in Nodes
    BY <1>0, <1>8, FrameTypes, FsmAssumption
       DEF ActionEscalates, Frames, ParentOf, TypeOK, Nodes
  <2>2. frame' \in [1 .. MaxDepth -> Frames]
    BY <1>0, <1>8, <2>1, EngineFrames DEF ActionEscalates, TypeOK
  <2>3. QED
    BY <1>8, <2>2 DEF ActionEscalates, TypeOK
<1>9. CASE TopState
  BY <1>0, <1>9, EngineFrames DEF TopState, TypeOK
<1>10. CASE EventDone
  <2>1. frame' \in [1 .. MaxDepth -> Frames]
    BY <1>0, <1>10, FrameTypes DEF EventDone
  <2>2. depth' \in 0 .. MaxDepth /\ data' \in Payloads
    BY <1>0, <1>10, FsmAssumption DEF EventDone, TypeOK, Payloads
  <2>3. QED
    BY <1>10, <2>1, <2>2 DEF EventDone, TypeOK
<1>11. QED
  BY <1>1, <1>2, <1>3, <1>4, <1>5, <1>6, <1>7, <1>8, <1>9, <1>10 DEF Engine

(* The constructor leaves every member and local well typed. *)
LEMMA InitType == Init => TypeOK
<1> SUFFICES ASSUME Init PROVE TypeOK
  OBVIOUS
<1>1. 0 \in States /\ InitialState \in States
  BY FsmAssumption DEF States
<1>2. NoFrame \in Frames
  BY <1>1 DEF NoFrame, Frames, Nodes
<1>3. frame \in [1 .. MaxDepth -> Frames]
  BY <1>2 DEF Init
<1>4. depth \in 0 .. MaxDepth
  BY FsmAssumption DEF Init
<1>5. m \in Members
  BY <1>1 DEF Init, Members
<1>6. QED
  BY <1>1, <1>3, <1>4, <1>5 DEF Init, TypeOK, Payloads, Members

(* Type correctness, in every build and with re-entrant callbacks: the     *)
(* locals of every engine loop, the members and the event data keep their  *)
(* types; no state number outside the state map ever reaches the engine.   *)
THEOREM TypeCorrect == Spec => []TypeOK
<1>1. Init => TypeOK
  BY InitType
<1>2. TypeOK /\ [Next]_vars => TypeOK'
  <2>1. TypeOK /\ UNCHANGED vars => TypeOK'
    BY DEF TypeOK, vars
  <2>2. QED
    BY <2>1, CallsType, EngineType DEF Next
<1>3. QED
  BY <1>1, <1>2, PTL DEF Spec

----------------------------------------------------------------------------
(***************************************************************************)
(* Safety of one engine loop.  RunToCompletion and IdleDropsData speak of  *)
(* an idle machine and EntryExitPaired of one at rest; to carry them over  *)
(* a step the invariant adds what holds in between: an hfsm under way has  *)
(* data unless its user took them, and from guard to entry the callbacks   *)
(* fetched are those of the current state and, unless an event was         *)
(* generated, of the next one.                                             *)
(***************************************************************************)
Fetched == m.event_generated \/ m.next_state = frame[1].to

DataInv == (style.hier /\ depth = 1 /\ mode = "run" /\ ~bare) => data # NoData

TransitionInv ==
  (style.extended /\ mode = "run") =>
    /\ (Running("guard") \/ Running("exit")) => frame[1].from = m.current_state
    /\ (Running("guard") \/ Running("exit") \/ Running("entry")) => Fetched
    /\ Running("exit") => \A s \in States \ skipped : s \in inside <=> s = m.current_state
    /\ Running("entry") => inside \cap (States \ skipped) = {}

(* Only an extended state map has guard, entry and exit callbacks. *)
GuardedInv ==
  (Running("guard") \/ Running("exit") \/ Running("entry")) => style.extended

SafetyInv ==
  /\ TypeOK
  /\ depth \in {0, 1}
  /\ RunToCompletion
  /\ IdleDropsData
  /\ NoUndefined
  /\ DataInv
  /\ EntryExitPaired
  /\ TransitionInv
  /\ GuardedInv

Safe == RunToCompletion /\ IdleDropsData /\ NoUndefined /\ DataInv
          /\ EntryExitPaired /\ TransitionInv /\ GuardedInv

(* Where each frame helper leaves the only engine loop. *)
LEMMA FrameMoves ==
  ASSUME TypeOK, depth = 1
  PROVE  /\ InLoop => frame'[1].pc = "loop"
         /\ \A n : InAction(n) => frame'[1].pc = "act"
         /\ \A pc : Invoke(pc) =>
              /\ frame'[1].pc = pc
              /\ frame'[1].to = frame[1].to /\ frame'[1].from = frame[1].from
<1>1. 1 \in DOMAIN frame /\ frame[1] \in Frames
  BY FsmAssumption DEF TypeOK
<1>2. \A f : SetFrame(f) => frame'[1] = f
  BY <1>1 DEF SetFrame
<1>3. [NoFrame EXCEPT !.pc = "loop"].pc = "loop"
  BY DEF NoFrame
<1>4. \A n : [NoFrame EXCEPT !.pc = "act", !.at = n].pc = "act"
  BY DEF NoFrame
<1>5. ASSUME NEW pc
      PROVE  /\ [frame[1] EXCEPT !.pc = pc].pc = pc
             /\ [frame[1] EXCEPT !.pc = pc].to = frame[1].to
             /\ [frame[1] EXCEPT !.pc = pc].from = frame[1].from
  BY <1>1 DEF Frames
<1>6. InLoop => frame'[1].pc = "loop"
  BY <1>2, <1>3 DEF InLoop
<1>7. ASSUME NEW n, InAction(n)
      PROVE  frame'[1].pc = "act"
  BY <1>2, <1>4, <1>7, ZenonT(40) DEF InAction
<1>8. ASSUME NEW pc, Invoke(pc)
      PROVE  /\ frame'[1].pc = pc
             /\ frame'[1].to = frame[1].to /\ frame'[1].from = frame[1].from
  <2>1. frame'[1] = [frame[1] EXCEPT !.pc = pc]
    BY <1>2, <1>8 DEF Invoke
  <2>2. QED
    BY <1>5, <2>1
<1>9. QED
  BY <1>6, <1>7, <1>8

LEMMA CallsSafe ==
  ASSUME ~Reentrant, ErLevel = "ALL", SafetyInv, Calls
  PROVE  depth' \in {0, 1} /\ Safe'
<1> USE DEF SafetyInv, RunToCompletion, IdleDropsData, NoUndefined, DataInv,
            EntryExitPaired, TransitionInv, GuardedInv, Running, Fetched, Safe
<1>1. CASE Reset
  <2>1. m'.current_state = m.initial_state /\ m'.event_generated = FALSE
    BY <1>1, UpdateStateType DEF Reset, TypeOK, Members, States
  <2>2. QED
    BY <1>1, <2>1 DEF Reset
<1>2. CASE Copy
  <2>1. m'.current_state = m.current_state /\ m'.event_generated = FALSE
    BY <1>2 DEF Copy, TypeOK
  <2>2. QED
    BY <1>2, <2>1 DEF Copy
<1>3. CASE FatalEvent
  BY <1>3 DEF FatalEvent, AssertHalts
<1>4. ASSUME NEW s \in States, NEW d \in Payloads, ExternalEvent(s, d)
      PROVE  depth' \in {0, 1} /\ Safe'
  <2>1. depth = 0 /\ depth' = 1 /\ frame'[1].pc = "loop"
    BY <1>4, FsmAssumption DEF ExternalEvent, TypeOK, NoFrame
  <2>2. m'.current_state = m.current_state
    BY <1>4, NextEventType, ZenonT(40) DEF ExternalEvent, TypeOK, Members
  <2>3. ~bare' => data' # NoData
    BY <1>4 DEF ExternalEvent
  <2>4. QED
    BY <1>4, <2>1, <2>2, <2>3 DEF ExternalEvent
<1>5. ASSUME NEW s \in States, NEW d \in Payloads, InternalEvent(s, d)
      PROVE  depth' \in {0, 1} /\ Safe'
  <2>1. depth = 1
    BY <1>5 DEF InternalEvent, InCallback
  <2>2. m'.current_state = m.current_state /\ m'.event_generated = TRUE
    BY <1>5, NextEventType, ZenonT(40) DEF InternalEvent, TypeOK, Members
  <2>3. ~bare' => data' # NoData
    BY <1>5 DEF InternalEvent
  <2>4. UNCHANGED <<style, frame, depth, mode, inside, skipped>>
    BY <1>5 DEF InternalEvent
  <2>5. TransitionInv' /\ EntryExitPaired'
    BY <2>1, <2>2, <2>4
  <2>6. depth' = 1 /\ mode' = "run" /\ NoUndefined' /\ DataInv'
    BY <1>5, <2>1, <2>3, <2>4 DEF InternalEvent, InCallback
  <2>7. RunToCompletion' /\ IdleDropsData'
    BY <2>6
  <2>8. GuardedInv'
    BY <2>4
  <2>9. QED
    BY <2>5, <2>6, <2>7, <2>8
<1>6. ASSUME NEW b \in BOOLEAN, HoldData(b)
      PROVE  depth' \in {0, 1} /\ Safe'
  <2>1. depth = 1
    BY <1>6 DEF HoldData, InCallback
  <2>2. /\ m'.current_state = m.current_state /\ m'.next_state = m.next_state
        /\ m'.event_generated = m.event_generated
    BY <1>6 DEF HoldData, TypeOK
  <2>3. QED
    BY <1>6, <2>1, <2>2 DEF HoldData
<1>7. ASSUME NEW s \in States, NEW p \in Composites \cup {Top}, ChangeParent(s, p)
      PROVE  depth' \in {0, 1} /\ Safe'
  BY <1>7 DEF ChangeParent
<1>8. CASE ReleaseData
  BY <1>8 DEF ReleaseData
<1>9. QED
  BY <1>1, <1>2, <1>3, <1>4, <1>5, <1>6, <1>7, <1>8 DEF Calls

LEMMA EngineSafe ==
  ASSUME ~Reentrant, ErLevel = "ALL", SafetyInv, Engine
  PROVE  depth' \in {0, 1} /\ Safe'
<1> USE DEF SafetyInv, RunToCompletion, IdleDropsData, NoUndefined, DataInv,
            EntryExitPaired, TransitionInv, GuardedInv, Running, Fetched, Safe
<1>0. depth = 1 /\ 1 \in DOMAIN frame
  BY FsmAssumption DEF Engine, TypeOK, Running, TakeEvent, FetchEvent, GuardRejects,
       GuardAccepts, ExitReturns, EntryReturns, ActionHandles, ActionEscalates,
       TopState, EventDone
<1>a. m \in Members /\ m.next_state \in States
  BY DEF TypeOK, Members
<1>b. /\ InLoop => frame'[1].pc = "loop"
      /\ \A n : InAction(n) => frame'[1].pc = "act"
  BY <1>0, FrameMoves
<1>c. frame[1] \in Frames
  BY <1>0 DEF TypeOK
<1>d. \A pc : Invoke(pc) =>
         /\ frame'[1].pc = pc
         /\ frame'[1].to = frame[1].to /\ frame'[1].from = frame[1].from
  BY <1>0, FrameMoves
<1>e. Switch => m'.current_state = m.next_state /\ frame'[1].pc = "act"
  BY <1>a, <1>b, UpdateStateType DEF Switch
<1>1. CASE TakeEvent
  BY <1>0, <1>1, <1>b DEF TakeEvent
<1>2. CASE FetchEvent
  <2>1. /\ frame'[1].pc = "guard" /\ frame'[1].to = m.next_state
        /\ frame'[1].from = m.current_state
    BY <1>0, <1>2, <1>c DEF FetchEvent, SetFrame, Frames
  <2>2. m'.current_state = m.current_state /\ m'.next_state = m.next_state
    BY <1>2 DEF FetchEvent, TypeOK
  <2>3. QED
    BY <1>0, <1>2, <2>1, <2>2 DEF FetchEvent
<1>3. CASE GuardRejects
  BY <1>0, <1>3, <1>b DEF GuardRejects
<1>4. CASE GuardAccepts
  <2>1. CASE m.next_state # m.current_state
    BY <1>0, <1>4, <1>d, <2>1 DEF GuardAccepts
  <2>2. CASE m.next_state = m.current_state
    BY <1>0, <1>4, <1>e, <2>2 DEF GuardAccepts
  <2>3. QED
    BY <2>1, <2>2
<1>5. CASE ExitReturns
  BY <1>0, <1>5, <1>d DEF ExitReturns
<1>6. CASE EntryReturns
  <2>1. CASE m.event_generated
    BY <1>0, <1>6, <2>1 DEF EntryReturns, AssertHalts
  <2>2. CASE ~m.event_generated
    BY <1>0, <1>6, <1>e, <2>2 DEF EntryReturns
  <2>3. QED
    BY <2>1, <2>2
<1>7. CASE ActionHandles
  BY <1>0, <1>7, <1>b DEF ActionHandles
<1>8. CASE ActionEscalates
  <2>1. CASE data = NoData
    BY <1>0, <1>8, <2>1 DEF ActionEscalates
  <2>2. CASE data # NoData
    BY <1>0, <1>8, <1>b, <2>2 DEF ActionEscalates
  <2>3. QED
    BY <2>1, <2>2
<1>9. CASE TopState
  BY <1>0, <1>9, <1>b DEF TopState
<1>10. CASE EventDone
  BY <1>0, <1>10 DEF EventDone
<1>11. QED
  BY <1>1, <1>2, <1>3, <1>4, <1>5, <1>6, <1>7, <1>8, <1>9, <1>10 DEF Engine

LEMMA SafetyInvariant ==
  ASSUME ~Reentrant, ErLevel = "ALL"
  PROVE  Spec => []SafetyInv
<1>1. Init => SafetyInv
  <2>1. Init => TypeOK
    BY InitType
  <2>2. QED
    BY <2>1 DEF Init, SafetyInv, RunToCompletion, IdleDropsData, NoUndefined, DataInv,
                EntryExitPaired, TransitionInv, GuardedInv, Running
<1>2. SafetyInv /\ [Next]_vars => SafetyInv'
  <2> SUFFICES ASSUME SafetyInv, [Next]_vars PROVE SafetyInv'
    OBVIOUS
  <2>1. TypeOK'
    <3>1. CASE UNCHANGED vars
      BY <3>1 DEF SafetyInv, TypeOK, vars
    <3>2. QED
      BY <3>1, CallsType, EngineType DEF Next, SafetyInv
  <2>2. CASE UNCHANGED vars
    BY <2>2, <2>1 DEF vars, SafetyInv, RunToCompletion, IdleDropsData, NoUndefined, DataInv,
                EntryExitPaired, TransitionInv, GuardedInv, Running, Fetched
  <2>3. CASE Next
    BY <2>1, <2>3, CallsSafe, EngineSafe DEF Next, SafetyInv, Safe
  <2>4. QED
    BY <2>2, <2>3
<1>3. QED
  BY <1>1, <1>2, PTL DEF Spec

(* For every state map, hierarchy and pool of event data, as long as no    *)
(* callback re-enters the engine and assertions halt: external_event() has *)
(* processed every internal event and dropped data not held when it        *)
(* returns, null event data are dereferenced only for an event the derived *)
(* class raised without data or whose data it released, and entry and exit *)
(* callbacks pair up but for states init() or a constructor moved in or    *)
(* out of.                                                                 *)
THEOREM EngineSafety ==
  ASSUME ~Reentrant, ErLevel = "ALL"
  PROVE  Spec => [](RunToCompletion /\ IdleDropsData /\ NoUndefined /\ EntryExitPaired)
<1>1. SafetyInv => RunToCompletion /\ IdleDropsData /\ NoUndefined /\ EntryExitPaired
  BY DEF SafetyInv
<1>2. QED
  BY <1>1, SafetyInvariant, PTL

(* external_event() returns only after the last of a chain of internal      *)
(* events was processed, whatever the callbacks chained.                     *)
THEOREM RunsToCompletion ==
  ASSUME ~Reentrant, ErLevel = "ALL"
  PROVE  Spec => []RunToCompletion
<1>1. SafetyInv => RunToCompletion
  BY DEF SafetyInv
<1>2. QED
  BY <1>1, SafetyInvariant, PTL

(* No event data is owned by the machine once external_event() returned,   *)
(* unless a callback held it during that event.                            *)
THEOREM IdleHasNoData ==
  ASSUME ~Reentrant, ErLevel = "ALL"
  PROVE  Spec => []IdleDropsData
<1>1. SafetyInv => IdleDropsData
  BY DEF SafetyInv
<1>2. QED
  BY <1>1, SafetyInvariant, PTL

(* The engine of an hfsm that is not re-entered never loses the data of an *)
(* event by itself, for any hierarchy and however often callbacks replace, *)
(* hold, drop or release data: it dereferences null event data only for an *)
(* event its derived class left without data.                              *)
THEOREM NothingUndefined ==
  ASSUME ~Reentrant, ErLevel = "ALL"
  PROVE  Spec => []NoUndefined
<1>1. SafetyInv => NoUndefined
  BY DEF SafetyInv
<1>2. QED
  BY <1>1, SafetyInvariant, PTL

----------------------------------------------------------------------------
(* What the members after an engine step or call mean for the abstract     *)
(* machine: moving to s leaves the state the machine was in, if it differs.*)
LEMMA MoveRefines ==
  ASSUME NEW ms \in Members, NEW s \in States
  PROVE  UpdateState(ms, s).previous_state =
           IF s # ms.current_state THEN ms.current_state ELSE ms.previous_state
BY DEF Members, UpdateState

LEMMA CallsRefine ==
  ASSUME ~Reentrant, SafetyInv, Calls
  PROVE  [Events!Next]_(Events!avars)
<1> USE DEF SafetyInv, RunToCompletion, Running, Pending, Events!avars
<1>1. CASE Reset
  <2>1. /\ m'.current_state = m.initial_state /\ m'.initial_state = m.initial_state
        /\ m'.event_generated = FALSE
        /\ m'.previous_state = Events!Left(m.initial_state)
    <3> DEFINE u == UpdateState(m, m.initial_state)
    <3>1. /\ u \in Members /\ u.current_state = m.initial_state
          /\ u.initial_state = m.initial_state
          /\ u.previous_state = Events!Left(m.initial_state)
      BY UpdateStateType, MoveRefines, ZenonT(40) DEF TypeOK, Members, Events!Left
    <3>2. m' = [u EXCEPT !.event_generated = FALSE, !.next_state = m.initial_state]
      BY <1>1 DEF Reset
    <3> HIDE DEF u
    <3> QED BY <3>1, <3>2 DEF Members
  <2>2. Events!Reset
    BY <1>1, <2>1 DEF Reset, Events!Reset
  <2>3. QED
    BY <2>2 DEF Events!Next
<1>2. CASE Copy
  <2>1. /\ m'.current_state = m.current_state /\ m'.initial_state = m.current_state
        /\ m'.event_generated = FALSE /\ m'.previous_state = m.previous_state
    BY <1>2 DEF Copy, TypeOK
  <2>2. Events!Copy
    BY <1>2, <2>1 DEF Copy, Events!Copy
  <2>3. QED
    BY <2>2 DEF Events!Next
<1>3. CASE FatalEvent
  <2>1. depth = 0
    BY <1>3 DEF FatalEvent
  <2>2. UNCHANGED Events!avars
    BY <1>3, <2>1 DEF FatalEvent
  <2>3. QED
    BY <2>2
<1>4. ASSUME NEW s \in States, NEW d \in Payloads, ExternalEvent(s, d) \/ InternalEvent(s, d)
      PROVE  [Events!Next]_(Events!avars)
  <2>1. /\ m'.current_state = m.current_state /\ m'.initial_state = m.initial_state
        /\ m'.event_generated = TRUE /\ m'.previous_state = m.previous_state
        /\ m'.next_state = s
    BY <1>4 DEF ExternalEvent, InternalEvent, NextEvent, TypeOK
  <2>2. Events!Request(s)
    BY <1>4, <2>1 DEF ExternalEvent, InternalEvent, Events!Request
  <2>3. QED
    BY <2>2 DEF Events!Next
<1>5. ASSUME NEW b \in BOOLEAN, HoldData(b)
      PROVE  [Events!Next]_(Events!avars)
  <2>1. /\ m'.current_state = m.current_state /\ m'.initial_state = m.initial_state
        /\ m'.event_generated = m.event_generated
        /\ m'.previous_state = m.previous_state /\ m'.next_state = m.next_state
    BY <1>5 DEF HoldData, TypeOK
  <2>2. QED
    BY <1>5, <2>1 DEF HoldData
<1>6. ASSUME NEW s \in States, NEW p \in Composites \cup {Top}, ChangeParent(s, p)
      PROVE  [Events!Next]_(Events!avars)
  BY <1>6 DEF ChangeParent
<1>7. CASE ReleaseData
  BY <1>7 DEF ReleaseData
<1>8. QED
  BY <1>1, <1>2, <1>3, <1>4, <1>5, <1>6, <1>7 DEF Calls

LEMMA EngineRefines ==
  ASSUME ~Reentrant, ErLevel = "ALL", SafetyInv, Engine
  PROVE  [Events!Next]_(Events!avars)
<1> USE DEF SafetyInv, Running, Pending, Events!avars
<1>0. depth = 1 /\ 1 \in DOMAIN frame
  BY FsmAssumption DEF Engine, TypeOK, TakeEvent, FetchEvent, GuardRejects,
       GuardAccepts, ExitReturns, EntryReturns, ActionHandles, ActionEscalates,
       TopState, EventDone
<1>a. m \in Members /\ m.next_state \in States /\ m.next_state # NoData
  BY FsmAssumption DEF TypeOK, Members
<1>b. /\ InLoop => frame'[1].pc = "loop"
      /\ \A n : InAction(n) => frame'[1].pc = "act"
  BY <1>0, FrameMoves
<1>c. frame[1] \in Frames
  BY <1>0 DEF TypeOK
<1>d. \A pc : Invoke(pc) => frame'[1].pc = pc
  BY <1>0, FrameMoves
<1>e. ASSUME m' = UpdateState(m, m.next_state), UNCHANGED <<style, depth, mode>>,
             frame'[1].pc = "act", Pending = m.next_state, ~m.event_generated
      PROVE  [Events!Next]_(Events!avars)
  <2>1. /\ m'.current_state = m.next_state /\ m'.initial_state = m.initial_state
        /\ m'.event_generated = FALSE
        /\ m'.previous_state = Events!Left(m.next_state)
    BY <1>a, <1>e, UpdateStateType, MoveRefines DEF Events!Left
  <2>2. Events!Take
    BY <1>a, <1>e, <1>0, <2>1 DEF Events!Take
  <2>3. QED
    BY <2>2 DEF Events!Next
<1>1. CASE TakeEvent
  <2> DEFINE u == UpdateState(m, m.next_state)
  <2>1. /\ u \in Members /\ u.current_state = m.next_state
        /\ u.initial_state = m.initial_state
        /\ u.previous_state = Events!Left(m.next_state)
    BY <1>a, UpdateStateType, MoveRefines DEF Events!Left
  <2>2. m' = [u EXCEPT !.event_generated = FALSE]
    BY <1>1 DEF TakeEvent
  <2>3. /\ m'.current_state = m.next_state /\ m'.initial_state = m.initial_state
        /\ m'.event_generated = FALSE
        /\ m'.previous_state = Events!Left(m.next_state)
    <3> HIDE DEF u
    <3> QED BY <2>1, <2>2 DEF Members
  <2>4. Events!Take
    BY <1>0, <1>1, <1>a, <1>b, <2>3 DEF TakeEvent, Events!Take
  <2>5. QED
    BY <2>4 DEF Events!Next
<1>2. CASE FetchEvent
  <2>1. frame'[1].pc = "guard"
    BY <1>0, <1>2, <1>c DEF FetchEvent, SetFrame, Frames
  <2>2. /\ m'.current_state = m.current_state /\ m'.initial_state = m.initial_state
        /\ m'.event_generated = FALSE
        /\ m'.previous_state = m.previous_state /\ m'.next_state = m.next_state
    BY <1>2 DEF FetchEvent, TypeOK
  <2>3. QED
    BY <1>0, <1>2, <2>1, <2>2 DEF FetchEvent
<1>3. CASE GuardRejects
  <2>1. style.extended
    BY <1>3 DEF GuardRejects, GuardedInv
  <2>2. CASE m.event_generated
    BY <1>3, <2>2 DEF GuardRejects
  <2>3. CASE ~m.event_generated
    <3>1. Events!Reject
      BY <1>0, <1>3, <1>a, <1>b, <2>1, <2>3 DEF GuardRejects, Events!Reject
    <3>2. QED
      BY <3>1 DEF Events!Next
  <2>4. QED
    BY <2>2, <2>3
<1>4. CASE GuardAccepts
  <2>1. CASE m.next_state # m.current_state
    BY <1>0, <1>4, <1>d, <2>1 DEF GuardAccepts
  <2>2. CASE m.next_state = m.current_state /\ m.event_generated
    <3>1. /\ m'.current_state = m.current_state /\ m'.initial_state = m.initial_state
          /\ m'.event_generated = TRUE /\ m'.next_state = m.next_state
          /\ m'.previous_state = m.previous_state
      BY <1>4, <1>a, <2>2, UpdateStateType, MoveRefines DEF GuardAccepts, Switch, Members
    <3>2. QED
      BY <1>4, <2>2, <3>1 DEF GuardAccepts
  <2>3. CASE m.next_state = m.current_state /\ ~m.event_generated
    BY <1>4, <1>b, <1>e, <2>3 DEF GuardAccepts, Switch
  <2>4. QED
    BY <2>1, <2>2, <2>3 DEF TypeOK
<1>5. CASE ExitReturns
  BY <1>0, <1>5, <1>d DEF ExitReturns
<1>6. CASE EntryReturns
  <2>1. CASE m.event_generated
    BY <1>6, <2>1 DEF EntryReturns, AssertHalts
  <2>2. CASE ~m.event_generated
    BY <1>6, <1>b, <1>e, <2>2 DEF EntryReturns, Switch
  <2>3. QED
    BY <2>1, <2>2
<1>7. CASE ActionHandles
  BY <1>0, <1>7, <1>b DEF ActionHandles
<1>8. CASE ActionEscalates
  <2>1. CASE data = NoData
    BY <1>0, <1>8, <2>1 DEF ActionEscalates
  <2>2. CASE data # NoData
    BY <1>0, <1>8, <1>b, <2>2 DEF ActionEscalates
  <2>3. QED
    BY <2>1, <2>2
<1>9. CASE TopState
  BY <1>0, <1>9, <1>b DEF TopState
<1>10. CASE EventDone
  BY <1>0, <1>10 DEF EventDone
<1>11. QED
  BY <1>1, <1>2, <1>3, <1>4, <1>5, <1>6, <1>7, <1>8, <1>9, <1>10 DEF Engine

(* Under the same conditions the engine, with its guards, entry and exit   *)
(* callbacks, chains of internal events and escalation to parents, is an   *)
(* implementation of the event-driven machine of FsmEvents: the state only *)
(* moves to the latest event requested, and only a guard drops one.        *)
THEOREM EngineRefinesEvents ==
  ASSUME ~Reentrant, ErLevel = "ALL"
  PROVE  Spec => ImplementsEvents
<1>1. Init => Events!Init
  BY FsmAssumption DEF Init, Events!Init, Styles, Pending, Running
<1>2. SafetyInv /\ [Next]_vars => [Events!Next]_(Events!avars)
  <2>1. SafetyInv /\ UNCHANGED vars => UNCHANGED Events!avars
    BY DEF vars, Events!avars, Pending, Running
  <2>2. QED
    BY <2>1, CallsRefine, EngineRefines DEF Next
<1>3. QED
  BY <1>1, <1>2, SafetyInvariant, PTL DEF Spec, ImplementsEvents, Events!Spec
=============================================================================
