------------------------------- MODULE Ranges -------------------------------
(***************************************************************************)
(* math::range of a signed type: a closed interval with its span kept      *)
(* beside the bounds.  A range is made with any bounds, shrunk, moved and  *)
(* given new bounds in turn.  The bounds of set(), lb() and ub() are       *)
(* asserted, those of the constructor are not; past an assertion that      *)
(* fails the program stops.  Bounds past Limit are left out.               *)
(*                                                                         *)
(* SetLb_Span is a faulty variant; no specification uses it.               *)
(***************************************************************************)
EXTENDS Integers

CONSTANTS
  Values,      \* arguments
  Limit        \* the bounds are in -Limit .. Limit

VARIABLES
  initialized, lb, ub, span,
  status       \* "running", "halted", or "hangs" in wrap_value()

vars == <<initialized, lb, ub, span, status>>

Init ==
  /\ initialized = FALSE
  /\ lb = 0 /\ ub = 0 /\ span = 0
  /\ status = "running"

(* range(lb, ub), and what returns a range: the old one is replaced.       *)
Make(low, high) ==
  /\ {low, high} \subseteq -Limit .. Limit
  /\ lb' = low /\ ub' = high /\ span' = high - low
  /\ initialized' = TRUE
  /\ UNCHANGED status

Halt == status' = "halted" /\ UNCHANGED <<initialized, lb, ub, span>>

Construct(low, high) == status = "running" /\ Make(low, high)

(* Mutant: the span is that of the old bounds.                             *)
SetLb_Span(low) ==
  /\ status = "running"
  /\ IF initialized /\ low < ub
     THEN lb' = low /\ UNCHANGED <<initialized, ub, span, status>>
     ELSE Halt

SetLb(low) ==
  /\ status = "running"
  /\ IF initialized /\ low < ub THEN Make(low, ub) ELSE Halt

SetUb(high) ==
  /\ status = "running"
  /\ IF initialized /\ high > lb THEN Make(lb, high) ELSE Halt

Set(low, high) ==
  /\ status = "running"
  /\ IF low < high THEN Make(low, high) ELSE Halt

Translate(value) == status = "running" /\ Make(lb + value, ub + value)
Shrink(value) == status = "running" /\ Make(lb + value, ub - value)

(* recenter(): half a span is rounded towards zero on both sides.          *)
HalfOf(a) == IF a < 0 THEN -((-a) \div 2) ELSE a \div 2
Recenter(value) ==
  status = "running" /\ Make(HalfOf(2 * value - span), HalfOf(2 * value + span))

Contains(value) == lb <= value /\ value <= ub
OverlapsWith(low, high) ==
  \/ Contains(low) \/ Contains(high)
  \/ (low <= lb /\ lb <= high) \/ (low <= ub /\ ub <= high)

(* wrap_value(), for a span that is not zero: the first loop takes off     *)
(* spans, then the second one adds them.                                   *)
Down(value) ==
  IF value <= ub THEN value ELSE value - span * ((value - ub + span - 1) \div span)
WrapValue(value) ==
  LET low == Down(value) IN
  IF low >= lb THEN low ELSE low + span * ((lb - low + span - 1) \div span)

(* A span that is not positive does not bring a value nearer.  (A negative *)
(* one drives it to the end of the type and beyond.)                       *)
Hangs(value) == span <= 0 /\ (value > ub \/ value < lb)

CallWrap(value) ==
  /\ status = "running"
  /\ IF ~initialized THEN Halt
     ELSE Hangs(value) /\ status' = "hangs"
            /\ UNCHANGED <<initialized, lb, ub, span>>

Next ==
  \/ \E v, w \in Values : Construct(v, w) \/ Set(v, w)
  \/ \E v \in Values :
       SetLb(v) \/ SetUb(v) \/ Translate(v) \/ Shrink(v) \/ Recenter(v)
         \/ CallWrap(v)

Spec == Init /\ [][Next]_vars

----------------------------------------------------------------------------
(* Whatever was done to a range before, as long as its bounds are in order *)
(* wrap_value() returns the value itself, or one in the range that differs *)
(* by whole spans, and overlaps_with() finds out whether the ranges meet.  *)
RangesWrap ==
  (initialized /\ lb < ub) =>
    /\ span > 0
    /\ \A v \in Values :
      /\ Contains(WrapValue(v)) /\ (WrapValue(v) - v) % (ub - lb) = 0
      /\ Contains(v) => WrapValue(v) = v
      /\ \A w \in Values : v <= w =>
           (OverlapsWith(v, w) <=> \E x \in v .. w : Contains(x))
=============================================================================
