------------------------------- MODULE Angles -------------------------------
(***************************************************************************)
(* math::degrees: an angle is computed with, normalized in one of two      *)
(* ranges, and compared with others, in any order.  math::radians has the  *)
(* same operations with pi for 180.  Angles are whole degrees; division,   *)
(* which leaves them, and the conversion between both types are left out,  *)
(* and with them the rounding of doubles.  Numbers past Limit are too.     *)
(*                                                                         *)
(* NormalizedDiff_Truncated is a faulty variant; no specification uses it. *)
(***************************************************************************)
EXTENDS Integers

CONSTANTS
  Values,      \* angles that are set, added and compared with
  Factors,     \* whole factors
  Limit        \* what is computed is in -Limit .. Limit

VARIABLES
  angle,       \* m_value
  exact,       \* history: the same computation without normalization
  form         \* the last operation was a "signed" or "unsigned"
               \* normalization, or none of them: "raw"

vars == <<angle, exact, form>>

(* kSignedRange and kUnsignedRange.                                        *)
Signed ==
  INSTANCE Ranges WITH
    initialized <- TRUE, lb <- -180, ub <- 180, span <- 360,
    status <- "running"
Unsigned ==
  INSTANCE Ranges WITH
    initialized <- TRUE, lb <- 0, ub <- 360, span <- 360,
    status <- "running"

Init == angle = 0 /\ exact = 0 /\ form = "raw"

Becomes(value, computed) ==
  /\ {value, computed} \subseteq -Limit .. Limit
  /\ angle' = value
  /\ exact' = computed
  /\ form' = "raw"

SetTo(value) == Becomes(value, value)
Add(value) == Becomes(angle + value, exact + value)
Subtract(value) == Becomes(angle - value, exact - value)
Negate == Becomes(-angle, -exact)
Scale(factor) == Becomes(angle * factor, exact * factor)

SignedNormalize ==
  /\ angle' = Signed!WrapValue(angle)
  /\ form' = "signed"
  /\ UNCHANGED exact

UnsignedNormalize ==
  /\ angle' = Unsigned!WrapValue(angle)
  /\ form' = "unsigned"
  /\ UNCHANGED exact

Next ==
  \/ \E v \in Values : SetTo(v) \/ Add(v) \/ Subtract(v)
  \/ \E f \in Factors : Scale(f)
  \/ Negate
  \/ SignedNormalize
  \/ UnsignedNormalize

Spec == Init /\ [][Next]_vars

----------------------------------------------------------------------------
(* fmod() by a full turn: the sign of the result is that of the number.    *)
Fmod(a) == IF a >= 0 THEN a % 360 ELSE -((-a) % 360)

(* Mutant: a negative remainder stays.                                     *)
NormalizedDiff_Truncated(a, b) == Fmod(a - b + 180) - 180

NormalizedDiff(a, b) ==
  LET turned == Fmod(a - b + 180) IN
  (IF turned < 0 THEN turned + 360 ELSE turned) - 180

Congruent(a, b) == (a - b) % 360 = 0

(* However often it was normalized in between, an angle is the one that    *)
(* was computed but for whole turns, and a normalized one is in its range; *)
(* so the difference to any other angle is the same as without any         *)
(* normalization, in [-180, 180), and that of the two in the other order   *)
(* is its negative unless they are opposite.                               *)
AngleTracks ==
  /\ Congruent(angle, exact)
  /\ form = "signed" => Signed!Contains(angle)
  /\ form = "unsigned" => Unsigned!Contains(angle)
  /\ \A v \in Values :
       LET diff == NormalizedDiff(angle, v) IN
       /\ diff = NormalizedDiff(exact, v)
       /\ diff \in -180 .. 179
       /\ Congruent(diff, angle - v)
       /\ diff # -180 => NormalizedDiff(v, angle) = -diff
=============================================================================
