------------------------------ MODULE Doubles ------------------------------
(***************************************************************************)
(* The part of IEEE 754 binary64 that the gateway's control flow can tell  *)
(* apart: finite values, the two infinities and NaN.  Every comparison     *)
(* with NaN is false, infinities arise from overflow, and the difference   *)
(* of equal infinities is NaN.  Finite values are integers (price ticks);  *)
(* rounding of finite values is abstracted away, overflow is not.          *)
(***************************************************************************)
EXTENDS Integers

CONSTANT MaxFinite          \* the largest finite magnitude (DBL_MAX)

ASSUME MaxFiniteAssumption == MaxFinite \in Nat

Double == [kind : {"finite", "posinf", "neginf", "nan"}, val : Int]

NaN    == [kind |-> "nan", val |-> 0]
PosInf == [kind |-> "posinf", val |-> 0]
NegInf == [kind |-> "neginf", val |-> 0]

\* The double closest to the integer v: infinite when v is out of range.
FromInt(v) ==
  IF v > MaxFinite THEN PosInf
  ELSE IF v < -MaxFinite THEN NegInf
  ELSE [kind |-> "finite", val |-> v]

Zero == [kind |-> "finite", val |-> 0]

IsFinite(a) == a.kind = "finite"

\* a < b, false whenever an operand is NaN.
Less(a, b) ==
  \/ a.kind = "neginf" /\ b.kind \in {"finite", "posinf"}
  \/ a.kind = "finite" /\ b.kind = "posinf"
  \/ a.kind = "finite" /\ b.kind = "finite" /\ a.val < b.val

LessEq(a, b) == Less(a, b) \/ (a = b /\ a.kind # "nan")

\* a - b, where equal infinities cancel to NaN.
Minus(a, b) ==
  IF a.kind = "nan" \/ b.kind = "nan" \/ (a = b /\ ~IsFinite(a)) THEN NaN
  ELSE IF IsFinite(a) /\ IsFinite(b) THEN FromInt(a.val - b.val)
  ELSE IF a.kind = "posinf" \/ b.kind = "neginf" THEN PosInf
  ELSE NegInf

\* a * n for an unsigned integer n > 0 converted to double.
TimesNat(a, n) == IF IsFinite(a) THEN FromInt(a.val * n) ELSE a

============================================================================
