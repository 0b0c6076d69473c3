------------------------------- MODULE ZbTime -------------------------------
(***************************************************************************)
(* The time arithmetic of include/zb_time.h.  A time (zb_time_t) is an     *)
(* unsigned counter of beacon intervals that wraps at TimeMod (2^16 in the *)
(* code); comparisons are meaningful only between times less than half the *)
(* range apart.  The wrap is written with one conditional instead of %, as *)
(* both operands are always in range.                                      *)
(***************************************************************************)
EXTENDS Integers

CONSTANT TimeMod

ASSUME TimeModAssumption == TimeMod \in Nat /\ TimeMod > 4

Time == 0 .. TimeMod - 1

\* (zb_time_t)(v) for a value v that is off the range by less than TimeMod.
Wrap(v) == IF v < 0 THEN v + TimeMod ELSE IF v >= TimeMod THEN v - TimeMod ELSE v

\* ZB_HALF_MAX_TIME_VAL: the maximum value, not the range, is halved.
HALF_MAX_TIME_VAL == (TimeMod - 1) \div 2

TIME_ADD(a, b) == Wrap(a + b)

\* Mutant: a plain comparison, overflow forgotten.
TIME_GE_Plain(a, b) == a >= b

TIME_GE(a, b) == Wrap(a - b) < HALF_MAX_TIME_VAL

TIME_SUBTRACT(a, b) ==
  IF Wrap(a - b) < HALF_MAX_TIME_VAL THEN Wrap(a - b) ELSE Wrap(b - a)
=============================================================================
