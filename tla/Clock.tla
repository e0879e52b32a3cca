------------------------------- MODULE Clock -------------------------------
(***************************************************************************)
(* The wall clock the guards read through datetime.now(UTC).               *)
(*                                                                         *)
(* Every guard of nexor_x/operations stamps its state with the current     *)
(* time and later compares stamps with a policy interval.  The clock is a  *)
(* natural number of ticks; it only moves forward.  MaxNow is a bound for  *)
(* model checking: time stops there (see the README for the bounds).       *)
(***************************************************************************)
EXTENDS Integers

CONSTANT MaxNow

ASSUME MaxNowAssumption == MaxNow \in Nat

VARIABLE now

\* None of the optional stamps (blocked_since, expires_at, ...): the JSON null.
None == -1

Stamps == Nat \cup {None}

ClockTypeOK == now \in Nat

ClockInit == now = 0

\* A stamp that Python would parse to a datetime rather than to None.
IsStamp(stamp) == stamp # None

\* (t - stamp).total_seconds(), floored at zero, zero when there is no stamp.
ElapsedSince(stamp, t) ==
    IF IsStamp(stamp) /\ t > stamp THEN t - stamp ELSE 0

Advance == /\ now < MaxNow
           /\ now' = now + 1

\* The last moment of the clock: where a module says so, nothing fails or
\* changes any more, so that what is then bound to happen can be seen to happen.
Calm == now = MaxNow
=============================================================================
