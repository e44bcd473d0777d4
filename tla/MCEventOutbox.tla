---------------------------- MODULE MCEventOutbox ----------------------------
(* EventOutbox on two rows.                                                *)
EXTENDS EventOutbox, TLC

CONSTANTS r1, r2

MCRows == {r1, r2}

(* The lookup is the formula of retry_delay_seconds.                       *)
Smaller(a, b) == IF a < b THEN a ELSE b
ASSUME DelayFormula ==
  \A a \in 0 .. 12 :
    Delays[Clamp(a, 1, 6)] = Smaller(2 ^ (Clamp(a, 1, 6) - 1), 60)
=============================================================================
