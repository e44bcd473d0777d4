---------------------------- MODULE MCSchedules -----------------------------
(* An instance of Schedules for TLC.                                       *)
EXTENDS Schedules

CONSTANTS tick, pump

OnePump == {pump}
=============================================================================
