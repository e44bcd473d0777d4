---------------------------- MODULE MCDelegation -----------------------------
(* An instance of Delegation for TLC.                                      *)
EXTENDS Delegation
CONSTANTS tick, pump
TwoWorkers == {tick, pump}
=============================================================================
