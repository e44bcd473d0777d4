--------------------------- MODULE MCSessionInbox ----------------------------
(* Instances of SessionInbox for TLC.                                      *)
EXTENDS SessionInbox
CONSTANTS tick, pump
OnePump == {pump}
=============================================================================
