--------------------------- MODULE MCEventPipeline ---------------------------
(* EventPipeline on a few updates of each kind.                            *)
EXTENDS EventPipeline, TLC

CONSTANTS message, command, stray, misruled, t1, t2

AllKinds == {message, command, stray, misruled}
JustCommand == {command}
JustStray == {stray}
JustMisruled == {misruled}
TwoThreads == {t1, t2}
=============================================================================
