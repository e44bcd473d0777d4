---------------------------- MODULE MCAgentTasks ----------------------------
(* AgentTasks with the background worker, a waiting thread and one target. *)
EXTENDS AgentTasks, TLC

CONSTANTS tick, pump, target

TwoThreads == {tick, pump}
OneTarget == {target}
=============================================================================
