---------------------------- MODULE MCRunControl ----------------------------
(* RunControl on a few threads, tools and responses.                       *)
EXTENDS RunControl, TLC

CONSTANTS turn, a1, a2, stop, read, edit, spawn, wait

TwoApprovers == {a1, a2}
OneStopper == {stop}
ApproverSymmetry == Permutations(TwoApprovers)

TwoTools == {read, edit}
ProcessTools == {spawn, wait}
AskEdit == [t \in TwoTools |-> IF t = edit THEN "ask" ELSE "allow"]
DenyEdit == [t \in TwoTools |-> IF t = edit THEN "deny" ELSE "allow"]
EditPolicies == {AskEdit}
ChangingPolicies == {AskEdit, DenyEdit}
AskSpawn == [t \in ProcessTools |-> IF t = spawn THEN "ask" ELSE "allow"]
AskSpawnOnly == {AskSpawn}

MixedCalls == {<<>>, <<read, edit>>}
SpawnThenWait == {<<>>, <<spawn>>, <<wait>>}
Spawner == {spawn}
Waiter == {wait}
=============================================================================
