------------------------------ MODULE RunEngine ------------------------------
(***************************************************************************)
(* The run state machine of crates/agent-runtime/src/run.rs: a snapshot    *)
(* and the operations of RunEngine a provider turn uses. An operation is   *)
(* refused by require_status or require_not_terminal: the guard is an      *)
(* operator of its own, and who calls the operation has to look at it.     *)
(*                                                                         *)
(* Timestamps, error and result texts, usage and evidence are left out; of *)
(* recent_steps only whether a tool step was ever recorded is kept, of     *)
(* provider_loop only a state that names a pending approval (a loop state  *)
(* without one is refused by every reader, like no loop state at all).     *)
(***************************************************************************)

CONSTANT NoLoop   \* no provider loop state with a pending approval

Terminal == {"completed", "failed", "cancelled", "interrupted"}
Statuses == {"queued", "running", "waiting_approval", "waiting_process",
             "waiting_delegate", "resuming"} \cup Terminal

NotTerminal(run) == run.status \notin Terminal

NewRun ==
  [status |-> "queued", approvals |-> {}, processes |-> {}, loop |-> NoLoop,
   stepped |-> FALSE]

Start(run) == [run EXCEPT !.status = "running"]

RecordToolCompletion(run) == [run EXCEPT !.stepped = TRUE]

(* Mutant: the run is saved before set_provider_loop_state.                *)
WaitForApproval_NoLoop(run, id, loop) ==
  [run EXCEPT !.status = "waiting_approval", !.approvals = @ \cup {id}]

(* wait_for_approval and the set_provider_loop_state every caller adds.    *)
WaitForApproval(run, id, loop) ==
  [run EXCEPT !.status = "waiting_approval", !.approvals = @ \cup {id},
              !.loop = loop]

CanResolve(run, id) == run.status = "waiting_approval" /\ id \in run.approvals

(* resolve_approval, and the resume that follows it once nothing pends.    *)
ResolveAndResume(run, id) ==
  [run EXCEPT !.approvals = @ \ {id},
              !.status = IF run.approvals = {id} THEN "running" ELSE @]

(* set_provider_loop_state with a state that asks for nothing.             *)
ClearPending(run) == [run EXCEPT !.loop = NoLoop]

(* Mutant: a started process is not noted in the run.                      *)
TrackActiveProcess_Forgets(run, process) == run

TrackActiveProcess(run, process) ==
  [run EXCEPT !.processes = @ \cup {process}]

FinishActiveProcess(run, process) ==
  [run EXCEPT !.processes = @ \ {process}]

(* complete and cancel drop everything the run waited for ...              *)
Finish(run, status) ==
  [run EXCEPT !.status = status, !.approvals = {}, !.processes = {},
              !.loop = NoLoop]

Complete(run) == Finish(run, "completed")

Cancel(run) == Finish(run, "cancelled")

(* ... fail and interrupt only the provider state.                         *)
Fail(run) == [run EXCEPT !.status = "failed", !.loop = NoLoop]

(* Mutant: the operator's next message leaves the run as it is.            *)
Interrupt_Forgets(run) == run

Interrupt(run) == [run EXCEPT !.status = "interrupted", !.loop = NoLoop]
=============================================================================
