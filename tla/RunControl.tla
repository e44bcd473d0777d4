----------------------------- MODULE RunControl -----------------------------
(***************************************************************************)
(* One interactive run and everyone who holds a copy of it: the thread of  *)
(* the chat turn (execution/chat.rs), the threads that serve approvals     *)
(* (approve_model_run_with_control), and the threads that serve /stop      *)
(* (cancel_latest_session_run). All of them run the provider loop of       *)
(* execution/provider_loop.rs or write its run, over one row of the table  *)
(* runs that put_run replaces as a whole: whoever writes last wins.        *)
(*                                                                         *)
(* A copy is private to its thread, so what a thread does to it between    *)
(* two store calls is one step; every store call, provider request and     *)
(* tool execution is a step of its own. The model is a session without     *)
(* auto-approve and a run without a job, as POST /v1/chat/turn starts it.  *)
(***************************************************************************)
EXTENDS Integers, Sequences, RunEngine

CONSTANTS
  Starter,       \* the thread of the chat turn
  Approvers,     \* the threads of POST /v1/runs/approve, one request each
  Stoppers,      \* the threads of the stop request, one request each
  Tools,         \* tool names
  Spawning,      \* the tools that start an operating-system process
  Reaping,       \* the tools that wait for one of the run's processes
  NoTool,        \* no tool
  NoApproval,    \* no approval
  Policies,      \* the permission policies the daemon may be configured with
  Responses,     \* the lists of tool calls a provider response may carry
  MaxRounds,     \* config: provider_max_tool_rounds
  MaxNudges,     \* config: the session's completion_nudges
  MaxRetries,    \* config: provider_loop_max_transient_retries
  MaxRecoveries, \* config: provider_loop_max_empty_response_recoveries
  MaxFaults,     \* bound: failing store calls
  MaxRestarts    \* bound: restarts of the daemon

Workers == {Starter} \cup Approvers
Threads == Workers \cup Stoppers

ASSUME ControlAssumption ==
  /\ Starter \notin Approvers \cup Stoppers
  /\ Approvers \cap Stoppers = {}
  /\ NoTool \notin Tools
  /\ Policies \subseteq [Tools -> {"allow", "ask", "deny"}] /\ Policies # {}
  /\ Responses \subseteq Seq(Tools)
  /\ MaxRounds \in Nat \ {0}
  /\ {MaxNudges, MaxRetries, MaxRecoveries, MaxFaults, MaxRestarts} \subseteq Nat

VARIABLES
  row,       \* the run as the table runs holds it
  engine,    \* the copy of the run each thread holds
  cursor,    \* the provider loop cursor of each worker
  pc,        \* where each thread is
  claim,     \* the id of the approval each approver was asked for
  policy,    \* the permission policy in force
  alive,     \* the processes of the run that have not been ended
  responses, \* history: how many responses the provider gave
  log,       \* history: the tool executions of each worker
  faults,    \* history: failing store calls
  restarts   \* history: restarts

vars == <<row, engine, cursor, pc, claim, policy, alive, responses, log,
          faults, restarts>>
history == <<faults, restarts>>

(* The id of a tool approval names the run and the tool, the others the    *)
(* run and a count: a later call of the same tool asks under the same id.  *)
ToolApproval(tool) == [kind |-> "tool", tool |-> tool, n |-> 0]
ResetApproval(n) == [kind |-> "reset", tool |-> NoTool, n |-> n]
CompletionApproval(n) == [kind |-> "completion", tool |-> NoTool, n |-> n]

ApprovalIds ==
  [kind : {"tool", "reset", "completion"}, tool : Tools \cup {NoTool}, n : Nat]

(* A cursor: the last response and which of its calls have an output, and  *)
(* the budgets. `next' is the call the for loop is at.                     *)
Cursors ==
  [n : Nat, calls : Seq(Tools), next : Nat \ {0}, outs : SUBSET Nat,
   round : 0..MaxRounds, nudges : 0..MaxNudges, tries : 0..MaxRetries,
   recoveries : 0..MaxRecoveries]

NewCursor ==
  [n |-> 0, calls |-> <<>>, next |-> 1, outs |-> {}, round |-> 0,
   nudges |-> 0, tries |-> 0, recoveries |-> 0]

LoopStates == [id : ApprovalIds, cursor : Cursors]

ASSUME LoopAssumption == NoLoop \notin LoopStates

Processes == Workers \X Nat \X Nat

Runs ==
  [status : Statuses, approvals : SUBSET ApprovalIds,
   processes : SUBSET Processes, loop : LoopStates \cup {NoLoop},
   stepped : BOOLEAN]

Executions ==
  [n : Nat, call : Nat \ {0}, tool : Tools,
   policy : {"allow", "ask", "deny"}]

-----------------------------------------------------------------------------
(* put_run, with retries that may run out: the thread goes on at `next',   *)
(* or at `onError' with the row as it was.                                 *)
Save(w, run, next, onError) ==
  /\ engine' = [engine EXCEPT ![w] = run]
  /\ \/ /\ row' = run
        /\ pc' = [pc EXCEPT ![w] = next]
        /\ UNCHANGED faults
     \/ /\ faults < MaxFaults
        /\ faults' = faults + 1
        /\ pc' = [pc EXCEPT ![w] = onError]
        /\ UNCHANGED row

Goto(w, next) == pc' = [pc EXCEPT ![w] = next]

StoreFails(w, onError) ==
  /\ faults < MaxFaults
  /\ faults' = faults + 1
  /\ Goto(w, onError)
  /\ UNCHANGED <<row, engine>>

(* The run starts: RunEngine::new, start, persist_run.                     *)
Begin(w) ==
  /\ w = Starter /\ pc[w] = "idle"
  /\ Save(w, Start(NewRun), "check", "done")
  /\ UNCHANGED <<cursor, claim, policy, alive, responses, log, restarts>>

-----------------------------------------------------------------------------
(* The provider loop, by whichever worker runs it.                         *)

HasRoundBudget(cur) == cur.round < MaxRounds

(* The top of the loop: did the operator cancel the run, are rounds left.  *)
Check(w) ==
  /\ pc[w] = "check"
  /\ \/ /\ Goto(w, IF row.status = "cancelled" THEN "done"
                   ELSE IF HasRoundBudget(cursor[w]) THEN "request" ELSE "reset")
        /\ UNCHANGED <<row, engine, faults>>
     \/ StoreFails(w, "fail")
  /\ UNCHANGED <<cursor, claim, policy, alive, responses, log, restarts>>

(* Out of rounds: the run waits for an approval to start over.             *)
AskReset(w) ==
  /\ pc[w] = "reset"
  /\ LET id == ResetApproval(responses)
     IN Save(w, WaitForApproval(engine[w], id, [id |-> id, cursor |-> cursor[w]]),
             "done", "fail")
  /\ UNCHANGED <<cursor, claim, policy, alive, responses, log, restarts>>

AtResponse(cur, n, calls) ==
  [cur EXCEPT !.n = n, !.calls = calls, !.next = 1, !.outs = {}, !.tries = 0]

(* The provider answers, and the run is saved.                             *)
Respond(w) ==
  /\ pc[w] = "request"
  /\ \E calls \in Responses :
       /\ cursor' = [cursor EXCEPT ![w] = AtResponse(@, responses + 1, calls)]
       /\ Save(w, engine[w], IF calls = <<>> THEN "answer" ELSE "tools", "fail")
  /\ responses' = responses + 1
  /\ UNCHANGED <<claim, policy, alive, log, restarts>>

CountRetry(cur) == [cur EXCEPT !.tries = @ + 1]

(* A transient provider error: the run is saved with a note, and the same  *)
(* request is sent again.                                                  *)
Retry(w) ==
  /\ pc[w] = "request" /\ cursor[w].tries < MaxRetries
  /\ cursor' = [cursor EXCEPT ![w] = CountRetry(@)]
  /\ Save(w, engine[w], "request", "fail")
  /\ UNCHANGED <<claim, policy, alive, responses, log, restarts>>

(* Mutant: the recovery is not counted.                                    *)
RecordEmptyResponseRecovery_Free(cur) == [cur EXCEPT !.tries = 0]

RecordEmptyResponseRecovery(cur) ==
  [cur EXCEPT !.recoveries = @ + 1, !.tries = 0]

(* An empty response after tool results: the loop starts over.             *)
Recover(w) ==
  /\ pc[w] = "request" /\ cursor[w].recoveries < MaxRecoveries
  /\ cursor[w].outs # {}
  /\ cursor' = [cursor EXCEPT ![w] = RecordEmptyResponseRecovery(@)]
  /\ Save(w, ClearPending(engine[w]), "check", "fail")
  /\ UNCHANGED <<claim, policy, alive, responses, log, restarts>>

(* Any other provider error ends the turn.                                 *)
ProviderFails(w) ==
  /\ pc[w] = "request"
  /\ Goto(w, "fail")
  /\ UNCHANGED <<row, engine, cursor, claim, policy, alive, responses, log, history>>

(* An error that ends the turn fails the run, unless the copy is terminal. *)
FailRun(w) ==
  /\ pc[w] = "fail"
  /\ IF NotTerminal(engine[w])
       THEN Save(w, Fail(engine[w]), "done", "done")
       ELSE Goto(w, "done") /\ UNCHANGED <<row, engine, faults>>
  /\ UNCHANGED <<cursor, claim, policy, alive, responses, log, restarts>>

RecordCompletionNudge(cur) == [cur EXCEPT !.nudges = @ + 1]

(* A response without tool calls ends the turn: no check for a cancel      *)
(* since the top of the loop.                                              *)
CompleteRun(w) ==
  /\ pc[w] = "answer"
  /\ Save(w, Complete(engine[w]), "done", "done")
  /\ UNCHANGED <<cursor, claim, policy, alive, responses, log, restarts>>

(* ... unless the plan has unfinished items and a tool was used: the model *)
(* is nudged, or, out of nudges, the run waits for an approval.            *)
Nudge(w) ==
  /\ pc[w] = "answer" /\ engine[w].stepped
  /\ cursor[w].nudges < MaxNudges
  /\ cursor' = [cursor EXCEPT ![w] = RecordCompletionNudge(@)]
  /\ Save(w, ClearPending(engine[w]), "check", "fail")
  /\ UNCHANGED <<claim, policy, alive, responses, log, restarts>>

AskCompletion(w) ==
  /\ pc[w] = "answer" /\ engine[w].stepped
  /\ cursor[w].nudges >= MaxNudges
  /\ LET id == CompletionApproval(cursor[w].n)
     IN Save(w, WaitForApproval(engine[w], id, [id |-> id, cursor |-> cursor[w]]),
             "done", "fail")
  /\ UNCHANGED <<cursor, claim, policy, alive, responses, log, restarts>>

-----------------------------------------------------------------------------
(* The tool calls of a response.                                           *)

AtCall(w) == pc[w] = "tools" /\ cursor[w].next <= Len(cursor[w].calls)
Call(w) == cursor[w].calls[cursor[w].next]

(* Mutant: the loop stays at the call it just ran.                         *)
RecordToolOutput_Stays(cur) == [cur EXCEPT !.outs = @ \cup {cur.next}]

RecordToolOutput(cur) ==
  [cur EXCEPT !.outs = @ \cup {cur.next}, !.next = @ + 1]

AdvanceAfterResponse(cur) == [cur EXCEPT !.round = @ + 1]

(* Arguments that do not parse, and every call of a response whose         *)
(* signature repeats: an error for the model, no execution.                *)
SkipCall(w) ==
  /\ AtCall(w)
  /\ cursor' = [cursor EXCEPT ![w] = RecordToolOutput(@)]
  /\ engine' = [engine EXCEPT ![w] = RecordToolCompletion(@)]
  /\ UNCHANGED <<row, pc, claim, policy, alive, responses, log, history>>

(* A tool the policy denies: an error for the model, as if it had run.     *)
DenyCall(w) ==
  /\ AtCall(w) /\ policy[Call(w)] = "deny"
  /\ engine' = [engine EXCEPT ![w] = RecordToolCompletion(@)]
  /\ Goto(w, "after")
  /\ UNCHANGED <<row, cursor, claim, policy, alive, responses, log, history>>

(* A tool the policy asks about: the run waits, and the loop is left with  *)
(* a state that remembers this call and the outputs so far.                *)
AskTool(w) ==
  /\ AtCall(w) /\ policy[Call(w)] = "ask"
  /\ LET id == ToolApproval(Call(w))
         state == AdvanceAfterResponse(cursor[w])
     IN Save(w, WaitForApproval(engine[w], id, [id |-> id, cursor |-> state]),
             "done", "fail")
  /\ UNCHANGED <<cursor, claim, policy, alive, responses, log, restarts>>

LogCall(w, cur) ==
  LET tool == cur.calls[cur.next]
  IN log' = [log EXCEPT ![w] =
       Append(@, [n |-> cur.n, call |-> cur.next, tool |-> tool,
                  policy |-> policy[tool]])]

(* invoke_provider_tool_call: the call runs, and the copy learns of the    *)
(* process it started or waited for.                                       *)
Invoke(w, cur, run) ==
  LET tool == cur.calls[cur.next]
      process == <<w, cur.n, cur.next>>
      stepped == RecordToolCompletion(run)
  IN /\ LogCall(w, cur)
     /\ \/ /\ tool \in Spawning
           /\ alive' = alive \cup {process}
           /\ engine' = [engine EXCEPT ![w] = TrackActiveProcess(stepped, process)]
        \/ /\ tool \in Reaping
           /\ \E ended \in run.processes :
                /\ alive' = alive \ {ended}
                /\ engine' = [engine EXCEPT ![w] = FinishActiveProcess(stepped, ended)]
        \/ /\ tool \notin Spawning
           /\ alive' = alive
           /\ engine' = [engine EXCEPT ![w] = stepped]

(* Mutant: only a denied tool is kept from running.                        *)
MayRun_NotDenied(tool) == policy[tool] # "deny"

MayRun(tool) == policy[tool] = "allow"

RunCall(w) ==
  /\ AtCall(w) /\ MayRun(Call(w))
  /\ Invoke(w, cursor[w], engine[w])
  /\ Goto(w, "after")
  /\ UNCHANGED <<row, cursor, claim, policy, responses, history>>

(* A tool error the model is not told about ends the turn.                 *)
CallFails(w) ==
  /\ AtCall(w) /\ MayRun(Call(w))
  /\ LogCall(w, cursor[w])
  /\ engine' = [engine EXCEPT ![w] = RecordToolCompletion(@)]
  /\ Goto(w, "fail")
  /\ UNCHANGED <<row, cursor, claim, policy, alive, responses, history>>

(* After a call: did the operator cancel the run, or type a new message.   *)
AfterCall(w) ==
  /\ pc[w] = "after"
  /\ \/ /\ \/ /\ row.status = "cancelled"
              /\ Goto(w, "done")
              /\ UNCHANGED cursor
           \/ /\ row.status # "cancelled"
              /\ Goto(w, "tools") \/ Goto(w, "interrupt")
              /\ cursor' = [cursor EXCEPT ![w] = RecordToolOutput(@)]
        /\ UNCHANGED <<row, engine, faults>>
     \/ StoreFails(w, "fail") /\ UNCHANGED cursor
  /\ UNCHANGED <<claim, policy, alive, responses, log, restarts>>

InterruptRun(w) ==
  /\ pc[w] = "interrupt"
  /\ Save(w, Interrupt(engine[w]), "done", "fail")
  /\ UNCHANGED <<cursor, claim, policy, alive, responses, log, restarts>>

(* Every call of the response has its output: the next round.              *)
EndRound(w) ==
  /\ pc[w] = "tools" /\ cursor[w].next > Len(cursor[w].calls)
  /\ cursor' = [cursor EXCEPT ![w] = AdvanceAfterResponse(@)]
  /\ Save(w, engine[w], "check", "fail")
  /\ UNCHANGED <<claim, policy, alive, responses, log, restarts>>

-----------------------------------------------------------------------------
(* An operator approves what the run waits for.                            *)

(* The operator sees the pending approval of the stored run and confirms   *)
(* it; the request may reach its thread any time later.                    *)
Submit(a) ==
  /\ a \in Approvers /\ pc[a] = "idle"
  /\ row.status = "waiting_approval"
  /\ claim' = [claim EXCEPT ![a] = row.loop.id]
  /\ Goto(a, "submitted")
  /\ UNCHANGED <<row, engine, cursor, policy, alive, responses, log, history>>

Matches(run, id) == run.loop # NoLoop /\ run.loop.id = id

(* The thread reads the run, compares the id, resolves and resumes its     *)
(* copy. Nothing is stored: the row still shows the run as waiting.        *)
Load(a) ==
  /\ pc[a] = "submitted"
  /\ LET id == claim[a]
     IN \/ /\ Matches(row, id) /\ CanResolve(row, row.loop.id)
           /\ engine' = [engine EXCEPT ![a] = ResolveAndResume(row, row.loop.id)]
           /\ cursor' = [cursor EXCEPT ![a] = row.loop.cursor]
           /\ Goto(a, "granted")
           /\ UNCHANGED <<row, faults>>
        \/ /\ ~(Matches(row, id) /\ CanResolve(row, row.loop.id))
           /\ Goto(a, "done")
           /\ UNCHANGED <<row, engine, cursor, faults>>
        \/ StoreFails(a, "done") /\ UNCHANGED cursor
  /\ UNCHANGED <<claim, policy, alive, responses, log, restarts>>

Granted(a, kind) == pc[a] = "granted" /\ claim[a].kind = kind

(* The policy, asked again, now denies the tool: the run fails.            *)
GrantDenied(a) ==
  /\ Granted(a, "tool") /\ policy[Call(a)] = "deny"
  /\ Save(a, Fail(engine[a]), "done", "done")
  /\ UNCHANGED <<cursor, claim, policy, alive, responses, log, restarts>>

(* The approved call runs, though the run may have been cancelled since.   *)
SpendGrant(a) ==
  /\ Granted(a, "tool") /\ policy[Call(a)] # "deny"
  /\ Invoke(a, cursor[a], engine[a])
  /\ Goto(a, "spent") \/ Goto(a, "superseded")
  /\ UNCHANGED <<row, cursor, claim, policy, responses, history>>

(* An error of the approved tool is returned: the row goes on waiting.     *)
GrantFails(a) ==
  /\ Granted(a, "tool") /\ policy[Call(a)] # "deny"
  /\ LogCall(a, cursor[a])
  /\ Goto(a, "done")
  /\ UNCHANGED <<row, engine, cursor, claim, policy, alive, responses, history>>

(* A new message of the operator interrupts the run before it goes on.     *)
Supersede(a) ==
  /\ pc[a] = "superseded"
  /\ Save(a, Interrupt(engine[a]), "done", "done")
  /\ UNCHANGED <<cursor, claim, policy, alive, responses, log, restarts>>

(* The output of the approved call joins the outputs from before; the      *)
(* calls after it in the response are not looked at again.                 *)
ResumeTool(a) ==
  /\ pc[a] = "spent"
  /\ cursor' = [cursor EXCEPT ![a] = RecordToolOutput(@)]
  /\ Save(a, ClearPending(engine[a]), "check", "done")
  /\ UNCHANGED <<claim, policy, alive, responses, log, restarts>>

ResetRoundBudget(cur) == [cur EXCEPT !.round = 0]

ResumeReset(a) ==
  /\ Granted(a, "reset")
  /\ cursor' = [cursor EXCEPT ![a] = ResetRoundBudget(@)]
  /\ Save(a, ClearPending(engine[a]), "check", "done")
  /\ UNCHANGED <<claim, policy, alive, responses, log, restarts>>

ResumeCompletion(a) ==
  /\ Granted(a, "completion")
  /\ Save(a, ClearPending(engine[a]), "check", "done")
  /\ UNCHANGED <<cursor, claim, policy, alive, responses, log, restarts>>

(* The plan was finished meanwhile: an error, and the row goes on waiting. *)
GateIsGone(a) ==
  /\ Granted(a, "completion")
  /\ Goto(a, "done")
  /\ UNCHANGED <<row, engine, cursor, claim, policy, alive, responses, log, history>>

-----------------------------------------------------------------------------
(* /stop: the latest run of the session that is not terminal is read, its  *)
(* processes are terminated, and the copy is saved as cancelled.           *)

(* Mutant: terminal runs are cancelled too.                                *)
IsActive_Any(run) == run.status # "queued"

IsActive(run) == NotTerminal(run) /\ run.status # "queued"

ReadStop(s) ==
  /\ s \in Stoppers /\ pc[s] = "idle"
  /\ \/ /\ IsActive(row)
        /\ engine' = [engine EXCEPT ![s] = row]
        /\ alive' = alive \ row.processes
        /\ Goto(s, "stopping")
     \/ /\ ~IsActive(row)
        /\ Goto(s, "done")
        /\ UNCHANGED <<engine, alive>>
  /\ UNCHANGED <<row, cursor, claim, policy, responses, log, history>>

WriteStop(s) ==
  /\ pc[s] = "stopping"
  /\ Save(s, Cancel(engine[s]), "done", "done")
  /\ UNCHANGED <<cursor, claim, policy, alive, responses, log, restarts>>

-----------------------------------------------------------------------------
(* The daemon restarts, perhaps with another policy: its threads are gone, *)
(* and reconcile_runs interrupts a run no approval is waited for.          *)

Unrecoverable == {"running", "waiting_process", "waiting_delegate", "resuming"}

Reconcile(run) ==
  IF run.status \in Unrecoverable THEN [run EXCEPT !.status = "interrupted"] ELSE run

Restart ==
  /\ restarts < MaxRestarts
  /\ restarts' = restarts + 1
  /\ pc' = [t \in Threads |-> IF pc[t] = "idle" /\ t # Starter THEN "idle" ELSE "done"]
  /\ row' = Reconcile(row)
  /\ policy' \in Policies
  /\ UNCHANGED <<engine, cursor, claim, alive, responses, log, faults>>

-----------------------------------------------------------------------------
Init ==
  /\ row = NewRun
  /\ engine = [t \in Threads |-> NewRun]
  /\ cursor = [w \in Workers |-> NewCursor]
  /\ pc = [t \in Threads |-> "idle"]
  /\ claim = [a \in Approvers |-> NoApproval]
  /\ policy \in Policies
  /\ alive = {}
  /\ responses = 0
  /\ log = [w \in Workers |-> <<>>]
  /\ faults = 0
  /\ restarts = 0

Loop(w) ==
  \/ Check(w) \/ AskReset(w) \/ Respond(w) \/ Retry(w) \/ Recover(w)
  \/ ProviderFails(w) \/ FailRun(w)
  \/ CompleteRun(w) \/ Nudge(w) \/ AskCompletion(w)
  \/ SkipCall(w) \/ DenyCall(w) \/ AskTool(w) \/ RunCall(w) \/ CallFails(w)
  \/ AfterCall(w) \/ InterruptRun(w) \/ EndRound(w)

Approval(a) ==
  \/ Load(a) \/ GrantDenied(a) \/ SpendGrant(a) \/ GrantFails(a) \/ Supersede(a)
  \/ ResumeTool(a) \/ ResumeReset(a) \/ ResumeCompletion(a) \/ GateIsGone(a)

Next ==
  \/ \E w \in Workers : Begin(w) \/ Loop(w)
  \/ \E a \in Approvers : Submit(a) \/ Approval(a)
  \/ \E s \in Stoppers : ReadStop(s) \/ WriteStop(s)
  \/ Restart

Spec == Init /\ [][Next]_vars

(* A thread that runs keeps running; nobody has to approve, stop or        *)
(* restart anything.                                                       *)
FairSpec ==
  /\ Spec
  /\ \A w \in Workers : WF_vars(Loop(w))
  /\ \A a \in Approvers : WF_vars(Approval(a))
  /\ \A s \in Stoppers : WF_vars(WriteStop(s))

(* The same system with an operator who acts only when nothing is under    *)
(* way: every approval and stop is over before the next one begins.        *)
Running(t) == pc[t] \notin {"idle", "submitted", "done"}
Quiet == \A t \in Threads : ~Running(t)
AtRest == Quiet /\ \A a \in Approvers : pc[a] # "submitted"

SerialNext ==
  \/ \E w \in Workers : Begin(w) \/ Loop(w)
  \/ \E a \in Approvers : (AtRest /\ Submit(a)) \/ Approval(a)
  \/ \E s \in Stoppers : (AtRest /\ ReadStop(s)) \/ WriteStop(s)
  \/ Restart

SerialSpec == Init /\ [][SerialNext]_vars

-----------------------------------------------------------------------------
(* Properties.                                                             *)

PcValues ==
  {"idle", "check", "reset", "request", "answer", "tools", "after",
   "interrupt", "fail", "done", "submitted", "granted", "spent",
   "superseded", "stopping"}

(* The variables hold what the code can put in them; no cursor has used    *)
(* more rounds, nudges or retries than configured.                         *)
TypeOK ==
  /\ row \in Runs
  /\ engine \in [Threads -> Runs]
  /\ cursor \in [Workers -> Cursors]
  /\ pc \in [Threads -> PcValues]
  /\ claim \in [Approvers -> ApprovalIds \cup {NoApproval}]
  /\ policy \in Policies
  /\ alive \subseteq Processes
  /\ responses \in Nat
  /\ log \in [Workers -> Seq(Executions)]
  /\ faults \in 0..MaxFaults
  /\ restarts \in 0..MaxRestarts

(* The stored run waits for an approval exactly when it holds a loop state *)
(* to continue from, and then it lists that one approval: whoever wrote    *)
(* last, a waiting run can be resumed, and no other run can.               *)
WaitingIsResumable ==
  /\ row.status = "waiting_approval" <=> row.loop # NoLoop
  /\ row.loop # NoLoop => row.approvals = {row.loop.id}

(* A tool the policy denies never runs, and a tool it asks about runs only *)
(* in the thread of an approval that named this tool.                      *)
PolicyIsKept ==
  \A w \in Workers : \A e \in DOMAIN log[w] :
    /\ log[w][e].policy # "deny"
    /\ log[w][e].policy = "ask" =>
         w \in Approvers /\ claim[w] = ToolApproval(log[w][e].tool)

(* However approvals, copies and cancels interleave, one approval request  *)
(* pays for one execution, and no thread runs one call twice.              *)
GrantsAreSpentOnce ==
  \A w \in Workers : \A d, e \in DOMAIN log[w] :
    d # e =>
      /\ ~(log[w][d].policy = "ask" /\ log[w][e].policy = "ask")
      /\ <<log[w][d].n, log[w][d].call>> # <<log[w][e].n, log[w][e].call>>

(* As long as every store call succeeds, a run stored as running is in the *)
(* hands of a thread that will store how it ended: nothing a loser of a    *)
(* race leaves behind strands it, and a restart does not either.           *)
RunningHasAThread ==
  faults = 0 /\ row.status = "running" => ~Quiet

(* Once a run is terminal and nobody holds a copy of it, nothing a late    *)
(* request does changes it, runs a tool or starts another copy.            *)
TerminalIsFinal ==
  [][~NotTerminal(row) /\ Quiet => Quiet' /\ row' = row /\ log' = log]_vars

(* If operators do not act at the same time as a turn or as each other,    *)
(* the stored run lives as if there were no copies: who is at work has it  *)
(* for himself and moves it as the state machine allows, while store calls *)
(* succeed nobody leaves it running, and once over it never changes again. *)
Life == INSTANCE RunLife WITH run <- row, busy <- ~ AtRest
ImplementsLife == Life!Spec

(* Under such an operator the copies do not lose a process either: as long *)
(* as the run is not terminal, every store call succeeds and the daemon    *)
(* stays up, a process it started and did not wait for is in the stored    *)
(* run or in the copy of the thread that will store it, where a later stop *)
(* finds it.                                                               *)
ProcessesAreTracked ==
  faults = 0 /\ restarts = 0 /\ NotTerminal(row) =>
    alive \subseteq row.processes \cup
      UNION {engine[t].processes : t \in {u \in Threads : Running(u)}}

(* ``The system prefers to stop with a reason rather than to spin'' (docs/ *)
(* current/02-prompt-and-turn-flow.md:225): a running run is stored as     *)
(* waiting or ended after finitely many rounds, nudges and retries.        *)
TurnEnds == (row.status = "running") ~> (row.status # "running")

-----------------------------------------------------------------------------
(* What the documentation says, and the code does not do.                 *)

(* docs/current/06-storage-recovery-and-diagnostics.md:163: /stop cancels  *)
(* the active turn. A cancelled run stays cancelled.                       *)
StopCancelsTheTurn ==
  [][row.status = "cancelled" => row'.status = "cancelled"]_vars
=============================================================================
