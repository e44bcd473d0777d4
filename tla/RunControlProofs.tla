-------------------------- MODULE RunControlProofs --------------------------
(***************************************************************************)
(* Theorems about RunControl, for any number of threads, tools, rounds,    *)
(* faults and restarts. The inductive invariant IInv says what the copies  *)
(* hold at each point of a thread: that is what makes the stored run       *)
(* resumable whoever of them is stored last. For the operator who waits    *)
(* until nothing is under way, SerialInv adds that one thread at a time is *)
(* at work: then no process is lost and a run ends once.                   *)
(***************************************************************************)
EXTENDS RunControl, TLAPS

LoopPcs == {"check", "reset", "request", "answer", "tools", "after", "interrupt"}
GrantPcs == {"granted", "spent", "superseded"}
BudgetPcs == {"request", "answer", "tools", "after", "interrupt"}

Consistent(run) ==
  /\ run.status = "waiting_approval" <=> run.loop # NoLoop
  /\ run.loop # NoLoop => run.approvals = {run.loop.id}

(* A tool approval is at the call the saved cursor points to.              *)
AsksFor(id, cur) ==
  id.kind = "tool" =>
    /\ cur.next <= Len(cur.calls)
    /\ id = ToolApproval(cur.calls[cur.next])

RowInv ==
  /\ Consistent(row)
  /\ row.loop # NoLoop =>
       /\ row.loop.cursor.n <= responses
       /\ AsksFor(row.loop.id, row.loop.cursor)

(* Which points a thread can be at.                                        *)
PlaceInv ==
  /\ \A s \in Stoppers : pc[s] \in {"idle", "stopping", "done"}
  /\ \A w \in Workers : pc[w] # "stopping"
  /\ pc[Starter] \notin GrantPcs \cup {"submitted"}

(* What the copy of a worker at this point holds.                          *)
CopyOK(at, run) ==
  /\ at \in LoopPcs => run.status = "running" /\ run.loop = NoLoop
  /\ at \in LoopPcs \cup GrantPcs => run.approvals = {}
  /\ at \in GrantPcs => run.status = "running"
  /\ at = "fail" => Consistent(run)

EngineInv == \A w \in Workers : CopyOK(pc[w], engine[w])

CursorOK(at, cur, n) ==
  /\ cur.n <= n
  /\ at \in BudgetPcs => cur.round < MaxRounds

CursorInv == \A w \in Workers : CursorOK(pc[w], cursor[w], responses)

ClaimOK(at, asked, cur) ==
  /\ at \in GrantPcs \cup {"submitted"} => asked \in ApprovalIds
  /\ at = "granted" => AsksFor(asked, cur)

ClaimInv == \A a \in Approvers : ClaimOK(pc[a], claim[a], cursor[a])

(* A logged call is behind the cursor; at the call or behind it where the  *)
(* thread has just run it.                                                 *)
Behind(entry, cur, at) ==
  \/ entry.n < cur.n
  \/ /\ entry.n = cur.n
     /\ entry.call <= cur.next
     /\ at = "tools" => entry.call < cur.next

LogOK(at, cur, entries) ==
  /\ at \in {"idle", "submitted", "granted"} => entries = <<>>
  /\ \A e \in DOMAIN entries :
       Behind(entries[e], cur, at) /\ (entries[e].policy = "ask" => e = 1)

LogInv == \A w \in Workers : LogOK(pc[w], cursor[w], log[w])

StartInv ==
  pc[Starter] = "idle" =>
    row.status = "queued" /\ \A t \in Threads : pc[t] \in {"idle", "done"}

HandsInv ==
  faults = 0 =>
    /\ row.status = "running" => \E w \in Workers : pc[w] \in LoopPcs \cup {"fail"}
    /\ \A w \in Workers : pc[w] = "fail" => NotTerminal(engine[w])

WorkersInv == EngineInv /\ CursorInv /\ ClaimInv /\ LogInv

IInv ==
  /\ TypeOK /\ RowInv /\ PlaceInv /\ WorkersInv /\ PolicyIsKept
  /\ GrantsAreSpentOnce /\ StartInv /\ HandsInv

-----------------------------------------------------------------------------
(* What the operations do to a run and to a cursor.                        *)

(* A new run and the start of a run are runs.                              *)
LEMMA StartRun ==
  /\ NewRun \in Runs
  /\ Start(NewRun) \in Runs
  /\ Start(NewRun).status = "running" /\ Start(NewRun).loop = NoLoop
  /\ Start(NewRun).approvals = {}
  /\ NewRun.status = "queued" /\ NewRun.loop = NoLoop
BY DEF NewRun, Start, Runs, Statuses

(* The operations that end a run.                                          *)
LEMMA EndRun ==
  ASSUME NEW run \in Runs
  PROVE  /\ Complete(run) \in Runs /\ Complete(run).status = "completed"
         /\ Cancel(run) \in Runs /\ Cancel(run).status = "cancelled"
         /\ Fail(run) \in Runs /\ Fail(run).status = "failed"
         /\ Interrupt(run) \in Runs /\ Interrupt(run).status = "interrupted"
         /\ Complete(run).loop = NoLoop /\ Cancel(run).loop = NoLoop
         /\ Fail(run).loop = NoLoop /\ Interrupt(run).loop = NoLoop
BY DEF Complete, Cancel, Fail, Interrupt, Finish, Runs, Statuses, Terminal

(* The operations that ask for an approval and go on after it.             *)
LEMMA WaitRun ==
  ASSUME NEW run \in Runs, NEW id \in ApprovalIds, NEW loop \in LoopStates
  PROVE  /\ WaitForApproval(run, id, loop) \in Runs
         /\ WaitForApproval(run, id, loop).status = "waiting_approval"
         /\ WaitForApproval(run, id, loop).loop = loop
         /\ run.approvals = {} => WaitForApproval(run, id, loop).approvals = {id}
         /\ ResolveAndResume(run, id) \in Runs
         /\ run.approvals = {id} =>
              /\ ResolveAndResume(run, id).status = "running"
              /\ ResolveAndResume(run, id).approvals = {}
BY DEF WaitForApproval, ResolveAndResume, Runs, Statuses

(* The operations that leave the status of a run alone.                    *)
LEMMA NoteRun ==
  ASSUME NEW run \in Runs, NEW process \in Processes
  PROVE  /\ RecordToolCompletion(run) \in Runs
         /\ TrackActiveProcess(run, process) \in Runs
         /\ FinishActiveProcess(run, process) \in Runs
         /\ ClearPending(run) \in Runs
         /\ \A new \in {RecordToolCompletion(run), TrackActiveProcess(run, process),
                        FinishActiveProcess(run, process), ClearPending(run)} :
              new.status = run.status /\ new.approvals = run.approvals
         /\ \A new \in {RecordToolCompletion(run), TrackActiveProcess(run, process),
                        FinishActiveProcess(run, process)} :
              new.loop = run.loop
         /\ ClearPending(run).loop = NoLoop
BY DEF RecordToolCompletion, TrackActiveProcess, FinishActiveProcess, ClearPending, Runs

(* A restart leaves a run that waits or is over as it is.                  *)
LEMMA ReconcileRun ==
  ASSUME NEW run \in Runs
  PROVE  /\ Reconcile(run) \in Runs
         /\ Reconcile(run).loop = run.loop
         /\ Reconcile(run).approvals = run.approvals
         /\ Reconcile(run).status # "running"
         /\ run.status \in {"waiting_approval", "queued"} \cup Terminal => Reconcile(run) = run
         /\ Reconcile(run).status = "waiting_approval" => run.status = "waiting_approval"
BY DEF Reconcile, Unrecoverable, Runs, Statuses, Terminal

(* The bounds are numbers.                                                 *)
LEMMA Bounds ==
  /\ MaxRounds \in Nat /\ MaxRounds > 0
  /\ MaxNudges \in Nat /\ MaxRetries \in Nat /\ MaxRecoveries \in Nat
  /\ MaxFaults \in Nat /\ MaxRestarts \in Nat
BY ControlAssumption

(* A new cursor is one.                                                    *)
LEMMA FreshCursor ==
  NewCursor \in Cursors /\ NewCursor.n = 0
BY Bounds DEF NewCursor, Cursors

(* An output moves the cursor to the next call.                            *)
LEMMA OutputCursor ==
  ASSUME NEW cur \in Cursors
  PROVE  /\ RecordToolOutput(cur) \in Cursors
         /\ RecordToolOutput(cur).n = cur.n
         /\ RecordToolOutput(cur).next = cur.next + 1
         /\ RecordToolOutput(cur).round = cur.round
<1>1. cur.next + 1 \in Nat \ {0} /\ cur.outs \cup {cur.next} \in SUBSET Nat
  BY DEF Cursors
<1> QED
  BY <1>1 DEF RecordToolOutput, Cursors

(* Starting the rounds over and counting one.                              *)
LEMMA RoundCursor ==
  ASSUME NEW cur \in Cursors
  PROVE  /\ ResetRoundBudget(cur) \in Cursors
         /\ ResetRoundBudget(cur).n = cur.n
         /\ cur.round < MaxRounds => AdvanceAfterResponse(cur) \in Cursors
         /\ AdvanceAfterResponse(cur).n = cur.n
         /\ AdvanceAfterResponse(cur).next = cur.next
         /\ AdvanceAfterResponse(cur).calls = cur.calls
<1>z. 0 \in 0..MaxRounds
  BY Bounds
<1>1. ResetRoundBudget(cur) \in Cursors /\ ResetRoundBudget(cur).n = cur.n
  BY <1>z DEF ResetRoundBudget, Cursors
<1>2. cur.round < MaxRounds => cur.round + 1 \in 0..MaxRounds
  BY Bounds DEF Cursors
<1>3. cur.round < MaxRounds => AdvanceAfterResponse(cur) \in Cursors
  BY <1>2 DEF AdvanceAfterResponse, Cursors
<1>4. /\ AdvanceAfterResponse(cur).n = cur.n
      /\ AdvanceAfterResponse(cur).next = cur.next
      /\ AdvanceAfterResponse(cur).calls = cur.calls
  BY DEF AdvanceAfterResponse, Cursors
<1> QED
  BY <1>1, <1>3, <1>4

(* A response puts the cursor at its first call.                           *)
LEMMA AnswerCursor ==
  ASSUME NEW cur \in Cursors, NEW n \in Nat, NEW calls \in Responses
  PROVE  /\ AtResponse(cur, n, calls) \in Cursors
         /\ AtResponse(cur, n, calls).n = n
         /\ AtResponse(cur, n, calls).round = cur.round
<1> DEFINE CallLists == Seq(Tools)
<1>1. calls \in CallLists /\ 0 \in 0..MaxRetries
      /\ 1 \in Nat \ {0} /\ {} \in SUBSET Nat
  BY Bounds, ControlAssumption
<1>2. Cursors =
        [n : Nat, calls : CallLists, next : Nat \ {0}, outs : SUBSET Nat,
         round : 0..MaxRounds, nudges : 0..MaxNudges, tries : 0..MaxRetries,
         recoveries : 0..MaxRecoveries]
  BY DEF Cursors
<1> HIDE DEF CallLists
<1>3. AtResponse(cur, n, calls) \in Cursors
  BY <1>1, <1>2 DEF AtResponse
<1>4. /\ AtResponse(cur, n, calls).n = n
      /\ AtResponse(cur, n, calls).round = cur.round
  BY <1>2 DEF AtResponse
<1> QED
  BY <1>3, <1>4

(* The counters of a turn.                                                 *)
LEMMA CountCursor ==
  ASSUME NEW cur \in Cursors
  PROVE  /\ cur.tries < MaxRetries => CountRetry(cur) \in Cursors
         /\ CountRetry(cur).n = cur.n /\ CountRetry(cur).round = cur.round
         /\ CountRetry(cur).next = cur.next
         /\ cur.recoveries < MaxRecoveries => RecordEmptyResponseRecovery(cur) \in Cursors
         /\ RecordEmptyResponseRecovery(cur).n = cur.n
         /\ RecordEmptyResponseRecovery(cur).next = cur.next
         /\ cur.nudges < MaxNudges => RecordCompletionNudge(cur) \in Cursors
         /\ RecordCompletionNudge(cur).n = cur.n
         /\ RecordCompletionNudge(cur).next = cur.next
<1>1. /\ cur.tries < MaxRetries => cur.tries + 1 \in 0..MaxRetries
      /\ cur.recoveries < MaxRecoveries => cur.recoveries + 1 \in 0..MaxRecoveries
      /\ cur.nudges < MaxNudges => cur.nudges + 1 \in 0..MaxNudges
      /\ 0 \in 0..MaxRetries
  BY Bounds DEF Cursors
<1>2. cur.tries < MaxRetries => CountRetry(cur) \in Cursors
  BY <1>1 DEF CountRetry, Cursors
<1>3. cur.recoveries < MaxRecoveries => RecordEmptyResponseRecovery(cur) \in Cursors
  BY <1>1 DEF RecordEmptyResponseRecovery, Cursors
<1>4. cur.nudges < MaxNudges => RecordCompletionNudge(cur) \in Cursors
  BY <1>1 DEF RecordCompletionNudge, Cursors
<1>5. /\ CountRetry(cur).n = cur.n /\ CountRetry(cur).round = cur.round
      /\ RecordEmptyResponseRecovery(cur).n = cur.n
      /\ RecordCompletionNudge(cur).n = cur.n
      /\ CountRetry(cur).next = cur.next
      /\ RecordEmptyResponseRecovery(cur).next = cur.next
      /\ RecordCompletionNudge(cur).next = cur.next
  BY DEF CountRetry, RecordEmptyResponseRecovery, RecordCompletionNudge, Cursors
<1> QED
  BY <1>2, <1>3, <1>4, <1>5
-----------------------------------------------------------------------------
(* One step keeps each part of the invariant.                              *)

(* Save keeps the types if it is given a run.                              *)
LEMMA SaveTypes ==
  ASSUME TypeOK, NEW w \in Threads, NEW run \in Runs,
         NEW next \in PcValues, NEW onError \in PcValues,
         Save(w, run, next, onError)
  PROVE  /\ row' \in Runs /\ engine' \in [Threads -> Runs]
         /\ pc' \in [Threads -> PcValues] /\ faults' \in 0..MaxFaults
<1>1. row' \in Runs
  BY DEF Save, TypeOK
<1>2. engine' \in [Threads -> Runs]
  BY DEF Save, TypeOK
<1>3. pc' \in [Threads -> PcValues]
  BY DEF Save, TypeOK
<1>4. faults' \in 0..MaxFaults
  BY Bounds DEF Save, TypeOK
<1> QED
  BY <1>1, <1>2, <1>3, <1>4

(* So do the other ways a step ends.                                       *)
LEMMA GotoTypes ==
  ASSUME TypeOK, NEW w \in Threads, NEW next \in PcValues
  PROVE  /\ Goto(w, next) => pc' \in [Threads -> PcValues]
         /\ StoreFails(w, next) =>
              /\ row' \in Runs /\ engine' \in [Threads -> Runs]
              /\ pc' \in [Threads -> PcValues] /\ faults' \in 0..MaxFaults
<1>1. Goto(w, next) => pc' \in [Threads -> PcValues]
  BY DEF Goto, TypeOK
<1>2. StoreFails(w, next) => faults' \in 0..MaxFaults
  BY Bounds DEF StoreFails, TypeOK
<1> QED
  BY <1>1, <1>2 DEF StoreFails, TypeOK

(* An execution is appended to the log.                                    *)
LEMMA LogTypes ==
  ASSUME TypeOK, NEW w \in Workers, NEW cur \in Cursors, cur.next <= Len(cur.calls),
         LogCall(w, cur)
  PROVE  /\ log' \in [Workers -> Seq(Executions)]
         /\ cur.calls[cur.next] \in Tools
<1>1. /\ cur.calls \in Seq(Tools) /\ cur.next \in Nat \ {0} /\ cur.n \in Nat
  BY DEF Cursors
<1>2. cur.calls[cur.next] \in Tools
  BY <1>1
<1>3. policy[cur.calls[cur.next]] \in {"allow", "ask", "deny"}
  BY <1>2, ControlAssumption DEF TypeOK
<1>4. [n |-> cur.n, call |-> cur.next, tool |-> cur.calls[cur.next],
       policy |-> policy[cur.calls[cur.next]]] \in Executions
  BY <1>1, <1>2, <1>3 DEF Executions
<1>5. log[w] \in Seq(Executions)
  BY DEF TypeOK
<1>6. Append(log[w], [n |-> cur.n, call |-> cur.next, tool |-> cur.calls[cur.next],
                      policy |-> policy[cur.calls[cur.next]]]) \in Seq(Executions)
  BY <1>4, <1>5
<1> QED
  BY <1>2, <1>6 DEF LogCall, TypeOK

(* A call that runs.                                                       *)
LEMMA InvokeTypes ==
  ASSUME TypeOK, NEW w \in Workers, cursor[w].next <= Len(cursor[w].calls),
         Invoke(w, cursor[w], engine[w])
  PROVE  /\ log' \in [Workers -> Seq(Executions)]
         /\ alive' \subseteq Processes
         /\ engine' \in [Threads -> Runs]
<1> DEFINE process == <<w, cursor[w].n, cursor[w].next>>
           stepped == RecordToolCompletion(engine[w])
<1>1. cursor[w] \in Cursors /\ engine[w] \in Runs /\ w \in Threads
  BY DEF TypeOK, Threads
<1>2. log' \in [Workers -> Seq(Executions)]
  BY <1>1, LogTypes DEF Invoke
<1>3. process \in Processes
  BY <1>1 DEF Processes, Cursors
<1>4. engine[w].processes \subseteq Processes
  BY <1>1 DEF Runs
<1>5. stepped \in Runs
  BY <1>1, <1>3, NoteRun
<1>6. TrackActiveProcess(stepped, process) \in Runs
  BY <1>3, <1>5, NoteRun
<1>7. \A ended \in engine[w].processes : FinishActiveProcess(stepped, ended) \in Runs
  BY <1>4, <1>5, NoteRun
<1>8. alive' \subseteq Processes
  BY <1>3 DEF Invoke, TypeOK
<1>9. engine' \in [Threads -> Runs]
  BY <1>1, <1>5, <1>6, <1>7 DEF Invoke, TypeOK
<1> QED
  BY <1>2, <1>8, <1>9

Types == /\ row \in Runs /\ engine \in [Threads -> Runs]
         /\ pc \in [Threads -> PcValues] /\ faults \in 0..MaxFaults

(* A step of the provider loop keeps the types.                            *)
LEMMA LoopTypes ==
  ASSUME TypeOK, EngineInv, CursorInv, NEW w \in Workers, Begin(w) \/ Loop(w)
  PROVE  TypeOK'
<1> DEFINE run == engine[w]
           cur == cursor[w]
<1>t. /\ w \in Threads /\ run \in Runs /\ cur \in Cursors /\ responses \in Nat
      /\ CopyOK(pc[w], run) /\ CursorOK(pc[w], cur, responses)
  BY DEF TypeOK, Threads, EngineInv, CursorInv
<1>p. /\ "check" \in PcValues /\ "done" \in PcValues /\ "fail" \in PcValues
      /\ "reset" \in PcValues /\ "request" \in PcValues /\ "answer" \in PcValues
      /\ "tools" \in PcValues /\ "after" \in PcValues /\ "interrupt" \in PcValues
  BY DEF PcValues
<1>c. ASSUME NEW new \in Cursors PROVE [cursor EXCEPT ![w] = new] \in [Workers -> Cursors]
  BY DEF TypeOK
<1>r. ClearPending(run) \in Runs /\ RecordToolCompletion(run) \in Runs
  <2>1. <<w, 0, 0>> \in Processes
    BY DEF Processes
  <2> QED
    BY <1>t, <2>1, NoteRun
<1>e. RecordToolCompletion(run) \in Runs =>
        [engine EXCEPT ![w] = RecordToolCompletion(run)] \in [Threads -> Runs]
  BY DEF TypeOK
<1>1. CASE Begin(w)
  <2>1. Types'
    BY <1>1, <1>t, <1>p, SaveTypes, StartRun DEF Begin, Types
  <2> QED
    BY <1>1, <2>1 DEF Begin, Types, TypeOK
<1>2. CASE Check(w)
  <2>1. Types'
    BY <1>2, <1>t, <1>p, GotoTypes DEF Check, Types, TypeOK
  <2> QED
    BY <1>2, <2>1 DEF Check, Types, TypeOK
<1>3. CASE AskReset(w)
  <2>1. ResetApproval(responses) \in ApprovalIds
    BY <1>t DEF ResetApproval, ApprovalIds
  <2>2. [id |-> ResetApproval(responses), cursor |-> cur] \in LoopStates
    BY <1>t, <2>1 DEF LoopStates
  <2>3. Types'
    BY <1>3, <1>t, <1>p, <2>1, <2>2, SaveTypes, WaitRun DEF AskReset, Types
  <2> QED
    BY <1>3, <2>3 DEF AskReset, Types, TypeOK
<1>4. CASE Respond(w)
  <2>a. PICK calls \in Responses :
          /\ cursor' = [cursor EXCEPT ![w] = AtResponse(@, responses + 1, calls)]
          /\ Save(w, run, IF calls = <<>> THEN "answer" ELSE "tools", "fail")
    BY <1>4 DEF Respond
  <2>1. Types'
    <3>1. (IF calls = <<>> THEN "answer" ELSE "tools") \in PcValues
      BY <1>p
    <3> QED
      BY <1>t, <1>p, <2>a, <3>1, SaveTypes DEF Types
  <2>2. cursor' \in [Workers -> Cursors]
    <3>1. AtResponse(cur, responses + 1, calls) \in Cursors
      BY <1>t, AnswerCursor
    <3> QED
      BY <1>c, <2>a, <3>1
  <2>3. responses' \in Nat
    BY <1>4, <1>t DEF Respond
  <2> QED
    BY <1>4, <2>1, <2>2, <2>3 DEF Respond, Types, TypeOK
<1>5. CASE Retry(w)
  <2>1. Types'
    BY <1>5, <1>t, <1>p, SaveTypes DEF Retry, Types
  <2>2. cursor' \in [Workers -> Cursors]
    BY <1>5, <1>t, <1>c, CountCursor DEF Retry
  <2> QED
    BY <1>5, <2>1, <2>2 DEF Retry, Types, TypeOK
<1>6. CASE Recover(w)
  <2>1. Types'
    BY <1>6, <1>t, <1>p, <1>r, SaveTypes DEF Recover, Types
  <2>2. cursor' \in [Workers -> Cursors]
    BY <1>6, <1>t, <1>c, CountCursor DEF Recover
  <2> QED
    BY <1>6, <2>1, <2>2 DEF Recover, Types, TypeOK
<1>7. CASE ProviderFails(w)
  <2>1. pc' \in [Threads -> PcValues]
    BY <1>7, <1>t, <1>p, GotoTypes DEF ProviderFails
  <2> QED
    BY <1>7, <2>1 DEF ProviderFails, TypeOK, history
<1>8. CASE FailRun(w)
  <2>1. Types'
    <3>1. CASE NotTerminal(run)
      BY <1>8, <1>t, <1>p, <3>1, SaveTypes, EndRun DEF FailRun, Types
    <3>2. CASE ~NotTerminal(run)
      BY <1>8, <1>t, <1>p, <3>2, GotoTypes DEF FailRun, Types, TypeOK
    <3> QED
      BY <3>1, <3>2
  <2> QED
    BY <1>8, <2>1 DEF FailRun, Types, TypeOK
<1>9. CASE CompleteRun(w)
  <2>1. Types'
    BY <1>9, <1>t, <1>p, SaveTypes, EndRun DEF CompleteRun, Types
  <2> QED
    BY <1>9, <2>1 DEF CompleteRun, Types, TypeOK
<1>10. CASE Nudge(w)
  <2>1. Types'
    BY <1>10, <1>t, <1>p, <1>r, SaveTypes DEF Nudge, Types
  <2>2. cursor' \in [Workers -> Cursors]
    BY <1>10, <1>t, <1>c, CountCursor DEF Nudge
  <2> QED
    BY <1>10, <2>1, <2>2 DEF Nudge, Types, TypeOK
<1>11. CASE AskCompletion(w)
  <2>1. CompletionApproval(cur.n) \in ApprovalIds
    BY <1>t DEF CompletionApproval, ApprovalIds, Cursors
  <2>2. [id |-> CompletionApproval(cur.n), cursor |-> cur] \in LoopStates
    BY <1>t, <2>1 DEF LoopStates
  <2>3. Types'
    BY <1>11, <1>t, <1>p, <2>1, <2>2, SaveTypes, WaitRun DEF AskCompletion, Types
  <2> QED
    BY <1>11, <2>3 DEF AskCompletion, Types, TypeOK
<1>12. CASE SkipCall(w)
  <2>1. engine' \in [Threads -> Runs]
    BY <1>12, <1>r, <1>e DEF SkipCall
  <2>2. cursor' \in [Workers -> Cursors]
    BY <1>12, <1>t, <1>c, OutputCursor DEF SkipCall
  <2> QED
    BY <1>12, <2>1, <2>2 DEF SkipCall, TypeOK, history
<1>13. CASE DenyCall(w)
  <2>1. engine' \in [Threads -> Runs]
    BY <1>13, <1>r, <1>e DEF DenyCall
  <2>2. pc' \in [Threads -> PcValues]
    BY <1>13, <1>t, <1>p, GotoTypes DEF DenyCall
  <2> QED
    BY <1>13, <2>1, <2>2 DEF DenyCall, TypeOK, history
<1>14. CASE AskTool(w)
  <2>1. Call(w) \in Tools
    BY <1>14, <1>t DEF AskTool, AtCall, Call, Cursors
  <2>2. ToolApproval(Call(w)) \in ApprovalIds
    BY <2>1 DEF ToolApproval, ApprovalIds
  <2>3. AdvanceAfterResponse(cur) \in Cursors
    BY <1>14, <1>t, RoundCursor DEF AskTool, AtCall, CursorOK, BudgetPcs
  <2>4. [id |-> ToolApproval(Call(w)), cursor |-> AdvanceAfterResponse(cur)] \in LoopStates
    BY <2>2, <2>3 DEF LoopStates
  <2>5. Types'
    BY <1>14, <1>t, <1>p, <2>2, <2>4, SaveTypes, WaitRun DEF AskTool, Types
  <2> QED
    BY <1>14, <2>5 DEF AskTool, Types, TypeOK
<1>15. CASE RunCall(w)
  <2>1. pc' \in [Threads -> PcValues]
    BY <1>15, <1>t, <1>p, GotoTypes DEF RunCall
  <2>2. /\ log' \in [Workers -> Seq(Executions)] /\ alive' \subseteq Processes
        /\ engine' \in [Threads -> Runs]
    BY <1>15, InvokeTypes DEF RunCall, AtCall
  <2> QED
    BY <1>15, <2>1, <2>2 DEF RunCall, TypeOK, history
<1>16. CASE CallFails(w)
  <2>1. pc' \in [Threads -> PcValues]
    BY <1>16, <1>t, <1>p, GotoTypes DEF CallFails
  <2>2. engine' \in [Threads -> Runs]
    BY <1>16, <1>r, <1>e DEF CallFails
  <2>3. log' \in [Workers -> Seq(Executions)]
    BY <1>16, <1>t, LogTypes DEF CallFails, AtCall
  <2> QED
    BY <1>16, <2>1, <2>2, <2>3 DEF CallFails, TypeOK, history
<1>17. CASE AfterCall(w)
  <2>1. Types'
    BY <1>17, <1>t, <1>p, GotoTypes DEF AfterCall, Types, TypeOK
  <2>2. cursor' \in [Workers -> Cursors]
    BY <1>17, <1>t, <1>c, OutputCursor DEF AfterCall, TypeOK
  <2> QED
    BY <1>17, <2>1, <2>2 DEF AfterCall, Types, TypeOK
<1>18. CASE InterruptRun(w)
  <2>1. Types'
    BY <1>18, <1>t, <1>p, SaveTypes, EndRun DEF InterruptRun, Types
  <2> QED
    BY <1>18, <2>1 DEF InterruptRun, Types, TypeOK
<1>19. CASE EndRound(w)
  <2>1. Types'
    BY <1>19, <1>t, <1>p, SaveTypes DEF EndRound, Types
  <2>2. AdvanceAfterResponse(cur) \in Cursors
    BY <1>19, <1>t, RoundCursor DEF EndRound, CursorOK, BudgetPcs
  <2>3. cursor' \in [Workers -> Cursors]
    BY <1>19, <1>c, <2>2 DEF EndRound
  <2> QED
    BY <1>19, <2>1, <2>3 DEF EndRound, Types, TypeOK
<1> QED
  BY <1>1, <1>2, <1>3, <1>4, <1>5, <1>6, <1>7, <1>8, <1>9, <1>10, <1>11, <1>12,
     <1>13, <1>14, <1>15, <1>16, <1>17, <1>18, <1>19 DEF Loop

(* So does a step of an approval ...                                       *)
LEMMA ApprovalTypes ==
  ASSUME TypeOK, RowInv, CursorInv, ClaimInv, NEW a \in Approvers,
         Submit(a) \/ Approval(a)
  PROVE  TypeOK'
<1> DEFINE run == engine[a]
           cur == cursor[a]
<1>t. /\ a \in Workers /\ a \in Threads /\ run \in Runs /\ cur \in Cursors
      /\ row \in Runs /\ ClaimOK(pc[a], claim[a], cur)
  BY DEF TypeOK, Threads, Workers, ClaimInv
<1>p. /\ "check" \in PcValues /\ "done" \in PcValues /\ "submitted" \in PcValues
      /\ "granted" \in PcValues /\ "spent" \in PcValues /\ "superseded" \in PcValues
  BY DEF PcValues
<1>c. ASSUME NEW new \in Cursors PROVE [cursor EXCEPT ![a] = new] \in [Workers -> Cursors]
  BY <1>t DEF TypeOK
<1>r. ClearPending(run) \in Runs
  <2>1. <<a, 0, 0>> \in Processes
    BY <1>t DEF Processes
  <2> QED
    BY <1>t, <2>1, NoteRun
<1>l. row.loop # NoLoop => row.loop \in LoopStates
  BY <1>t DEF Runs
<1>g. Granted(a, "tool") => cur.next <= Len(cur.calls)
  BY <1>t DEF Granted, ClaimOK, AsksFor
<1>1. CASE Submit(a)
  <2>1. row.loop \in LoopStates
    BY <1>1, <1>l DEF Submit, RowInv, Consistent
  <2>2. row.loop.id \in ApprovalIds
    BY <2>1 DEF LoopStates
  <2>3. claim' \in [Approvers -> ApprovalIds \cup {NoApproval}]
    BY <1>1, <2>2 DEF Submit, TypeOK
  <2>4. pc' \in [Threads -> PcValues]
    BY <1>1, <1>t, <1>p, GotoTypes DEF Submit
  <2> QED
    BY <1>1, <2>3, <2>4 DEF Submit, TypeOK, history
<1>2. CASE Load(a)
  <2>1. CASE Matches(row, claim[a]) /\ CanResolve(row, row.loop.id)
             /\ engine' = [engine EXCEPT ![a] = ResolveAndResume(row, row.loop.id)]
             /\ cursor' = [cursor EXCEPT ![a] = row.loop.cursor]
             /\ Goto(a, "granted") /\ UNCHANGED <<row, faults>>
    <3>1. row.loop \in LoopStates
      BY <2>1, <1>l DEF Matches
    <3>2. row.loop.id \in ApprovalIds /\ row.loop.cursor \in Cursors
      BY <3>1 DEF LoopStates
    <3>3. ResolveAndResume(row, row.loop.id) \in Runs
      BY <1>t, <3>1, <3>2, WaitRun
    <3>4. engine' \in [Threads -> Runs]
      BY <2>1, <3>3 DEF TypeOK
    <3>5. cursor' \in [Workers -> Cursors]
      BY <2>1, <1>c, <3>2
    <3>6. pc' \in [Threads -> PcValues]
      BY <2>1, <1>t, <1>p, GotoTypes
    <3> QED
      BY <1>2, <2>1, <3>4, <3>5, <3>6 DEF Load, TypeOK
  <2>2. CASE Goto(a, "done") /\ UNCHANGED <<row, engine, cursor, faults>>
    <3>1. pc' \in [Threads -> PcValues]
      BY <2>2, <1>t, <1>p, GotoTypes
    <3> QED
      BY <1>2, <2>2, <3>1 DEF Load, TypeOK
  <2>3. CASE StoreFails(a, "done") /\ UNCHANGED cursor
    <3>1. Types'
      BY <2>3, <1>t, <1>p, GotoTypes DEF Types
    <3> QED
      BY <1>2, <2>3, <3>1 DEF Load, TypeOK, Types
  <2> QED
    BY <1>2, <2>1, <2>2, <2>3 DEF Load
<1>3. CASE GrantDenied(a)
  <2>1. Types'
    BY <1>3, <1>t, <1>p, SaveTypes, EndRun DEF GrantDenied, Types
  <2> QED
    BY <1>3, <2>1 DEF GrantDenied, Types, TypeOK
<1>4. CASE SpendGrant(a)
  <2>1. pc' \in [Threads -> PcValues]
    BY <1>4, <1>t, <1>p, GotoTypes DEF SpendGrant
  <2>2. /\ log' \in [Workers -> Seq(Executions)] /\ alive' \subseteq Processes
        /\ engine' \in [Threads -> Runs]
    BY <1>4, <1>t, <1>g, InvokeTypes DEF SpendGrant
  <2> QED
    BY <1>4, <2>1, <2>2 DEF SpendGrant, TypeOK, history
<1>5. CASE GrantFails(a)
  <2>1. pc' \in [Threads -> PcValues]
    BY <1>5, <1>t, <1>p, GotoTypes DEF GrantFails
  <2>2. log' \in [Workers -> Seq(Executions)]
    BY <1>5, <1>t, <1>g, LogTypes DEF GrantFails
  <2> QED
    BY <1>5, <2>1, <2>2 DEF GrantFails, TypeOK, history
<1>6. CASE Supersede(a)
  <2>1. Types'
    BY <1>6, <1>t, <1>p, SaveTypes, EndRun DEF Supersede, Types
  <2> QED
    BY <1>6, <2>1 DEF Supersede, Types, TypeOK
<1>7. CASE ResumeTool(a)
  <2>1. Types'
    BY <1>7, <1>t, <1>p, <1>r, SaveTypes DEF ResumeTool, Types
  <2>2. cursor' \in [Workers -> Cursors]
    BY <1>7, <1>t, <1>c, OutputCursor DEF ResumeTool
  <2> QED
    BY <1>7, <2>1, <2>2 DEF ResumeTool, Types, TypeOK
<1>8. CASE ResumeReset(a)
  <2>1. Types'
    BY <1>8, <1>t, <1>p, <1>r, SaveTypes DEF ResumeReset, Types
  <2>2. cursor' \in [Workers -> Cursors]
    BY <1>8, <1>t, <1>c, RoundCursor DEF ResumeReset
  <2> QED
    BY <1>8, <2>1, <2>2 DEF ResumeReset, Types, TypeOK
<1>9. CASE ResumeCompletion(a)
  <2>1. Types'
    BY <1>9, <1>t, <1>p, <1>r, SaveTypes DEF ResumeCompletion, Types
  <2> QED
    BY <1>9, <2>1 DEF ResumeCompletion, Types, TypeOK
<1>10. CASE GateIsGone(a)
  <2>1. pc' \in [Threads -> PcValues]
    BY <1>10, <1>t, <1>p, GotoTypes DEF GateIsGone
  <2> QED
    BY <1>10, <2>1 DEF GateIsGone, TypeOK, history
<1> QED
  BY <1>1, <1>2, <1>3, <1>4, <1>5, <1>6, <1>7, <1>8, <1>9, <1>10 DEF Approval

(* ... a stop, and a restart.                                              *)
LEMMA OtherTypes ==
  ASSUME TypeOK
  PROVE  /\ \A s \in Stoppers : ReadStop(s) \/ WriteStop(s) => TypeOK'
         /\ Restart => TypeOK'
<1>p. "done" \in PcValues /\ "stopping" \in PcValues /\ "idle" \in PcValues
  BY DEF PcValues
<1>1. ASSUME NEW s \in Stoppers, ReadStop(s) PROVE TypeOK'
  <2>1. s \in Threads
    BY DEF Threads
  <2>2. pc' \in [Threads -> PcValues]
    BY <1>1, <1>p, <2>1, GotoTypes DEF ReadStop
  <2>3. engine' \in [Threads -> Runs] /\ alive' \subseteq Processes
    BY <1>1 DEF ReadStop, TypeOK
  <2> QED
    BY <1>1, <2>2, <2>3 DEF ReadStop, TypeOK, history
<1>2. ASSUME NEW s \in Stoppers, WriteStop(s) PROVE TypeOK'
  <2>1. s \in Threads /\ engine[s] \in Runs
    BY DEF Threads, TypeOK
  <2>2. Types'
    BY <1>2, <1>p, <2>1, SaveTypes, EndRun DEF WriteStop, Types
  <2> QED
    BY <1>2, <2>2 DEF WriteStop, Types, TypeOK
<1>3. ASSUME Restart PROVE TypeOK'
  <2>1. pc' \in [Threads -> PcValues]
    BY <1>3, <1>p DEF Restart
  <2>2. row' \in Runs
    BY <1>3, ReconcileRun DEF Restart, TypeOK
  <2>3. restarts' \in 0..MaxRestarts
    BY <1>3, Bounds DEF Restart, TypeOK
  <2> QED
    BY <1>3, <2>1, <2>2, <2>3 DEF Restart, TypeOK
<1> QED
  BY <1>1, <1>2, <1>3

-----------------------------------------------------------------------------
(* A step of a worker touches nothing that belongs to another thread.      *)

(* What a step of w leaves alone.                                          *)
Frame(w) ==
  /\ \A t \in Threads \ {w} : pc'[t] = pc[t] /\ engine'[t] = engine[t]
  /\ \A v \in Workers \ {w} : cursor'[v] = cursor[v] /\ log'[v] = log[v]
  /\ \A a \in Approvers \ {w} : claim'[a] = claim[a]
  /\ responses \in Nat /\ responses' \in Nat /\ responses <= responses'
  /\ policy' = policy

(* What a store call does to its thread and to the others.                 *)
LEMMA SaveFrame ==
  ASSUME TypeOK, NEW w \in Threads, NEW run, NEW next, NEW onError
  PROVE  /\ Save(w, run, next, onError) =>
              /\ \A t \in Threads \ {w} : pc'[t] = pc[t] /\ engine'[t] = engine[t]
              /\ engine'[w] = run
              /\ \/ pc'[w] = next /\ row' = run /\ faults' = faults
                 \/ pc'[w] = onError /\ row' = row /\ faults' = faults + 1
         /\ Goto(w, next) =>
              /\ \A t \in Threads \ {w} : pc'[t] = pc[t]
              /\ pc'[w] = next
         /\ StoreFails(w, onError) =>
              /\ \A t \in Threads \ {w} : pc'[t] = pc[t]
              /\ pc'[w] = onError /\ row' = row /\ faults' = faults + 1
              /\ engine' = engine
BY DEF Save, Goto, StoreFails, TypeOK

(* A step of the provider loop leaves the other threads alone ...          *)
LEMMA LoopFrame ==
  ASSUME TypeOK, NEW w \in Workers, Begin(w) \/ Loop(w)
  PROVE  Frame(w)
<1>t. w \in Threads /\ Workers \subseteq Threads /\ responses \in Nat
      /\ Approvers \subseteq Workers
  BY DEF Threads, Workers, TypeOK
<1>1. \A t \in Threads \ {w} : pc'[t] = pc[t] /\ engine'[t] = engine[t]
  <2>1. CASE \/ Begin(w) \/ Check(w) \/ AskReset(w) \/ Respond(w) \/ Retry(w) \/ Recover(w)
             \/ FailRun(w) \/ CompleteRun(w) \/ Nudge(w) \/ AskCompletion(w)
             \/ AskTool(w) \/ AfterCall(w) \/ InterruptRun(w) \/ EndRound(w)
    BY <1>t, <2>1, SaveFrame
    DEF Begin, Check, AskReset, Respond, Retry, Recover, FailRun, CompleteRun, Nudge,
        AskCompletion, AskTool, AfterCall, InterruptRun, EndRound
  <2>2. CASE \/ ProviderFails(w) \/ SkipCall(w) \/ DenyCall(w) \/ RunCall(w) \/ CallFails(w)
    BY <1>t, <2>2
    DEF ProviderFails, SkipCall, DenyCall, RunCall, CallFails, Invoke, Goto, TypeOK
  <2> QED
    BY <2>1, <2>2 DEF Loop
<1>2. \A v \in Workers \ {w} : cursor'[v] = cursor[v]
  BY <1>t
  DEF Begin, Check, AskReset, Respond, Retry, Recover, FailRun, CompleteRun, Nudge,
      AskCompletion, AskTool, AfterCall, InterruptRun, EndRound, ProviderFails, SkipCall,
      DenyCall, RunCall, CallFails, Loop, TypeOK
<1>3. \A v \in Workers \ {w} : log'[v] = log[v]
  BY <1>t
  DEF Begin, Check, AskReset, Respond, Retry, Recover, FailRun, CompleteRun, Nudge,
      AskCompletion, AskTool, AfterCall, InterruptRun, EndRound, ProviderFails, SkipCall,
      DenyCall, RunCall, CallFails, Loop, TypeOK, Invoke, LogCall
<1>4. claim' = claim /\ policy' = policy /\ responses' \in {responses, responses + 1}
  BY <1>t
  DEF Begin, Check, AskReset, Respond, Retry, Recover, FailRun, CompleteRun, Nudge,
      AskCompletion, AskTool, AfterCall, InterruptRun, EndRound, ProviderFails, SkipCall,
      DenyCall, RunCall, CallFails, Loop
<1> QED
  BY <1>t, <1>1, <1>2, <1>3, <1>4 DEF Frame

(* ... and so does a step of an approval.                                  *)
LEMMA ApprovalFrame ==
  ASSUME TypeOK, NEW a \in Approvers, Submit(a) \/ Approval(a)
  PROVE  Frame(a)
<1>t. a \in Threads /\ a \in Workers /\ Workers \subseteq Threads /\ responses \in Nat
  BY DEF Threads, Workers, TypeOK
<1>1. \A t \in Threads \ {a} : pc'[t] = pc[t] /\ engine'[t] = engine[t]
  <2>1. CASE \/ GrantDenied(a) \/ Supersede(a) \/ ResumeTool(a) \/ ResumeReset(a)
             \/ ResumeCompletion(a)
    BY <1>t, <2>1, SaveFrame
    DEF GrantDenied, Supersede, ResumeTool, ResumeReset, ResumeCompletion
  <2>2. CASE Submit(a) \/ Load(a) \/ SpendGrant(a) \/ GrantFails(a) \/ GateIsGone(a)
    BY <1>t, <2>2
    DEF Submit, Load, SpendGrant, GrantFails, GateIsGone, Invoke, Goto, StoreFails, TypeOK
  <2> QED
    BY <2>1, <2>2 DEF Approval
<1>2. \A v \in Workers \ {a} : cursor'[v] = cursor[v] /\ log'[v] = log[v]
  BY <1>t
  DEF GrantDenied, Supersede, ResumeTool, ResumeReset, ResumeCompletion, Submit, Load,
      SpendGrant, GrantFails, GateIsGone, Approval, TypeOK, Invoke, LogCall
<1>3. \A b \in Approvers \ {a} : claim'[b] = claim[b]
  BY <1>t
  DEF GrantDenied, Supersede, ResumeTool, ResumeReset, ResumeCompletion, Submit, Load,
      SpendGrant, GrantFails, GateIsGone, Approval, TypeOK
<1>4. policy' = policy /\ responses' = responses
  BY <1>t
  DEF GrantDenied, Supersede, ResumeTool, ResumeReset, ResumeCompletion, Submit, Load,
      SpendGrant, GrantFails, GateIsGone, Approval
<1> QED
  BY <1>t, <1>1, <1>2, <1>3, <1>4 DEF Frame

-----------------------------------------------------------------------------
(* The part of the invariant that is about one worker.                     *)

(* A call that runs leaves what the run waits for as it was.               *)
LEMMA InvokeCopy ==
  ASSUME TypeOK, NEW w \in Workers, cursor[w].next <= Len(cursor[w].calls),
         Invoke(w, cursor[w], engine[w])
  PROVE  /\ engine'[w].status = engine[w].status
         /\ engine'[w].approvals = engine[w].approvals
         /\ engine'[w].loop = engine[w].loop
<1> DEFINE process == <<w, cursor[w].n, cursor[w].next>>
           stepped == RecordToolCompletion(engine[w])
           Same(run) == /\ run.status = engine[w].status
                        /\ run.approvals = engine[w].approvals
                        /\ run.loop = engine[w].loop
<1>1. cursor[w] \in Cursors /\ engine[w] \in Runs /\ w \in Threads
  BY DEF TypeOK, Threads
<1>2. process \in Processes
  BY <1>1 DEF Processes, Cursors
<1>3. engine[w].processes \subseteq Processes
  BY <1>1 DEF Runs
<1>4. stepped \in Runs /\ Same(stepped)
  BY <1>1, <1>2, NoteRun
<1>5. Same(TrackActiveProcess(stepped, process))
  BY <1>2, <1>4, NoteRun
<1>6. \A ended \in engine[w].processes : Same(FinishActiveProcess(stepped, ended))
  BY <1>3, <1>4, NoteRun
<1>7. \/ engine'[w] = stepped
      \/ engine'[w] = TrackActiveProcess(stepped, process)
      \/ \E ended \in engine[w].processes :
           engine'[w] = FinishActiveProcess(stepped, ended)
  BY <1>1 DEF Invoke, TypeOK
<1> QED
  BY <1>4, <1>5, <1>6, <1>7

(* After a step of the loop the copy fits the new place.                   *)
LEMMA LoopCopy ==
  ASSUME TypeOK, EngineInv, CursorInv, NEW w \in Workers, Begin(w) \/ Loop(w)
  PROVE  CopyOK(pc'[w], engine'[w])
<1> DEFINE run == engine[w]
<1>t. /\ w \in Threads /\ run \in Runs /\ CopyOK(pc[w], run) /\ responses \in Nat
      /\ cursor[w] \in Cursors
  BY DEF TypeOK, Threads, EngineInv
<1>p. <<w, 0, 0>> \in Processes
  BY DEF Processes
<1>r. /\ ClearPending(run).status = run.status /\ ClearPending(run).loop = NoLoop
      /\ ClearPending(run).approvals = run.approvals
      /\ RecordToolCompletion(run).status = run.status
      /\ RecordToolCompletion(run).approvals = run.approvals
      /\ RecordToolCompletion(run).loop = run.loop
  BY <1>t, <1>p, NoteRun
<1>1. CASE Begin(w) \/ CompleteRun(w)
  BY <1>t, <1>1, SaveFrame, StartRun
  DEF Begin, CompleteRun, CopyOK, LoopPcs, GrantPcs
<1>11. CASE Check(w)
  BY <1>t, <1>11, SaveFrame DEF Check, CopyOK, LoopPcs, GrantPcs, Consistent
<1>12. CASE Respond(w) \/ Retry(w) \/ EndRound(w)
  <2>1. pc'[w] \in LoopPcs \cup {"fail"} /\ engine'[w] = run
    BY <1>t, <1>12, SaveFrame DEF Respond, Retry, EndRound, LoopPcs
  <2>2. CopyOK("request", run)
    BY <1>t, <1>12 DEF Respond, Retry, EndRound, CopyOK, LoopPcs, GrantPcs
  <2> QED
    BY <2>1, <2>2 DEF CopyOK, LoopPcs, GrantPcs, Consistent
<1>2. CASE Recover(w) \/ Nudge(w)
  BY <1>t, <1>r, <1>2, SaveFrame DEF Recover, Nudge, CopyOK, LoopPcs, GrantPcs, Consistent
<1>3. CASE ProviderFails(w) \/ AfterCall(w)
  BY <1>t, <1>3, SaveFrame DEF ProviderFails, AfterCall, CopyOK, LoopPcs, GrantPcs, Consistent
<1>4. CASE FailRun(w)
  BY <1>t, <1>4, SaveFrame DEF FailRun, CopyOK, LoopPcs, GrantPcs
<1>5. CASE InterruptRun(w)
  BY <1>t, <1>5, SaveFrame, EndRun DEF InterruptRun, CopyOK, LoopPcs, GrantPcs, Consistent
<1>6. CASE SkipCall(w) \/ DenyCall(w) \/ CallFails(w)
  BY <1>t, <1>r, <1>6
  DEF SkipCall, DenyCall, CallFails, AtCall, Goto, CopyOK, LoopPcs, GrantPcs, Consistent, TypeOK
<1>7. CASE RunCall(w)
  <2>1. pc'[w] = "after"
    BY <1>t, <1>7, SaveFrame DEF RunCall
  <2> QED
    BY <1>t, <1>7, <2>1, InvokeCopy
    DEF RunCall, AtCall, CopyOK, LoopPcs, GrantPcs
<1>8. CASE AskReset(w)
  <2> DEFINE id == ResetApproval(responses)
             loop == [id |-> id, cursor |-> cursor[w]]
  <2>1. id \in ApprovalIds
    BY <1>t DEF ResetApproval, ApprovalIds
  <2>2. loop \in LoopStates /\ loop.id = id
    BY <1>t, <2>1 DEF LoopStates
  <2>3. run.approvals = {}
    BY <1>t, <1>8 DEF AskReset, CopyOK, LoopPcs
  <2>4. Consistent(WaitForApproval(run, id, loop)) 
    BY <1>t, <2>1, <2>2, <2>3, WaitRun, LoopAssumption DEF Consistent
  <2>5. pc'[w] \in {"done", "fail"} /\ engine'[w] = WaitForApproval(run, id, loop)
    BY <1>t, <1>8, SaveFrame DEF AskReset
  <2> QED
    BY <2>4, <2>5 DEF CopyOK, LoopPcs, GrantPcs
<1>9. CASE AskCompletion(w)
  <2> DEFINE id == CompletionApproval(cursor[w].n)
             loop == [id |-> id, cursor |-> cursor[w]]
  <2>1. id \in ApprovalIds
    BY <1>t DEF CompletionApproval, ApprovalIds, Cursors
  <2>2. loop \in LoopStates /\ loop.id = id
    BY <1>t, <2>1 DEF LoopStates
  <2>3. run.approvals = {}
    BY <1>t, <1>9 DEF AskCompletion, CopyOK, LoopPcs
  <2>4. Consistent(WaitForApproval(run, id, loop)) 
    BY <1>t, <2>1, <2>2, <2>3, WaitRun, LoopAssumption DEF Consistent
  <2>5. pc'[w] \in {"done", "fail"} /\ engine'[w] = WaitForApproval(run, id, loop)
    BY <1>t, <1>9, SaveFrame DEF AskCompletion
  <2> QED
    BY <2>4, <2>5 DEF CopyOK, LoopPcs, GrantPcs
<1>10. CASE AskTool(w)
  <2> DEFINE id == ToolApproval(Call(w))
             loop == [id |-> id, cursor |-> AdvanceAfterResponse(cursor[w])]
  <2>1. id \in ApprovalIds
    BY <1>t, <1>10 DEF AskTool, AtCall, Call, ToolApproval, ApprovalIds, Cursors
  <2>2. loop \in LoopStates /\ loop.id = id
    <3>1. AdvanceAfterResponse(cursor[w]) \in Cursors
      BY <1>t, <1>10, RoundCursor DEF AskTool, AtCall, CursorInv, CursorOK, BudgetPcs
    <3> QED
      BY <2>1, <3>1 DEF LoopStates
  <2>3. run.approvals = {}
    BY <1>t, <1>10 DEF AskTool, AtCall, CopyOK, LoopPcs
  <2>4. Consistent(WaitForApproval(run, id, loop)) 
    BY <1>t, <2>1, <2>2, <2>3, WaitRun, LoopAssumption DEF Consistent
  <2>5. pc'[w] \in {"done", "fail"} /\ engine'[w] = WaitForApproval(run, id, loop)
    BY <1>t, <1>10, SaveFrame DEF AskTool
  <2> QED
    BY <2>4, <2>5 DEF CopyOK, LoopPcs, GrantPcs
<1> QED
  BY <1>1, <1>2, <1>3, <1>4, <1>5, <1>6, <1>7, <1>8, <1>9, <1>10,
     <1>11, <1>12 DEF Loop

(* After a step of the loop its thread is in the loop or out of it.        *)
LEMMA LoopPlace ==
  ASSUME TypeOK, NEW w \in Workers, Begin(w) \/ Loop(w)
  PROVE  pc'[w] \in LoopPcs \cup {"fail", "done"}
<1>t. w \in Threads
  BY DEF Threads
<1>1. CASE \/ Begin(w) \/ AskReset(w) \/ Respond(w) \/ Retry(w) \/ Recover(w)
           \/ CompleteRun(w) \/ Nudge(w) \/ AskCompletion(w) \/ AskTool(w)
           \/ InterruptRun(w) \/ EndRound(w)
  BY <1>t, <1>1, SaveFrame
  DEF Begin, AskReset, Respond, Retry, Recover, CompleteRun, Nudge, AskCompletion,
      AskTool, InterruptRun, EndRound, LoopPcs
<1>3. CASE Check(w)
  BY <1>t, <1>3, SaveFrame DEF Check, LoopPcs
<1>4. CASE FailRun(w)
  BY <1>t, <1>4, SaveFrame DEF FailRun
<1>5. CASE AfterCall(w)
  BY <1>t, <1>5, SaveFrame DEF AfterCall, LoopPcs
<1>2. CASE ProviderFails(w) \/ SkipCall(w) \/ DenyCall(w) \/ RunCall(w) \/ CallFails(w)
  BY <1>t, <1>2, SaveFrame
  DEF ProviderFails, SkipCall, DenyCall, RunCall, CallFails, AtCall, LoopPcs
<1> QED
  BY <1>1, <1>2, <1>3, <1>4, <1>5 DEF Loop

(* After a step of the loop the cursor fits the new place.                 *)
LEMMA LoopCursor ==
  ASSUME TypeOK, CursorInv, NEW w \in Workers, Begin(w) \/ Loop(w)
  PROVE  CursorOK(pc'[w], cursor'[w], responses')
<1> DEFINE cur == cursor[w]
<1>a. /\ w \in Threads /\ cur \in Cursors /\ CursorOK(pc[w], cur, responses)
      /\ responses \in Nat
  BY DEF TypeOK, Threads, CursorInv
<1>b. cur.n \in Nat /\ cur.round \in Nat
  BY <1>a, Bounds DEF Cursors
<1>t. /\ w \in Threads /\ cur \in Cursors /\ CursorOK(pc[w], cur, responses)
      /\ responses \in Nat /\ cur.n \in Nat /\ cur.round \in Nat
  BY <1>a, <1>b
<1>c. \A new \in Cursors : [cursor EXCEPT ![w] = new][w] = new
  BY DEF TypeOK
<1>o. /\ RecordToolOutput(cur) \in Cursors /\ RecordToolOutput(cur).n = cur.n
      /\ RecordToolOutput(cur).round = cur.round
  BY <1>t, OutputCursor
<1>1. CASE Begin(w) \/ AskReset(w) \/ FailRun(w) \/ CompleteRun(w) \/ AskCompletion(w)
           \/ AskTool(w) \/ InterruptRun(w)
  BY <1>t, <1>1, SaveFrame
  DEF Begin, AskReset, FailRun, CompleteRun, AskCompletion, AskTool, InterruptRun,
      CursorOK, BudgetPcs
<1>2. CASE Check(w)
  <2>1. cursor' = cursor /\ responses' = responses
    BY <1>2 DEF Check
  <2>2. \/ pc'[w] \in {"done", "reset", "fail"}
        \/ pc'[w] = "request" /\ cur.round < MaxRounds
    BY <1>t, <1>2, SaveFrame DEF Check, HasRoundBudget
  <2> QED
    BY <1>t, <2>1, <2>2 DEF CursorOK, BudgetPcs
<1>3. CASE ProviderFails(w) \/ DenyCall(w) \/ RunCall(w) \/ CallFails(w)
  <2>1. cursor' = cursor /\ responses' = responses /\ pc'[w] \in {"after", "fail"}
    BY <1>t, <1>3, SaveFrame DEF ProviderFails, DenyCall, RunCall, CallFails
  <2>2. pc[w] \in {"request", "tools"}
    BY <1>3 DEF ProviderFails, DenyCall, RunCall, CallFails, AtCall
  <2> QED
    BY <1>t, <2>1, <2>2 DEF CursorOK, BudgetPcs
<1>4. CASE Respond(w)
  <2>1. PICK calls \in Responses :
          cursor' = [cursor EXCEPT ![w] = AtResponse(@, responses + 1, calls)]
    BY <1>4 DEF Respond
  <2>4. responses + 1 \in Nat
    BY <1>t
  <2>5. /\ AtResponse(cur, responses + 1, calls) \in Cursors
        /\ AtResponse(cur, responses + 1, calls).n = responses + 1
        /\ AtResponse(cur, responses + 1, calls).round = cur.round
    BY <1>t, <2>4, AnswerCursor
  <2>2. cursor'[w].n = responses + 1 /\ cursor'[w].round = cur.round
    BY <1>c, <2>1, <2>5
  <2>3. responses' = responses + 1 /\ cur.round < MaxRounds
    BY <1>4, <1>t DEF Respond, CursorOK, BudgetPcs
  <2> QED
    BY <1>t, <2>2, <2>3 DEF CursorOK
<1>5. CASE Retry(w)
  <2>1. cursor'[w].n = cur.n /\ cursor'[w].round = cur.round
    BY <1>t, <1>c, <1>5, CountCursor DEF Retry
  <2> QED
    BY <1>t, <1>5, <2>1 DEF Retry, CursorOK, BudgetPcs
<1>6. CASE Recover(w) \/ Nudge(w)
  <2>1. cursor'[w].n = cur.n
    <3>1. CASE Recover(w)
      BY <1>t, <1>c, <3>1, CountCursor DEF Recover
    <3>2. CASE Nudge(w)
      BY <1>t, <1>c, <3>2, CountCursor DEF Nudge
    <3> QED
      BY <1>6, <3>1, <3>2
  <2>2. responses' = responses /\ pc'[w] \in {"check", "fail"}
    BY <1>t, <1>6, SaveFrame DEF Recover, Nudge
  <2> QED
    BY <1>t, <2>1, <2>2 DEF CursorOK, BudgetPcs
<1>7. CASE SkipCall(w)
  BY <1>t, <1>c, <1>o, <1>7 DEF SkipCall, AtCall, CursorOK, BudgetPcs
<1>8. CASE AfterCall(w)
  BY <1>t, <1>c, <1>o, <1>8, SaveFrame DEF AfterCall, CursorOK, BudgetPcs
<1>9. CASE EndRound(w)
  <2>1. AdvanceAfterResponse(cur) \in Cursors /\ AdvanceAfterResponse(cur).n = cur.n
    BY <1>t, <1>9, RoundCursor DEF EndRound, CursorOK, BudgetPcs
  <2> QED
    BY <1>t, <1>c, <1>9, <2>1, SaveFrame DEF EndRound, CursorOK, BudgetPcs
<1> QED
  BY <1>1, <1>2, <1>3, <1>4, <1>5, <1>6, <1>7, <1>8, <1>9 DEF Loop

(* The entries of a log after one more was appended.                       *)
LEMMA AppendEntry ==
  ASSUME NEW entries \in Seq(Executions), NEW entry \in Executions,
         NEW e \in DOMAIN Append(entries, entry)
  PROVE  \/ /\ e \in DOMAIN entries /\ Append(entries, entry)[e] = entries[e]
         \/ /\ e = Len(entries) + 1 /\ e \notin DOMAIN entries
            /\ Append(entries, entry)[e] = entry
  OBVIOUS

(* A log stays behind a cursor that moves on, or that stays where it is    *)
(* while its thread goes anywhere but to the next call.                    *)
LEMMA KeepLog ==
  ASSUME NEW at, NEW new, NEW cur \in Cursors, NEW next \in Cursors,
         NEW entries \in Seq(Executions), LogOK(at, cur, entries),
         new \notin {"idle", "submitted", "granted"},
         \/ cur.n < next.n
         \/ next.n = cur.n /\ cur.next < next.next
         \/ /\ next.n = cur.n /\ next.next = cur.next
            /\ new = "tools" => at = "tools"
  PROVE  LogOK(new, next, entries)
<1>1. cur.n \in Nat /\ next.n \in Nat /\ cur.next \in Nat /\ next.next \in Nat
  BY DEF Cursors
<1>2. ASSUME NEW e \in DOMAIN entries
      PROVE  entries[e].n \in Nat /\ entries[e].call \in Nat
  <2>1. entries[e] \in Executions
    OBVIOUS
  <2> QED
    BY <2>1 DEF Executions
<1>3. \A e \in DOMAIN entries : Behind(entries[e], next, new)
  BY <1>1, <1>2 DEF LogOK, Behind
<1> QED
  BY <1>3 DEF LogOK

(* A call that is logged is at the cursor, and only its first may be one   *)
(* that was asked for.                                                     *)
LEMMA ExtendLog ==
  ASSUME NEW at, NEW new, NEW cur \in Cursors,
         NEW entries \in Seq(Executions), NEW entry \in Executions,
         LogOK(at, cur, entries), entry.n = cur.n, entry.call = cur.next,
         new \notin {"idle", "submitted", "granted", "tools"},
         entry.policy = "ask" => entries = <<>>
  PROVE  LogOK(new, cur, Append(entries, entry))
<1>1. LogOK(new, cur, entries)
  BY KeepLog
<1>2. cur.n \in Nat /\ cur.next \in Nat
  BY DEF Cursors
<1>3. Behind(entry, cur, new)
  BY <1>2 DEF Behind
<1>4. ASSUME NEW e \in DOMAIN Append(entries, entry)
      PROVE  /\ Behind(Append(entries, entry)[e], cur, new)
             /\ Append(entries, entry)[e].policy = "ask" => e = 1
  <2>1. CASE e \in DOMAIN entries /\ Append(entries, entry)[e] = entries[e]
    BY <1>1, <2>1 DEF LogOK
  <2>2. CASE e = Len(entries) + 1 /\ Append(entries, entry)[e] = entry
    BY <1>3, <2>2
  <2> QED
    BY <2>1, <2>2, AppendEntry
<1> QED
  BY <1>4 DEF LogOK

(* What LogCall appends.                                                   *)
Logged(cur) ==
  [n |-> cur.n, call |-> cur.next, tool |-> cur.calls[cur.next],
   policy |-> policy[cur.calls[cur.next]]]

(* The execution LogCall appends, and the log it leaves.                   *)
LEMMA LoggedCall ==
  ASSUME TypeOK, NEW w \in Workers, cursor[w].next <= Len(cursor[w].calls),
         LogCall(w, cursor[w])
  PROVE  /\ Logged(cursor[w]) \in Executions
         /\ log' = [log EXCEPT ![w] = Append(@, Logged(cursor[w]))]
         /\ log'[w] = Append(log[w], Logged(cursor[w]))
         /\ Logged(cursor[w]).tool = Call(w) /\ Logged(cursor[w]).policy = policy[Call(w)]
         /\ Logged(cursor[w]).n = cursor[w].n /\ Logged(cursor[w]).call = cursor[w].next
<1>1. /\ cursor[w].calls \in Seq(Tools) /\ cursor[w].next \in Nat \ {0}
      /\ cursor[w].n \in Nat
  BY DEF TypeOK, Cursors
<1>2. cursor[w].calls[cursor[w].next] \in Tools
  BY <1>1
<1>3. policy[cursor[w].calls[cursor[w].next]] \in {"allow", "ask", "deny"}
  BY <1>2, ControlAssumption DEF TypeOK
<1>4. Logged(cursor[w]) \in Executions
  BY <1>1, <1>2, <1>3 DEF Logged, Executions
<1>5. log' = [log EXCEPT ![w] = Append(@, Logged(cursor[w]))]
  BY DEF LogCall, Logged
<1>6. log'[w] = Append(log[w], Logged(cursor[w]))
  BY <1>5 DEF TypeOK
<1> QED
  BY <1>4, <1>5, <1>6 DEF Logged, Call

(* Who goes to the next call comes from a response or has moved there.     *)
LEMMA LoopNextCall ==
  ASSUME TypeOK, NEW w \in Workers
  PROVE  /\ \/ Begin(w) \/ Check(w) \/ AskReset(w) \/ ProviderFails(w) \/ FailRun(w)
            \/ CompleteRun(w) \/ AskCompletion(w) \/ DenyCall(w) \/ AskTool(w)
            \/ InterruptRun(w)
            => pc'[w] # "tools"
         /\ AfterCall(w) =>
              \/ cursor' = cursor /\ pc'[w] # "tools"
              \/ cursor' = [cursor EXCEPT ![w] = RecordToolOutput(@)]
<1>t. w \in Threads
  BY DEF Threads
<1>1. ASSUME FailRun(w) PROVE pc'[w] # "tools"
  <2>1. pc'[w] = "done"
    BY <1>t, <1>1, SaveFrame DEF FailRun
  <2> QED
    BY <2>1
<1>2. ASSUME Check(w) PROVE pc'[w] # "tools"
  <2>1. pc'[w] \in {"done", "request", "reset", "fail"}
    BY <1>t, <1>2, SaveFrame DEF Check
  <2> QED
    BY <2>1
<1>3. ASSUME \/ Begin(w) \/ AskReset(w) \/ ProviderFails(w) \/ CompleteRun(w)
             \/ AskCompletion(w) \/ DenyCall(w) \/ AskTool(w) \/ InterruptRun(w)
      PROVE  pc'[w] # "tools"
  <2>1. CASE ProviderFails(w) \/ DenyCall(w)
    <3>1. pc'[w] \in {"fail", "after"}
      BY <1>t, <2>1, SaveFrame DEF ProviderFails, DenyCall
    <3> QED
      BY <3>1
  <2>2. CASE \/ Begin(w) \/ AskReset(w) \/ CompleteRun(w) \/ AskCompletion(w)
             \/ AskTool(w) \/ InterruptRun(w)
    <3>1. pc'[w] \in {"check", "done", "fail"}
      BY <1>t, <2>2, SaveFrame
      DEF Begin, AskReset, CompleteRun, AskCompletion, AskTool, InterruptRun
    <3> QED
      BY <3>1
  <2> QED
    BY <1>3, <2>1, <2>2
<1>4. ASSUME AfterCall(w)
      PROVE  \/ cursor' = cursor /\ pc'[w] # "tools"
             \/ cursor' = [cursor EXCEPT ![w] = RecordToolOutput(@)]
  <2>1. CASE StoreFails(w, "fail") /\ cursor' = cursor
    <3>1. pc'[w] = "fail"
      BY <1>t, <2>1, SaveFrame
    <3> QED
      BY <2>1, <3>1
  <2>2. CASE Goto(w, "done") /\ cursor' = cursor
    <3>1. pc'[w] = "done"
      BY <1>t, <2>2, SaveFrame
    <3> QED
      BY <2>2, <3>1
  <2>3. CASE cursor' = [cursor EXCEPT ![w] = RecordToolOutput(@)]
    BY <2>3
  <2> QED
    BY <1>4, <2>1, <2>2, <2>3 DEF AfterCall
<1> QED
  BY <1>1, <1>2, <1>3, <1>4

(* After a step of the loop the log is behind the cursor.                  *)
LEMMA LoopLog ==
  ASSUME TypeOK, CursorInv, LogInv, NEW w \in Workers, Begin(w) \/ Loop(w), TypeOK'
  PROVE  LogOK(pc'[w], cursor'[w], log'[w])
<1> DEFINE cur == cursor[w]
<1>t. /\ w \in Threads /\ cur \in Cursors /\ LogOK(pc[w], cur, log[w])
      /\ log[w] \in Seq(Executions) /\ cursor'[w] \in Cursors
  BY DEF TypeOK, Threads, LogInv
<1>b. responses \in Nat /\ cur.n \in Nat /\ cur.next \in Nat /\ cur.n <= responses
  BY <1>t DEF TypeOK, CursorInv, CursorOK, Cursors
<1>c. \A new \in Cursors : [cursor EXCEPT ![w] = new][w] = new
  BY DEF TypeOK
<1>p. pc'[w] \notin {"idle", "submitted", "granted"}
  BY LoopPlace DEF LoopPcs
<1>o. /\ RecordToolOutput(cur) \in Cursors /\ RecordToolOutput(cur).n = cur.n
      /\ RecordToolOutput(cur).next = cur.next + 1
  BY <1>t, OutputCursor
<1>1. CASE \/ Begin(w) \/ Check(w) \/ AskReset(w) \/ ProviderFails(w) \/ FailRun(w)
           \/ CompleteRun(w) \/ AskCompletion(w) \/ DenyCall(w) \/ AskTool(w)
           \/ InterruptRun(w)
  <2>1. log' = log /\ cursor' = cursor
    BY <1>1
    DEF Begin, Check, AskReset, ProviderFails, FailRun, CompleteRun, AskCompletion,
        DenyCall, AskTool, InterruptRun
  <2>2. pc'[w] # "tools"
    BY <1>1, LoopNextCall
  <2> QED
    BY <1>t, <1>p, <2>1, <2>2, KeepLog
<1>2. CASE Respond(w)
  <2>1. PICK calls \in Responses :
          cursor' = [cursor EXCEPT ![w] = AtResponse(@, responses + 1, calls)]
    BY <1>2 DEF Respond
  <2>2. /\ AtResponse(cur, responses + 1, calls) \in Cursors
        /\ AtResponse(cur, responses + 1, calls).n = responses + 1
    <3>1. responses + 1 \in Nat
      BY <1>b
    <3> QED
      BY <1>t, <3>1, AnswerCursor
  <2>3. cursor'[w].n = responses + 1 /\ log' = log
    BY <1>2, <1>c, <2>1, <2>2 DEF Respond
  <2>4. cur.n < cursor'[w].n
    BY <1>b, <2>3
  <2> QED
    BY <1>t, <1>p, <2>3, <2>4, KeepLog
<1>3. CASE Retry(w) \/ Recover(w) \/ Nudge(w) \/ EndRound(w)
  <2>1. log' = log
    BY <1>3 DEF Retry, Recover, Nudge, EndRound
  <2>2. pc'[w] # "tools"
    BY <1>t, <1>3, SaveFrame DEF Retry, Recover, Nudge, EndRound
  <2>3. \/ cursor'[w] = CountRetry(cur)
        \/ cursor'[w] = RecordEmptyResponseRecovery(cur)
        \/ cursor'[w] = RecordCompletionNudge(cur)
        \/ cursor'[w] = AdvanceAfterResponse(cur)
    BY <1>3 DEF Retry, Recover, Nudge, EndRound, TypeOK
  <2>4. cursor'[w].n = cur.n /\ cursor'[w].next = cur.next
    BY <1>t, <2>3, CountCursor, RoundCursor
  <2> QED
    BY <1>t, <1>p, <2>1, <2>2, <2>4, KeepLog
<1>4. CASE SkipCall(w)
  <2>1. cursor'[w] = RecordToolOutput(cur) /\ log' = log
    BY <1>c, <1>o, <1>4 DEF SkipCall
  <2>2. cursor'[w].n = cur.n /\ cur.next < cursor'[w].next
    BY <1>b, <1>o, <2>1
  <2> QED
    BY <1>t, <1>p, <2>1, <2>2, KeepLog
<1>5. CASE AfterCall(w)
  <2>1. log' = log
    BY <1>5 DEF AfterCall
  <2>2. \/ cursor' = cursor /\ pc'[w] # "tools"
        \/ cursor'[w] = RecordToolOutput(cur)
    BY <1>c, <1>o, <1>5, LoopNextCall
  <2>3. cursor'[w] = RecordToolOutput(cur) =>
          cursor'[w].n = cur.n /\ cur.next < cursor'[w].next
    BY <1>b, <1>o
  <2> QED
    BY <1>t, <1>p, <2>1, <2>2, <2>3, KeepLog
<1>6. CASE RunCall(w) \/ CallFails(w)
  <2>1. /\ LogCall(w, cur) /\ cur.next <= Len(cur.calls) /\ cursor' = cursor
        /\ policy[Call(w)] = "allow"
    BY <1>6 DEF RunCall, CallFails, AtCall, Invoke, MayRun
  <2>2. pc'[w] \in {"after", "fail"}
    BY <1>t, <1>6, SaveFrame DEF RunCall, CallFails
  <2>3. /\ Logged(cur) \in Executions /\ Logged(cur).policy = "allow"
        /\ log'[w] = Append(log[w], Logged(cur))
        /\ Logged(cur).n = cur.n /\ Logged(cur).call = cur.next
    BY <2>1, LoggedCall
  <2>4. LogOK(pc'[w], cur, Append(log[w], Logged(cur)))
    BY <1>t, <2>2, <2>3, ExtendLog
  <2> QED
    BY <2>1, <2>3, <2>4
<1> QED
  BY <1>1, <1>2, <1>3, <1>4, <1>5, <1>6 DEF Loop

(* Where the steps of an approval lead.                                    *)
LEMMA ApprovalPlace ==
  ASSUME TypeOK, NEW a \in Approvers
  PROVE  /\ Submit(a) => pc'[a] = "submitted"
         /\ Load(a) => pc'[a] \in {"granted", "done"}
         /\ SpendGrant(a) => pc'[a] \in {"spent", "superseded"}
         /\ GrantDenied(a) \/ GrantFails(a) \/ Supersede(a) \/ GateIsGone(a)
              => pc'[a] = "done"
         /\ ResumeTool(a) \/ ResumeReset(a) \/ ResumeCompletion(a)
              => pc'[a] \in {"check", "done"}
<1>t. a \in Threads
  BY DEF Threads, Workers
<1>1. Submit(a) => pc'[a] = "submitted"
  BY <1>t, SaveFrame DEF Submit
<1>2. Load(a) => pc'[a] \in {"granted", "done"}
  BY <1>t DEF Load, Goto, StoreFails, TypeOK
<1>3. SpendGrant(a) => pc'[a] \in {"spent", "superseded"}
  BY <1>t, SaveFrame DEF SpendGrant
<1>4. GrantDenied(a) \/ Supersede(a) => pc'[a] = "done"
  BY <1>t, SaveFrame DEF GrantDenied, Supersede
<1>5. GrantFails(a) \/ GateIsGone(a) => pc'[a] = "done"
  BY <1>t, SaveFrame DEF GrantFails, GateIsGone
<1>6. ResumeTool(a) \/ ResumeReset(a) \/ ResumeCompletion(a) => pc'[a] \in {"check", "done"}
  BY <1>t, SaveFrame DEF ResumeTool, ResumeReset, ResumeCompletion
<1> QED
  BY <1>1, <1>2, <1>3, <1>4, <1>5, <1>6

(* An approval that is granted got a running copy and the saved cursor,    *)
(* which is at the call the approval is for.                               *)
LEMMA LoadGrants ==
  ASSUME TypeOK, RowInv, NEW a \in Approvers, Load(a), pc'[a] = "granted"
  PROVE  /\ engine'[a] \in Runs /\ engine'[a].status = "running"
         /\ engine'[a].approvals = {}
         /\ cursor'[a] \in Cursors /\ cursor'[a].n <= responses
         /\ AsksFor(claim[a], cursor'[a])
<1>t. a \in Threads /\ a \in Workers /\ row \in Runs
  BY DEF Threads, Workers, TypeOK
<1>1. /\ row.loop # NoLoop /\ row.loop.id = claim[a]
      /\ engine' = [engine EXCEPT ![a] = ResolveAndResume(row, row.loop.id)]
      /\ cursor' = [cursor EXCEPT ![a] = row.loop.cursor]
  <2>1. CASE pc' = [pc EXCEPT ![a] = "done"]
    <3>1. pc'[a] = "done"
      BY <1>t, <2>1 DEF TypeOK
    <3> QED
      BY <3>1
  <2>2. CASE /\ Matches(row, claim[a])
             /\ engine' = [engine EXCEPT ![a] = ResolveAndResume(row, row.loop.id)]
             /\ cursor' = [cursor EXCEPT ![a] = row.loop.cursor]
    BY <2>2 DEF Matches
  <2> QED
    BY <2>1, <2>2 DEF Load, Goto, StoreFails
<1>2. /\ row.loop \in LoopStates /\ row.approvals = {row.loop.id}
      /\ row.loop.cursor.n <= responses /\ AsksFor(row.loop.id, row.loop.cursor)
  BY <1>t, <1>1 DEF RowInv, Consistent, Runs
<1>3. row.loop.id \in ApprovalIds /\ row.loop.cursor \in Cursors
  BY <1>2 DEF LoopStates
<1>4. /\ ResolveAndResume(row, row.loop.id) \in Runs
      /\ ResolveAndResume(row, row.loop.id).status = "running"
      /\ ResolveAndResume(row, row.loop.id).approvals = {}
  BY <1>t, <1>2, <1>3, WaitRun
<1>5. engine'[a] = ResolveAndResume(row, row.loop.id) /\ cursor'[a] = row.loop.cursor
  BY <1>t, <1>1 DEF TypeOK
<1> QED
  BY <1>1, <1>2, <1>3, <1>4, <1>5

(* After a step of an approval the copy fits the new place ...             *)
LEMMA ApprovalCopy ==
  ASSUME TypeOK, RowInv, EngineInv, ClaimInv, NEW a \in Approvers, Submit(a) \/ Approval(a)
  PROVE  CopyOK(pc'[a], engine'[a])
<1> DEFINE run == engine[a]
<1>t. a \in Threads /\ a \in Workers /\ run \in Runs /\ CopyOK(pc[a], run)
  BY DEF Threads, Workers, TypeOK, EngineInv
<1>1. CASE Submit(a) \/ GrantDenied(a) \/ GrantFails(a) \/ Supersede(a) \/ GateIsGone(a)
  <2>1. pc'[a] \in {"submitted", "done"}
    BY <1>1, ApprovalPlace
  <2> QED
    BY <2>1 DEF CopyOK, LoopPcs, GrantPcs
<1>2. CASE Load(a)
  <2>1. CASE pc'[a] = "granted"
    BY <1>2, <2>1, LoadGrants DEF CopyOK, LoopPcs, GrantPcs
  <2>2. CASE pc'[a] = "done"
    BY <2>2 DEF CopyOK, LoopPcs, GrantPcs
  <2> QED
    BY <1>2, <2>1, <2>2, ApprovalPlace
<1>3. CASE SpendGrant(a)
  <2>1. cursor[a].next <= Len(cursor[a].calls)
    BY <1>3 DEF SpendGrant, Granted, ClaimInv, ClaimOK, AsksFor
  <2>2. /\ engine'[a].status = run.status /\ engine'[a].approvals = run.approvals
    BY <1>t, <1>3, <2>1, InvokeCopy DEF SpendGrant
  <2>3. run.status = "running" /\ run.approvals = {}
    BY <1>t, <1>3 DEF SpendGrant, Granted, CopyOK, GrantPcs
  <2>4. pc'[a] \in {"spent", "superseded"}
    BY <1>3, ApprovalPlace
  <2> QED
    BY <2>2, <2>3, <2>4 DEF CopyOK, LoopPcs, GrantPcs
<1>4. CASE ResumeTool(a) \/ ResumeReset(a) \/ ResumeCompletion(a)
  <2>1. run.status = "running" /\ run.approvals = {}
    BY <1>t, <1>4
    DEF ResumeTool, ResumeReset, ResumeCompletion, Granted, CopyOK, GrantPcs
  <2>2. engine'[a] = ClearPending(run)
    BY <1>t, <1>4, SaveFrame DEF ResumeTool, ResumeReset, ResumeCompletion
  <2>3. <<a, 0, 0>> \in Processes
    BY <1>t DEF Processes
  <2>4. /\ ClearPending(run).status = "running" /\ ClearPending(run).approvals = {}
        /\ ClearPending(run).loop = NoLoop
    BY <1>t, <2>1, <2>3, NoteRun
  <2>5. pc'[a] \in {"check", "done"}
    BY <1>4, ApprovalPlace
  <2> QED
    BY <2>2, <2>4, <2>5 DEF CopyOK, LoopPcs, GrantPcs
<1> QED
  BY <1>1, <1>2, <1>3, <1>4 DEF Approval

(* ... and so does the cursor ...                                          *)
LEMMA ApprovalCursor ==
  ASSUME TypeOK, RowInv, CursorInv, NEW a \in Approvers, Submit(a) \/ Approval(a)
  PROVE  CursorOK(pc'[a], cursor'[a], responses')
<1> DEFINE cur == cursor[a]
<1>t. /\ a \in Threads /\ a \in Workers /\ cur \in Cursors /\ cur.n <= responses
  BY DEF Threads, Workers, TypeOK, CursorInv, CursorOK
<1>1. responses' = responses
  BY DEF Submit, Approval, Load, GrantDenied, SpendGrant, GrantFails, Supersede,
         ResumeTool, ResumeReset, ResumeCompletion, GateIsGone
<1>2. pc'[a] \notin BudgetPcs
  <2>1. pc'[a] \in {"submitted", "granted", "done", "spent", "superseded", "check"}
    BY ApprovalPlace DEF Approval
  <2> QED
    BY <2>1 DEF BudgetPcs
<1>3. cursor'[a].n <= responses
  <2>1. CASE Load(a) /\ pc'[a] = "granted"
    BY <2>1, LoadGrants
  <2>2. CASE Load(a) /\ pc'[a] = "done"
    <3>1. pc' # [pc EXCEPT ![a] = "granted"]
      BY <1>t, <2>2 DEF TypeOK
    <3> QED
      BY <1>t, <2>2, <3>1 DEF Load, Goto
  <2>3. CASE ResumeTool(a) \/ ResumeReset(a)
    <3>1. cursor'[a] = RecordToolOutput(cur) \/ cursor'[a] = ResetRoundBudget(cur)
      BY <1>t, <2>3 DEF ResumeTool, ResumeReset, TypeOK
    <3> QED
      BY <1>t, <3>1, OutputCursor, RoundCursor
  <2>4. CASE \/ Submit(a) \/ GrantDenied(a) \/ SpendGrant(a) \/ GrantFails(a)
             \/ Supersede(a) \/ ResumeCompletion(a) \/ GateIsGone(a)
    BY <1>t, <2>4
    DEF Submit, GrantDenied, SpendGrant, GrantFails, Supersede, ResumeCompletion, GateIsGone
  <2> QED
    BY <2>1, <2>2, <2>3, <2>4, ApprovalPlace DEF Approval
<1> QED
  BY <1>1, <1>2, <1>3 DEF CursorOK

(* ... and the claim ...                                                   *)
LEMMA ApprovalClaim ==
  ASSUME TypeOK, RowInv, ClaimInv, NEW a \in Approvers, Submit(a) \/ Approval(a)
  PROVE  ClaimOK(pc'[a], claim'[a], cursor'[a])
<1>t. a \in Threads /\ a \in Workers /\ row \in Runs /\ ClaimOK(pc[a], claim[a], cursor[a])
  BY DEF Threads, Workers, TypeOK, ClaimInv
<1>1. CASE Submit(a)
  <2>1. row.loop \in LoopStates
    BY <1>t, <1>1 DEF Submit, RowInv, Consistent, Runs
  <2>2. row.loop.id \in ApprovalIds
    BY <2>1 DEF LoopStates
  <2>3. claim'[a] \in ApprovalIds
    BY <1>1, <2>2 DEF Submit, TypeOK
  <2>4. pc'[a] = "submitted"
    BY <1>1, ApprovalPlace
  <2> QED
    BY <2>3, <2>4 DEF ClaimOK
<1>2. CASE Load(a)
  <2>1. claim' = claim /\ claim[a] \in ApprovalIds
    BY <1>t, <1>2 DEF Load, ClaimOK
  <2>2. CASE pc'[a] = "granted"
    BY <1>2, <2>1, <2>2, LoadGrants DEF ClaimOK
  <2>3. CASE pc'[a] = "done"
    BY <2>3 DEF ClaimOK, GrantPcs
  <2> QED
    BY <1>2, <2>2, <2>3, ApprovalPlace
<1>3. CASE SpendGrant(a)
  <2>1. claim' = claim /\ claim[a] \in ApprovalIds /\ pc'[a] \in {"spent", "superseded"}
    BY <1>t, <1>3, ApprovalPlace DEF SpendGrant, Granted, ClaimOK, GrantPcs
  <2> QED
    BY <2>1 DEF ClaimOK
<1>4. CASE \/ GrantDenied(a) \/ GrantFails(a) \/ Supersede(a) \/ ResumeTool(a)
           \/ ResumeReset(a) \/ ResumeCompletion(a) \/ GateIsGone(a)
  <2>1. pc'[a] \in {"check", "done"}
    BY <1>4, ApprovalPlace
  <2> QED
    BY <2>1 DEF ClaimOK, GrantPcs
<1> QED
  BY <1>1, <1>2, <1>3, <1>4 DEF Approval

(* ... and the log.                                                        *)
LEMMA ApprovalLog ==
  ASSUME TypeOK, RowInv, ClaimInv, LogInv, NEW a \in Approvers, Submit(a) \/ Approval(a)
  PROVE  LogOK(pc'[a], cursor'[a], log'[a])
<1> DEFINE cur == cursor[a]
<1>t. /\ a \in Threads /\ a \in Workers /\ cur \in Cursors
      /\ LogOK(pc[a], cur, log[a]) /\ log[a] \in Seq(Executions)
  BY DEF Threads, Workers, TypeOK, LogInv
<1>1. CASE Submit(a) \/ Load(a)
  <2>1. log[a] = <<>> /\ log' = log
    BY <1>t, <1>1 DEF Submit, Load, LogOK
  <2> QED
    BY <2>1 DEF LogOK
<1>2. CASE SpendGrant(a) \/ GrantFails(a)
  <2>1. log[a] = <<>>
    BY <1>t, <1>2 DEF SpendGrant, GrantFails, Granted, LogOK
  <2>2. cur.next <= Len(cur.calls)
    BY <1>2 DEF SpendGrant, GrantFails, Granted, ClaimInv, ClaimOK, AsksFor
  <2>3. LogCall(a, cur) /\ cursor' = cursor
    BY <1>2 DEF SpendGrant, GrantFails, Invoke
  <2>4. /\ Logged(cur) \in Executions /\ log'[a] = Append(log[a], Logged(cur))
        /\ Logged(cur).n = cur.n /\ Logged(cur).call = cur.next
    BY <1>t, <2>2, <2>3, LoggedCall
  <2>5. pc'[a] \in {"spent", "superseded", "done"}
    BY <1>2, ApprovalPlace
  <2>6. LogOK(pc'[a], cur, Append(log[a], Logged(cur)))
    BY <1>t, <2>1, <2>4, <2>5, ExtendLog
  <2> QED
    BY <2>3, <2>4, <2>6
<1>3. CASE ResumeTool(a)
  <2>1. cursor'[a] = RecordToolOutput(cur) /\ log' = log
    BY <1>t, <1>3 DEF ResumeTool, TypeOK
  <2>2. cursor'[a] \in Cursors /\ cursor'[a].n = cur.n /\ cursor'[a].next = cur.next + 1
    BY <1>t, <2>1, OutputCursor
  <2>3. cur.next < cursor'[a].next
    BY <1>t, <2>2 DEF Cursors
  <2>4. pc'[a] \in {"check", "done"}
    BY <1>3, ApprovalPlace
  <2> QED
    BY <1>t, <2>1, <2>2, <2>3, <2>4, KeepLog
<1>4. CASE ResumeReset(a)
  <2>1. cursor'[a] = ResetRoundBudget(cur) /\ log' = log
    BY <1>t, <1>4 DEF ResumeReset, TypeOK
  <2>2. cursor'[a] \in Cursors /\ cursor'[a].n = cur.n /\ cursor'[a].next = cur.next
    BY <1>t, <2>1, RoundCursor DEF ResetRoundBudget, Cursors
  <2>4. pc'[a] \in {"check", "done"}
    BY <1>4, ApprovalPlace
  <2> QED
    BY <1>t, <2>1, <2>2, <2>4, KeepLog
<1>5. CASE GrantDenied(a) \/ Supersede(a) \/ ResumeCompletion(a) \/ GateIsGone(a)
  <2>1. cursor' = cursor /\ log' = log
    BY <1>5 DEF GrantDenied, Supersede, ResumeCompletion, GateIsGone
  <2>2. pc'[a] \in {"check", "done"}
    BY <1>5, ApprovalPlace
  <2> QED
    BY <1>t, <2>1, <2>2, KeepLog
<1> QED
  BY <1>1, <1>2, <1>3, <1>4, <1>5 DEF Approval

-----------------------------------------------------------------------------
(* The stored run: every copy a thread stores can be resumed if it waits.  *)

(* A run that may be stored.                                               *)
Storable(run, n) ==
  /\ Consistent(run)
  /\ run.loop # NoLoop =>
       run.loop.cursor.n <= n /\ AsksFor(run.loop.id, run.loop.cursor)

(* The row is storable, and stays so if a storable run is stored.          *)
LEMMA StoreRow ==
  ASSUME TypeOK, RowInv, responses' \in Nat, responses <= responses',
         NEW run, Storable(run, responses'), row' = row \/ row' = run
  PROVE  RowInv'
<1>1. CASE row' = run
  BY <1>1 DEF Storable, RowInv, Consistent, AsksFor, ToolApproval
<1>2. CASE row' = row
  <2>1. row.loop # NoLoop => row.loop.cursor.n \in Nat
    BY DEF TypeOK, Runs, LoopStates, Cursors
  <2>2. row.loop # NoLoop => row.loop.cursor.n <= responses'
    BY <2>1 DEF RowInv, TypeOK
  <2> QED
    BY <1>2, <2>2 DEF RowInv, Consistent, AsksFor, ToolApproval
<1> QED
  BY <1>1, <1>2

(* A copy without a loop state is storable unless it says it waits.        *)
LEMMA PlainRun ==
  ASSUME NEW run, NEW n, run.loop = NoLoop, run.status # "waiting_approval"
  PROVE  Storable(run, n)
BY DEF Storable, Consistent

(* So is a copy that waits for the one approval of its loop state.         *)
LEMMA WaitingRun ==
  ASSUME NEW run \in Runs, run.approvals = {}, NEW id \in ApprovalIds,
         NEW cur \in Cursors, NEW n, cur.n <= n, AsksFor(id, cur)
  PROVE  Storable(WaitForApproval(run, id, [id |-> id, cursor |-> cur]), n)
<1> DEFINE loop == [id |-> id, cursor |-> cur]
<1>1. loop \in LoopStates /\ loop.id = id /\ loop.cursor = cur
  BY DEF LoopStates
<1>2. /\ WaitForApproval(run, id, loop).status = "waiting_approval"
      /\ WaitForApproval(run, id, loop).loop = loop
      /\ WaitForApproval(run, id, loop).approvals = {id}
  BY <1>1, WaitRun
<1> QED
  BY <1>1, <1>2, LoopAssumption DEF Storable, Consistent

(* A step of the loop stores storable runs.                                *)
LEMMA LoopRow ==
  ASSUME TypeOK, RowInv, EngineInv, CursorInv, NEW w \in Workers, Begin(w) \/ Loop(w)
  PROVE  RowInv'
<1> DEFINE run == engine[w]
           cur == cursor[w]
<1>t. /\ w \in Threads /\ run \in Runs /\ cur \in Cursors /\ responses \in Nat
      /\ CopyOK(pc[w], run) /\ CursorOK(pc[w], cur, responses)
      /\ cur.n <= responses
  BY DEF TypeOK, Threads, EngineInv, CursorInv, CursorOK
<1>f. responses' \in Nat /\ responses <= responses'
  BY LoopFrame DEF Frame
<1>p. <<w, 0, 0>> \in Processes
  BY DEF Processes
<1>s. ASSUME NEW new, Storable(new, responses'), row' = row \/ row' = new
      PROVE  RowInv'
  BY <1>f, <1>s, StoreRow
<1>1. CASE Begin(w)
  <2>1. Storable(Start(NewRun), responses')
    BY StartRun, PlainRun
  <2> QED
    BY <1>t, <1>s, <1>1, <2>1, SaveFrame DEF Begin
<1>2. CASE FailRun(w)
  <2>1. Storable(Fail(run), responses')
    BY <1>t, EndRun, PlainRun
  <2>2. row' = row \/ row' = Fail(run)
    BY <1>t, <1>2, SaveFrame DEF FailRun
  <2> QED
    BY <1>s, <2>1, <2>2
<1>3. CASE CompleteRun(w) \/ InterruptRun(w)
  <2>1. Storable(Complete(run), responses') /\ Storable(Interrupt(run), responses')
    BY <1>t, EndRun, PlainRun
  <2>2. row' = row \/ row' = Complete(run) \/ row' = Interrupt(run)
    BY <1>t, <1>3, SaveFrame DEF CompleteRun, InterruptRun
  <2> QED
    BY <1>s, <2>1, <2>2
<1>4. CASE Respond(w) \/ Retry(w) \/ EndRound(w)
  <2>1. run.status = "running" /\ run.loop = NoLoop
    BY <1>t, <1>4 DEF Respond, Retry, EndRound, CopyOK, LoopPcs
  <2>2. row' = row \/ row' = run
    BY <1>t, <1>4, SaveFrame DEF Respond, Retry, EndRound
  <2> QED
    BY <1>s, <2>1, <2>2, PlainRun
<1>5. CASE Recover(w) \/ Nudge(w)
  <2>1. run.status = "running"
    BY <1>t, <1>5 DEF Recover, Nudge, CopyOK, LoopPcs
  <2>2. ClearPending(run).status = "running" /\ ClearPending(run).loop = NoLoop
    BY <1>t, <1>p, <2>1, NoteRun
  <2>3. row' = row \/ row' = ClearPending(run)
    BY <1>t, <1>5, SaveFrame DEF Recover, Nudge
  <2> QED
    BY <1>s, <2>2, <2>3, PlainRun
<1>6. CASE AskReset(w)
  <2> DEFINE id == ResetApproval(responses)
             new == WaitForApproval(run, id, [id |-> id, cursor |-> cur])
  <2>1. id \in ApprovalIds /\ AsksFor(id, cur)
    BY <1>t DEF ResetApproval, ApprovalIds, AsksFor
  <2>2. run.approvals = {} /\ responses' = responses
    BY <1>t, <1>6 DEF AskReset, CopyOK, LoopPcs
  <2>3. Storable(new, responses')
    BY <1>t, <2>1, <2>2, WaitingRun
  <2>4. row' = row \/ row' = new
    BY <1>t, <1>6, SaveFrame DEF AskReset
  <2> QED
    BY <1>s, <2>3, <2>4
<1>7. CASE AskCompletion(w)
  <2> DEFINE id == CompletionApproval(cur.n)
             new == WaitForApproval(run, id, [id |-> id, cursor |-> cur])
  <2>1. id \in ApprovalIds /\ AsksFor(id, cur)
    BY <1>t DEF CompletionApproval, ApprovalIds, AsksFor, Cursors
  <2>2. run.approvals = {} /\ responses' = responses
    BY <1>t, <1>7 DEF AskCompletion, CopyOK, LoopPcs
  <2>3. Storable(new, responses')
    BY <1>t, <2>1, <2>2, WaitingRun
  <2>4. row' = row \/ row' = new
    BY <1>t, <1>7, SaveFrame DEF AskCompletion
  <2> QED
    BY <1>s, <2>3, <2>4
<1>8. CASE AskTool(w)
  <2> DEFINE id == ToolApproval(Call(w))
             state == AdvanceAfterResponse(cur)
             new == WaitForApproval(run, id, [id |-> id, cursor |-> state])
  <2>1. Call(w) \in Tools /\ cur.next <= Len(cur.calls)
    BY <1>t, <1>8 DEF AskTool, AtCall, Call, Cursors
  <2>2. id \in ApprovalIds
    BY <2>1 DEF ToolApproval, ApprovalIds
  <2>3. /\ state \in Cursors /\ state.n = cur.n /\ state.next = cur.next
        /\ state.calls = cur.calls
    BY <1>t, <1>8, RoundCursor DEF AskTool, AtCall, CursorOK, BudgetPcs
  <2>4. AsksFor(id, state)
    BY <2>1, <2>3 DEF AsksFor, Call
  <2>5. run.approvals = {} /\ responses' = responses
    BY <1>t, <1>8 DEF AskTool, AtCall, CopyOK, LoopPcs
  <2>6. Storable(new, responses')
    BY <1>t, <2>2, <2>3, <2>4, <2>5, WaitingRun
  <2>7. row' = row \/ row' = new
    BY <1>t, <1>8, SaveFrame DEF AskTool
  <2> QED
    BY <1>s, <2>6, <2>7
<1>9. CASE \/ Check(w) \/ ProviderFails(w) \/ SkipCall(w) \/ DenyCall(w) \/ RunCall(w)
           \/ CallFails(w) \/ AfterCall(w)
  <2>1. row' = row
    BY <1>9
    DEF Check, ProviderFails, SkipCall, DenyCall, RunCall, CallFails, AfterCall, StoreFails
  <2>2. Storable(Start(NewRun), responses')
    BY StartRun, PlainRun
  <2> QED
    BY <1>s, <2>1, <2>2
<1> QED
  BY <1>1, <1>2, <1>3, <1>4, <1>5, <1>6, <1>7, <1>8, <1>9 DEF Loop

(* So do an approval, a stop and a restart.                                *)
LEMMA OtherRow ==
  ASSUME TypeOK, RowInv, EngineInv
  PROVE  /\ \A a \in Approvers : Submit(a) \/ Approval(a) => RowInv'
         /\ \A s \in Stoppers : ReadStop(s) \/ WriteStop(s) => RowInv'
         /\ Restart => RowInv'
<1>s. ASSUME NEW new, new.loop = NoLoop, new.status # "waiting_approval",
             row' = row \/ row' = new, responses' = responses
      PROVE  RowInv'
  <2>1. responses' \in Nat /\ responses <= responses'
    BY <1>s DEF TypeOK
  <2>2. Storable(new, responses')
    BY <1>s, PlainRun
  <2> QED
    BY <1>s, <2>1, <2>2, StoreRow
<1>n. Start(NewRun).loop = NoLoop /\ Start(NewRun).status # "waiting_approval"
  BY StartRun
<1>1. ASSUME NEW a \in Approvers, Submit(a) \/ Approval(a) PROVE RowInv'
  <2> DEFINE run == engine[a]
  <2>t. a \in Threads /\ a \in Workers /\ run \in Runs /\ CopyOK(pc[a], run)
    BY DEF Threads, Workers, TypeOK, EngineInv
  <2>1. CASE Submit(a) \/ Load(a) \/ SpendGrant(a) \/ GrantFails(a) \/ GateIsGone(a)
    <3>1. row' = row /\ responses' = responses
      BY <2>1 DEF Submit, Load, SpendGrant, GrantFails, GateIsGone, StoreFails
    <3> QED
      BY <1>s, <1>n, <3>1
  <2>2. CASE GrantDenied(a) \/ Supersede(a)
    <3>1. /\ row' = row \/ row' = Fail(run) \/ row' = Interrupt(run)
          /\ responses' = responses
      BY <2>t, <2>2, SaveFrame DEF GrantDenied, Supersede
    <3> QED
      BY <1>s, <2>t, <3>1, EndRun
  <2>3. CASE ResumeTool(a) \/ ResumeReset(a) \/ ResumeCompletion(a)
    <3>1. run.status = "running" /\ responses' = responses
      BY <2>t, <2>3 DEF ResumeTool, ResumeReset, ResumeCompletion, Granted, CopyOK, GrantPcs
    <3>2. <<a, 0, 0>> \in Processes
      BY <2>t DEF Processes
    <3>3. ClearPending(run).status = "running" /\ ClearPending(run).loop = NoLoop
      BY <2>t, <3>1, <3>2, NoteRun
    <3>4. row' = row \/ row' = ClearPending(run)
      BY <2>t, <2>3, SaveFrame DEF ResumeTool, ResumeReset, ResumeCompletion
    <3> QED
      BY <1>s, <3>1, <3>3, <3>4
  <2> QED
    BY <1>1, <2>1, <2>2, <2>3 DEF Approval
<1>2. ASSUME NEW s \in Stoppers, ReadStop(s) \/ WriteStop(s) PROVE RowInv'
  <2>t. s \in Threads /\ engine[s] \in Runs
    BY DEF Threads, TypeOK
  <2>1. CASE ReadStop(s)
    BY <1>s, <1>n, <2>1 DEF ReadStop
  <2>2. CASE WriteStop(s)
    <3>1. (row' = row \/ row' = Cancel(engine[s])) /\ responses' = responses
      BY <2>t, <2>2, SaveFrame DEF WriteStop
    <3> QED
      BY <1>s, <2>t, <3>1, EndRun
  <2> QED
    BY <1>2, <2>1, <2>2
<1>3. ASSUME Restart PROVE RowInv'
  <2>1. row' = Reconcile(row) /\ responses' = responses /\ row \in Runs
    BY <1>3 DEF Restart, TypeOK
  <2>2. CASE row.status = "waiting_approval"
    <3>1. row' = row
      BY <2>1, <2>2, ReconcileRun
    <3> QED
      BY <1>s, <1>n, <2>1, <3>1
  <2>3. CASE row.status # "waiting_approval"
    <3>1. row'.status # "waiting_approval" /\ row'.loop = row.loop /\ row.loop = NoLoop
      BY <2>1, <2>3, ReconcileRun DEF RowInv, Consistent
    <3> QED
      BY <3>1 DEF RowInv, Consistent
  <2> QED
    BY <2>2, <2>3
<1> QED
  BY <1>1, <1>2, <1>3

-----------------------------------------------------------------------------
(* What is said of all workers at once.                                    *)

(* A worker who does not take the step keeps what is said of him.          *)
LEMMA OtherWorkers ==
  ASSUME TypeOK, WorkersInv, NEW w \in Workers, Frame(w),
         CopyOK(pc'[w], engine'[w]), CursorOK(pc'[w], cursor'[w], responses'),
         w \in Approvers => ClaimOK(pc'[w], claim'[w], cursor'[w]),
         LogOK(pc'[w], cursor'[w], log'[w])
  PROVE  WorkersInv'
<1>1. ASSUME NEW v \in Workers
      PROVE  /\ CopyOK(pc'[v], engine'[v]) /\ CursorOK(pc'[v], cursor'[v], responses')
             /\ LogOK(pc'[v], cursor'[v], log'[v])
  <2>1. CASE v = w
    BY <2>1
  <2>2. CASE v # w
    <3>1. /\ pc'[v] = pc[v] /\ engine'[v] = engine[v] /\ cursor'[v] = cursor[v]
          /\ log'[v] = log[v]
      BY <2>2 DEF Frame, Threads
    <3>2. CursorOK(pc[v], cursor[v], responses) /\ cursor[v].n \in Nat
      BY DEF WorkersInv, CursorInv, TypeOK, Cursors
    <3>3. CursorOK(pc[v], cursor[v], responses')
      BY <3>2 DEF CursorOK, Frame
    <3> QED
      BY <3>1, <3>3 DEF WorkersInv, EngineInv, LogInv
  <2> QED
    BY <2>1, <2>2
<1>2. ASSUME NEW a \in Approvers PROVE ClaimOK(pc'[a], claim'[a], cursor'[a])
  BY DEF Frame, Threads, Workers, WorkersInv, ClaimInv
<1> QED
  BY <1>1, <1>2 DEF WorkersInv, EngineInv, CursorInv, ClaimInv, LogInv

(* A step of a worker.                                                     *)
LEMMA WorkerStep ==
  ASSUME TypeOK, TypeOK', RowInv, WorkersInv, PlaceInv
  PROVE  /\ \A w \in Workers : Begin(w) \/ Loop(w) => WorkersInv'
         /\ \A a \in Approvers : Submit(a) \/ Approval(a) => WorkersInv'
<1>i. EngineInv /\ CursorInv /\ ClaimInv /\ LogInv
  BY DEF WorkersInv
<1>1. ASSUME NEW w \in Workers, Begin(w) \/ Loop(w) PROVE WorkersInv'
  <2>1. ClaimOK(pc'[w], claim'[w], cursor'[w])
    BY <1>1, LoopPlace DEF ClaimOK, LoopPcs, GrantPcs
  <2>2. Frame(w)
    BY <1>1, LoopFrame
  <2>3. CopyOK(pc'[w], engine'[w])
    BY <1>i, <1>1, LoopCopy
  <2>4. CursorOK(pc'[w], cursor'[w], responses')
    BY <1>i, <1>1, LoopCursor
  <2>5. LogOK(pc'[w], cursor'[w], log'[w])
    BY <1>i, <1>1, LoopLog
  <2> QED
    BY <2>1, <2>2, <2>3, <2>4, <2>5, OtherWorkers
<1>2. ASSUME NEW a \in Approvers, Submit(a) \/ Approval(a) PROVE WorkersInv'
  <2>1. a \in Workers /\ Frame(a)
    BY <1>2, ApprovalFrame DEF Workers
  <2>2. CopyOK(pc'[a], engine'[a])
    BY <1>i, <1>2, ApprovalCopy
  <2>3. CursorOK(pc'[a], cursor'[a], responses')
    BY <1>i, <1>2, ApprovalCursor
  <2>4. ClaimOK(pc'[a], claim'[a], cursor'[a])
    BY <1>i, <1>2, ApprovalClaim
  <2>5. LogOK(pc'[a], cursor'[a], log'[a])
    BY <1>i, <1>2, ApprovalLog
  <2> QED
    BY <2>1, <2>2, <2>3, <2>4, <2>5, OtherWorkers
<1> QED
  BY <1>1, <1>2

(* A stop touches no worker, and a restart ends them all.                  *)
LEMMA OtherStep ==
  ASSUME TypeOK, WorkersInv, PlaceInv
  PROVE  /\ \A s \in Stoppers : ReadStop(s) \/ WriteStop(s) => WorkersInv'
         /\ Restart => WorkersInv'
<1>i. EngineInv /\ CursorInv /\ ClaimInv /\ LogInv
  BY DEF WorkersInv
<1>1. ASSUME NEW s \in Stoppers, ReadStop(s) \/ WriteStop(s) PROVE WorkersInv'
  <2>1. s \in Threads /\ s \notin Workers
    BY ControlAssumption DEF Threads, Workers
  <2>2. \A w \in Workers : pc'[w] = pc[w] /\ engine'[w] = engine[w]
    BY <1>1, <2>1, SaveFrame DEF ReadStop, WriteStop, Threads, TypeOK
  <2>3. UNCHANGED <<cursor, claim, log, responses>>
    BY <1>1 DEF ReadStop, WriteStop
  <2>4. EngineInv'
    BY <1>i, <2>2 DEF EngineInv
  <2>5. CursorInv'
    BY <1>i, <2>2, <2>3 DEF CursorInv
  <2>6. ClaimInv' /\ LogInv'
    BY <1>i, <2>2, <2>3 DEF ClaimInv, LogInv, Workers
  <2> QED
    BY <2>4, <2>5, <2>6 DEF WorkersInv
<1>2. ASSUME Restart PROVE WorkersInv'
  <2>1. /\ \A w \in Workers : pc'[w] = "done" \/ (pc'[w] = "idle" /\ pc[w] = "idle")
        /\ UNCHANGED <<engine, cursor, claim, log, responses>>
    BY <1>2 DEF Restart, Threads
  <2>2. EngineInv'
    BY <2>1 DEF EngineInv, CopyOK, LoopPcs, GrantPcs
  <2>3. CursorInv'
    BY <1>i, <2>1 DEF CursorInv, CursorOK, BudgetPcs
  <2>4. ClaimInv'
    BY <2>1 DEF ClaimInv, ClaimOK, Workers, GrantPcs
  <2>5. ASSUME NEW w \in Workers PROVE LogOK(pc'[w], cursor'[w], log'[w])
    <3>1. cursor[w] \in Cursors /\ log[w] \in Seq(Executions) /\ LogOK(pc[w], cursor[w], log[w])
      BY <1>i DEF TypeOK, LogInv
    <3>2. CASE pc'[w] = "done"
      BY <2>1, <3>1, <3>2, KeepLog
    <3>3. CASE pc'[w] = "idle" /\ pc[w] = "idle"
      BY <2>1, <3>1, <3>3
    <3> QED
      BY <2>1, <3>2, <3>3
  <2>6. LogInv'
    BY <2>5 DEF LogInv
  <2> QED
    BY <2>2, <2>3, <2>4, <2>6 DEF WorkersInv
<1> QED
  BY <1>1, <1>2

(* Where a step starts from.                                               *)
LEMMA StepFrom ==
  /\ \A w \in Workers : Loop(w) => pc[w] \in LoopPcs \cup {"fail"}
  /\ \A a \in Approvers : Approval(a) => pc[a] \in GrantPcs \cup {"submitted"}
<1>1. \A w \in Workers : Loop(w) => pc[w] \in LoopPcs \cup {"fail"}
  BY DEF Loop, Check, AskReset, Respond, Retry, Recover, FailRun, CompleteRun, Nudge,
         AskCompletion, AskTool, AfterCall, InterruptRun, EndRound, ProviderFails, SkipCall,
         DenyCall, RunCall, CallFails, AtCall, LoopPcs
<1>2. \A a \in Approvers : Approval(a) => pc[a] \in GrantPcs \cup {"submitted"}
  BY DEF Approval, Load, GrantDenied, SpendGrant, GrantFails, Supersede, ResumeTool,
         ResumeReset, ResumeCompletion, GateIsGone, Granted, GrantPcs
<1> QED
  BY <1>1, <1>2

(* The threads keep to the places that are theirs.                         *)
LEMMA PlaceStep ==
  ASSUME TypeOK, PlaceInv, Next
  PROVE  PlaceInv'
<1>d. /\ \A a \in Approvers : a # Starter /\ a \notin Stoppers /\ a \in Workers
      /\ Starter \in Workers /\ Starter \notin Stoppers
      /\ \A w \in Workers : w \notin Stoppers
      /\ Workers \subseteq Threads /\ Stoppers \subseteq Threads
  BY ControlAssumption DEF Workers, Threads
<1>1. ASSUME NEW w \in Workers, Begin(w) \/ Loop(w) PROVE PlaceInv'
  <2>1. pc'[w] \in LoopPcs \cup {"fail", "done"}
    BY <1>1, LoopPlace
  <2>2. \A t \in Threads \ {w} : pc'[t] = pc[t]
    BY <1>1, LoopFrame DEF Frame
  <2>3. pc'[w] # "stopping" /\ pc'[w] \notin GrantPcs \cup {"submitted"}
    BY <2>1 DEF LoopPcs, GrantPcs
  <2> QED
    BY <1>d, <2>2, <2>3 DEF PlaceInv
<1>2. ASSUME NEW a \in Approvers, Submit(a) \/ Approval(a) PROVE PlaceInv'
  <2>1. pc'[a] \in {"submitted", "granted", "done", "spent", "superseded", "check"}
    BY <1>2, ApprovalPlace DEF Approval
  <2>2. \A t \in Threads \ {a} : pc'[t] = pc[t]
    BY <1>2, ApprovalFrame DEF Frame
  <2>3. pc'[a] # "stopping"
    BY <2>1
  <2> QED
    BY <1>d, <2>2, <2>3 DEF PlaceInv
<1>3. ASSUME NEW s \in Stoppers, ReadStop(s) \/ WriteStop(s) PROVE PlaceInv'
  <2>1. pc'[s] \in {"stopping", "done"} /\ \A t \in Threads \ {s} : pc'[t] = pc[t]
    BY <1>d, <1>3, SaveFrame DEF ReadStop, WriteStop
  <2> QED
    BY <1>d, <2>1 DEF PlaceInv
<1>4. ASSUME Restart PROVE PlaceInv'
  <2>1. \A t \in Threads : pc'[t] \in {"idle", "done"}
    BY <1>4 DEF Restart
  <2> QED
    BY <1>d, <2>1 DEF PlaceInv, GrantPcs
<1> QED
  BY <1>1, <1>2, <1>3, <1>4 DEF Next

(* Before the turn starts nothing happens.                                 *)
LEMMA StartStep ==
  ASSUME TypeOK, RowInv, PlaceInv, StartInv, Next
  PROVE  StartInv'
<1> SUFFICES ASSUME pc'[Starter] = "idle" PROVE StartInv'
  BY DEF StartInv
<1>d. /\ \A a \in Approvers : a # Starter /\ a \in Workers
      /\ \A s \in Stoppers : s # Starter
      /\ Starter \in Workers /\ Workers \subseteq Threads /\ Stoppers \subseteq Threads
  BY ControlAssumption DEF Workers, Threads
<1>1. ASSUME NEW w \in Workers, Begin(w) \/ Loop(w) PROVE FALSE
  <2>1. pc'[w] # "idle" /\ \A t \in Threads \ {w} : pc'[t] = pc[t]
    BY <1>1, LoopPlace, LoopFrame DEF Frame, LoopPcs
  <2>2. w # Starter /\ pc[Starter] = "idle"
    BY <1>d, <2>1
  <2>3. pc[w] \in {"idle", "done"} /\ Loop(w)
    BY <1>d, <1>1, <2>2 DEF StartInv, Begin
  <2> QED
    BY <2>3, StepFrom DEF LoopPcs
<1>2. ASSUME NEW a \in Approvers, Submit(a) \/ Approval(a) PROVE FALSE
  <2>1. pc[Starter] = "idle"
    BY <1>d, <1>2, ApprovalFrame DEF Frame
  <2>2. row.status = "queued" /\ pc[a] \in {"idle", "done"}
    BY <1>d, <2>1 DEF StartInv
  <2>3. CASE Submit(a)
    BY <2>2, <2>3 DEF Submit
  <2>4. CASE Approval(a)
    BY <2>2, <2>4, StepFrom DEF GrantPcs
  <2> QED
    BY <1>2, <2>3, <2>4
<1>3. ASSUME NEW s \in Stoppers, ReadStop(s) \/ WriteStop(s) PROVE StartInv'
  <2>1. \A t \in Threads \ {s} : pc'[t] = pc[t]
    BY <1>d, <1>3, SaveFrame DEF ReadStop, WriteStop
  <2>2. row.status = "queued" /\ \A t \in Threads : pc[t] \in {"idle", "done"}
    BY <1>d, <2>1 DEF StartInv
  <2>3. ReadStop(s) /\ ~IsActive(row)
    BY <1>d, <1>3, <2>2 DEF WriteStop, IsActive
  <2>4. pc'[s] = "done" /\ row' = row
    BY <1>d, <2>3, SaveFrame DEF ReadStop
  <2> QED
    BY <2>1, <2>2, <2>4 DEF StartInv
<1>4. ASSUME Restart PROVE FALSE
  BY <1>d, <1>4 DEF Restart
<1> QED
  BY <1>1, <1>2, <1>3, <1>4 DEF Next

(* Without faults the run a thread lets go of is not running.              *)
LEMMA HandsStep ==
  ASSUME TypeOK, WorkersInv, PlaceInv, HandsInv, Next
  PROVE  HandsInv'
<1> SUFFICES ASSUME faults' = 0 PROVE HandsInv'
  BY DEF HandsInv
<1> DEFINE Busy(at) == at \in LoopPcs \cup {"fail"}
<1>d. /\ \A a \in Approvers : a \in Workers /\ a \in Threads
      /\ \A s \in Stoppers : s \notin Workers /\ s \in Threads
      /\ Workers \subseteq Threads /\ faults \in Nat
  BY ControlAssumption DEF Workers, Threads, TypeOK
<1>s. ASSUME NEW w \in Threads, NEW run, NEW next, NEW onError,
             Save(w, run, next, onError)
      PROVE  row' = run /\ pc'[w] = next /\ engine'[w] = run /\ faults = 0
  BY <1>d, <1>s, SaveFrame
<1>f. ASSUME NEW w \in Threads, NEW next, StoreFails(w, next)
      PROVE  FALSE
  BY <1>d, <1>f DEF StoreFails
<1>1. ASSUME NEW w \in Workers, Begin(w) \/ Loop(w)
      PROVE  /\ faults = 0
             /\ pc'[w] = "fail" => NotTerminal(engine'[w])
             /\ row'.status = "running" => Busy(pc'[w])
  <2> DEFINE run == engine[w]
  <2>t. w \in Threads /\ run \in Runs /\ CopyOK(pc[w], run)
    BY <1>d DEF TypeOK, WorkersInv, EngineInv
  <2>1. CASE Begin(w)
    BY <1>s, <2>t, <2>1 DEF Begin, LoopPcs
  <2>2. CASE Respond(w) \/ Retry(w) \/ Recover(w) \/ Nudge(w) \/ EndRound(w)
    <3>1. pc'[w] \in {"answer", "tools", "request", "check"} /\ faults = 0
      BY <1>s, <2>t, <2>2 DEF Respond, Retry, Recover, Nudge, EndRound
    <3> QED
      BY <3>1 DEF LoopPcs
  <2>3. CASE SkipCall(w) \/ DenyCall(w) \/ RunCall(w)
    <3>1. pc'[w] \in {"tools", "after"} /\ faults = 0
      BY <2>t, <2>3 DEF SkipCall, DenyCall, RunCall, AtCall, Goto, TypeOK, history
    <3> QED
      BY <3>1 DEF LoopPcs
  <2>4. CASE CompleteRun(w) \/ InterruptRun(w)
    <3>1. row'.status \in {"completed", "interrupted"} /\ pc'[w] = "done" /\ faults = 0
      BY <1>s, <2>t, <2>4, EndRun DEF CompleteRun, InterruptRun
    <3> QED
      BY <3>1
  <2>5. CASE AskReset(w) \/ AskCompletion(w) \/ AskTool(w)
    <3>1. pc'[w] = "done" /\ faults = 0
      BY <1>s, <2>t, <2>5 DEF AskReset, AskCompletion, AskTool
    <3>2. \E id, loop : row' = WaitForApproval(run, id, loop)
      BY <1>s, <2>t, <2>5 DEF AskReset, AskCompletion, AskTool
    <3>3. row'.status = "waiting_approval"
      BY <2>t, <3>2 DEF WaitForApproval, Runs
    <3> QED
      BY <3>1, <3>3
  <2>6. CASE Check(w) \/ AfterCall(w)
    <3>1. /\ pc'[w] \in LoopPcs \/ (pc'[w] = "done" /\ row.status = "cancelled")
          /\ row' = row /\ faults = 0
      BY <1>f, <2>t, <2>6 DEF Check, AfterCall, Goto, LoopPcs, TypeOK
    <3> QED
      BY <3>1 DEF LoopPcs
  <2>7. CASE FailRun(w)
    <3>1. faults = 0
      BY <1>s, <2>t, <2>7 DEF FailRun
    <3>2. NotTerminal(run)
      BY <2>7, <3>1 DEF FailRun, HandsInv
    <3>3. row' = Fail(run) /\ pc'[w] = "done"
      BY <1>s, <2>t, <2>7, <3>2 DEF FailRun
    <3> QED
      BY <2>t, <3>1, <3>3, EndRun
  <2>8. CASE ProviderFails(w) \/ CallFails(w)
    <3>1. pc'[w] = "fail" /\ faults = 0 /\ run.status = "running"
      BY <2>t, <2>8
      DEF ProviderFails, CallFails, AtCall, Goto, TypeOK, history, CopyOK, LoopPcs
    <3>2. <<w, 0, 0>> \in Processes
      BY DEF Processes
    <3>3. engine'[w] = run \/ engine'[w] = RecordToolCompletion(run)
      BY <2>t, <2>8 DEF ProviderFails, CallFails, TypeOK
    <3>4. engine'[w].status = "running"
      BY <2>t, <3>1, <3>2, <3>3, NoteRun
    <3> QED
      BY <3>1, <3>4 DEF NotTerminal, Terminal
  <2> QED
    BY <1>1, <2>1, <2>2, <2>3, <2>4, <2>5, <2>6, <2>7, <2>8 DEF Loop
<1>2. ASSUME NEW w \in Workers, Begin(w) \/ Loop(w) PROVE HandsInv'
  <2>1. \A v \in Workers \ {w} : pc'[v] = pc[v] /\ engine'[v] = engine[v]
    BY <1>d, <1>2, LoopFrame DEF Frame
  <2>2. \A v \in Workers : pc'[v] = "fail" => NotTerminal(engine'[v])
    BY <1>1, <1>2, <2>1 DEF HandsInv
  <2> QED
    BY <1>1, <1>2, <2>2 DEF HandsInv
<1>3. ASSUME NEW a \in Approvers, Submit(a) \/ Approval(a) PROVE HandsInv'
  <2>1. /\ \A v \in Workers \ {a} : pc'[v] = pc[v] /\ engine'[v] = engine[v]
        /\ pc'[a] # "fail"
    <3>1. pc'[a] \in {"submitted", "granted", "done", "spent", "superseded", "check"}
      BY <1>3, ApprovalPlace DEF Approval
    <3> QED
      BY <1>d, <1>3, <3>1, ApprovalFrame DEF Frame
  <2>2. ~Busy(pc[a])
    <3>1. pc[a] \in GrantPcs \cup {"submitted", "idle"}
      BY <1>3, StepFrom DEF Submit
    <3> QED
      BY <3>1 DEF GrantPcs, LoopPcs
  <2>3. /\ faults = 0
        /\ row'.status = "running" => row' = row \/ pc'[a] = "check"
    <3>1. CASE Submit(a) \/ Load(a) \/ SpendGrant(a) \/ GrantFails(a) \/ GateIsGone(a)
      BY <1>d, <1>f, <3>1 DEF Submit, Load, SpendGrant, GrantFails, GateIsGone, history
    <3>2. CASE GrantDenied(a) \/ Supersede(a)
      <4>1. faults = 0 /\ row'.status \in {"failed", "interrupted"}
        BY <1>d, <1>s, <3>2, EndRun DEF GrantDenied, Supersede, TypeOK
      <4> QED
        BY <4>1
    <3>3. CASE ResumeTool(a) \/ ResumeReset(a) \/ ResumeCompletion(a)
      BY <1>d, <1>s, <3>3 DEF ResumeTool, ResumeReset, ResumeCompletion
    <3> QED
      BY <1>3, <3>1, <3>2, <3>3 DEF Approval
  <2> QED
    BY <1>d, <2>1, <2>2, <2>3 DEF HandsInv, LoopPcs
<1>4. ASSUME NEW s \in Stoppers, ReadStop(s) \/ WriteStop(s) PROVE HandsInv'
  <2>1. /\ \A v \in Workers : pc'[v] = pc[v] /\ engine'[v] = engine[v]
    BY <1>d, <1>4, SaveFrame DEF ReadStop, WriteStop, TypeOK
  <2>2. faults = 0 /\ (row'.status = "running" => row' = row)
    <3>1. CASE ReadStop(s)
      BY <3>1 DEF ReadStop, history
    <3>2. CASE WriteStop(s)
      <4>1. faults = 0 /\ row'.status = "cancelled"
        BY <1>d, <1>s, <3>2, EndRun DEF WriteStop, TypeOK
      <4> QED
        BY <4>1
    <3> QED
      BY <1>4, <3>1, <3>2
  <2> QED
    BY <2>1, <2>2 DEF HandsInv
<1>5. ASSUME Restart PROVE HandsInv'
  <2>1. row'.status # "running" /\ \A t \in Threads : pc'[t] \in {"idle", "done"}
    BY <1>5, ReconcileRun DEF Restart, TypeOK
  <2> QED
    BY <1>d, <2>1 DEF HandsInv
<1> QED
  BY <1>2, <1>3, <1>4, <1>5 DEF Next

-----------------------------------------------------------------------------
(* What runs.                                                              *)

(* A step of the loop logs nothing, or a call that is allowed and that its *)
(* cursor has just reached.                                                *)
LEMMA LoopRuns ==
  ASSUME TypeOK, NEW w \in Workers, Begin(w) \/ Loop(w)
  PROVE  /\ claim' = claim
         /\ \/ log' = log
            \/ /\ pc[w] = "tools"
               /\ \E entry \in Executions :
                    /\ log'[w] = Append(log[w], entry)
                    /\ entry.policy = "allow"
                    /\ entry.n = cursor[w].n /\ entry.call = cursor[w].next
<1>1. CASE RunCall(w) \/ CallFails(w)
  <2>1. /\ LogCall(w, cursor[w]) /\ cursor[w].next <= Len(cursor[w].calls)
        /\ policy[Call(w)] = "allow" /\ pc[w] = "tools" /\ claim' = claim
    BY <1>1 DEF RunCall, CallFails, AtCall, Invoke, MayRun
  <2> QED
    BY <2>1, LoggedCall
<1>2. CASE \/ Begin(w) \/ Check(w) \/ AskReset(w) \/ Respond(w) \/ Retry(w) \/ Recover(w)
           \/ FailRun(w) \/ CompleteRun(w) \/ Nudge(w) \/ AskCompletion(w)
           \/ AskTool(w) \/ AfterCall(w) \/ InterruptRun(w) \/ EndRound(w)
           \/ ProviderFails(w) \/ SkipCall(w) \/ DenyCall(w)
  BY <1>2
  DEF Begin, Check, AskReset, Respond, Retry, Recover, FailRun, CompleteRun, Nudge,
      AskCompletion, AskTool, AfterCall, InterruptRun, EndRound, ProviderFails, SkipCall,
      DenyCall
<1> QED
  BY <1>1, <1>2 DEF Loop

(* A step of an approval logs nothing, or as the first execution of its    *)
(* thread the call it approves.                                            *)
LEMMA ApprovalRuns ==
  ASSUME TypeOK, ClaimInv, LogInv, NEW a \in Approvers, Submit(a) \/ Approval(a)
  PROVE  \/ log' = log /\ (claim'[a] = claim[a] \/ log[a] = <<>>)
         \/ /\ log[a] = <<>> /\ claim' = claim
            /\ \E entry \in Executions :
                 /\ log'[a] = Append(log[a], entry)
                 /\ entry.policy # "deny"
                 /\ claim[a] = ToolApproval(entry.tool)
<1>t. a \in Workers
  BY DEF Workers
<1>1. CASE SpendGrant(a) \/ GrantFails(a)
  <2>1. /\ LogCall(a, cursor[a]) /\ claim' = claim /\ policy[Call(a)] # "deny"
        /\ pc[a] = "granted" /\ claim[a].kind = "tool"
    BY <1>1 DEF SpendGrant, GrantFails, Invoke, Granted
  <2>2. /\ cursor[a].next <= Len(cursor[a].calls) /\ claim[a] = ToolApproval(Call(a))
        /\ log[a] = <<>>
    BY <1>t, <2>1 DEF ClaimInv, ClaimOK, AsksFor, LogInv, LogOK, Call
  <2> QED
    BY <1>t, <2>1, <2>2, LoggedCall
<1>2. CASE Submit(a)
  <2>1. log[a] = <<>> /\ log' = log
    BY <1>t, <1>2 DEF Submit, LogInv, LogOK
  <2> QED
    BY <2>1
<1>3. CASE \/ Load(a) \/ GrantDenied(a) \/ Supersede(a) \/ ResumeTool(a) \/ ResumeReset(a)
           \/ ResumeCompletion(a) \/ GateIsGone(a)
  BY <1>3 DEF Load, GrantDenied, Supersede, ResumeTool, ResumeReset, ResumeCompletion, GateIsGone
<1> QED
  BY <1>1, <1>2, <1>3 DEF Approval

KeptBy(w) ==
  \A e \in DOMAIN log[w] :
    /\ log[w][e].policy # "deny"
    /\ log[w][e].policy = "ask" =>
         w \in Approvers /\ claim[w] = ToolApproval(log[w][e].tool)

SpentOnceBy(w) ==
  \A d, e \in DOMAIN log[w] :
    d # e =>
      /\ ~(log[w][d].policy = "ask" /\ log[w][e].policy = "ask")
      /\ <<log[w][d].n, log[w][d].call>> # <<log[w][e].n, log[w][e].call>>

(* The policy and the grants, thread by thread.                            *)
LEMMA ByThread ==
  /\ PolicyIsKept <=> \A w \in Workers : KeptBy(w)
  /\ GrantsAreSpentOnce <=> \A w \in Workers : SpentOnceBy(w)
BY DEF PolicyIsKept, KeptBy, GrantsAreSpentOnce, SpentOnceBy

(* A call of the loop comes after every call of its thread.                *)
LEMMA LoopSpends ==
  ASSUME TypeOK, LogInv, NEW w \in Workers, Begin(w) \/ Loop(w),
         KeptBy(w), SpentOnceBy(w)
  PROVE  KeptBy(w)' /\ SpentOnceBy(w)'
<1>1. CASE log' = log
  BY <1>1, LoopRuns DEF KeptBy, SpentOnceBy
<1>2. CASE /\ pc[w] = "tools"
           /\ \E entry \in Executions :
                /\ log'[w] = Append(log[w], entry)
                /\ entry.policy = "allow"
                /\ entry.n = cursor[w].n /\ entry.call = cursor[w].next
  <2>1. PICK entry \in Executions :
          /\ log'[w] = Append(log[w], entry)
          /\ entry.policy = "allow"
          /\ entry.n = cursor[w].n /\ entry.call = cursor[w].next
    BY <1>2
  <2>2. log[w] \in Seq(Executions) /\ claim' = claim
    BY LoopRuns DEF TypeOK
  <2>3. cursor[w].n \in Nat /\ cursor[w].next \in Nat
    BY DEF TypeOK, Cursors
  <2>4. ASSUME NEW d \in DOMAIN log[w]
        PROVE  <<log[w][d].n, log[w][d].call>> # <<entry.n, entry.call>>
    <3>1. Behind(log[w][d], cursor[w], "tools") /\ log[w][d] \in Executions
      BY <1>2, <2>2 DEF LogInv, LogOK
    <3>2. log[w][d].n \in Nat /\ log[w][d].call \in Nat
      BY <3>1 DEF Executions
    <3> QED
      BY <2>1, <2>3, <3>1, <3>2 DEF Behind
  <2>5. ASSUME NEW e \in DOMAIN log'[w]
        PROVE  \/ e \in DOMAIN log[w] /\ log'[w][e] = log[w][e]
               \/ e = Len(log[w]) + 1 /\ e \notin DOMAIN log[w] /\ log'[w][e] = entry
    BY <2>1, <2>2, AppendEntry
  <2>6. KeptBy(w)'
    BY <2>1, <2>2, <2>5 DEF KeptBy
  <2>7. SpentOnceBy(w)'
    <3>1. SUFFICES ASSUME NEW d \in DOMAIN log'[w], NEW e \in DOMAIN log'[w], d # e
                   PROVE  /\ ~(log'[w][d].policy = "ask" /\ log'[w][e].policy = "ask")
                          /\ <<log'[w][d].n, log'[w][d].call>>
                               # <<log'[w][e].n, log'[w][e].call>>
      BY DEF SpentOnceBy
    <3>2. CASE d \in DOMAIN log[w] /\ e \in DOMAIN log[w]
      BY <2>5, <3>1, <3>2 DEF SpentOnceBy
    <3>3. CASE d \in DOMAIN log[w] /\ e \notin DOMAIN log[w]
      BY <2>1, <2>4, <2>5, <3>3
    <3>4. CASE d \notin DOMAIN log[w] /\ e \in DOMAIN log[w]
      BY <2>1, <2>4, <2>5, <3>4
    <3>5. CASE d \notin DOMAIN log[w] /\ e \notin DOMAIN log[w]
      BY <2>5, <3>1, <3>5
    <3> QED
      BY <3>2, <3>3, <3>4, <3>5
  <2> QED
    BY <2>6, <2>7
<1> QED
  BY <1>1, <1>2, LoopRuns

(* An approval runs one call, the one it is for.                           *)
LEMMA ApprovalSpends ==
  ASSUME TypeOK, ClaimInv, LogInv, NEW a \in Approvers, Submit(a) \/ Approval(a),
         KeptBy(a), SpentOnceBy(a)
  PROVE  KeptBy(a)' /\ SpentOnceBy(a)'
<1>1. CASE log' = log /\ (claim'[a] = claim[a] \/ log[a] = <<>>)
  BY <1>1 DEF KeptBy, SpentOnceBy
<1>2. CASE /\ log[a] = <<>> /\ claim' = claim
           /\ \E entry \in Executions :
                /\ log'[a] = Append(log[a], entry)
                /\ entry.policy # "deny"
                /\ claim[a] = ToolApproval(entry.tool)
  <2>1. PICK entry \in Executions :
          /\ log'[a] = Append(<<>>, entry)
          /\ entry.policy # "deny" /\ claim[a] = ToolApproval(entry.tool)
    BY <1>2
  <2>2. DOMAIN log'[a] = {1} /\ log'[a][1] = entry
    BY <2>1
  <2> QED
    BY <1>2, <2>1, <2>2 DEF KeptBy, SpentOnceBy
<1> QED
  BY <1>1, <1>2, ApprovalRuns

(* A step keeps the policy and the grants of every thread.                 *)
LEMMA SpendStep ==
  ASSUME TypeOK, WorkersInv, PolicyIsKept, GrantsAreSpentOnce, Next
  PROVE  PolicyIsKept' /\ GrantsAreSpentOnce'
<1>i. /\ ClaimInv /\ LogInv
      /\ \A w \in Workers : KeptBy(w) /\ SpentOnceBy(w)
  BY ByThread DEF WorkersInv
<1>f. ASSUME NEW w \in Workers, Frame(w), KeptBy(w)' /\ SpentOnceBy(w)',
             NEW v \in Workers
      PROVE  KeptBy(v)' /\ SpentOnceBy(v)'
  <2>1. CASE v = w
    BY <1>f, <2>1
  <2>2. CASE v # w
    <3>1. log'[v] = log[v] /\ (v \in Approvers => claim'[v] = claim[v])
      BY <1>f, <2>2 DEF Frame
    <3> QED
      BY <1>i, <3>1 DEF KeptBy, SpentOnceBy
  <2> QED
    BY <2>1, <2>2
<1>s. ASSUME log' = log, claim' = claim, NEW v \in Workers
      PROVE  KeptBy(v)' /\ SpentOnceBy(v)'
  BY <1>i, <1>s DEF KeptBy, SpentOnceBy
<1>1. ASSUME NEW w \in Workers, Begin(w) \/ Loop(w), NEW v \in Workers
      PROVE  KeptBy(v)' /\ SpentOnceBy(v)'
  <2>1. Frame(w) /\ KeptBy(w)' /\ SpentOnceBy(w)'
    BY <1>i, <1>1, LoopFrame, LoopSpends
  <2> QED
    BY <1>f, <2>1
<1>2. ASSUME NEW a \in Approvers, Submit(a) \/ Approval(a), NEW v \in Workers
      PROVE  KeptBy(v)' /\ SpentOnceBy(v)'
  <2>1. a \in Workers
    BY DEF Workers
  <2>2. Frame(a) /\ KeptBy(a)' /\ SpentOnceBy(a)'
    BY <1>i, <1>2, <2>1, ApprovalFrame, ApprovalSpends
  <2> QED
    BY <1>f, <2>1, <2>2
<1>3. ASSUME NEW s \in Stoppers, ReadStop(s) \/ WriteStop(s), NEW v \in Workers
      PROVE  KeptBy(v)' /\ SpentOnceBy(v)'
  BY <1>s, <1>3 DEF ReadStop, WriteStop
<1>4. ASSUME Restart, NEW v \in Workers PROVE KeptBy(v)' /\ SpentOnceBy(v)'
  BY <1>s, <1>4 DEF Restart
<1>5. \A v \in Workers : KeptBy(v)' /\ SpentOnceBy(v)'
  BY <1>1, <1>2, <1>3, <1>4 DEF Next
<1>6. PolicyIsKept'
  BY <1>5 DEF PolicyIsKept, KeptBy
<1>7. GrantsAreSpentOnce'
  BY <1>5 DEF GrantsAreSpentOnce, SpentOnceBy
<1> QED
  BY <1>6, <1>7

-----------------------------------------------------------------------------
(* The theorems.                                                           *)

(* Before the first step nothing was started, asked or run.                *)
LEMMA InitInvariant == Init => IInv
<1> SUFFICES ASSUME Init PROVE IInv
  OBVIOUS
<1>1. TypeOK
  <2>1. NewRun \in Runs /\ NewCursor \in Cursors /\ "idle" \in PcValues
    BY StartRun, FreshCursor DEF PcValues
  <2>2. <<>> \in Seq(Executions)
    OBVIOUS
  <2>3. 0 \in 0..MaxFaults /\ 0 \in 0..MaxRestarts
    BY Bounds
  <2> QED
    BY <2>1, <2>2, <2>3 DEF Init, TypeOK
<1>2. RowInv
  BY StartRun DEF Init, RowInv, Consistent
<1>3. PlaceInv
  BY DEF Init, PlaceInv, GrantPcs, Threads, Workers
<1>4. WorkersInv
  <2>1. \A w \in Workers : pc[w] = "idle" /\ cursor[w] = NewCursor /\ log[w] = <<>>
    BY DEF Init, Threads
  <2>2. EngineInv /\ ClaimInv
    BY <2>1 DEF EngineInv, CopyOK, LoopPcs, GrantPcs, ClaimInv, ClaimOK, Workers
  <2>3. CursorInv
    BY <2>1, FreshCursor DEF Init, CursorInv, CursorOK, BudgetPcs
  <2>4. LogInv
    BY <2>1 DEF LogInv, LogOK
  <2> QED
    BY <2>2, <2>3, <2>4 DEF WorkersInv
<1>5. PolicyIsKept /\ GrantsAreSpentOnce
  BY DEF Init, PolicyIsKept, GrantsAreSpentOnce
<1>6. StartInv
  BY StartRun DEF Init, StartInv
<1>7. HandsInv
  BY StartRun DEF Init, HandsInv, Threads
<1> QED
  BY <1>1, <1>2, <1>3, <1>4, <1>5, <1>6, <1>7 DEF IInv

(* Every step keeps every part of the invariant.                           *)
LEMMA StepInvariant ==
  ASSUME IInv, Next
  PROVE  IInv'
<1>i. /\ TypeOK /\ RowInv /\ PlaceInv /\ WorkersInv /\ PolicyIsKept
      /\ GrantsAreSpentOnce /\ StartInv /\ HandsInv
      /\ EngineInv /\ CursorInv /\ ClaimInv
  BY DEF IInv, WorkersInv
<1>1. TypeOK'
  BY <1>i, LoopTypes, ApprovalTypes, OtherTypes DEF Next
<1>2. RowInv'
  BY <1>i, LoopRow, OtherRow DEF Next
<1>3. PlaceInv'
  BY <1>i, PlaceStep
<1>4. WorkersInv'
  BY <1>i, <1>1, WorkerStep, OtherStep DEF Next
<1>5. PolicyIsKept' /\ GrantsAreSpentOnce'
  BY <1>i, SpendStep
<1>6. StartInv'
  BY <1>i, StartStep
<1>7. HandsInv'
  BY <1>i, HandsStep
<1> QED
  BY <1>1, <1>2, <1>3, <1>4, <1>5, <1>6, <1>7 DEF IInv

(* A step that changes nothing keeps it too.                               *)
LEMMA StutterInvariant ==
  ASSUME IInv, UNCHANGED vars
  PROVE  IInv'
<1>1. /\ row' = row /\ engine' = engine /\ cursor' = cursor /\ pc' = pc /\ claim' = claim
      /\ policy' = policy /\ alive' = alive /\ responses' = responses /\ log' = log
      /\ faults' = faults /\ restarts' = restarts
  BY DEF vars
<1>2. TypeOK' /\ RowInv' /\ PlaceInv'
  BY <1>1 DEF IInv, TypeOK, RowInv, Consistent, AsksFor, ToolApproval, PlaceInv
<1>3. WorkersInv'
  BY <1>1 DEF IInv, WorkersInv, EngineInv, CursorInv, ClaimInv, LogInv
<1>4. PolicyIsKept' /\ GrantsAreSpentOnce'
  BY <1>1 DEF IInv, PolicyIsKept, GrantsAreSpentOnce
<1>5. StartInv' /\ HandsInv'
  BY <1>1 DEF IInv, StartInv, HandsInv, NotTerminal
<1> QED
  BY <1>2, <1>3, <1>4, <1>5 DEF IInv

(* The invariant holds in every reachable state.                           *)
THEOREM InductiveInvariant == Spec => []IInv
<1>1. IInv /\ [Next]_vars => IInv'
  BY StepInvariant, StutterInvariant
<1> QED
  BY <1>1, InitInvariant, PTL DEF Spec

(* Type correctness: no cursor uses more than the configured rounds,       *)
(* nudges, retries and recoveries, for any of these numbers.               *)
THEOREM TypeCorrect == Spec => []TypeOK
<1>1. IInv => TypeOK
  BY DEF IInv
<1> QED
  BY <1>1, InductiveInvariant, PTL

(* Whichever copy was stored last, a waiting run can be resumed.           *)
THEOREM WaitingRunsAreResumable == Spec => []WaitingIsResumable
<1>1. IInv => WaitingIsResumable
  BY DEF IInv, RowInv, Consistent, WaitingIsResumable
<1> QED
  BY <1>1, InductiveInvariant, PTL

(* No denied tool runs, and none that is asked about without its approval. *)
THEOREM ThePolicyIsKept == Spec => []PolicyIsKept
<1>1. IInv => PolicyIsKept
  BY DEF IInv
<1> QED
  BY <1>1, InductiveInvariant, PTL

(* One approval request pays for one execution.                            *)
THEOREM OneExecutionPerGrant == Spec => []GrantsAreSpentOnce
<1>1. IInv => GrantsAreSpentOnce
  BY DEF IInv
<1> QED
  BY <1>1, InductiveInvariant, PTL

(* Without store failures a running run is in some thread's hands.         *)
THEOREM RunningRunsHaveAThread == Spec => []RunningHasAThread
<1>1. ASSUME IInv PROVE RunningHasAThread
  <2>1. SUFFICES ASSUME faults = 0, row.status = "running" PROVE ~Quiet
    BY DEF RunningHasAThread
  <2>2. PICK w \in Workers : pc[w] \in LoopPcs \cup {"fail"}
    BY <1>1, <2>1 DEF IInv, HandsInv
  <2> QED
    BY <2>2 DEF Quiet, Running, Threads, LoopPcs
<1> QED
  BY <1>1, InductiveInvariant, PTL

(* A terminal run that nobody holds a copy of stays as it is.              *)
THEOREM TerminalRunsAreFinal == Spec => TerminalIsFinal
<1> DEFINE Over == ~NotTerminal(row) /\ Quiet
           Still == Quiet' /\ row' = row /\ log' = log
<1>1. ASSUME IInv, Next, Over PROVE Still
  <2>i. /\ TypeOK /\ RowInv /\ PlaceInv /\ StartInv
        /\ \A t \in Threads : pc[t] \in {"idle", "submitted", "done"}
        /\ row.status \in Terminal
    BY <1>1 DEF IInv, Quiet, Running, NotTerminal
  <2>d. /\ \A w \in Workers : w \in Threads
        /\ \A a \in Approvers : a \in Workers
        /\ \A s \in Stoppers : s \in Threads
    BY DEF Threads, Workers
  <2>1. ASSUME NEW w \in Workers, Begin(w) \/ Loop(w) PROVE FALSE
    <3>1. Begin(w)
      BY <2>1, <2>d, <2>i, StepFrom DEF LoopPcs
    <3> QED
      BY <2>i, <3>1 DEF Begin, StartInv, Terminal
  <2>2. ASSUME NEW a \in Approvers, Submit(a) \/ Approval(a) PROVE Still
    <3>1. row.loop = NoLoop /\ row.status # "waiting_approval"
      BY <2>i DEF RowInv, Consistent, Terminal
    <3>2. Approval(a) /\ pc[a] = "submitted"
      BY <2>2, <2>d, <2>i, <3>1, StepFrom DEF Submit, GrantPcs
    <3>3. Load(a)
      BY <3>2
      DEF Approval, GrantDenied, SpendGrant, GrantFails, Supersede, ResumeTool,
          ResumeReset, ResumeCompletion, GateIsGone, Granted
    <3>4. row' = row /\ log' = log /\ pc' = [pc EXCEPT ![a] = "done"]
      BY <3>1, <3>3 DEF Load, Matches, Goto, StoreFails
    <3> QED
      BY <2>i, <3>4 DEF Quiet, Running, TypeOK
  <2>3. ASSUME NEW s \in Stoppers, ReadStop(s) \/ WriteStop(s) PROVE Still
    <3>1. ReadStop(s) /\ ~IsActive(row)
      BY <2>3, <2>d, <2>i DEF WriteStop, IsActive, NotTerminal
    <3>2. row' = row /\ log' = log /\ pc' = [pc EXCEPT ![s] = "done"]
      BY <3>1 DEF ReadStop, Goto
    <3> QED
      BY <2>i, <3>2 DEF Quiet, Running, TypeOK
  <2>4. ASSUME Restart PROVE Still
    <3>1. row' = row
      BY <2>4, <2>i, ReconcileRun DEF Restart, TypeOK
    <3>2. \A t \in Threads : pc'[t] \in {"idle", "done"}
      BY <2>4 DEF Restart
    <3> QED
      BY <2>4, <3>1, <3>2 DEF Restart, Quiet, Running
  <2> QED
    BY <1>1, <2>1, <2>2, <2>3, <2>4 DEF Next
<1>2. IInv /\ [Next]_vars => [Over => Still]_vars
  BY <1>1
<1> QED
  BY <1>2, InductiveInvariant, PTL DEF Spec, TerminalIsFinal

-----------------------------------------------------------------------------
(* SerialSpec: an operator who waits. One thread at a time is at work, the *)
(* run is not over while it is, and what it holds knows every process.     *)

EngagedPcs == LoopPcs \cup GrantPcs \cup {"fail"}

Busy(t) == pc[t] \notin {"idle", "done"}

AloneInv == \A t, u \in Threads : Busy(t) /\ Busy(u) => t = u

OpenInv == \A t \in Threads : Busy(t) => NotTerminal(row)

(* Where the processes of an open run are noted: in the copy of the worker *)
(* that is at work; and in the stored run when nobody is, or when the only *)
(* thing a worker may still do is to give up without storing its copy.     *)
TrackedBy(t) ==
  NotTerminal(row) =>
    /\ pc[t] \in EngagedPcs => alive \subseteq engine[t].processes
    /\ pc[t] \notin EngagedPcs \ {"granted"} => alive \subseteq row.processes

TrackInv ==
  faults = 0 /\ restarts = 0 =>
    /\ pc[Starter] = "idle" => alive = {}
    /\ \A t \in Threads : Busy(t) => TrackedBy(t)
    /\ (\A t \in Threads : ~Busy(t)) /\ NotTerminal(row) => alive \subseteq row.processes

SerialInv == AloneInv /\ OpenInv /\ TrackInv

(* Asking, going on and taking notes leave the list of processes alone.    *)
LEMMA KeepsProcesses ==
  ASSUME NEW run \in Runs
  PROVE  /\ Start(NewRun).processes = {}
         /\ RecordToolCompletion(run).processes = run.processes
         /\ ClearPending(run).processes = run.processes
         /\ \A id : ResolveAndResume(run, id).processes = run.processes
         /\ \A id, loop : WaitForApproval(run, id, loop).processes = run.processes
BY DEF Start, NewRun, RecordToolCompletion, ClearPending, ResolveAndResume, WaitForApproval, Runs

(* A call that runs notes the process it starts in the copy of its thread, *)
(* and strikes out the one it waited for.                                  *)
LEMMA InvokeTracks ==
  ASSUME TypeOK, NEW w \in Workers, cursor[w].next <= Len(cursor[w].calls),
         Invoke(w, cursor[w], engine[w]), alive \subseteq engine[w].processes
  PROVE  alive' \subseteq engine'[w].processes
<1> DEFINE process == <<w, cursor[w].n, cursor[w].next>>
           stepped == RecordToolCompletion(engine[w])
<1>1. cursor[w] \in Cursors /\ engine[w] \in Runs /\ w \in Threads
  BY DEF TypeOK, Threads
<1>2. process \in Processes
  BY <1>1 DEF Processes, Cursors
<1>3. stepped \in Runs /\ stepped.processes = engine[w].processes
  BY <1>1, <1>2, NoteRun, KeepsProcesses
<1>4. /\ TrackActiveProcess(stepped, process).processes = stepped.processes \cup {process}
      /\ \A ended : FinishActiveProcess(stepped, ended).processes = stepped.processes \ {ended}
  BY <1>3 DEF TrackActiveProcess, FinishActiveProcess, Runs
<1>5. \/ /\ alive' = alive \cup {process}
         /\ engine'[w] = TrackActiveProcess(stepped, process)
      \/ \E ended \in engine[w].processes :
           /\ alive' = alive \ {ended}
           /\ engine'[w] = FinishActiveProcess(stepped, ended)
      \/ alive' = alive /\ engine'[w] = stepped
  BY <1>1 DEF Invoke, TypeOK
<1> QED
  BY <1>3, <1>4, <1>5

(* A store call without a fault stores; with one, it leaves the row alone. *)
LEMMA SaveRow ==
  ASSUME TypeOK, NEW w \in Threads, NEW run, NEW next, NEW onError,
         Save(w, run, next, onError)
  PROVE  /\ engine'[w] = run
         /\ \/ row' = run /\ pc'[w] = next /\ faults' = faults
            \/ row' = row /\ pc'[w] = onError /\ faults' # 0 /\ faults' = faults + 1
BY Bounds DEF Save, TypeOK

(* As long as the thread of a step of the loop is at work, the stored run  *)
(* is not over; the step itself does not end a run it goes on with.        *)
LEMMA LoopOpen ==
  ASSUME TypeOK, EngineInv, NEW w \in Workers, Begin(w) \/ Loop(w), NotTerminal(row)
  PROVE  pc'[w] # "done" => NotTerminal(row)'
<1> DEFINE run == engine[w]
<1>t. w \in Threads /\ run \in Runs /\ CopyOK(pc[w], run) /\ "running" \notin Terminal
  BY DEF TypeOK, Threads, EngineInv, Terminal
<1>1. CASE Begin(w)
  BY <1>t, <1>1, SaveRow, StartRun DEF Begin, NotTerminal
<1>2. CASE Respond(w) \/ Retry(w) \/ EndRound(w)
  <2>1. run.status = "running"
    BY <1>t, <1>2 DEF Respond, Retry, EndRound, CopyOK, LoopPcs
  <2>2. row' = row \/ row' = run
    BY <1>t, <1>2, SaveRow DEF Respond, Retry, EndRound
  <2> QED
    BY <1>t, <2>1, <2>2 DEF NotTerminal
<1>3. CASE Recover(w) \/ Nudge(w)
  <2>1. run.status = "running"
    BY <1>t, <1>3 DEF Recover, Nudge, CopyOK, LoopPcs
  <2>2. row' = row \/ row' = ClearPending(run)
    BY <1>t, <1>3, SaveRow DEF Recover, Nudge
  <2>3. ClearPending(run).status = "running"
    BY <1>t, <2>1 DEF ClearPending, Runs
  <2> QED
    BY <1>t, <2>2, <2>3 DEF NotTerminal
<1>4. CASE AskReset(w) \/ AskCompletion(w) \/ AskTool(w) \/ InterruptRun(w)
           \/ CompleteRun(w)
  <2>1. pc'[w] = "done" \/ row' = row
    BY <1>t, <1>4, SaveRow DEF AskReset, AskCompletion, AskTool, InterruptRun, CompleteRun
  <2> QED
    BY <2>1 DEF NotTerminal
<1>5. CASE FailRun(w)
  <2>1. pc'[w] = "done"
    BY <1>t, <1>5, SaveFrame DEF FailRun
  <2> QED
    BY <2>1
<1>6. CASE \/ Check(w) \/ ProviderFails(w) \/ SkipCall(w) \/ DenyCall(w) \/ RunCall(w)
           \/ CallFails(w) \/ AfterCall(w)
  <2>1. row' = row
    BY <1>6
    DEF Check, ProviderFails, SkipCall, DenyCall, RunCall, CallFails, AfterCall, StoreFails
  <2> QED
    BY <2>1 DEF NotTerminal
<1> QED
  BY <1>1, <1>2, <1>3, <1>4, <1>5, <1>6 DEF Loop

(* ... and without faults its copy, or the run it leaves, has the          *)
(* processes.                                                              *)
LEMMA LoopTracks ==
  ASSUME TypeOK, EngineInv, HandsInv, NEW w \in Workers, Begin(w) \/ Loop(w),
         NotTerminal(row), faults' = 0,
         Begin(w) => alive = {}, Loop(w) => alive \subseteq engine[w].processes
  PROVE  /\ pc'[w] # "done" => alive' \subseteq engine'[w].processes
         /\ pc'[w] = "done" /\ NotTerminal(row)' => alive' \subseteq row'.processes
<1> DEFINE run == engine[w]
<1>t. w \in Threads /\ run \in Runs /\ CopyOK(pc[w], run) /\ faults \in Nat
  BY DEF TypeOK, Threads, EngineInv
<1>s. ASSUME NEW new, NEW next, NEW onError, Save(w, new, next, onError)
      PROVE  row' = new /\ engine'[w] = new /\ pc'[w] = next /\ faults = 0
  BY <1>t, <1>s, SaveRow
<1>f. ASSUME NEW next, StoreFails(w, next) PROVE FALSE
  BY <1>t, <1>f DEF StoreFails
<1>1. CASE Begin(w)
  BY <1>s, <1>1 DEF Begin
<1>2. CASE Respond(w) \/ Retry(w) \/ EndRound(w)
  <2>1. engine'[w] = run /\ row' = run /\ alive' = alive /\ Loop(w)
    BY <1>s, <1>2 DEF Respond, Retry, EndRound, Loop
  <2> QED
    BY <2>1
<1>3. CASE Recover(w) \/ Nudge(w)
  <2>1. /\ engine'[w] = ClearPending(run) /\ row' = ClearPending(run)
        /\ alive' = alive /\ Loop(w)
    BY <1>s, <1>3 DEF Recover, Nudge, Loop
  <2> QED
    BY <1>t, <2>1, KeepsProcesses
<1>4. CASE AskReset(w) \/ AskCompletion(w) \/ AskTool(w)
  <2>1. /\ pc'[w] = "done" /\ alive' = alive /\ Loop(w)
        /\ \E id, loop : row' = WaitForApproval(run, id, loop)
    BY <1>s, <1>4 DEF AskReset, AskCompletion, AskTool, Loop
  <2> QED
    BY <1>t, <2>1, KeepsProcesses
<1>5. CASE CompleteRun(w) \/ InterruptRun(w)
  <2>1. pc'[w] = "done" /\ row'.status \in Terminal
    BY <1>s, <1>t, <1>5, EndRun DEF CompleteRun, InterruptRun, Terminal
  <2> QED
    BY <2>1 DEF NotTerminal
<1>6. CASE FailRun(w)
  <2>1. faults = 0 /\ alive' = alive
    BY <1>s, <1>6 DEF FailRun
  <2>2. NotTerminal(run)
    BY <1>6, <2>1 DEF FailRun, HandsInv
  <2>3. row' = Fail(run) /\ pc'[w] = "done"
    BY <1>s, <1>6, <2>2 DEF FailRun
  <2>4. row'.status \in Terminal
    BY <1>t, <2>3, EndRun DEF Terminal
  <2> QED
    BY <2>3, <2>4 DEF NotTerminal
<1>7. CASE ProviderFails(w) \/ SkipCall(w) \/ DenyCall(w) \/ CallFails(w)
  <2>1. /\ pc'[w] = pc[w] \/ pc'[w] \in {"after", "fail"}
        /\ engine'[w] = run \/ engine'[w] = RecordToolCompletion(run)
        /\ alive' = alive /\ Loop(w) /\ pc[w] # "done"
    BY <1>t, <1>7
    DEF ProviderFails, SkipCall, DenyCall, CallFails, AtCall, Goto, Loop, TypeOK
  <2> QED
    BY <1>t, <2>1, KeepsProcesses
<1>8. CASE RunCall(w)
  <2>1. pc'[w] = "after" /\ Loop(w) /\ cursor[w].next <= Len(cursor[w].calls)
    BY <1>t, <1>8 DEF RunCall, AtCall, Goto, Loop, TypeOK
  <2> QED
    BY <1>8, <2>1, InvokeTracks DEF RunCall
<1>9. CASE Check(w) \/ AfterCall(w)
  <2>1. /\ row' = row /\ engine' = engine /\ alive' = alive /\ Loop(w)
        /\ pc'[w] # "done" \/ row.status = "cancelled"
    BY <1>t, <1>f, <1>9 DEF Check, AfterCall, Goto, Loop, TypeOK
  <2> QED
    BY <2>1 DEF NotTerminal, Terminal
<1> QED
  BY <1>1, <1>2, <1>3, <1>4, <1>5, <1>6, <1>7, <1>8, <1>9 DEF Loop

(* The same of an approval: it goes on with an open run ...                *)
LEMMA ApprovalOpen ==
  ASSUME TypeOK, EngineInv, NEW a \in Approvers, Submit(a) \/ Approval(a), NotTerminal(row)
  PROVE  pc'[a] # "done" => NotTerminal(row)'
<1> DEFINE run == engine[a]
<1>t. /\ a \in Threads /\ run \in Runs /\ CopyOK(pc[a], run) /\ "running" \notin Terminal
  BY DEF TypeOK, Threads, Workers, EngineInv, Terminal
<1>1. CASE ResumeTool(a) \/ ResumeReset(a) \/ ResumeCompletion(a)
  <2>1. run.status = "running"
    BY <1>t, <1>1 DEF ResumeTool, ResumeReset, ResumeCompletion, Granted, CopyOK, GrantPcs
  <2>2. row' = row \/ row' = ClearPending(run)
    BY <1>t, <1>1, SaveRow DEF ResumeTool, ResumeReset, ResumeCompletion
  <2>3. ClearPending(run).status = "running"
    BY <1>t, <2>1 DEF ClearPending, Runs
  <2> QED
    BY <1>t, <2>2, <2>3 DEF NotTerminal
<1>2. CASE GrantDenied(a) \/ GrantFails(a) \/ Supersede(a) \/ GateIsGone(a)
  BY <1>2, ApprovalPlace
<1>3. CASE Submit(a) \/ Load(a) \/ SpendGrant(a)
  <2>1. row' = row
    BY <1>3 DEF Submit, Load, SpendGrant, StoreFails
  <2> QED
    BY <2>1 DEF NotTerminal
<1> QED
  BY <1>1, <1>2, <1>3 DEF Approval

(* ... and gives up only where the stored run still has every process.     *)
LEMMA ApprovalTracks ==
  ASSUME TypeOK, ClaimInv, NEW a \in Approvers, Submit(a) \/ Approval(a), faults' = 0,
         pc[a] \in GrantPcs => alive \subseteq engine[a].processes,
         pc[a] \in {"idle", "submitted", "granted"} => alive \subseteq row.processes
  PROVE  NotTerminal(row)' =>
           /\ pc'[a] \in EngagedPcs => alive' \subseteq engine'[a].processes
           /\ pc'[a] \in {"submitted", "granted", "done"} => alive' \subseteq row'.processes
<1> DEFINE run == engine[a]
<1>t. /\ a \in Threads /\ a \in Workers /\ run \in Runs /\ row \in Runs /\ faults \in Nat
  BY DEF TypeOK, Threads, Workers
<1>s. ASSUME NEW new, NEW next, NEW onError, Save(a, new, next, onError)
      PROVE  row' = new /\ engine'[a] = new /\ pc'[a] = next
  BY <1>t, <1>s, SaveRow
<1>f. ASSUME NEW next, StoreFails(a, next) PROVE FALSE
  BY <1>t, <1>f DEF StoreFails
<1>1. CASE Submit(a)
  <2>1. pc'[a] = "submitted" /\ pc[a] = "idle" /\ row' = row /\ alive' = alive
    BY <1>1, ApprovalPlace DEF Submit
  <2> QED
    BY <2>1 DEF EngagedPcs, LoopPcs, GrantPcs
<1>2. CASE Load(a)
  <2>1. pc[a] = "submitted" /\ row' = row /\ alive' = alive
    BY <1>f, <1>2 DEF Load
  <2>2. \/ pc'[a] = "done"
        \/ pc'[a] = "granted" /\ engine'[a] = ResolveAndResume(row, row.loop.id)
    BY <1>t, <1>f, <1>2 DEF Load, Goto, TypeOK
  <2> QED
    BY <1>t, <2>1, <2>2, KeepsProcesses DEF EngagedPcs, LoopPcs, GrantPcs
<1>3. CASE GrantDenied(a) \/ Supersede(a)
  <2>1. row' = Fail(run) \/ row' = Interrupt(run)
    BY <1>s, <1>3 DEF GrantDenied, Supersede
  <2>2. row'.status \in Terminal
    BY <1>t, <2>1, EndRun DEF Terminal
  <2> QED
    BY <2>2 DEF NotTerminal
<1>4. CASE SpendGrant(a)
  <2>1. cursor[a].next <= Len(cursor[a].calls)
    BY <1>4 DEF SpendGrant, Granted, ClaimInv, ClaimOK, AsksFor
  <2>2. pc[a] \in GrantPcs /\ Invoke(a, cursor[a], engine[a])
    BY <1>4 DEF SpendGrant, Granted, GrantPcs
  <2>3. alive' \subseteq engine'[a].processes
    BY <1>t, <2>1, <2>2, InvokeTracks
  <2>4. pc'[a] \in {"spent", "superseded"}
    BY <1>4, ApprovalPlace
  <2> QED
    BY <2>3, <2>4
<1>5. CASE GrantFails(a) \/ GateIsGone(a)
  <2>1. /\ pc'[a] = "done" /\ pc[a] = "granted" /\ row' = row /\ alive' = alive
    BY <1>5, ApprovalPlace DEF GrantFails, GateIsGone, Granted
  <2> QED
    BY <2>1 DEF EngagedPcs, LoopPcs, GrantPcs
<1>6. CASE ResumeTool(a) \/ ResumeReset(a) \/ ResumeCompletion(a)
  <2>1. pc[a] \in GrantPcs /\ alive' = alive
    BY <1>6 DEF ResumeTool, ResumeReset, ResumeCompletion, Granted, GrantPcs
  <2>2. row' = ClearPending(run) /\ engine'[a] = ClearPending(run)
    BY <1>s, <1>6 DEF ResumeTool, ResumeReset, ResumeCompletion
  <2> QED
    BY <1>t, <2>1, <2>2, KeepsProcesses
<1> QED
  BY <1>1, <1>2, <1>3, <1>4, <1>5, <1>6 DEF Approval

(* A step of another thread: who waited for the moment finds nobody else   *)
(* at work, and who is at work is alone.                                   *)
Alone(t) == \A u \in Threads \ {t} : ~Busy(u)

(* The three parts of the invariant after a step of the thread t.          *)
LEMMA SerialParts ==
  ASSUME NEW t \in Threads, Alone(t),
         \A u \in Threads \ {t} : pc'[u] = pc[u],
         Busy(t)' => NotTerminal(row)',
         faults' = 0 /\ restarts' = 0 =>
           /\ (pc[Starter] = "idle")' => (alive = {})'
           /\ TrackedBy(t)'
  PROVE  SerialInv'
<1>1. \A u \in Threads \ {t} : ~Busy(u)'
  BY DEF Alone, Busy
<1>2. AloneInv' /\ OpenInv'
  BY <1>1 DEF AloneInv, OpenInv
<1>3. ASSUME faults' = 0, restarts' = 0 PROVE TrackInv'
  <2>1. \A u \in Threads : Busy(u)' => TrackedBy(u)'
    BY <1>1, <1>3
  <2>2. ~Busy(t)' /\ NotTerminal(row)' => (alive \subseteq row.processes)'
    BY <1>3 DEF TrackedBy, Busy, EngagedPcs, LoopPcs, GrantPcs
  <2> QED
    BY <1>3, <2>1, <2>2 DEF TrackInv
<1> QED
  BY <1>2, <1>3 DEF SerialInv, TrackInv

(* Who takes a step of the loop, of an approval under way or of a stop     *)
(* under way is alone, and the run is open.                                *)
LEMMA AtWork ==
  ASSUME PlaceInv, StartInv, AloneInv, OpenInv
  PROVE  /\ \A w \in Workers : Begin(w) \/ Loop(w) => Alone(w) /\ NotTerminal(row)
         /\ \A a \in Approvers : Approval(a) => Alone(a) /\ NotTerminal(row)
         /\ \A s \in Stoppers : WriteStop(s) => Alone(s) /\ NotTerminal(row)
         /\ AtRest => \A t \in Threads : ~Busy(t)
<1>d. /\ \A w \in Workers : w \in Threads
      /\ \A a \in Approvers : a \in Threads
      /\ \A s \in Stoppers : s \in Threads
  BY DEF Threads, Workers
<1>b. ASSUME NEW t \in Threads, Busy(t) PROVE Alone(t) /\ NotTerminal(row)
  BY <1>b DEF Alone, AloneInv, OpenInv
<1>1. ASSUME NEW w \in Workers, Begin(w) PROVE Alone(w) /\ NotTerminal(row)
  <2>1. row.status = "queued" /\ \A t \in Threads : pc[t] \in {"idle", "done"}
    BY <1>1 DEF Begin, StartInv
  <2> QED
    BY <2>1 DEF Alone, Busy, NotTerminal, Terminal
<1>2. ASSUME NEW w \in Workers, Loop(w) PROVE Alone(w) /\ NotTerminal(row)
  BY <1>2, <1>b, <1>d, StepFrom DEF Busy, LoopPcs
<1>3. ASSUME NEW a \in Approvers, Approval(a) PROVE Alone(a) /\ NotTerminal(row)
  BY <1>3, <1>b, <1>d, StepFrom DEF Busy, GrantPcs
<1>4. ASSUME NEW s \in Stoppers, WriteStop(s) PROVE Alone(s) /\ NotTerminal(row)
  BY <1>4, <1>b, <1>d DEF Busy, WriteStop
<1>5. ASSUME AtRest, NEW t \in Threads PROVE ~Busy(t)
  <2>1. pc[t] \in {"idle", "submitted", "done"}
    BY <1>5 DEF AtRest, Quiet, Running
  <2>2. pc[t] # "submitted"
    BY <1>5 DEF AtRest, PlaceInv, Threads, Workers
  <2> QED
    BY <2>1, <2>2 DEF Busy
<1> QED
  BY <1>1, <1>2, <1>3, <1>4, <1>5

(* A step of the chat turn or of a resumed loop.                           *)
LEMMA SerialLoop ==
  ASSUME IInv, SerialInv, NEW w \in Workers, Begin(w) \/ Loop(w)
  PROVE  SerialInv'
<1>i. /\ TypeOK /\ EngineInv /\ HandsInv /\ PlaceInv /\ StartInv
      /\ AloneInv /\ OpenInv /\ TrackInv
  BY DEF IInv, WorkersInv, SerialInv
<1>d. w \in Threads /\ Starter \in Threads /\ Starter \in Workers
      /\ faults \in Nat /\ restarts \in Nat
  BY DEF Threads, Workers, TypeOK, IInv
<1>1. Alone(w) /\ NotTerminal(row)
  BY <1>i, AtWork
<1>2. \A u \in Threads \ {w} : pc'[u] = pc[u]
  BY <1>i, LoopFrame DEF Frame
<1>3. pc'[w] \in LoopPcs \cup {"fail", "done"}
  BY <1>i, LoopPlace
<1>4. Busy(w)' => NotTerminal(row)'
  BY <1>1, <1>i, LoopOpen DEF Busy
<1>5. ASSUME faults' = 0, restarts' = 0
      PROVE  ((pc[Starter] = "idle")' => (alive = {})') /\ TrackedBy(w)'
  <2>1. faults = 0 /\ restarts = 0
    <3>1. CASE \/ Begin(w) \/ AskReset(w) \/ Respond(w) \/ Retry(w) \/ Recover(w)
               \/ CompleteRun(w) \/ Nudge(w) \/ AskCompletion(w) \/ AskTool(w)
               \/ InterruptRun(w) \/ EndRound(w)
      <4>1. \E run, next, onError : Save(w, run, next, onError)
        BY <3>1
        DEF Begin, AskReset, Respond, Retry, Recover, CompleteRun, Nudge, AskCompletion,
            AskTool, InterruptRun, EndRound
      <4>2. faults = 0
        BY <1>d, <1>5, <1>i, <4>1, SaveRow
      <4>3. restarts' = restarts
        BY <3>1
        DEF Begin, AskReset, Respond, Retry, Recover, CompleteRun, Nudge, AskCompletion,
            AskTool, InterruptRun, EndRound
      <4> QED
        BY <1>5, <4>2, <4>3
    <3>2. CASE FailRun(w)
      <4>1. restarts' = restarts
        BY <3>2 DEF FailRun
      <4>2. faults' = faults \/ faults' = faults + 1
        BY <3>2 DEF FailRun, Save
      <4> QED
        BY <1>d, <1>5, <4>1, <4>2
    <3>3. CASE Check(w) \/ AfterCall(w)
      <4>1. restarts' = restarts
        BY <3>3 DEF Check, AfterCall
      <4>2. faults' = faults \/ faults' = faults + 1
        BY <3>3 DEF Check, AfterCall, StoreFails
      <4> QED
        BY <1>d, <1>5, <4>1, <4>2
    <3>4. CASE ProviderFails(w) \/ SkipCall(w) \/ DenyCall(w) \/ RunCall(w) \/ CallFails(w)
      BY <1>5, <3>4 DEF ProviderFails, SkipCall, DenyCall, RunCall, CallFails, history
    <3> QED
      BY <3>1, <3>2, <3>3, <3>4 DEF Loop
  <2>2. Begin(w) => alive = {}
    BY <1>i, <2>1 DEF TrackInv, Begin
  <2>3. ASSUME Loop(w) PROVE alive \subseteq engine[w].processes
    <3>1. pc[w] \in LoopPcs \cup {"fail"}
      BY <2>3, StepFrom
    <3>2. Busy(w) /\ pc[w] \in EngagedPcs
      BY <3>1 DEF Busy, EngagedPcs, LoopPcs
    <3> QED
      BY <1>1, <1>d, <1>i, <2>1, <3>2 DEF TrackInv, TrackedBy
  <2>4. /\ pc'[w] # "done" => alive' \subseteq engine'[w].processes
        /\ pc'[w] = "done" /\ NotTerminal(row)' => alive' \subseteq row'.processes
    BY <1>1, <1>5, <1>i, <2>2, <2>3, LoopTracks
  <2>5. TrackedBy(w)'
    BY <1>3, <2>4 DEF TrackedBy, EngagedPcs, LoopPcs, GrantPcs
  <2>6. pc'[Starter] # "idle"
    <3>1. CASE w = Starter
      BY <1>3, <3>1 DEF LoopPcs
    <3>2. CASE w # Starter
      <4>1. pc[w] \in LoopPcs \cup {"fail"}
        BY <3>2, StepFrom DEF Begin
      <4>2. pc[Starter] # "idle"
        BY <1>d, <1>i, <4>1 DEF StartInv, LoopPcs
      <4> QED
        BY <1>2, <1>d, <3>2, <4>2
    <3> QED
      BY <3>1, <3>2
  <2> QED
    BY <2>5, <2>6
<1> QED
  BY <1>1, <1>2, <1>4, <1>5, <1>d, SerialParts

(* A step of an approval, begun when nobody was at work.                   *)
LEMMA SerialApproval ==
  ASSUME IInv, SerialInv, NEW a \in Approvers, (AtRest /\ Submit(a)) \/ Approval(a)
  PROVE  SerialInv'
<1>i. /\ TypeOK /\ EngineInv /\ ClaimInv /\ PlaceInv /\ StartInv /\ RowInv
      /\ AloneInv /\ OpenInv /\ TrackInv
  BY DEF IInv, WorkersInv, SerialInv
<1>d. /\ a \in Threads /\ a # Starter /\ Starter \in Threads
      /\ faults \in Nat /\ restarts \in Nat
  BY ControlAssumption DEF Threads, Workers, TypeOK, IInv
<1>1. Alone(a) /\ NotTerminal(row)
  <2>1. CASE AtRest /\ Submit(a)
    <3>1. row.status = "waiting_approval" /\ \A t \in Threads : ~Busy(t)
      BY <1>i, <2>1, AtWork DEF Submit
    <3> QED
      BY <3>1 DEF Alone, NotTerminal, Terminal
  <2>2. CASE Approval(a)
    BY <1>i, <2>2, AtWork
  <2> QED
    BY <2>1, <2>2
<1>2. \A u \in Threads \ {a} : pc'[u] = pc[u]
  BY <1>i, ApprovalFrame DEF Frame
<1>3. pc'[a] \in {"submitted", "granted", "done", "spent", "superseded", "check"}
  BY <1>i, ApprovalPlace DEF Approval
<1>4. Busy(a)' => NotTerminal(row)'
  BY <1>1, <1>i, ApprovalOpen DEF Busy
<1>5. pc'[Starter] # "idle"
  <2>1. CASE Submit(a)
    <3>1. pc[Starter] # "idle"
      BY <1>i, <2>1 DEF Submit, StartInv
    <3> QED
      BY <1>2, <1>d, <3>1
  <2>2. CASE Approval(a)
    <3>1. pc[a] \notin {"idle", "done"}
      BY <2>2, StepFrom DEF GrantPcs
    <3>2. pc[Starter] # "idle"
      BY <1>d, <1>i, <3>1 DEF StartInv
    <3> QED
      BY <1>2, <1>d, <3>2
  <2> QED
    BY <2>1, <2>2
<1>6. ASSUME faults' = 0, restarts' = 0 PROVE TrackedBy(a)'
  <2>1. faults = 0 /\ restarts = 0
    <3>1. faults' = faults \/ faults' = faults + 1
      BY DEF Submit, Approval, Load, GrantDenied, SpendGrant, GrantFails, Supersede,
             ResumeTool, ResumeReset, ResumeCompletion, GateIsGone, Save, StoreFails, history
    <3>2. restarts' = restarts
      BY DEF Submit, Approval, Load, GrantDenied, SpendGrant, GrantFails, Supersede,
             ResumeTool, ResumeReset, ResumeCompletion, GateIsGone, history
    <3> QED
      BY <1>6, <1>d, <3>1, <3>2
  <2>2. ASSUME pc[a] \in GrantPcs PROVE alive \subseteq engine[a].processes
    <3>1. Busy(a) /\ pc[a] \in EngagedPcs
      BY <2>2 DEF Busy, EngagedPcs, GrantPcs
    <3> QED
      BY <1>1, <1>d, <1>i, <2>1, <3>1 DEF TrackInv, TrackedBy
  <2>3. ASSUME pc[a] \in {"idle", "submitted", "granted"}
        PROVE  alive \subseteq row.processes
    <3>1. CASE Busy(a)
      <4>1. pc[a] \notin EngagedPcs \ {"granted"}
        BY <2>3 DEF EngagedPcs, LoopPcs, GrantPcs
      <4> QED
        BY <1>1, <1>d, <1>i, <2>1, <3>1, <4>1 DEF TrackInv, TrackedBy
    <3>2. CASE ~Busy(a)
      <4>1. \A t \in Threads : ~Busy(t)
        BY <1>1, <3>2 DEF Alone
      <4> QED
        BY <1>1, <1>i, <2>1, <4>1 DEF TrackInv
    <3> QED
      BY <3>1, <3>2
  <2>4. NotTerminal(row)' =>
          /\ pc'[a] \in EngagedPcs => alive' \subseteq engine'[a].processes
          /\ pc'[a] \in {"submitted", "granted", "done"} => alive' \subseteq row'.processes
    BY <1>6, <1>i, <2>2, <2>3, ApprovalTracks
  <2>5. pc'[a] \notin EngagedPcs \ {"granted"} =>
          pc'[a] \in {"submitted", "granted", "done"}
    BY <1>3 DEF EngagedPcs, LoopPcs, GrantPcs
  <2> QED
    BY <2>4, <2>5 DEF TrackedBy
<1> QED
  BY <1>1, <1>2, <1>4, <1>5, <1>6, <1>d, SerialParts

(* A stop takes the processes the stored run lists, and then ends the run. *)
LEMMA SerialStop ==
  ASSUME IInv, SerialInv, NEW s \in Stoppers, (AtRest /\ ReadStop(s)) \/ WriteStop(s)
  PROVE  SerialInv'
<1>i. /\ TypeOK /\ PlaceInv /\ StartInv /\ AloneInv /\ OpenInv /\ TrackInv
  BY DEF IInv, SerialInv
<1>d. /\ s \in Threads /\ s # Starter /\ Starter \in Threads /\ engine[s] \in Runs
      /\ faults \in Nat /\ restarts \in Nat
  BY ControlAssumption DEF Threads, Workers, TypeOK, IInv
<1>1. CASE AtRest /\ ReadStop(s)
  <2>1. \A t \in Threads : ~Busy(t)
    BY <1>1, <1>i, AtWork
  <2>2. /\ pc' = [pc EXCEPT ![s] = "stopping"] \/ pc' = [pc EXCEPT ![s] = "done"]
        /\ row' = row /\ alive' \subseteq alive /\ faults' = faults /\ restarts' = restarts
        /\ pc' = [pc EXCEPT ![s] = "done"] \/ IsActive(row)
    BY <1>1 DEF ReadStop, Goto, history
  <2>3. /\ \A u \in Threads \ {s} : pc'[u] = pc[u]
        /\ pc'[s] = "done" \/ (pc'[s] = "stopping" /\ IsActive(row))
    BY <1>d, <2>2 DEF TypeOK, IInv
  <2>4. Busy(s)' => NotTerminal(row)'
    BY <2>2, <2>3 DEF Busy, IsActive, NotTerminal
  <2>5. ASSUME faults' = 0, restarts' = 0
        PROVE  ((pc[Starter] = "idle")' => (alive = {})') /\ TrackedBy(s)'
    <3>1. /\ pc[Starter] = "idle" => alive = {}
          /\ NotTerminal(row) => alive \subseteq row.processes
      BY <1>i, <2>1, <2>2, <2>5 DEF TrackInv
    <3>2. pc'[s] \notin EngagedPcs
      BY <2>3 DEF EngagedPcs, LoopPcs, GrantPcs
    <3>3. TrackedBy(s)'
      BY <2>2, <3>1, <3>2 DEF TrackedBy, NotTerminal
    <3>4. (pc[Starter] = "idle")' => (alive = {})'
      BY <1>d, <2>2, <2>3, <3>1
    <3> QED
      BY <3>3, <3>4
  <2> QED
    BY <1>d, <2>1, <2>3, <2>4, <2>5, SerialParts DEF Alone
<1>2. CASE WriteStop(s)
  <2>1. Alone(s) /\ pc[s] = "stopping" /\ restarts' = restarts /\ alive' = alive
    BY <1>2, <1>i, AtWork DEF WriteStop
  <2>2. /\ \A u \in Threads \ {s} : pc'[u] = pc[u]
        /\ pc'[s] = "done"
        /\ row' = Cancel(engine[s]) \/ faults' # 0
    BY <1>2, <1>d, <1>i, SaveFrame, SaveRow DEF WriteStop
  <2>3. ~Busy(s)'
    BY <2>2 DEF Busy
  <2>4. pc'[Starter] # "idle"
    BY <1>d, <1>i, <2>1, <2>2 DEF StartInv
  <2>5. faults' = 0 => ~NotTerminal(row)'
    BY <1>d, <2>2, EndRun DEF NotTerminal, Terminal
  <2>6. faults' = 0 => TrackedBy(s)'
    BY <2>5 DEF TrackedBy
  <2> QED
    BY <1>d, <2>1, <2>2, <2>3, <2>4, <2>6, SerialParts
<1> QED
  BY <1>1, <1>2

(* After a restart nobody is at work.                                      *)
LEMMA SerialRestart ==
  ASSUME IInv, Restart
  PROVE  SerialInv'
<1>1. \A t \in Threads : ~Busy(t)'
  BY DEF Restart, Busy
<1>2. restarts' # 0
  BY DEF Restart, IInv, TypeOK
<1> QED
  BY <1>1, <1>2 DEF SerialInv, AloneInv, OpenInv, TrackInv

(* Every step of the patient operator's system is one of the system, so    *)
(* all that holds for any operator holds for this one; and it keeps the    *)
(* invariant.                                                              *)
LEMMA SerialStep ==
  ASSUME IInv, SerialInv, SerialNext
  PROVE  IInv' /\ SerialInv'
<1>1. Next
  BY DEF SerialNext, Next
<1> QED
  BY <1>1, StepInvariant, SerialLoop, SerialApproval, SerialStop, SerialRestart DEF SerialNext

(* With an operator who acts only when nothing is under way, one thread at *)
(* a time is at work, on a run that is not over, and it knows every        *)
(* process that was started and not waited for.                            *)
THEOREM SerialInvariant == SerialSpec => [](IInv /\ SerialInv)
<1>1. Init => IInv /\ SerialInv
  <2>1. Init => AloneInv /\ OpenInv /\ TrackInv
    BY DEF Init, AloneInv, OpenInv, TrackInv, Busy, Threads
  <2> QED
    BY <2>1, InitInvariant DEF SerialInv
<1>2. IInv /\ SerialInv /\ [SerialNext]_vars => (IInv /\ SerialInv)'
  <2>1. ASSUME IInv, SerialInv, UNCHANGED vars PROVE IInv' /\ SerialInv'
    <3>1. /\ row' = row /\ engine' = engine /\ pc' = pc /\ alive' = alive
          /\ faults' = faults /\ restarts' = restarts
      BY <2>1 DEF vars
    <3>2. SerialInv'
      BY <2>1, <3>1
      DEF SerialInv, AloneInv, OpenInv, TrackInv, TrackedBy, Busy, NotTerminal
    <3> QED
      BY <2>1, <3>2, StutterInvariant
  <2> QED
    BY <2>1, SerialStep
<1> QED
  BY <1>1, <1>2, PTL DEF SerialSpec

(* While nobody acts at the same time as a turn, no process of an open run *)
(* is lost: a stop that reads the stored run, or the thread that will      *)
(* store its copy, knows it.                                               *)
THEOREM NoProcessIsLost == SerialSpec => []ProcessesAreTracked
<1>1. ASSUME IInv, SerialInv PROVE ProcessesAreTracked
  <2>1. SUFFICES ASSUME faults = 0, restarts = 0, NotTerminal(row)
                 PROVE  alive \subseteq row.processes \cup
                          UNION {engine[t].processes : t \in {u \in Threads : Running(u)}}
    BY DEF ProcessesAreTracked
  <2>i. TrackInv /\ PlaceInv
    BY <1>1 DEF SerialInv, IInv
  <2>2. CASE \A t \in Threads : ~Busy(t)
    BY <2>1, <2>2, <2>i DEF TrackInv
  <2>3. CASE \E t \in Threads : Busy(t)
    <3>1. PICK t \in Threads : Busy(t)
      BY <2>3
    <3>2. TrackedBy(t)
      BY <2>1, <2>i, <3>1 DEF TrackInv
    <3>3. CASE pc[t] \in EngagedPcs
      <4>1. Running(t)
        BY <3>3 DEF Running, EngagedPcs, LoopPcs, GrantPcs
      <4>2. alive \subseteq engine[t].processes
        BY <2>1, <3>2, <3>3 DEF TrackedBy
      <4> QED
        BY <4>1, <4>2
    <3>4. CASE pc[t] \notin EngagedPcs
      BY <2>1, <3>2, <3>4 DEF TrackedBy
    <3> QED
      BY <3>3, <3>4
  <2> QED
    BY <2>2, <2>3
<1> QED
  BY <1>1, SerialInvariant, PTL

(* And a run that is over stays as it is, whatever happens to a turn, an   *)
(* approval or a stop before: no copy outlives it.                         *)
THEOREM SerialRunsEndOnce == SerialSpec => [][~NotTerminal(row) => row' = row]_vars
<1>1. ASSUME IInv, SerialInv, SerialNext, ~NotTerminal(row) PROVE row' = row
  <2>i. /\ TypeOK /\ PlaceInv /\ StartInv /\ AloneInv /\ OpenInv
    BY <1>1 DEF IInv, SerialInv
  <2>1. ASSUME NEW w \in Workers, Begin(w) \/ Loop(w) PROVE FALSE
    BY <1>1, <2>1, <2>i, AtWork
  <2>2. ASSUME NEW a \in Approvers, (AtRest /\ Submit(a)) \/ Approval(a) PROVE row' = row
    BY <1>1, <2>2, <2>i, AtWork DEF Submit
  <2>3. ASSUME NEW s \in Stoppers, (AtRest /\ ReadStop(s)) \/ WriteStop(s) PROVE row' = row
    BY <1>1, <2>3, <2>i, AtWork DEF ReadStop
  <2>4. ASSUME Restart PROVE row' = row
    BY <1>1, <2>4, <2>i, ReconcileRun DEF Restart, TypeOK, NotTerminal
  <2> QED
    BY <1>1, <2>1, <2>2, <2>3, <2>4 DEF SerialNext
<1>2. IInv /\ SerialInv /\ [SerialNext]_vars =>
        [~NotTerminal(row) => row' = row]_vars
  BY <1>1
<1> QED
  BY <1>2, SerialInvariant, PTL DEF SerialSpec

-----------------------------------------------------------------------------
(* The refinement: under an operator who waits, the stored run lives the   *)
(* life of RunLife. Where the thread at work is says how the run is stored.*)

RowFits(at, run) ==
  /\ at \in LoopPcs \cup {"fail"} => run.status = "running"
  /\ at \in GrantPcs \cup {"submitted"} => run.status = "waiting_approval"
  /\ at = "stopping" => run.status \in {"running", "waiting_approval"}

LifeInv ==
  /\ row.status \in {"queued", "running", "waiting_approval"} \cup Terminal
  /\ pc[Starter] = "idle" => row = NewRun
  /\ \A t \in Threads : RowFits(pc[t], row)

(* What a step of the thread t, which is at one of these places while it   *)
(* is at work, may do to the stored run.                                   *)
Worked(t, places) ==
  /\ row'.status = "running" /\ row'.approvals = {}
  /\ pc'[t] \in places /\ faults' = faults
Paused(t, places) ==
  row' = row /\ pc'[t] \in places /\ faults' \in {faults, faults + 1}
Ended(t) ==
  row'.status \in Terminal /\ pc'[t] = "done" /\ faults' = faults
Asked(t) ==
  row'.status = "waiting_approval" /\ pc'[t] = "done" /\ faults' = faults
Left(t) ==
  /\ row' = row /\ pc'[t] = "done" /\ faults' \in {faults, faults + 1}
  /\ row.status = "waiting_approval" \/ faults' > 0

(* A step of the loop.                                                     *)
LEMMA LoopLife ==
  ASSUME TypeOK, EngineInv, HandsInv, LifeInv, NEW w \in Workers, Loop(w)
  PROVE  \/ Worked(w, LoopPcs \cup {"fail"}) \/ Paused(w, LoopPcs \cup {"fail"})
         \/ Ended(w) \/ Asked(w) \/ Left(w)
<1> DEFINE run == engine[w]
           Places == LoopPcs \cup {"fail"}
<1>t. /\ w \in Threads /\ run \in Runs /\ CopyOK(pc[w], run) /\ faults \in Nat
      /\ faults + 1 > 0
  BY DEF TypeOK, Threads, EngineInv
<1>s. ASSUME NEW new, NEW next, NEW onError, Save(w, new, next, onError)
      PROVE  \/ row' = new /\ pc'[w] = next /\ faults' = faults
             \/ row' = row /\ pc'[w] = onError /\ faults' = faults + 1
  BY <1>t, <1>s, SaveRow
<1>r. /\ ClearPending(run).status = run.status
      /\ ClearPending(run).approvals = run.approvals
  BY <1>t DEF ClearPending, Runs
<1>1. CASE Respond(w) \/ Retry(w) \/ Recover(w) \/ Nudge(w) \/ EndRound(w)
  <2>1. run.status = "running" /\ run.approvals = {}
    BY <1>t, <1>1 DEF Respond, Retry, Recover, Nudge, EndRound, CopyOK, LoopPcs
  <2>2. \/ /\ row' \in {run, ClearPending(run)}
           /\ pc'[w] \in {"answer", "tools", "request", "check"} /\ faults' = faults
        \/ row' = row /\ pc'[w] = "fail" /\ faults' = faults + 1
    BY <1>s, <1>1 DEF Respond, Retry, Recover, Nudge, EndRound
  <2> QED
    BY <1>r, <2>1, <2>2 DEF Worked, Paused, LoopPcs
<1>2. CASE AskReset(w) \/ AskCompletion(w) \/ AskTool(w)
  <2>1. \/ /\ \E id, loop : row' = WaitForApproval(run, id, loop)
           /\ pc'[w] = "done" /\ faults' = faults
        \/ row' = row /\ pc'[w] = "fail" /\ faults' = faults + 1
    BY <1>s, <1>2 DEF AskReset, AskCompletion, AskTool
  <2>2. \A id, loop : WaitForApproval(run, id, loop).status = "waiting_approval"
    BY <1>t DEF WaitForApproval, Runs
  <2> QED
    BY <2>1, <2>2 DEF Asked, Paused
<1>3. CASE CompleteRun(w)
  <2>1. \/ row' = Complete(run) /\ pc'[w] = "done" /\ faults' = faults
        \/ row' = row /\ pc'[w] = "done" /\ faults' = faults + 1
    BY <1>s, <1>3 DEF CompleteRun
  <2> QED
    BY <1>t, <2>1, EndRun DEF Ended, Left, Terminal
<1>4. CASE InterruptRun(w)
  <2>1. \/ row' = Interrupt(run) /\ pc'[w] = "done" /\ faults' = faults
        \/ row' = row /\ pc'[w] = "fail" /\ faults' = faults + 1
    BY <1>s, <1>4 DEF InterruptRun
  <2> QED
    BY <1>t, <2>1, EndRun DEF Ended, Paused, Terminal
<1>5. CASE FailRun(w)
  <2>1. CASE NotTerminal(run)
    <3>1. \/ row' = Fail(run) /\ pc'[w] = "done" /\ faults' = faults
          \/ row' = row /\ pc'[w] = "done" /\ faults' = faults + 1
      BY <1>s, <1>5, <2>1 DEF FailRun
    <3> QED
      BY <1>t, <3>1, EndRun DEF Ended, Left, Terminal
  <2>2. CASE ~NotTerminal(run)
    <3>1. row' = row /\ faults' = faults /\ pc'[w] = "done"
      BY <1>t, <1>5, <2>2 DEF FailRun, Goto, TypeOK
    <3>2. faults # 0
      BY <1>5, <2>2 DEF FailRun, HandsInv
    <3> QED
      BY <1>t, <3>1, <3>2 DEF Left
  <2> QED
    BY <2>1, <2>2
<1>6. CASE ProviderFails(w) \/ SkipCall(w) \/ DenyCall(w) \/ RunCall(w) \/ CallFails(w)
  <2>1. row' = row /\ faults' = faults /\ pc'[w] \in {"tools", "after", "fail"}
    BY <1>t, <1>6
    DEF ProviderFails, SkipCall, DenyCall, RunCall, CallFails, AtCall, Goto, TypeOK, history
  <2> QED
    BY <2>1 DEF Paused, LoopPcs
<1>7. CASE Check(w) \/ AfterCall(w)
  <2>1. row.status = "running"
    BY <1>t, <1>7 DEF Check, AfterCall, LifeInv, RowFits, LoopPcs
  <2>2. /\ row' = row /\ faults' \in {faults, faults + 1}
        /\ pc'[w] \in {"request", "reset", "tools", "interrupt", "fail"}
    BY <1>t, <1>7, <2>1 DEF Check, AfterCall, Goto, StoreFails, TypeOK
  <2> QED
    BY <2>2 DEF Paused, LoopPcs
<1> QED
  BY <1>1, <1>2, <1>3, <1>4, <1>5, <1>6, <1>7 DEF Loop

(* A step of an approval.                                                  *)
LEMMA ApprovalLife ==
  ASSUME TypeOK, EngineInv, LifeInv, NEW a \in Approvers, Approval(a)
  PROVE  \/ Worked(a, {"check"}) \/ Paused(a, GrantPcs)
         \/ Ended(a) \/ Left(a)
<1> DEFINE run == engine[a]
<1>t. /\ a \in Threads /\ a \in Workers /\ run \in Runs /\ CopyOK(pc[a], run)
      /\ faults \in Nat
  BY DEF TypeOK, Threads, Workers, EngineInv
<1>w. row.status = "waiting_approval" /\ pc[a] \in GrantPcs \cup {"submitted"}
  BY <1>t, StepFrom DEF LifeInv, RowFits
<1>s. ASSUME NEW new, NEW next, NEW onError, Save(a, new, next, onError)
      PROVE  \/ row' = new /\ pc'[a] = next /\ faults' = faults
             \/ row' = row /\ pc'[a] = onError /\ faults' = faults + 1
  BY <1>t, <1>s, SaveRow
<1>1. CASE ResumeTool(a) \/ ResumeReset(a) \/ ResumeCompletion(a)
  <2>1. run.status = "running" /\ run.approvals = {}
    BY <1>t, <1>1 DEF ResumeTool, ResumeReset, ResumeCompletion, Granted, CopyOK, GrantPcs
  <2>2. \/ row' = ClearPending(run) /\ pc'[a] = "check" /\ faults' = faults
        \/ row' = row /\ pc'[a] = "done" /\ faults' = faults + 1
    BY <1>s, <1>1 DEF ResumeTool, ResumeReset, ResumeCompletion
  <2>3. ClearPending(run).status = "running" /\ ClearPending(run).approvals = {}
    BY <1>t, <2>1 DEF ClearPending, Runs
  <2> QED
    BY <1>w, <2>2, <2>3 DEF Worked, Left
<1>2. CASE GrantDenied(a) \/ Supersede(a)
  <2>1. \/ row' \in {Fail(run), Interrupt(run)} /\ pc'[a] = "done" /\ faults' = faults
        \/ row' = row /\ pc'[a] = "done" /\ faults' = faults + 1
    BY <1>s, <1>2 DEF GrantDenied, Supersede
  <2> QED
    BY <1>t, <1>w, <2>1, EndRun DEF Ended, Left, Terminal
<1>3. CASE GrantFails(a) \/ GateIsGone(a)
  <2>1. row' = row /\ pc'[a] = "done" /\ faults' = faults
    BY <1>3, ApprovalPlace DEF GrantFails, GateIsGone, history
  <2> QED
    BY <1>w, <2>1 DEF Left
<1>4. CASE SpendGrant(a)
  <2>1. row' = row /\ pc'[a] \in {"spent", "superseded"} /\ faults' = faults
    BY <1>4, ApprovalPlace DEF SpendGrant, history
  <2> QED
    BY <2>1 DEF Paused, GrantPcs
<1>5. CASE Load(a)
  <2>1. row' = row /\ pc'[a] \in {"granted", "done"} /\ faults' \in {faults, faults + 1}
    BY <1>5, ApprovalPlace DEF Load, StoreFails
  <2> QED
    BY <1>w, <2>1 DEF Paused, Left, GrantPcs
<1> QED
  BY <1>1, <1>2, <1>3, <1>4, <1>5 DEF Approval

(* Nobody is at work when no thread is busy.                               *)
LEMMA RestPlaces ==
  ASSUME PlaceInv, PlaceInv'
  PROVE  /\ AtRest <=> \A t \in Threads : ~Busy(t)
         /\ AtRest' <=> \A t \in Threads : ~Busy(t)'
<1>1. /\ \A t \in Threads : t \in Approvers \/ t = Starter \/ t \in Stoppers
      /\ \A a \in Approvers : a \in Threads
  BY DEF Threads, Workers
<1>2. \A t \in Threads \ Approvers : pc[t] # "submitted" /\ pc'[t] # "submitted"
  BY <1>1 DEF PlaceInv
<1>3. AtRest <=> \A t \in Threads : ~Busy(t)
  BY <1>1, <1>2 DEF AtRest, Quiet, Running, Busy
<1>4. AtRest' <=> \A t \in Threads : ~Busy(t)'
  BY <1>1, <1>2 DEF AtRest, Quiet, Running, Busy
<1> QED
  BY <1>3, <1>4

(* What the thread at work does is a step of the life of the run.          *)
LEMMA StepOfLife ==
  ASSUME PlaceInv, PlaceInv', Consistent(row)', faults' \in Nat, faults \in Nat,
         NEW t \in Threads, Busy(t), Alone(t),
         \A u \in Threads \ {t} : pc'[u] = pc[u],
         row.status \in {"running", "waiting_approval"},
         NEW places, "idle" \notin places, "done" \notin places,
         \/ Worked(t, places) \/ Paused(t, places) \/ Ended(t) \/ Left(t)
         \/ Asked(t) /\ row.status = "running"
  PROVE  [Life!Next]_(Life!vars)
<1>1. ~AtRest /\ (AtRest' <=> ~Busy(t)')
  <2>1. \A u \in Threads \ {t} : ~Busy(u)'
    BY DEF Alone, Busy
  <2> QED
    BY <2>1, RestPlaces
<1>2. pc'[t] \in places => ~AtRest'
  BY <1>1 DEF Busy
<1>3. pc'[t] = "done" => AtRest'
  BY <1>1 DEF Busy
<1>4. CASE Worked(t, places)
  <2>1. row'.loop = NoLoop
    BY <1>4 DEF Worked, Consistent
  <2>2. /\ ~AtRest' /\ Life!Moves("running") /\ Life!AsksNothing /\ faults' = faults
    BY <1>2, <1>4, <2>1 DEF Worked, Life!Moves, Life!AsksNothing
  <2>3. CASE row.status = "running"
    <3>1. Life!Work
      BY <1>1, <2>2, <2>3 DEF Life!Work, Life!Is
    <3> QED
      BY <2>2, <3>1 DEF Life!Next
  <2>4. CASE row.status = "waiting_approval"
    <3>1. Life!Resume
      BY <1>1, <2>2, <2>4 DEF Life!Resume, Life!Is
    <3> QED
      BY <2>2, <3>1 DEF Life!Next
  <2> QED
    BY <2>3, <2>4
<1>5. CASE Paused(t, places)
  <2>1. row' = row /\ (~AtRest)' = ~AtRest
    BY <1>1, <1>2, <1>5 DEF Paused
  <2>2. CASE faults' = faults
    BY <2>1, <2>2 DEF Life!vars
  <2>3. CASE faults' = faults + 1
    BY <2>1, <2>3 DEF Life!Next
  <2> QED
    BY <1>5, <2>2, <2>3 DEF Paused
<1>6. CASE Ended(t)
  <2>1. row'.loop = NoLoop
    BY <1>6 DEF Ended, Consistent, Terminal
  <2>2. Life!End /\ faults' = faults
    BY <1>1, <1>3, <1>6, <2>1 DEF Ended, Life!End, Life!Is, Life!Moves, Life!Terminal, Terminal
  <2> QED
    BY <2>2 DEF Life!Next
<1>7. CASE Asked(t) /\ row.status = "running"
  <2>1. Life!AsksOne
    BY <1>7 DEF Asked, Consistent, Life!AsksOne
  <2>2. Life!Ask /\ faults' = faults
    BY <1>1, <1>3, <1>7, <2>1 DEF Asked, Life!Ask, Life!Is, Life!Moves
  <2> QED
    BY <2>2 DEF Life!Next
<1>8. CASE Left(t)
  <2>1. Life!LetGo /\ faults' \in {faults, faults + 1}
    BY <1>1, <1>3, <1>8 DEF Left, Life!LetGo, Life!Is
  <2> QED
    BY <2>1 DEF Life!Next
<1> QED
  BY <1>4, <1>5, <1>6, <1>7, <1>8

(* After it the run is stored as the new places say.                       *)
LEMMA StepFits ==
  ASSUME StartInv, LifeInv, NEW t \in Threads, Busy(t), Alone(t), Starter \in Threads,
         \A u \in Threads \ {t} : pc'[u] = pc[u],
         pc'[t] # "idle", RowFits(pc'[t], row'),
         row'.status \in {"queued", "running", "waiting_approval"} \cup Terminal
  PROVE  LifeInv'
<1>1. \A u \in Threads : RowFits(pc'[u], row')
  <2>1. \A u \in Threads \ {t} : pc'[u] \in {"idle", "done"}
    BY DEF Alone, Busy
  <2> QED
    BY <2>1 DEF RowFits, LoopPcs, GrantPcs
<1>2. pc'[Starter] # "idle"
  BY DEF StartInv, Busy
<1> QED
  BY <1>1, <1>2 DEF LifeInv

(* Each step of the patient operator's system keeps the places, and is one *)
(* of the life of the run or leaves it alone.                              *)
LEMMA LifeStep ==
  ASSUME IInv, IInv', SerialInv, LifeInv, SerialNext
  PROVE  LifeInv' /\ [Life!Next]_(Life!vars)
<1>i. /\ TypeOK /\ PlaceInv /\ PlaceInv' /\ EngineInv /\ HandsInv /\ StartInv
      /\ AloneInv /\ OpenInv /\ Consistent(row)' /\ row.status \in Statuses
      /\ faults \in Nat /\ faults' \in Nat /\ row \in Runs
  BY Bounds DEF IInv, TypeOK, WorkersInv, SerialInv, RowInv, Runs
<1>d. /\ \A w \in Workers : w \in Threads
      /\ \A a \in Approvers : a \in Threads /\ a \in Workers /\ a # Starter
      /\ \A s \in Stoppers : s \in Threads /\ s # Starter
      /\ Starter \in Threads
  BY ControlAssumption DEF Threads, Workers
<1>p. /\ "idle" \notin LoopPcs \cup {"fail"} /\ "done" \notin LoopPcs \cup {"fail"}
      /\ "idle" \notin GrantPcs /\ "done" \notin GrantPcs
      /\ "idle" \notin {"check"} /\ "done" \notin {"check"}
  BY DEF LoopPcs, GrantPcs
<1>f. ASSUME NEW status \in Terminal \cup {"running", "waiting_approval"}
      PROVE  status \in {"queued", "running", "waiting_approval"} \cup Terminal
  OBVIOUS
<1>1. ASSUME NEW w \in Workers, Loop(w) PROVE LifeInv' /\ [Life!Next]_(Life!vars)
  <2>1. /\ pc[w] \in LoopPcs \cup {"fail"}
        /\ Alone(w) /\ \A u \in Threads \ {w} : pc'[u] = pc[u]
    BY <1>1, <1>i, StepFrom, AtWork, LoopFrame DEF Frame
  <2>2. Busy(w) /\ row.status = "running"
    BY <1>d, <2>1 DEF Busy, LoopPcs, LifeInv, RowFits
  <2>3. \/ Worked(w, LoopPcs \cup {"fail"}) \/ Paused(w, LoopPcs \cup {"fail"})
        \/ Ended(w) \/ Asked(w) \/ Left(w)
    BY <1>1, <1>i, LoopLife
  <2>4. [Life!Next]_(Life!vars)
    BY <1>d, <1>i, <1>p, <2>1, <2>2, <2>3, StepOfLife
  <2>5. /\ pc'[w] # "idle" /\ RowFits(pc'[w], row')
        /\ row'.status \in {"queued", "running", "waiting_approval"} \cup Terminal
    BY <2>2, <2>3
    DEF Worked, Paused, Ended, Asked, Left, RowFits, LoopPcs, GrantPcs, Terminal
  <2> QED
    BY <1>d, <1>i, <2>1, <2>2, <2>4, <2>5, StepFits
<1>2. ASSUME NEW a \in Approvers, Approval(a) PROVE LifeInv' /\ [Life!Next]_(Life!vars)
  <2>1. /\ pc[a] \in GrantPcs \cup {"submitted"}
        /\ Alone(a) /\ \A u \in Threads \ {a} : pc'[u] = pc[u]
    BY <1>2, <1>i, StepFrom, AtWork, ApprovalFrame DEF Frame
  <2>2. Busy(a) /\ row.status = "waiting_approval"
    BY <1>d, <2>1 DEF Busy, GrantPcs, LifeInv, RowFits
  <2>3. \/ Worked(a, {"check"}) \/ Paused(a, GrantPcs) \/ Ended(a) \/ Left(a)
    BY <1>2, <1>i, ApprovalLife
  <2>4. [Life!Next]_(Life!vars)
    <3>1. CASE Worked(a, {"check"}) \/ Ended(a) \/ Left(a)
      BY <1>d, <1>i, <1>p, <2>1, <2>2, <3>1, StepOfLife
    <3>2. CASE Paused(a, GrantPcs)
      BY <1>d, <1>i, <1>p, <2>1, <2>2, <3>2, StepOfLife
    <3> QED
      BY <2>3, <3>1, <3>2
  <2>5. /\ pc'[a] # "idle" /\ RowFits(pc'[a], row')
        /\ row'.status \in {"queued", "running", "waiting_approval"} \cup Terminal
    BY <2>2, <2>3
    DEF Worked, Paused, Ended, Left, RowFits, LoopPcs, GrantPcs, Terminal
  <2> QED
    BY <1>d, <1>i, <2>1, <2>2, <2>4, <2>5, StepFits
<1>3. ASSUME NEW w \in Workers, Begin(w) PROVE LifeInv' /\ [Life!Next]_(Life!vars)
  <2>1. /\ w = Starter /\ row = NewRun
        /\ \A t \in Threads : ~Busy(t)
        /\ \A u \in Threads \ {w} : pc'[u] = pc[u]
    BY <1>3, <1>d, <1>i, LoopFrame DEF Begin, LifeInv, StartInv, Busy, Frame
  <2>2. \/ row' = Start(row) /\ pc'[w] = "check" /\ faults' = faults
        \/ row' = row /\ pc'[w] = "done" /\ faults' = faults + 1
    BY <1>3, <1>d, <1>i, <2>1, SaveRow DEF Begin
  <2>3. \A u \in Threads \ {w} : ~Busy(u)' /\ pc'[u] \in {"idle", "done"}
    BY <2>1 DEF Busy
  <2>4. AtRest /\ (AtRest' <=> ~Busy(w)')
    BY <1>d, <1>i, <2>1, <2>3, RestPlaces
  <2>5. CASE row' = Start(row) /\ pc'[w] = "check" /\ faults' = faults
    <3>1. Life!Begin
      BY <2>1, <2>4, <2>5, StartRun DEF Life!Begin, Life!Is, Life!Start, Start, Busy
    <3>2. RowFits(pc'[w], row') /\ row'.status = "running" /\ pc'[w] # "idle"
      BY <2>1, <2>5, StartRun DEF RowFits, LoopPcs, GrantPcs
    <3>3. LifeInv'
      BY <2>1, <2>3, <3>2 DEF LifeInv, RowFits, LoopPcs, GrantPcs
    <3> QED
      BY <2>5, <3>1, <3>3 DEF Life!Next
  <2>6. CASE row' = row /\ pc'[w] = "done" /\ faults' = faults + 1
    <3>1. (~AtRest)' = ~AtRest
      BY <2>4, <2>6 DEF Busy
    <3>2. LifeInv'
      BY <2>1, <2>3, <2>6, StartRun DEF LifeInv, RowFits, LoopPcs, GrantPcs
    <3> QED
      BY <2>6, <3>1, <3>2 DEF Life!Next
  <2> QED
    BY <2>2, <2>5, <2>6
<1>4. ASSUME NEW a \in Approvers, AtRest, Submit(a)
      PROVE  LifeInv' /\ [Life!Next]_(Life!vars)
  <2>1. /\ row.status = "waiting_approval" /\ row' = row /\ faults' = faults
        /\ pc'[a] = "submitted" /\ \A u \in Threads \ {a} : pc'[u] = pc[u]
    BY <1>4, <1>i, ApprovalPlace, ApprovalFrame DEF Submit, Frame, history
  <2>2. \A t \in Threads : ~Busy(t)
    BY <1>4, <1>i, AtWork
  <2>3. Life!Take
    <3>1. ~AtRest'
      BY <1>d, <1>i, <2>1, RestPlaces DEF Busy
    <3> QED
      BY <1>4, <2>1, <3>1 DEF Life!Take, Life!Is
  <2>4. LifeInv'
    <3>1. pc'[Starter] # "idle"
      BY <1>d, <2>1, StartRun DEF LifeInv
    <3>2. \A u \in Threads \ {a} : pc'[u] \in {"idle", "done"}
      BY <2>1, <2>2 DEF Busy
    <3> QED
      BY <2>1, <3>1, <3>2 DEF LifeInv, RowFits, LoopPcs, GrantPcs
  <2> QED
    BY <2>1, <2>3, <2>4 DEF Life!Next
<1>5. ASSUME NEW s \in Stoppers, AtRest, ReadStop(s)
      PROVE  LifeInv' /\ [Life!Next]_(Life!vars)
  <2>1. /\ row' = row /\ faults' = faults
        /\ \A u \in Threads \ {s} : pc'[u] = pc[u]
        /\ pc'[s] = "done" \/ (pc'[s] = "stopping" /\ IsActive(row))
    BY <1>5, <1>d, <1>i DEF ReadStop, Goto, history, TypeOK
  <2>2. \A t \in Threads : ~Busy(t)
    BY <1>5, <1>i, AtWork
  <2>3. \A u \in Threads \ {s} : pc'[u] \in {"idle", "done"} /\ ~Busy(u)'
    BY <2>1, <2>2 DEF Busy
  <2>4. CASE pc'[s] = "done"
    <3>1. AtRest'
      BY <1>d, <1>i, <2>3, <2>4, RestPlaces DEF Busy
    <3>2. LifeInv'
      BY <1>d, <2>1, <2>3, <2>4 DEF LifeInv, RowFits, LoopPcs, GrantPcs
    <3>3. UNCHANGED Life!vars
      BY <1>5, <2>1, <3>1 DEF Life!vars
    <3> QED
      BY <3>2, <3>3
  <2>5. CASE pc'[s] = "stopping" /\ IsActive(row)
    <3>1. ~AtRest'
      BY <1>d, <1>i, <2>5, RestPlaces DEF Busy
    <3>2. row.status \in {"running", "waiting_approval"}
      BY <2>5 DEF IsActive, NotTerminal, LifeInv
    <3>3. Life!Take
      BY <1>5, <2>1, <3>1, <3>2 DEF Life!Take, Life!Is
    <3>4. LifeInv'
      BY <1>d, <2>1, <2>3, <2>5, <3>2 DEF LifeInv, RowFits, LoopPcs, GrantPcs
    <3> QED
      BY <2>1, <3>3, <3>4 DEF Life!Next
  <2> QED
    BY <2>1, <2>4, <2>5
<1>6. ASSUME NEW s \in Stoppers, WriteStop(s) PROVE LifeInv' /\ [Life!Next]_(Life!vars)
  <2>1. Alone(s) /\ pc[s] = "stopping" /\ engine[s] \in Runs
    BY <1>6, <1>d, <1>i, AtWork DEF WriteStop, TypeOK
  <2>2. Busy(s) /\ row.status \in {"running", "waiting_approval"}
    BY <1>d, <2>1 DEF Busy, LifeInv, RowFits
  <2>3. /\ \A u \in Threads \ {s} : pc'[u] = pc[u]
        /\ \/ row' = Cancel(engine[s]) /\ pc'[s] = "done" /\ faults' = faults
           \/ row' = row /\ pc'[s] = "done" /\ faults' = faults + 1
    BY <1>6, <1>d, <1>i, SaveFrame, SaveRow DEF WriteStop
  <2>4. Ended(s) \/ Left(s)
    BY <1>i, <2>1, <2>3, EndRun DEF Ended, Left, Terminal
  <2>5. [Life!Next]_(Life!vars)
    BY <1>d, <1>i, <1>p, <2>1, <2>2, <2>3, <2>4, StepOfLife
  <2>6. /\ pc'[s] # "idle" /\ RowFits(pc'[s], row')
        /\ row'.status \in {"queued", "running", "waiting_approval"} \cup Terminal
    BY <2>2, <2>4 DEF Ended, Left, RowFits, LoopPcs, GrantPcs
  <2> QED
    BY <1>d, <1>i, <2>1, <2>2, <2>3, <2>5, <2>6, StepFits
<1>7. ASSUME Restart PROVE LifeInv' /\ [Life!Next]_(Life!vars)
  <2>1. /\ \A t \in Threads : pc'[t] \in {"idle", "done"}
        /\ pc'[Starter] = "done" /\ faults' = faults
        /\ row' = Reconcile(row)
    BY <1>7, <1>d DEF Restart
  <2>2. row' = IF row.status = "running" THEN [row EXCEPT !.status = "interrupted"] ELSE row
    BY <2>1 DEF Reconcile, Unrecoverable, LifeInv, Terminal
  <2>3. AtRest'
    BY <1>i, <2>1, RestPlaces DEF Busy
  <2>4. Life!Restart
    BY <2>1, <2>2, <2>3 DEF Life!Restart, Life!Is
  <2>5. row'.status \in {"queued", "waiting_approval"} \cup Terminal
    BY <1>i, <2>2 DEF LifeInv, Runs, Terminal
  <2>6. LifeInv'
    BY <2>1, <2>5 DEF LifeInv, RowFits, LoopPcs, GrantPcs
  <2> QED
    BY <2>4, <2>6 DEF Life!Next
<1> QED
  BY <1>1, <1>2, <1>3, <1>4, <1>5, <1>6, <1>7 DEF SerialNext

(* Under an operator who waits the stored run lives as if there were no    *)
(* copies: that a turn, an approval and a stop each work on one of their   *)
(* own and store it whole cannot be told from moving the run in place.     *)
THEOREM SerialRunsImplementLife == SerialSpec => ImplementsLife
<1>1. Init => LifeInv /\ Life!Init
  <2> SUFFICES ASSUME Init PROVE LifeInv /\ Life!Init
    OBVIOUS
  <2>1. LifeInv
    BY StartRun DEF Init, LifeInv, RowFits, LoopPcs, GrantPcs
  <2>2. AtRest
    BY DEF Init, AtRest, Quiet, Running, Threads, Workers
  <2>3. Life!Init
    BY <2>2 DEF Init, Life!Init, Life!NewRun, NewRun
  <2> QED
    BY <2>1, <2>3
<1>2. /\ IInv /\ SerialInv /\ IInv' /\ LifeInv /\ [SerialNext]_vars
      => LifeInv' /\ [Life!Next]_(Life!vars)
  <2>1. ASSUME LifeInv, UNCHANGED vars PROVE LifeInv' /\ [Life!Next]_(Life!vars)
    <3>1. row' = row /\ pc' = pc /\ faults' = faults
      BY <2>1 DEF vars
    <3>2. LifeInv'
      BY <2>1, <3>1 DEF LifeInv, RowFits
    <3>3. UNCHANGED Life!vars
      BY <3>1 DEF Life!vars, AtRest, Quiet, Running
    <3> QED
      BY <3>2, <3>3
  <2> QED
    BY <2>1, LifeStep
<1> QED
  BY <1>1, <1>2, SerialInvariant, PTL DEF SerialSpec, ImplementsLife, Life!Spec
=============================================================================
