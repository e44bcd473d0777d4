----------------------------- MODULE AgentTasks -----------------------------
(***************************************************************************)
(* One inter-agent message, from the message_agent tool to the followers   *)
(* of its result: the sender (cmd/agentd/src/execution/interagent.rs), the *)
(* background worker and the threads inside session_wait, which both pump  *)
(* jobs (execution/background.rs), the task consumer (task_worker.rs,      *)
(* event_runtime_runner.rs), the recipient's turn (execution/chat.rs), the *)
(* operator's cancellation (execution/provider_loop.rs) and the delivery   *)
(* of the result to the task's followers (delivery_worker.rs).             *)
(*                                                                         *)
(* The job row has no version: whoever loaded it writes it back whole. A   *)
(* store call is a step of its own, except that a read is merged with the  *)
(* write that follows it when the two concern different tables; any of     *)
(* them may fail. The other jobs of a pass show as the time between        *)
(* listing the job and looking at it.                                      *)
(*                                                                         *)
(* Of the queue the model keeps what EventOutbox has shown of it: a row    *)
(* that is pending is published, once or more, while the publisher runs; a *)
(* row in its hands when it stops or the daemon dies is published no more; *)
(* and what was published is delivered until it is acknowledged.           *)
(***************************************************************************)
EXTENDS Integers, FiniteSets

CONSTANTS
  Background,        \* the background worker and the threads inside session_wait
  Consumer,          \* the task consumer of the daemon
  Followers,         \* delivery targets that may follow the task
  EventBusRequired,  \* config: event_bus.required
  MaxCopies,         \* bound: unacknowledged deliveries of one event
  MaxTroubles        \* bound: jobs listed before their task is there, crashes,
                     \*   failing calls, replies lost, leases that expire under a turn,
                     \*   deliveries repeated because a handler is slow, cancellations
                     \*   and follows, together

ASSUME TasksAssumption ==
  /\ Consumer \notin Background
  /\ EventBusRequired \in BOOLEAN
  /\ {MaxCopies, MaxTroubles} \subseteq Nat

Workers == Background \cup {Consumer}

VARIABLES
  job,         \* jobs: the row of the recipient's job
  run,         \* runs: the status of the recipient's run, run-<job>
  task,        \* task_registry: the status of task-<job>
  follower,    \* task_followers: the row of each target
  inbox,       \* session_inbox_events: what the source was told
  rows,        \* event_outbox: the events whose row is pending
  mail,        \* published deliveries of each event nobody acknowledged
  publisher,   \* the outbox publisher's loop runs
  sender,      \* where the message_agent call is
  operator,    \* the cancellation of the session's work and its snapshot
  canceller,   \* where the cancellation of the task is
  worker,      \* the threads that execute jobs
  list,        \* the followers the consumer has still to serve
  turns,       \* history: turns begun for the job
  early,       \* history: a background worker took the job before it was registered
  holders,     \* history: the threads that had the job in hand when it was last cancelled
  written,     \* history: the result event was written
  got,         \* history: messages each target was sent
  excused,     \* history: targets that followed late, that a send failed for, or that
               \*   were listed when a call of the handler failed
  unrecorded,  \* history: targets that were sent something nobody knew or recorded
  faults,      \* history: "crash", the daemon died; "call", a store call failed; an
               \*   event: a row of it was in the publisher's hands when that stopped
  troubles     \* counter of what MaxTroubles bounds

tables  == <<job, run, task, follower, inbox>>
threads == <<sender, operator, canceller, worker, list>>
queue   == <<rows, mail, publisher>>
history == <<turns, early, written, got, excused, unrecorded>>
counters == <<faults, troubles>>
vars == <<tables, queue, threads, history, holders, counters>>

Events == {"created", "result"}
Trouble == troubles < MaxTroubles /\ troubles' = troubles + 1
JobOver == {"completed", "failed", "blocked", "cancelled"}
TaskOver == {"completed", "failed", "cancelled", "blocked"}

JobRows == [status : JobOver \cup {"none", "running"}, asked : BOOLEAN, leased : BOOLEAN,
            named : BOOLEAN]
Runs == {"none", "running", "waiting", "completed", "failed", "cancelled", "interrupted"}
FollowerRows == [enabled : BOOLEAN, delivered : BOOLEAN, errorsOnly : BOOLEAN]
Operators == [pc : {"rest", "runs", "jobs", "done"}, job : JobRows, run : Runs]
Threads ==
  [pc : {"idle", "listed", "claim", "claiming", "load", "start", "turn", "asking", "failing",
         "settle", "tell", "taken", "reload", "record", "error", "result", "ack-created",
         "deliver", "sent", "ack-result", "stopped"},
   copy : JobRows, outcome : JobOver \cup {"none"} \cup Followers]

NoJob == [status |-> "none", asked |-> FALSE, leased |-> FALSE, named |-> FALSE]
NoFollower == [enabled |-> FALSE, delivered |-> FALSE, errorsOnly |-> FALSE]
Thread(pc, copy, outcome) == [pc |-> pc, copy |-> copy, outcome |-> outcome]
Now(pc) == Thread(pc, NoJob, "none")
Idle == Now("idle")
Resting == [pc |-> "rest", job |-> NoJob, run |-> "none"]

At(w, pc) == worker[w].pc = pc
Goes(w, pc) == worker' = [worker EXCEPT ![w].pc = pc]
(* The histories count none, one and more than one.                        *)
AtMostTwo(n) == IF n > 2 THEN 2 ELSE n

Engaged == {w \in Workers : ~ At(w, "idle")}
(* The event is on its way, or its delivery is not over.                   *)
Announced(e) == e \in rows \/ mail[e] > 0
InTurn == {w \in Workers : worker[w].pc \in {"turn", "asking"}}

-----------------------------------------------------------------------------
(* queue_interagent_message: the job, its task, the event, one statement   *)
(* each; a failing statement is an error of the tool call.                 *)

(* Mutant: the event is written before the row it names.                   *)
SendOrder_EventFirst == [job |-> "event", event |-> "task", task |-> "sent"]

SendOrder == [job |-> "task", task |-> "event", event |-> "sent"]

Sends(pc) == sender = pc /\ sender' = SendOrder[pc]

SendJob ==
  /\ Sends("job")
  /\ job' = [NoJob EXCEPT !.status = "running"]
  /\ UNCHANGED <<run, task, follower, inbox, queue, operator, canceller, worker, list, history,
                 counters>>

SendTask ==
  /\ Sends("task")
  /\ task' = "queued"
  /\ UNCHANGED <<job, run, follower, inbox, queue, operator, canceller, worker, list, history,
                 counters>>

SendEvent ==
  /\ Sends("event")
  /\ rows' = rows \cup {"created"}
  /\ UNCHANGED <<tables, mail, publisher, operator, canceller, worker, list, history, counters>>

SendFails ==
  /\ sender \in DOMAIN SendOrder
  /\ Trouble
  /\ sender' = "failed"
  /\ UNCHANGED <<tables, queue, operator, canceller, worker, list, history, faults>>

-----------------------------------------------------------------------------
(* The background worker's tick and pump_background_for_session.           *)

(* should_run_background_job, on the row as it was listed.                 *)
ShouldRun(row) == row.status = "running" /\ ~ row.leased

(* Mutant: the task registry is not asked.                                 *)
ShouldDefer_Never == FALSE

(* should_defer_background_job                                             *)
ShouldDefer == EventBusRequired /\ task # "none"

(* A look in the gap between put_job and put_task_registry is bounded. A   *)
(* task row is never removed: a pass that lists a job it will only defer   *)
(* does nothing and is left out.                                           *)
ListJob(w) ==
  /\ At(w, "idle")
  /\ ShouldRun(job)
  /\ job.asked \/ ~ ShouldDefer
  /\ worker' = [worker EXCEPT ![w] = Thread("listed", [NoJob EXCEPT !.asked = job.asked], "none")]
  /\ IF task = "none" THEN Trouble ELSE UNCHANGED troubles
  /\ UNCHANGED <<tables, queue, sender, operator, canceller, list, history, faults>>

(* cancel_background_job: the row is loaded again and put.                 *)
CancelledRow(row) == [row EXCEPT !.status = "cancelled", !.leased = FALSE]

CancelListed(w) ==
  /\ At(w, "listed")
  /\ worker[w].copy.asked
  /\ job' = CancelledRow(job)
  /\ worker' = [worker EXCEPT ![w] = Idle]
  /\ UNCHANGED <<run, task, follower, inbox, queue, sender, operator, canceller, list, history,
                 counters>>

CheckDefer(w) ==
  /\ At(w, "listed")
  /\ ~ worker[w].copy.asked
  /\ IF ShouldDefer
     THEN worker' = [worker EXCEPT ![w] = Idle] /\ UNCHANGED early
     ELSE worker' = [worker EXCEPT ![w] = Now("claim")] /\ early' = (early \/ task = "none")
  /\ UNCHANGED <<tables, queue, sender, operator, canceller, list, turns, written, got, excused,
                 unrecorded, counters>>

-----------------------------------------------------------------------------
(* claim_background_job and the turn itself, the same for every thread.    *)

LoadForClaim(w) ==
  /\ At(w, "claim")
  /\ worker' = [worker EXCEPT ![w] = Thread("claiming", job, "none")]
  /\ UNCHANGED <<tables, queue, sender, operator, canceller, list, history, counters>>

(* Neither the status nor the lease is compared with what was expected.    *)
Claimed(row) == [row EXCEPT !.leased = TRUE]

Claim(w) ==
  /\ At(w, "claiming")
  /\ job' = Claimed(worker[w].copy)
  /\ worker' = [worker EXCEPT ![w] = Now("load")]
  /\ UNCHANGED <<run, task, follower, inbox, queue, sender, operator, canceller, list, history,
                 counters>>

(* The job is loaded once more, and a new run is stored under its name     *)
(* whatever became of an earlier one.                                      *)
StartRun(w) ==
  /\ At(w, "load")
  /\ worker' = [worker EXCEPT ![w] =
                  Thread("start", [job EXCEPT !.status = "running", !.named = TRUE], "none")]
  /\ run' = "running"
  /\ turns' = AtMostTwo(turns + 1)
  /\ UNCHANGED <<job, task, follower, inbox, queue, sender, operator, canceller, list, early,
                 written, got, excused, unrecorded, counters>>

StartJob(w) ==
  /\ At(w, "start")
  /\ job' = worker[w].copy
  /\ Goes(w, "turn")
  /\ UNCHANGED <<run, task, follower, inbox, queue, sender, operator, canceller, list, history,
                 counters>>

Leaves(w, pc, outcome) == worker' = [worker EXCEPT ![w] = Thread(pc, worker[w].copy, outcome)]

(* The provider loop looks at the stored run before each request, and not  *)
(* after the last one. The rounds of a turn are the time spent in "turn".  *)
LastCheck(w) ==
  /\ At(w, "turn")
  /\ IF run = "cancelled" THEN Leaves(w, "settle", "cancelled") ELSE Goes(w, "asking")
  /\ UNCHANGED <<tables, queue, sender, operator, canceller, list, history, counters>>

(* The engine of the turn finishes its own copy of the run and stores it.  *)
EndTurn(w) ==
  /\ At(w, "asking")
  /\ \/ run' = "completed" /\ Leaves(w, "settle", "completed")
     \/ run' = "waiting" /\ Leaves(w, "settle", "blocked")
     \/ run' = "failed" /\ Leaves(w, "failing", "failed")
  /\ UNCHANGED <<job, task, follower, inbox, queue, sender, operator, canceller, list, history,
                 counters>>

(* job_was_cancelled_by_operator, which only a failing turn asks.          *)
LookForCancel(w) ==
  /\ At(w, "failing")
  /\ Leaves(w, "settle", IF job.status = "cancelled" \/ job.asked THEN "cancelled" ELSE "failed")
  /\ UNCHANGED <<tables, queue, sender, operator, canceller, list, history, counters>>

(* cancel_job_spec *)
AskedRow(row) == [CancelledRow(row) EXCEPT !.asked = TRUE]

Settled(row, outcome) ==
  IF outcome = "cancelled" THEN AskedRow(row) ELSE [row EXCEPT !.status = outcome]

(* An error other than a cancellation or an approval leaves the pass, and  *)
(* with it everything that would have followed for this job.               *)
Settle(w) ==
  /\ At(w, "settle")
  /\ job' = Settled(worker[w].copy, worker[w].outcome)
  /\ worker' = [worker EXCEPT ![w] =
       IF worker[w].outcome # "failed" THEN Now("tell")
       ELSE IF w = Consumer THEN Now("error") ELSE Idle]
  /\ UNCHANGED <<run, task, follower, inbox, queue, sender, operator, canceller, list, history,
                 counters>>

(* The kinds of inbox event: external input completed, or ended otherwise. *)
Report(status) ==
  IF status = "completed" THEN {"completed"}
  ELSE IF status \in JobOver THEN {"terminal"} ELSE {}

(* emit_inbox_event_for_job, on the row as it is by now.                   *)
Tell(w) ==
  /\ At(w, "tell")
  /\ inbox' = inbox \cup Report(job.status)
  /\ worker' = [worker EXCEPT ![w] =
                  IF w = Consumer THEN Now("reload") ELSE Idle]
  /\ UNCHANGED <<job, run, task, follower, queue, sender, operator, canceller, list, history,
                 counters>>

-----------------------------------------------------------------------------
(* The task consumer: one delivery at a time, acknowledged whatever the    *)
(* handler returned.                                                       *)

ConsumerGoes(pc) == worker' = [worker EXCEPT ![Consumer] = Now(pc)]

(* Mutant: a task that is over is executed again.                          *)
TakeCreated_Again ==
  /\ At(Consumer, "idle")
  /\ mail["created"] > 0 /\ task # "none"
  /\ ConsumerGoes("taken")
  /\ task' = "running"
  /\ UNCHANGED <<job, run, follower, inbox, queue, sender, operator, canceller, list, history,
                 counters>>

TakeCreated ==
  /\ At(Consumer, "idle")
  /\ mail["created"] > 0
  /\ IF task = "none" \/ task \in TaskOver
     THEN ConsumerGoes("ack-created") /\ UNCHANGED task
     ELSE ConsumerGoes("taken") /\ task' = "running"
  /\ UNCHANGED <<job, run, follower, inbox, queue, sender, operator, canceller, list, history,
                 counters>>

(* Mutant: the job is claimed without a look at it.                        *)
ExecuteTask_Unchecked ==
  /\ At(Consumer, "taken")
  /\ ConsumerGoes("claim")
  /\ UNCHANGED <<tables, queue, sender, operator, canceller, list, history, counters>>

Reads ==
  worker' = [worker EXCEPT ![Consumer] =
               Thread("record", [NoJob EXCEPT !.status = job.status], "none")]

(* execute_task_backed_job. A live lease keeps another owner away, but the *)
(* threads of a daemon are one owner. Queued jobs do not occur here.       *)
ExecuteTask ==
  /\ At(Consumer, "taken")
  /\ \/ job.status \in JobOver /\ Reads /\ UNCHANGED job
     \/ /\ job.status \notin JobOver /\ job.asked
        /\ job' = CancelledRow(job)
        /\ ConsumerGoes("reload")
     \/ /\ job.status \notin JobOver /\ ~ job.asked
        /\ ConsumerGoes("claim")
        /\ UNCHANGED job
  /\ UNCHANGED <<run, task, follower, inbox, queue, sender, operator, canceller, list, history,
                 counters>>

ReloadJob ==
  /\ At(Consumer, "reload")
  /\ Reads
  /\ UNCHANGED <<tables, queue, sender, operator, canceller, list, history, counters>>

(* The arm for an error of the execution: no result event is written.      *)
RecordError ==
  /\ At(Consumer, "error")
  /\ task' = "failed"
  /\ ConsumerGoes("ack-created")
  /\ UNCHANGED <<job, run, follower, inbox, queue, sender, operator, canceller, list, history,
                 counters>>

(* Mutant: a blocked job has no finished_at, and so no result.             *)
StatusFromJob_FinishedOnly(row) ==
  [task |-> IF row.status \in JobOver THEN row.status ELSE "running",
   over |-> row.status \in JobOver \ {"blocked"}]

(* status_from_job *)
StatusFromJob(row) ==
  [task |-> IF row.status \in JobOver THEN row.status ELSE "running",
   over |-> row.status \in JobOver]

RecordTask ==
  LET report == StatusFromJob(worker[Consumer].copy) IN
  /\ At(Consumer, "record")
  /\ task' = report.task
  /\ ConsumerGoes(IF report.over THEN "result" ELSE "ack-created")
  /\ UNCHANGED <<job, run, follower, inbox, queue, sender, operator, canceller, list, history,
                 counters>>

(* persist_task_result_event. The row is an upsert: written again, it is   *)
(* published again.                                                        *)
WriteResult ==
  /\ At(Consumer, "result")
  /\ rows' = rows \cup {"result"}
  /\ written' = TRUE
  /\ ConsumerGoes("ack-created")
  /\ UNCHANGED <<tables, mail, publisher, sender, operator, canceller, list, turns, early, got,
                 excused, unrecorded, counters>>

-----------------------------------------------------------------------------
(* deliver_task_result_event: the followers as they were listed.           *)

ToServe == {f \in Followers : follower[f].enabled /\ ~ follower[f].delivered}

(* render_task_result_text has nothing to say.                             *)
Silent(f) == follower[f].errorsOnly /\ task = "completed"

TakeResult ==
  /\ At(Consumer, "idle")
  /\ mail["result"] > 0
  /\ list' = {f \in ToServe : ~ Silent(f)}
  /\ ConsumerGoes("deliver")
  /\ UNCHANGED <<tables, queue, sender, operator, canceller, history, counters>>

(* The target is missing or does not allow the task, or send_text fails;   *)
(* the row is put as it was listed, with the error. The sender gives up    *)
(* with an error it calls permanent or after its last attempt: some chunks *)
(* of the text may have arrived, or all of them and only replies were lost *)
(* (OutputDelivery has the sender's chunks and attempts).                  *)
RefuseFollower(f) ==
  /\ At(Consumer, "deliver") /\ f \in list
  /\ follower' = [follower EXCEPT ![f] = [@ EXCEPT !.enabled = TRUE, !.delivered = FALSE]]
  /\ excused' = excused \cup {f}
  /\ list' = list \ {f}
  /\ \/ UNCHANGED <<got, unrecorded, troubles>>
     \/ /\ Trouble
        /\ got' = [got EXCEPT ![f] = AtMostTwo(@ + 1)]
        /\ unrecorded' = unrecorded \cup {f}
  /\ UNCHANGED <<job, run, task, inbox, queue, sender, operator, canceller, worker, turns,
                 early, written, faults>>

(* An attempt whose reply is lost is made again.                           *)
SendFollower(f) ==
  /\ At(Consumer, "deliver") /\ f \in list
  /\ \/ /\ got' = [got EXCEPT ![f] = AtMostTwo(@ + 1)]
        /\ UNCHANGED <<unrecorded, troubles>>
     \/ /\ Trouble
        /\ got' = [got EXCEPT ![f] = 2]
        /\ unrecorded' = unrecorded \cup {f}
  /\ worker' = [worker EXCEPT ![Consumer] = Thread("sent", NoJob, f)]
  /\ UNCHANGED <<tables, queue, sender, operator, canceller, list, turns, early, written,
                 excused, faults>>

(* event_deliveries and then the follower.                                 *)
MarkFollower ==
  LET f == worker[Consumer].outcome IN
  /\ At(Consumer, "sent")
  /\ follower' = [follower EXCEPT ![f] = [@ EXCEPT !.enabled = TRUE, !.delivered = TRUE]]
  /\ list' = list \ {f}
  /\ ConsumerGoes("deliver")
  /\ UNCHANGED <<job, run, task, inbox, queue, sender, operator, canceller, history, counters>>

(* Mutant: the first follower that was served ends the handler.            *)
DeliveryDone_First ==
  /\ At(Consumer, "deliver")
  /\ ConsumerGoes("ack-result")
  /\ UNCHANGED <<tables, queue, sender, operator, canceller, list, history, counters>>

DeliveryDone ==
  /\ At(Consumer, "deliver") /\ list = {}
  /\ ConsumerGoes("ack-result")
  /\ UNCHANGED <<tables, queue, sender, operator, canceller, list, history, counters>>

Acknowledge(e) ==
  /\ At(Consumer, [created |-> "ack-created", result |-> "ack-result"][e])
  /\ mail' = [mail EXCEPT ![e] = @ - 1]
  /\ worker' = [worker EXCEPT ![Consumer] = Idle]
  /\ UNCHANGED <<tables, rows, publisher, sender, operator, canceller, list, history, counters>>

-----------------------------------------------------------------------------
(* A call of a thread that executes jobs fails. A background thread leaves *)
(* its pass. The consumer takes an error of the execution to the task row; *)
(* any other error of a handler is logged and the message acknowledged     *)
(* like one that was dealt with; a failing acknowledgement ends the loop.  *)

Executing == {"taken", "claim", "claiming", "load", "start", "turn", "asking", "failing",
              "settle", "tell", "reload"}

AfterError(pc) ==
  IF pc \in Executing THEN "error"
  ELSE IF pc \in {"error", "record", "result"} THEN "ack-created"
  ELSE IF pc \in {"deliver", "sent"} THEN "ack-result" ELSE "stopped"

(* The turn had stored its completed run when the call failed, or had not. *)
TurnFailing(w) ==
  \/ UNCHANGED run
  \/ At(w, "asking") /\ run' = "completed"

BackgroundFails(w) ==
  /\ ~ At(w, "idle")
  /\ Trouble
  /\ worker' = [worker EXCEPT ![w] = Idle]
  /\ faults' = faults \cup {"call"}
  /\ TurnFailing(w)
  /\ UNCHANGED <<job, task, follower, inbox, queue, sender, operator, canceller, list, history>>

ConsumerFails ==
  /\ worker[Consumer].pc \notin {"idle", "stopped"}
  /\ Trouble
  /\ ConsumerGoes(AfterError(worker[Consumer].pc))
  /\ faults' = faults \cup {"call"}
  /\ TurnFailing(Consumer)
  /\ list' = {} /\ excused' = excused \cup list
  /\ unrecorded' = IF At(Consumer, "sent") THEN unrecorded \cup {worker[Consumer].outcome}
                   ELSE unrecorded
  /\ UNCHANGED <<job, task, follower, inbox, queue, sender, operator, canceller, turns, early,
                 written, got>>

(* The first calls of the two handlers, up to the list of followers.       *)
ConsumerCannotRead(e) ==
  /\ At(Consumer, "idle") /\ mail[e] > 0
  /\ Trouble
  /\ ConsumerGoes([created |-> "ack-created", result |-> "ack-result"][e])
  /\ faults' = faults \cup {"call"}
  /\ list' = {} /\ excused' = IF e = "result" THEN excused \cup ToServe ELSE excused
  /\ UNCHANGED <<tables, queue, sender, operator, canceller, turns, early, written, got,
                 unrecorded>>

-----------------------------------------------------------------------------
(* The publisher and JetStream.                                            *)

(* The reply to a publication may be lost: the row goes out again.         *)
Publish(e) ==
  /\ publisher /\ e \in rows
  /\ mail' = [mail EXCEPT ![e] = @ + 1]
  /\ \/ rows' = rows \ {e} /\ UNCHANGED troubles
     \/ mail[e] < MaxCopies /\ Trouble /\ UNCHANGED rows
  /\ UNCHANGED <<tables, publisher, threads, history, faults>>

(* A store error ends the publisher's loop; nobody begins it again before  *)
(* the daemon does. The rows it had claimed stay in publishing for good.   *)
PublisherStops(claimed) ==
  /\ publisher /\ claimed \subseteq rows
  /\ Trouble
  /\ publisher' = FALSE
  /\ rows' = rows \ claimed
  /\ faults' = faults \cup {"call"} \cup claimed
  /\ UNCHANGED <<tables, mail, threads, history>>

(* The handler outlasts the acknowledgement timeout.                       *)
Handling(e) ==
  IF worker[Consumer].pc \in {"deliver", "sent", "ack-result"} THEN e = "result"
  ELSE e = "created" /\ worker[Consumer].pc \notin {"idle", "stopped"}

Redeliver(e) ==
  /\ Handling(e)
  /\ Trouble
  /\ mail[e] < MaxCopies
  /\ mail' = [mail EXCEPT ![e] = @ + 1]
  /\ UNCHANGED <<tables, rows, publisher, threads, history, faults>>

-----------------------------------------------------------------------------
(* Followers, the operator, time and crashes.                              *)

(* Nothing reads a follower before the task is over, or after its result   *)
(* was acknowledged: the model takes the users' changes in between.        *)
FollowersMatter == task \in TaskOver /\ (written => Announced("result"))

(* follow_task keeps delivered_at; the target's format policy is what its  *)
(* owner set. Who follows when the result is out may be late.              *)
Follow(f, only) ==
  /\ FollowersMatter /\ ~ follower[f].enabled
  /\ Trouble
  /\ follower' = [follower EXCEPT ![f] = [@ EXCEPT !.enabled = TRUE, !.errorsOnly = only]]
  /\ excused' = IF written THEN excused \cup {f} ELSE excused
  /\ UNCHANGED <<job, run, task, inbox, queue, threads, turns, early, written, got, unrecorded,
                 faults>>

Unfollow(f) ==
  /\ FollowersMatter /\ follower[f].enabled
  /\ follower' = [follower EXCEPT ![f].enabled = FALSE]
  /\ UNCHANGED <<job, run, task, inbox, queue, threads, history, counters>>

(* cancel_all_session_work, as far as it concerns this job: one snapshot,  *)
(* then the run and the job are put as the snapshot had them, cancelled.   *)
Unfinished == {"running", "waiting", "blocked"}

Snapshot ==
  /\ operator.pc = "rest"
  /\ job.status \in Unfinished \/ run \in Unfinished
  /\ Trouble
  /\ operator' = [pc |-> "runs", job |-> job, run |-> run]
  /\ UNCHANGED <<tables, queue, sender, canceller, worker, list, history, faults>>

CancelRun ==
  /\ operator.pc = "runs"
  /\ run' = IF operator.run \in Unfinished THEN "cancelled" ELSE run
  /\ operator' = [pc |-> "jobs", job |-> operator.job, run |-> "none"]
  /\ UNCHANGED <<job, task, follower, inbox, queue, sender, canceller, worker, list, history,
                 counters>>

CancelJob ==
  /\ operator.pc = "jobs"
  /\ job' = IF operator.job.status \in Unfinished THEN AskedRow(operator.job) ELSE job
  /\ operator' = [Resting EXCEPT !.pc = "done"]
  /\ UNCHANGED <<run, task, follower, inbox, queue, sender, canceller, worker, list, history,
                 counters>>

(* cancel_task: the task row alone. The job is neither asked nor told.     *)
LoadTask ==
  /\ canceller = "rest"
  /\ task \in {"queued", "running"}
  /\ Trouble
  /\ canceller' = "put"
  /\ UNCHANGED <<tables, queue, sender, operator, worker, list, history, faults>>

CancelTask ==
  /\ canceller = "put"
  /\ task' = "cancelled"
  /\ canceller' = "event"
  /\ UNCHANGED <<job, run, follower, inbox, queue, sender, operator, worker, list, history,
                 counters>>

WriteCancelled ==
  /\ canceller = "event"
  /\ rows' = rows \cup {"result"}
  /\ written' = TRUE
  /\ canceller' = "done"
  /\ UNCHANGED <<tables, mail, publisher, sender, operator, worker, list, turns, early, got,
                 excused, unrecorded, counters>>

(* A failing call leaves a cancellation where it is; the user sees it.     *)
CancellerFails ==
  /\ canceller \in {"put", "event"}
  /\ Trouble
  /\ canceller' = "done"
  /\ faults' = faults \cup {"call"}
  /\ UNCHANGED <<tables, queue, sender, operator, worker, list, history>>

OperatorFails ==
  /\ operator.pc \in {"runs", "jobs"}
  /\ Trouble
  /\ operator' = [Resting EXCEPT !.pc = "done"]
  /\ faults' = faults \cup {"call"}
  /\ UNCHANGED <<tables, queue, sender, canceller, worker, list, history>>

(* A turn outlasts the lease, which nobody renews; a lease nobody works    *)
(* under simply runs out.                                                  *)
Expire ==
  /\ job.leased
  /\ job' = [job EXCEPT !.leased = FALSE]
  /\ IF InTurn = {} THEN UNCHANGED troubles ELSE Trouble
  /\ UNCHANGED <<run, task, follower, inbox, queue, threads, history, faults>>

Keeps(row) == row.named /\ row.status \in {"running", "blocked"}

(* The daemon dies and is started again. JetStream delivers again what was *)
(* not acknowledged, the publisher goes on with the rows it had not        *)
(* claimed, and a running run is interrupted, unless a job that is not     *)
(* over names it (has_recoverable_active_job).                             *)
Crash(claimed) ==
  /\ Trouble
  /\ claimed \subseteq rows /\ (publisher \/ claimed = {})
  /\ rows' = rows \ claimed /\ publisher' = TRUE
  /\ sender' = IF sender \in DOMAIN SendOrder THEN "failed" ELSE sender
  /\ operator' = IF operator.pc = "rest" THEN operator ELSE [Resting EXCEPT !.pc = "done"]
  /\ canceller' = IF canceller = "rest" THEN canceller ELSE "done"
  /\ worker' = [w \in Workers |-> Idle]
  /\ list' = {}
  /\ run' = IF run = "running" /\ ~ Keeps(job) THEN "interrupted" ELSE run
  /\ faults' = faults \cup {"crash"} \cup claimed
  /\ unrecorded' = IF At(Consumer, "sent") THEN unrecorded \cup {worker[Consumer].outcome}
                   ELSE unrecorded
  /\ UNCHANGED <<job, task, follower, inbox, mail, turns, early, written, got, excused>>

-----------------------------------------------------------------------------
Init ==
  /\ job = NoJob
  /\ run = "none"
  /\ task = "none"
  /\ follower = [f \in Followers |-> NoFollower]
  /\ inbox = {}
  /\ rows = {} /\ publisher = TRUE
  /\ mail = [e \in Events |-> 0]
  /\ sender = "job"
  /\ operator = Resting
  /\ canceller = "rest"
  /\ worker = [w \in Workers |-> Idle]
  /\ list = {}
  /\ turns = 0 /\ early = FALSE /\ written = FALSE
  /\ got = [f \in Followers |-> 0]
  /\ excused = {} /\ unrecorded = {}
  /\ holders = {}
  /\ faults = {} /\ troubles = 0

SenderStep == SendJob \/ SendTask \/ SendEvent

BackgroundStep(w) == ListJob(w) \/ CancelListed(w) \/ CheckDefer(w)

TurnStep(w) ==
  \/ LoadForClaim(w) \/ Claim(w) \/ StartRun(w) \/ StartJob(w)
  \/ LastCheck(w) \/ EndTurn(w) \/ LookForCancel(w) \/ Settle(w) \/ Tell(w)

DeliveryStep ==
  \/ TakeResult \/ MarkFollower \/ DeliveryDone
  \/ \E f \in Followers : SendFollower(f) \/ RefuseFollower(f)

ConsumerStep ==
  \/ TakeCreated \/ ExecuteTask \/ ReloadJob \/ RecordError \/ RecordTask \/ WriteResult
  \/ DeliveryStep
  \/ \E e \in Events : Acknowledge(e)

OperatorStep ==
  \/ Snapshot \/ CancelRun \/ CancelJob
  \/ LoadTask \/ CancelTask \/ WriteCancelled

CallFails ==
  \/ \E w \in Background : BackgroundFails(w)
  \/ ConsumerFails
  \/ \E e \in Events : ConsumerCannotRead(e)
  \/ CancellerFails \/ OperatorFails
  \/ \E claimed \in SUBSET Events : PublisherStops(claimed)

(* The threads that have the job in hand when it is cancelled, until each  *)
(* lets go of it.                                                          *)
Hold ==
  holders' = (IF job.status # "cancelled" /\ job'.status = "cancelled" THEN Workers ELSE holders)
               \cap {w \in Workers : worker'[w].pc # "idle"}

Next ==
  /\ \/ SenderStep \/ SendFails
     \/ \E w \in Background : BackgroundStep(w)
     \/ \E w \in Workers : TurnStep(w)
     \/ ConsumerStep
     \/ \E e \in Events : Publish(e) \/ Redeliver(e)
     \/ CallFails
     \/ \E claimed \in SUBSET Events : Crash(claimed)
     \/ \E f \in Followers : Unfollow(f) \/ \E only \in BOOLEAN : Follow(f, only)
     \/ OperatorStep
     \/ Expire
  /\ Hold

Spec == Init /\ [][Next]_vars

(* While they run, the loops of the consumer and of the publisher go on;   *)
(* nobody else need act, nothing need fail.                                *)
FairSpec ==
  /\ Spec
  /\ WF_vars((ConsumerStep \/ TurnStep(Consumer)) /\ Hold)
  /\ \A e \in Events : WF_vars(Publish(e) /\ Hold)

-----------------------------------------------------------------------------
(* Properties.                                                             *)

(* Type invariant.                                                         *)
TypeOK ==
  /\ job \in JobRows
  /\ run \in Runs
  /\ task \in TaskOver \cup {"none", "queued", "running"}
  /\ follower \in [Followers -> FollowerRows]
  /\ inbox \subseteq {"completed", "terminal"}
  /\ rows \subseteq Events /\ publisher \in BOOLEAN
  /\ mail \in [Events -> Nat]
  /\ sender \in DOMAIN SendOrder \cup {"sent", "failed"}
  /\ operator \in Operators
  /\ canceller \in {"rest", "put", "event", "done"}
  /\ worker \in [Workers -> Threads]
  /\ list \subseteq Followers
  /\ turns \in 0..2 /\ early \in BOOLEAN /\ written \in BOOLEAN
  /\ got \in [Followers -> 0..2] /\ excused \subseteq Followers /\ unrecorded \subseteq Followers
  /\ holders \subseteq Engaged
  /\ faults \subseteq {"crash", "call"} \cup Events /\ troubles \in 0..MaxTroubles

(* A store call failed, or the daemon died.                                *)
Interrupted == faults \cap {"crash", "call"} # {}

(* Nothing compares the lease when it is taken. What keeps a job from two  *)
(* turns is the task row, which sends the background threads away: the     *)
(* recipient has a second turn only if one of them looked before the row   *)
(* was there, the daemon died during the first, or calls of it failed.     *)
SecondTurnHasACause == turns > 1 => early \/ Interrupted

(* Two turns of one job at a time need the same gap between put_job and    *)
(* put_task_registry, however slow the turns and often the deliveries.     *)
OneTurnAtATime == Cardinality(InTurn) > 1 => early

(* However many threads look after the job and however often it is         *)
(* announced, a second turn and a concurrent one have a cause.             *)
TurnsAreExplained == SecondTurnHasACause /\ OneTurnAtATime

(* A cancelled job does come back to life: claim and start never look at   *)
(* the status. But only in the hands of a thread that took it before it    *)
(* was cancelled.                                                          *)
RevivalNeedsAHolder ==
  [][job.status = "cancelled" /\ job'.status # "cancelled"
       => \E w \in holders : worker'[w] # worker[w]]_vars

(* A task that is over has its result event, or its turn ended in an error *)
(* (which writes none), or the daemon died or a call failed between the    *)
(* two statements: the message is acknowledged all the same, and the task  *)
(* is over when it is delivered again.                                     *)
OverTaskHasResult ==
  task \in TaskOver \ {"failed"} /\ ~ At(Consumer, "result") /\ canceller # "event"
    => written \/ Interrupted

(* What a follower was told is what the task says from then on: only a     *)
(* cancellation that read the row before it was over changes it. A         *)
(* background thread that took the job too early may write it back to      *)
(* running; then the task goes on after its cancellation was told.         *)
ToldIsFinal ==
  [][\A f \in Followers :
       got[f] > 0 => task' = task \/ canceller = "put" \/ early]_vars

(* A completed job that nobody works on has told its source session, even  *)
(* if another thread, or a cancellation, wrote the row in between, unless  *)
(* the daemon died or a call failed on the way: nobody tells it later.     *)
CompletionIsTold ==
  job.status = "completed" /\ Engaged = {} => "completed" \in inbox \/ Interrupted

(* Of what is over, the bus and the session that asked are told.           *)
EndsAreReported == OverTaskHasResult /\ CompletionIsTold

(* When the result has been delivered, whoever follows the task has it,    *)
(* unless it followed late, its send failed, a call failed before its turn *)
(* came or before it was marked (the message is acknowledged and the rest  *)
(* of the list forgotten), the row was orphaned in the publisher's hands,  *)
(* or it wanted errors only and there was none, or the daemon died or a    *)
(* call failed with the event of a cancellation.                           *)
FollowersAreServed ==
  written /\ ~ Announced("result") /\ canceller # "event" =>
    \A f \in Followers :
      follower[f].enabled =>
        \/ follower[f].delivered \/ f \in excused \/ "result" \in faults
        \/ follower[f].errorsOnly /\ (task = "completed" \/ Interrupted)

(* A target is sent the result twice only if one of the sends went         *)
(* unheard (its reply was lost and the sender repeated it, or gave up and  *)
(* recorded a failure) or unrecorded (the daemon died or a call failed     *)
(* between the send and the mark).                                         *)
ResultIsSentOnce == \A f \in Followers : got[f] > 1 => f \in unrecorded

(* Delivery is complete and does not repeat itself.                        *)
FollowersAreServedOnce == FollowersAreServed /\ ResultIsSentOnce

(* A message that was queued comes to an end, and its job with it, through *)
(* crashes and repeated deliveries, unless a background thread took the    *)
(* job too early (its late writes may leave the consumer with a running    *)
(* job, and then the task stays running for good), a store call failed     *)
(* (the message is acknowledged and never comes back, or a loop has ended) *)
(* or a crash found the event's row in the publisher's hands. A task that  *)
(* was cancelled may leave its job running: nobody takes it up again.      *)
QueuedTaskEnds ==
  sender = "sent" ~> \/ task \in TaskOver /\ (job.status \in JobOver \/ canceller # "rest")
                     \/ early \/ "call" \in faults \/ "created" \in faults
=============================================================================
