# Verification of the teamD Agent Runtime

This directory holds TLA+ models of teamD's daemon, `agentd`, the TLC
configurations that check them on small instances, and TLAPS proofs of the
properties that matter most. It covers the code under `crates/agent-runtime`,
`crates/agent-persistence` and `cmd/agentd`. Paths below are relative to the
root of the repository.

Contents: [the system](#1-the-system) · [the plan](#2-the-plan) ·
[the modules](#3-the-modules) · [the runs](#4-the-runs) ·
[the proofs](#5-the-proofs) · [disagreements](#6-where-documentation-and-code-disagree) ·
[limits](#7-what-is-not-modelled)

## 1. The system

teamD runs conversations between people, large language models and tools. A
message comes in (web, TUI, CLI, Telegram, another daemon, a schedule), a *run*
of the session's agent asks a provider for a response, executes the tool calls
in it as far as the permission policy allows, and delivers the answer. Runs,
sessions, jobs and events are rows of a PostgreSQL database. Everything that is
concurrent shares that database and nothing else:

* the HTTP server starts a thread per request;
* the event runtime is a set of asynchronous loops (outbox publisher, router,
  session, task, output and dead-letter consumers) over NATS JetStream;
* a background worker ticks over jobs, schedules and the inbox;
* the daemon may be stopped at any point and is started again.

There are almost no transactions: a store call is one autocommit statement, and the usual write
replaces the whole row (`put_run`, `put_job`, `put_session_output_route`, ...) without comparing
what it replaces. So the interesting questions are always the same two: what may a reader or a
writer holding an old copy do, and what is left behind when the sequence of statements stops
half-way.

### Inventory

For each part: its state, its operations, with whom it interacts, what is hard
about it, and what makes it correct. The status of each is in section 3 and in
`PROJECT.json`.

**Event outbox and publisher.**
Code: `crates/agent-persistence/src/store/event_repos.rs` 212-331,
`cmd/agentd/src/event_runtime_runner.rs` 253-300, `cmd/agentd/src/nats.rs`.
State: the table `event_outbox` (status, attempt count, next attempt). Operations:
handlers put a row; the publisher claims a batch, publishes each row to
JetStream, and marks it published or schedules a retry. Hard: a crash between
claim and mark, a lost broker acknowledgement, a handler that rewrites a row
while it is in flight, rows that keep failing next to rows that do not.
Correct: published means on the stream; duplicates have a cause; a due row is
published in the end.

**Telegram webhook intake.**
Code: `cmd/agentd/src/http/server/telegram.rs`, `cmd/agentd/src/telegram/webhook.rs`.
State: rows of `inbound_events`, keyed by `telegram:update:<id>`. Operations:
look up, insert, put the envelope in the outbox, answer. Hard: two requests
with one update, a failure between insert and envelope, Telegram's repeats.
Correct: an update answered with 200 is processed, and once.

**Router consumer.**
Code: `cmd/agentd/src/event_runtime_runner.rs` 302-400 and 677-884,
`cmd/agentd/src/router_worker.rs`. State: `inbound_events.status`,
`routed_events`, bindings, `session_output_routes`. Operations: idempotence check,
control commands, route resolution, upsert of the routed event and its envelope,
dead letter, status, acknowledgement. Hard: redelivery while or after the
handler runs, an acknowledgement even after an error, statements in the wrong
order. Correct: *processed* is only said of an event that went somewhere.

**Session consumer.**
Code: `cmd/agentd/src/event_runtime_runner.rs` 489-590,
`cmd/agentd/src/session_worker.rs`. State: `routed_events.status`, task records.
Operations: check the status, record a task, execute the chat turn, write the
output envelope, complete the routed event, close the task, acknowledge. Hard: a
turn is a long external effect between two statements. Correct: a completed
event has its output; a turn is not repeated without a cause.

**Output delivery.**
Code: `cmd/agentd/src/delivery_worker.rs`, output and dead-letter consumers in
`event_runtime_runner.rs` 592-656, `event_repos.rs` 347-381. State:
`session_output_routes` with a cursor (time and id of the last delivered transcript),
`event_deliveries`, task followers with `delivered_at`. Operations: for each
route of the session skip what the cursor covers, send, store the delivery, store
the cursor; notify followers of a task. Hard: a crash between sending and storing,
a cursor compared by seconds, a route read before the send and written whole
after it while the router writes it too. Correct: each output reaches each route
once, in order, or there is a record why not.

**Task consumer and task registry.**
Code: `cmd/agentd/src/task_worker.rs`, `store/task_registry_repos.rs`. State: task records
and leases. Operations: run a task-backed job, record its end, write the result
event. Hard: a crash between terminal record and result event; a lease held by
somebody else; a failing job. Correct: a terminal task has announced its result.

**Run state machine.**
Code: `crates/agent-runtime/src/run.rs`. State: a run's status (queued, running,
waiting for approval / process / delegate, resuming, completed, failed,
cancelled, interrupted), pending approvals, active processes, the saved loop
state, 32 recent steps. Operations: start, wait, approve, resume, complete, fail,
cancel, interrupt, track and finish a process. Correct: only legal transitions,
terminal is final, a waiting run has what it needs to go on.

**Provider loop.**
Code: `cmd/agentd/src/execution/provider_loop.rs` 1318-1484 and 2940-3520,
`execution/provider_cursor.rs`. State: the copy of the run, the cursor (round,
nudges, retries, recoveries, calls with outputs). Operations: request a response,
retry, recover from an empty one, run the completion gate, check each call against
the policy, run it or wait for an approval, look for a cancel or a new message after
each call, end the turn. Hard: the loop works on a private copy and stores it whole,
while approvals and stops do the same. Correct: nobody executes what the policy
does not allow, no call twice, the loop ends.

**Chat turns, approvals and stop.**
Code: `cmd/agentd/src/execution/chat.rs`, `http/server/chat.rs`,
`http/server/sessions.rs` 1320-1350. Operations: start a turn; approve what a run
waits for and go on in the thread of the request; cancel the latest run of a
session, or all work of it. Hard: two requests at once, a request that arrives
late, a stop in the last moments of a turn. Correct: one approval is good for one
execution; a stop stops.

**Recovery at startup.** Code: `crates/agent-persistence/src/recovery.rs`. Operations: interrupt
the runs whose thread is gone, and keep those that wait for an operator or that an unfinished job
names. Jobs, inbox events and outbox rows are not touched.

**Background jobs.**
Code: `cmd/agentd/src/execution/background.rs`, `crates/agent-runtime/src/mission.rs`.
State: job rows (status, lease, attempts, callback). Operations of a tick: list the
jobs, claim, execute (chat turn, interagent message, delegate, mission turn), renew
nothing, finish; deliver callbacks. Hard: claims are read-modify-write; the list is
stale for as long as the tick runs; cancellation races with execution. Correct: one
worker per job; a cancelled job stays cancelled; a result is reported.

**Missions, scheduler and supervisor.**
Code: `crates/agent-runtime/src/{mission,scheduler}.rs`, `cmd/agentd/src/execution/supervisor.rs`.
State: missions with specs and job counts. Operations: a tick turns missions and
jobs into directives (queue, dispatch, defer, complete), and the daemon carries them
out one statement at a time, on copies. Correct: no mission has two active turns; a
mission whose work is done is completed.

**Agent schedules.**
Code: `cmd/agentd/src/execution/background.rs` 451-535 and 657-788, `bootstrap/agent_ops.rs`,
`execution/autonomy.rs`, `crates/agent-runtime/src/agent.rs`.
State: schedule rows (mode, enabled, next firing, last job). Operations: fire what is due,
put the job, put the schedule, tell the schedule of a job's end; edit, trigger, delete.
Hard: a crash between the two puts; dispatcher, job and user write the same row whole;
the session is busy. Correct: one job at a time, each mode fires as it promises, what the
user switched off stays off, what is due fires.

**Session inbox and wake-ups.**
Code: `crates/agent-runtime/src/inbox.rs`, `cmd/agentd/src/execution/wakeup.rs`,
`telegram/router.rs` 3146-3588.
State: inbox events (queued, claimed, processed). Operations: claim all queued events of a
session, run a wake-up turn, mark them processed or queue them again; queue, coalesce
and clear messages; cancel. Hard: a crash, a cancel or a second thread after the claim.
Correct: a claimed event is in somebody's hands, it is answered once and not lost.

**Interagent messages and delegation.**
Code: `crates/agent-runtime/src/{interagent,delegation}.rs`,
`cmd/agentd/src/a2a.rs`, `bootstrap/execution_ops.rs` 490-690. State: chains with hop
limits, delegate jobs, callbacks. Operations: send, accept a remote delegation,
complete it, call the parent back. Hard: repeated or lost callbacks. Correct: the
parent learns of the result once; chains end.

**Session plan and completion gate.** Code: `crates/agent-runtime/src/plan.rs`.
Pure edits of a list of items with dependencies and the question whether something is
unfinished. Correct: edits keep identifiers unique and the gate says what it should.

**Permission policy.** Code: `crates/agent-runtime/src/permission.rs`. A pure function
from mode, rules and tool to allow, ask or deny. Correct: deny wins over ask over allow
as the rules say.

**Telegram polling surface.** Code: `cmd/agentd/src/telegram/*`. State: messages that come in
while a turn runs go to the session's inbox (queue, coalesce, restart); bindings, a delivery
cursor. Correct: no message is lost between queue and turn, no answer is delivered twice.

**Context compaction and offload**, **key-value store**, **sessions and transcripts.**
Code: `crates/agent-runtime/src/context.rs`, `store/kv_repos.rs`, `store/session_mission.rs`.
State of one session, changed inside a turn or by revision-checked puts. Correct: a
compare-and-set accepts one writer per revision; a compaction never drops what was not
summarised.

**PostgreSQL store, configuration, tool runtime, prompts, provider drivers and skills,
memory, archive and knowledge, MCP connectors, HTTP server and client, CLI and TUI,
observability, web control plane.** No protocol between actors of their own, or
encoding and presentation. Listed in `PROJECT.json` with a reason each.

### How the parts interact

```
 Telegram --webhook--> inbound_events + outbox --publisher--> JetStream
                                                                |
        +--------------------- router consumer <---- input ----+
        | routed_events + outbox(routed), or dead letter        |
        v                                                       |
   session consumer <------------------- routed ----------------+
        | chat turn = run state machine + provider loop         |
        | outbox(output)                                        |
        v                                                       |
   delivery worker <-------------------- output ----------------+

 operators --HTTP--> chat turn / approve / stop --+
 background worker --jobs, schedules, wake-ups----+--> one row per run
 startup --reconcile_runs-------------------------+
```

## 2. The plan

The most important behaviour first: what carries a message from the outside into
a turn, and what decides whether a tool runs.

1. *Event outbox* (done): `EventOutbox`, with the abstract queue `OutboxQueue`
   that the handlers rely on, and the proof that one implements the other.
2. *Event pipeline* (done): `EventPipeline`, webhook, router and session
   consumer, which takes the outbox at the promise of `OutboxQueue`.
3. *Run control* (done): `RunEngine`, the transitions of a run; `RunControl`, the
   provider loop, approvals and stops over one row; the abstract life of a stored run,
   `RunLife`, and the proof that the run has it when operators wait for each other.
4. *Output delivery* (done): `OutputDelivery`, the output consumer next to the router
   and the operators, who write the same rows.
5. *Tasks of agents* (done): `AgentTasks`, an inter-agent message from the tool to the
   followers of its result, with both kinds of threads that may execute its job.
6. *Inbox and wake-ups* (done): `SessionInbox`.
7. *Schedules* (done): `Schedules`.
8. *Delegation* (done): `Delegation`, one delegation between two daemons.
9. *Supervisor* (left): the directives of a tick and the writes after it; abstractly, at
   most one active turn per mission.
10. *Pure algorithms* (left): edits of the plan against a reference definition, the resolution
   of the permission policy against "deny wins", the hop limits of inter-agent chains.
11. *Composition* (left): the pipeline with a run that stops for an approval, so that the answer
   that nobody delivers (section 6) becomes a property.

Every module is written to be proved about: bounds are constants with named
assumptions, there is one action per operation, no `RECURSIVE` operator, and
the invariant is a conjunction of named parts. The modules share rows, not
definitions: each takes of the others what they promise (who may execute a job twice is
`AgentTasks`' question, so `Schedules` takes a claim for one step; in `Delegation`, where a claim
may revive a cancelled job, the list, the claim and the put after it are steps of their own). A run
that must fail is kept only for a sentence of the documentation the code contradicts.

## 3. The modules

| module | what it is | code |
| --- | --- | --- |
| `EventOutbox` | table, publisher loop, broker | `event_repos.rs`, `event_runtime_runner.rs`, `nats.rs` |
| `OutboxQueue` | what the outbox promises its writers | abstract |
| `EventPipeline` | webhook, router consumer, session consumer | `webhook.rs`, `event_runtime_runner.rs`, `router_worker.rs`, `session_worker.rs` |
| `OutputDelivery` | output consumer, router and operators over the output routes | `delivery_worker.rs`, `router_worker.rs`, `bootstrap/delivery_ops.rs` |
| `RunEngine` | the transitions of a run | `run.rs` |
| `RunLife` | the life of a stored run, without threads and copies | abstract |
| `RunControl` | turn, approvals, stops and restart over one run | `chat.rs`, `provider_loop.rs`, `provider_cursor.rs`, `recovery.rs` |
| `AgentTasks` | one inter-agent message: job, task, turn, result, followers | `interagent.rs`, `background.rs`, `task_worker.rs`, `chat.rs`, `delivery_worker.rs`, `session_ops.rs` |
| `SessionInbox` | the inbox of a session, its wake-ups, the queue commands | `wakeup.rs`, `inbox.rs`, `background.rs`, `telegram/router.rs` |
| `Schedules` | one schedule, its jobs and its users | `background.rs`, `agent.rs`, `chat.rs`, `agent_ops.rs`, `recovery.rs` |
| `Delegation` | a delegation to another daemon and its callback | `delegate_jobs.rs`, `execution_ops.rs`, `background.rs`, `chat.rs` |
| `MC*` | values of the constants for TLC, read with the `.cfg` files | |
| `*Proofs` | inductive invariants, lemmas and theorems | |

Names follow the code: `put_event_outbox`, `retry_delay_seconds`, `Fail`,
`RecordToolOutput`. An operator named `X_Y` is a *mutant* of `X`: a plausible mistake
in the code. No module uses it; it documents which mistake a property would catch.

### EventOutbox

`outbox` is the table; `batch` holds the rows this tick has claimed and not handled
yet, with their attempt count; `flight` is the row between its publish and the
update that records the outcome; `stream` counts the copies JetStream stored.
Claim, publish (acknowledged, refused, or stored with the acknowledgement lost) and
mark are three steps, as they are three awaits in the code. `next_attempt_at`
becomes the seconds still to wait, and the clock runs by `Tick`; the loop reads the clock
once per tick, so a retry is due `retry_delay_seconds` after that reading
(`elapsed`). A claim takes `min(|Due|, BatchLimit)` due rows in the order of
`next_attempt_at` (`Precedes`); among rows of one second the order is free (`created_at` is left
out). `attempt_count` saturates where the delay stops growing, at `BackoffSteps`.
The broker never takes the rows in `refused`, whatever set that is.
`publisher` is *running*, *stopped* or *down*: a store error ends this one loop and not the
process, and nobody starts it again (`StoreError`); only after a crash does it run again, with the
daemon (`Restart`). `mark_event_outbox_failed` has no caller and no action.

`OutboxQueue` says what a writer may count on: a row put is *owed*, an owed row
may be sent any number of times up to the debt, a debt may be swallowed once a copy
is on the stream (the update to published does not look whether the row was written
again), and only a fault forgets a debt with no copy.

### EventPipeline

Per update: the status of its inbound event, routed event and task, and which outbox rows exist.
Per worker: where in its handler it is. Every store call is a step; the order of the statements of
a handler is a function (`RouteOrder`, `CommandOrder`, `DeadLetterOrder`, `TurnOrder`), read off
the code. A request thread does look-up, insert, enqueue and reply in four steps, with another
thread anywhere between. JetStream owes a delivery for each copy, and repeats one that is under
way for longer than the acknowledgement timeout (`Redeliver`). An error in a handler is logged and
the message acknowledged; an error of the acknowledgement ends that loop. An update in `Misruled`
has a rule the router cannot read, or one that names no session or a delivery target that is gone:
the handler leaves before the routed row and marks the event failed, and no dead letter is written
(`RejectOrder`). `Crash` drops every worker and gives unacknowledged messages back.

Abstractions: the outbox is `OutboxQueue` (justified by `OutboxImplementsQueue` and
`PendingIsSettled`); a failing call leaves the tables as they were, except that
`put_event_outbox` may have committed and reported an error; creating a private
Telegram binding and output routes is folded into routing; the output and dead-letter
consumers are not part of it; a turn that stops for an approval is a failing turn,
because `execute_chat_turn` returns it as an error. The `waiting_dependency` branch of the
session worker is unreachable: no writer of routed events sets dependencies.

### RunEngine and RunControl

`RunEngine` has one operator per method of `RunEngine` in `run.rs` that a turn uses,
from run to run, plus `CanResolve` for the transition that may be refused.
`RunControl` has the stored run `row`, and for each thread its private copy
`engine[t]`, its cursor, and where it is. Between two store calls a thread touches
only its own copy, so that is one step; every store call, provider request and tool
execution is a step of its own. `Save` is `put_run`: it stores the whole copy or,
after the retries of `store_retry.rs`, fails.

The threads are the turn, any number of approvals (`POST /v1/runs/approve`) and
stops. An approval is given for the id the operator saw (`Submit`) and is served any
time later (`Load`): its thread compares the id with the stored run, resolves its own
copy and runs the approved tool before anything is stored. Tool approvals are named after
the run and the tool; completion and reset approvals after the run and a count. What
the provider answers, whether a tool fails, whether the plan has unfinished items and
whether the operator typed a new message are choices. The permission policy is a
function from tools to allow, ask, deny, and a restart may change it.

The scope is a session without auto-approve and a run without a job.
`cancel_all_session_work` cancels runs the same way as the stop modelled here
(`provider_loop.rs` 1441-1455); its effect on jobs and missions is left to the module
on jobs. Waiting for a process or a delegate only occurs on the mission path and is
left out, and approvals of provider retries are never created by the code.
`recent_steps`, whose length goes into some ids, saturates at 32 in the code and counts on
in the model.

`RunLife` is what a reader of `run.rs` takes the stored run for: it begins, is worked on, waits for
one approval, is resumed and ends, and only who is at work on it moves it. A thread lets go of a
run that is not over only to wait for an approval or when a store call fails, and a restart
interrupts what nobody is asked about. `RunControl` implements it under `SerialSpec`
(`ImplementsLife`): concurrent operators break it.

### OutputDelivery

One session: its turns (`at` is the second in which a turn began, which both of its transcripts
carry), the output events `due` to the consumer, the `rows` of `session_output_routes` and the
`records` of `event_deliveries`. The consumer takes an event, reads the rows of all enabled routes
at once (`List`), and goes through its `copies`: `Skip`; `Refuse` and `RecordFailure`, when no
target is there to send to; or `Send`. The Telegram sender then works on one `chunk` in one
`attempt` after the other: `ChunkSent` goes on to the next and in the end to `Record` and
`Advance`; `ChunkFails` and `ReplyLost` (the chunk has arrived, the sender sees an error) try
again, or give up, which `RecordFailure` records whatever has arrived. Since `Advance` stores a
whole copy, it takes back what the router or an operator has written since. The router
(`RouterStep`) and the operators (`Request`, `OperatorPut`) also read first and store later.
Histories say how often each chunk of an output arrived (`sends`), how often the sender lost a
reply or gave up half-way (`lapses`), how often a cursor was written back (`rewinds`), which
cursor a route was given from the transcripts, and which routes were detached while nobody held a
copy (`silent`).

The scope is the event runtime, which excludes the polling of Telegram (`telegram.rs` 39), and the
turns the session consumer runs: a turn over HTTP writes transcripts and no output event. Routes
have their canonical id; a route under an id of the operator's own is looked up by the router
among the enabled routes only. Targets exist or not as `Refuse` chooses. All texts have the same
number of chunks. The reads before the first send have no action of their own, because nobody
changes what they read.

### AgentTasks

The tables `job`, `run`, `task`, `follower` and `inbox` have the row of one message each. Its two
events go through the outbox (`rows`), the loop of the `publisher`, and `mail`, the deliveries
nobody has acknowledged; of the publisher the module keeps what `EventOutbox` shows: when it stops
or the daemon dies, the rows it had claimed are orphaned (`PublisherStops`, `Crash`). A sender
(`queue_interagent_message`) stores job, task and event in that order (`SendOrder`). Then
everybody may take the job: `Background` are the daemon's tick and the threads inside
`session_wait`, which list jobs once and look at the registry before they execute (`CheckDefer`),
and `Consumer` is the task consumer, which executes what the event names (`ExecuteTask`). Either
way the claim is a load and a put (`LoadForClaim`, `Claim`), the run is stored, the job is stored,
the turn looks for a stop before its last request (`LastCheck`), ends, and puts the job as it was
loaded (`Settle`). `Snapshot`, `CancelRun` and `CancelJob` are `cancel_all_session_work`;
`LoadTask`, `CancelTask` and `WriteCancelled` the cancellation of the task. The result goes to the
followers one by one (`SendFollower`, `MarkFollower`, or `RefuseFollower` when the sender gives
up, after some or all of the text has arrived, perhaps). Any store call of any of them may fail
(`CallFails`): a background thread leaves its pass, an error of the consumer's execution goes to
the task row, every other error of a handler is acknowledged (`AfterError`) and what it had still
to do is forgotten. The histories say how many turns began, whether a background thread looked
before the task was there (`early`), who held the job when it was cancelled (`holders`), which
targets a failure kept from the result (`excused`) or were sent something that went unheard or
unrecorded (`unrecorded`), and what failed (`faults`).

Scope: one job, one task; leases run out over an abandoned job at once and under a turn as a
trouble. A failing call leaves the row as it was, except at the end of a turn, which may have
stored its run. The sender's chunks are in `OutputDelivery`; here a send arrives once, twice or
unheard. Approvals of the recipient's run are not given.

### SessionInbox

`inbox` has each event's status and whether its `available_at` has come, `run` the last
run of each thread. A wake-up looks for an active run (`Look`), lists (`List`), claims one
event at a time, begins, and stores each event again, as its verdict says: processed, queued
again, or put away. Listing and putting are apart for the Telegram commands (`Command`,
`Rewrite`) and for `/cancel` (`Cancel`, `PutAway`) too. Between them anybody else may act.
`GiveUp` is a put that fails, `Crash` leaves claimed events behind. A chat turn ends, stops for an
approval, which somebody may give later (`Approve`), or fails to store its end (`EndChat`): in each
case the session is no longer busy, but in the last two its run still looks active and holds up the
wake-ups. The tick leaves its pass at the first error, so what fails before it comes to this session
keeps it away (`Ahead`, `tickFails`). `twice` has the events two
threads had listed or an old copy brought back.

Scope: the polling surface (the event runtime's messages never enter the inbox). The turn is
one look for a stop and one end; the coalescing window is `Ripen`.

### Schedules

`row` is the schedule, `jobs` the jobs it fired. `worker[Tick]` goes through the dispatcher
(`SyncLast`, the second look `Waits`, `Fire` or `SkipBusy`, `SaveFired`) and through the jobs at
hand (`TakeJob`, `EndTurn`, `LoadForSync`, `PutSync`); `Pumps` only execute. An `editor` loads and
puts. `stale` has the holders of a copy somebody has overtaken, `raced` says that such a copy
was put. The clock is the second of `unix_timestamp`; a pass reads it once, so a turn ends for
the code when its pass began. A session is busy (`Busy`) while a chat turn or a job of
the schedule has an active run in it, the job's own run included.

After a crash, `reconcile_runs` keeps the run of a job that named it and interrupts it
otherwise (`Crash`).

Scope: one schedule. The jobs it may fire are bounded (`Spent`), the intervals count in steps of
the clock. A job whose turn needs an approval does not occur: a background turn approves for
itself.

### Delegation

`parent` is the delegate job here, `remote` the job there, `request[a]` and `callback[w]` the two
HTTP calls with the row each server thread has loaded. On both sides several threads may list the
same running job (`List`, `ListRemote`), claim it and load it (`Take`, `TakeRemote`) and put it
running with the lease (`Start`, `StartRemote`), none of them with a look at what the job has
become: `execute_background_delegate_job` revives a job that was cancelled since it was listed.
`Settle` and `Emit` are the puts after the answer of the peer. A connection may break after the
peer took the request (`Break`), a callback may not arrive or its answer may not (`Lose`,
`Dropped`), either daemon may die. The ids are made of the delegation's id, so a repeated request
meets the job it made (`Looked`), and a repeated callback writes the same event (`EventId`). The
histories name what excuses silence: `muted` (an error that left the pass before the callback, a
callback that failed, an operator, a crash), `doubled` (the job there was made or begun twice),
`retaken` (a thread here took the job when it no longer ran) and `overtaken` (a copy was put over
a newer parent); the last three together are `Crossed`.

Scope: no code outside the tests creates a delegate job yet (`JobSpec::delegate`); the module is
about what the daemon does with one. The lease of a claim and the load after it are one step. A
request the peer refuses and a peer that is not configured end the job at once and are left out. A
delegate that is a child session of the same daemon is not modelled.

## 4. The runs

Deadlock is not checked in any run: in all of these systems nothing more to do is a
legitimate end (bounded requests, no operator who must act). The type invariants are in no run
because each is proved (section 5).

| run | configuration | states | checks |
| --- | --- | --- | --- |
| `outbox` | two rows, each written twice, any set of them refused for ever, batch 1, two steps of backoff, one lost acknowledgement per row, one fault | 187,956 | `CopiesAreExplained`, `OrphansNeedAFault`, `ImplementsQueue`, `PendingIsSettled` |
| `pipeline` | a message, a command, an update nothing routes or one with a broken rule (one of the four), sent twice, two threads, one redelivery, one fault | 111,666 | `ProcessedWentSomewhere`, `CompletedHasOutput`, `RepeatsNeedFaults`, `PairsAreComplete`, `AcceptedIsSettled` |
| `delivery` | two outputs of two chunks, two attempts each, one lost reply per output, a route that a rule asks for, one operator with one request, one routing, two seconds, one redelivery, one fault | 6,004,436 | `RepeatsAreExplained`, `MissesAreExplained`, `RecordsAreTrue`, `DetachIsFinal` |
| `run_control` | a turn, two approvals, a stop, one round and its extension, one provider retry, one failing store call, one restart that may change the policy | 401,986 | `WaitingIsResumable`, `PolicyIsKept`, `GrantsAreSpentOnce`, `RunningHasAThread`, `TerminalIsFinal` |
| `run_serial` | operators one at a time, tools that start and await processes, one nudge, one failing store call, one restart | 448,980 | `ProcessesAreTracked`, `ImplementsLife` |
| `run_live` | a turn and two approvals, one of each budget, one restart | 229,251 | `TurnEnds` |
| `run_stop` | a turn and a stop | violation | `StopCancelsTheTurn` |
| `tasks` | the background worker, a waiting thread, the task consumer, a follower, two deliveries per event, two troubles | 856,619 | `TurnsAreExplained`, `EndsAreReported`, `FollowersAreServedOnce`, `RevivalNeedsAHolder`, `ToldIsFinal`, `QueuedTaskEnds` |
| `schedules` | each mode, fresh or existing session; the background worker, a waiting thread, an editor; interval 2, two steps of the clock, two jobs, one trouble | 611,986 | `OneActiveJob`, `FiresInItsMode`, `CadenceIsKept`, `UsersWordStands`, `DueEnds` |
| `inbox` | one message, one job's event, the worker's tick and a waiting thread, one chat turn, one trouble | 668,906 | `ClaimedHasAHolder`, `ProcessedIsAccountedFor`, `AnsweredOnce`, `InboxIsServed` |
| `inbox_cancel` | one job's event, the tick, one cancellation | violation | `CancelIsKept` |
| `delegation` | two threads on each side, so two requests, two troubles | 746,687 | `WaitsForSomebody`, `ToldOnce`, `CancelledStays`, `DelegationEnds` |

A *trouble* is a step nobody is bound to take and the module bounds together: an edit, a
cancellation, a crash, a failing call, a slow turn, a repeated delivery; the head of each
module lists its own.

### What they show, and why the bounds are enough

*outbox.* A row the table calls published is on the stream. Copies beyond one per write are lost
acknowledgements, not crashes: a crash orphans rows, it never repeats them. A batch of one is
smaller than the queue of two rows, and the broker may refuse either row for ever: the other is
published all the same, because every attempt moves the failing row's `next_attempt_at` behind it.
Two writes let a handler rewrite a row in each of the publisher's positions; two steps of backoff
have a growing delay and the saturated one; one fault at any step shows every way to orphan. The
safety properties are proved for all values, of the batch too.

*pipeline.* Two threads and two requests give the race between lookup and insert; an
update enqueued by both is on the stream twice, and one redelivery adds a delivery during
or after a handler; one fault gives each position of a failure. A third request or copy
meets the same states of the tables: each is looked at by one statement. One update per
behaviour is enough for these properties (`MaxUpdates`), because no statement reads
another update's rows; the proofs have any number. `PairsAreComplete` is about the two pairs of
statements whose second half nobody repeats, the dead letter and the task of a completed event; an
update whose rule is broken gets no dead letter at all, without any fault, and the property says so.

*delivery.* Two outputs in two seconds may come in either order, in the same second or in
different ones. Routes do not look at each other's rows, so one is enough for a property of one
route; that the consumer reads all of them before the first send only makes the copy older, which
`Send` after any number of other steps shows as well. Two chunks are a text that has arrived in
part, two attempts one that is repeated and one that is given up; a lost reply of the last attempt
is a text recorded as failed that has arrived. One request attaches, detaches or enables around a
routing and a delivery; the redelivery repeats a send, and the fault can fall between any two
store calls. The proofs have any number of each.

*run_control.* Two approvals are the least that race for one request; since an approval
extends the rounds of a run that asked for more, they also answer two different requests of one
run, with a stop in between. The response `<<read, edit>>` has a free call before a gated one, so
that a saved loop state holds an output. Every store call fails once in every interleaving, and
the restart may deny what was allowed before.

*run_serial.* If operators wait for each other's effect, the stored run has the life `RunLife`
describes: it moves only while somebody is at work on it, is never left without the one approval
it waits for, and does not change once it is over. Every process the run started is in the stored
run or in the copy about to be stored. All of this is false for concurrent operators (section 6),
which is why this run has a specification of its own: it shows that races alone are to blame. The
failing store call makes a thread let go of the run at each of its stores, the restart at each
place.

*run_live.* Each budget (rounds, nudges, retries, recoveries) is 1, so that each is
used up and each way of starting over is taken.

*tasks.* What keeps a job from two turns is the row of its task and not its lease: two turns at a
time need a background thread that looked in the gap between the two puts. A job that was
cancelled is revived, but only by a thread that had it in hand. Two troubles are what it takes for
a crash or a failing call to meet a slow turn, an early look or a cancellation, and for the first
delivery of an event to be handled next to the second. A third trouble of another kind starts from
the states two leave behind; the safety properties are proved without the bound.

*schedules.* Two jobs are the least for "again"; the interval of two steps and a clock of two
have a firing on time, one in between (late, still on the cadence) and one interval later.
The one trouble is an edit, a chat turn, a cancellation or a crash at any step. Fresh and
existing sessions and the three modes are initial states, so each is checked with each trouble.

*inbox.* The message can be listed by a command while the job's event is claimed, and both
threads can list both events. One trouble is a failing turn, a failing put, a tick that fails before
it comes to the session, a command, a cancellation or a crash in any position; that a chat turn or a
wake-up stops for an approval is none and may happen next to it.

*delegation.* With two requests the second meets the job the first made, or makes it
again; two threads on each side list one job, or the second takes it when the lease of the first ran
out. One trouble, a cancellation, between the list and the claim is enough to revive a
cancelled job; two make it meet a broken connection, a crash, a slow turn or another thread. A third
starts from the states two leave; the safety properties are proved without the bound.

### Fairness

*outbox.* The loop runs with a sleep as long as the process does and no store call fails (weak
fairness of claim, publish and mark), a daemon that died is started again (`Restart=always` of its
unit), the clock runs, and the broker takes in the end each row it does not refuse for ever
(strong fairness of its acknowledged publish, which the rows in `refused` never have enabled). A
loop that a store error stopped is not started again: `PendingIsSettled` names it. *pipeline.*
Threads and consumer loops run on; the publisher publishes what it owes, which is what
`PendingIsSettled` shows of it. Nobody has to repeat a request. *run control.* A thread that has
begun runs on: the provider request has a timeout, a tool call returns or fails. No operator has
to approve or stop, and nothing has to restart. *tasks.* The task consumer's loop and the
publisher's go on while they run; neither is started again but with the daemon, and the daemon is
not assumed to die. *schedules.* The daemon's loop comes round, a thread ends the turn it took, a
chat turn ends, a loaded edit is put, an abandoned lease runs out; no thread inside `session_wait`
has to take a job. *inbox.* The tick, the threads, a chat turn (which may end waiting), the
coalescing window and a command that has listed go on; nobody has to send a command, give an
approval or call `session_wait`. The tick's step is not enabled while what comes before the
session fails, and `InboxIsServed` excuses the runs where that never stops (`<>[]tickFails`).
*delegation.* The threads of both daemons go on, a call that is not lost is served, abandoned
leases run out.

## 5. The proofs

The modules `*Proofs` are checked by TLAPS for all values of the constants that satisfy the
named assumptions (`OutboxAssumption`, `PipelineAssumption`, `DeliveryAssumption`,
`ControlAssumption`, `LoopAssumption`, `TasksAssumption`, `SessionInboxAssumption`,
`SchedulesAssumption`, `DelegationAssumption`): any number of rows, updates, threads, routes,
operators, tools, policies, budgets, jobs, events, requests and troubles. TLC evaluates the
assumptions in each run. Each has its type invariant as a theorem.

*Event outbox.* The invariant is `TypeOK`, `PublishedIsOnStream`, a stronger
`SentIsOnStream` (the row in flight with an acknowledged publish is on the stream), `OneHolder`
(a row is claimed or in flight, not both), `OrphansNeedAFault`, and `CopiesBounded`.
`CopiesAreExplained` is not inductive: it says nothing of a row that is still to be
sent. `CopiesBounded` counts the copies a row may still produce together with the
ones it has. `OutboxImplementsQueue` maps the debts (`Owed`: pending, claimed, or in
flight after a refusal) and shows that each step is a step of `OutboxQueue` or none.

*Event pipeline.* `RouterInv`, `SessionInv` and `WebhookInv` say what a worker at a given
place has already stored; `WentInv` and `OutputInv` carry the two main properties over
the steps between statements. For `RepeatsNeedFaults` the strengthening is `RepeatInv`:
runs so far, plus one if a routing is still due and one if a turn is due, are at most
one plus two per fault. A duplicate is never due, because whoever handles it finds the
status of the first; a crash may make one routing and one turn due again. For
`PairsAreComplete` each pair is strengthened by the step in between: `FailedInv` holds from the
moment the router is about to mark an event failed (with its dead letter written, or for a broken
rule without one), `TaskInv` lets the session that is about to
close the task of a completed event owe the close, and says that nobody else completes it.

*Output delivery.* `CursorInv` says where a cursor comes from, in the table and in every copy of a
row: it is not after the one the route was given, or not after an output that was sent. So a
skipped output was overtaken or came too early, which `MissInv` carries from `Skip` to the end of
the handler. `RepeatsAreExplained` is not inductive: it does not know whether one more send is
coming. An output is `Uncovered` if the stored cursor, or the handler's copy, is before it; while
it is, `RepeatInv` allows it one send less. Only a turn that begins, a rewind or a fault uncovers
an output (`UncoveredMoves`). All this is said of each chunk: the chunks before the sender's are
sent once more than the others, and a lost reply or a text given up half-way pays for the
repetition with a lapse. `RecordsAreTrue` uses that too: without any of these, no chunk of what a
handler refuses or gives up has arrived. `SilentInv` says that of a silent row the consumer and
the router hold no copy, and operators a disabled one.

*Run control.* The argument is that what a thread's copy holds depends only on where
the thread is (`CopyOK`, `CursorOK`, `ClaimOK`, `LogOK`), and that a step of one
thread touches no copy of another (the `Frame` lemmas). So each copy can be judged alone, in
all interleavings at once. Whatever is stored comes from a consistent copy, hence the
stored run is consistent, *whoever writes last*: that is `WaitingRunsAreResumable`.
`HandsInv` (no faults and a running row: somebody is in the loop or about to fail the run)
gives `RunningRunsHaveAThread`; `StartInv` and `PlaceInv` say who can be where before the
first step. `GrantsAreSpentOnce` rests on `LogOK` and `Behind`: the calls a thread has run lie
behind its cursor, so none is run twice. `PolicyIsKept` and `TerminalIsFinal` follow from the
same invariant by a case analysis of the steps.

The two theorems about the operator who waits (`SerialSpec`) use `IInv` again, because each of
his steps is one of `Spec`, and add `SerialInv`: one thread at a time is at work (`AloneInv`), on
a run that is not over (`OpenInv`), and `TrackInv`, which says where the processes are. A worker's
copy knows them all; so does the stored run when nobody is at work, and also while an approval is
*granted* but has run nothing: there the thread may still give up without storing its copy, and
what it leaves is the stored run. `SerialRunsEndOnce` holds with faults and restarts,
`NoProcessIsLost` without: a store error or a crash loses the copy that knew the process.

`SerialRunsImplementLife` is the refinement: the stored run is the run of `RunLife`, and somebody
is busy with it unless all threads are at rest (`~ AtRest`). What it needs is `LifeInv`: where the
one thread at work is says how the run is stored. In the loop it is stored as running; a thread
with a grant it has not stored yet finds it waiting for an approval (`RowFits`). A step of the loop
(`LoopLife`) or of a grant (`ApprovalLife`) then works on the run, pauses, ends it, asks, or leaves
it, and each of these is a step of `RunLife` or changes neither the stored run nor whether somebody
is at work (`StepOfLife`). `LifeStep` puts these together, one action of `SerialNext` at a time.

*Tasks of agents.* `StrangersKeepOff` is the heart: once the task is registered a background
thread has the job in hand only if it looked early. `ConsumerAlone` and `OneTurn` turn that into
`TurnsAreExplained`: without an early look the consumer's is the only turn, and it begins a second
one only after a crash or a failing call, because what it executed before it finds over. This
theorem assumes `EventBusRequired`: without the event bus the registry is not asked
(`should_defer_background_job`), and the background threads execute the job by right.
`EndsAreReported` rests on `CompletedIsInHand` (a completed job is told, or somebody who will tell
is still at it), and on the failing calls: without one the consumer has reached the end of its
handler when it acknowledges.

`DeliveryInv` is about the other half of the module. `SentOnce` follows the send and the record of
it: a target that was sent the result is marked, or about to be, and is off the list the consumer
works through, unless a send went `unrecorded`. `DebtsAreListed` is the converse: what a follower
is owed is on that list, or comes with a row or a delivery that is still on its way
(`ComesAgain`), or is excused. Together they give `FollowersHaveTheResult`, for any number of
followers and deliveries. For `ToldIsFinal` a task whose result is written has to be over for good
(`TurnIsOver`, `OverForGood`, `ToldAtLast`); this too takes `EventBusRequired`. The proof failed
at first, for a good reason: the property did not excuse a background thread that took the job
before its task was stored, and with four troubles TLC finds the behaviour. That thread writes the
job back to running, the consumer sees it and puts the cancelled task back to running, after the
cancellation was told; then the task ends again. The excuse is now in the property (`early`), and
section 6 lists the behaviour.

*Schedules.* `CopiesFit` says of every copy of the row, held by anyone, that its mode is the
row's and its next time on the cadence; `CopiesObey` that a copy nobody has overtaken is no
more enabled than the row; `LastIsKnown` that, while no overtaken copy was put and nothing
crashed, an active job is the one the row names, or the one the dispatcher is about to name.
These are invariants of copies, so they hold however many threads hold one. `FiresInItsMode`
counts firings, so its invariant, `ModesKept`, says what the firings so far have to do with the
row that counts: the stored one, or the dispatcher's copy between its two puts (`Known`). Jobs are
fired in order and the newest is the row's last (`FiresInOrder`); whoever could still enable a
one-shot schedule was asked to by a request not yet spent (`AsksCover`); every firing was before
the next time (`NextIsAhead`), which rests from the last job (`RestIsKept`). `OneTurnEach` keeps a
job's end where the turn that ran it put it.

*Session inbox.* `ClaimsAreOwned` is about the events a thread has still to claim or settle;
`SharedIsTwice` says that an event two threads hold is in `twice`, and `QueuedIsUnanswered` that a
queued event outside `twice` has no answer yet: together `AnsweredOnce`.

*Delegation.* `NewsArrives` is the inductive form of `WaitsForSomebody`: whatever the place of the
callback, the news of the end is in a thread's hands, at the parent, or excused. `EventsAreCalls`
ties each event to the thread whose call wrote it, so that two events are two calls, which
needs a job made or begun twice (`OneCall`, `OneThread`). `CopiesAreFresh` says what a sender's copy
has to do with the row while none was overtaken, and that once a cancellation is asked for neither a
`Settle` nor a callback ends the job as completed or failed: from it follow `SessionIsToldOnce` and
`CancelledJobsStay`.

Every invariant and every action property of the runs is a theorem. Only model-checked are
the liveness properties `PendingIsSettled`, `AcceptedIsSettled`, `TurnEnds`, `QueuedTaskEnds`,
`DueEnds`, `InboxIsServed` and `DelegationEnds`: TLAPS does not prove them under fairness. Induction
over data is not used anywhere: the models have no recursive definition.

## 6. Where documentation and code disagree

With a run that TLC refutes:

* `run_stop`. `/stop` is said to cancel the active turn
  (`docs/current/06-storage-recovery-and-diagnostics.md` 163). Between the loop's last check
  and the end of the turn it is overwritten with completed.
* `inbox_cancel`. `/cancel` is said to cancel the active and the queued work of the session
  (`docs/current/telegram/01-install-and-configure.md` 702). A wake-up turn it stopped
  takes the path of a failing turn and queues its events again: the next tick answers them.

Without a run of their own; the models have the behaviour, and the properties excuse it by name:

* A scheduled turn that a crash cut off strands its schedule. Recovery keeps the run because its
  job is under way (`recovery.rs` 76), and the job is not taken up because its session has an
  active run, which is that one (`background.rs` 228, `should_defer_background_job` does not leave
  out the job's own run). Neither ends until an operator cancels the session's work; the schedule
  waits for its last job, and wake-ups of the session wait for the run. In `Schedules` this is
  `Stranded`: without its first disjunct `DueEnds` is violated by a crash during a turn. Recovery
  is said to mark runs that were cut off (`06-storage-recovery-and-diagnostics.md` 154, 310).
* The outbox is called a durable publish queue (`19-mimo-agent-mesh.md` 485). A crash or store
  error after a claim leaves the rows of the batch in `publishing`; nothing looks for those.
* An invalid policy is said to publish a dead letter
  (`docs/superpowers/plans/2026-05-06-telegram-webhook-nats-router.md` 360). Only an update no
  rule matches gets one; a rule that cannot be read, or names a missing target, marks the event
  failed and leaves (`router_worker.rs` 205-256, 284-291; `RejectOrder`).
* A repeated input is said not to create a second run (same, 563). Nothing is stored between the
  end of a turn and the completion of its event, so a crash there makes the redelivered message
  run again.
* The acknowledgement is said to follow a durable write (same, 565). The consumers acknowledge
  after an error, too, also if nothing was written.
* Each tool call's output is said to go back to the provider
  (`02-prompt-and-turn-flow.md` 211). When a call of a response waits for an approval, the calls
  after it are never looked at again.

Found on the way:

* An error between the webhook's insert and its envelope loses the update: the repeated
  request is a duplicate and is answered 200 (`EventPipeline`, `WebhookFails` at
  `enqueue`). `AcceptedIsSettled` excuses faults for that reason.
* A turn that stops for an approval in the pipeline leaves its event pending and
  acknowledged; the approved run completes outside the pipeline and its answer is not
  delivered by it.
* The session of a private chat is created before the binding that names it
  (`event_runtime_runner.rs` 815): a crash between the two leaves a session nobody reaches.
* A tool approval names the tool and not the call: one that was slow to arrive runs a
  later call of the same tool, with other arguments (`Load` in `RunControl` compares the id). The
  ids of completion approvals count `recent_steps`, which saturates at 32, and repeat from there.
* An answer carries the second its turn began. A route attached during a turn starts at
  that turn's own message and never gets its answer, and of two answers of one second
  the later is skipped, as is one whose event comes after a newer one
  (`MissesAreExplained` lists these causes).
* The Telegram sender repeats a chunk after any error that is not permanent (`event_delivery.rs`
  84-132). A lost reply sends the chunk twice, and a sender that gives up after the first chunk, or
  after losing the last reply, has *failed* recorded for what has arrived (`lapses`).
* A send that fails for good is recorded and not repeated; the next one that succeeds moves
  the cursor past it. A redelivered event whose send fails writes *failed* over *delivered*.
* `/detach_output` is said to disable a route
  (`docs/superpowers/plans/2026-05-06-mimo-agent-mesh.md` 217). A consumer or a router that has
  read the row before writes it back enabled, and a router rule enables it with the next message
  anyway. `DetachIsFinal` is about the rest.
* The router's copy may also write a cursor back, after which a duplicate event is sent again
  (`rewinds`).
* An approved tool runs before anything is stored. Two requests both run it; after a
  crash or an error the same approval runs it again. `GrantsAreSpentOnce` is per request.
* A stop ends the processes of the row it read. One the turn has started since its
  last save survives, in no row.
* A background thread that looks between the put of a job and the put of its task executes
  the job next to the consumer (`early`). It may also write the job back to running after its task
  was cancelled and the followers were told: the consumer takes the task for running again, and
  it ends a second time (`ToldIsFinal` leaves this out).
* A task whose turn ends in an error is failed without a result event, and its followers hear
  nothing (`task_worker.rs` 128; `OverTaskHasResult` leaves out *failed*).
* The task and delivery consumers acknowledge after a store error. One after the terminal task row
  leaves the task without its result event; one in the list of followers leaves the rest unserved,
  or a target served and unmarked (`Interrupted`, `excused`, `unrecorded`).
* A cancelled task may leave its job running: the redelivered event finds the task over and
  the background threads leave the job to the consumer (`QueuedTaskEnds`).
* A triggered `after_completion` schedule is put back to its rest by the next look at its last
  job, and an edit that loaded the row before a firing takes the firing back (`raced`).
* A crash between the two puts of a firing fires the schedule twice (`Smooth`).
* A claimed inbox event whose thread died stays claimed for ever (`orphans`).
* A chat turn that stops for an approval, or whose last put fails, leaves a run that holds up
  every wake-up of the session, as long as nobody answers or for good (`Standstill`). And the tick
  leaves at the first wake-up that fails: sessions behind one that always fails are never woken
  (`background.rs` 112-118, `tickFails`).
* A delegate job that is cancelled after a thread listed it is claimed, put running and sent all
  the same: nobody looks at its status again (`delegate_jobs.rs` 17-79, `retaken`). The request to
  cancel stays in the row, so no result is taken for it (`CancelledStays`).
* A callback that fails is noted in a progress message and never repeated, and an error of the
  turn leaves the pass before the callback: the parent waits for ever (`muted`).

## 7. What is not modelled

Left of the plan (section 2): missions with their scheduler and supervisor, which only the
command line creates and ticks; delegates in a child session of the same daemon; the hop limits of
inter-agent chains; the plan and permission algorithms, pure and enumerated by unit tests; the
polling surface's update offset, bindings and delivery cursor; the composition of the pipeline
with an approval.

Left out: what has no protocol between actors (configuration, prompts, drivers, tools, memory,
archive, key-value store, context compaction, observability), what is encoding or presentation
(HTTP bodies, CLI, TUI, web), and the insides of PostgreSQL and JetStream, of which the models use
that a statement is atomic and durable, and that a stored message is delivered until it is
acknowledged. These are by far the most lines of the repository: the models cover the code where
several actors change the same rows.
