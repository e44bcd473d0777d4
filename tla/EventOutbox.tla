----------------------------- MODULE EventOutbox -----------------------------
(***************************************************************************)
(* The transactional outbox of the event runtime: the event_outbox table   *)
(* (crates/agent-persistence/src/store/event_repos.rs), the publisher loop *)
(* that drains it (cmd/agentd/src/event_runtime_runner.rs) and the         *)
(* JetStream stream it publishes to (cmd/agentd/src/nats.rs).              *)
(*                                                                         *)
(* Every store call is an autocommit statement, so each is a step of its   *)
(* own; the broker may store a message and lose the acknowledgement, and   *)
(* refuses some rows for ever; the process may die between any two steps.  *)
(***************************************************************************)
EXTENDS Integers, FiniteSets

CONSTANTS
  OutboxIds,     \* identifiers of outbox rows
  NoRow,         \* no identifier
  BatchLimit,    \* OUTBOX_PUBLISH_BATCH, 64 in the code
  BackoffSteps,  \* attempts after which the retry delay stops growing, 6 in the code
  MaxPuts,       \* bound: how often the handlers write one row
  MaxAckLoss,    \* bound: acknowledgements the broker loses, per row
  MaxFaults      \* bound: crashes and store errors

ASSUME OutboxAssumption ==
  /\ NoRow \notin OutboxIds
  /\ BatchLimit \in Nat \ {0}
  /\ BackoffSteps \in 1 .. 6
  /\ MaxPuts \in Nat
  /\ MaxAckLoss \in Nat
  /\ MaxFaults \in Nat

VARIABLES
  outbox,      \* the event_outbox table
  batch,       \* attempt_count of the rows this tick claimed and not yet handled, else 0
  flight,      \* the row between its publish and the update that records the outcome
  publisher,   \* its loop is running, stopped by a store error, or down with the daemon
  elapsed,     \* seconds since the tick read the clock
  refused,     \* the rows the broker never takes, too large ones for instance
  stream,      \* copies of each row stored by JetStream
  puts,        \* history: writes of each row by the handlers
  acksLost,    \* history: copies stored whose acknowledgement was lost
  faults       \* history: crashes and store errors

publisherVars == <<batch, flight, publisher, elapsed>>
historyVars   == <<puts, acksLost, faults>>
vars == <<outbox, publisherVars, refused, stream, historyVars>>

(***************************************************************************)
(* The delay before the next attempt: 2^(clamp(attempt_count, 1, 6) - 1)   *)
(* seconds (the cap of 60 is never reached).                               *)
(***************************************************************************)
Delays == <<1, 2, 4, 8, 16, 32>>

Clamp(n, low, high) == IF n < low THEN low ELSE IF n > high THEN high ELSE n

retry_delay_seconds(attempts) == Delays[Clamp(attempts, 1, BackoffSteps)]

MaxDelay == retry_delay_seconds(BackoffSteps)

Statuses == {"absent", "pending", "publishing", "published"}

(* wait abstracts next_attempt_at: the seconds until a pending row is due, *)
(* negative when it has been due for a while, and 0 in a row that is not   *)
(* pending, whose next_attempt_at nobody reads. attempt_count saturates at *)
(* BackoffSteps, beyond which no reader can tell its values apart.         *)
Rows == [status : Statuses, attempts : 0 .. BackoffSteps, wait : Int]

NoFlight == [outcome |-> "none", row |-> NoRow, attempts |-> 0]

Flights ==
  {NoFlight} \cup
  [outcome : {"ok", "error"}, row : OutboxIds, attempts : 1 .. BackoffSteps]

Claimed == {id \in OutboxIds : batch[id] > 0}

Ticking == Claimed # {} \/ flight # NoFlight

(* Mutant: a row that failed once is not looked for again.                 *)
Due_FirstAttemptOnly ==
  {id \in OutboxIds : /\ outbox[id].status = "pending" /\ outbox[id].wait <= 0
                      /\ outbox[id].attempts = 0}

Due == {id \in OutboxIds : outbox[id].status = "pending" /\ outbox[id].wait <= 0}

(* ORDER BY next_attempt_at; rows of the same second come in any order.    *)
Precedes(id, other) == outbox[id].wait <= outbox[other].wait

InFlight(id) == flight.row = id

-----------------------------------------------------------------------------
(* Handlers: put_event_outbox is an upsert that overwrites every column.   *)

FreshRow == [status |-> "pending", attempts |-> 0, wait |-> 0]

put_event_outbox(id) ==
  /\ outbox' = [outbox EXCEPT ![id] = FreshRow]
  /\ puts' = [puts EXCEPT ![id] = @ + 1]
  /\ UNCHANGED <<publisherVars, refused, stream, acksLost, faults>>

Put(id) == puts[id] < MaxPuts /\ put_event_outbox(id)

-----------------------------------------------------------------------------
(* The publisher: one tick claims a batch, then publishes its rows one by  *)
(* one and records each outcome before it takes the next.                  *)

(* Mutant: the claim counts the attempt and leaves the status alone.       *)
ClaimedRow_StaysPending(row) ==
  [status   |-> row.status,
   attempts |-> Clamp(row.attempts + 1, 1, BackoffSteps),
   wait     |-> row.wait]

ClaimedRow(row) ==
  [status   |-> "publishing",
   attempts |-> Clamp(row.attempts + 1, 1, BackoffSteps),
   wait     |-> 0]

Claim(ids) ==
  /\ publisher = "running"
  /\ ~Ticking
  /\ ids # {} /\ ids \subseteq Due
  /\ \A id \in ids, other \in Due \ ids : Precedes(id, other)
  /\ ids = Due \/ Cardinality(ids) = BatchLimit
  /\ Cardinality(ids) <= BatchLimit
  /\ outbox' = [id \in OutboxIds |->
                  IF id \in ids THEN ClaimedRow(outbox[id]) ELSE outbox[id]]
  /\ batch' = [id \in OutboxIds |->
                 IF id \in ids THEN ClaimedRow(outbox[id]).attempts ELSE 0]
  /\ elapsed' = 0
  /\ UNCHANGED <<flight, publisher, refused, stream, historyVars>>

TakeFromBatch(id, outcome) ==
  /\ publisher = "running"
  /\ flight = NoFlight
  /\ id \in Claimed
  /\ batch' = [batch EXCEPT ![id] = 0]
  /\ flight' = [outcome |-> outcome, row |-> id, attempts |-> batch[id]]
  /\ UNCHANGED <<outbox, publisher, elapsed, refused, puts, faults>>

(* publish_json returned Ok: JetStream stored the message and said so.     *)
PublishOk(id) ==
  /\ id \notin refused
  /\ TakeFromBatch(id, "ok")
  /\ stream' = [stream EXCEPT ![id] = @ + 1]
  /\ UNCHANGED acksLost

(* publish_json returned Err before the message was stored.                *)
PublishError(id) ==
  /\ TakeFromBatch(id, "error")
  /\ UNCHANGED <<stream, acksLost>>

(* The message was stored, waiting for its acknowledgement failed.         *)
PublishAckLost(id) ==
  /\ id \notin refused
  /\ acksLost[id] < MaxAckLoss
  /\ TakeFromBatch(id, "error")
  /\ stream' = [stream EXCEPT ![id] = @ + 1]
  /\ acksLost' = [acksLost EXCEPT ![id] = @ + 1]

Publish(id) == PublishOk(id) \/ PublishError(id) \/ PublishAckLost(id)

(* Mutant: the outcome of the publish is ignored.                          *)
MarkedRow_AlwaysPublished(row, how) == [row EXCEPT !.status = "published", !.wait = 0]

(* Mutant: the retry only moves next_attempt_at.                           *)
MarkedRow_RetryKeepsStatus(row, how) ==
  IF how.outcome = "ok"
  THEN [row EXCEPT !.status = "published", !.wait = 0]
  ELSE [row EXCEPT !.wait = retry_delay_seconds(how.attempts) - elapsed]

(* Neither update looks at the status the row has by now.                  *)
MarkedRow(row, how) ==
  IF how.outcome = "ok"
  THEN [status   |-> "published",
        attempts |-> row.attempts,
        wait     |-> 0]
  ELSE [status   |-> "pending",
        attempts |-> row.attempts,
        wait     |-> retry_delay_seconds(how.attempts) - elapsed]

Mark ==
  /\ publisher = "running"
  /\ flight # NoFlight
  /\ outbox' = [outbox EXCEPT ![flight.row] = MarkedRow(@, flight)]
  /\ flight' = NoFlight
  /\ UNCHANGED <<batch, publisher, elapsed, refused, stream, historyVars>>

-----------------------------------------------------------------------------
(* Faults. A store error ends the publisher loop (`?`) for the life of the *)
(* process; a crash ends the process, which its supervisor starts again.   *)
(* Both drop the claimed batch.                                            *)

StopPublisher(as) ==
  /\ publisher' = as
  /\ faults < MaxFaults
  /\ faults' = faults + 1
  /\ batch' = [id \in OutboxIds |-> 0]
  /\ flight' = NoFlight
  /\ elapsed' = 0
  /\ UNCHANGED <<outbox, refused, stream, puts, acksLost>>

StoreError == publisher = "running" /\ StopPublisher("stopped")

Crash == publisher # "down" /\ StopPublisher("down")

Restart ==
  /\ publisher = "down"
  /\ publisher' = "running"
  /\ UNCHANGED <<outbox, batch, flight, elapsed, refused, stream, historyVars>>

(* A second passes. It is only told apart while a row waits or a tick      *)
(* works with the clock it read at its start. MaxDelay bounds how long a   *)
(* tick takes: by then each of its retries is due at once.                 *)
Tick ==
  /\ IF Ticking THEN elapsed < MaxDelay
                ELSE \E id \in OutboxIds : outbox[id].wait > 0
  /\ outbox' = [id \in OutboxIds |->
                  IF outbox[id].status = "pending"
                  THEN [outbox[id] EXCEPT !.wait = @ - 1] ELSE outbox[id]]
  /\ elapsed' = IF Ticking THEN elapsed + 1 ELSE elapsed
  /\ UNCHANGED <<batch, flight, publisher, refused, stream, historyVars>>

-----------------------------------------------------------------------------
Init ==
  /\ outbox = [id \in OutboxIds |-> [status |-> "absent", attempts |-> 0, wait |-> 0]]
  /\ batch = [id \in OutboxIds |-> 0]
  /\ flight = NoFlight
  /\ publisher = "running"
  /\ elapsed = 0
  /\ refused \in SUBSET OutboxIds
  /\ stream = [id \in OutboxIds |-> 0]
  /\ puts = [id \in OutboxIds |-> 0]
  /\ acksLost = [id \in OutboxIds |-> 0]
  /\ faults = 0

Next ==
  \/ \E id \in OutboxIds : Put(id) \/ Publish(id)
  \/ \E ids \in SUBSET OutboxIds : Claim(ids)
  \/ Mark
  \/ StoreError \/ Crash
  \/ Restart
  \/ Tick

Spec == Init /\ [][Next]_vars

(***************************************************************************)
(* The loop goes on while the process does and no store call fails, a dead *)
(* daemon is started again (Restart=always of its unit), the clock runs, a *)
(* publish returns, and the broker takes a row in the end unless it never  *)
(* takes that row. Nobody restarts a loop that a store error stopped.      *)
(***************************************************************************)
Fairness ==
  /\ WF_vars(\E ids \in SUBSET OutboxIds : Claim(ids))
  /\ WF_vars(\E id \in OutboxIds : Publish(id))
  /\ \A id \in OutboxIds : SF_vars(PublishOk(id))
  /\ WF_vars(Mark) /\ WF_vars(Restart) /\ WF_vars(Tick)

FairSpec == Spec /\ Fairness

-----------------------------------------------------------------------------
(* Every variable keeps its type; one row is published at a time, and only *)
(* while the loop runs.                                                    *)
TypeOK ==
  /\ outbox \in [OutboxIds -> Rows]
  /\ batch \in [OutboxIds -> 0 .. BackoffSteps]
  /\ flight \in Flights
  /\ publisher \in {"running", "stopped", "down"}
  /\ elapsed \in Nat
  /\ refused \subseteq OutboxIds
  /\ stream \in [OutboxIds -> Nat]
  /\ puts \in [OutboxIds -> Nat]
  /\ acksLost \in [OutboxIds -> Nat]
  /\ faults \in Nat

(* A row the table calls published has a copy on the stream: the update    *)
(* that says so (mark_event_outbox_published) only follows a publish that  *)
(* JetStream acknowledged.                                                 *)
PublishedIsOnStream ==
  \A id \in OutboxIds : outbox[id].status = "published" => stream[id] > 0

(* Duplicates are explained: beyond one copy per write of the row, only a  *)
(* lost acknowledgement puts another one on the stream. Neither a crash    *)
(* nor a store error republishes a row.                                    *)
CopiesAreExplained ==
  \A id \in OutboxIds : stream[id] <= puts[id] + acksLost[id]

(* A row nobody will publish: the publisher that claimed it is gone, and   *)
(* claim_pending_event_outbox only looks for pending rows.                 *)
Orphaned(id) == outbox[id].status = "publishing" /\ batch[id] = 0 /\ ~InFlight(id)

(* Only a crash or a store error in the middle of a tick orphans a row.    *)
OrphansNeedAFault == (\E id \in OutboxIds : Orphaned(id)) => faults > 0

(* A pending row the broker may take is published in the end, unless a     *)
(* fault orphaned it or stopped the loop: rows that fail for ever, more of *)
(* them than a batch holds, do not hold it up, because each attempt puts   *)
(* them behind whatever is due.                                            *)
PendingIsSettled ==
  \A id \in OutboxIds :
    id \notin refused /\ outbox[id].status = "pending"
      ~> (outbox[id].status = "published" \/ Orphaned(id) \/ publisher = "stopped")

-----------------------------------------------------------------------------
(* What the outbox promises the handlers that write to it.                 *)
Owed ==
  {id \in OutboxIds :
     \/ outbox[id].status = "pending"
     \/ batch[id] > 0
     \/ InFlight(id) /\ flight.outcome = "error"}

Queue == INSTANCE OutboxQueue WITH owed <- Owed

(* The table, the publisher and the broker together are such a queue: no   *)
(* copy without a debt, and no debt forgotten but by a fault or once a     *)
(* copy is there.                                                          *)
ImplementsQueue == Queue!Spec
=============================================================================
