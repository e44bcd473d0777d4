---------------------------- MODULE EventPipeline ----------------------------
(***************************************************************************)
(* From a Telegram update to the answer of the agent: the webhook handler  *)
(* (cmd/agentd/src/telegram/webhook.rs), the router consumer               *)
(* (event_runtime_runner.rs, router_worker.rs) and the session consumer    *)
(* (event_runtime_runner.rs, session_worker.rs), over the tables           *)
(* inbound_events, routed_events, task_registry and event_outbox.          *)
(*                                                                         *)
(* Every store call is an autocommit statement and a step of its own. The  *)
(* webhook runs one thread per request; each consumer handles one delivery *)
(* at a time and acknowledges it whatever the handler returned. The outbox *)
(* is taken at its promise, OutboxQueue, which EventOutbox implements.     *)
(***************************************************************************)
EXTENDS Integers, FiniteSets

CONSTANTS
  Updates,        \* Telegram updates, one dedupe_key each
  Commands,       \* the updates that are control commands
  Unroutable,     \* the updates no enabled router rule matches
  Misruled,       \* the updates whose rule is invalid or names a target that is gone
  Threads,        \* HTTP request threads
  NoUpdate,       \* no update
  MaxUpdates,     \* bound: how many of the updates Telegram sends at all
  MaxRequests,    \* bound: how often Telegram sends one update
  MaxCopies,      \* bound: copies of one outbox row on the stream
  MaxDeliveries,  \* bound: unacknowledged deliveries of one message
  MaxRedeliveries,\* bound: deliveries repeated because a handler is slow
  MaxFaults       \* bound: crashes, failing calls

ASSUME PipelineAssumption ==
  /\ NoUpdate \notin Updates
  /\ Commands \subseteq Updates
  /\ Unroutable \subseteq Updates \ Commands
  /\ Misruled \subseteq Updates \ (Commands \cup Unroutable)
  /\ {MaxUpdates, MaxRequests, MaxCopies, MaxDeliveries, MaxRedeliveries, MaxFaults}
       \subseteq Nat

VARIABLES
  inbound,     \* inbound_events: the status of each update
  routed,      \* routed_events: the status of routed-<event>
  task,        \* task_registry: the status of task-routed-<event>
  rows,        \* the rows event_outbox holds
  owed,        \* the outbox as a queue: rows written and not yet sent,
  stream,      \*   copies of each row on the stream,
  faults,      \*   and history: crashes and failing calls
  deliveries,  \* deliveries of each message nobody acknowledged
  redelivered, \* history: deliveries repeated by the acknowledgement timeout
  webhook,     \* the request threads
  router,      \* the router consumer
  session,     \* the session consumer
  requests,    \* history: how often Telegram sent each update
  accepted,    \* history: the updates Telegram saw answered with 200
  effects      \* history: commands carried out and chat turns begun for each update

tables  == <<inbound, routed, task>>
queue   == <<owed, stream, faults>>
workers == <<webhook, router, session>>
client  == <<requests, accepted>>
vars == <<tables, rows, queue, deliveries, redelivered, workers, client, effects>>

Messages == {"input", "routed"} \X Updates
OutboxRows == {"input", "routed", "output", "dlq"} \X Updates

Queue == INSTANCE OutboxQueue WITH OutboxIds <- Messages

(* put_event_outbox. Who reads the output and dlq subjects is not modelled *)
(* here, so only the rows of the other two are owed to the stream.         *)
PutOutbox(row) ==
  /\ rows' = rows \cup {row}
  /\ IF row \in Messages THEN Queue!Write(row) ELSE UNCHANGED queue

-----------------------------------------------------------------------------
(* The straight-line part of each handler: where it begins, and what       *)
(* follows each of its steps.                                              *)

IdleThread == [pc |-> "idle", update |-> NoUpdate, duplicate |-> FALSE]
Idle == [pc |-> "idle", update |-> NoUpdate]

(* Mutant: the event is marked before it is routed.                        *)
RouteOrder_MarkFirst ==
  [start |-> "mark", mark |-> "route", route |-> "enqueue", enqueue |-> "ack"]

RouteOrder ==
  [start |-> "route", route |-> "enqueue", enqueue |-> "mark", mark |-> "ack"]

CommandOrder == [start |-> "command", command |-> "mark", mark |-> "ack"]

(* Mutant: no dead letter is written.                                      *)
DeadLetterOrder_Silent == [start |-> "fail"]

DeadLetterOrder == [start |-> "deadletter", deadletter |-> "fail"]

(* A rule that cannot be read, or names a target nobody registered, leaves *)
(* route_inbound_event before the routed row: the event is marked failed,  *)
(* and no dead letter is written.                                          *)
RejectOrder == [start |-> "fail"]

(* Mutant: the routed event is completed before its output is persisted.   *)
TurnOrder_CompleteFirst ==
  [start |-> "task", task |-> "turn", turn |-> "complete", complete |-> "output",
   output |-> "close", close |-> "ack"]

TurnOrder ==
  [start |-> "task", task |-> "turn", turn |-> "output", output |-> "complete",
   complete |-> "close", close |-> "ack"]

HandlerOrder(u) ==
  IF u \in Commands THEN CommandOrder
  ELSE IF u \in Unroutable THEN DeadLetterOrder
  ELSE IF u \in Misruled THEN RejectOrder
  ELSE RouteOrder

RouterAt(pc) == router.pc = pc
RouterGoes(pc) == router' = [router EXCEPT !.pc = pc]
RouterNext == RouterGoes(HandlerOrder(router.update)[router.pc])
SessionAt(pc) == session.pc = pc
SessionNext == session' = [session EXCEPT !.pc = TurnOrder[session.pc]]

-----------------------------------------------------------------------------
(* The webhook. Telegram repeats an update until it sees a 200, and may    *)
(* repeat it while an earlier request is still being served.               *)

Threaded(t, pc) == webhook' = [webhook EXCEPT ![t].pc = pc]
Serves(t, pc) == webhook[t].pc = pc

(* The request arrives and get_inbound_event tells whether it is known.    *)
Receive(t, u) ==
  /\ Serves(t, "idle")
  /\ u \notin accepted
  /\ requests[u] < MaxRequests
  /\ Cardinality({v \in Updates : requests[v] > 0} \cup {u}) <= MaxUpdates
  /\ requests' = [requests EXCEPT ![u] = @ + 1]
  /\ webhook' = [webhook EXCEPT ![t] =
                   [pc |-> "insert", update |-> u, duplicate |-> inbound[u] # "absent"]]
  /\ UNCHANGED <<tables, rows, queue, deliveries, redelivered, router, session, accepted, effects>>

(* put_inbound_event: ON CONFLICT(dedupe_key) DO NOTHING.                  *)
InsertedStatus(u) == IF inbound[u] = "absent" THEN "pending" ELSE inbound[u]

Insert(t) ==
  LET u == webhook[t].update IN
  /\ Serves(t, "insert")
  /\ inbound' = [inbound EXCEPT ![u] = InsertedStatus(u)]
  /\ Threaded(t, IF webhook[t].duplicate THEN "reply" ELSE "enqueue")
  /\ UNCHANGED <<routed, task, rows, queue, deliveries, redelivered, router, session, client, effects>>

Enqueue(t) ==
  /\ Serves(t, "enqueue")
  /\ PutOutbox(<<"input", webhook[t].update>>)
  /\ Threaded(t, "reply")
  /\ UNCHANGED <<tables, deliveries, redelivered, router, session, client, effects>>

(* The reply reaches Telegram, or the connection is gone by then.          *)
Reply(t) ==
  /\ Serves(t, "reply")
  /\ accepted' \in {accepted, accepted \cup {webhook[t].update}}
  /\ webhook' = [webhook EXCEPT ![t] = IdleThread]
  /\ UNCHANGED <<tables, rows, queue, deliveries, redelivered, router, session, requests, effects>>

-----------------------------------------------------------------------------
(* JetStream. A copy on the stream is one delivery owed to the consumer; a *)
(* handler slower than the acknowledgement timeout is sent the message it  *)
(* works on once more.                                                     *)

Publish(m) ==
  /\ stream[m] < MaxCopies
  /\ deliveries[m] < MaxDeliveries
  /\ Queue!Send(m)
  /\ deliveries' = [deliveries EXCEPT ![m] = @ + 1]
  /\ UNCHANGED <<tables, rows, redelivered, workers, client, effects>>

Swallow(m) ==
  /\ Queue!Swallow(m)
  /\ UNCHANGED <<tables, rows, deliveries, redelivered, workers, client, effects>>

Handling == {<<"input", router.update>>, <<"routed", session.update>>} \cap Messages

Redeliver(m) ==
  /\ m \in Handling
  /\ redelivered < MaxRedeliveries
  /\ deliveries[m] < MaxDeliveries
  /\ deliveries' = [deliveries EXCEPT ![m] = @ + 1]
  /\ redelivered' = redelivered + 1
  /\ UNCHANGED <<tables, rows, queue, workers, client, effects>>

Acknowledge(m) == deliveries' = [deliveries EXCEPT ![m] = @ - 1]

-----------------------------------------------------------------------------
(* The router consumer.                                                    *)

AlreadyRouted(u) == inbound[u] = "processed"

RouterTake(u) ==
  /\ RouterAt("idle")
  /\ deliveries[<<"input", u>>] > 0
  /\ router' = [pc     |-> IF AlreadyRouted(u) THEN "ack" ELSE HandlerOrder(u).start,
                update |-> u]
  /\ UNCHANGED <<tables, rows, queue, deliveries, redelivered, webhook, session, client, effects>>

(* worker.handle_update carries out a control command.                     *)
RouterCommand ==
  /\ RouterAt("command")
  /\ effects' = [effects EXCEPT ![router.update] = @ + 1]
  /\ RouterNext
  /\ UNCHANGED <<tables, rows, queue, deliveries, redelivered, webhook, session, client>>

(* put_routed_event is an upsert: a completed row becomes pending again.   *)
RouterRoute ==
  /\ RouterAt("route")
  /\ routed' = [routed EXCEPT ![router.update] = "pending"]
  /\ RouterNext
  /\ UNCHANGED <<inbound, task, rows, queue, deliveries, redelivered, webhook, session, client, effects>>

RouterEnqueue ==
  /\ \/ RouterAt("enqueue") /\ PutOutbox(<<"routed", router.update>>)
     \/ RouterAt("deadletter") /\ PutOutbox(<<"dlq", router.update>>)
  /\ RouterNext
  /\ UNCHANGED <<tables, deliveries, redelivered, webhook, session, client, effects>>

RouterMark ==
  /\ RouterAt("mark")
  /\ inbound' = [inbound EXCEPT ![router.update] = "processed"]
  /\ RouterNext
  /\ UNCHANGED <<routed, task, rows, queue, deliveries, redelivered, webhook, session, client, effects>>

RouterMarkFailed ==
  /\ RouterAt("fail")
  /\ inbound' = [inbound EXCEPT ![router.update] = "failed"]
  /\ RouterGoes("ack")
  /\ UNCHANGED <<routed, task, rows, queue, deliveries, redelivered, webhook, session, client, effects>>

RouterAck ==
  /\ RouterAt("ack")
  /\ Acknowledge(<<"input", router.update>>)
  /\ router' = Idle
  /\ UNCHANGED <<tables, rows, queue, redelivered, webhook, session, client, effects>>

-----------------------------------------------------------------------------
(* The session consumer.                                                   *)

(* Mutant: a completed event is executed again.                            *)
AlreadyExecuted_Never(u) == FALSE

(* Mutant: a pending event is taken for an executed one.                   *)
AlreadyExecuted_IfKnown(u) == routed[u] # "absent"

AlreadyExecuted(u) == routed[u] = "completed"

SessionTake(u) ==
  /\ SessionAt("idle")
  /\ deliveries[<<"routed", u>>] > 0
  /\ session' = [pc     |-> IF AlreadyExecuted(u) THEN "ack" ELSE TurnOrder.start,
                 update |-> u]
  /\ UNCHANGED <<tables, rows, queue, deliveries, redelivered, webhook, router, client, effects>>

SessionTask ==
  /\ \/ SessionAt("task") /\ task' = [task EXCEPT ![session.update] = "running"]
     \/ SessionAt("close") /\ task' = [task EXCEPT ![session.update] = "completed"]
  /\ SessionNext
  /\ UNCHANGED <<inbound, routed, rows, queue, deliveries, redelivered, webhook, router, client, effects>>

(* execute_chat_turn: from here on the update has a run.                   *)
SessionTurn ==
  /\ SessionAt("turn")
  /\ effects' = [effects EXCEPT ![session.update] = @ + 1]
  /\ SessionNext
  /\ UNCHANGED <<tables, rows, queue, deliveries, redelivered, webhook, router, client>>

SessionOutput ==
  /\ SessionAt("output")
  /\ PutOutbox(<<"output", session.update>>)
  /\ SessionNext
  /\ UNCHANGED <<tables, deliveries, redelivered, webhook, router, client, effects>>

(* put_routed_event writes back the whole row read before the turn.        *)
SessionComplete ==
  /\ SessionAt("complete")
  /\ routed' = [routed EXCEPT ![session.update] = "completed"]
  /\ SessionNext
  /\ UNCHANGED <<inbound, task, rows, queue, deliveries, redelivered, webhook, router, client, effects>>

SessionAck ==
  /\ SessionAt("ack")
  /\ Acknowledge(<<"routed", session.update>>)
  /\ session' = Idle
  /\ UNCHANGED <<tables, rows, queue, redelivered, webhook, router, client, effects>>

-----------------------------------------------------------------------------
(* Faults: a call fails, the publisher loses its batch, the daemon dies.   *)

Fault == faults < MaxFaults /\ faults' = faults + 1

(* A store error is answered with 500.                                     *)
WebhookFails(t) ==
  /\ webhook[t].pc \in {"insert", "enqueue"}
  /\ Fault
  /\ webhook' = [webhook EXCEPT ![t] = IdleThread]
  /\ UNCHANGED <<tables, rows, owed, stream, deliveries, redelivered, router, session, client, effects>>

(* Where the router goes on when a call fails. An error of                 *)
(* ensure_telegram_binding_route leaves the event as it is; an error of    *)
(* route_inbound_event marks it failed, also when put_event_outbox did     *)
(* commit but reported an error ("mark"). A failing ack ends the loop.     *)
AfterError(pc) ==
  CASE pc \in {"route", "mark"} -> {"ack", "fail"}
    [] pc \in {"command", "enqueue", "deadletter"} -> {"fail"}
    [] pc = "fail" -> {"ack"}
    [] pc = "ack" -> {"stopped"}
    [] OTHER -> {}

RouterFails ==
  /\ Fault
  /\ \/ RouterAt("idle") /\ \E u \in Updates :
          deliveries[<<"input", u>>] > 0 /\ router' = [pc |-> "ack", update |-> u]
     \/ \E pc \in AfterError(router.pc) : RouterGoes(pc)
  /\ UNCHANGED <<tables, rows, owed, stream, deliveries, redelivered, webhook, session, client, effects>>

(* An error of execute_routed_session_event is logged and acknowledged; a  *)
(* turn that stops for an approval is such an error.                       *)
SessionFails ==
  /\ Fault
  /\ \/ SessionAt("idle") /\ \E u \in Updates :
          deliveries[<<"routed", u>>] > 0 /\ session' = [pc |-> "ack", update |-> u]
     \/ session.pc \in {"task", "turn", "output", "complete", "close"} /\
          session' = [session EXCEPT !.pc = "ack"]
     \/ SessionAt("ack") /\ session' = [session EXCEPT !.pc = "stopped"]
  /\ UNCHANGED <<tables, rows, owed, stream, deliveries, redelivered, webhook, router, client, effects>>

PublisherFails ==
  /\ faults < MaxFaults
  /\ Queue!Fail
  /\ UNCHANGED <<tables, rows, deliveries, redelivered, workers, client, effects>>

(* The daemon dies and is started again: what is not in PostgreSQL or      *)
(* JetStream is gone, and unacknowledged messages are delivered again.     *)
Crash ==
  /\ faults < MaxFaults
  /\ Queue!Fail
  /\ webhook' = [t \in Threads |-> IdleThread]
  /\ router' = Idle
  /\ session' = Idle
  /\ UNCHANGED <<tables, rows, deliveries, redelivered, client, effects>>

-----------------------------------------------------------------------------
Init ==
  /\ inbound = [u \in Updates |-> "absent"]
  /\ routed = [u \in Updates |-> "absent"]
  /\ task = [u \in Updates |-> "absent"]
  /\ rows = {}
  /\ Queue!Init
  /\ deliveries = [m \in Messages |-> 0]
  /\ redelivered = 0
  /\ webhook = [t \in Threads |-> IdleThread]
  /\ router = Idle
  /\ session = Idle
  /\ requests = [u \in Updates |-> 0]
  /\ accepted = {}
  /\ effects = [u \in Updates |-> 0]

WebhookStep(t) == Insert(t) \/ Enqueue(t) \/ Reply(t)

RouterStep ==
  \/ \E u \in Updates : RouterTake(u)
  \/ RouterCommand \/ RouterRoute \/ RouterEnqueue
  \/ RouterMark \/ RouterMarkFailed \/ RouterAck

SessionStep ==
  \/ \E u \in Updates : SessionTake(u)
  \/ SessionTask \/ SessionTurn \/ SessionOutput \/ SessionComplete \/ SessionAck

Next ==
  \/ \E t \in Threads :
       (\E u \in Updates : Receive(t, u)) \/ WebhookStep(t) \/ WebhookFails(t)
  \/ \E m \in Messages : Publish(m) \/ Swallow(m) \/ Redeliver(m)
  \/ RouterStep \/ RouterFails
  \/ SessionStep \/ SessionFails
  \/ PublisherFails
  \/ Crash

Spec == Init /\ [][Next]_vars

(* The threads and the consumer loops run on, and the outbox publishes     *)
(* what it owes (PendingIsSettled of EventOutbox).                         *)
Fairness ==
  /\ \A t \in Threads : WF_vars(WebhookStep(t))
  /\ \A m \in Messages : WF_vars(Publish(m))
  /\ WF_vars(RouterStep) /\ WF_vars(SessionStep)

FairSpec == Spec /\ Fairness

-----------------------------------------------------------------------------
WebhookStates ==
  [pc : {"idle", "insert", "enqueue", "reply"}, update : Updates \cup {NoUpdate},
   duplicate : BOOLEAN]

RouterStates ==
  [pc : {"idle", "command", "route", "enqueue", "deadletter", "mark", "fail", "ack",
         "stopped"},
   update : Updates \cup {NoUpdate}]

SessionStates ==
  [pc : {"idle", "task", "turn", "output", "complete", "close", "ack", "stopped"},
   update : Updates \cup {NoUpdate}]

(* Every variable keeps its type.                                          *)
TypeOK ==
  /\ inbound \in [Updates -> {"absent", "pending", "processed", "failed"}]
  /\ routed \in [Updates -> {"absent", "pending", "completed"}]
  /\ task \in [Updates -> {"absent", "running", "completed"}]
  /\ rows \subseteq OutboxRows
  /\ owed \subseteq Messages
  /\ stream \in [Messages -> 0 .. MaxCopies]
  /\ faults \in 0 .. MaxFaults
  /\ deliveries \in [Messages -> 0 .. MaxDeliveries]
  /\ redelivered \in 0 .. MaxRedeliveries
  /\ webhook \in [Threads -> WebhookStates]
  /\ router \in RouterStates
  /\ session \in SessionStates
  /\ requests \in [Updates -> 0 .. MaxRequests]
  /\ accepted \subseteq Updates
  /\ effects \in [Updates -> Nat]

(* Processed is never said of an event that went nowhere: whatever crashed *)
(* or was delivered twice, a processed command has been carried out, and a *)
(* processed message has a routed event and a row that announces it.       *)
ProcessedWentSomewhere ==
  \A u \in Updates :
    inbound[u] = "processed" =>
      IF u \in Commands THEN effects[u] > 0
                        ELSE routed[u] # "absent" /\ <<"routed", u>> \in rows

(* A completed routed event, which no consumer will execute again, has its *)
(* output in the outbox.                                                   *)
CompletedHasOutput ==
  \A u \in Updates : routed[u] = "completed" => <<"output", u>> \in rows

(* Repeated requests, repeated publishes and repeated deliveries run an    *)
(* update once. It takes a fault to run it again, and one fault is worth   *)
(* two more runs at most.                                                  *)
RepeatsNeedFaults == \A u \in Updates : effects[u] <= 1 + 2 * faults

(* Without faults an event fails for want of a route, and then leaves a    *)
(* dead letter, or because its rule is broken, and then leaves nothing.    *)
FailuresAreDeadLettered ==
  \A u \in Updates :
    inbound[u] = "failed" /\ faults = 0 =>
      u \in Misruled \/ (u \in Unroutable /\ <<"dlq", u>> \in rows)

(* Without faults the task of a completed event is closed when the worker  *)
(* has let go of it.                                                       *)
CompletedTaskIsClosed ==
  \A u \in Updates :
    routed[u] = "completed" /\ faults = 0 /\ session.update # u => task[u] = "completed"

(* Statements that belong together are both made.                          *)
PairsAreComplete == FailuresAreDeadLettered /\ CompletedTaskIsClosed

Settled(u) ==
  CASE u \in Commands   -> effects[u] > 0
    [] u \in Unroutable -> <<"dlq", u>> \in rows
    [] u \in Misruled   -> inbound[u] = "failed"
    [] OTHER            -> <<"output", u>> \in rows

(* An update Telegram saw accepted is answered, unless something failed.   *)
AcceptedIsSettled ==
  \A u \in Updates : u \in accepted ~> (Settled(u) \/ faults > 0)
=============================================================================
