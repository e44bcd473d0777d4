------------------------- MODULE EventPipelineProofs -------------------------
(***************************************************************************)
(* Proofs about EventPipeline, for any set of updates, threads and bounds: *)
(* its type invariant, that what the tables call processed or completed    *)
(* left what it had to leave, that only faults repeat an update, and that  *)
(* without faults the statements that belong together are both made.       *)
(***************************************************************************)
EXTENDS EventPipeline, TLAPS

Plain(u) == u \notin Commands /\ u \notin Unroutable /\ u \notin Misruled

RouterOn(u, pcs) == router.update = u /\ router.pc \in pcs
SessionOn(u, pcs) == session.update = u /\ session.pc \in pcs

(* The router works on an event it found unprocessed, in the steps that    *)
(* belong to its kind, and holds a delivery until it acknowledges it.      *)
RouterInv ==
  /\ router.pc # "idle" =>
       router.update \in Updates /\ deliveries[<<"input", router.update>>] > 0
  /\ router.pc \notin {"idle", "ack", "stopped"} =>
       inbound[router.update] # "processed"
  /\ router.pc \in {"route", "enqueue"} => Plain(router.update)
  /\ router.pc = "command" => router.update \in Commands
  /\ router.pc = "deadletter" => router.update \in Unroutable
  /\ router.pc = "mark" => router.update \in Commands \/ Plain(router.update)

(* What the session consumer can see has been routed.                      *)
Routed(u) == Plain(u) /\ routed[u] # "absent"

SessionInv ==
  /\ session.pc = "idle" => session.update = NoUpdate
  /\ session.pc # "idle" =>
       session.update \in Updates /\ deliveries[<<"routed", session.update>>] > 0
  /\ \A u \in Updates :
       /\ RouterOn(u, {"enqueue"}) => Routed(u)
       /\ routed[u] # "absent" => Routed(u)
       /\ <<"routed", u>> \in owed => Routed(u)
       /\ deliveries[<<"routed", u>>] > 0 => Routed(u)

WebhookInv == \A t \in Threads : webhook[t].pc # "idle" => webhook[t].update \in Updates

(* ProcessedWentSomewhere, and the same of an event about to be marked.    *)
Went(u) ==
  IF u \in Commands THEN effects[u] > 0
                    ELSE routed[u] # "absent" /\ <<"routed", u>> \in rows

WentInv ==
  \A u \in Updates : inbound[u] = "processed" \/ RouterOn(u, {"mark"}) => Went(u)

(* CompletedHasOutput, and the same of an event about to be completed.     *)
OutputInv ==
  \A u \in Updates :
    routed[u] = "completed" \/ SessionOn(u, {"complete"}) => <<"output", u>> \in rows

(* The effects an update can still have without another fault: one through *)
(* a routing to come, one through a routed event not yet executed.         *)
RoutingDue(u) ==
  IF \/ RouterOn(u, {"route", "command"})
     \/ inbound[u] # "processed" /\ ~RouterOn(u, {"enqueue", "mark"})
  THEN 1 ELSE 0

TurnDue(u) ==
  IF \/ SessionOn(u, {"task", "turn"})
     \/ routed[u] = "pending" /\ ~SessionOn(u, {"output", "complete"})
  THEN 1 ELSE 0

RepeatInv ==
  \A u \in Updates : effects[u] + RoutingDue(u) + TurnDue(u) <= 1 + 2 * faults

IInv ==
  TypeOK /\ RouterInv /\ SessionInv /\ WebhookInv /\ WentInv /\ OutputInv /\ RepeatInv

-----------------------------------------------------------------------------
(* How the two consumers move.                                             *)

LEMMA RouterMoves ==
  ASSUME TypeOK, RouterInv, RouterNext
  PROVE  /\ router.pc = "command" => router' = [router EXCEPT !.pc = "mark"]
         /\ router.pc = "route" => router' = [router EXCEPT !.pc = "enqueue"]
         /\ router.pc = "enqueue" => router' = [router EXCEPT !.pc = "mark"]
         /\ router.pc = "deadletter" => router' = [router EXCEPT !.pc = "fail"]
         /\ router.pc = "mark" => router' = [router EXCEPT !.pc = "ack"]
<1>1. router.update \in Commands => HandlerOrder(router.update) = CommandOrder
  BY DEF HandlerOrder
<1>2. router.update \in Unroutable => HandlerOrder(router.update) = DeadLetterOrder
  BY PipelineAssumption DEF HandlerOrder
<1>3. Plain(router.update) => HandlerOrder(router.update) = RouteOrder
  BY DEF HandlerOrder, Plain
<1>4. router.pc = "command" => HandlerOrder(router.update)[router.pc] = "mark"
  BY <1>1 DEF RouterInv, CommandOrder
<1>5. router.pc = "route" => HandlerOrder(router.update)[router.pc] = "enqueue"
  BY <1>3 DEF RouterInv, RouteOrder
<1>6. router.pc = "enqueue" => HandlerOrder(router.update)[router.pc] = "mark"
  BY <1>3 DEF RouterInv, RouteOrder
<1>7. router.pc = "deadletter" => HandlerOrder(router.update)[router.pc] = "fail"
  BY <1>2 DEF RouterInv, DeadLetterOrder
<1>8. router.pc = "mark" => HandlerOrder(router.update)[router.pc] = "ack"
  BY <1>1, <1>3 DEF RouterInv, CommandOrder, RouteOrder, Plain
<1>. QED  BY <1>4, <1>5, <1>6, <1>7, <1>8 DEF RouterNext, RouterGoes

LEMMA RouterStart ==
  ASSUME NEW u \in Updates
  PROVE  /\ u \in Commands => HandlerOrder(u).start = "command"
         /\ u \in Unroutable => HandlerOrder(u).start = "deadletter"
         /\ u \in Misruled => HandlerOrder(u).start = "fail"
         /\ Plain(u) => HandlerOrder(u).start = "route"
  BY PipelineAssumption
  DEF HandlerOrder, Plain, CommandOrder, DeadLetterOrder, RejectOrder, RouteOrder

LEMMA SessionMoves ==
  ASSUME SessionNext
  PROVE  /\ session.pc = "task" => session' = [session EXCEPT !.pc = "turn"]
         /\ session.pc = "turn" => session' = [session EXCEPT !.pc = "output"]
         /\ session.pc = "output" => session' = [session EXCEPT !.pc = "complete"]
         /\ session.pc = "complete" => session' = [session EXCEPT !.pc = "close"]
         /\ session.pc = "close" => session' = [session EXCEPT !.pc = "ack"]
  BY DEF SessionNext, TurnOrder

-----------------------------------------------------------------------------
(* The parts of the invariant are preserved, given all of it.              *)

LEMMA NextTypeOK == IInv /\ [Next]_vars => TypeOK'
<1>. SUFFICES ASSUME IInv, [Next]_vars  PROVE TypeOK'
  OBVIOUS
<1>. USE PipelineAssumption DEF IInv, TypeOK, tables, queue, workers, client,
    WebhookStates, RouterStates, SessionStates
<1>1. ASSUME NEW row \in OutboxRows, PutOutbox(row)
      PROVE  /\ rows' \subseteq OutboxRows
             /\ owed' \subseteq Messages
             /\ stream' = stream
             /\ faults' = faults
  BY <1>1 DEF PutOutbox, Queue!Write, OutboxRows
<1>2. ASSUME NEW t \in Threads, NEW u \in Updates, Receive(t, u)  PROVE TypeOK'
  BY <1>2 DEF Receive
<1>3. ASSUME NEW t \in Threads, Insert(t)  PROVE TypeOK'
  <2>1. webhook[t].update \in Updates
    BY <1>3 DEF WebhookInv, Insert, Serves
  <2>2. inbound' \in [Updates -> {"absent", "pending", "processed", "failed"}]
    BY <1>3, <2>1 DEF Insert, InsertedStatus
  <2>. QED  BY <1>3, <2>2 DEF Insert, Threaded
<1>4. ASSUME NEW t \in Threads, Enqueue(t)  PROVE TypeOK'
  <2>1. <<"input", webhook[t].update>> \in OutboxRows
    BY <1>4 DEF WebhookInv, Enqueue, Serves, OutboxRows
  <2>. QED  BY <1>1, <1>4, <2>1 DEF Enqueue, Threaded
<1>5. ASSUME NEW t \in Threads, Reply(t) \/ WebhookFails(t)  PROVE TypeOK'
  <2>1. IdleThread \in WebhookStates
    BY DEF IdleThread
  <2>2. webhook[t].pc = "reply" => webhook[t].update \in Updates
    BY DEF WebhookInv
  <2>. QED  BY <1>5, <2>1, <2>2 DEF Reply, WebhookFails, Fault, Serves
<1>6. ASSUME NEW m \in Messages, Publish(m) \/ Swallow(m) \/ Redeliver(m)  PROVE TypeOK'
  BY <1>6 DEF Publish, Swallow, Redeliver, Queue!Send, Queue!Swallow
<1>7. Idle \in [pc : {"idle"}, update : {NoUpdate}]
  BY DEF Idle
<1>8. ASSUME NEW u \in Updates, RouterTake(u)  PROVE TypeOK'
  BY <1>8, RouterStart DEF RouterTake, Plain
<1>9. CASE RouterCommand \/ RouterRoute \/ RouterMark
  BY <1>9, RouterMoves
  DEF RouterCommand, RouterRoute, RouterMark, RouterAt, RouterInv
<1>10. CASE RouterEnqueue
  <2>1. <<"routed", router.update>> \in OutboxRows /\ <<"dlq", router.update>> \in OutboxRows
    BY <1>10 DEF RouterEnqueue, RouterAt, RouterInv, OutboxRows
  <2>. QED  BY <1>1, <1>10, <2>1, RouterMoves DEF RouterEnqueue, RouterAt
<1>11. CASE RouterMarkFailed
  BY <1>11 DEF RouterMarkFailed, RouterAt, RouterGoes, RouterInv
<1>12. CASE RouterAck
  <2>1. /\ <<"input", router.update>> \in Messages
        /\ deliveries[<<"input", router.update>>] > 0
    BY <1>12 DEF RouterAck, RouterAt, RouterInv, Messages
  <2>. QED  BY <1>7, <1>12, <2>1 DEF RouterAck, Acknowledge
<1>13. ASSUME NEW u \in Updates, SessionTake(u)  PROVE TypeOK'
  BY <1>13 DEF SessionTake, TurnOrder
<1>14. CASE SessionTask \/ SessionTurn \/ SessionComplete
  <2>1. /\ session.pc \in {"task", "turn", "complete", "close"}
        /\ SessionNext
    BY <1>14 DEF SessionTask, SessionTurn, SessionComplete, SessionAt
  <2>2. session' \in SessionStates
    BY <2>1, SessionMoves
  <2>3. task' \in [Updates -> {"absent", "running", "completed"}]
    BY <1>14, <2>1 DEF SessionTask, SessionTurn, SessionComplete, SessionInv
  <2>4. routed' \in [Updates -> {"absent", "pending", "completed"}]
    BY <1>14, <2>1 DEF SessionTask, SessionTurn, SessionComplete, SessionInv
  <2>5. effects' \in [Updates -> Nat]
    BY <1>14, <2>1 DEF SessionTask, SessionTurn, SessionComplete, SessionInv
  <2>6. UNCHANGED <<inbound, rows, queue, deliveries, redelivered, webhook, router, client>>
    BY <1>14 DEF SessionTask, SessionTurn, SessionComplete
  <2>. QED  BY <2>2, <2>3, <2>4, <2>5, <2>6
<1>15. CASE SessionOutput
  <2>1. <<"output", session.update>> \in OutboxRows
    BY <1>15 DEF SessionOutput, SessionAt, SessionInv, OutboxRows
  <2>. QED  BY <1>1, <1>15, <2>1, SessionMoves DEF SessionOutput, SessionAt
<1>16. CASE SessionAck
  <2>1. /\ <<"routed", session.update>> \in Messages
        /\ deliveries[<<"routed", session.update>>] > 0
    BY <1>16 DEF SessionAck, SessionAt, SessionInv, Messages
  <2>. QED  BY <1>7, <1>16, <2>1 DEF SessionAck, Acknowledge
<1>17. CASE RouterFails
  <2>1. ASSUME NEW pc \in AfterError(router.pc), RouterGoes(pc)
        PROVE  router' \in RouterStates
    <3>1. pc \in {"ack", "fail", "stopped"}
      BY DEF AfterError
    <3>. QED  BY <2>1, <3>1 DEF RouterGoes
  <2>2. ASSUME NEW u \in Updates, router' = [pc |-> "ack", update |-> u]
        PROVE  router' \in RouterStates
    BY <2>2
  <2>3. router' \in RouterStates
    BY <1>17, <2>1, <2>2 DEF RouterFails
  <2>. QED  BY <1>17, <2>3 DEF RouterFails, Fault
<1>18. CASE SessionFails
  <2>1. ASSUME NEW u \in Updates, session' = [pc |-> "ack", update |-> u]
        PROVE  session' \in SessionStates
    BY <2>1
  <2>2. ASSUME NEW pc \in {"ack", "stopped"}, session' = [session EXCEPT !.pc = pc]
        PROVE  session' \in SessionStates
    BY <2>2
  <2>3. session' \in SessionStates
    BY <1>18, <2>1, <2>2 DEF SessionFails, SessionAt
  <2>. QED  BY <1>18, <2>3 DEF SessionFails, Fault
<1>19. CASE PublisherFails
  BY <1>19 DEF PublisherFails, Queue!Fail
<1>20. CASE Crash
  <2>1. IdleThread \in WebhookStates
    BY DEF IdleThread
  <2>2. webhook' \in [Threads -> WebhookStates]
    BY <1>20, <2>1 DEF Crash
  <2>3. router' \in RouterStates /\ session' \in SessionStates
    BY <1>7, <1>20 DEF Crash
  <2>. QED  BY <1>20, <2>2, <2>3 DEF Crash, Queue!Fail
<1>21. CASE UNCHANGED vars
  BY <1>21 DEF vars
<1>. QED
  BY <1>2, <1>3, <1>4, <1>5, <1>6, <1>8, <1>9, <1>10, <1>11, <1>12, <1>13, <1>14,
     <1>15, <1>16, <1>17, <1>18, <1>19, <1>20, <1>21
  DEF Next, WebhookStep, RouterStep, SessionStep

LEMMA NextWebhookInv == IInv /\ [Next]_vars => WebhookInv'
<1>. SUFFICES ASSUME IInv, [Next]_vars  PROVE WebhookInv'
  OBVIOUS
<1>. USE DEF IInv, TypeOK, WebhookInv, WebhookStates, IdleThread, workers
<1>1. ASSUME NEW t \in Threads, NEW u \in Updates, Receive(t, u)  PROVE WebhookInv'
  BY <1>1 DEF Receive
<1>2. ASSUME NEW t \in Threads, Insert(t) \/ Enqueue(t) \/ Reply(t) \/ WebhookFails(t)
      PROVE  WebhookInv'
  BY <1>2 DEF Insert, Enqueue, Reply, WebhookFails, Threaded, Serves
<1>3. ASSUME NEW m \in Messages, Publish(m) \/ Swallow(m) \/ Redeliver(m)
      PROVE  WebhookInv'
  BY <1>3 DEF Publish, Swallow, Redeliver
<1>4. CASE RouterStep \/ RouterFails
  BY <1>4
  DEF RouterStep, RouterTake, RouterCommand, RouterRoute, RouterEnqueue, RouterMark,
      RouterMarkFailed, RouterAck, RouterFails
<1>5. CASE SessionStep \/ SessionFails
  BY <1>5
  DEF SessionStep, SessionTake, SessionTask, SessionTurn, SessionOutput,
      SessionComplete, SessionAck, SessionFails
<1>6. CASE PublisherFails \/ Crash
  BY <1>6 DEF PublisherFails, Crash
<1>7. CASE UNCHANGED vars
  BY <1>7 DEF vars
<1>. QED
  BY <1>1, <1>2, <1>3, <1>4, <1>5, <1>6, <1>7 DEF Next, WebhookStep

LEMMA NextRouterInv == IInv /\ [Next]_vars => RouterInv'
<1>. SUFFICES ASSUME IInv, [Next]_vars  PROVE RouterInv'
  OBVIOUS
<1>. USE DEF IInv, TypeOK, RouterInv, RouterStates, Messages, tables, workers
<1>1. ASSUME NEW t \in Threads, NEW u \in Updates, Receive(t, u)  PROVE RouterInv'
  BY <1>1 DEF Receive
<1>2. ASSUME NEW t \in Threads, Enqueue(t) \/ Reply(t) \/ WebhookFails(t)
       PROVE  RouterInv'
  BY <1>2 DEF Enqueue, Reply, WebhookFails
<1>3. ASSUME NEW t \in Threads, Insert(t)  PROVE RouterInv'
  BY <1>3 DEF Insert, InsertedStatus, WebhookInv, Serves
<1>4. ASSUME NEW m \in Messages, Publish(m) \/ Swallow(m) \/ Redeliver(m)
      PROVE  RouterInv'
  <2>1. \A n \in Messages : deliveries'[n] >= deliveries[n]
    BY <1>4 DEF Publish, Swallow, Redeliver
  <2>2. inbound' = inbound /\ router' = router
    BY <1>4 DEF Publish, Swallow, Redeliver
  <2>3. router.pc # "idle" => <<"input", router.update>> \in Messages
    OBVIOUS
  <2>4. router.pc # "idle" => deliveries'[<<"input", router.update>>] > 0
    BY <2>1, <2>3, <1>4 DEF Publish, Swallow, Redeliver
  <2>. QED  BY <2>2, <2>4
<1>5. ASSUME NEW u \in Updates, RouterTake(u)  PROVE RouterInv'
  BY <1>5, RouterStart, PipelineAssumption DEF RouterTake, AlreadyRouted, Plain
<1>6. CASE RouterCommand \/ RouterRoute \/ RouterEnqueue
  BY <1>6, RouterMoves, PipelineAssumption
  DEF RouterCommand, RouterRoute, RouterEnqueue, RouterAt, Plain
<1>7. CASE RouterMark \/ RouterMarkFailed
  BY <1>7, RouterMoves DEF RouterMark, RouterMarkFailed, RouterAt, RouterGoes
<1>8. CASE RouterAck
  BY <1>8 DEF RouterAck, Idle
<1>9. CASE SessionStep
  <2>1. CASE SessionAck
    BY <1>9, <2>1 DEF SessionAck, SessionAt, SessionInv, Acknowledge
  <2>. QED
    BY <1>9, <2>1
    DEF SessionStep, SessionTake, SessionTask, SessionTurn, SessionOutput, SessionComplete
<1>10. CASE RouterFails
  <2>1. ASSUME NEW u \in Updates, deliveries[<<"input", u>>] > 0,
               router' = [pc |-> "ack", update |-> u]
        PROVE  RouterInv'
    BY <1>10, <2>1 DEF RouterFails
  <2>2. ASSUME NEW pc \in AfterError(router.pc), RouterGoes(pc)
        PROVE  RouterInv'
    <3>1. /\ router.pc # "idle"
          /\ pc \in {"ack", "stopped", "fail"}
          /\ pc = "fail" => router.pc \notin {"idle", "ack", "stopped"}
      BY <2>2 DEF AfterError
    <3>. QED  BY <1>10, <2>2, <3>1 DEF RouterFails, RouterGoes
  <2>. QED  BY <1>10, <2>1, <2>2 DEF RouterFails
<1>11. CASE SessionFails \/ PublisherFails
  BY <1>11 DEF SessionFails, PublisherFails
<1>12. CASE Crash
  BY <1>12 DEF Crash, Idle
<1>13. CASE UNCHANGED vars
  BY <1>13 DEF vars
<1>. HIDE DEF IInv, TypeOK, RouterInv
<1>. QED
  BY <1>1, <1>2, <1>3, <1>4, <1>5, <1>6, <1>7, <1>8, <1>9, <1>10, <1>11, <1>12,
     <1>13
  DEF Next, WebhookStep, RouterStep

(* What PutOutbox leaves behind.                                           *)
LEMMA PutRows ==
  ASSUME NEW row, PutOutbox(row)
  PROVE  /\ rows' = rows \cup {row}
         /\ faults' = faults
         /\ owed' \subseteq owed \cup ({row} \cap Messages)
  BY DEF PutOutbox, Queue!Write, queue

LEMMA NextSessionInv == IInv /\ [Next]_vars => SessionInv'
<1>. SUFFICES ASSUME IInv, [Next]_vars  PROVE SessionInv'
  OBVIOUS
<1>. USE DEF IInv, TypeOK, SessionInv, Routed, RouterOn, RouterStates, SessionStates,
             Messages, tables, queue, workers
<1>1. ASSUME NEW t \in Threads, NEW u \in Updates, Receive(t, u)  PROVE SessionInv'
  BY <1>1 DEF Receive
<1>2. ASSUME NEW t \in Threads, Insert(t) \/ Reply(t) \/ WebhookFails(t)
      PROVE  SessionInv'
  BY <1>2 DEF Insert, Reply, WebhookFails
<1>3. ASSUME NEW t \in Threads, Enqueue(t)  PROVE SessionInv'
  BY <1>3, PutRows DEF Enqueue
<1>4. ASSUME NEW m \in Messages, Publish(m) \/ Swallow(m) \/ Redeliver(m)
      PROVE  SessionInv'
  <2>1. CASE Publish(m)
    <3>1. /\ deliveries' = [deliveries EXCEPT ![m] = @ + 1]
          /\ m \in owed /\ owed' \subseteq owed
          /\ UNCHANGED <<routed, router, session>>
      BY <2>1 DEF Publish, Queue!Send
    <3>. QED  BY <3>1
  <2>2. CASE Swallow(m)
    BY <2>2 DEF Swallow, Queue!Swallow
  <2>3. CASE Redeliver(m)
    <3>1. /\ deliveries' = [deliveries EXCEPT ![m] = @ + 1]
          /\ UNCHANGED <<routed, router, session, owed>>
      BY <2>3 DEF Redeliver
    <3>2. \A u \in Updates : m = <<"routed", u>> => deliveries[m] > 0
      BY <2>3, PipelineAssumption DEF Redeliver, Handling
    <3>. QED  BY <3>1, <3>2
  <2>. QED  BY <1>4, <2>1, <2>2, <2>3
<1>5. ASSUME NEW u \in Updates, RouterTake(u)  PROVE SessionInv'
  BY <1>5, RouterStart, PipelineAssumption DEF RouterTake, Plain
<1>6. CASE RouterCommand \/ RouterMark \/ RouterMarkFailed
  BY <1>6, RouterMoves
  DEF RouterCommand, RouterMark, RouterMarkFailed, RouterAt, RouterGoes
<1>7. CASE RouterRoute
  BY <1>7, RouterMoves DEF RouterRoute, RouterAt, RouterInv
<1>8. CASE RouterEnqueue
  <2>1. owed' \subseteq owed \cup {<<"routed", u>> : u \in {v \in Updates : RouterOn(v, {"enqueue"})}}
    BY <1>8, PutRows DEF RouterEnqueue, RouterAt, RouterInv
  <2>. QED  BY <1>8, <2>1, RouterMoves DEF RouterEnqueue, RouterAt
<1>9. CASE RouterAck
  <2>1. \A u \in Updates : deliveries'[<<"routed", u>>] = deliveries[<<"routed", u>>]
    BY <1>9 DEF RouterAck, Acknowledge
  <2>. QED  BY <1>9, <2>1 DEF RouterAck, Idle
<1>10. ASSUME NEW u \in Updates, SessionTake(u)  PROVE SessionInv'
  BY <1>10 DEF SessionTake, TurnOrder
<1>11. CASE SessionTask \/ SessionTurn
  BY <1>11, SessionMoves DEF SessionTask, SessionTurn, SessionAt
<1>12. CASE SessionOutput
  <2>1. <<"output", session.update>> \notin Messages
    OBVIOUS
  <2>2. owed' \subseteq owed
    BY <1>12, <2>1, PutRows DEF SessionOutput
  <2>. QED  BY <1>12, <2>2, SessionMoves DEF SessionOutput, SessionAt
<1>13. CASE SessionComplete
  BY <1>13, SessionMoves DEF SessionComplete, SessionAt
<1>14. CASE SessionAck
  <2>1. /\ deliveries' = [deliveries EXCEPT ![<<"routed", session.update>>] = @ - 1]
        /\ <<"routed", session.update>> \in Messages
        /\ session' = Idle /\ UNCHANGED <<routed, router, owed>>
    BY <1>14 DEF SessionAck, SessionAt, Acknowledge
  <2>2. \A u \in Updates :
          deliveries'[<<"routed", u>>] > 0 => deliveries[<<"routed", u>>] > 0
    BY <2>1
  <2>. QED  BY <2>1, <2>2 DEF Idle
<1>15. CASE RouterFails
  <2>1. ASSUME NEW pc \in AfterError(router.pc), RouterGoes(pc)
        PROVE  router'.pc # "enqueue"
    BY <2>1 DEF RouterGoes, AfterError
  <2>2. ASSUME NEW u \in Updates, router' = [pc |-> "ack", update |-> u]
        PROVE  router'.pc # "enqueue"
    BY <2>2
  <2>3. router'.pc # "enqueue"
    BY <1>15, <2>1, <2>2 DEF RouterFails
  <2>. QED  BY <1>15, <2>3 DEF RouterFails
<1>16. CASE SessionFails
  <2>1. ASSUME NEW u \in Updates, deliveries[<<"routed", u>>] > 0,
               session' = [pc |-> "ack", update |-> u]
        PROVE  SessionInv'
    BY <1>16, <2>1 DEF SessionFails
  <2>2. ASSUME NEW pc \in {"ack", "stopped"}, session' = [session EXCEPT !.pc = pc],
               session.pc # "idle"
        PROVE  SessionInv'
    BY <1>16, <2>2 DEF SessionFails
  <2>. QED  BY <1>16, <2>1, <2>2 DEF SessionFails, SessionAt
<1>17. CASE PublisherFails \/ Crash
  BY <1>17 DEF PublisherFails, Crash, Queue!Fail, Idle
<1>18. CASE UNCHANGED vars
  BY <1>18 DEF vars
<1>. HIDE DEF IInv, TypeOK, SessionInv
<1>. QED
  BY <1>1, <1>2, <1>3, <1>4, <1>5, <1>6, <1>7, <1>8, <1>9, <1>10, <1>11, <1>12,
     <1>13, <1>14, <1>15, <1>16, <1>17, <1>18
  DEF Next, WebhookStep, RouterStep, SessionStep

LEMMA NextWentInv == IInv /\ [Next]_vars => WentInv'
<1>. SUFFICES ASSUME IInv, [Next]_vars  PROVE WentInv'
  OBVIOUS
<1>. USE DEF IInv, TypeOK, WentInv, Went, RouterOn, RouterStates, tables, workers
<1>1. ASSUME NEW t \in Threads, NEW u \in Updates, Receive(t, u)  PROVE WentInv'
  BY <1>1 DEF Receive
<1>2. ASSUME NEW t \in Threads, Insert(t)  PROVE WentInv'
  BY <1>2 DEF Insert, InsertedStatus
<1>3. ASSUME NEW t \in Threads, Enqueue(t)  PROVE WentInv'
  BY <1>3, PutRows DEF Enqueue
<1>4. ASSUME NEW t \in Threads, Reply(t) \/ WebhookFails(t)  PROVE WentInv'
  BY <1>4 DEF Reply, WebhookFails
<1>5. ASSUME NEW m \in Messages, Publish(m) \/ Swallow(m) \/ Redeliver(m)  PROVE WentInv'
  BY <1>5 DEF Publish, Swallow, Redeliver
<1>6. ASSUME NEW u \in Updates, RouterTake(u)  PROVE WentInv'
  BY <1>6, RouterStart, PipelineAssumption DEF RouterTake, Plain
<1>7. CASE RouterCommand
  BY <1>7, RouterMoves DEF RouterCommand, RouterAt, RouterInv
<1>8. CASE RouterRoute
  BY <1>8, RouterMoves DEF RouterRoute, RouterAt
<1>9. CASE RouterEnqueue
  <2>1. rows \subseteq rows'
    BY <1>9, PutRows DEF RouterEnqueue
  <2>2. router.pc = "enqueue" => <<"routed", router.update>> \in rows'
    BY <1>9, PutRows DEF RouterEnqueue, RouterAt
  <2>3. router.pc = "enqueue" =>
          router.update \notin Commands /\ routed[router.update] # "absent"
    BY DEF RouterInv, SessionInv, Routed, Plain
  <2>4. router.pc = "enqueue" => router' = [router EXCEPT !.pc = "mark"]
    BY <1>9, RouterMoves DEF RouterEnqueue
  <2>5. router.pc = "deadletter" => router' = [router EXCEPT !.pc = "fail"]
    BY <1>9, RouterMoves DEF RouterEnqueue
  <2>. QED  BY <1>9, <2>1, <2>2, <2>3, <2>4, <2>5 DEF RouterEnqueue, RouterAt
<1>10. CASE RouterMark
  BY <1>10, RouterMoves DEF RouterMark, RouterAt
<1>11. CASE RouterMarkFailed \/ RouterAck
  BY <1>11 DEF RouterMarkFailed, RouterAck, RouterAt, RouterGoes, Idle
<1>12. ASSUME NEW u \in Updates, SessionTake(u)  PROVE WentInv'
  BY <1>12 DEF SessionTake
<1>13. CASE SessionTask \/ SessionTurn \/ SessionAck \/ SessionFails
  BY <1>13 DEF SessionTask, SessionTurn, SessionAck, SessionFails
<1>14. CASE SessionOutput
  BY <1>14, PutRows DEF SessionOutput
<1>15. CASE SessionComplete
  BY <1>15 DEF SessionComplete
<1>16. CASE RouterFails
  <2>1. ASSUME NEW pc \in AfterError(router.pc), RouterGoes(pc)
        PROVE  router'.pc # "mark"
    BY <2>1 DEF RouterGoes, AfterError
  <2>2. ASSUME NEW u \in Updates, router' = [pc |-> "ack", update |-> u]
        PROVE  router'.pc # "mark"
    BY <2>2
  <2>3. router'.pc # "mark"
    BY <1>16, <2>1, <2>2 DEF RouterFails
  <2>. QED  BY <1>16, <2>3 DEF RouterFails
<1>17. CASE PublisherFails \/ Crash
  BY <1>17 DEF PublisherFails, Crash, Idle
<1>18. CASE UNCHANGED vars
  BY <1>18 DEF vars
<1>. HIDE DEF IInv, TypeOK, WentInv
<1>. QED
  BY <1>1, <1>2, <1>3, <1>4, <1>5, <1>6, <1>7, <1>8, <1>9, <1>10, <1>11, <1>12,
     <1>13, <1>14, <1>15, <1>16, <1>17, <1>18
  DEF Next, WebhookStep, RouterStep, SessionStep

LEMMA NextOutputInv == IInv /\ [Next]_vars => OutputInv'
<1>. SUFFICES ASSUME IInv, [Next]_vars  PROVE OutputInv'
  OBVIOUS
<1>. USE DEF IInv, TypeOK, OutputInv, SessionOn, SessionStates, tables, workers
<1>1. ASSUME NEW t \in Threads, NEW u \in Updates, Receive(t, u)  PROVE OutputInv'
  BY <1>1 DEF Receive
<1>2. ASSUME NEW t \in Threads, Insert(t) \/ Reply(t) \/ WebhookFails(t)
      PROVE  OutputInv'
  BY <1>2 DEF Insert, Reply, WebhookFails
<1>3. ASSUME NEW t \in Threads, Enqueue(t)  PROVE OutputInv'
  BY <1>3, PutRows DEF Enqueue
<1>4. ASSUME NEW m \in Messages, Publish(m) \/ Swallow(m) \/ Redeliver(m)  PROVE OutputInv'
  BY <1>4 DEF Publish, Swallow, Redeliver
<1>5. ASSUME NEW u \in Updates, RouterTake(u)  PROVE OutputInv'
  BY <1>5 DEF RouterTake
<1>6. CASE RouterCommand \/ RouterMark \/ RouterMarkFailed \/ RouterAck \/ RouterFails
  BY <1>6 DEF RouterCommand, RouterMark, RouterMarkFailed, RouterAck, RouterFails
<1>7. CASE RouterRoute
  BY <1>7 DEF RouterRoute
<1>8. CASE RouterEnqueue
  BY <1>8, PutRows DEF RouterEnqueue
<1>9. ASSUME NEW u \in Updates, SessionTake(u)  PROVE OutputInv'
  BY <1>9 DEF SessionTake, TurnOrder
<1>10. CASE SessionTask \/ SessionTurn
  BY <1>10, SessionMoves DEF SessionTask, SessionTurn, SessionAt
<1>11. CASE SessionOutput
  BY <1>11, PutRows, SessionMoves DEF SessionOutput, SessionAt
<1>12. CASE SessionComplete
  BY <1>12, SessionMoves DEF SessionComplete, SessionAt
<1>13. CASE SessionAck
  BY <1>13 DEF SessionAck, Idle
<1>14. CASE SessionFails
  <2>1. ASSUME NEW u \in Updates, session' = [pc |-> "ack", update |-> u]
        PROVE  session'.pc # "complete"
    BY <2>1
  <2>2. ASSUME NEW pc \in {"ack", "stopped"}, session' = [session EXCEPT !.pc = pc]
        PROVE  session'.pc # "complete"
    BY <2>2
  <2>3. session'.pc # "complete"
    BY <1>14, <2>1, <2>2 DEF SessionFails, SessionAt
  <2>. QED  BY <1>14, <2>3 DEF SessionFails
<1>15. CASE PublisherFails \/ Crash
  BY <1>15 DEF PublisherFails, Crash, Idle
<1>16. CASE UNCHANGED vars
  BY <1>16 DEF vars
<1>. HIDE DEF IInv, TypeOK, OutputInv
<1>. QED
  BY <1>1, <1>2, <1>3, <1>4, <1>5, <1>6, <1>7, <1>8, <1>9, <1>10, <1>11, <1>12,
     <1>13, <1>14, <1>15, <1>16
  DEF Next, WebhookStep, RouterStep, SessionStep

(* A step without a fault has no more effects than it takes off the sum of *)
(* those still due; a fault adds two at most, for at most two are due.     *)
LEMMA NextRepeatInv == IInv /\ [Next]_vars => RepeatInv'
<1>. SUFFICES ASSUME IInv, [Next]_vars, NEW u \in Updates
              PROVE  (effects[u] + RoutingDue(u) + TurnDue(u) <= 1 + 2 * faults)'
  BY DEF RepeatInv
<1>. DEFINE Due == RoutingDue(u) + TurnDue(u)
<1>a. RoutingDue(u) \in {0, 1} /\ TurnDue(u) \in {0, 1}
  BY DEF RoutingDue, TurnDue
<1>b. RoutingDue(u)' \in {0, 1} /\ TurnDue(u)' \in {0, 1}
  BY DEF RoutingDue, TurnDue
<1>c. effects[u] \in Nat /\ faults \in Nat
  BY PipelineAssumption DEF IInv, TypeOK
<1>d. effects[u] + RoutingDue(u) + TurnDue(u) <= 1 + 2 * faults
  BY DEF IInv, RepeatInv
<1>e. ASSUME effects' = effects, faults' = faults + 1
      PROVE  (effects[u] + RoutingDue(u) + TurnDue(u) <= 1 + 2 * faults)'
  BY <1>a, <1>b, <1>c, <1>d, <1>e
<1>f. ASSUME effects' = effects, faults' = faults,
             RoutingDue(u)' <= RoutingDue(u), TurnDue(u)' <= TurnDue(u)
      PROVE  (effects[u] + RoutingDue(u) + TurnDue(u) <= 1 + 2 * faults)'
  BY <1>a, <1>b, <1>c, <1>d, <1>f
<1>g. ASSUME inbound' = inbound, router' = router
      PROVE  RoutingDue(u)' = RoutingDue(u)
  BY <1>g DEF RoutingDue, RouterOn
<1>h. ASSUME routed' = routed, session' = session
      PROVE  TurnDue(u)' = TurnDue(u)
  BY <1>h DEF TurnDue, SessionOn
<1>. USE DEF IInv, TypeOK, RouterOn, SessionOn, RouterStates, SessionStates,
             tables, queue, workers
<1>1. ASSUME NEW t \in Threads, NEW v \in Updates, Receive(t, v)
      PROVE  (effects[u] + RoutingDue(u) + TurnDue(u) <= 1 + 2 * faults)'
  BY <1>1, <1>a, <1>f, <1>g, <1>h DEF Receive
<1>2. ASSUME NEW t \in Threads, Insert(t)
      PROVE  (effects[u] + RoutingDue(u) + TurnDue(u) <= 1 + 2 * faults)'
  <2>1. RoutingDue(u)' = RoutingDue(u)
    BY <1>2 DEF Insert, InsertedStatus, RoutingDue
  <2>. QED  BY <1>2, <2>1, <1>a, <1>f, <1>h DEF Insert
<1>3. ASSUME NEW t \in Threads, Enqueue(t) \/ Reply(t)
      PROVE  (effects[u] + RoutingDue(u) + TurnDue(u) <= 1 + 2 * faults)'
  BY <1>3, <1>a, <1>f, <1>g, <1>h, PutRows DEF Enqueue, Reply
<1>4. ASSUME NEW t \in Threads, WebhookFails(t)
      PROVE  (effects[u] + RoutingDue(u) + TurnDue(u) <= 1 + 2 * faults)'
  BY <1>4, <1>e DEF WebhookFails, Fault
<1>5. ASSUME NEW m \in Messages, Publish(m) \/ Swallow(m) \/ Redeliver(m)
      PROVE  (effects[u] + RoutingDue(u) + TurnDue(u) <= 1 + 2 * faults)'
  BY <1>5, <1>a, <1>f, <1>g, <1>h
  DEF Publish, Swallow, Redeliver, Queue!Send, Queue!Swallow
<1>6. ASSUME NEW v \in Updates, RouterTake(v)
      PROVE  (effects[u] + RoutingDue(u) + TurnDue(u) <= 1 + 2 * faults)'
  <2>1. RoutingDue(u)' <= RoutingDue(u)
    BY <1>6, RouterStart DEF RouterTake, RouterAt, AlreadyRouted, RoutingDue, Plain
  <2>. QED  BY <1>6, <2>1, <1>a, <1>f, <1>h DEF RouterTake
<1>7. CASE RouterCommand
  <2>1. router.update = u => RoutingDue(u) = 1 /\ RoutingDue(u)' = 0
    BY <1>7, RouterMoves DEF RouterCommand, RouterAt, RoutingDue
  <2>2. router.update # u => effects'[u] = effects[u] /\ RoutingDue(u)' = RoutingDue(u)
    BY <1>7, RouterMoves DEF RouterCommand, RouterAt, RoutingDue
  <2>3. router.update = u => effects'[u] = effects[u] + 1
    BY <1>7 DEF RouterCommand
  <2>4. effects'[u] + RoutingDue(u)' <= effects[u] + RoutingDue(u)
    BY <2>1, <2>2, <2>3, <1>a, <1>c
  <2>5. TurnDue(u)' = TurnDue(u) /\ faults' = faults
    BY <1>7, <1>h DEF RouterCommand
  <2>6. effects'[u] \in Nat
    BY <2>2, <2>3, <1>c
  <2>. HIDE DEF IInv, TypeOK
  <2>. QED  BY <2>4, <2>5, <2>6, <1>a, <1>b, <1>c, <1>d
<1>8. CASE RouterRoute
  <2>1. router.update = u => RoutingDue(u) = 1 /\ RoutingDue(u)' = 0
    BY <1>8, RouterMoves DEF RouterRoute, RouterAt, RoutingDue
  <2>2. router.update # u => RoutingDue(u)' = RoutingDue(u) /\ TurnDue(u)' = TurnDue(u)
    BY <1>8, RouterMoves DEF RouterRoute, RouterAt, RoutingDue, TurnDue
  <2>3. effects' = effects /\ faults' = faults
    BY <1>8 DEF RouterRoute
  <2>. HIDE DEF IInv, TypeOK
  <2>. QED  BY <2>1, <2>2, <2>3, <1>a, <1>b, <1>c, <1>d
<1>9. CASE RouterEnqueue
  <2>1. RoutingDue(u)' = RoutingDue(u)
    BY <1>9, RouterMoves DEF RouterEnqueue, RouterAt, RoutingDue
  <2>. QED  BY <1>9, <2>1, <1>a, <1>f, <1>h, PutRows DEF RouterEnqueue
<1>10. CASE RouterMark \/ RouterMarkFailed \/ RouterAck
  <2>1. RoutingDue(u)' <= RoutingDue(u)
    BY <1>10, RouterMoves
    DEF RouterMark, RouterMarkFailed, RouterAck, RouterAt, RouterGoes, Idle, RoutingDue,
        RouterInv
  <2>. QED  BY <1>10, <2>1, <1>a, <1>f, <1>h DEF RouterMark, RouterMarkFailed, RouterAck
<1>11. ASSUME NEW v \in Updates, SessionTake(v)
       PROVE  (effects[u] + RoutingDue(u) + TurnDue(u) <= 1 + 2 * faults)'
  <2>1. v = u => routed[u] \in {"pending", "completed"}
    BY <1>11 DEF SessionTake, SessionInv, Routed
  <2>2. TurnDue(u)' <= TurnDue(u)
    BY <1>11, <2>1 DEF SessionTake, SessionAt, AlreadyExecuted, TurnOrder, TurnDue
  <2>. QED  BY <1>11, <2>2, <1>a, <1>f, <1>g DEF SessionTake
<1>12. CASE SessionTurn
  <2>1. session.update = u => TurnDue(u) = 1 /\ TurnDue(u)' = 0
    BY <1>12, SessionMoves DEF SessionTurn, SessionAt, TurnDue
  <2>2. session.update # u => effects'[u] = effects[u] /\ TurnDue(u)' = TurnDue(u)
    BY <1>12, SessionMoves DEF SessionTurn, SessionAt, TurnDue
  <2>3. session.update = u => effects'[u] = effects[u] + 1
    BY <1>12 DEF SessionTurn
  <2>4. effects'[u] + TurnDue(u)' <= effects[u] + TurnDue(u)
    BY <2>1, <2>2, <2>3, <1>a, <1>c
  <2>5. RoutingDue(u)' = RoutingDue(u) /\ faults' = faults
    BY <1>12, <1>g DEF SessionTurn
  <2>6. effects'[u] \in Nat
    BY <2>2, <2>3, <1>c
  <2>. HIDE DEF IInv, TypeOK
  <2>. QED  BY <2>4, <2>5, <2>6, <1>a, <1>b, <1>c, <1>d
<1>13. CASE SessionTask \/ SessionComplete \/ SessionAck
  <2>1. TurnDue(u)' <= TurnDue(u)
    BY <1>13, SessionMoves
    DEF SessionTask, SessionComplete, SessionAck, SessionAt, Idle, TurnDue
  <2>. QED  BY <1>13, <2>1, <1>a, <1>f, <1>g DEF SessionTask, SessionComplete, SessionAck
<1>14. CASE SessionOutput
  <2>1. TurnDue(u)' = TurnDue(u)
    BY <1>14, SessionMoves DEF SessionOutput, SessionAt, TurnDue
  <2>. QED  BY <1>14, <2>1, <1>a, <1>f, <1>g, PutRows DEF SessionOutput
<1>15. CASE RouterFails \/ SessionFails \/ PublisherFails \/ Crash
  BY <1>15, <1>e DEF RouterFails, SessionFails, PublisherFails, Crash, Fault, Queue!Fail
<1>16. CASE UNCHANGED vars
  BY <1>16, <1>a, <1>f, <1>g, <1>h DEF vars
<1>. HIDE DEF IInv, TypeOK
<1>. QED
  BY <1>1, <1>2, <1>3, <1>4, <1>5, <1>6, <1>7, <1>8, <1>9, <1>10, <1>11, <1>12,
     <1>13, <1>14, <1>15, <1>16
  DEF Next, WebhookStep, RouterStep, SessionStep

-----------------------------------------------------------------------------
(* The whole is an invariant of the pipeline.                              *)
THEOREM InductiveInvariant == Spec => []IInv
<1>1. Init => IInv
  <2>. SUFFICES ASSUME Init  PROVE IInv
    OBVIOUS
  <2>1. TypeOK
    BY PipelineAssumption
    DEF Init, TypeOK, Queue!Init, Idle, IdleThread, Messages, WebhookStates,
        RouterStates, SessionStates
  <2>2. RouterInv /\ SessionInv /\ WebhookInv
    BY PipelineAssumption
    DEF Init, RouterInv, SessionInv, WebhookInv, Queue!Init, Idle, IdleThread, Messages,
        RouterOn
  <2>3. WentInv /\ OutputInv
    BY DEF Init, WentInv, OutputInv, RouterOn, SessionOn, Idle
  <2>4. RepeatInv
    <3>. SUFFICES ASSUME NEW u \in Updates
                  PROVE  effects[u] + RoutingDue(u) + TurnDue(u) <= 1 + 2 * faults
      BY DEF RepeatInv
    <3>1. effects[u] = 0 /\ faults = 0
      BY DEF Init, Queue!Init
    <3>2. RoutingDue(u) \in {0, 1}
      BY DEF RoutingDue
    <3>3. TurnDue(u) = 0
      BY DEF Init, TurnDue, SessionOn, Idle
    <3>. QED  BY <3>1, <3>2, <3>3
  <2>. QED  BY <2>1, <2>2, <2>3, <2>4 DEF IInv
<1>2. IInv /\ [Next]_vars => IInv'
  BY NextTypeOK, NextRouterInv, NextSessionInv, NextWebhookInv, NextWentInv,
     NextOutputInv, NextRepeatInv
  DEF IInv
<1>. QED  BY <1>1, <1>2, PTL DEF Spec

(* Every variable of the pipeline keeps its type.                          *)
THEOREM TypeCorrect == Spec => []TypeOK
  BY InductiveInvariant, PTL DEF IInv

(* Processed is never said of an event that went nowhere, whatever crashes *)
(* and whatever is delivered twice.                                        *)
THEOREM ProcessedEventsWentSomewhere == Spec => []ProcessedWentSomewhere
<1>1. IInv => ProcessedWentSomewhere
  BY DEF IInv, WentInv, Went, ProcessedWentSomewhere
<1>. QED  BY <1>1, InductiveInvariant, PTL

(* A completed routed event has its output in the outbox.                  *)
THEOREM CompletedEventsHaveOutput == Spec => []CompletedHasOutput
<1>1. IInv => CompletedHasOutput
  BY DEF IInv, OutputInv, CompletedHasOutput
<1>. QED  BY <1>1, InductiveInvariant, PTL

(* However often an update is sent, published or delivered, it is run once *)
(* and at most twice more for every fault.                                 *)
THEOREM OnlyFaultsRepeat == Spec => []RepeatsNeedFaults
<1>1. IInv => RepeatsNeedFaults
  <2>. SUFFICES ASSUME IInv, NEW u \in Updates
                PROVE  effects[u] <= 1 + 2 * faults
    BY DEF RepeatsNeedFaults
  <2>1. RoutingDue(u) \in {0, 1} /\ TurnDue(u) \in {0, 1}
    BY DEF RoutingDue, TurnDue
  <2>2. effects[u] \in Nat /\ faults \in Nat
    BY PipelineAssumption DEF IInv, TypeOK
  <2>3. effects[u] + RoutingDue(u) + TurnDue(u) <= 1 + 2 * faults
    BY DEF IInv, RepeatInv
  <2>. QED  BY <2>1, <2>2, <2>3
<1>. QED  BY <1>1, InductiveInvariant, PTL
-----------------------------------------------------------------------------
(* PairsAreComplete. Its two halves are strengthened by the step that is   *)
(* about to make the second statement of a pair: the router that is about  *)
(* to mark an event failed, the session that is about to close a task.     *)
FailedInv ==
  \A u \in Updates :
    /\ inbound[u] = "failed" \/ RouterOn(u, {"fail"})
    /\ faults = 0
    => u \in Misruled \/ (u \in Unroutable /\ <<"dlq", u>> \in rows)

(* A session works on an event that is not completed until it completes it *)
(* itself: nobody else does.                                               *)
TaskInv ==
  faults = 0 =>
    \A u \in Updates :
      /\ SessionOn(u, {"task", "turn", "output", "complete"}) => routed[u] # "completed"
      /\ routed[u] = "completed" => task[u] = "completed" \/ SessionOn(u, {"close"})

(* Whoever fails, is lost or dies leaves no promise to keep.               *)
LEMMA FaultsCount ==
  ASSUME TypeOK,
         \/ \E t \in Threads : WebhookFails(t)
         \/ RouterFails \/ SessionFails \/ PublisherFails \/ Crash
  PROVE  faults' # 0
  BY PipelineAssumption
  DEF TypeOK, WebhookFails, RouterFails, SessionFails, PublisherFails, Crash, Fault,
      Queue!Fail

LEMMA NextFailedInv == IInv /\ FailedInv /\ [Next]_vars => FailedInv'
<1>. SUFFICES ASSUME IInv, FailedInv, [Next]_vars  PROVE FailedInv'
  OBVIOUS
<1>. USE DEF IInv, TypeOK, FailedInv, RouterOn, RouterStates, tables, queue, workers
<1>1. ASSUME NEW t \in Threads, NEW u \in Updates, Receive(t, u)  PROVE FailedInv'
  BY <1>1 DEF Receive
<1>2. ASSUME NEW t \in Threads, Insert(t)  PROVE FailedInv'
  BY <1>2 DEF Insert, InsertedStatus
<1>3. ASSUME NEW t \in Threads, Enqueue(t)  PROVE FailedInv'
  BY <1>3, PutRows DEF Enqueue
<1>4. ASSUME NEW t \in Threads, Reply(t)  PROVE FailedInv'
  BY <1>4 DEF Reply
<1>5. ASSUME NEW m \in Messages, Publish(m) \/ Swallow(m) \/ Redeliver(m)
      PROVE  FailedInv'
  BY <1>5 DEF Publish, Swallow, Redeliver, Queue!Send, Queue!Swallow
<1>6. ASSUME NEW u \in Updates, RouterTake(u)  PROVE FailedInv'
  BY <1>6, RouterStart DEF RouterTake, Plain
<1>7. CASE RouterCommand \/ RouterRoute
  BY <1>7, RouterMoves DEF RouterCommand, RouterRoute, RouterAt
<1>8. CASE RouterEnqueue
  <2>1. rows \subseteq rows' /\ faults' = faults
    BY <1>8, PutRows DEF RouterEnqueue
  <2>2. CASE router.pc = "enqueue"
    BY <1>8, <2>1, <2>2, RouterMoves DEF RouterEnqueue
  <2>3. CASE router.pc = "deadletter"
    <3>1. router.update \in Unroutable
      BY <2>3 DEF RouterInv
    <3>2. <<"dlq", router.update>> \in rows'
      BY <1>8, <2>3, PutRows DEF RouterEnqueue, RouterAt
    <3>3. router' = [router EXCEPT !.pc = "fail"]
      BY <1>8, <2>3, RouterMoves DEF RouterEnqueue
    <3>. QED  BY <1>8, <2>1, <3>1, <3>2, <3>3 DEF RouterEnqueue
  <2>. QED  BY <1>8, <2>2, <2>3 DEF RouterEnqueue, RouterAt
<1>9. CASE RouterMark
  BY <1>9, RouterMoves DEF RouterMark, RouterAt
<1>10. CASE RouterMarkFailed \/ RouterAck
  BY <1>10 DEF RouterMarkFailed, RouterAck, RouterAt, RouterGoes, Idle
<1>11. CASE SessionStep
  <2>1. rows \subseteq rows' /\ UNCHANGED <<inbound, faults, router>>
    BY <1>11, PutRows
    DEF SessionStep, SessionTake, SessionTask, SessionTurn, SessionOutput,
        SessionComplete, SessionAck
  <2>. QED  BY <2>1
<1>12. CASE UNCHANGED vars
  BY <1>12 DEF vars
<1>. HIDE DEF TypeOK
<1>13. CASE \/ \E t \in Threads : WebhookFails(t)
            \/ RouterFails \/ SessionFails \/ PublisherFails \/ Crash
  BY <1>13, FaultsCount
<1>. HIDE DEF IInv, FailedInv
<1>. QED
  BY <1>1, <1>2, <1>3, <1>4, <1>5, <1>6, <1>7, <1>8, <1>9, <1>10, <1>11, <1>12, <1>13
  DEF Next, WebhookStep, RouterStep

LEMMA NextTaskInv == IInv /\ TaskInv /\ [Next]_vars => TaskInv'
<1>. SUFFICES ASSUME IInv, TaskInv, [Next]_vars  PROVE TaskInv'
  OBVIOUS
<1>. USE DEF IInv, TypeOK, TaskInv, SessionOn, SessionStates, tables, queue, workers
<1>1. ASSUME NEW t \in Threads,
             (\E u \in Updates : Receive(t, u)) \/ Insert(t) \/ Enqueue(t) \/ Reply(t)
      PROVE  TaskInv'
  BY <1>1, PutRows DEF Receive, Insert, Enqueue, Reply
<1>2. ASSUME NEW m \in Messages, Publish(m) \/ Swallow(m) \/ Redeliver(m)
      PROVE  TaskInv'
  BY <1>2 DEF Publish, Swallow, Redeliver, Queue!Send, Queue!Swallow
<1>3. CASE RouterRoute
  BY <1>3 DEF RouterRoute
<1>4. CASE \/ \E u \in Updates : RouterTake(u)
           \/ RouterCommand \/ RouterEnqueue
           \/ RouterMark \/ RouterMarkFailed \/ RouterAck
  BY <1>4, PutRows
  DEF RouterTake, RouterCommand, RouterEnqueue, RouterMark, RouterMarkFailed, RouterAck
<1>5. ASSUME NEW u \in Updates, SessionTake(u)  PROVE TaskInv'
  BY <1>5 DEF SessionTake, SessionAt, AlreadyExecuted, TurnOrder
<1>6. CASE SessionTask
  BY <1>6, SessionMoves DEF SessionTask, SessionAt, SessionInv
<1>7. CASE SessionTurn
  BY <1>7, SessionMoves DEF SessionTurn, SessionAt
<1>8. CASE SessionOutput
  BY <1>8, SessionMoves, PutRows DEF SessionOutput, SessionAt
<1>9. CASE SessionComplete
  BY <1>9, SessionMoves DEF SessionComplete, SessionAt
<1>10. CASE SessionAck
  BY <1>10 DEF SessionAck, SessionAt, Idle
<1>11. CASE UNCHANGED vars
  BY <1>11 DEF vars
<1>. HIDE DEF TypeOK
<1>12. CASE \/ \E t \in Threads : WebhookFails(t)
            \/ RouterFails \/ SessionFails \/ PublisherFails \/ Crash
  BY <1>12, FaultsCount
<1>. HIDE DEF IInv, TaskInv
<1>. QED
  BY <1>1, <1>2, <1>3, <1>4, <1>5, <1>6, <1>7, <1>8, <1>9, <1>10, <1>11, <1>12
  DEF Next, WebhookStep, RouterStep, SessionStep

(* Without faults an event that fails left a dead letter, unless its rule  *)
(* is broken, and the task of a completed event is closed.                 *)
THEOREM StatementsArePaired == Spec => []PairsAreComplete
<1>1. Init => FailedInv /\ TaskInv
  BY DEF Init, FailedInv, TaskInv, RouterOn, Idle
<1>2. IInv /\ FailedInv /\ TaskInv /\ [Next]_vars => FailedInv' /\ TaskInv'
  BY NextFailedInv, NextTaskInv
<1>3. FailedInv /\ TaskInv => PairsAreComplete
  <2>1. FailedInv => FailuresAreDeadLettered
    BY DEF FailedInv, FailuresAreDeadLettered
  <2>2. TaskInv => CompletedTaskIsClosed
    BY DEF TaskInv, CompletedTaskIsClosed, SessionOn
  <2>. QED  BY <2>1, <2>2 DEF PairsAreComplete
<1>. QED  BY <1>1, <1>2, <1>3, InductiveInvariant, PTL DEF Spec
=============================================================================
