---------------------------- MODULE OutputDelivery ----------------------------
(***************************************************************************)
(* The answers of one session on their way to its output routes: the       *)
(* output consumer (cmd/agentd/src/delivery_worker.rs), next to the two    *)
(* others who write the rows of session_output_routes, the router          *)
(* (router_worker.rs, event_runtime_runner.rs) and the operators           *)
(* (bootstrap/delivery_ops.rs).                                            *)
(*                                                                         *)
(* Each of them reads a row, works on its copy and stores the whole copy;  *)
(* between two store calls anything may happen. The output consumer reads  *)
(* all routes once and keeps the copies while it sends to one after the    *)
(* other.                                                                  *)
(***************************************************************************)
EXTENDS Integers

CONSTANTS
  Routes,          \* the session's canonical routes, format_policy not errors_only
  Ruled,           \* the routes a router rule asks for with each message
  Outputs,         \* the output events of the session, a chat turn each
  Operators,       \* threads that serve /attach_output, /detach_output, updates
  NoOutput,        \* no output
  NoRoute,         \* no route
  Chunks,          \* the chunks the text of an answer is sent in
  Attempts,        \* telegram.delivery_retry_attempts
  MaxTime,         \* bound: the seconds that pass
  MaxRoutings,     \* bound: how often the router materializes a route
  MaxRequests,     \* bound: requests of the operators
  MaxRedeliveries, \* bound: output events published or delivered once more
  MaxLost,         \* bound: the replies of Telegram lost for an output on a route
  MaxFaults        \* bound: crashes, failing store calls

ASSUME DeliveryAssumption ==
  /\ NoOutput \notin Outputs
  /\ NoRoute \notin Routes
  /\ Ruled \subseteq Routes
  /\ Chunks \in Nat \ {0} /\ Attempts \in Nat \ {0} /\ MaxTime \in Nat \ {0}
  /\ {MaxRoutings, MaxRequests, MaxRedeliveries, MaxLost, MaxFaults} \subseteq Nat

VARIABLES
  at,          \* created_at of each answer, 0 before its turn
  turn,        \* the session worker: the turn under way
  due,         \* deliveries of each output event nobody acknowledged
  rows,        \* session_output_routes
  records,     \* event_deliveries: the status for each route and output
  consumer,    \* the output consumer: where it is in its handler
  copies,      \*   the rows it has read,
  todo,        \*   and the routes it has not looked at yet
  chunk,       \*   in the sender: the chunk it is at
  attempt,     \*   and which attempt of it
  router,      \* the router consumer, materializing a route
  operators,   \* the threads of the operators
  sends,       \* history: how often each chunk of each output arrived on each route
  lapses,      \* history: how often the sender lost a reply, or gave up after a chunk
  finished,    \* history: the routes a completed handler has listed for each output
  rewinds,     \* history: how often a write moved the cursor of each route back
  given,       \* history: the latest cursor a route got from the transcripts
  silent,      \* history: the routes detached while nobody held a copy
  faults, routings, requests, redelivered   \* history: the bounded events

session == <<at, turn>>
tables  == <<rows, records, rewinds, given>>
handler == <<consumer, copies, todo, chunk, attempt>>
writers == <<router, operators, silent>>
sent    == <<sends, lapses>>
counts  == <<faults, routings, requests, redelivered>>
vars == <<session, due, tables, handler, writers, sent, finished, counts>>

(* A row. last_delivered_transcript_id is left out: every writer stores it *)
(* with the created_at of the same transcript, so equal identifiers mean   *)
(* equal times.                                                            *)
RouteRows == [known : BOOLEAN, enabled : BOOLEAN, cursor : 0 .. MaxTime]
NoRow == [known |-> FALSE, enabled |-> FALSE, cursor |-> 0]

(* The chunks of a text, in the order they are sent.                       *)
Parts == 1 .. Chunks

-----------------------------------------------------------------------------
(* The session worker runs the turns of the session one after the other.   *)
(* user and assistant transcripts both carry the second the turn began in. *)
(* The clock does not run back, and is read nowhere else; seconds in which *)
(* no turn begins are left out.                                            *)

BeginTurn(o, second) ==
  /\ turn = NoOutput
  /\ at[o] = 0
  /\ \A p \in Outputs : at[p] <= second
  /\ second = 1 \/ \E p \in Outputs : at[p] >= second - 1
  /\ turn' = o
  /\ at' = [at EXCEPT ![o] = second]
  /\ UNCHANGED <<due, tables, handler, writers, sent, finished, counts>>

(* The assistant transcript is stored, the output event is in the outbox.  *)
EndTurn ==
  /\ turn # NoOutput
  /\ turn' = NoOutput
  /\ due' = [due EXCEPT ![turn] = @ + 1]
  /\ UNCHANGED <<at, tables, handler, writers, sent, finished, counts>>

(* get_latest_transcript_for_session: the second of the latest transcript. *)
Latest(l) ==
  /\ l \in 0 .. MaxTime
  /\ \A o \in Outputs : at[o] <= l
  /\ l = 0 \/ \E o \in Outputs : at[o] = l

(* The outbox publishes a row again, or JetStream gives up waiting.        *)
Redeliver(o) ==
  /\ at[o] > 0 /\ turn # o
  /\ redelivered < MaxRedeliveries
  /\ redelivered' = redelivered + 1
  /\ due' = [due EXCEPT ![o] = @ + 1]
  /\ UNCHANGED <<session, tables, handler, writers, sent, finished, faults, routings, requests>>

-----------------------------------------------------------------------------
(* put_session_output_route replaces the row.                              *)
Put(r, row) ==
  /\ rows' = [rows EXCEPT ![r] = row]
  /\ rewinds' = [rewinds EXCEPT ![r] = IF row.cursor < rows[r].cursor THEN @ + 1 ELSE @]

Later(m, n) == IF m > n THEN m ELSE n
Give(r, cursor) == given' = [given EXCEPT ![r] = Later(cursor, @)]

-----------------------------------------------------------------------------
(* deliver_session_output_event.                                           *)

NoRows == [r \in Routes |-> NoRow]

(* The handler has returned.                                               *)
IdleConsumer ==
  /\ consumer' = [pc |-> "idle", output |-> NoOutput, route |-> NoRoute]
  /\ copies' = NoRows
  /\ todo' = {}
  /\ chunk' = 1 /\ attempt' = 1

ConsumerAt(pc) == consumer.pc = pc
ConsumerGoes(pc, r) == consumer' = [pc |-> pc, output |-> consumer.output, route |-> r]

(* Whatever order the publisher and JetStream came to.                     *)
Take(o) ==
  /\ ConsumerAt("idle")
  /\ due[o] > 0
  /\ consumer' = [pc |-> "list", output |-> o, route |-> NoRoute]
  /\ UNCHANGED <<session, due, tables, copies, todo, chunk, attempt, writers, sent, finished,
                counts>>

(* Mutant: the query forgets that a route can be disabled.                 *)
Enabled_Known(row) == row.known

Enabled(row) == row.known /\ row.enabled

(* list_enabled_session_output_routes, once for all routes.                *)
List ==
  /\ ConsumerAt("list")
  /\ copies' = rows
  /\ todo' = {r \in Routes : Enabled(rows[r])}
  /\ ConsumerGoes("routes", NoRoute)
  /\ UNCHANGED <<session, due, tables, chunk, attempt, writers, sent, finished, counts>>

(* Mutant: an output of the cursor's second counts as new.                 *)
AlreadyDelivered_Strict(row, o) == row.cursor > at[o]

(* route_already_delivered.                                                *)
AlreadyDelivered(row, o) == row.cursor >= at[o]

(* Outputs are those of completed runs, so render_delivery_text always has *)
(* something to say.                                                       *)
Skip(r) ==
  /\ ConsumerAt("routes") /\ r \in todo
  /\ AlreadyDelivered(copies[r], consumer.output)
  /\ todo' = todo \ {r}
  /\ UNCHANGED <<session, due, tables, consumer, copies, chunk, attempt, writers, sent, finished,
                counts>>

(* The target is missing, does not allow the session or its agent, or is   *)
(* none the sender knows: nothing is sent.                                 *)
Refuse(r) ==
  /\ ConsumerAt("routes") /\ r \in todo
  /\ ~AlreadyDelivered(copies[r], consumer.output)
  /\ ConsumerGoes("fail", r)
  /\ UNCHANGED <<session, due, tables, copies, todo, chunk, attempt, writers, sent, finished,
                counts>>

Send(r) ==
  /\ ConsumerAt("routes") /\ r \in todo
  /\ ~AlreadyDelivered(copies[r], consumer.output)
  /\ ConsumerGoes("send", r)
  /\ UNCHANGED <<session, due, tables, copies, todo, chunk, attempt, writers, sent, finished,
                counts>>

ChunkArrives == sends' = [sends EXCEPT ![consumer.route][consumer.output][chunk] = @ + 1]
Lapses == lapses' = [lapses EXCEPT ![consumer.route][consumer.output] = @ + 1]

(* Mutant: the sender returns with the first chunk.                        *)
ChunkSent_First ==
  /\ ConsumerAt("send")
  /\ ChunkArrives
  /\ attempt' = 1
  /\ chunk' = 1 /\ ConsumerGoes("record", consumer.route)
  /\ UNCHANGED <<session, due, tables, copies, todo, writers, lapses, finished, counts>>

(* Telegram has taken the chunk, and the sender knows.                     *)
ChunkSent ==
  /\ ConsumerAt("send")
  /\ ChunkArrives
  /\ attempt' = 1
  /\ \/ chunk < Chunks /\ chunk' = chunk + 1 /\ UNCHANGED consumer
     \/ chunk = Chunks /\ chunk' = 1 /\ ConsumerGoes("record", consumer.route)
  /\ UNCHANGED <<session, due, tables, copies, todo, writers, lapses, finished, counts>>

(* The sender tries again, or gives up.                                    *)
AttemptFails(permanent) ==
  /\ \/ /\ attempt < Attempts /\ ~permanent
        /\ attempt' = attempt + 1
        /\ UNCHANGED <<consumer, chunk>>
     \/ /\ attempt = Attempts \/ permanent
        /\ chunk' = 1 /\ attempt' = 1
        /\ ConsumerGoes("fail", consumer.route)
  /\ UNCHANGED <<session, due, tables, copies, todo, writers, finished, counts>>

(* The chunk has not arrived. If the sender gives up, the chunks before it *)
(* have.                                                                   *)
ChunkFails(permanent) ==
  /\ ConsumerAt("send")
  /\ AttemptFails(permanent)
  /\ IF chunk > 1 /\ consumer' # consumer THEN Lapses ELSE UNCHANGED lapses
  /\ UNCHANGED sends

(* The chunk has arrived, but all the sender sees is an error of the       *)
(* connection.                                                             *)
ReplyLost ==
  /\ ConsumerAt("send")
  /\ lapses[consumer.route][consumer.output] < MaxLost
  /\ ChunkArrives
  /\ Lapses
  /\ AttemptFails(FALSE)

SenderStep == ChunkSent \/ (\E permanent \in BOOLEAN : ChunkFails(permanent)) \/ ReplyLost

RecordFailure ==
  /\ ConsumerAt("fail")
  /\ records' = [records EXCEPT ![consumer.route][consumer.output] = "failed"]
  /\ todo' = todo \ {consumer.route}
  /\ ConsumerGoes("routes", NoRoute)
  /\ UNCHANGED <<session, due, rows, rewinds, given, copies, chunk, attempt, writers, sent,
                finished, counts>>

Record ==
  /\ ConsumerAt("record")
  /\ records' = [records EXCEPT ![consumer.route][consumer.output] = "delivered"]
  /\ ConsumerGoes("advance", consumer.route)
  /\ UNCHANGED <<session, due, rows, rewinds, given, copies, todo, chunk, attempt, writers, sent,
                finished, counts>>

(* Mutant: the cursor goes to the latest transcript of the session.        *)
AdvancedRow_Latest(row, o) ==
  [row EXCEPT !.cursor = CHOOSE l \in 0 .. MaxTime : Latest(l)]

(* The copy read before the first send, with the cursor of this output.    *)
AdvancedRow(row, o) == [row EXCEPT !.cursor = at[o]]

Advance ==
  /\ ConsumerAt("advance")
  /\ Put(consumer.route, AdvancedRow(copies[consumer.route], consumer.output))
  /\ todo' = todo \ {consumer.route}
  /\ ConsumerGoes("routes", NoRoute)
  /\ UNCHANGED <<session, due, records, given, copies, chunk, attempt, writers, sent, finished,
                counts>>

Acknowledge(o) == due' = [due EXCEPT ![o] = @ - 1]

Finish ==
  /\ ConsumerAt("routes") /\ todo = {}
  /\ Acknowledge(consumer.output)
  /\ finished' = [finished EXCEPT ![consumer.output] = @ \cup {r \in Routes : Enabled(copies[r])}]
  /\ IdleConsumer
  /\ UNCHANGED <<session, tables, writers, sent, counts>>

ConsumerStep ==
  \/ \E o \in Outputs : Take(o)
  \/ List \/ SenderStep \/ RecordFailure \/ Record \/ Advance \/ Finish
  \/ \E r \in Routes : Skip(r) \/ Refuse(r) \/ Send(r)

-----------------------------------------------------------------------------
(* The router, for each route the matched rule asks for. A binding route   *)
(* of a Telegram chat is created first if there is none                    *)
(* (ensure_telegram_binding_route), then materialize_output_routes takes   *)
(* the latest transcript, the existing row, and writes its own.            *)

IdleRouter == [pc |-> "idle", route |-> NoRoute, latest |-> 0, row |-> NoRow]
RouterAt(pc) == router.pc = pc
Reopens(r) == silent' = silent \ {r}

RouterBegin(r, bound) ==
  /\ RouterAt("idle")
  /\ routings < MaxRoutings
  /\ routings' = routings + 1
  /\ router' = [IdleRouter EXCEPT !.pc = IF bound THEN "ensure" ELSE "latest", !.route = r]
  /\ Reopens(r)
  /\ UNCHANGED <<session, due, tables, handler, operators, sent, finished, faults, requests,
                redelivered>>

RouterEnsure ==
  /\ RouterAt("ensure")
  /\ router' = [router EXCEPT !.pc = IF rows[router.route].known THEN "latest" ELSE "create"]
  /\ UNCHANGED <<session, due, tables, handler, operators, silent, sent, finished, counts>>

RouterCreate ==
  /\ RouterAt("create")
  /\ Put(router.route, [known |-> TRUE, enabled |-> TRUE, cursor |-> 0])
  /\ router' = [router EXCEPT !.pc = "latest"]
  /\ UNCHANGED <<session, due, records, given, handler, operators, silent, sent, finished,
                counts>>

(* No rule takes the message, or its rule does not ask for this route.     *)
RouterUnruled ==
  /\ RouterAt("latest")
  /\ router' = IdleRouter
  /\ UNCHANGED <<session, due, tables, handler, operators, silent, sent, finished, counts>>

RouterLatest(l) ==
  /\ RouterAt("latest")
  /\ Latest(l)
  /\ router' = [router EXCEPT !.pc = "existing", !.latest = l]
  /\ UNCHANGED <<session, due, tables, handler, operators, silent, sent, finished, counts>>

(* find_existing_output_route; the canonical route_id is the pair itself.  *)
RouterExisting ==
  /\ RouterAt("existing")
  /\ router' = [router EXCEPT !.pc = "put", !.row = rows[router.route]]
  /\ UNCHANGED <<session, due, tables, handler, operators, silent, sent, finished, counts>>

MaterializedRow(row, latest) ==
  [known   |-> TRUE,
   enabled |-> TRUE,
   cursor  |-> IF row.known THEN row.cursor ELSE latest]

RouterPut ==
  /\ RouterAt("put")
  /\ Put(router.route, MaterializedRow(router.row, router.latest))
  /\ Give(router.route, IF router.row.known THEN 0 ELSE router.latest)
  /\ router' = IdleRouter
  /\ UNCHANGED <<session, due, records, handler, operators, silent, sent, finished, counts>>

RouterStep ==
  \/ RouterEnsure \/ RouterCreate \/ RouterUnruled \/ RouterExisting \/ RouterPut
  \/ \E l \in 0 .. MaxTime : RouterLatest(l)

-----------------------------------------------------------------------------
(* The operators: attach_session_output_route, detach_session_output_route *)
(* and update_session_output_route.                                        *)

IdleOperator == [pc |-> "idle", route |-> NoRoute, fresh |-> FALSE, row |-> NoRow]
OperatorAt(p, pc) == operators[p].pc = pc

Request(p, r, fresh, row) ==
  /\ OperatorAt(p, "idle")
  /\ requests < MaxRequests
  /\ requests' = requests + 1
  /\ operators' = [operators EXCEPT ![p] =
                     [pc |-> "put", route |-> r, fresh |-> fresh, row |-> row]]
  /\ UNCHANGED <<session, due, tables, handler, router, sent, finished, faults, routings,
                redelivered>>

(* A new row, or a new one in the place of the old one, which starts at    *)
(* the latest transcript. A route attached disabled is Attach, then Detach. *)
Attach(p, r, l) ==
  /\ Latest(l)
  /\ Request(p, r, TRUE, [known |-> TRUE, enabled |-> TRUE, cursor |-> l])
  /\ Reopens(r)

Detach(p, r) ==
  /\ rows[r].known
  /\ Request(p, r, FALSE, [rows[r] EXCEPT !.enabled = FALSE])
  /\ UNCHANGED silent

Enable(p, r) ==
  /\ rows[r].known
  /\ Request(p, r, FALSE, [rows[r] EXCEPT !.enabled = TRUE])
  /\ Reopens(r)

(* Nobody has a copy of the row that would be stored, or sent to, later.   *)
Unheld(p, r) ==
  /\ r \notin todo
  /\ router.route # r
  /\ \A q \in Operators \ {p} : operators[q].route # r

OperatorPut(p) ==
  LET op == operators[p] IN
  /\ OperatorAt(p, "put")
  /\ Put(op.route, op.row)
  /\ Give(op.route, IF op.fresh THEN op.row.cursor ELSE 0)
  /\ silent' = IF ~op.row.enabled /\ Unheld(p, op.route) THEN silent \cup {op.route} ELSE silent
  /\ operators' = [operators EXCEPT ![p] = IdleOperator]
  /\ UNCHANGED <<session, due, records, handler, router, sent, finished, counts>>

-----------------------------------------------------------------------------
(* Faults.                                                                 *)

Fault == faults < MaxFaults /\ faults' = faults + 1

(* A store error ends the handler; the loop logs it and acknowledges.      *)
ConsumerFails ==
  /\ consumer.pc # "idle"
  /\ Fault
  /\ Acknowledge(consumer.output)
  /\ IdleConsumer
  /\ UNCHANGED <<session, tables, writers, sent, finished, routings, requests, redelivered>>

(* A request or a routing that fails writes nothing more.                  *)
WriterFails ==
  /\ Fault
  /\ \/ router.pc # "idle" /\ router' = IdleRouter /\ UNCHANGED operators
     \/ \E p \in Operators :
          /\ operators[p].pc # "idle"
          /\ operators' = [operators EXCEPT ![p] = IdleOperator]
          /\ UNCHANGED router
  /\ UNCHANGED <<session, due, tables, handler, silent, sent, finished, routings, requests,
                redelivered>>

(* The daemon dies. What was not acknowledged is delivered again.          *)
Crash ==
  /\ Fault
  /\ IdleConsumer
  /\ router' = IdleRouter
  /\ operators' = [p \in Operators |-> IdleOperator]
  /\ UNCHANGED <<session, due, tables, silent, sent, finished, routings, requests, redelivered>>

-----------------------------------------------------------------------------
Init ==
  /\ at = [o \in Outputs |-> 0]
  /\ turn = NoOutput
  /\ due = [o \in Outputs |-> 0]
  /\ rows = NoRows
  /\ records = [r \in Routes |-> [o \in Outputs |-> "none"]]
  /\ rewinds = [r \in Routes |-> 0]
  /\ given = [r \in Routes |-> 0]
  /\ consumer = [pc |-> "idle", output |-> NoOutput, route |-> NoRoute]
  /\ copies = NoRows
  /\ todo = {}
  /\ chunk = 1 /\ attempt = 1
  /\ router = IdleRouter
  /\ operators = [p \in Operators |-> IdleOperator]
  /\ silent = {}
  /\ sends = [r \in Routes |-> [o \in Outputs |-> [c \in Parts |-> 0]]]
  /\ lapses = [r \in Routes |-> [o \in Outputs |-> 0]]
  /\ finished = [o \in Outputs |-> {}]
  /\ faults = 0 /\ routings = 0 /\ requests = 0 /\ redelivered = 0

Next ==
  \/ \E o \in Outputs : Redeliver(o) \/ \E second \in 1 .. MaxTime : BeginTurn(o, second)
  \/ EndTurn
  \/ ConsumerStep
  \/ \E r \in Ruled, bound \in BOOLEAN : RouterBegin(r, bound)
  \/ RouterStep
  \/ \E p \in Operators :
       \/ \E r \in Routes :
            \/ \E l \in 0 .. MaxTime : Attach(p, r, l)
            \/ Detach(p, r)
            \/ Enable(p, r)
       \/ OperatorPut(p)
  \/ ConsumerFails \/ WriterFails \/ Crash

Spec == Init /\ [][Next]_vars

-----------------------------------------------------------------------------
TypeOK ==
  /\ at \in [Outputs -> 0 .. MaxTime]
  /\ turn \in Outputs \cup {NoOutput}
  /\ due \in [Outputs -> Nat]
  /\ rows \in [Routes -> RouteRows]
  /\ records \in [Routes -> [Outputs -> {"none", "failed", "delivered"}]]
  /\ rewinds \in [Routes -> Nat]
  /\ given \in [Routes -> 0 .. MaxTime]
  /\ consumer \in [pc : {"idle", "list", "routes", "send", "fail", "record", "advance"},
                   output : Outputs \cup {NoOutput}, route : Routes \cup {NoRoute}]
  /\ copies \in [Routes -> RouteRows]
  /\ todo \subseteq Routes
  /\ chunk \in Parts
  /\ attempt \in 1 .. Attempts
  /\ router \in [pc : {"idle", "ensure", "create", "latest", "existing", "put"},
                 route : Routes \cup {NoRoute}, latest : 0 .. MaxTime, row : RouteRows]
  /\ operators \in [Operators -> [pc : {"idle", "put"}, route : Routes \cup {NoRoute},
                                  fresh : BOOLEAN, row : RouteRows]]
  /\ silent \subseteq Routes
  /\ sends \in [Routes -> [Outputs -> [Parts -> Nat]]]
  /\ lapses \in [Routes -> [Outputs -> Nat]]
  /\ finished \in [Outputs -> SUBSET Routes]
  /\ faults \in 0 .. MaxFaults
  /\ routings \in 0 .. MaxRoutings
  /\ requests \in 0 .. MaxRequests
  /\ redelivered \in 0 .. MaxRedeliveries

(* A chunk arrives on a route once, however often the event of its output  *)
(* is published and delivered, except for a fault between the send and the *)
(* cursor, a whole row written over a newer cursor, a reply the sender     *)
(* lost, and a text it gave up in the middle of.                           *)
RepeatsAreExplained ==
  \A r \in Routes, o \in Outputs, c \in Parts :
    sends[r][o][c] <= 1 + faults + rewinds[r] + lapses[r][o]

(* Every chunk has arrived; some chunk has.                                *)
WhollySent(r, o) == \A c \in Parts : sends[r][o][c] > 0
PartlySent(r, o) == \E c \in Parts : sends[r][o][c] > 0

(* The cursor has passed the output with another one of the same second or *)
(* a later one, that arrived first.                                        *)
Overtaken(r, o) == \E p \in Outputs \ {o} : WhollySent(r, p) /\ at[p] >= at[o]

Outcome(r, o) ==
  \/ WhollySent(r, o)
  \/ records[r][o] = "failed"
  \/ Overtaken(r, o)
  \/ given[r] >= at[o]

(* A handler that went through leaves no route behind without a reason:    *)
(* all of the output was sent, its failure was recorded, another one has   *)
(* overtaken it, or the route was given a cursor when the turn had already *)
(* begun.                                                                  *)
MissesAreExplained ==
  \A o \in Outputs : \A r \in finished[o] : Outcome(r, o)

(* The sender, or the record of its success, is at work on the output.     *)
BeingSent(r, o) ==
  consumer.pc \in {"send", "record"} /\ consumer.route = r /\ consumer.output = o

(* event_deliveries tells what happened: what is delivered has arrived     *)
(* with all its chunks, and what has arrived, be it in part, is delivered  *)
(* once the handler is past it, unless a fault or a lost cursor made a     *)
(* later attempt overwrite that, or the sender took for failed what had    *)
(* arrived.                                                                *)
RecordsAreTrue ==
  \A r \in Routes, o \in Outputs :
    /\ records[r][o] = "delivered" => WhollySent(r, o)
    /\ PartlySent(r, o) /\ faults = 0 /\ rewinds[r] = 0 /\ lapses[r][o] = 0
       => records[r][o] = "delivered" \/ BeingSent(r, o)

(* Nothing is sent on a route that was detached while nobody held a copy   *)
(* of its row, until somebody attaches, enables or routes to it again.     *)
DetachIsFinal == [][\A r \in silent : sends'[r] = sends[r]]_vars
=============================================================================
