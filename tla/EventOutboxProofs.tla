-------------------------- MODULE EventOutboxProofs --------------------------
(***************************************************************************)
(* Proofs about EventOutbox: its type invariant, its safety invariants and *)
(* that it implements OutboxQueue, for any set of rows and any bounds.     *)
(***************************************************************************)
EXTENDS EventOutbox, TLAPS

(* The delay before a retry is a number of seconds.                        *)
LEMMA DelayIsNatural ==
  ASSUME NEW a \in Nat
  PROVE  retry_delay_seconds(a) \in Nat
<1>1. Clamp(a, 1, BackoffSteps) \in 1 .. 6
  BY OutboxAssumption DEF Clamp
<1>2. \A i \in 1 .. 6 : Delays[i] \in Nat
  BY DEF Delays
<1>. QED  BY <1>1, <1>2 DEF retry_delay_seconds

LEMMA ClampBounds ==
  ASSUME NEW a \in Nat
  PROVE  Clamp(a, 1, BackoffSteps) \in 1 .. BackoffSteps
  BY OutboxAssumption DEF Clamp

LEMMA ClaimedRowType ==
  ASSUME NEW row \in Rows
  PROVE  /\ ClaimedRow(row) \in Rows
         /\ ClaimedRow(row).attempts \in 1 .. BackoffSteps
         /\ ClaimedRow(row).status = "publishing"
<1>1. Clamp(row.attempts + 1, 1, BackoffSteps) \in 1 .. BackoffSteps
  BY ClampBounds, OutboxAssumption DEF Rows
<1>2. Clamp(row.attempts + 1, 1, BackoffSteps) \in 0 .. BackoffSteps
  BY <1>1, OutboxAssumption
<1>. QED  BY <1>1, <1>2 DEF ClaimedRow, Rows, Statuses

LEMMA MarkedRowType ==
  ASSUME NEW row \in Rows, NEW f \in Flights, TypeOK
  PROVE  MarkedRow(row, f) \in Rows
<1>1. f.attempts \in Nat
  BY OutboxAssumption DEF Flights, NoFlight
<1>2. retry_delay_seconds(f.attempts) - elapsed \in Int
  BY <1>1, DelayIsNatural DEF TypeOK
<1>3. row.attempts \in 0 .. BackoffSteps
  BY DEF Rows
<1>4. ASSUME NEW status \in Statuses, NEW wait \in Int
      PROVE  [status |-> status, attempts |-> row.attempts, wait |-> wait] \in Rows
  BY <1>3 DEF Rows
<1>. QED  BY <1>2, <1>4 DEF MarkedRow, Statuses

-----------------------------------------------------------------------------
LEMMA NextTypeOK == TypeOK /\ [Next]_vars => TypeOK'
<1>. SUFFICES ASSUME TypeOK, [Next]_vars  PROVE TypeOK'
  OBVIOUS
<1>. USE DEF TypeOK
<1>1. ASSUME NEW id \in OutboxIds, Put(id)  PROVE TypeOK'
  BY <1>1, OutboxAssumption
  DEF Put, put_event_outbox, FreshRow, Rows, Statuses, publisherVars
<1>2. ASSUME NEW ids \in SUBSET OutboxIds, Claim(ids)  PROVE TypeOK'
  <2>1. \A id \in OutboxIds : ClaimedRow(outbox[id]) \in Rows
    BY ClaimedRowType
  <2>2. \A id \in OutboxIds : ClaimedRow(outbox[id]).attempts \in 0 .. BackoffSteps
    BY ClaimedRowType, OutboxAssumption
  <2>3. outbox' \in [OutboxIds -> Rows]
    BY <1>2, <2>1 DEF Claim
  <2>4. batch' \in [OutboxIds -> 0 .. BackoffSteps]
    BY <1>2, <2>2, OutboxAssumption DEF Claim
  <2>. QED  BY <1>2, <2>3, <2>4 DEF Claim, historyVars
<1>3. ASSUME NEW id \in OutboxIds, NEW outcome \in {"ok", "error"},
             TakeFromBatch(id, outcome)
      PROVE  /\ batch' \in [OutboxIds -> 0 .. BackoffSteps]
             /\ flight' \in Flights
             /\ UNCHANGED <<outbox, publisher, elapsed, refused, puts, faults>>
  BY <1>3, OutboxAssumption DEF TakeFromBatch, Claimed, Flights
<1>4. ASSUME NEW id \in OutboxIds, PublishOk(id)  PROVE TypeOK'
  BY <1>4, <1>3 DEF PublishOk
<1>5. ASSUME NEW id \in OutboxIds, PublishError(id)  PROVE TypeOK'
  BY <1>5, <1>3 DEF PublishError
<1>6. ASSUME NEW id \in OutboxIds, PublishAckLost(id)  PROVE TypeOK'
  BY <1>6, <1>3 DEF PublishAckLost
<1>7. ASSUME Mark  PROVE TypeOK'
  <2>1. flight.row \in OutboxIds
    BY <1>7 DEF Mark, Flights
  <2>2. outbox' \in [OutboxIds -> Rows]
    BY <1>7, <2>1, MarkedRowType DEF Mark
  <2>. QED  BY <1>7, <2>2 DEF Mark, Flights, historyVars
<1>8. ASSUME NEW as \in {"stopped", "down"}, StopPublisher(as)  PROVE TypeOK'
  <2>1. batch' \in [OutboxIds -> 0 .. BackoffSteps]
    BY <1>8, OutboxAssumption DEF StopPublisher
  <2>2. flight' \in Flights
    BY <1>8 DEF StopPublisher, Flights
  <2>3. publisher' \in {"running", "stopped", "down"}
    BY <1>8 DEF StopPublisher
  <2>4. elapsed' \in Nat /\ faults' \in Nat
    BY <1>8 DEF StopPublisher
  <2>. QED  BY <1>8, <2>1, <2>2, <2>3, <2>4 DEF StopPublisher
<1>9. ASSUME Restart  PROVE TypeOK'
  BY <1>9 DEF Restart, historyVars
<1>10. ASSUME Tick  PROVE TypeOK'
  <2>1. outbox' \in [OutboxIds -> Rows]
    BY <1>10 DEF Tick, Rows
  <2>2. elapsed' \in Nat
    BY <1>10 DEF Tick
  <2>. QED  BY <1>10, <2>1, <2>2 DEF Tick, historyVars
<1>11. CASE UNCHANGED vars
  BY <1>11 DEF vars, publisherVars, historyVars
<1>. QED
  BY <1>1, <1>2, <1>4, <1>5, <1>6, <1>7, <1>8, <1>9, <1>10, <1>11
  DEF Next, Publish, StoreError, Crash

(* Every variable of the outbox keeps its type.                            *)
THEOREM TypeCorrect == Spec => []TypeOK
<1>1. Init => TypeOK
  BY OutboxAssumption DEF Init, TypeOK, Rows, Statuses, Flights
<1>. QED  BY <1>1, NextTypeOK, PTL DEF Spec
-----------------------------------------------------------------------------
(***************************************************************************)
(* The inductive invariant. Dues(id) counts the copies of a row that may   *)
(* still be sent: one if the table says pending, one if the tick holds the *)
(* row, one if a failed publish is about to be recorded.                   *)
(***************************************************************************)
One(P) == IF P THEN 1 ELSE 0

Dues(id) ==
  One(outbox[id].status = "pending") + One(batch[id] > 0)
    + One(InFlight(id) /\ flight.outcome = "error")

CopiesBounded == \A id \in OutboxIds : stream[id] + Dues(id) <= puts[id] + acksLost[id]

SentIsOnStream == flight.outcome = "ok" => stream[flight.row] > 0

OneHolder == flight # NoFlight => batch[flight.row] = 0

IInv ==
  /\ TypeOK
  /\ PublishedIsOnStream
  /\ SentIsOnStream
  /\ OneHolder
  /\ CopiesBounded
  /\ OrphansNeedAFault
LEMMA InitIInv == Init => IInv
<1>. SUFFICES ASSUME Init  PROVE IInv
  OBVIOUS
<1>1. TypeOK
  BY OutboxAssumption DEF Init, TypeOK, Rows, Statuses, Flights
<1>2. \A id \in OutboxIds : Dues(id) = 0
  BY OutboxAssumption DEF Init, Dues, One, InFlight, NoFlight
<1>3. CopiesBounded
  BY <1>2 DEF Init, CopiesBounded
<1>. QED
  BY <1>1, <1>3
  DEF Init, IInv, PublishedIsOnStream, SentIsOnStream, OneHolder,
      OrphansNeedAFault, Orphaned, NoFlight

(* Taking a row from the batch moves one due copy out of the batch.        *)
LEMMA TakeDues ==
  ASSUME TypeOK, NEW id \in OutboxIds, NEW outcome \in {"ok", "error"},
         TakeFromBatch(id, outcome)
  PROVE  /\ batch' = [batch EXCEPT ![id] = 0]
         /\ flight' = [outcome |-> outcome, row |-> id, attempts |-> batch[id]]
         /\ batch[id] > 0
         /\ flight = NoFlight
         /\ UNCHANGED <<outbox, puts, faults>>
         /\ \A other \in OutboxIds \ {id} : Dues(other)' = Dues(other)
         /\ Dues(id)' = Dues(id) - One(outcome = "ok")
<1>1. /\ batch' = [batch EXCEPT ![id] = 0]
      /\ flight' = [outcome |-> outcome, row |-> id, attempts |-> batch[id]]
      /\ batch[id] > 0
      /\ flight = NoFlight
      /\ UNCHANGED <<outbox, puts, faults>>
  BY DEF TakeFromBatch, Claimed
<1>2. \A other \in OutboxIds \ {id} : Dues(other)' = Dues(other)
  BY <1>1, OutboxAssumption DEF Dues, InFlight, NoFlight, TypeOK
<1>3. Dues(id)' = Dues(id) - One(outcome = "ok")
  BY <1>1, OutboxAssumption DEF Dues, One, InFlight, NoFlight, TypeOK
<1>. QED  BY <1>1, <1>2, <1>3

(* Every step keeps the inductive invariant.                               *)
LEMMA NextIInv == IInv /\ [Next]_vars => IInv'
<1>. SUFFICES ASSUME IInv, [Next]_vars  PROVE IInv'
  OBVIOUS
<1>. USE DEF IInv
<1>0. TypeOK'
  BY NextTypeOK
<1>. USE DEF PublishedIsOnStream, SentIsOnStream, OneHolder, OrphansNeedAFault, Orphaned, InFlight
<1>1. ASSUME NEW id \in OutboxIds, Put(id)  PROVE IInv'
  <2>1. outbox' = [outbox EXCEPT ![id] = FreshRow] /\ puts' = [puts EXCEPT ![id] = @ + 1]
    BY <1>1 DEF Put, put_event_outbox
  <2>2. UNCHANGED <<batch, flight, stream, acksLost, faults>>
    BY <1>1 DEF Put, put_event_outbox, publisherVars
  <2>3. \A other \in OutboxIds :
          Dues(other)' <= Dues(other) + (puts'[other] - puts[other])
    BY <2>1, <2>2 DEF Dues, One, TypeOK
  <2>4. \A other \in OutboxIds : Dues(other) \in Int /\ Dues(other)' \in Int
    BY DEF Dues, One
  <2>5. CopiesBounded'
    BY <1>0, <2>2, <2>3, <2>4 DEF CopiesBounded, TypeOK
  <2>6. \A other \in OutboxIds : other # id => outbox'[other] = outbox[other]
    BY <2>1 DEF TypeOK
  <2>7. outbox'[id].status = "pending"
    BY <2>1 DEF TypeOK, FreshRow
  <2>. QED  BY <1>0, <2>2, <2>5, <2>6, <2>7
<1>2. ASSUME NEW ids \in SUBSET OutboxIds, Claim(ids)  PROVE IInv'
  <2>1. /\ flight = NoFlight
        /\ \A id \in OutboxIds : batch[id] = 0
        /\ \A id \in ids : outbox[id].status = "pending"
        /\ UNCHANGED <<flight, stream, puts, acksLost, faults>>
    BY <1>2 DEF Claim, Ticking, Claimed, Due, historyVars, TypeOK
  <2>2. /\ \A id \in ids : outbox'[id].status = "publishing" /\ batch'[id] \in 1 .. BackoffSteps
        /\ \A id \in OutboxIds \ ids : outbox'[id] = outbox[id] /\ batch'[id] = 0
    BY <1>2, ClaimedRowType DEF Claim, TypeOK
  <2>3. \A id \in OutboxIds : Dues(id)' = Dues(id)
    BY <2>1, <2>2, OutboxAssumption DEF Dues, One
  <2>4. CopiesBounded'
    BY <2>1, <2>3 DEF CopiesBounded
  <2>5. batch'[flight'.row] = 0 \/ flight' = NoFlight
    BY <2>1
  <2>. QED  BY <1>0, <2>1, <2>2, <2>4, <2>5, OutboxAssumption DEF NoFlight
<1>3. ASSUME NEW id \in OutboxIds, NEW outcome \in {"ok", "error"},
             TakeFromBatch(id, outcome),
             stream' \in [OutboxIds -> Nat], acksLost' \in [OutboxIds -> Nat],
             \A other \in OutboxIds \ {id} :
               stream'[other] = stream[other] /\ acksLost'[other] = acksLost[other],
             stream'[id] - One(outcome = "ok") <= stream[id] + acksLost'[id] - acksLost[id],
             stream'[id] >= stream[id],
             outcome = "ok" => stream'[id] > 0
      PROVE  IInv'
  <2>1. \A other \in OutboxIds : Dues(other) \in Int /\ Dues(other)' \in Int
    BY DEF Dues, One
  <2>2. CopiesBounded'
    BY <1>3, <2>1, TakeDues DEF CopiesBounded, One, TypeOK
  <2>3. /\ flight' = [outcome |-> outcome, row |-> id, attempts |-> batch[id]]
        /\ batch'[id] = 0
        /\ \A other \in OutboxIds \ {id} : batch'[other] = batch[other]
        /\ flight = NoFlight
        /\ UNCHANGED <<outbox, faults>>
    BY <1>3, TakeDues DEF TypeOK
  <2>4. PublishedIsOnStream'
    BY <1>3, <2>3 DEF TypeOK
  <2>5. SentIsOnStream' /\ OneHolder'
    BY <1>3, <2>3
  <2>6. OrphansNeedAFault'
    <3>. SUFFICES ASSUME NEW other \in OutboxIds, Orphaned(other)'  PROVE faults' > 0
      OBVIOUS
    <3>1. other # id
      BY <2>3
    <3>2. Orphaned(other)
      BY <2>3, <3>1, OutboxAssumption DEF NoFlight
    <3>. QED  BY <2>3, <3>2
  <2>. QED  BY <1>0, <2>2, <2>4, <2>5, <2>6
<1>4. ASSUME NEW id \in OutboxIds, PublishOk(id)  PROVE IInv'
  BY <1>0, <1>3, <1>4 DEF PublishOk, One, TypeOK
<1>5. ASSUME NEW id \in OutboxIds, PublishError(id)  PROVE IInv'
  BY <1>0, <1>3, <1>5 DEF PublishError, One, TypeOK
<1>6. ASSUME NEW id \in OutboxIds, PublishAckLost(id)  PROVE IInv'
  BY <1>0, <1>3, <1>6 DEF PublishAckLost, One, TypeOK
<1>7. ASSUME Mark  PROVE IInv'
  <2>1. /\ flight \in Flights /\ flight # NoFlight
        /\ flight.row \in OutboxIds
        /\ flight.outcome \in {"ok", "error"}
        /\ flight' = NoFlight
        /\ UNCHANGED <<batch, stream, puts, acksLost, faults>>
    BY <1>7 DEF Mark, Flights, TypeOK, historyVars
  <2>2. /\ \A id \in OutboxIds : id # flight.row => outbox'[id] = outbox[id]
        /\ flight.outcome = "ok" => outbox'[flight.row].status = "published"
        /\ flight.outcome = "error" => outbox'[flight.row].status = "pending"
    BY <1>7, <2>1 DEF Mark, MarkedRow, TypeOK, Rows
  <2>3. \A id \in OutboxIds : Dues(id)' <= Dues(id) /\ Dues(id) \in Int /\ Dues(id)' \in Int
    BY <2>1, <2>2, OutboxAssumption DEF Dues, One, NoFlight
  <2>4. CopiesBounded'
    BY <2>1, <2>3 DEF CopiesBounded, TypeOK
  <2>. QED  BY <1>0, <2>1, <2>2, <2>4, OutboxAssumption DEF NoFlight
<1>8. ASSUME NEW as \in {"stopped", "down"}, StopPublisher(as)  PROVE IInv'
  <2>1. /\ batch' = [id \in OutboxIds |-> 0] /\ flight' = NoFlight
        /\ faults' = faults + 1
        /\ UNCHANGED <<outbox, stream, puts, acksLost>>
    BY <1>8 DEF StopPublisher
  <2>2. \A id \in OutboxIds : Dues(id)' <= Dues(id) /\ Dues(id) \in Int /\ Dues(id)' \in Int
    BY <2>1, OutboxAssumption DEF Dues, One, NoFlight
  <2>3. CopiesBounded'
    BY <2>1, <2>2 DEF CopiesBounded, TypeOK
  <2>4. faults' > 0
    BY <2>1 DEF TypeOK
  <2>. QED  BY <1>0, <2>1, <2>3, <2>4 DEF NoFlight
<1>9. ASSUME Restart  PROVE IInv'
  <2>1. UNCHANGED <<outbox, batch, flight, stream, puts, acksLost, faults>>
    BY <1>9 DEF Restart, historyVars
  <2>. QED  BY <1>0, <2>1 DEF CopiesBounded, Dues
<1>10. ASSUME Tick  PROVE IInv'
  <2>1. UNCHANGED <<batch, flight, stream, puts, acksLost, faults>>
    BY <1>10 DEF Tick, historyVars
  <2>2. \A id \in OutboxIds : outbox'[id].status = outbox[id].status
    BY <1>10 DEF Tick, TypeOK, Rows
  <2>3. \A id \in OutboxIds : Dues(id)' = Dues(id)
    BY <2>1, <2>2 DEF Dues
  <2>. QED  BY <1>0, <2>1, <2>2, <2>3 DEF CopiesBounded
<1>11. CASE UNCHANGED vars
  <2>1. UNCHANGED <<outbox, batch, flight, stream, puts, acksLost, faults>>
    BY <1>11 DEF vars, publisherVars, historyVars
  <2>. QED  BY <1>0, <2>1 DEF CopiesBounded, Dues
<1>. QED
  BY <1>1, <1>2, <1>4, <1>5, <1>6, <1>7, <1>8, <1>9, <1>10, <1>11
  DEF Next, Publish, StoreError, Crash

LEMMA InductiveInvariant == Spec => []IInv
  BY InitIInv, NextIInv, PTL DEF Spec

(* A published row is on the stream, in every reachable state.             *)
THEOREM PublishedRowsAreOnStream == Spec => []PublishedIsOnStream
<1>1. IInv => PublishedIsOnStream
  BY DEF IInv
<1>. QED  BY <1>1, InductiveInvariant, PTL

(* Beyond one copy per write, only lost acknowledgements make copies.      *)
THEOREM CopiesExplained == Spec => []CopiesAreExplained
<1>1. IInv => CopiesAreExplained
  <2>. SUFFICES ASSUME IInv, NEW id \in OutboxIds
                PROVE  stream[id] <= puts[id] + acksLost[id]
    BY DEF CopiesAreExplained
  <2>1. Dues(id) \in Nat
    BY DEF Dues, One
  <2>2. stream[id] + Dues(id) <= puts[id] + acksLost[id]
    BY DEF IInv, CopiesBounded
  <2>. QED  BY <2>1, <2>2 DEF IInv, TypeOK
<1>. QED  BY <1>1, InductiveInvariant, PTL

(* Rows are orphaned by faults only.                                       *)
THEOREM OrphansComeFromFaults == Spec => []OrphansNeedAFault
<1>1. IInv => OrphansNeedAFault
  BY DEF IInv
<1>. QED  BY <1>1, InductiveInvariant, PTL

-----------------------------------------------------------------------------
(* The outbox starts as an empty queue, and each of its steps is a step of *)
(* the queue or changes nothing the queue shows.                           *)
LEMMA InitQueue == Init => Queue!Init
  BY OutboxAssumption DEF Init, Queue!Init, Owed, InFlight, NoFlight

LEMMA StepQueue == IInv /\ [Next]_vars => [Queue!Next]_(Queue!vars)
<1>. SUFFICES ASSUME IInv, [Next]_vars  PROVE [Queue!Next]_(Queue!vars)
  OBVIOUS
<1>. USE DEF IInv, Owed, InFlight, Queue!Next, Queue!vars
<1>1. ASSUME NEW id \in OutboxIds, Put(id)  PROVE Queue!Write(id)
  <2>1. Owed' = Owed \cup {id}
    BY <1>1 DEF Put, put_event_outbox, FreshRow, publisherVars, TypeOK
  <2>. QED  BY <1>1, <2>1 DEF Queue!Write, Put, put_event_outbox
<1>2. ASSUME NEW ids \in SUBSET OutboxIds, Claim(ids)  PROVE UNCHANGED Queue!vars
  <2>1. Owed' = Owed
    <3>1. /\ \A id \in OutboxIds : batch[id] = 0
          /\ flight = NoFlight /\ flight' = NoFlight
          /\ \A id \in ids : outbox[id].status = "pending"
      BY <1>2 DEF Claim, Ticking, Claimed, Due, TypeOK
    <3>2. /\ \A id \in ids : outbox'[id].status = "publishing" /\ batch'[id] \in 1 .. BackoffSteps
          /\ \A id \in OutboxIds \ ids : outbox'[id] = outbox[id] /\ batch'[id] = 0
      BY <1>2, ClaimedRowType DEF Claim, TypeOK
    <3>. QED  BY <3>1, <3>2, OutboxAssumption DEF NoFlight
  <2>. QED  BY <1>2, <2>1 DEF Claim, historyVars
<1>3. ASSUME NEW id \in OutboxIds, NEW outcome \in {"ok", "error"},
             TakeFromBatch(id, outcome)
      PROVE  /\ id \in Owed
             /\ Owed' \in {Owed, Owed \ {id}}
             /\ outcome = "error" => Owed' = Owed
             /\ UNCHANGED faults
  <2>1. /\ batch' = [batch EXCEPT ![id] = 0]
        /\ flight' = [outcome |-> outcome, row |-> id, attempts |-> batch[id]]
        /\ batch[id] > 0 /\ flight = NoFlight
        /\ UNCHANGED <<outbox, faults>>
    BY <1>3, TakeDues
  <2>2. id \in Owed
    BY <2>1
  <2>3. \A other \in OutboxIds \ {id} : other \in Owed' <=> other \in Owed
    BY <2>1, OutboxAssumption DEF NoFlight, TypeOK
  <2>4. outcome = "error" => id \in Owed'
    BY <2>1
  <2>5. Owed \subseteq OutboxIds /\ Owed' \subseteq OutboxIds
    OBVIOUS
  <2>. HIDE DEF Owed
  <2>. QED  BY <2>1, <2>2, <2>3, <2>4, <2>5
<1>4. ASSUME NEW id \in OutboxIds, PublishOk(id)  PROVE Queue!Send(id)
  BY <1>4, <1>3 DEF PublishOk, Queue!Send
<1>5. ASSUME NEW id \in OutboxIds, PublishError(id)  PROVE UNCHANGED Queue!vars
  BY <1>5, <1>3 DEF PublishError
<1>6. ASSUME NEW id \in OutboxIds, PublishAckLost(id)  PROVE Queue!Send(id)
  BY <1>6, <1>3 DEF PublishAckLost, Queue!Send
<1>7. ASSUME Mark  PROVE (\E id \in OutboxIds : Queue!Swallow(id)) \/ UNCHANGED Queue!vars
  <2>1. /\ flight # NoFlight /\ flight.row \in OutboxIds
        /\ flight.outcome \in {"ok", "error"}
        /\ batch[flight.row] = 0
        /\ flight' = NoFlight
        /\ UNCHANGED <<batch, stream, faults>>
    BY <1>7 DEF Mark, Flights, TypeOK, historyVars, OneHolder
  <2>2. /\ \A id \in OutboxIds : id # flight.row => outbox'[id] = outbox[id]
        /\ flight.outcome = "ok" => outbox'[flight.row].status = "published"
        /\ flight.outcome = "error" => outbox'[flight.row].status = "pending"
    BY <1>7, <2>1 DEF Mark, MarkedRow, TypeOK, Rows
  <2>3. CASE flight.outcome = "error"
    <3>1. Owed' = Owed
      BY <2>1, <2>2, <2>3, OutboxAssumption DEF NoFlight
    <3>. QED  BY <2>1, <3>1
  <2>4. CASE flight.outcome = "ok"
    <3>1. Owed' = Owed \ {flight.row}
      BY <2>1, <2>2, <2>4, OutboxAssumption DEF NoFlight
    <3>2. stream[flight.row] > 0
      BY <2>4 DEF SentIsOnStream
    <3>. QED  BY <2>1, <3>1, <3>2 DEF Queue!Swallow
  <2>. QED  BY <2>1, <2>3, <2>4
<1>8. ASSUME NEW as \in {"stopped", "down"}, StopPublisher(as)  PROVE Queue!Fail
  <2>1. Owed' \subseteq Owed
    BY <1>8, OutboxAssumption DEF StopPublisher, NoFlight
  <2>. QED  BY <1>8, <2>1 DEF StopPublisher, Queue!Fail
<1>9. ASSUME Restart  PROVE UNCHANGED Queue!vars
  BY <1>9 DEF Restart, historyVars
<1>10. ASSUME Tick  PROVE UNCHANGED Queue!vars
  <2>1. \A id \in OutboxIds : outbox'[id].status = outbox[id].status
    BY <1>10 DEF Tick, TypeOK, Rows
  <2>. QED  BY <1>10, <2>1 DEF Tick, historyVars
<1>11. CASE UNCHANGED vars
  BY <1>11 DEF vars, publisherVars, historyVars
<1>. QED
  BY <1>1, <1>2, <1>4, <1>5, <1>6, <1>7, <1>8, <1>9, <1>10, <1>11
  DEF Next, Publish, StoreError, Crash

(* Table, publisher and broker together implement the abstract queue.      *)
THEOREM OutboxImplementsQueue == Spec => ImplementsQueue
  BY InitQueue, StepQueue, InductiveInvariant, PTL DEF Spec, ImplementsQueue, Queue!Spec
=============================================================================
