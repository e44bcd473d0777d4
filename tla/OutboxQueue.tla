----------------------------- MODULE OutboxQueue -----------------------------
(***************************************************************************)
(* What a handler that writes to the outbox may rely on, without the       *)
(* table, the batches, the retries and the clock: a set of rows owed to    *)
(* the stream.                                                             *)
(***************************************************************************)
EXTENDS Integers

CONSTANT OutboxIds

VARIABLES
  owed,    \* rows written and not yet sent
  stream,  \* copies of each row on the stream
  faults   \* crashes and store errors so far

vars == <<owed, stream, faults>>

Init ==
  /\ owed = {}
  /\ stream = [id \in OutboxIds |-> 0]
  /\ faults = 0

(* A handler writes the row.                                               *)
Write(id) ==
  /\ owed' = owed \cup {id}
  /\ UNCHANGED <<stream, faults>>

(* A copy is sent: the debt is settled, or kept because nobody knows.      *)
Send(id) ==
  /\ id \in owed
  /\ stream' = [stream EXCEPT ![id] = @ + 1]
  /\ owed' \in {owed, owed \ {id}}
  /\ UNCHANGED faults

(* A write that came while the row was being sent is taken for sent.       *)
Swallow(id) ==
  /\ id \in owed
  /\ stream[id] > 0
  /\ owed' = owed \ {id}
  /\ UNCHANGED <<stream, faults>>

(* A fault forgets the rows that were being sent.                          *)
Fail ==
  /\ owed' \in SUBSET owed
  /\ faults' = faults + 1
  /\ UNCHANGED stream

Next ==
  \/ \E id \in OutboxIds : Write(id) \/ Send(id) \/ Swallow(id)
  \/ Fail

Spec == Init /\ [][Next]_vars
=============================================================================
