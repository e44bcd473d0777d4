-------------------------- MODULE OutputDeliveryProofs --------------------------
(***************************************************************************)
(* The safety properties of OutputDelivery for any number of routes,       *)
(* outputs, operators, requests and faults.                                *)
(*                                                                         *)
(* The invariant says where a cursor may come from (CursorInv), what is    *)
(* true of the routes the handler is past (MissInv), and how many sends    *)
(* are still to come (RepeatInv): one more for each output the stored      *)
(* cursor, or the handler's copy of it, does not cover.                    *)
(***************************************************************************)
EXTENDS OutputDelivery, TLAPS

(* The sender is at work on the first chunk when it begins.                *)
ConsumerInv ==
  /\ consumer.pc \in {"idle", "list"} => todo = {}
  /\ consumer.pc # "idle" => consumer.output \in Outputs /\ due[consumer.output] > 0
  /\ consumer.pc \in {"send", "fail", "record", "advance"} => consumer.route \in todo
  /\ consumer.pc # "send" => chunk = 1

(* What is under way or done began at some second.                         *)
BegunInv ==
  /\ turn \in Outputs => at[turn] > 0
  /\ \A o \in Outputs :
       /\ due[o] > 0 => at[o] > 0
       /\ finished[o] # {} => at[o] > 0

WriterInv ==
  /\ router.pc # "idle" => router.route \in Routes
  /\ \A p \in Operators : operators[p].pc # "idle" => operators[p].route \in Routes

PlaceInv == ConsumerInv /\ BegunInv /\ WriterInv

(* A cursor is 0, not after the one the route was given, or that of an     *)
(* output not after one that was wholly sent.                              *)
Covered(r, c) ==
  \/ c <= given[r]
  \/ \E p \in Outputs : WhollySent(r, p) /\ at[p] >= c

CursorInv ==
  \A r \in Routes :
    /\ Covered(r, rows[r].cursor)
    /\ Covered(r, copies[r].cursor)
    /\ router.route = r => Covered(r, router.row.cursor)
    /\ \A p \in Operators :
         operators[p].route = r /\ ~operators[p].fresh => Covered(r, operators[p].row.cursor)

(* The handler is past the routes it has listed and has not still to do.   *)
MissInv ==
  /\ consumer.pc \in {"routes", "send", "fail", "record", "advance"} =>
       \A r \in Routes \ todo : Enabled(copies[r]) => Outcome(r, consumer.output)
  /\ MissesAreExplained

(* The sender knows that the chunk has arrived, and the cursor has not     *)
(* been stored yet.                                                        *)
Acknowledged(r, o, c) ==
  /\ consumer.output = o /\ consumer.route = r
  /\ \/ consumer.pc \in {"record", "advance"}
     \/ consumer.pc = "send" /\ c < chunk

Uncovered(r, o, c) ==
  /\ ~Acknowledged(r, o, c)
  /\ \/ rows[r].cursor < at[o]
     \/ consumer.output = o /\ r \in todo /\ copies[r].cursor < at[o]

RepeatInv ==
  \A r \in Routes, o \in Outputs, c \in Parts :
    /\ sends[r][o][c] > 0 => at[o] > 0
    /\ sends[r][o][c] <= 1 + faults + rewinds[r] + lapses[r][o]
    /\ Uncovered(r, o, c) => sends[r][o][c] <= faults + rewinds[r] + lapses[r][o]

(* Without a lapse the place "fail" is reached with nothing sent, and it   *)
(* is the copy of the row that says so.                                    *)
RecordInv ==
  /\ \A r \in Routes, o \in Outputs, c \in Parts :
       Acknowledged(r, o, c) => sends[r][o][c] > 0
  /\ consumer.pc \in {"send", "fail"} => copies[consumer.route].cursor < at[consumer.output]
  /\ RecordsAreTrue

(* Whoever has a copy of a silent row would store it disabled.             *)
SilentInv ==
  \A r \in silent :
    /\ ~Enabled(rows[r])
    /\ r \notin todo
    /\ router.route # r
    /\ \A p \in Operators : operators[p].route = r => ~operators[p].row.enabled

IInv ==
  TypeOK /\ PlaceInv /\ CursorInv /\ MissInv /\ RepeatInv /\ RecordInv /\ SilentInv

USE DeliveryAssumption

-----------------------------------------------------------------------------
LEMMA NoRowIsARow == NoRow \in RouteRows /\ NoRow.cursor = 0 /\ ~Enabled(NoRow)
  BY DEF NoRow, RouteRows, Enabled

LEMMA NoRowsIsARow ==
  /\ NoRows \in [Routes -> RouteRows]
  /\ \A r \in Routes : NoRows[r] = NoRow
  BY NoRowIsARow DEF NoRows

LEMMA AdvancedRowType ==
  ASSUME NEW row \in RouteRows, NEW o \in Outputs, at \in [Outputs -> 0 .. MaxTime]
  PROVE  /\ AdvancedRow(row, o) \in RouteRows
         /\ AdvancedRow(row, o).cursor = at[o]
         /\ AdvancedRow(row, o).known = row.known
         /\ AdvancedRow(row, o).enabled = row.enabled
  BY DEF AdvancedRow, RouteRows

LEMMA MaterializedRowType ==
  ASSUME NEW row \in RouteRows, NEW l \in 0 .. MaxTime
  PROVE  /\ MaterializedRow(row, l) \in RouteRows
         /\ row.known => MaterializedRow(row, l).cursor = row.cursor
         /\ ~row.known => MaterializedRow(row, l).cursor = l
  BY DEF MaterializedRow, RouteRows

LEMMA PutType ==
  ASSUME NEW r \in Routes, NEW row \in RouteRows, Put(r, row),
         rows \in [Routes -> RouteRows], rewinds \in [Routes -> Nat]
  PROVE  /\ rows' \in [Routes -> RouteRows]
         /\ rewinds' \in [Routes -> Nat]
         /\ \A q \in Routes : rewinds'[q] >= rewinds[q]
         /\ row.cursor < rows[r].cursor => rewinds'[r] = rewinds[r] + 1
         /\ rows'[r] = row
         /\ \A q \in Routes \ {r} : rows'[q] = rows[q]
  BY DEF Put, RouteRows

LEMMA PutOther ==
  ASSUME NEW r, NEW row, Put(r, row), NEW q \in Routes, q # r,
         rows \in [Routes -> RouteRows]
  PROVE  rows'[q] = rows[q]
  BY DEF Put

LEMMA GiveType ==
  ASSUME NEW r \in Routes, NEW c \in 0 .. MaxTime, Give(r, c),
         given \in [Routes -> 0 .. MaxTime]
  PROVE  /\ given' \in [Routes -> 0 .. MaxTime]
         /\ \A q \in Routes : given'[q] >= given[q]
         /\ given'[r] >= c
  BY DEF Give, Later

LEMMA IdleType ==
  ASSUME IdleConsumer
  PROVE  /\ consumer' \in [pc : {"idle"}, output : {NoOutput}, route : {NoRoute}]
         /\ copies' = NoRows
         /\ todo' = {}
         /\ chunk' = 1 /\ attempt' = 1
         /\ chunk' \in Parts /\ attempt' \in 1 .. Attempts
  BY DEF IdleConsumer, Parts

LEMMA ActiveOutput ==
  ASSUME TypeOK, PlaceInv, consumer.pc # "idle"
  PROVE  consumer.output \in Outputs /\ due[consumer.output] > 0 /\ at[consumer.output] > 0
  BY DEF TypeOK, PlaceInv, ConsumerInv, BegunInv

LEMMA SentRoute ==
  ASSUME TypeOK, PlaceInv, consumer.pc \in {"send", "fail", "record", "advance"}
  PROVE  consumer.route \in todo /\ consumer.route \in Routes
  BY DEF TypeOK, PlaceInv, ConsumerInv

(* A step of the sender.                                                   *)
LEMMA SenderMoves ==
  ASSUME TypeOK, PlaceInv, SenderStep
  PROVE  /\ UNCHANGED <<session, due, tables, copies, todo, writers, finished, counts>>
         /\ consumer.pc = "send" /\ consumer.output \in Outputs
         /\ consumer.route \in todo /\ consumer.route \in Routes
         /\ consumer'.output = consumer.output /\ consumer'.route = consumer.route
         /\ consumer' \in [pc : {"send", "fail", "record"}, output : {consumer.output},
                           route : {consumer.route}]
         /\ chunk' \in Parts /\ attempt' \in 1 .. Attempts
         /\ consumer'.pc # "send" => chunk' = 1
<1>1. consumer.pc = "send"
  BY DEF SenderStep, ChunkSent, ChunkFails, ReplyLost, ConsumerAt
<1>2. /\ consumer.output \in Outputs
      /\ consumer.route \in todo /\ consumer.route \in Routes
  BY <1>1, ActiveOutput, SentRoute
<1>3. /\ consumer \in [pc : {"send"}, output : {consumer.output}, route : {consumer.route}]
      /\ chunk \in Parts /\ attempt \in 1 .. Attempts
      /\ Chunks \in Nat \ {0} /\ Attempts \in Nat \ {0}
  BY <1>1 DEF TypeOK
<1>4. /\ UNCHANGED <<session, due, tables, copies, todo, writers, finished, counts>>
      /\ consumer'.output = consumer.output /\ consumer'.route = consumer.route
      /\ consumer' \in [pc : {"send", "fail", "record"}, output : {consumer.output},
                        route : {consumer.route}]
      /\ chunk' \in Parts /\ attempt' \in 1 .. Attempts
      /\ consumer'.pc # "send" => chunk' = 1
  <2>1. CASE ChunkSent
    BY <1>3, <2>1 DEF ChunkSent, ConsumerGoes, Parts
  <2>2. ASSUME NEW permanent \in BOOLEAN, AttemptFails(permanent)
        PROVE  /\ UNCHANGED <<session, due, tables, copies, todo, writers, finished, counts>>
               /\ consumer'.output = consumer.output /\ consumer'.route = consumer.route
               /\ consumer' \in [pc : {"send", "fail", "record"}, output : {consumer.output},
                                 route : {consumer.route}]
               /\ chunk' \in Parts /\ attempt' \in 1 .. Attempts
               /\ consumer'.pc # "send" => chunk' = 1
    BY <1>3, <2>2 DEF AttemptFails, ConsumerGoes, Parts
  <2>. QED  BY <2>1, <2>2 DEF SenderStep, ChunkFails, ReplyLost
<1>. QED  BY <1>1, <1>2, <1>4

(* Arrivals and lapses only grow, one at a time and with the chunk the     *)
(* sender is at.                                                           *)
LEMMA SentMoves ==
  ASSUME TypeOK, PlaceInv, SenderStep
  PROVE  /\ sends' \in [Routes -> [Outputs -> [Parts -> Nat]]]
         /\ lapses' \in [Routes -> [Outputs -> Nat]]
         /\ \A r \in Routes, o \in Outputs, c \in Parts :
              /\ sends'[r][o][c] \in {sends[r][o][c], sends[r][o][c] + 1}
              /\ lapses'[r][o] >= lapses[r][o]
              /\ sends'[r][o][c] # sends[r][o][c]
                 => /\ consumer.route = r /\ consumer.output = o /\ chunk = c
                    /\ ChunkSent \/ ReplyLost
              /\ ReplyLost /\ consumer.route = r /\ consumer.output = o
                 => lapses'[r][o] = lapses[r][o] + 1
<1>1. /\ consumer.route \in Routes /\ consumer.output \in Outputs /\ chunk \in Parts
      /\ sends \in [Routes -> [Outputs -> [Parts -> Nat]]]
      /\ lapses \in [Routes -> [Outputs -> Nat]]
  BY SenderMoves DEF TypeOK
<1>2. /\ (ChunkArrives /\ (ChunkSent \/ ReplyLost)) \/ UNCHANGED sends
      /\ Lapses \/ UNCHANGED lapses
      /\ ReplyLost => Lapses
  BY DEF SenderStep, ChunkSent, ChunkFails, ReplyLost
<1>3. ASSUME ChunkArrives, ChunkSent \/ ReplyLost
      PROVE  /\ sends' \in [Routes -> [Outputs -> [Parts -> Nat]]]
             /\ \A r \in Routes, o \in Outputs, c \in Parts :
                  /\ sends'[r][o][c] \in {sends[r][o][c], sends[r][o][c] + 1}
                  /\ sends'[r][o][c] # sends[r][o][c]
                     => /\ consumer.route = r /\ consumer.output = o /\ chunk = c
                        /\ ChunkSent \/ ReplyLost
  BY <1>1, <1>3 DEF ChunkArrives
<1>4. ASSUME Lapses
      PROVE  /\ lapses' \in [Routes -> [Outputs -> Nat]]
             /\ \A r \in Routes, o \in Outputs :
                  /\ lapses'[r][o] >= lapses[r][o]
                  /\ consumer.route = r /\ consumer.output = o
                     => lapses'[r][o] = lapses[r][o] + 1
  BY <1>1, <1>4 DEF Lapses
<1>5. CASE UNCHANGED lapses
  <2>1. \A r \in Routes, o \in Outputs : lapses[r][o] \in Nat
    BY <1>1
  <2>. QED  BY <1>1, <1>2, <1>3, <1>4, <1>5, <2>1
<1>. QED  BY <1>1, <1>2, <1>3, <1>4, <1>5

LEMMA InitIInv == Init => IInv
<1>. SUFFICES ASSUME Init  PROVE IInv
  OBVIOUS
<1>. USE DEF Init
<1>1. TypeOK
  <2>1. /\ router \in [pc : {"idle"}, route : {NoRoute}, latest : {0}, row : RouteRows]
        /\ operators \in [Operators -> [pc : {"idle"}, route : {NoRoute}, fresh : BOOLEAN,
                                       row : RouteRows]]
    BY NoRowIsARow DEF IdleRouter, IdleOperator
  <2>2. chunk \in Parts /\ attempt \in 1 .. Attempts
    BY DEF Parts
  <2>3. rows \in [Routes -> RouteRows] /\ copies \in [Routes -> RouteRows]
    BY NoRowsIsARow
  <2>4. /\ sends \in [Routes -> [Outputs -> [Parts -> Nat]]]
        /\ lapses \in [Routes -> [Outputs -> Nat]]
        /\ records \in [Routes -> [Outputs -> {"none", "failed", "delivered"}]]
    OBVIOUS
  <2>. QED  BY <2>1, <2>2, <2>3, <2>4 DEF TypeOK
<1>2. PlaceInv
  BY DEF PlaceInv, ConsumerInv, BegunInv, WriterInv, IdleRouter, IdleOperator
<1>3. CursorInv
  <2>1. ASSUME NEW r \in Routes  PROVE Covered(r, 0)
    <3>1. given[r] = 0
      OBVIOUS
    <3>. QED  BY <3>1 DEF Covered
  <2>2. \A r \in Routes : router.route # r /\ \A p \in Operators : operators[p].route # r
    BY DEF IdleRouter, IdleOperator
  <2>3. ASSUME NEW r \in Routes
        PROVE  rows[r].cursor = 0 /\ copies[r].cursor = 0
    BY NoRowsIsARow, NoRowIsARow
  <2>. QED  BY <2>1, <2>2, <2>3 DEF CursorInv
<1>4. MissInv
  BY DEF MissInv, MissesAreExplained
<1>5. RepeatInv
  <2>1. \A r \in Routes, o \in Outputs, c \in Parts : sends[r][o][c] = 0
    OBVIOUS
  <2>2. faults = 0 /\ \A r \in Routes, o \in Outputs : rewinds[r] = 0 /\ lapses[r][o] = 0
    OBVIOUS
  <2>. QED  BY <2>1, <2>2 DEF RepeatInv
<1>6. RecordInv
  <2>1. \A r \in Routes, o \in Outputs, c \in Parts : sends[r][o][c] = 0
    OBVIOUS
  <2>. QED  BY <2>1 DEF RecordInv, RecordsAreTrue, Acknowledged, PartlySent
<1>7. SilentInv
  BY DEF SilentInv
<1>. QED  BY <1>1, <1>2, <1>3, <1>4, <1>5, <1>6, <1>7 DEF IInv

-----------------------------------------------------------------------------
LEMMA NextTypeOK == IInv /\ [Next]_vars => TypeOK'
<1>. SUFFICES ASSUME IInv, [Next]_vars  PROVE TypeOK'
  OBVIOUS
<1>. USE DEF IInv, TypeOK, session, tables, handler, writers, sent, counts
<1>r. IdleRouter \in [pc : {"idle"}, route : {NoRoute}, latest : {0}, row : RouteRows]
  BY NoRowIsARow DEF IdleRouter
<1>o. IdleOperator \in [pc : {"idle"}, route : {NoRoute}, fresh : BOOLEAN, row : RouteRows]
  BY NoRowIsARow DEF IdleOperator
<1>1. ASSUME NEW o \in Outputs, NEW second \in 1 .. MaxTime, BeginTurn(o, second)  PROVE TypeOK'
  BY <1>1 DEF BeginTurn
<1>2. ASSUME NEW o \in Outputs, Redeliver(o)  PROVE TypeOK'
  BY <1>2 DEF Redeliver
<1>3. CASE EndTurn
  BY <1>3 DEF EndTurn
<1>4. ASSUME NEW o \in Outputs, Take(o)  PROVE TypeOK'
  BY <1>4 DEF Take
<1>5. CASE List
  BY <1>5 DEF List, ConsumerGoes
<1>6. ASSUME NEW r \in Routes, Skip(r)  PROVE TypeOK'
  BY <1>6 DEF Skip
<1>7. ASSUME NEW r \in Routes, Refuse(r)  PROVE TypeOK'
  BY <1>7 DEF Refuse, ConsumerGoes
<1>8. ASSUME NEW r \in Routes, Send(r)  PROVE TypeOK'
  BY <1>8 DEF Send, ConsumerGoes, sent
<1>26. CASE SenderStep
  BY <1>26, SenderMoves, SentMoves
<1>27. CASE RecordFailure
  <2>1. consumer.output \in Outputs /\ consumer.route \in Routes
    BY <1>27, ActiveOutput, SentRoute DEF RecordFailure, ConsumerAt
  <2>2. records' \in [Routes -> [Outputs -> {"none", "failed", "delivered"}]]
    BY <1>27, <2>1 DEF RecordFailure
  <2>. QED  BY <1>27, <2>2 DEF RecordFailure, ConsumerGoes
<1>9. CASE Record
  <2>1. consumer.output \in Outputs /\ consumer.route \in Routes
    BY <1>9, ActiveOutput, SentRoute DEF Record, ConsumerAt
  <2>2. records' \in [Routes -> [Outputs -> {"none", "failed", "delivered"}]]
    BY <1>9, <2>1 DEF Record
  <2>. QED  BY <1>9, <2>2 DEF Record, ConsumerGoes
<1>10. CASE Advance
  <2>1. consumer.output \in Outputs /\ consumer.route \in Routes
    BY <1>10, ActiveOutput, SentRoute DEF Advance, ConsumerAt
  <2>2. AdvancedRow(copies[consumer.route], consumer.output) \in RouteRows
    BY <2>1, AdvancedRowType
  <2>3. rows' \in [Routes -> RouteRows] /\ rewinds' \in [Routes -> Nat]
    BY <1>10, <2>1, <2>2, PutType DEF Advance
  <2>. QED  BY <1>10, <2>3 DEF Advance, ConsumerGoes
<1>11. CASE Finish
  <2>1. consumer.output \in Outputs /\ due[consumer.output] > 0
    BY <1>11, ActiveOutput DEF Finish, ConsumerAt
  <2>2. due' \in [Outputs -> Nat] /\ finished' \in [Outputs -> SUBSET Routes]
    BY <1>11, <2>1 DEF Finish, Acknowledge
  <2>. QED  BY <1>11, <2>2, IdleType, NoRowsIsARow DEF Finish
<1>12. ASSUME NEW r \in Ruled, NEW bound \in BOOLEAN, RouterBegin(r, bound)  PROVE TypeOK'
  <2>1. router' \in [pc : {"ensure", "latest"}, route : {r}, latest : {0}, row : RouteRows]
    BY <1>12, <1>r DEF RouterBegin, IdleRouter
  <2>2. silent' \subseteq Routes /\ routings' \in 0 .. MaxRoutings
    BY <1>12 DEF RouterBegin, Reopens
  <2>. QED  BY <1>12, <2>1, <2>2 DEF RouterBegin
<1>13. CASE RouterEnsure \/ RouterUnruled
  <2>1. CASE RouterEnsure
    BY <2>1 DEF RouterEnsure
  <2>2. CASE RouterUnruled
    BY <1>r, <2>2 DEF RouterUnruled
  <2>. QED  BY <1>13, <2>1, <2>2
<1>14. CASE RouterCreate
  <2>1. router.route \in Routes
    BY <1>14 DEF RouterCreate, RouterAt, PlaceInv, WriterInv
  <2>2. [known |-> TRUE, enabled |-> TRUE, cursor |-> 0] \in RouteRows
    BY DEF RouteRows
  <2>3. rows' \in [Routes -> RouteRows] /\ rewinds' \in [Routes -> Nat]
    BY <1>14, <2>1, <2>2, PutType DEF RouterCreate
  <2>. QED  BY <1>14, <2>3 DEF RouterCreate
<1>15. ASSUME NEW l \in 0 .. MaxTime, RouterLatest(l)  PROVE TypeOK'
  BY <1>15 DEF RouterLatest
<1>16. CASE RouterExisting
  <2>1. router.route \in Routes
    BY <1>16 DEF RouterExisting, RouterAt, PlaceInv, WriterInv
  <2>. QED  BY <1>16, <2>1 DEF RouterExisting
<1>17. CASE RouterPut
  <2>1. router.route \in Routes
    BY <1>17 DEF RouterPut, RouterAt, PlaceInv, WriterInv
  <2>2. MaterializedRow(router.row, router.latest) \in RouteRows
    BY MaterializedRowType
  <2>3. rows' \in [Routes -> RouteRows] /\ rewinds' \in [Routes -> Nat]
    BY <1>17, <2>1, <2>2, PutType DEF RouterPut
  <2>4. given' \in [Routes -> 0 .. MaxTime]
    BY <1>17, <2>1, GiveType DEF RouterPut
  <2>. QED  BY <1>17, <1>r, <2>3, <2>4 DEF RouterPut
<1>18. ASSUME NEW p \in Operators, NEW r \in Routes, NEW fresh \in BOOLEAN,
              NEW row \in RouteRows, Request(p, r, fresh, row), silent' \subseteq Routes
       PROVE  TypeOK'
  BY <1>18 DEF Request
<1>19. ASSUME NEW p \in Operators, NEW r \in Routes, NEW l \in 0 .. MaxTime, Attach(p, r, l)
       PROVE  TypeOK'
  <2>1. [known |-> TRUE, enabled |-> TRUE, cursor |-> l] \in RouteRows
    BY DEF RouteRows
  <2>. QED  BY <1>18, <1>19, <2>1 DEF Attach, Reopens
<1>20. ASSUME NEW p \in Operators, NEW r \in Routes, Detach(p, r) \/ Enable(p, r)
       PROVE  TypeOK'
  <2>1. ASSUME NEW b \in BOOLEAN  PROVE [rows[r] EXCEPT !.enabled = b] \in RouteRows
    BY DEF RouteRows
  <2>. QED  BY <1>18, <1>20, <2>1 DEF Detach, Enable, Reopens
<1>21. ASSUME NEW p \in Operators, OperatorPut(p)  PROVE TypeOK'
  <2>1. operators[p].route \in Routes /\ operators[p].row \in RouteRows
    BY <1>21 DEF OperatorPut, OperatorAt, PlaceInv, WriterInv
  <2>2. rows' \in [Routes -> RouteRows] /\ rewinds' \in [Routes -> Nat]
    BY <1>21, <2>1, PutType DEF OperatorPut
  <2>3. (IF operators[p].fresh THEN operators[p].row.cursor ELSE 0) \in 0 .. MaxTime
    BY <2>1 DEF RouteRows
  <2>4. given' \in [Routes -> 0 .. MaxTime]
    BY <1>21, <2>1, <2>3, GiveType DEF OperatorPut
  <2>5. silent' \subseteq Routes
    BY <1>21, <2>1 DEF OperatorPut
  <2>. QED  BY <1>21, <1>o, <2>2, <2>4, <2>5 DEF OperatorPut
<1>22. CASE ConsumerFails
  <2>1. consumer.output \in Outputs /\ due[consumer.output] > 0
    BY <1>22, ActiveOutput DEF ConsumerFails
  <2>2. due' \in [Outputs -> Nat]
    BY <1>22, <2>1 DEF ConsumerFails, Acknowledge
  <2>. QED  BY <1>22, <2>2, IdleType, NoRowsIsARow DEF ConsumerFails, Fault
<1>23. CASE WriterFails
  <2>1. faults' \in 0 .. MaxFaults
    BY <1>23 DEF WriterFails, Fault
  <2>2. router' \in {router, IdleRouter}
    BY <1>23 DEF WriterFails
  <2>3. operators' = operators
        \/ \E p \in Operators : operators' = [operators EXCEPT ![p] = IdleOperator]
    BY <1>23 DEF WriterFails
  <2>4. operators' \in [Operators -> [pc : {"idle", "put"}, route : Routes \cup {NoRoute},
                                     fresh : BOOLEAN, row : RouteRows]]
    BY <1>o, <2>3
  <2>. QED  BY <1>23, <1>r, <2>1, <2>2, <2>4 DEF WriterFails
<1>24. CASE Crash
  BY <1>24, <1>r, <1>o, IdleType, NoRowsIsARow DEF Crash, Fault
<1>25. CASE UNCHANGED vars
  BY <1>25 DEF vars
<1>. HIDE DEF IInv, TypeOK, session, tables, handler, writers, sent, counts
<1>. QED
  BY <1>1, <1>2, <1>3, <1>4, <1>5, <1>6, <1>7, <1>8, <1>9, <1>10, <1>11, <1>12, <1>13, <1>14,
     <1>15, <1>16, <1>17, <1>19, <1>20, <1>21, <1>22, <1>23, <1>24, <1>25,
     <1>26, <1>27
  DEF Next, ConsumerStep, RouterStep

LEMMA NextPlaceInv == IInv /\ [Next]_vars => PlaceInv'
<1>. SUFFICES ASSUME IInv, [Next]_vars  PROVE PlaceInv'
  OBVIOUS
<1>t. TypeOK'
  BY NextTypeOK
<1>. USE DEF IInv, TypeOK, session, tables, handler, writers, sent, counts
<1>1. ConsumerInv'
  <2>. USE DEF PlaceInv, ConsumerInv
  <2>1. ASSUME NEW o \in Outputs, Take(o)  PROVE ConsumerInv'
    BY <2>1 DEF Take, ConsumerAt
  <2>2. CASE EndTurn \/ \E o \in Outputs : Redeliver(o)
    <3>0. PICK q \in Outputs : due' = [due EXCEPT ![q] = @ + 1]
      BY <2>2 DEF EndTurn, Redeliver
    <3>1. \A o \in Outputs : due'[o] >= due[o]
      BY <3>0
    <3>2. UNCHANGED <<consumer, todo, chunk>>
      BY <2>2 DEF EndTurn, Redeliver
    <3>3. \A o \in Outputs : due[o] \in Nat /\ due'[o] \in Nat
      BY <1>t
    <3>. QED  BY <3>1, <3>2, <3>3
  <2>3. CASE List
    BY <2>3 DEF List, ConsumerGoes, ConsumerAt
  <2>4. ASSUME NEW r \in Routes, Skip(r) \/ Refuse(r) \/ Send(r)  PROVE ConsumerInv'
    BY <2>4 DEF Skip, Refuse, Send, ConsumerGoes, ConsumerAt
  <2>5. CASE RecordFailure \/ Record \/ Advance
    BY <2>5 DEF RecordFailure, Record, Advance, ConsumerGoes, ConsumerAt
  <2>13. CASE SenderStep
    BY <2>13, SenderMoves
  <2>6. CASE Finish \/ ConsumerFails \/ Crash
    <3>1. IdleConsumer
      BY <2>6 DEF Finish, ConsumerFails, Crash
    <3>. QED  BY <3>1, IdleType
  <2>7. CASE UNCHANGED <<consumer, todo, chunk, due>>
    BY <2>7
  <2>8. ASSUME NEW o \in Outputs, NEW second \in 1 .. MaxTime, BeginTurn(o, second)
        PROVE  ConsumerInv'
    BY <2>8 DEF BeginTurn
  <2>9. ASSUME NEW p \in Operators, NEW r \in Routes, NEW l \in 0 .. MaxTime,
               Attach(p, r, l) \/ Detach(p, r) \/ Enable(p, r)
        PROVE  ConsumerInv'
    BY <2>7, <2>9 DEF Attach, Detach, Enable, Request
  <2>10. ASSUME NEW p \in Operators, OperatorPut(p)  PROVE ConsumerInv'
    BY <2>7, <2>10 DEF OperatorPut
  <2>11. ASSUME NEW r \in Ruled, NEW bound \in BOOLEAN, RouterBegin(r, bound)  PROVE ConsumerInv'
    BY <2>7, <2>11 DEF RouterBegin
  <2>12. CASE RouterStep \/ WriterFails \/ UNCHANGED vars
    BY <2>7, <2>12
    DEF RouterStep, RouterEnsure, RouterUnruled, RouterCreate, RouterLatest, RouterExisting,
        RouterPut, WriterFails, vars
  <2>. QED
    BY <2>1, <2>2, <2>3, <2>4, <2>5, <2>6, <2>8, <2>9, <2>10, <2>11, <2>12,
       <2>13
    DEF Next, ConsumerStep
<1>2. BegunInv'
  <2>. USE DEF PlaceInv, BegunInv
  <2>1. ASSUME NEW o \in Outputs, NEW second \in 1 .. MaxTime, BeginTurn(o, second)
        PROVE  BegunInv'
    BY <2>1 DEF BeginTurn
  <2>2. CASE EndTurn \/ \E o \in Outputs : Redeliver(o)
    BY <2>2 DEF EndTurn, Redeliver
  <2>3. CASE Finish
    <3>1. consumer.output \in Outputs /\ due[consumer.output] > 0 /\ at[consumer.output] > 0
      BY <2>3, ActiveOutput DEF Finish, ConsumerAt
    <3>. QED  BY <2>3, <3>1 DEF Finish, Acknowledge
  <2>4. CASE ConsumerFails
    <3>1. consumer.output \in Outputs /\ due[consumer.output] > 0
      BY <2>4, ActiveOutput DEF ConsumerFails
    <3>. QED  BY <2>4, <3>1 DEF ConsumerFails, Acknowledge
  <2>5. CASE UNCHANGED <<at, turn, due, finished>>
    BY <2>5
  <2>6. ASSUME NEW r \in Routes, Skip(r) \/ Refuse(r) \/ Send(r)  PROVE BegunInv'
    BY <2>5, <2>6 DEF Skip, Refuse, Send
  <2>7. ASSUME NEW o \in Outputs, Take(o)  PROVE BegunInv'
    BY <2>5, <2>7 DEF Take
  <2>8. CASE List \/ RecordFailure \/ Record \/ Advance
    BY <2>5, <2>8 DEF List, RecordFailure, Record, Advance
  <2>13. CASE SenderStep
    BY <2>5, <2>13, SenderMoves
  <2>9. ASSUME NEW p \in Operators, NEW r \in Routes, NEW l \in 0 .. MaxTime,
               Attach(p, r, l) \/ Detach(p, r) \/ Enable(p, r)
        PROVE  BegunInv'
    BY <2>5, <2>9 DEF Attach, Detach, Enable, Request
  <2>10. ASSUME NEW p \in Operators, OperatorPut(p)  PROVE BegunInv'
    BY <2>5, <2>10 DEF OperatorPut
  <2>11. ASSUME NEW r \in Ruled, NEW bound \in BOOLEAN, RouterBegin(r, bound)  PROVE BegunInv'
    BY <2>5, <2>11 DEF RouterBegin
  <2>12. CASE RouterStep \/ WriterFails \/ Crash \/ UNCHANGED vars
    BY <2>5, <2>12
    DEF RouterStep, RouterEnsure, RouterUnruled, RouterCreate, RouterLatest, RouterExisting,
        RouterPut, WriterFails, Crash, vars
  <2>. QED
    BY <2>1, <2>2, <2>3, <2>4, <2>6, <2>7, <2>8, <2>9, <2>10, <2>11, <2>12,
       <2>13
    DEF Next, ConsumerStep
<1>3. WriterInv'
  <2>. USE DEF PlaceInv, WriterInv
  <2>1. ASSUME NEW p \in Operators, NEW r \in Routes, NEW fresh, NEW row,
               Request(p, r, fresh, row)
        PROVE  WriterInv'
    BY <2>1 DEF Request
  <2>2. ASSUME NEW p \in Operators, NEW r \in Routes, NEW l \in 0 .. MaxTime,
               Attach(p, r, l) \/ Detach(p, r) \/ Enable(p, r)
        PROVE  WriterInv'
    BY <2>1, <2>2 DEF Attach, Detach, Enable
  <2>3. IdleOperator.pc = "idle" /\ IdleRouter.pc = "idle"
    BY DEF IdleOperator, IdleRouter
  <2>4. ASSUME NEW p \in Operators, OperatorPut(p)  PROVE WriterInv'
    BY <2>3, <2>4 DEF OperatorPut
  <2>5. ASSUME NEW r \in Ruled, NEW bound \in BOOLEAN, RouterBegin(r, bound)  PROVE WriterInv'
    BY <2>5 DEF RouterBegin, IdleRouter
  <2>6. CASE RouterStep
    BY <2>3, <2>6
    DEF RouterStep, RouterEnsure, RouterUnruled, RouterCreate, RouterLatest, RouterExisting,
        RouterPut, RouterAt
  <2>7. CASE WriterFails \/ Crash
    BY <2>3, <2>7 DEF WriterFails, Crash
  <2>8. CASE UNCHANGED <<router, operators>>
    BY <2>8
  <2>9. ASSUME NEW o \in Outputs, NEW second \in 1 .. MaxTime,
               BeginTurn(o, second) \/ Redeliver(o)
        PROVE  WriterInv'
    BY <2>8, <2>9 DEF BeginTurn, Redeliver
  <2>10. CASE EndTurn \/ ConsumerStep \/ ConsumerFails \/ UNCHANGED vars
    BY <2>8, <2>10
    DEF EndTurn, ConsumerStep, Take, List, Skip, Refuse, Send, SenderStep, ChunkSent, ChunkFails,
        ReplyLost, AttemptFails, RecordFailure, Record, Advance, Finish, ConsumerFails, vars, sent
  <2>11. ASSUME NEW o \in Outputs, Redeliver(o)  PROVE WriterInv'
    BY <2>8, <2>11 DEF Redeliver
  <2>. QED
    BY <2>2, <2>4, <2>5, <2>6, <2>7, <2>9, <2>10, <2>11 DEF Next
<1>. QED  BY <1>1, <1>2, <1>3 DEF PlaceInv

-----------------------------------------------------------------------------
(* Which steps touch which variables.                                     *)

LEMMA ConsumerMoves ==
  ASSUME [Next]_vars
  PROVE  \/ \E o \in Outputs : Take(o)
         \/ List \/ SenderStep \/ RecordFailure \/ Record \/ Advance
         \/ \E r \in Routes : Skip(r) \/ Refuse(r) \/ Send(r)
         \/ Finish \/ ConsumerFails \/ Crash
         \/ UNCHANGED handler
BY DEF Next, BeginTurn, Redeliver, EndTurn, ConsumerStep, SenderStep, ChunkSent, ChunkFails,
       ReplyLost, AttemptFails, RecordFailure, RouterBegin, RouterStep, RouterEnsure,
       RouterUnruled, RouterCreate, RouterExisting, RouterPut, RouterLatest, Attach, Detach,
       Enable, Request, OperatorPut, WriterFails, vars, handler

LEMMA RecordsMove ==
  ASSUME [Next]_vars
  PROVE  Record \/ RecordFailure \/ UNCHANGED records
BY DEF Next, BeginTurn, Redeliver, EndTurn, ConsumerStep, Take, List, Skip, Refuse, Send,
       SenderStep, ChunkSent, ChunkFails, ReplyLost, AttemptFails, RecordFailure, Advance,
       Finish, RouterBegin, RouterStep, RouterEnsure, RouterUnruled, RouterCreate,
       RouterExisting, RouterPut, RouterLatest, Attach, Detach, Enable, Request, OperatorPut,
       ConsumerFails, WriterFails, Crash, vars, tables, sent

LEMMA FinishedMoves ==
  ASSUME [Next]_vars
  PROVE  Finish \/ UNCHANGED finished
BY DEF Next, BeginTurn, Redeliver, EndTurn, ConsumerStep, Take, List, Skip, Send, SenderStep,
       ChunkSent, ChunkFails, ReplyLost, AttemptFails, RecordFailure, Refuse, Record, Advance,
       RouterBegin, RouterStep, RouterEnsure, RouterUnruled, RouterCreate, RouterExisting,
       RouterPut, RouterLatest, Attach, Detach, Enable, Request, OperatorPut, ConsumerFails,
       WriterFails, Crash, vars, sent

LEMMA RowsMove ==
  ASSUME [Next]_vars
  PROVE  \/ Advance \/ RouterCreate \/ RouterPut
         \/ \E p \in Operators : OperatorPut(p)
         \/ UNCHANGED <<rows, rewinds>>
BY DEF Next, BeginTurn, Redeliver, EndTurn, ConsumerStep, Take, List, Record, Finish, Skip, Refuse,
       Send, SenderStep, ChunkSent, ChunkFails, ReplyLost, AttemptFails, RecordFailure,
       RouterBegin, RouterStep, RouterEnsure, RouterUnruled, RouterExisting, RouterLatest, Attach,
       Detach, Enable, Request, ConsumerFails, WriterFails, Crash, vars, tables, sent

LEMMA SendsMove ==
  ASSUME [Next]_vars
  PROVE  SenderStep \/ UNCHANGED <<sends, lapses>>
BY DEF Next, BeginTurn, Redeliver, EndTurn, ConsumerStep, SenderStep, ChunkSent, ChunkFails,
       ReplyLost, AttemptFails, RecordFailure, Take, List, Record, Advance, Finish, Skip,
       Refuse, Send, RouterBegin, RouterStep, RouterEnsure, RouterUnruled, RouterCreate,
       RouterExisting, RouterPut, RouterLatest, Attach, Detach, Enable, Request, OperatorPut,
       ConsumerFails, WriterFails, Crash, vars, sent

-----------------------------------------------------------------------------
(* Arrivals, lapses, given cursors and the seconds of the turns never go   *)
(* down.                                                                   *)

LEMMA Monotone ==
  ASSUME IInv, [Next]_vars
  PROVE  /\ \A r \in Routes, o \in Outputs, c \in Parts : sends'[r][o][c] >= sends[r][o][c]
         /\ \A r \in Routes, o \in Outputs : lapses'[r][o] >= lapses[r][o]
         /\ \A r \in Routes : given'[r] >= given[r]
         /\ \A o \in Outputs : at'[o] >= at[o] /\ (at[o] > 0 => at'[o] = at[o])
<1>. USE DEF IInv, TypeOK, session, tables, handler, writers, sent, counts
<1>1. /\ \A r \in Routes, o \in Outputs, c \in Parts : sends'[r][o][c] >= sends[r][o][c]
      /\ \A r \in Routes, o \in Outputs : lapses'[r][o] >= lapses[r][o]
  <2>0. \A r \in Routes, o \in Outputs :
          lapses[r][o] \in Nat /\ \A c \in Parts : sends[r][o][c] \in Nat
    OBVIOUS
  <2>1. ASSUME SenderStep, NEW r \in Routes, NEW o \in Outputs, NEW c \in Parts
        PROVE  sends'[r][o][c] >= sends[r][o][c] /\ lapses'[r][o] >= lapses[r][o]
    <3>1. sends'[r][o][c] \in {sends[r][o][c], sends[r][o][c] + 1} /\ lapses'[r][o] >= lapses[r][o]
      BY <2>1, SentMoves
    <3>. QED  BY <2>0, <3>1
  <2>2. CASE UNCHANGED <<sends, lapses>>
    BY <2>0, <2>2
  <2>3. 1 \in Parts
    BY DEF Parts
  <2>. QED  BY <2>1, <2>2, <2>3, SendsMove
<1>2. \A r \in Routes : given'[r] >= given[r]
  <2>1. CASE RouterPut
    <3>1. router.route \in Routes
      BY <2>1 DEF RouterPut, RouterAt, PlaceInv, WriterInv
    <3>. QED  BY <2>1, <3>1, GiveType DEF RouterPut
  <2>2. ASSUME NEW p \in Operators, OperatorPut(p)  PROVE \A r \in Routes : given'[r] >= given[r]
    <3>1. operators[p].route \in Routes /\ operators[p].row \in RouteRows
      BY <2>2 DEF OperatorPut, OperatorAt, PlaceInv, WriterInv
    <3>2. (IF operators[p].fresh THEN operators[p].row.cursor ELSE 0) \in 0 .. MaxTime
      BY <3>1 DEF RouteRows
    <3>. QED  BY <2>2, <3>1, <3>2, GiveType DEF OperatorPut
  <2>3. CASE UNCHANGED given
    BY <2>3
  <2>4. RouterPut \/ (\E p \in Operators : OperatorPut(p)) \/ UNCHANGED given
    BY DEF Next, BeginTurn, Redeliver, EndTurn, ConsumerStep, Take, List, Record, Advance, Finish,
           Skip, Refuse, Send, SenderStep, ChunkSent, ChunkFails, ReplyLost, AttemptFails,
           RecordFailure, RouterBegin, RouterStep, RouterEnsure, RouterUnruled, RouterCreate,
           RouterExisting, RouterLatest, Attach, Detach, Enable, Request, ConsumerFails,
           WriterFails, Crash, vars, sent
  <2>. QED  BY <2>1, <2>2, <2>3, <2>4
<1>3. \A o \in Outputs : at'[o] >= at[o] /\ (at[o] > 0 => at'[o] = at[o])
  <2>1. ASSUME NEW o \in Outputs, NEW second \in 1 .. MaxTime, BeginTurn(o, second)
        PROVE  \A q \in Outputs : at'[q] >= at[q] /\ (at[q] > 0 => at'[q] = at[q])
    BY <2>1 DEF BeginTurn
  <2>2. CASE UNCHANGED at
    BY <2>2
  <2>3. (\E o \in Outputs, second \in 1 .. MaxTime : BeginTurn(o, second)) \/ UNCHANGED at
    BY DEF Next, Redeliver, EndTurn, ConsumerStep, Take, List, Record, Advance, Finish, Skip,
           Refuse, Send, SenderStep, ChunkSent, ChunkFails, ReplyLost, AttemptFails, RecordFailure,
           RouterBegin, RouterStep, RouterEnsure, RouterUnruled, RouterCreate, RouterExisting,
           RouterPut, RouterLatest, Attach, Detach, Enable, Request, OperatorPut, ConsumerFails,
           WriterFails, Crash, vars, sent
  <2>. QED  BY <2>1, <2>2, <2>3
<1>. QED  BY <1>1, <1>2, <1>3

-----------------------------------------------------------------------------
(* Where a cursor comes from.                                              *)

WhollyNext(r, o) == \A c \in Parts : sends'[r][o][c] > 0

LEMMA WhollyStays ==
  ASSUME IInv, [Next]_vars, TypeOK', NEW r \in Routes, NEW o \in Outputs, WhollySent(r, o)
  PROVE  WhollyNext(r, o)
<1>. SUFFICES ASSUME NEW c \in Parts  PROVE sends'[r][o][c] > 0
  BY DEF WhollyNext
<1>1. sends[r][o][c] > 0 /\ sends'[r][o][c] >= sends[r][o][c]
  BY Monotone DEF WhollySent
<1>2. sends[r][o][c] \in Nat /\ sends'[r][o][c] \in Nat
  BY DEF IInv, TypeOK
<1>. QED  BY <1>1, <1>2

CoveredNext(r, c) ==
  \/ c <= given'[r]
  \/ \E p \in Outputs : WhollyNext(r, p) /\ at'[p] >= c

LEMMA CoveredStays ==
  ASSUME IInv, [Next]_vars, TypeOK'
  PROVE  \A r \in Routes, c \in 0 .. MaxTime : Covered(r, c) => CoveredNext(r, c)
<1>. SUFFICES ASSUME NEW r \in Routes, NEW c \in 0 .. MaxTime, Covered(r, c)
              PROVE  CoveredNext(r, c)
  OBVIOUS
<1>1. given[r] \in Nat /\ given'[r] \in Nat /\ given'[r] >= given[r]
  BY Monotone DEF IInv, TypeOK
<1>2. ASSUME NEW p \in Outputs, WhollySent(r, p), at[p] >= c
      PROVE  WhollyNext(r, p) /\ at'[p] >= c
  <2>1. at[p] \in Nat /\ at'[p] \in Nat
    BY DEF IInv, TypeOK
  <2>. QED  BY <1>2, <2>1, Monotone, WhollyStays
<1>. QED  BY <1>1, <1>2 DEF Covered, CoveredNext

(* The handler stores a cursor when it knows that every chunk has arrived. *)
LEMMA SentWholly ==
  ASSUME IInv, consumer.pc \in {"record", "advance"}
  PROVE  /\ consumer.output \in Outputs /\ consumer.route \in Routes
         /\ WhollySent(consumer.route, consumer.output)
<1>1. consumer.output \in Outputs /\ consumer.route \in Routes
  BY ActiveOutput, SentRoute DEF IInv
<1>. QED  BY <1>1 DEF IInv, RecordInv, Acknowledged, WhollySent

LEMMA NextCursorInv == IInv /\ [Next]_vars => CursorInv'
<1>. SUFFICES ASSUME IInv, [Next]_vars, NEW r \in Routes
              PROVE  /\ CoveredNext(r, rows'[r].cursor)
                     /\ CoveredNext(r, copies'[r].cursor)
                     /\ router'.route = r => CoveredNext(r, router'.row.cursor)
                     /\ \A p \in Operators :
                          operators'[p].route = r /\ ~operators'[p].fresh
                            => CoveredNext(r, operators'[p].row.cursor)
  BY DEF CursorInv, Covered, CoveredNext, WhollySent, WhollyNext
<1>t. TypeOK /\ TypeOK'
  BY NextTypeOK DEF IInv
<1>r. rows \in [Routes -> RouteRows]
  BY <1>t DEF TypeOK
<1>c. ASSUME NEW c \in 0 .. MaxTime, Covered(r, c)  PROVE CoveredNext(r, c)
  BY <1>c, <1>t, CoveredStays
<1>z. CoveredNext(r, 0)
  <2>1. given'[r] \in Nat
    BY <1>t DEF TypeOK
  <2>. QED  BY <2>1 DEF CoveredNext
<1>b. /\ rows[r].cursor \in 0 .. MaxTime /\ copies[r].cursor \in 0 .. MaxTime
      /\ router.row.cursor \in 0 .. MaxTime
      /\ \A p \in Operators : operators[p].row.cursor \in 0 .. MaxTime
  BY <1>t DEF TypeOK, RouteRows
<1>k. /\ CoveredNext(r, rows[r].cursor)
      /\ CoveredNext(r, copies[r].cursor)
      /\ router.route = r => CoveredNext(r, router.row.cursor)
      /\ \A p \in Operators :
           operators[p].route = r /\ ~operators[p].fresh
             => CoveredNext(r, operators[p].row.cursor)
  BY <1>b, <1>c DEF IInv, CursorInv
<1>1. CoveredNext(r, rows'[r].cursor)
  <2>1. CASE Advance
    <3>1. /\ consumer.output \in Outputs
          /\ consumer.route \in Routes
          /\ WhollySent(consumer.route, consumer.output)
      BY <2>1, SentWholly DEF Advance, ConsumerAt
    <3>2. /\ AdvancedRow(copies[consumer.route], consumer.output) \in RouteRows
          /\ AdvancedRow(copies[consumer.route], consumer.output).cursor = at[consumer.output]
      BY <1>t, <3>1, AdvancedRowType DEF TypeOK
    <3>3. CASE consumer.route = r
      <4>1. rows'[r].cursor = at[consumer.output]
        BY <1>t, <2>1, <3>1, <3>2, <3>3, PutType DEF Advance, TypeOK
      <4>2. at[consumer.output] \in 0 .. MaxTime
        BY <1>t, <3>1 DEF TypeOK
      <4>3. Covered(r, at[consumer.output])
        BY <3>1, <3>3, <4>2 DEF Covered
      <4>. QED  BY <1>c, <4>1, <4>2, <4>3
    <3>4. CASE consumer.route # r
      <4>1. rows'[r] = rows[r]
        BY <1>r, <2>1, <3>4, PutOther DEF Advance
      <4>. QED  BY <1>k, <4>1
    <3>. QED  BY <3>3, <3>4
  <2>2. CASE RouterCreate
    <3>1. router.route \in Routes
      BY <2>2 DEF RouterCreate, RouterAt, IInv, PlaceInv, WriterInv
    <3>2. [known |-> TRUE, enabled |-> TRUE, cursor |-> 0] \in RouteRows
      BY DEF RouteRows
    <3>3. rows'[r] = [known |-> TRUE, enabled |-> TRUE, cursor |-> 0] \/ rows'[r] = rows[r]
      <4>1. CASE router.route = r
        BY <1>t, <2>2, <3>1, <3>2, <4>1, PutType DEF RouterCreate, TypeOK
      <4>2. CASE router.route # r
        BY <1>r, <2>2, <4>2, PutOther DEF RouterCreate
      <4>. QED  BY <4>1, <4>2
    <3>. QED  BY <1>k, <1>z, <3>3
  <2>3. CASE RouterPut
    <3>1. router.route \in Routes
      BY <2>3 DEF RouterPut, RouterAt, IInv, PlaceInv, WriterInv
    <3>2. router.row \in RouteRows /\ router.latest \in 0 .. MaxTime
      BY <1>t DEF TypeOK
    <3>3. MaterializedRow(router.row, router.latest) \in RouteRows
      BY <3>2, MaterializedRowType
    <3>4. CASE router.route = r
      <4>1. rows'[r] = MaterializedRow(router.row, router.latest)
        BY <1>t, <2>3, <3>1, <3>3, <3>4, PutType DEF RouterPut, TypeOK
      <4>2. CASE router.row.known
        BY <1>k, <3>2, <3>4, <4>1, <4>2, MaterializedRowType
      <4>3. CASE ~router.row.known
        <5>1. given'[r] >= router.latest
          BY <1>t, <2>3, <3>1, <3>2, <3>4, <4>3, GiveType DEF RouterPut, TypeOK
        <5>2. rows'[r].cursor = router.latest
          BY <3>2, <4>1, <4>3, MaterializedRowType
        <5>3. given'[r] \in 0 .. MaxTime
          BY <1>t DEF TypeOK
        <5>. QED  BY <3>2, <5>1, <5>2, <5>3 DEF CoveredNext
      <4>. QED  BY <4>2, <4>3
    <3>5. CASE router.route # r
      <4>1. rows'[r] = rows[r]
        BY <1>r, <2>3, <3>5, PutOther DEF RouterPut
      <4>. QED  BY <1>k, <4>1
    <3>. QED  BY <3>4, <3>5
  <2>4. ASSUME NEW p \in Operators, OperatorPut(p)  PROVE CoveredNext(r, rows'[r].cursor)
    <3>1. operators[p].route \in Routes /\ operators[p].row \in RouteRows
      BY <1>t, <2>4 DEF OperatorPut, OperatorAt, IInv, PlaceInv, WriterInv, TypeOK
    <3>2. CASE operators[p].route = r
      <4>1. rows'[r] = operators[p].row
        BY <1>t, <2>4, <3>1, <3>2, PutType DEF OperatorPut, TypeOK
      <4>2. CASE operators[p].fresh
        <5>1. operators[p].row.cursor \in 0 .. MaxTime
          BY <1>b
        <5>2. Give(operators[p].route, operators[p].row.cursor)
          BY <2>4, <4>2 DEF OperatorPut
        <5>3. given'[r] >= operators[p].row.cursor
          BY <1>t, <3>1, <3>2, <5>1, <5>2, GiveType DEF TypeOK
        <5>4. given'[r] \in 0 .. MaxTime
          BY <1>t DEF TypeOK
        <5>. QED  BY <4>1, <5>1, <5>3, <5>4 DEF CoveredNext
      <4>3. CASE ~operators[p].fresh
        BY <1>k, <3>2, <4>1, <4>3
      <4>. QED  BY <4>2, <4>3
    <3>3. CASE operators[p].route # r
      <4>1. rows'[r] = rows[r]
        BY <1>r, <2>4, <3>3, PutOther DEF OperatorPut
      <4>. QED  BY <1>k, <4>1
    <3>. QED  BY <3>2, <3>3
  <2>5. CASE UNCHANGED rows
    BY <1>k, <2>5
  <2>. QED  BY <2>1, <2>2, <2>3, <2>4, <2>5, RowsMove
<1>2. CoveredNext(r, copies'[r].cursor)
  <2>1. CASE copies' = NoRows
    BY <1>z, <2>1, NoRowsIsARow, NoRowIsARow
  <2>2. CASE copies' \in {rows, copies}
    BY <1>k, <2>2
  <2>3. copies' = NoRows \/ copies' \in {rows, copies}
    BY DEF Next, BeginTurn, Redeliver, EndTurn, ConsumerStep, Take, List, Record, Advance, Finish,
           Skip, Refuse, Send, SenderStep, ChunkSent, ChunkFails, ReplyLost, AttemptFails,
           RecordFailure, RouterBegin, RouterStep, RouterEnsure, RouterUnruled, RouterCreate,
           RouterExisting, RouterPut, RouterLatest, Attach, Detach, Enable, Request, OperatorPut,
           ConsumerFails, WriterFails, Crash, vars, handler, IdleConsumer, sent
  <2>. QED  BY <2>1, <2>2, <2>3
<1>3. router'.route = r => CoveredNext(r, router'.row.cursor)
  <2>. USE DEF IdleRouter
  <2>1. CASE router' = IdleRouter
    BY <2>1
  <2>2. ASSUME NEW q \in Ruled, NEW bound \in BOOLEAN, RouterBegin(q, bound)
        PROVE  router'.row.cursor = 0
    BY <2>2, NoRowIsARow DEF RouterBegin
  <2>3. CASE RouterExisting
    <3>1. router'.row = rows[router.route] /\ router'.route = router.route
      BY <1>t, <2>3 DEF RouterExisting, TypeOK
    <3>. QED  BY <1>k, <3>1
  <2>4. CASE router'.row = router.row /\ router'.route = router.route
    BY <1>k, <2>4
  <2>5. ASSUME RouterEnsure \/ RouterCreate \/ \E l \in 0 .. MaxTime : RouterLatest(l)
        PROVE  router'.row = router.row /\ router'.route = router.route
    BY <1>t, <2>5 DEF RouterEnsure, RouterCreate, RouterLatest, TypeOK
  <2>6. \/ router' = IdleRouter
        \/ \E q \in Ruled, bound \in BOOLEAN : RouterBegin(q, bound)
        \/ RouterExisting
        \/ RouterEnsure \/ RouterCreate \/ \E l \in 0 .. MaxTime : RouterLatest(l)
        \/ UNCHANGED router
    BY DEF Next, BeginTurn, Redeliver, EndTurn, ConsumerStep, Take, List, Record, Advance, Finish,
           Skip, Refuse, Send, SenderStep, ChunkSent, ChunkFails, ReplyLost, AttemptFails,
           RecordFailure, RouterStep, RouterUnruled, RouterPut, Attach, Detach, Enable, Request,
           OperatorPut, ConsumerFails, WriterFails, Crash, vars, writers, sent
  <2>. QED  BY <1>z, <2>1, <2>2, <2>3, <2>4, <2>5, <2>6
<1>4. ASSUME NEW p \in Operators, operators'[p].route = r, ~operators'[p].fresh
      PROVE  CoveredNext(r, operators'[p].row.cursor)
  <2>1. CASE operators'[p] = IdleOperator
    BY <1>4, <2>1 DEF IdleOperator
  <2>2. CASE operators'[p] = operators[p]
    BY <1>4, <1>k, <2>2
  <2>3. ASSUME NEW q \in Routes, NEW l \in 0 .. MaxTime, NEW o \in Operators, Attach(o, q, l)
        PROVE  operators'[p] = operators[p]
    BY <1>4, <1>t, <2>3 DEF Attach, Request, TypeOK
  <2>4. ASSUME NEW q \in Routes, NEW o \in Operators, NEW b \in BOOLEAN,
               Request(o, q, FALSE, [rows[q] EXCEPT !.enabled = b])
        PROVE  CoveredNext(r, operators'[p].row.cursor)
    <3>1. CASE o # p
      <4>1. operators'[p] = operators[p]
        BY <1>t, <2>4, <3>1 DEF Request, TypeOK
      <4>. QED  BY <2>2, <4>1
    <3>2. CASE o = p
      <4>1. operators'[p] = [pc |-> "put", route |-> q, fresh |-> FALSE,
                             row |-> [rows[q] EXCEPT !.enabled = b]]
        BY <1>t, <2>4, <3>2 DEF Request, TypeOK
      <4>2. q = r
        BY <1>4, <4>1
      <4>3. operators'[p].row = [rows[r] EXCEPT !.enabled = b]
        BY <4>1, <4>2
      <4>4. operators'[p].row.cursor = rows[r].cursor
        BY <1>r, <4>3 DEF RouteRows
      <4>. QED  BY <1>k, <4>4
    <3>. QED  BY <3>1, <3>2
  <2>5. ASSUME NEW o \in Operators, OperatorPut(o)
        PROVE  operators'[p] \in {operators[p], IdleOperator}
    BY <1>t, <2>5 DEF OperatorPut, TypeOK
  <2>6. CASE WriterFails \/ Crash
    <3>1. operators'[p] \in {operators[p], IdleOperator}
      BY <1>t, <2>6 DEF WriterFails, Crash, TypeOK
    <3>. QED  BY <2>1, <2>2, <3>1
  <2>7. \/ \E o \in Operators, q \in Routes :
             \/ \E l \in 0 .. MaxTime : Attach(o, q, l)
             \/ \E b \in BOOLEAN : Request(o, q, FALSE, [rows[q] EXCEPT !.enabled = b])
        \/ \E o \in Operators : OperatorPut(o)
        \/ WriterFails \/ Crash
        \/ UNCHANGED operators
    BY DEF Next, BeginTurn, Redeliver, EndTurn, ConsumerStep, Take, List, Record, Advance, Finish,
           Skip, Refuse, Send, SenderStep, ChunkSent, ChunkFails, ReplyLost, AttemptFails,
           RecordFailure, RouterBegin, RouterStep, RouterEnsure, RouterUnruled, RouterCreate,
           RouterExisting, RouterPut, RouterLatest, Detach, Enable, ConsumerFails, vars, writers,
           sent
  <2>. QED  BY <2>1, <2>2, <2>3, <2>4, <2>5, <2>6, <2>7
<1>. QED  BY <1>1, <1>2, <1>3, <1>4
-----------------------------------------------------------------------------
(* What has become of a route stays a reason.                              *)

OutcomeNext(r, o) ==
  \/ WhollyNext(r, o)
  \/ records'[r][o] = "failed"
  \/ \E p \in Outputs \ {o} : WhollyNext(r, p) /\ at'[p] >= at'[o]
  \/ given'[r] >= at'[o]

LEMMA OutcomeStays ==
  ASSUME IInv, [Next]_vars, TypeOK', NEW r \in Routes, NEW o \in Outputs, at[o] > 0, Outcome(r, o)
  PROVE  OutcomeNext(r, o)
<1>n. /\ \A p \in Outputs : at[p] \in Nat /\ at'[p] \in Nat
      /\ given[r] \in Nat /\ given'[r] \in Nat
  BY DEF IInv, TypeOK
<1>m. /\ \A p \in Outputs : at'[p] >= at[p]
      /\ given'[r] >= given[r]
      /\ at'[o] = at[o]
  BY Monotone
<1>1. CASE WhollySent(r, o)
  BY <1>1, WhollyStays DEF OutcomeNext
<1>2. CASE Overtaken(r, o)
  <2>1. PICK p \in Outputs \ {o} : WhollySent(r, p) /\ at[p] >= at[o]
    BY <1>2 DEF Overtaken
  <2>2. WhollyNext(r, p) /\ at'[p] >= at'[o]
    BY <1>n, <1>m, <2>1, WhollyStays
  <2>. QED  BY <2>2 DEF OutcomeNext
<1>3. CASE given[r] >= at[o]
  <2>1. given'[r] >= at'[o]
    BY <1>3, <1>n, <1>m
  <2>. QED  BY <2>1 DEF OutcomeNext
<1>4. CASE records[r][o] = "failed"
  <2>0. records \in [Routes -> [Outputs -> {"none", "failed", "delivered"}]]
    BY DEF IInv, TypeOK
  <2>1. CASE Record
    <3>1. Record => consumer.pc = "record"
      BY DEF Record, ConsumerAt
    <3>2. consumer.output \in Outputs /\ consumer.route \in Routes
      BY <2>1, <3>1, ActiveOutput, SentRoute DEF IInv
    <3>3. records' = [records EXCEPT ![consumer.route][consumer.output] = "delivered"]
      BY <2>1 DEF Record
    <3>4. CASE consumer.route = r /\ consumer.output = o
      <4>1. WhollySent(r, o)
        BY <2>1, <3>1, <3>4, SentWholly
      <4>. QED  BY <1>1, <4>1
    <3>5. CASE ~(consumer.route = r /\ consumer.output = o)
      <4>1. records'[r][o] = records[r][o]
        BY <2>0, <3>2, <3>3, <3>5
      <4>. QED  BY <1>4, <4>1 DEF OutcomeNext
    <3>. QED  BY <3>4, <3>5
  <2>2. CASE RecordFailure
    <3>1. records' = [records EXCEPT ![consumer.route][consumer.output] = "failed"]
      BY <2>2 DEF RecordFailure
    <3>2. records'[r][o] = "failed"
      BY <1>4, <2>0, <3>1
    <3>. QED  BY <3>2 DEF OutcomeNext
  <2>3. CASE UNCHANGED records
    BY <1>4, <2>3 DEF OutcomeNext
  <2>. QED  BY <2>1, <2>2, <2>3, RecordsMove
<1>. QED  BY <1>1, <1>2, <1>3, <1>4 DEF Outcome

LEMMA NextMissInv == IInv /\ [Next]_vars => MissInv'
<1>. SUFFICES ASSUME IInv, [Next]_vars  PROVE MissInv'
  OBVIOUS
<1>. SUFFICES /\ \A r \in Routes, o \in Outputs :
                   /\ consumer'.pc \in {"routes", "send", "fail", "record", "advance"}
                   /\ consumer'.output = o
                   /\ r \notin todo'
                   /\ Enabled(copies'[r])
                   => OutcomeNext(r, o)
              /\ \A o \in Outputs : \A r \in finished'[o] : OutcomeNext(r, o)
  <2>1. consumer'.pc \in {"routes", "send", "fail", "record", "advance"}
          => consumer'.output \in Outputs
    BY NextPlaceInv DEF PlaceInv, ConsumerInv
  <2>. QED  BY <2>1
     DEF MissInv, MissesAreExplained, Outcome, Overtaken, OutcomeNext, Enabled, WhollySent,
         WhollyNext
<1>t. TypeOK /\ TypeOK' /\ PlaceInv
  BY NextTypeOK DEF IInv
<1>p. \A r \in Routes, o \in Outputs : at[o] > 0 /\ Outcome(r, o) => OutcomeNext(r, o)
  BY <1>t, OutcomeStays
<1>1. ASSUME NEW r \in Routes, NEW o \in Outputs,
             consumer'.pc \in {"routes", "send", "fail", "record", "advance"}, consumer'.output = o,
             r \notin todo', Enabled(copies'[r])
      PROVE  OutcomeNext(r, o)
  <2>1. ASSUME consumer.pc \in {"routes", "send", "fail", "record", "advance"}, consumer.output = o,
               copies' = copies, r \notin todo
        PROVE  OutcomeNext(r, o)
    <3>1. at[o] > 0
      BY <1>t, <2>1, ActiveOutput
    <3>2. Outcome(r, o)
      BY <1>1, <2>1 DEF IInv, MissInv
    <3>. QED  BY <1>p, <3>1, <3>2
  <2>2. ASSUME NEW q \in Outputs, Take(q)  PROVE FALSE
    BY <1>1, <2>2 DEF Take
  <2>3. CASE List
    BY <1>1, <2>3 DEF List
  <2>4. ASSUME NEW q \in Routes, Skip(q)  PROVE OutcomeNext(r, o)
    <3>1. /\ consumer.pc = "routes" /\ consumer.output = o /\ copies' = copies
          /\ todo' = todo \ {q}
      BY <1>1, <2>4 DEF Skip, ConsumerAt
    <3>2. CASE r = q /\ r \in todo
      <4>1. at[o] > 0 /\ at[o] \in 0 .. MaxTime /\ copies[r].cursor \in 0 .. MaxTime
        BY <1>t, <3>1, ActiveOutput DEF TypeOK, RouteRows
      <4>2. copies[r].cursor >= at[o] /\ Covered(r, copies[r].cursor)
        BY <2>4, <3>1, <3>2 DEF Skip, AlreadyDelivered, IInv, CursorInv
      <4>3. CASE copies[r].cursor <= given[r]
        <5>1. given[r] >= at[o]
          BY <1>t, <4>1, <4>2, <4>3 DEF TypeOK
        <5>. QED  BY <1>p, <4>1, <5>1 DEF Outcome
      <4>4. ASSUME NEW p \in Outputs, WhollySent(r, p), at[p] >= copies[r].cursor
            PROVE  Outcome(r, o)
        <5>1. at[p] >= at[o]
          BY <1>t, <4>1, <4>2, <4>4 DEF TypeOK
        <5>. QED  BY <4>4, <5>1 DEF Outcome, Overtaken
      <4>. QED  BY <1>p, <4>1, <4>2, <4>3, <4>4 DEF Covered
    <3>. QED  BY <1>1, <2>1, <3>1, <3>2
  <2>5. CASE RecordFailure
    <3>1. /\ consumer.pc = "fail" /\ consumer.output = o /\ copies' = copies
          /\ todo' = todo \ {consumer.route}
          /\ records' = [records EXCEPT ![consumer.route][consumer.output] = "failed"]
      BY <1>1, <2>5 DEF RecordFailure, ConsumerAt, ConsumerGoes
    <3>2. CASE r = consumer.route
      <4>1. records'[r][o] = "failed"
        BY <1>t, <3>1, <3>2 DEF TypeOK
      <4>. QED  BY <4>1 DEF OutcomeNext
    <3>. QED  BY <1>1, <2>1, <3>1, <3>2
  <2>6. ASSUME NEW q \in Routes, Refuse(q) \/ Send(q)  PROVE OutcomeNext(r, o)
    BY <1>1, <2>1, <2>6 DEF Refuse, Send, ConsumerAt, ConsumerGoes
  <2>11. CASE SenderStep
    BY <1>1, <1>t, <2>1, <2>11, SenderMoves
  <2>7. CASE Record
    BY <1>1, <2>1, <2>7 DEF Record, ConsumerAt, ConsumerGoes
  <2>8. CASE Advance
    <3>1. /\ consumer.pc = "advance" /\ consumer.output = o /\ copies' = copies
          /\ todo' = todo \ {consumer.route}
      BY <1>1, <2>8 DEF Advance, ConsumerAt, ConsumerGoes
    <3>2. CASE r = consumer.route
      <4>1. at[o] > 0
        BY <1>t, <3>1, ActiveOutput
      <4>2. Outcome(r, o)
        BY <3>1, <3>2, SentWholly DEF Outcome
      <4>. QED  BY <1>p, <4>1, <4>2
    <3>. QED  BY <1>1, <2>1, <3>1, <3>2
  <2>9. CASE Finish \/ ConsumerFails \/ Crash
    BY <1>1, <2>9 DEF Finish, ConsumerFails, Crash, IdleConsumer
  <2>10. CASE UNCHANGED handler
    BY <1>1, <2>1, <2>10 DEF handler
  <2>. QED
    BY <2>2, <2>3, <2>4, <2>5, <2>6, <2>7, <2>8, <2>9, <2>10, <2>11,
       ConsumerMoves
<1>2. ASSUME NEW o \in Outputs, NEW r \in finished'[o]  PROVE OutcomeNext(r, o)
  <2>0. r \in Routes
    BY <1>t, <1>2 DEF TypeOK
  <2>1. CASE r \in finished[o]
    <3>1. at[o] > 0
      BY <1>t, <2>1 DEF PlaceInv, BegunInv
    <3>2. Outcome(r, o)
      BY <2>1 DEF IInv, MissInv, MissesAreExplained
    <3>. QED  BY <1>p, <2>0, <3>1, <3>2
  <2>2. CASE r \notin finished[o]
    <3>1. Finish
      BY <1>2, <2>2, FinishedMoves
    <3>2. consumer.pc = "routes" /\ todo = {}
      BY <3>1 DEF Finish, ConsumerAt
    <3>3. consumer.output = o /\ Enabled(copies[r])
      BY <1>t, <1>2, <2>2, <3>1 DEF Finish, TypeOK
    <3>4. at[o] > 0
      BY <1>t, <3>2, <3>3, ActiveOutput
    <3>5. Outcome(r, o)
      BY <2>0, <3>2, <3>3 DEF IInv, MissInv
    <3>. QED  BY <1>p, <2>0, <3>4, <3>5
  <2>. QED  BY <2>1, <2>2
<1>. QED  BY <1>1, <1>2

-----------------------------------------------------------------------------
(* The sends still to come. Faults and rewinds only grow, and a stored     *)
(* cursor that goes back is a rewind.                                      *)

LEMMA FaultsGrow ==
  ASSUME IInv, [Next]_vars, TypeOK'
  PROVE  /\ faults' >= faults
         /\ ConsumerFails \/ Crash => faults' = faults + 1
<1>1. Fault \/ UNCHANGED faults
  BY DEF Next, BeginTurn, Redeliver, EndTurn, ConsumerStep, Take, List, Record, Advance, Finish,
         Skip, Refuse, Send, SenderStep, ChunkSent, ChunkFails, ReplyLost, AttemptFails,
         RecordFailure, RouterBegin, RouterStep, RouterEnsure, RouterUnruled, RouterCreate,
         RouterExisting, RouterPut, RouterLatest, Attach, Detach, Enable, Request, OperatorPut,
         ConsumerFails, WriterFails, Crash, vars, counts, sent
<1>. QED  BY <1>1 DEF Fault, ConsumerFails, Crash, IInv, TypeOK

LEMMA PutRow ==
  ASSUME IInv, TypeOK', [Next]_vars
  PROVE  \/ \E q \in Routes, row \in RouteRows : Put(q, row)
         \/ UNCHANGED <<rows, rewinds>>
<1>1. CASE Advance
  <2>1. consumer.output \in Outputs /\ consumer.route \in Routes
    BY <1>1, ActiveOutput, SentRoute DEF Advance, ConsumerAt, IInv
  <2>2. AdvancedRow(copies[consumer.route], consumer.output) \in RouteRows
    BY <2>1, AdvancedRowType DEF IInv, TypeOK
  <2>. QED  BY <1>1, <2>1, <2>2 DEF Advance
<1>2. CASE RouterCreate
  <2>1. router.route \in Routes
    BY <1>2 DEF RouterCreate, RouterAt, IInv, PlaceInv, WriterInv
  <2>2. [known |-> TRUE, enabled |-> TRUE, cursor |-> 0] \in RouteRows
    BY DEF RouteRows
  <2>. QED  BY <1>2, <2>1, <2>2 DEF RouterCreate
<1>3. CASE RouterPut
  <2>1. router.route \in Routes
    BY <1>3 DEF RouterPut, RouterAt, IInv, PlaceInv, WriterInv
  <2>2. MaterializedRow(router.row, router.latest) \in RouteRows
    BY MaterializedRowType DEF IInv, TypeOK
  <2>. QED  BY <1>3, <2>1, <2>2 DEF RouterPut
<1>4. ASSUME NEW p \in Operators, OperatorPut(p)
      PROVE  \E q \in Routes, row \in RouteRows : Put(q, row)
  <2>1. operators[p].route \in Routes /\ operators[p].row \in RouteRows
    BY <1>4 DEF OperatorPut, OperatorAt, IInv, PlaceInv, WriterInv, TypeOK
  <2>. QED  BY <1>4, <2>1 DEF OperatorPut
<1>. QED  BY <1>1, <1>2, <1>3, <1>4, RowsMove

LEMMA RewindsGrow ==
  ASSUME IInv, TypeOK', [Next]_vars, NEW r \in Routes
  PROVE  /\ rewinds'[r] >= rewinds[r]
         /\ rows'[r].cursor < rows[r].cursor => rewinds'[r] = rewinds[r] + 1
<1>0. rows \in [Routes -> RouteRows] /\ rewinds \in [Routes -> Nat]
  BY DEF IInv, TypeOK
<1>1. ASSUME NEW q \in Routes, NEW row \in RouteRows, Put(q, row)
      PROVE  /\ rewinds'[r] >= rewinds[r]
             /\ rows'[r].cursor < rows[r].cursor => rewinds'[r] = rewinds[r] + 1
  BY <1>0, <1>1 DEF Put, RouteRows
<1>2. CASE UNCHANGED <<rows, rewinds>>
  BY <1>0, <1>2 DEF RouteRows
<1>. QED  BY <1>1, <1>2, PutRow

UncoveredNext(r, o, c) ==
  /\ ~(/\ consumer'.output = o /\ consumer'.route = r
       /\ \/ consumer'.pc \in {"record", "advance"}
          \/ consumer'.pc = "send" /\ c < chunk')
  /\ \/ rows'[r].cursor < at'[o]
     \/ consumer'.output = o /\ r \in todo' /\ copies'[r].cursor < at'[o]

(* A sender that gives up after a chunk has a lapse.                       *)
LEMMA GivingUp ==
  ASSUME IInv, SenderStep, consumer'.pc = "fail", chunk > 1 \/ sends' # sends
  PROVE  lapses'[consumer.route][consumer.output] = lapses[consumer.route][consumer.output] + 1
<1>1. /\ consumer.route \in Routes /\ consumer.output \in Outputs /\ consumer.pc = "send"
      /\ lapses \in [Routes -> [Outputs -> Nat]]
  BY SenderMoves DEF IInv, TypeOK
<1>2. ~ChunkSent
  BY <1>1 DEF ChunkSent, ConsumerGoes
<1>3. Lapses
  BY <1>1, <1>2 DEF SenderStep, ChunkFails, ReplyLost
<1>. QED  BY <1>1, <1>3 DEF Lapses

(* A chunk becomes uncovered when the turn of its output begins, with a    *)
(* rewind, with a lapse or with a fault.                                   *)
LEMMA UncoveredMoves ==
  ASSUME IInv, [Next]_vars, TypeOK', NEW r \in Routes, NEW o \in Outputs, NEW c \in Parts,
         UncoveredNext(r, o, c)
  PROVE  \/ Uncovered(r, o, c)
         \/ at'[o] # at[o]
         \/ rows'[r].cursor < rows[r].cursor
         \/ lapses'[r][o] = lapses[r][o] + 1
         \/ ConsumerFails \/ Crash
<1>. SUFFICES ASSUME ~Uncovered(r, o, c), at'[o] = at[o], ~(rows'[r].cursor < rows[r].cursor),
                     lapses'[r][o] # lapses[r][o] + 1, ~ConsumerFails, ~Crash
              PROVE  FALSE
  OBVIOUS
<1>t. /\ TypeOK /\ TypeOK' /\ PlaceInv
      /\ rows[r].cursor \in Nat /\ rows'[r].cursor \in Nat
      /\ copies[r].cursor \in Nat /\ copies'[r].cursor \in Nat
      /\ at[o] \in Nat
      /\ chunk \in Nat /\ chunk' \in Nat /\ c \in Nat /\ c > 0
  <2>1. chunk \in Nat /\ chunk' \in Nat /\ c \in Nat /\ c > 0
    BY DEF IInv, TypeOK, Parts
  <2>2. /\ rows[r].cursor \in Nat /\ rows'[r].cursor \in Nat
        /\ copies[r].cursor \in Nat /\ copies'[r].cursor \in Nat
    <3>1. /\ rows[r] \in RouteRows /\ rows'[r] \in RouteRows
          /\ copies[r] \in RouteRows /\ copies'[r] \in RouteRows
      BY DEF IInv, TypeOK
    <3>. QED  BY <3>1 DEF RouteRows
  <2>3. at[o] \in Nat
    BY DEF IInv, TypeOK
  <2>. QED  BY <2>1, <2>2, <2>3 DEF IInv
<1>1. CASE Acknowledged(r, o, c)
  <2>0. consumer.output = o /\ consumer.route = r /\ consumer.pc \in {"send", "record", "advance"}
    BY <1>1 DEF Acknowledged
  <2>1. \A q \in Routes : ~Skip(q) /\ ~Refuse(q) /\ ~Send(q)
    BY <2>0 DEF Skip, Refuse, Send, ConsumerAt
  <2>2. ~List /\ ~Finish /\ ~RecordFailure /\ \A q \in Outputs : ~Take(q)
    BY <2>0 DEF List, Finish, RecordFailure, Take, ConsumerAt
  <2>3. CASE Record
    BY <1>1, <2>3 DEF Acknowledged, Record, ConsumerGoes, UncoveredNext
  <2>4. CASE Advance
    <3>2. /\ AdvancedRow(copies[r], o) \in RouteRows
          /\ AdvancedRow(copies[r], o).cursor = at[o]
      <4>1. copies[r] \in RouteRows /\ at \in [Outputs -> 0 .. MaxTime]
        BY <1>t DEF TypeOK
      <4>. QED  BY <4>1, AdvancedRowType
    <3>3. rows'[r] = AdvancedRow(copies[r], o)
      BY <1>t, <2>0, <2>4, <3>2, PutType DEF Advance, TypeOK
    <3>4. r \notin todo'
      BY <2>0, <2>4 DEF Advance
    <3>. QED  BY <1>t, <3>2, <3>3, <3>4 DEF UncoveredNext
  <2>5. CASE SenderStep
    <3>1. /\ consumer'.output = o /\ consumer'.route = r
          /\ consumer'.pc \in {"send", "fail", "record"}
          /\ consumer.pc = "send" /\ c < chunk
      BY <1>1, <1>t, <2>0, <2>5, SenderMoves DEF Acknowledged
    <3>2. consumer'.pc = "send" /\ ~(c < chunk')
      <4>1. CASE consumer'.pc = "fail"
        BY <1>t, <2>0, <2>5, <3>1, <4>1, GivingUp
      <4>. QED  BY <3>1, <4>1 DEF UncoveredNext
    <3>3. chunk' \in {chunk, chunk + 1}
      <4>1. consumer'.pc = "send" => chunk' \in {chunk, chunk + 1}
        BY <2>5
        DEF SenderStep, ChunkSent, ChunkFails, ReplyLost, AttemptFails, ConsumerGoes
      <4>. QED  BY <3>2, <4>1
    <3>. QED  BY <1>t, <3>1, <3>2, <3>3
  <2>6. CASE UNCHANGED handler
    BY <1>1, <2>6 DEF Acknowledged, handler, UncoveredNext
  <2>. QED  BY <2>1, <2>2, <2>3, <2>4, <2>5, <2>6, ConsumerMoves
<1>2. CASE ~Acknowledged(r, o, c)
  <2>1. ~(rows[r].cursor < at[o])
    BY <1>2 DEF Uncovered
  <2>2. ~(consumer.output = o /\ r \in todo /\ copies[r].cursor < at[o])
    BY <1>2 DEF Uncovered
  <2>3. ~(rows'[r].cursor < at'[o])
    BY <1>t, <2>1
  <2>4. consumer'.output = o /\ r \in todo' /\ copies'[r].cursor < at[o]
    BY <2>3 DEF UncoveredNext
  <2>5. CASE List
    BY <1>t, <2>1, <2>4, <2>5 DEF List
  <2>6. ASSUME NEW q \in Outputs, Take(q)  PROVE FALSE
    BY <1>t, <2>4, <2>6 DEF Take, ConsumerAt, PlaceInv, ConsumerInv
  <2>7. ASSUME consumer'.output = consumer.output, todo' \subseteq todo, copies' = copies
        PROVE  FALSE
    BY <2>2, <2>4, <2>7
  <2>8. ASSUME NEW q \in Routes, Skip(q) \/ Refuse(q) \/ Send(q)  PROVE FALSE
    BY <2>7, <2>8 DEF Skip, Refuse, Send, ConsumerGoes
  <2>9. CASE RecordFailure \/ Record \/ Advance
    BY <2>7, <2>9 DEF RecordFailure, Record, Advance, ConsumerGoes
  <2>10. CASE Finish
    BY <2>4, <2>10 DEF Finish, IdleConsumer
  <2>11. CASE UNCHANGED handler
    BY <2>7, <2>11 DEF handler
  <2>12. CASE SenderStep
    BY <1>t, <2>7, <2>12, SenderMoves
  <2>. QED  BY <2>5, <2>6, <2>8, <2>9, <2>10, <2>11, <2>12, ConsumerMoves
<1>. QED  BY <1>1, <1>2

(* At the places "send" and "fail", what the sender does not know to have  *)
(* arrived is uncovered.                                                   *)
LEMMA UncoveredHere ==
  ASSUME IInv, consumer.pc \in {"send", "fail"}, NEW c \in Parts,
         consumer.pc = "send" => ~(c < chunk)
  PROVE  Uncovered(consumer.route, consumer.output, c)
BY SentRoute DEF IInv, RecordInv, Uncovered, Acknowledged

LEMMA NextRepeatInv == IInv /\ [Next]_vars => RepeatInv'
<1>. SUFFICES ASSUME IInv, [Next]_vars,
                     NEW r \in Routes, NEW o \in Outputs, NEW c \in Parts
              PROVE  /\ sends'[r][o][c] > 0 => at'[o] > 0
                     /\ sends'[r][o][c] <= 1 + faults' + rewinds'[r] + lapses'[r][o]
                     /\ UncoveredNext(r, o, c)
                        => sends'[r][o][c] <= faults' + rewinds'[r] + lapses'[r][o]
  BY DEF RepeatInv, Uncovered, Acknowledged, UncoveredNext
<1>t. TypeOK /\ TypeOK' /\ PlaceInv
  BY NextTypeOK DEF IInv
<1>n. /\ sends[r][o][c] \in Nat /\ sends'[r][o][c] \in Nat
      /\ faults \in Nat /\ faults' \in Nat
      /\ rewinds[r] \in Nat /\ rewinds'[r] \in Nat
      /\ lapses[r][o] \in Nat /\ lapses'[r][o] \in Nat
      /\ at[o] \in Nat /\ at'[o] \in Nat
  BY <1>t DEF TypeOK
<1>g. /\ faults' >= faults /\ rewinds'[r] >= rewinds[r] /\ lapses'[r][o] >= lapses[r][o]
      /\ ConsumerFails \/ Crash => faults' = faults + 1
      /\ rows'[r].cursor < rows[r].cursor => rewinds'[r] = rewinds[r] + 1
      /\ at[o] > 0 => at'[o] = at[o]
  BY <1>t, FaultsGrow, RewindsGrow, Monotone
<1>i. /\ sends[r][o][c] > 0 => at[o] > 0
      /\ sends[r][o][c] <= 1 + faults + rewinds[r] + lapses[r][o]
      /\ Uncovered(r, o, c) => sends[r][o][c] <= faults + rewinds[r] + lapses[r][o]
  BY DEF IInv, RepeatInv
<1>1. CASE sends'[r][o][c] = sends[r][o][c]
  <2>1. sends'[r][o][c] > 0 => at'[o] > 0
    BY <1>1, <1>n, <1>g, <1>i
  <2>2. sends'[r][o][c] <= 1 + faults' + rewinds'[r] + lapses'[r][o]
    BY <1>1, <1>n, <1>g, <1>i
  <2>3. ASSUME UncoveredNext(r, o, c)
        PROVE  sends'[r][o][c] <= faults' + rewinds'[r] + lapses'[r][o]
    <3>1. CASE Uncovered(r, o, c)
      BY <1>1, <1>n, <1>g, <1>i, <3>1
    <3>2. CASE at'[o] # at[o]
      <4>1. sends[r][o][c] = 0
        BY <1>n, <1>g, <1>i, <3>2
      <4>. QED  BY <1>1, <1>n, <4>1
    <3>3. CASE rows'[r].cursor < rows[r].cursor
      <4>1. rewinds'[r] = rewinds[r] + 1
        BY <1>g, <3>3
      <4>. QED  BY <1>1, <1>n, <1>g, <1>i, <4>1
    <3>4. CASE ConsumerFails \/ Crash
      <4>1. faults' = faults + 1
        BY <1>g, <3>4
      <4>. QED  BY <1>1, <1>n, <1>g, <1>i, <4>1
    <3>5. CASE lapses'[r][o] = lapses[r][o] + 1
      BY <1>1, <1>n, <1>g, <1>i, <3>5
    <3>. QED  BY <1>t, <2>3, <3>1, <3>2, <3>3, <3>4, <3>5, UncoveredMoves
  <2>. QED  BY <2>1, <2>2, <2>3
<1>2. CASE sends'[r][o][c] # sends[r][o][c]
  <2>1. SenderStep
    BY <1>2, SendsMove
  <2>2. /\ sends'[r][o][c] = sends[r][o][c] + 1
        /\ consumer.route = r /\ consumer.output = o /\ chunk = c
        /\ ChunkSent \/ ReplyLost
        /\ ReplyLost => lapses'[r][o] = lapses[r][o] + 1
    BY <1>2, <1>t, <2>1, SentMoves
  <2>3. consumer.pc = "send" /\ at[o] > 0
    BY <1>t, <2>1, <2>2, ActiveOutput, SenderMoves
  <2>4. sends[r][o][c] <= faults + rewinds[r] + lapses[r][o]
    <3>1. ~(c < chunk)
      <4>1. c \in Nat
        BY DEF Parts
      <4>. QED  BY <2>2, <4>1
    <3>. QED  BY <1>i, <2>2, <2>3, <3>1, UncoveredHere
  <2>5. sends'[r][o][c] <= 1 + faults' + rewinds'[r] + lapses'[r][o]
    BY <1>n, <1>g, <2>2, <2>4
  <2>6. CASE ReplyLost
    <3>1. sends'[r][o][c] <= faults' + rewinds'[r] + lapses'[r][o]
      BY <1>n, <1>g, <2>2, <2>4, <2>6
    <3>. QED  BY <1>g, <2>3, <2>5, <3>1
  <2>7. CASE ChunkSent
    <3>1. ~UncoveredNext(r, o, c)
      <4>1. consumer'.output = o /\ consumer'.route = r
        BY <1>t, <2>1, <2>2, SenderMoves
      <4>2. CASE chunk' = chunk + 1 /\ UNCHANGED consumer
        <5>1. c \in Nat
          BY DEF Parts
        <5>2. c < chunk'
          BY <2>2, <4>2, <5>1
        <5>. QED  BY <2>3, <4>1, <4>2, <5>2 DEF UncoveredNext
      <4>3. CASE ConsumerGoes("record", consumer.route)
        BY <4>1, <4>3 DEF UncoveredNext, ConsumerGoes
      <4>. QED  BY <2>7, <4>2, <4>3 DEF ChunkSent
    <3>. QED  BY <1>g, <2>3, <2>5, <3>1
  <2>. QED  BY <2>2, <2>6, <2>7
<1>. QED  BY <1>1, <1>2

-----------------------------------------------------------------------------
(* A delivered record is only lost with a fault, a rewind or a lapse:      *)
(* without one, what is still uncovered has not arrived.                   *)

LEMMA NothingSent ==
  ASSUME IInv, consumer.pc \in {"send", "fail"}, consumer.pc = "send" => chunk = 1,
         faults = 0, rewinds[consumer.route] = 0, lapses[consumer.route][consumer.output] = 0
  PROVE  ~PartlySent(consumer.route, consumer.output)
<1>. SUFFICES ASSUME NEW c \in Parts  PROVE ~(sends[consumer.route][consumer.output][c] > 0)
  BY DEF PartlySent
<1>1. Uncovered(consumer.route, consumer.output, c)
  <2>1. consumer.pc = "send" => ~(c < chunk)
    BY DEF Parts
  <2>. QED  BY <2>1, UncoveredHere
<1>2. consumer.route \in Routes /\ consumer.output \in Outputs
  BY ActiveOutput, SentRoute DEF IInv
<1>3. sends[consumer.route][consumer.output][c] <= 0
  BY <1>1, <1>2 DEF IInv, RepeatInv
<1>4. sends[consumer.route][consumer.output][c] \in Nat
  BY <1>2 DEF IInv, TypeOK
<1>. QED  BY <1>3, <1>4

(* What the sender knows to have arrived has.                              *)
LEMMA NextAcknowledged ==
  ASSUME IInv, [Next]_vars, TypeOK', NEW r \in Routes, NEW o \in Outputs, NEW c \in Parts,
         consumer'.output = o, consumer'.route = r,
         \/ consumer'.pc \in {"record", "advance"}
         \/ consumer'.pc = "send" /\ c < chunk'
  PROVE  sends'[r][o][c] > 0
<1>t. /\ TypeOK /\ PlaceInv
      /\ sends[r][o][c] \in Nat /\ sends'[r][o][c] \in Nat /\ sends'[r][o][c] >= sends[r][o][c]
      /\ chunk \in Nat /\ chunk' \in Nat /\ c \in Nat /\ c > 0 /\ c <= Chunks
  <2>1. chunk \in Nat /\ chunk' \in Nat /\ c \in Nat /\ c > 0 /\ c <= Chunks
    BY DEF IInv, TypeOK, Parts
  <2>. QED  BY <2>1, Monotone DEF IInv, TypeOK
<1>1. ASSUME Acknowledged(r, o, c)  PROVE sends'[r][o][c] > 0
  BY <1>t, <1>1 DEF IInv, RecordInv
<1>2. CASE SenderStep
  <2>1. consumer.output = o /\ consumer.route = r /\ consumer.pc = "send"
    BY <1>t, <1>2, SenderMoves
  <2>2. CASE c < chunk
    BY <1>1, <2>1, <2>2 DEF Acknowledged
  <2>3. CASE ~(c < chunk)
    <3>1. ChunkSent
      <4>1. ASSUME NEW permanent \in BOOLEAN, AttemptFails(permanent)  PROVE FALSE
        BY <2>1, <2>3, <4>1 DEF AttemptFails, ConsumerGoes
      <4>. QED  BY <1>2, <4>1 DEF SenderStep, ChunkFails, ReplyLost
    <3>2. chunk = c
      BY <1>t, <2>1, <2>3, <3>1 DEF ChunkSent
    <3>3. sends' = [sends EXCEPT ![r][o][c] = @ + 1]
      BY <2>1, <3>1, <3>2 DEF ChunkSent, ChunkArrives
    <3>4. sends'[r][o][c] = sends[r][o][c] + 1
      BY <1>t, <3>3 DEF TypeOK
    <3>. QED  BY <1>t, <3>4
  <2>. QED  BY <2>2, <2>3
<1>3. ASSUME NEW q \in Routes, Skip(q) \/ Refuse(q) \/ Send(q)  PROVE FALSE
  <2>1. chunk' = 1 /\ consumer'.pc \in {"routes", "fail", "send"}
    BY <1>3, <1>t DEF Skip, Refuse, Send, ConsumerAt, ConsumerGoes, PlaceInv, ConsumerInv
  <2>. QED  BY <1>t, <2>1
<1>4. CASE Record
  BY <1>1, <1>4 DEF Record, ConsumerGoes, ConsumerAt, Acknowledged
<1>5. CASE UNCHANGED handler
  BY <1>1, <1>5 DEF handler, Acknowledged
<1>6. ASSUME NEW q \in Outputs, Take(q)  PROVE FALSE
  BY <1>6 DEF Take
<1>7. CASE List \/ Advance \/ RecordFailure
  BY <1>7 DEF List, Advance, RecordFailure, ConsumerGoes
<1>8. CASE Finish \/ ConsumerFails \/ Crash
  BY <1>8 DEF Finish, ConsumerFails, Crash, IdleConsumer
<1>. QED  BY <1>2, <1>3, <1>4, <1>5, <1>6, <1>7, <1>8, ConsumerMoves

(* The copy the handler sends by does not cover the output.                *)
LEMMA NextSending ==
  ASSUME IInv, [Next]_vars, TypeOK', consumer'.pc \in {"send", "fail"}
  PROVE  copies'[consumer'.route].cursor < at'[consumer'.output]
<1>t. TypeOK /\ PlaceInv
  BY DEF IInv
<1>0. ASSUME copies' = copies, consumer'.route = consumer.route,
             consumer'.output = consumer.output, consumer.pc \in {"send", "fail"}
      PROVE  copies'[consumer'.route].cursor < at'[consumer'.output]
  <2>1. copies[consumer.route].cursor < at[consumer.output]
    BY <1>0 DEF IInv, RecordInv
  <2>2. consumer.output \in Outputs /\ at[consumer.output] > 0
    BY <1>0, <1>t, ActiveOutput
  <2>3. at'[consumer.output] = at[consumer.output]
    BY <2>2, Monotone
  <2>. QED  BY <1>0, <2>1, <2>3
<1>1. CASE SenderStep
  BY <1>0, <1>1, <1>t, SenderMoves
<1>2. ASSUME NEW q \in Routes, Refuse(q) \/ Send(q)
      PROVE  copies'[consumer'.route].cursor < at'[consumer'.output]
  <2>1. /\ ~AlreadyDelivered(copies[q], consumer.output) /\ UNCHANGED <<copies, at>>
        /\ consumer'.route = q /\ consumer'.output = consumer.output /\ consumer.pc = "routes"
    BY <1>2 DEF Refuse, Send, ConsumerGoes, ConsumerAt, session
  <2>2. at[consumer.output] \in Nat /\ copies[q].cursor \in Nat
    BY <1>t, <2>1, ActiveOutput DEF TypeOK, RouteRows
  <2>. QED  BY <2>1, <2>2 DEF AlreadyDelivered
<1>3. ASSUME NEW q \in Routes, Skip(q)  PROVE FALSE
  BY <1>3 DEF Skip, ConsumerAt
<1>4. ASSUME NEW q \in Outputs, Take(q)  PROVE FALSE
  BY <1>4 DEF Take
<1>5. CASE List \/ RecordFailure \/ Record \/ Advance
  BY <1>5 DEF List, RecordFailure, Record, Advance, ConsumerGoes
<1>6. CASE Finish \/ ConsumerFails \/ Crash
  BY <1>6 DEF Finish, ConsumerFails, Crash, IdleConsumer
<1>7. CASE UNCHANGED handler
  BY <1>0, <1>7 DEF handler
<1>. QED  BY <1>1, <1>2, <1>3, <1>4, <1>5, <1>6, <1>7, ConsumerMoves

LEMMA NextRecordInv == IInv /\ [Next]_vars => RecordInv'
<1>. SUFFICES ASSUME IInv, [Next]_vars  PROVE RecordInv'
  OBVIOUS
<1>t. TypeOK /\ TypeOK' /\ PlaceInv
  BY NextTypeOK DEF IInv
<1>1. \A r \in Routes, o \in Outputs, c \in Parts :
        /\ consumer'.output = o /\ consumer'.route = r
        /\ \/ consumer'.pc \in {"record", "advance"}
           \/ consumer'.pc = "send" /\ c < chunk'
        => sends'[r][o][c] > 0
  BY <1>t, NextAcknowledged
<1>2. consumer'.pc \in {"send", "fail"} => copies'[consumer'.route].cursor < at'[consumer'.output]
  BY <1>t, NextSending
<1>3. ASSUME NEW r \in Routes, NEW o \in Outputs
      PROVE  /\ records'[r][o] = "delivered" => WhollyNext(r, o)
             /\ /\ \E c \in Parts : sends'[r][o][c] > 0
                /\ faults' = 0 /\ rewinds'[r] = 0 /\ lapses'[r][o] = 0
                => \/ records'[r][o] = "delivered"
                   \/ /\ consumer'.pc \in {"send", "record"}
                      /\ consumer'.route = r /\ consumer'.output = o
  <2>y. records \in [Routes -> [Outputs -> {"none", "failed", "delivered"}]]
    BY <1>t DEF TypeOK
  <2>i. /\ records[r][o] = "delivered" => WhollySent(r, o)
        /\ PartlySent(r, o) /\ faults = 0 /\ rewinds[r] = 0 /\ lapses[r][o] = 0
           => records[r][o] = "delivered" \/ BeingSent(r, o)
    BY DEF IInv, RecordInv, RecordsAreTrue
  <2>1. ASSUME Record
        PROVE  /\ consumer.route \in Routes /\ consumer.output \in Outputs
               /\ WhollySent(consumer.route, consumer.output)
               /\ records'[consumer.route][consumer.output] = "delivered"
               /\ (consumer.route # r \/ consumer.output # o) => records'[r][o] = records[r][o]
    <3>1. /\ consumer.route \in Routes /\ consumer.output \in Outputs
          /\ WhollySent(consumer.route, consumer.output)
      BY <2>1, SentWholly DEF Record, ConsumerAt
    <3>2. records' = [records EXCEPT ![consumer.route][consumer.output] = "delivered"]
      BY <2>1 DEF Record
    <3>. QED  BY <2>y, <3>1, <3>2
  <2>2. ASSUME RecordFailure
        PROVE  /\ consumer.route \in Routes /\ consumer.output \in Outputs
               /\ records'[consumer.route][consumer.output] = "failed"
               /\ (consumer.route # r \/ consumer.output # o) => records'[r][o] = records[r][o]
    <3>1. consumer.route \in Routes /\ consumer.output \in Outputs
      BY <1>t, <2>2, ActiveOutput, SentRoute DEF RecordFailure, ConsumerAt
    <3>2. records' = [records EXCEPT ![consumer.route][consumer.output] = "failed"]
      BY <2>2 DEF RecordFailure
    <3>. QED  BY <2>y, <3>1, <3>2
  <2>3. ASSUME records'[r][o] = "delivered"  PROVE WhollyNext(r, o)
    <3>1. CASE records'[r][o] = records[r][o]
      BY <1>t, <2>3, <2>i, <3>1, WhollyStays
    <3>2. CASE Record
      <4>1. CASE consumer.route = r /\ consumer.output = o
        BY <1>t, <2>1, <3>2, <4>1, WhollyStays
      <4>. QED  BY <2>1, <3>1, <3>2, <4>1
    <3>3. CASE RecordFailure
      <4>1. CASE consumer.route = r /\ consumer.output = o
        BY <2>2, <2>3, <3>3, <4>1
      <4>. QED  BY <2>2, <3>1, <3>3, <4>1
    <3>. QED  BY <3>1, <3>2, <3>3, RecordsMove
  <2>4. ASSUME NEW c \in Parts, sends'[r][o][c] > 0,
               faults' = 0, rewinds'[r] = 0, lapses'[r][o] = 0
        PROVE  \/ records'[r][o] = "delivered"
               \/ /\ consumer'.pc \in {"send", "record"}
                  /\ consumer'.route = r /\ consumer'.output = o
    <3>0. /\ faults = 0 /\ rewinds[r] = 0 /\ lapses[r][o] = 0
          /\ sends[r][o][c] \in Nat
      <4>1. /\ faults \in Nat /\ faults' >= faults
            /\ rewinds[r] \in Nat /\ rewinds'[r] >= rewinds[r]
            /\ lapses[r][o] \in Nat /\ lapses'[r][o] >= lapses[r][o]
            /\ sends[r][o][c] \in Nat
        <5>1. faults' >= faults
          BY <1>t, FaultsGrow
        <5>2. rewinds'[r] >= rewinds[r]
          BY <1>t, RewindsGrow
        <5>3. lapses'[r][o] >= lapses[r][o]
          BY Monotone
        <5>. QED  BY <1>t, <5>1, <5>2, <5>3 DEF TypeOK
      <4>. QED  BY <2>4, <4>1
    <3>1. CASE SenderStep /\ consumer.route = r /\ consumer.output = o
      <4>1. /\ consumer'.route = r /\ consumer'.output = o /\ consumer.pc = "send"
            /\ consumer'.pc \in {"send", "fail", "record"}
        BY <1>t, <3>1, SenderMoves
      <4>2. CASE consumer'.pc = "fail"
        <5>1. ~(chunk > 1) /\ sends' = sends
          <6>1. lapses'[r][o] # lapses[r][o] + 1
            BY <2>4, <3>0
          <6>. QED  BY <3>1, <4>2, <6>1, GivingUp
        <5>2. chunk = 1
          BY <1>t, <5>1 DEF TypeOK, Parts
        <5>3. ~PartlySent(r, o)
          BY <3>0, <3>1, <4>1, <5>2, NothingSent
        <5>. QED  BY <2>4, <5>1, <5>3 DEF PartlySent
      <4>. QED  BY <4>1, <4>2
    <3>2. CASE ~(SenderStep /\ consumer.route = r /\ consumer.output = o)
      <4>1. sends'[r][o][c] = sends[r][o][c]
        BY <1>t, <3>2, SendsMove, SentMoves
      <4>2. PartlySent(r, o)
        BY <2>4, <4>1 DEF PartlySent
      <4>3. CASE records[r][o] = "delivered"
        <5>1. CASE Record
          BY <2>1, <4>3, <5>1
        <5>2. CASE RecordFailure
          <6>1. CASE consumer.route = r /\ consumer.output = o
            BY <3>0, <4>2, <5>2, <6>1, NothingSent DEF RecordFailure, ConsumerAt
          <6>. QED  BY <2>2, <4>3, <5>2, <6>1
        <5>. QED  BY <4>3, <5>1, <5>2, RecordsMove
      <4>4. CASE BeingSent(r, o)
        <5>0. consumer.pc \in {"send", "record"} /\ consumer.route = r /\ consumer.output = o
          BY <4>4 DEF BeingSent
        <5>1. CASE Record
          BY <2>1, <5>0, <5>1
        <5>2. CASE UNCHANGED handler
          BY <5>0, <5>2 DEF handler
        <5>3. ~ConsumerFails /\ ~Crash /\ ~SenderStep
          BY <1>t, <2>4, <3>0, <3>2, <5>0, FaultsGrow
        <5>4. ~List /\ ~RecordFailure /\ ~Advance /\ ~Finish
          BY <5>0 DEF List, RecordFailure, Advance, Finish, ConsumerAt
        <5>5. /\ \A q \in Outputs : ~Take(q)
              /\ \A q \in Routes : ~Skip(q) /\ ~Refuse(q) /\ ~Send(q)
          BY <5>0 DEF Take, Skip, Refuse, Send, ConsumerAt
        <5>. QED  BY <5>1, <5>2, <5>3, <5>4, <5>5, ConsumerMoves
      <4>. QED  BY <2>i, <3>0, <4>2, <4>3, <4>4
    <3>. QED  BY <3>1, <3>2
  <2>. QED  BY <2>3, <2>4
<1>. QED
  BY <1>1, <1>2, <1>3
  DEF RecordInv, RecordsAreTrue, Acknowledged, WhollySent, PartlySent, WhollyNext, BeingSent

-----------------------------------------------------------------------------
(* Detached rows.                                                          *)

LEMMA SilentMoves ==
  ASSUME [Next]_vars, NEW r \in silent'
  PROVE  \/ r \in silent
         \/ \E p \in Operators : /\ OperatorPut(p)
                                 /\ operators[p].route = r
                                 /\ ~operators[p].row.enabled
                                 /\ Unheld(p, r)
BY DEF Next, BeginTurn, Redeliver, EndTurn, ConsumerStep, Take, List, Record, Advance, Finish,
       Skip, Refuse, Send, SenderStep, ChunkSent, ChunkFails, ReplyLost, AttemptFails,
       RecordFailure, RouterBegin, RouterStep, RouterEnsure, RouterUnruled, RouterCreate,
       RouterExisting, RouterPut, RouterLatest, Attach, Detach, Enable, Request, Reopens,
       OperatorPut, ConsumerFails, WriterFails, Crash, vars, writers, sent

LEMMA RouterMoves ==
  ASSUME [Next]_vars, TypeOK
  PROVE  \/ \E r \in Ruled, bound \in BOOLEAN : RouterBegin(r, bound)
         \/ router'.route = router.route
         \/ router' = IdleRouter
<1>1. CASE RouterStep
  BY <1>1
  DEF RouterStep, RouterEnsure, RouterUnruled, RouterCreate, RouterExisting, RouterPut,
      RouterLatest, TypeOK
<1>2. CASE UNCHANGED router
  BY <1>2
<1>3. \/ RouterStep \/ UNCHANGED router \/ router' = IdleRouter
      \/ \E r \in Ruled, bound \in BOOLEAN : RouterBegin(r, bound)
  BY DEF Next, BeginTurn, Redeliver, EndTurn, ConsumerStep, Take, List, Record, Advance, Finish,
         Skip, Refuse, Send, SenderStep, ChunkSent, ChunkFails, ReplyLost, AttemptFails,
         RecordFailure, Attach, Detach, Enable, Request, OperatorPut, ConsumerFails, WriterFails,
         Crash, vars, writers, sent
<1>. QED  BY <1>1, <1>2, <1>3

LEMMA OperatorsMove ==
  ASSUME [Next]_vars
  PROVE  \/ \E p \in Operators, q \in Routes :
              \/ \E l \in 0 .. MaxTime : Attach(p, q, l)
              \/ Detach(p, q) \/ Enable(p, q)
         \/ \E p \in Operators : operators' = [operators EXCEPT ![p] = IdleOperator]
         \/ operators' = [p \in Operators |-> IdleOperator]
         \/ UNCHANGED operators
BY DEF Next, BeginTurn, Redeliver, EndTurn, ConsumerStep, Take, List, Record, Advance, Finish,
       Skip, Refuse, Send, SenderStep, ChunkSent, ChunkFails, ReplyLost, AttemptFails,
       RecordFailure, RouterBegin, RouterStep, RouterEnsure, RouterUnruled, RouterCreate,
       RouterExisting, RouterPut, RouterLatest, OperatorPut, ConsumerFails, WriterFails, Crash,
       vars, writers, sent

LEMMA NextSilentInv == IInv /\ [Next]_vars => SilentInv'
<1>. SUFFICES ASSUME IInv, [Next]_vars, NEW r \in silent'
              PROVE  /\ ~Enabled(rows'[r])
                     /\ r \notin todo'
                     /\ router'.route # r
                     /\ \A p \in Operators :
                          operators'[p].route = r => ~operators'[p].row.enabled
  BY DEF SilentInv, Enabled
<1>t. TypeOK /\ TypeOK' /\ PlaceInv
  BY NextTypeOK DEF IInv
<1>r. r \in Routes /\ rows \in [Routes -> RouteRows] /\ rewinds \in [Routes -> Nat]
  BY <1>t DEF TypeOK
<1>1. CASE r \in silent
  <2>i. /\ ~Enabled(rows[r])
        /\ r \notin todo
        /\ router.route # r
        /\ \A p \in Operators : operators[p].route = r => ~operators[p].row.enabled
    BY <1>1 DEF IInv, SilentInv
  <2>1. ~Enabled(rows'[r])
    <3>0. ASSUME NEW q \in Routes, NEW row, Put(q, row), q # r  PROVE rows'[r] = rows[r]
      BY <1>r, <3>0, PutOther
    <3>1. CASE Advance
      <4>1. consumer.route \in Routes /\ consumer.route # r
        BY <1>t, <2>i, <3>1, SentRoute DEF Advance, ConsumerAt
      <4>2. rows'[r] = rows[r]
        BY <3>0, <3>1, <4>1 DEF Advance
      <4>. QED  BY <2>i, <4>2
    <3>2. CASE RouterCreate \/ RouterPut
      <4>1. router.route \in Routes
        BY <1>t, <3>2 DEF RouterCreate, RouterPut, RouterAt, PlaceInv, WriterInv
      <4>2. rows'[r] = rows[r]
        BY <2>i, <3>0, <3>2, <4>1 DEF RouterCreate, RouterPut
      <4>. QED  BY <2>i, <4>2
    <3>3. ASSUME NEW p \in Operators, OperatorPut(p)  PROVE ~Enabled(rows'[r])
      <4>1. operators[p].route \in Routes /\ operators[p].row \in RouteRows
        BY <1>t, <3>3 DEF OperatorPut, OperatorAt, PlaceInv, WriterInv, TypeOK
      <4>2. Put(operators[p].route, operators[p].row)
        BY <3>3 DEF OperatorPut
      <4>3. CASE operators[p].route = r
        <5>1. rows'[r] = operators[p].row
          BY <1>r, <4>1, <4>2, <4>3, PutType
        <5>. QED  BY <2>i, <4>3, <5>1 DEF Enabled
      <4>4. CASE operators[p].route # r
        <5>1. rows'[r] = rows[r]
          BY <3>0, <4>1, <4>2, <4>4
        <5>. QED  BY <2>i, <5>1
      <4>. QED  BY <4>3, <4>4
    <3>4. CASE UNCHANGED <<rows, rewinds>>
      BY <2>i, <3>4
    <3>. QED  BY <3>1, <3>2, <3>3, <3>4, RowsMove
  <2>2. r \notin todo'
    <3>1. CASE todo' \subseteq todo
      BY <2>i, <3>1
    <3>2. CASE List
      BY <2>i, <3>2 DEF List
    <3>3. ASSUME NEW q \in Routes, Skip(q) \/ Refuse(q) \/ Send(q)  PROVE todo' \subseteq todo
      BY <3>3 DEF Skip, Refuse, Send
    <3>7. CASE SenderStep \/ RecordFailure
      BY <1>t, <3>1, <3>7, SenderMoves DEF RecordFailure
    <3>4. ASSUME NEW q \in Outputs, Take(q)  PROVE todo' \subseteq todo
      BY <3>4 DEF Take
    <3>5. CASE Record \/ Advance \/ UNCHANGED handler
      BY <3>1, <3>5 DEF Record, Advance, handler
    <3>6. CASE Finish \/ ConsumerFails \/ Crash
      BY <3>6 DEF Finish, ConsumerFails, Crash, IdleConsumer
    <3>. QED  BY <3>1, <3>2, <3>3, <3>4, <3>5, <3>6, <3>7, ConsumerMoves
  <2>3. router'.route # r
    <3>1. ASSUME NEW q \in Ruled, NEW bound \in BOOLEAN, RouterBegin(q, bound)
          PROVE  router'.route = q /\ q # r
      BY <3>1 DEF RouterBegin, Reopens, IdleRouter
    <3>. QED  BY <1>r, <1>t, <2>i, <3>1, RouterMoves DEF IdleRouter
  <2>4. ASSUME NEW p \in Operators, operators'[p].route = r  PROVE ~operators'[p].row.enabled
    <3>0. operators \in [Operators -> [pc : {"idle", "put"}, route : Routes \cup {NoRoute},
                                       fresh : BOOLEAN, row : RouteRows]]
      BY <1>t DEF TypeOK
    <3>1. CASE operators'[p] = operators[p]
      BY <2>i, <2>4, <3>1
    <3>2. CASE operators'[p] = IdleOperator
      BY <1>r, <2>4, <3>2 DEF IdleOperator
    <3>3. ASSUME NEW q \in Routes, NEW o \in Operators, NEW row,
                 operators' = [operators EXCEPT ![o] = [pc |-> "put", route |-> q,
                                                        fresh |-> FALSE, row |-> row]],
                 ~row.enabled
          PROVE  ~operators'[p].row.enabled
      <4>1. CASE o = p
        BY <3>0, <3>3, <4>1
      <4>2. CASE o # p
        BY <3>0, <3>1, <3>3, <4>2
      <4>. QED  BY <4>1, <4>2
    <3>4. ASSUME NEW q \in Routes, NEW o \in Operators, Detach(o, q)
          PROVE  ~operators'[p].row.enabled
      <4>1. operators' = [operators EXCEPT ![o] = [pc |-> "put", route |-> q, fresh |-> FALSE,
                                          row |-> [rows[q] EXCEPT !.enabled = FALSE]]]
        BY <3>4 DEF Detach, Request
      <4>2. ~[rows[q] EXCEPT !.enabled = FALSE].enabled
        BY <1>r DEF RouteRows
      <4>. QED  BY <3>3, <4>1, <4>2
    <3>5. ASSUME NEW q \in Routes, NEW o \in Operators, q # r, NEW fresh, NEW row,
                 operators' = [operators EXCEPT ![o] = [pc |-> "put", route |-> q,
                                                        fresh |-> fresh, row |-> row]]
          PROVE  ~operators'[p].row.enabled
      <4>1. CASE o = p
        BY <2>4, <3>0, <3>5, <4>1
      <4>2. CASE o # p
        BY <3>0, <3>1, <3>5, <4>2
      <4>. QED  BY <4>1, <4>2
    <3>6. ASSUME NEW q \in Routes, NEW o \in Operators,
                 Enable(o, q) \/ \E l \in 0 .. MaxTime : Attach(o, q, l)
          PROVE  ~operators'[p].row.enabled
      <4>1. q # r
        BY <3>6 DEF Enable, Attach, Reopens
      <4>. QED  BY <3>5, <3>6, <4>1 DEF Enable, Attach, Request
    <3>7. ASSUME NEW o \in Operators, operators' = [operators EXCEPT ![o] = IdleOperator]
          PROVE  operators'[p] \in {operators[p], IdleOperator}
      BY <3>0, <3>7
    <3>8. CASE operators' = [o \in Operators |-> IdleOperator] \/ UNCHANGED operators
      BY <3>1, <3>2, <3>8
    <3>. QED  BY <3>1, <3>2, <3>4, <3>6, <3>7, <3>8, OperatorsMove
  <2>. QED  BY <2>1, <2>2, <2>3, <2>4
<1>2. ASSUME NEW p \in Operators, OperatorPut(p), operators[p].route = r,
             ~operators[p].row.enabled, Unheld(p, r)
      PROVE  /\ ~Enabled(rows'[r])
             /\ r \notin todo'
             /\ router'.route # r
             /\ \A q \in Operators : operators'[q].route = r => ~operators'[q].row.enabled
  <2>1. operators[p].row \in RouteRows /\ Put(r, operators[p].row)
    BY <1>t, <1>2 DEF OperatorPut, TypeOK
  <2>2. rows'[r] = operators[p].row
    BY <1>r, <2>1, PutType
  <2>3. ~Enabled(rows'[r])
    BY <1>2, <2>2 DEF Enabled
  <2>4. r \notin todo' /\ router'.route # r
    BY <1>2 DEF OperatorPut, Unheld, handler
  <2>5. ASSUME NEW q \in Operators, operators'[q].route = r  PROVE FALSE
    <3>1. operators' = [operators EXCEPT ![p] = IdleOperator]
      BY <1>2 DEF OperatorPut
    <3>2. CASE q = p
      BY <1>r, <1>t, <2>5, <3>1, <3>2 DEF IdleOperator, TypeOK
    <3>3. CASE q # p
      <4>1. operators'[q] = operators[q]
        BY <1>t, <3>1, <3>3 DEF TypeOK
      <4>. QED  BY <1>2, <2>5, <3>3, <4>1 DEF Unheld
    <3>. QED  BY <3>2, <3>3
  <2>. QED  BY <2>3, <2>4, <2>5
<1>. QED  BY <1>1, <1>2, SilentMoves

-----------------------------------------------------------------------------
LEMMA Inductive == Spec => []IInv
<1>1. IInv /\ [Next]_vars => IInv'
  BY NextTypeOK, NextPlaceInv, NextCursorInv, NextMissInv, NextRepeatInv, NextRecordInv,
     NextSilentInv
  DEF IInv
<1>. QED  BY InitIInv, <1>1, PTL DEF Spec

(* The variables keep their types.                                         *)
THEOREM DeliveryTypeOK == Spec => []TypeOK
<1>1. IInv => TypeOK
  BY DEF IInv
<1>. QED  BY Inductive, <1>1, PTL

(* No chunk arrives twice on a route without a fault, a lost cursor or a   *)
(* lapse of the sender, with any number of chunks, attempts, publications, *)
(* deliveries and writers.                                                 *)
THEOREM DeliveryRepeats == Spec => []RepeatsAreExplained
<1>1. IInv => RepeatsAreExplained
  BY DEF IInv, RepeatInv, RepeatsAreExplained
<1>. QED  BY Inductive, <1>1, PTL

(* No route is passed over without one of the four reasons.                *)
THEOREM DeliveryMisses == Spec => []MissesAreExplained
<1>1. IInv => MissesAreExplained
  BY DEF IInv, MissInv
<1>. QED  BY Inductive, <1>1, PTL

(* event_deliveries agrees with what has arrived, wholly or in part, but   *)
(* for faults, lost cursors and lapses of the sender.                      *)
THEOREM DeliveryRecords == Spec => []RecordsAreTrue
<1>1. IInv => RecordsAreTrue
  BY DEF IInv, RecordInv
<1>. QED  BY Inductive, <1>1, PTL

(* A route detached while nobody holds its row stays quiet.                *)
THEOREM DeliveryDetach == Spec => DetachIsFinal
<1>1. IInv /\ [Next]_vars => [\A r \in silent : sends'[r] = sends[r]]_vars
  <2>. SUFFICES ASSUME IInv, [Next]_vars, NEW r \in silent  PROVE sends'[r] = sends[r]
    OBVIOUS
  <2>1. TypeOK /\ PlaceInv /\ r \notin todo /\ r \in Routes
        /\ sends \in [Routes -> [Outputs -> [Parts -> Nat]]]
    BY DEF IInv, SilentInv, TypeOK
  <2>2. CASE SenderStep
    <3>1. consumer.route # r
      BY <2>1, <2>2, SenderMoves
    <3>2. ChunkArrives \/ UNCHANGED sends
      BY <2>2 DEF SenderStep, ChunkSent, ChunkFails, ReplyLost
    <3>. QED  BY <2>1, <3>1, <3>2 DEF ChunkArrives
  <2>. QED  BY <2>2, SendsMove
<1>. QED  BY Inductive, <1>1, PTL DEF Spec, DetachIsFinal
=============================================================================
