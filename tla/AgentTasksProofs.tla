-------------------------- MODULE AgentTasksProofs ---------------------------
(***************************************************************************)
(* Proofs about AgentTasks: its type invariant, that a second or a         *)
(* concurrent turn of a job has a cause, that a cancelled job comes back   *)
(* only in the hands that held it, that what ends is reported and that the *)
(* followers have its result, once and for good; for any number of         *)
(* threads, followers, copies and troubles.                                *)
(***************************************************************************)
EXTENDS AgentTasks, FiniteSetTheorems, TLAPS

-----------------------------------------------------------------------------
(* The inductive invariant.                                                *)

Working == {"claim", "claiming", "load", "start", "turn", "asking", "failing", "settle", "tell"}
Telling == Working \ {"claim", "claiming"}
Off == {"idle", "taken", "record", "error", "result", "ack-created", "deliver", "sent",
        "ack-result", "stopped"}

(* What a thread knows of the end of its turn, and whose message it sent.  *)
OutcomesAreKnown ==
  \A w \in Workers :
    /\ worker[w].pc \in {"failing", "settle"} => worker[w].outcome \in JobOver
    /\ worker[w].pc = "sent" => worker[w].outcome \in Followers

(* What is handled is still to be acknowledged, and only by the consumer.  *)
HandledIsThere == \A e \in Events : Handling(e) => mail[e] > 0
BackgroundPcs == Working \cup {"idle", "listed"}
BackgroundIsApart == \A w \in Background : worker[w].pc \in BackgroundPcs

(* Nothing happens before the job is put.                                  *)
QuietBeforeJob ==
  sender = "job" =>
    /\ job = NoJob /\ run = "none" /\ task = "none" /\ operator = Resting /\ canceller = "rest"
    /\ turns = 0 /\ list = {}
    /\ \A w \in Workers : At(w, "idle")
    /\ rows = {} /\ \A e \in Events : mail[e] = 0

(* Who does not hold a cancelled job is not on the way to write it.        *)
StrangersKeepOff ==
  job.status = "cancelled" =>
    \A w \in Workers \ holders :
      worker[w].pc \in Off

(* Unless a background thread looked too early, the consumer alone works   *)
(* on the job, and unless the daemon died or a call failed it does so once.*)
ConsumerAlone ==
  EventBusRequired /\ ~ early => \A w \in Background : worker[w].pc \in {"idle", "listed"}
OneTurn ==
  EventBusRequired /\ ~ early /\ ~ Interrupted =>
    /\ turns <= 1
    /\ worker[Consumer].pc \in {"claim", "claiming", "load"} => turns = 0
    /\ turns = 1 => \/ worker[Consumer].pc \in {"start", "turn", "asking", "failing", "settle"}
                    \/ job.status \in JobOver

(* The thread that completed the job has still to tell, unless somebody    *)
(* else is about to write the row again.                                   *)
CompletedIsInHand ==
  job.status = "completed" =>
    \/ "completed" \in inbox \/ Interrupted
    \/ \E w \in Workers : worker[w].pc \in Telling

IInv ==
  /\ TypeOK
  /\ OutcomesAreKnown /\ HandledIsThere /\ BackgroundIsApart /\ QuietBeforeJob
  /\ StrangersKeepOff
  /\ ConsumerAlone /\ OneTurn
  /\ CompletedIsInHand /\ OverTaskHasResult

-----------------------------------------------------------------------------
(* Types.                                                                  *)

LEMMA OneMore ==
  ASSUME NEW m \in Nat, NEW n \in 0..m, n < m
  PROVE  n + 1 \in 0..m
  OBVIOUS

LEMMA TroublesType ==
  ASSUME TypeOK, Trouble \/ UNCHANGED troubles
  PROVE  troubles' \in 0..MaxTroubles
  BY OneMore, TasksAssumption DEF TypeOK, Trouble

LEMMA TwoType ==
  ASSUME NEW n \in 0..2
  PROVE  AtMostTwo(n + 1) \in 0..2
  BY DEF AtMostTwo

LEMMA SenderIs == DOMAIN SendOrder = {"job", "task", "event"}
                     /\ \A pc \in {"job", "task", "event"} :
                          SendOrder[pc] \in {"task", "event", "sent"}
  BY DEF SendOrder

LEMMA RowsAre ==
  ASSUME NEW row \in JobRows
  PROVE  /\ Claimed(row) \in JobRows /\ Claimed(row).status = row.status
         /\ CancelledRow(row) \in JobRows /\ CancelledRow(row).status = "cancelled"
         /\ AskedRow(row) \in JobRows /\ AskedRow(row).status = "cancelled"
         /\ \A status \in JobOver \cup {"running"} :
              /\ [row EXCEPT !.status = status] \in JobRows
              /\ [row EXCEPT !.status = status].status = status
  BY DEF Claimed, CancelledRow, AskedRow, JobRows, JobOver

LEMMA NoJobType == NoJob \in JobRows /\ NoJob.status = "none"
  BY DEF NoJob, JobRows

LEMMA SettledIs ==
  ASSUME NEW row \in JobRows, NEW outcome \in JobOver
  PROVE  Settled(row, outcome) \in JobRows /\ Settled(row, outcome).status = outcome
  BY RowsAre DEF Settled

LEMMA ThreadType ==
  ASSUME NEW pc \in {"idle", "listed", "claim", "claiming", "load", "start", "turn", "asking",
                     "failing", "settle", "tell", "taken", "reload", "record", "error", "result",
                     "ack-created", "deliver", "sent", "ack-result", "stopped"},
         NEW copy \in JobRows, NEW outcome \in JobOver \cup {"none"} \cup Followers
  PROVE  /\ Thread(pc, copy, outcome) \in Threads
         /\ Thread(pc, copy, outcome).pc = pc /\ Thread(pc, copy, outcome).copy = copy
         /\ Thread(pc, copy, outcome).outcome = outcome
  BY DEF Thread, Threads

LEMMA NowType ==
  ASSUME NEW pc \in {"idle", "listed", "claim", "claiming", "load", "start", "turn", "asking",
                     "failing", "settle", "tell", "taken", "reload", "record", "error", "result",
                     "ack-created", "deliver", "sent", "ack-result", "stopped"}
  PROVE  Now(pc) \in Threads /\ Now(pc).pc = pc
  BY NoJobType, ThreadType DEF Now

LEMMA HoldersType ==
  ASSUME TypeOK, Hold
  PROVE  holders' \subseteq Engaged'
  BY DEF TypeOK, Hold, Engaged, At

LEMMA Frame ==
  ASSUME TypeOK, NEW w \in Workers, NEW t, worker' = [worker EXCEPT ![w] = t]
  PROVE  worker'[w] = t /\ \A v \in Workers : v # w => worker'[v] = worker[v]
  BY DEF TypeOK

LEMMA ConsumerIs == Consumer \in Workers /\ Consumer \notin Background
                      /\ Workers = Background \cup {Consumer}
  BY TasksAssumption DEF Workers

(* The threads' own type, and the tables', for a step of one thread.       *)
LEMMA TurnType ==
  ASSUME TypeOK, OutcomesAreKnown, NEW w \in Workers, TurnStep(w) \/ BackgroundStep(w), Hold
  PROVE  TypeOK'
<1>0. /\ worker[w] \in Threads /\ worker[w].copy \in JobRows /\ job \in JobRows
      /\ holders' \subseteq Engaged'
  BY HoldersType DEF TypeOK, Threads
<1>1. CASE ListJob(w)
  <2>1. [NoJob EXCEPT !.asked = job.asked] \in JobRows
    BY <1>0, NoJobType DEF JobRows
  <2>2. worker' \in [Workers -> Threads]
    BY <1>1, <2>1, ThreadType DEF ListJob, TypeOK
  <2>. QED  BY <1>0, <1>1, <2>2, TroublesType DEF ListJob, TypeOK, tables, history, queue
<1>2. CASE CancelListed(w)
  <2>1. worker' \in [Workers -> Threads] /\ job' \in JobRows
    BY <1>0, <1>2, NowType, RowsAre DEF CancelListed, TypeOK, Idle
  <2>. QED  BY <1>0, <1>2, <2>1 DEF CancelListed, TypeOK, history, counters, queue
<1>3. CASE CheckDefer(w)
  <2>1. worker' \in [Workers -> Threads] /\ early' \in BOOLEAN
    BY <1>3, NowType DEF CheckDefer, TypeOK, Idle
  <2>. QED  BY <1>0, <1>3, <2>1 DEF CheckDefer, TypeOK, tables, counters, queue
<1>4. CASE LoadForClaim(w)
  <2>1. worker' \in [Workers -> Threads]
    BY <1>0, <1>4, ThreadType DEF LoadForClaim, TypeOK
  <2>. QED  BY <1>0, <1>4, <2>1 DEF LoadForClaim, TypeOK, tables, history, counters, queue
<1>5. CASE Claim(w)
  <2>1. worker' \in [Workers -> Threads] /\ job' \in JobRows
    BY <1>0, <1>5, NowType, RowsAre DEF Claim, TypeOK
  <2>. QED  BY <1>0, <1>5, <2>1 DEF Claim, TypeOK, history, counters, queue
<1>6. CASE StartRun(w)
  <2>1. worker' \in [Workers -> Threads]
    <3>1. [job EXCEPT !.status = "running", !.named = TRUE] \in JobRows
      BY <1>0, RowsAre DEF JobRows
    <3>2. Thread("start", [job EXCEPT !.status = "running", !.named = TRUE], "none") \in Threads
      BY <3>1, ThreadType
    <3>. QED  BY <1>6, <3>2 DEF StartRun, TypeOK
  <2>2. turns' \in 0..2 /\ run' \in Runs
    BY <1>6, TwoType DEF StartRun, TypeOK, Runs
  <2>. QED  BY <1>0, <1>6, <2>1, <2>2 DEF StartRun, TypeOK, counters, queue
<1>7. ASSUME NEW pc \in {"turn", "asking"}, Goes(w, pc)
      PROVE  worker' \in [Workers -> Threads]
  BY <1>0, <1>7 DEF Goes, TypeOK, Threads
<1>8. ASSUME NEW pc \in {"failing", "settle"}, NEW outcome \in JobOver, Leaves(w, pc, outcome)
      PROVE  worker' \in [Workers -> Threads]
  BY <1>0, <1>8, ThreadType DEF Leaves, TypeOK
<1>9. CASE StartJob(w)
  BY <1>0, <1>7, <1>9 DEF StartJob, TypeOK, history, counters, queue
<1>10. CASE LastCheck(w)
  <2>1. worker' \in [Workers -> Threads]
    BY <1>7, <1>8, <1>10 DEF LastCheck, JobOver
  <2>. QED  BY <1>0, <1>10, <2>1 DEF LastCheck, TypeOK, tables, history, counters, queue
<1>11. CASE EndTurn(w)
  <2>1. worker' \in [Workers -> Threads] /\ run' \in Runs
    BY <1>8, <1>11 DEF EndTurn, JobOver, Runs
  <2>. QED  BY <1>0, <1>11, <2>1 DEF EndTurn, TypeOK, history, counters, queue
<1>12. CASE LookForCancel(w)
  <2>1. worker' \in [Workers -> Threads]
    BY <1>8, <1>12 DEF LookForCancel, JobOver
  <2>. QED  BY <1>0, <1>12, <2>1 DEF LookForCancel, TypeOK, tables, history, counters, queue
<1>13. CASE Settle(w)
  <2>1. job' \in JobRows
    BY <1>0, <1>13, SettledIs DEF Settle, At, OutcomesAreKnown
  <2>2. worker' \in [Workers -> Threads]
    BY <1>13, NowType DEF Settle, TypeOK, Idle
  <2>. QED  BY <1>0, <1>13, <2>1, <2>2 DEF Settle, TypeOK, history, counters, queue
<1>14. CASE Tell(w)
  <2>1. worker' \in [Workers -> Threads] /\ inbox' \subseteq {"completed", "terminal"}
    BY <1>14, NowType DEF Tell, TypeOK, Idle, Report
  <2>. QED  BY <1>0, <1>14, <2>1 DEF Tell, TypeOK, history, counters, queue
<1>. QED
  BY <1>1, <1>2, <1>3, <1>4, <1>5, <1>6, <1>9, <1>10, <1>11, <1>12, <1>13, <1>14
  DEF TurnStep, BackgroundStep

LEMMA MailType ==
  ASSUME TypeOK, NEW e \in Events, mail' = [mail EXCEPT ![e] = @ + 1]
  PROVE  mail' \in [Events -> Nat]
  BY DEF TypeOK

LEMMA ConsumerType ==
  ASSUME TypeOK, OutcomesAreKnown, HandledIsThere, ConsumerStep, Hold
  PROVE  TypeOK'
<1>0. /\ worker[Consumer] \in Threads /\ job \in JobRows /\ holders' \subseteq Engaged'
      /\ worker[Consumer].copy \in JobRows
  BY HoldersType, ConsumerIs DEF TypeOK, Threads
<1>1. ASSUME NEW pc \in {"taken", "claim", "reload", "result", "ack-created", "deliver",
                         "ack-result"}, ConsumerGoes(pc)
      PROVE  worker' \in [Workers -> Threads]
  BY <1>1, NowType DEF ConsumerGoes, TypeOK
<1>2. CASE TakeCreated
  BY <1>0, <1>1, <1>2 DEF TakeCreated, TypeOK, history, counters, queue
<1>3. ASSUME Reads
      PROVE  worker' \in [Workers -> Threads]
  <2>1. [NoJob EXCEPT !.status = job.status] \in JobRows
    BY <1>0, NoJobType DEF JobRows
  <2>2. Thread("record", [NoJob EXCEPT !.status = job.status], "none") \in Threads
    BY <2>1, ThreadType
  <2>. QED  BY <1>3, <2>2 DEF Reads, TypeOK
<1>4. CASE ExecuteTask
  <2>1. worker' \in [Workers -> Threads] /\ job' \in JobRows
    BY <1>0, <1>1, <1>3, <1>4, RowsAre DEF ExecuteTask
  <2>. QED  BY <1>0, <1>4, <2>1 DEF ExecuteTask, TypeOK, history, counters, queue
<1>5. CASE ReloadJob
  BY <1>0, <1>3, <1>5 DEF ReloadJob, TypeOK, tables, history, counters, queue
<1>6. CASE RecordError
  BY <1>0, <1>1, <1>6 DEF RecordError, TypeOK, history, counters, TaskOver, queue
<1>7. CASE RecordTask
  <2>1. worker' \in [Workers -> Threads]
    BY <1>1, <1>7 DEF RecordTask
  <2>2. task' \in TaskOver \cup {"none", "queued", "running"}
    BY <1>7 DEF RecordTask, StatusFromJob, TaskOver, JobOver
  <2>. QED  BY <1>0, <1>7, <2>1, <2>2 DEF RecordTask, TypeOK, history, counters, queue
<1>8. CASE WriteResult
  <2>1. rows' \subseteq Events /\ written' \in BOOLEAN
    BY <1>8 DEF WriteResult, TypeOK, Events
  <2>2. worker' \in [Workers -> Threads]
    BY <1>1, <1>8 DEF WriteResult
  <2>. QED  BY <1>0, <1>8, <2>1, <2>2 DEF WriteResult, TypeOK, tables, counters
<1>9. CASE TakeResult
  BY <1>0, <1>1, <1>9 DEF TakeResult, TypeOK, tables, history, counters, ToServe, queue
<1>10. ASSUME NEW f \in Followers, RefuseFollower(f)
       PROVE  TypeOK'
  <2>1. follower' \in [Followers -> FollowerRows]
    BY <1>10 DEF RefuseFollower, TypeOK, FollowerRows
  <2>2. /\ got' \in [Followers -> 0..2] /\ unrecorded' \subseteq Followers
        /\ troubles' \in 0..MaxTroubles
    <3>1. got[f] \in 0..2
      BY DEF TypeOK
    <3>2. AtMostTwo(got[f] + 1) \in 0..2
      BY <3>1, TwoType
    <3>. QED  BY <1>10, <3>2, TroublesType DEF RefuseFollower, TypeOK
  <2>. QED  BY <1>0, <1>10, <2>1, <2>2 DEF RefuseFollower, TypeOK, queue
<1>11. ASSUME NEW f \in Followers, SendFollower(f)
       PROVE  TypeOK'
  <2>1. worker' \in [Workers -> Threads]
    BY <1>11, ThreadType, NoJobType DEF SendFollower, TypeOK
  <2>2. /\ got' \in [Followers -> 0..2] /\ unrecorded' \subseteq Followers
        /\ troubles' \in 0..MaxTroubles
    <3>1. got[f] \in 0..2
      BY DEF TypeOK
    <3>2. AtMostTwo(got[f] + 1) \in 0..2
      BY <3>1, TwoType
    <3>. QED  BY <1>11, <3>2, TroublesType DEF SendFollower, TypeOK
  <2>. QED  BY <1>0, <1>11, <2>1, <2>2 DEF SendFollower, TypeOK, tables, queue
<1>12. CASE MarkFollower
  <2>1. worker[Consumer].outcome \in Followers
    BY <1>12, ConsumerIs DEF MarkFollower, At, OutcomesAreKnown
  <2>2. follower' \in [Followers -> FollowerRows]
    BY <1>12, <2>1 DEF MarkFollower, TypeOK, FollowerRows
  <2>. QED  BY <1>0, <1>1, <1>12, <2>2 DEF MarkFollower, TypeOK, history, counters, queue
<1>13. CASE DeliveryDone
  BY <1>0, <1>1, <1>13 DEF DeliveryDone, TypeOK, tables, history, counters, queue
<1>14. ASSUME NEW e \in Events, Acknowledge(e)
       PROVE  TypeOK'
  <2>1. mail[e] > 0
    BY <1>14 DEF Acknowledge, HandledIsThere, Handling, At, Events
  <2>2. mail' \in [Events -> Nat]
    BY <1>14, <2>1 DEF Acknowledge, TypeOK
  <2>3. worker' \in [Workers -> Threads]
    BY <1>14, NowType DEF Acknowledge, TypeOK, Idle
  <2>. QED  BY <1>0, <1>14, <2>2, <2>3 DEF Acknowledge, TypeOK, tables, history, counters, queue
<1>. QED
  BY <1>2, <1>4, <1>5, <1>6, <1>7, <1>8, <1>9, <1>10, <1>11, <1>12, <1>13, <1>14
  DEF ConsumerStep, DeliveryStep

(* Everybody else, with the threads as they are.                           *)
OtherStep ==
  \/ SenderStep \/ SendFails
  \/ \E e \in Events : Publish(e) \/ Redeliver(e)
  \/ \E f \in Followers : Unfollow(f) \/ \E only \in BOOLEAN : Follow(f, only)
  \/ OperatorStep \/ Expire

LEMMA OtherType ==
  ASSUME TypeOK, OtherStep, Hold
  PROVE  TypeOK'
<1>0. /\ holders' \subseteq Engaged' /\ job \in JobRows /\ operator \in Operators
      /\ operator.job \in JobRows /\ Resting \in Operators
  BY HoldersType, NoJobType DEF TypeOK, Operators, Resting, Runs
<1>1. ASSUME NEW pc \in {"job", "task", "event"}, Sends(pc)
      PROVE  sender' \in DOMAIN SendOrder \cup {"sent", "failed"}
  BY <1>1, SenderIs DEF Sends
<1>2. CASE SendJob
  <2>1. job' \in JobRows
    BY <1>2, NoJobType, RowsAre DEF SendJob
  <2>. QED  BY <1>0, <1>1, <1>2, <2>1 DEF SendJob, TypeOK, history, counters, queue
<1>3. CASE SendTask
  BY <1>0, <1>1, <1>3 DEF SendTask, TypeOK, history, counters, queue
<1>4. CASE SendEvent
  <2>1. rows' \subseteq Events
    BY <1>4 DEF SendEvent, TypeOK, Events
  <2>. QED  BY <1>0, <1>1, <1>4, <2>1 DEF SendEvent, TypeOK, tables, history, counters
<1>5. CASE SendFails
  BY <1>0, <1>5, TroublesType DEF SendFails, TypeOK, tables, history, queue
<1>6. ASSUME NEW e \in Events, Redeliver(e)
      PROVE  TypeOK'
  BY <1>0, <1>6, MailType, TroublesType DEF Redeliver, TypeOK, tables, threads, history, queue
<1>7. ASSUME NEW f \in Followers, Unfollow(f)
      PROVE  TypeOK'
  <2>1. follower' \in [Followers -> FollowerRows]
    BY <1>7 DEF Unfollow, TypeOK, FollowerRows
  <2>. QED  BY <1>0, <1>7, <2>1 DEF Unfollow, TypeOK, threads, history, counters, queue
<1>8. ASSUME NEW f \in Followers, NEW only \in BOOLEAN, Follow(f, only)
      PROVE  TypeOK'
  <2>1. follower' \in [Followers -> FollowerRows]
    BY <1>8 DEF Follow, TypeOK, FollowerRows
  <2>2. excused' \subseteq Followers
    BY <1>8 DEF Follow, TypeOK
  <2>. QED  BY <1>0, <1>8, <2>1, <2>2, TroublesType DEF Follow, TypeOK, threads, queue
<1>9. CASE Snapshot
  <2>1. operator' \in Operators
    BY <1>0, <1>9 DEF Snapshot, Operators, TypeOK
  <2>. QED  BY <1>0, <1>9, <2>1, TroublesType DEF Snapshot, TypeOK, tables, history, queue
<1>10. CASE CancelRun
  <2>1. operator' \in Operators /\ run' \in Runs
    BY <1>0, <1>10 DEF CancelRun, Operators, TypeOK, Runs
  <2>. QED  BY <1>0, <1>10, <2>1 DEF CancelRun, TypeOK, history, counters, queue
<1>11. CASE CancelJob
  <2>1. operator' \in Operators /\ job' \in JobRows
    BY <1>0, <1>11, RowsAre DEF CancelJob, Operators, Resting
  <2>. QED  BY <1>0, <1>11, <2>1 DEF CancelJob, TypeOK, history, counters, queue
<1>12. CASE LoadTask \/ CancelTask
  BY <1>0, <1>12, TroublesType
  DEF LoadTask, CancelTask, TypeOK, tables, history, counters, TaskOver, queue
<1>13. CASE WriteCancelled
  <2>1. rows' \subseteq Events /\ written' \in BOOLEAN
    BY <1>13 DEF WriteCancelled, TypeOK, Events
  <2>. QED  BY <1>0, <1>13, <2>1 DEF WriteCancelled, TypeOK, tables, counters
<1>14. CASE Expire
  <2>1. job' \in JobRows
    BY <1>0, <1>14 DEF Expire, JobRows
  <2>. QED  BY <1>0, <1>14, <2>1, TroublesType DEF Expire, TypeOK, threads, history, queue
<1>15. ASSUME NEW e \in Events, Publish(e)
       PROVE  TypeOK'
  <2>1. rows' \subseteq Events /\ mail' \in [Events -> Nat]
    BY <1>15, MailType DEF Publish, TypeOK
  <2>. QED  BY <1>0, <1>15, <2>1, TroublesType DEF Publish, TypeOK, tables, threads, history
<1>. QED
  BY <1>2, <1>3, <1>4, <1>5, <1>6, <1>7, <1>8, <1>9, <1>10, <1>11, <1>12, <1>13, <1>14,
     <1>15
  DEF OtherStep, SenderStep, OperatorStep

LEMMA CrashType ==
  ASSUME TypeOK, NEW claimed \in SUBSET Events, Crash(claimed), Hold,
         OutcomesAreKnown
  PROVE  TypeOK'
<1>1. worker' \in [Workers -> Threads]
  BY NowType DEF Crash, Idle
<1>2. operator' \in Operators
  BY NoJobType DEF Crash, TypeOK, Operators, Resting, Runs
<1>3. sender' \in DOMAIN SendOrder \cup {"sent", "failed"} /\ run' \in Runs
  BY DEF Crash, TypeOK, Runs
<1>4. /\ rows' \subseteq Events /\ publisher' \in BOOLEAN
      /\ faults' \subseteq {"crash", "call"} \cup Events
  BY DEF Crash, TypeOK
<1>5. unrecorded' \subseteq Followers
  BY ConsumerIs DEF Crash, TypeOK, OutcomesAreKnown, At
<1>. QED  BY <1>1, <1>2, <1>3, <1>4, <1>5, HoldersType, TroublesType DEF Crash, TypeOK

(* A call that fails. *)
LEMMA FailureType ==
  ASSUME TypeOK, OutcomesAreKnown, CallFails, Hold
  PROVE  TypeOK'
<1>0. /\ holders' \subseteq Engaged' /\ troubles' \in 0..MaxTroubles /\ Consumer \in Workers
      /\ run \in Runs /\ faults \cup {"call"} \subseteq {"crash", "call"} \cup Events
  BY HoldersType, TroublesType, ConsumerIs
  DEF CallFails, BackgroundFails, ConsumerFails, ConsumerCannotRead, CancellerFails,
      OperatorFails, PublisherStops, TypeOK
<1>1. ASSUME NEW w \in Workers, TurnFailing(w)
      PROVE  run' \in Runs
  BY <1>0, <1>1 DEF TurnFailing, Runs
<1>2. ASSUME NEW w \in Background, BackgroundFails(w)
      PROVE  TypeOK'
  <2>1. worker' \in [Workers -> Threads] /\ run' \in Runs
    BY <1>1, <1>2, NowType, ConsumerIs DEF BackgroundFails, TypeOK, Idle
  <2>. QED  BY <1>0, <1>2, <2>1 DEF BackgroundFails, TypeOK, queue, history
<1>3. CASE ConsumerFails
  <2>1. worker' \in [Workers -> Threads]
    <3>1. AfterError(worker[Consumer].pc) \in {"error", "ack-created", "ack-result", "stopped"}
      BY DEF AfterError
    <3>. QED  BY <1>3, <3>1, NowType DEF ConsumerFails, ConsumerGoes, TypeOK
  <2>2. unrecorded' \subseteq Followers /\ excused' \subseteq Followers /\ run' \in Runs
    BY <1>0, <1>1, <1>3 DEF ConsumerFails, TypeOK, OutcomesAreKnown, At
  <2>. QED  BY <1>0, <1>3, <2>1, <2>2 DEF ConsumerFails, TypeOK, queue
<1>4. ASSUME NEW e \in Events, ConsumerCannotRead(e)
      PROVE  TypeOK'
  <2>1. worker' \in [Workers -> Threads]
    <3>1. [created |-> "ack-created", result |-> "ack-result"][e] \in {"ack-created", "ack-result"}
      BY DEF Events
    <3>. QED  BY <1>4, <3>1, NowType DEF ConsumerCannotRead, ConsumerGoes, TypeOK
  <2>2. excused' \subseteq Followers
    BY <1>4 DEF ConsumerCannotRead, TypeOK, ToServe
  <2>. QED  BY <1>0, <1>4, <2>1, <2>2 DEF ConsumerCannotRead, TypeOK, tables, queue
<1>5. CASE CancellerFails
  BY <1>0, <1>5 DEF CancellerFails, TypeOK, tables, queue, history
<1>6. CASE OperatorFails
  <2>1. operator' \in Operators
    BY <1>6, NoJobType DEF OperatorFails, Operators, Resting, Runs
  <2>. QED  BY <1>0, <1>6, <2>1 DEF OperatorFails, TypeOK, tables, queue, history
<1>7. ASSUME NEW claimed \in SUBSET Events, PublisherStops(claimed)
      PROVE  TypeOK'
  BY <1>0, <1>7 DEF PublisherStops, TypeOK, tables, threads, history
<1>. QED  BY <1>2, <1>3, <1>4, <1>5, <1>6, <1>7 DEF CallFails

LEMMA TypeStep ==
  ASSUME IInv, [Next]_vars
  PROVE  TypeOK'
<1>0. TypeOK /\ OutcomesAreKnown /\ HandledIsThere
  BY DEF IInv
<1>1. ASSUME UNCHANGED vars
      PROVE  TypeOK'
  BY <1>0, <1>1 DEF vars, tables, threads, history, counters, TypeOK, Engaged, At, queue
<1>2. ASSUME NEW w \in Workers, TurnStep(w) \/ BackgroundStep(w), Hold
      PROVE  TypeOK'
  BY <1>0, <1>2, TurnType
<1>. QED
  BY <1>0, <1>1, <1>2, ConsumerIs, ConsumerType, OtherType, CrashType, FailureType
  DEF Next, OtherStep

-----------------------------------------------------------------------------
(* The rest of the invariant.                                              *)

Rest ==
  /\ OutcomesAreKnown /\ HandledIsThere /\ BackgroundIsApart /\ QuietBeforeJob
  /\ StrangersKeepOff
  /\ ConsumerAlone /\ OneTurn
  /\ CompletedIsInHand /\ OverTaskHasResult

(* A step of thread w, as far as the others see it.                        *)
Alone(w) ==
  /\ \A v \in Workers : v # w => worker'[v] = worker[v]
  /\ sender' = sender /\ sender # "job" /\ faults' = faults
  /\ job.status = "cancelled" /\ job'.status = "cancelled" /\ w \notin holders
       => worker'[w].pc \in Off

LEMMA StrangersStep ==
  ASSUME IInv, NEW w \in Workers, Alone(w), Hold
  PROVE  StrangersKeepOff' /\ QuietBeforeJob'
<1>1. QuietBeforeJob'
  BY DEF QuietBeforeJob, Alone
<1>2. ASSUME job'.status = "cancelled", job.status = "cancelled"
      PROVE  StrangersKeepOff'
  BY <1>2 DEF IInv, StrangersKeepOff, Alone, Hold, Off
<1>3. ASSUME job'.status = "cancelled", job.status # "cancelled"
      PROVE  StrangersKeepOff'
  BY <1>3 DEF StrangersKeepOff, Hold, Off
<1>. QED  BY <1>1, <1>2, <1>3 DEF StrangersKeepOff

(* A step of the turn, of a background thread or of the consumer.          *)
TurnMove(w) ==
  /\ UNCHANGED <<task, rows, mail, canceller, written>>
  /\ inbox \subseteq inbox' /\ early \in BOOLEAN /\ (early => early')
  /\ worker[w].pc \in Working \/ (w \in Background /\ worker[w].pc \in {"idle", "listed"})
  /\ \/ worker'[w].pc \in Working
     \/ w = Consumer /\ worker'[w].pc \in {"error", "reload"}
     \/ w # Consumer /\ worker'[w].pc \in {"idle", "listed"}
  /\ worker'[w].pc \in {"failing", "settle"} => worker'[w].outcome \in JobOver
  /\ job'.status = "completed"
       => \/ "completed" \in inbox'
          \/ worker'[w].pc \in Telling
          \/ job.status = "completed" /\ worker[w].pc \notin Telling
  /\ w \in Background /\ EventBusRequired /\ ~ early'
       => /\ worker'[w].pc \in {"idle", "listed"} /\ turns' = turns
          /\ job'.status \in JobOver \cup {job.status}
  /\ w = Consumer => OneTurn'

LEMMA TurnMoves ==
  ASSUME IInv, NEW w \in Workers, Alone(w), TurnMove(w), Hold
  PROVE  Rest'
<1>0. StrangersKeepOff' /\ QuietBeforeJob' /\ Interrupted' = Interrupted
  BY StrangersStep DEF Alone, Interrupted
<1>1. OutcomesAreKnown'
  BY DEF IInv, OutcomesAreKnown, Alone, TurnMove, Working
<1>2. HandledIsThere'
  <2>1. CASE w = Consumer
    BY <2>1, ConsumerIs
    DEF IInv, HandledIsThere, Handling, Alone, TurnMove, Working, At, Events
  <2>2. CASE w # Consumer
    BY <2>2, ConsumerIs DEF IInv, HandledIsThere, Handling, Alone, TurnMove, At
  <2>. QED  BY <2>1, <2>2
<1>3. BackgroundIsApart'
  BY ConsumerIs DEF IInv, BackgroundIsApart, BackgroundPcs, Alone, TurnMove
<1>4. ConsumerAlone'
  BY ConsumerIs DEF IInv, ConsumerAlone, Alone, TurnMove
<1>5. OneTurn'
  <2>1. CASE w = Consumer
    BY <2>1 DEF TurnMove
  <2>2. CASE w # Consumer
    BY <1>0, <2>2, ConsumerIs DEF IInv, OneTurn, Alone, TurnMove
  <2>. QED  BY <2>1, <2>2
<1>6. CompletedIsInHand'
  BY <1>0 DEF IInv, CompletedIsInHand, Alone, TurnMove
<1>7. OverTaskHasResult'
  BY <1>0, ConsumerIs DEF IInv, OverTaskHasResult, Alone, TurnMove, Working, At
<1>. QED  BY <1>0, <1>1, <1>2, <1>3, <1>4, <1>5, <1>6, <1>7 DEF Rest

LEMMA NotTheSender ==
  ASSUME IInv, NEW w \in Workers,
         ~ At(w, "idle") \/ job.status # "none" \/ \E e \in Events : mail[e] # 0
  PROVE  sender # "job"
  BY NoJobType DEF IInv, QuietBeforeJob

(* Who works on a cancelled job holds it.                                  *)
LEMMA WorkersHold ==
  ASSUME IInv, NEW w \in Workers, worker[w].pc \in Working \cup {"listed", "reload"},
         job.status = "cancelled"
  PROVE  w \in holders
  BY DEF IInv, StrangersKeepOff, Off, Working

LEMMA TurnSteps ==
  ASSUME IInv, NEW w \in Workers, TurnStep(w) \/ (w \in Background /\ BackgroundStep(w)), Hold
  PROVE  Rest'
<1>0. /\ TypeOK /\ job \in JobRows /\ worker[w] \in Threads /\ worker[w].copy \in JobRows
      /\ early \in BOOLEAN /\ turns \in 0..2 /\ OneTurn
      /\ w \in Background <=> w # Consumer
      /\ Interrupted' = Interrupted /\ UNCHANGED queue
  <2>1. Interrupted' = Interrupted /\ UNCHANGED queue
    BY DEF TurnStep, BackgroundStep, ListJob, CancelListed, CheckDefer, LoadForClaim, Claim,
           StartRun, StartJob, LastCheck, EndTurn, LookForCancel, Settle, Tell, counters,
           Interrupted
  <2>. QED  BY <2>1, ConsumerIs DEF IInv, TypeOK, Threads
<1>1. SUFFICES Alone(w) /\ TurnMove(w)
  BY TurnMoves
<1>2. BackgroundStep(w) => w \in Background
  BY ConsumerIs
  DEF TurnStep, BackgroundStep, ListJob, CancelListed, CheckDefer, LoadForClaim, Claim, StartRun,
      StartJob, LastCheck, EndTurn, LookForCancel, Settle, Tell, At
<1>3. worker[w].pc \in Working /\ w \in Background => ~ EventBusRequired \/ early
  BY DEF IInv, ConsumerAlone, Working
<1>4. ASSUME NEW t, worker' = [worker EXCEPT ![w] = t]
      PROVE  worker'[w] = t /\ \A v \in Workers : v # w => worker'[v] = worker[v]
  BY <1>0, <1>4, Frame
<1>5. ~ At(w, "idle") => sender # "job"
  BY NotTheSender
<1>6. worker[w].pc \in Working \cup {"listed"} /\ job.status = "cancelled" => w \in holders
  BY WorkersHold
<1>7. CASE ListJob(w)
  <2>1. worker'[w].pc = "listed" /\ \A v \in Workers : v # w => worker'[v] = worker[v]
    BY <1>4, <1>7 DEF ListJob, Thread
  <2>2. sender # "job" /\ job.status = "running"
    BY <1>7, NotTheSender DEF ListJob, ShouldRun
  <2>3. w \in Background
    BY <1>2, <1>7 DEF BackgroundStep
  <2>. QED
    BY <1>0, <1>7, <2>1, <2>2, <2>2, <2>3
    DEF ListJob, Alone, TurnMove, tables, history, At, queue
<1>8. CASE CancelListed(w)
  <2>1. worker'[w] = Idle /\ job'.status = "cancelled"
        /\ \A v \in Workers : v # w => worker'[v] = worker[v]
    BY <1>0, <1>4, <1>8, RowsAre DEF CancelListed, Idle, Now, Thread
  <2>2. w \in Background
    BY <1>2, <1>8 DEF BackgroundStep
  <2>. QED
    BY <1>0, <1>5, <1>6, <1>8, <2>1, <2>2, NowType
    DEF CancelListed, Alone, TurnMove, OneTurn, Idle, Working, Telling, Off,
        tables, history, counters, At, JobOver, queue
<1>9. CASE CheckDefer(w)
  <2>1. worker'[w] \in {Idle, Now("claim")} /\ \A v \in Workers : v # w => worker'[v] = worker[v]
    BY <1>0, <1>4, <1>9 DEF CheckDefer, Idle
  <2>2. w \in Background
    BY <1>2, <1>9 DEF BackgroundStep
  <2>3. worker'[w].pc \in {"idle", "claim"}
    BY <2>1, NowType DEF Idle
  <2>4. EventBusRequired /\ ~ early' => worker'[w].pc = "idle"
    <3>1. CASE ShouldDefer
      <4>1. worker' = [worker EXCEPT ![w] = Idle]
        BY <1>9, <3>1 DEF CheckDefer
      <4>2. worker'[w] = Idle
        BY <1>0, <4>1, Frame
      <4>. QED  BY <4>2 DEF Idle, Now, Thread
    <3>2. CASE ~ ShouldDefer
      <4>1. early' = (early \/ task = "none")
        BY <1>9, <3>2 DEF CheckDefer
      <4>. QED  BY <3>2, <4>1 DEF ShouldDefer
    <3>. QED  BY <3>1, <3>2
  <2>5. Alone(w)
    BY <1>5, <1>6, <1>9, <2>1, <2>3 DEF CheckDefer, Alone, Off, tables, history, counters, At, queue
  <2>6. early => early'
    BY <1>9 DEF CheckDefer
  <2>. QED
    BY <1>0, <1>9, <2>2, <2>3, <2>4, <2>5, <2>6
    DEF CheckDefer, TurnMove, Working, Telling, tables, history, counters, At, queue
<1>10. CASE LoadForClaim(w)
  <2>1. worker'[w].pc = "claiming" /\ \A v \in Workers : v # w => worker'[v] = worker[v]
    BY <1>0, <1>4, <1>10 DEF LoadForClaim, Thread
  <2>. QED
    BY <1>0, <1>3, <1>5, <1>6, <1>10, <2>1
    DEF LoadForClaim, Alone, TurnMove, OneTurn, Working, Telling, Off,
        tables, history, counters, At, JobOver, queue
<1>11. CASE Claim(w)
  <2>1. worker'[w].pc = "load" /\ \A v \in Workers : v # w => worker'[v] = worker[v]
    BY <1>0, <1>4, <1>11 DEF Claim, Now, Thread
  <2>. QED
    BY <1>0, <1>3, <1>5, <1>6, <1>11, <2>1
    DEF Claim, Alone, TurnMove, OneTurn, Working, Telling, Off,
        tables, history, counters, At, JobOver, queue
<1>12. CASE StartRun(w)
  <2>1. worker'[w].pc = "start" /\ \A v \in Workers : v # w => worker'[v] = worker[v]
    BY <1>0, <1>4, <1>12 DEF StartRun, Thread
  <2>2. turns = 0 => turns' = 1
    BY <1>12 DEF StartRun, AtMostTwo
  <2>3. Alone(w)
    BY <1>5, <1>6, <1>12, <2>1, <2>2 DEF StartRun, Alone, Working, Off, history, counters, At, queue
  <2>4. w = Consumer => OneTurn'
    BY <1>0, <1>12, <2>1, <2>2 DEF StartRun, OneTurn, tables, history, counters, At, queue
  <2>. QED
    BY <1>0, <1>3, <1>12, <2>1, <2>3, <2>4
    DEF StartRun, TurnMove, Working, Telling, tables, history, counters, At, queue
<1>13. CASE StartJob(w)
  <2>1. worker'[w].pc = "turn" /\ \A v \in Workers : v # w => worker'[v] = worker[v]
    BY <1>0, <1>13 DEF StartJob, Goes, Threads, TypeOK
  <2>2. Alone(w)
    BY <1>5, <1>6, <1>13, <2>1 DEF StartJob, Alone, Working, Off, history, counters, At, queue
  <2>3. w = Consumer => OneTurn'
    BY <1>0, <1>13, <2>1 DEF StartJob, OneTurn, tables, history, counters, At, queue
  <2>. QED
    BY <1>0, <1>3, <1>13, <2>1, <2>2, <2>3
    DEF StartJob, TurnMove, Working, Telling, tables, history, counters, At, queue
<1>14. CASE LastCheck(w)
  <2>1. \A v \in Workers : v # w => worker'[v] = worker[v]
    BY <1>0, <1>14 DEF LastCheck, Goes, Leaves, TypeOK
  <2>2. \/ worker'[w].pc = "asking"
        \/ worker'[w].pc = "settle" /\ worker'[w].outcome \in JobOver
    BY <1>0, <1>14 DEF LastCheck, Goes, Leaves, Thread, Threads, TypeOK, JobOver
  <2>3. Alone(w)
    BY <1>5, <1>6, <1>14, <2>1, <2>2
    DEF LastCheck, Alone, Working, Off, history, counters, At, queue
  <2>4. w = Consumer => OneTurn'
    BY <1>0, <1>14, <2>1, <2>2 DEF LastCheck, OneTurn, tables, history, counters, At, queue
  <2>. QED
    BY <1>0, <1>3, <1>14, <2>1, <2>2, <2>3, <2>4
    DEF LastCheck, TurnMove, Working, Telling, tables, history, counters, At, queue
<1>15. CASE EndTurn(w)
  <2>1. \A v \in Workers : v # w => worker'[v] = worker[v]
    BY <1>0, <1>15 DEF EndTurn, Leaves, TypeOK
  <2>2. worker'[w].pc \in {"failing", "settle"} /\ worker'[w].outcome \in JobOver
    BY <1>0, <1>15 DEF EndTurn, Leaves, Thread, TypeOK, JobOver
  <2>3. Alone(w)
    BY <1>5, <1>6, <1>15, <2>1, <2>2 DEF EndTurn, Alone, Working, Off, history, counters, At, queue
  <2>4. w = Consumer => OneTurn'
    BY <1>0, <1>15, <2>1, <2>2 DEF EndTurn, OneTurn, tables, history, counters, At, queue
  <2>. QED
    BY <1>0, <1>3, <1>15, <2>1, <2>2, <2>3, <2>4
    DEF EndTurn, TurnMove, Working, Telling, tables, history, counters, At, queue
<1>16. CASE LookForCancel(w)
  <2>1. \A v \in Workers : v # w => worker'[v] = worker[v]
    BY <1>0, <1>16 DEF LookForCancel, Leaves, TypeOK
  <2>2. worker'[w].pc = "settle" /\ worker'[w].outcome \in JobOver
    BY <1>0, <1>16 DEF LookForCancel, Leaves, Thread, TypeOK, JobOver
  <2>3. Alone(w)
    BY <1>5, <1>6, <1>16, <2>1, <2>2
    DEF LookForCancel, Alone, Working, Off, history, counters, At, queue
  <2>4. w = Consumer => OneTurn'
    BY <1>0, <1>16, <2>1, <2>2 DEF LookForCancel, OneTurn, tables, history, counters, At, queue
  <2>. QED
    BY <1>0, <1>3, <1>16, <2>1, <2>2, <2>3, <2>4
    DEF LookForCancel, TurnMove, Working, Telling, tables, history, counters, At, queue
<1>17. CASE Settle(w)
  <2>1. \A v \in Workers : v # w => worker'[v] = worker[v]
    BY <1>4, <1>17 DEF Settle
  <2>2. \/ worker'[w].pc = "tell"
        \/ w = Consumer /\ worker'[w].pc = "error" /\ worker[w].outcome = "failed"
        \/ w # Consumer /\ worker'[w].pc = "idle" /\ worker[w].outcome = "failed"
    BY <1>4, <1>17, NowType DEF Settle, Idle
  <2>3. job'.status = worker[w].outcome /\ job'.status \in JobOver
    BY <1>0, <1>17, SettledIs DEF Settle, At, IInv, OutcomesAreKnown
  <2>4. Alone(w)
    BY <1>5, <1>6, <1>17, <2>1, <2>2, <2>3
    DEF Settle, Alone, Working, Off, history, counters, At, queue
  <2>5. w = Consumer => OneTurn'
    BY <1>0, <1>17, <2>1, <2>2, <2>3 DEF Settle, OneTurn, tables, history, counters, At, queue
  <2>. QED
    BY <1>0, <1>3, <1>17, <2>1, <2>2, <2>3, <2>4, <2>5
    DEF Settle, TurnMove, Working, Telling, tables, history, counters, At, queue
<1>18. CASE Tell(w)
  <2>1. \A v \in Workers : v # w => worker'[v] = worker[v]
    BY <1>4, <1>18 DEF Tell
  <2>2. worker'[w].pc = IF w = Consumer THEN "reload" ELSE "idle"
    BY <1>4, <1>18, NowType DEF Tell, Idle
  <2>3. job.status = "completed" => "completed" \in inbox'
    BY <1>18 DEF Tell, Report
  <2>4. Alone(w)
    BY <1>5, <1>6, <1>18, <2>1, <2>2, <2>3
    DEF Tell, Alone, Working, Off, history, counters, At, queue
  <2>5. w = Consumer => OneTurn'
    BY <1>0, <1>18, <2>1, <2>2, <2>3 DEF Tell, OneTurn, tables, history, counters, At, queue
  <2>. QED
    BY <1>0, <1>3, <1>18, <2>1, <2>2, <2>3, <2>4, <2>5
    DEF Tell, TurnMove, Working, Telling, tables, history, counters, At, queue
<1>. QED
  BY <1>7, <1>8, <1>9, <1>10, <1>11, <1>12, <1>13, <1>14, <1>15, <1>16, <1>17, <1>18
  DEF TurnStep, BackgroundStep

(* A step of the consumer outside a turn.                                  *)
ConsumerMove ==
  /\ UNCHANGED <<inbox, canceller, turns, early>>
  /\ worker[Consumer].pc \notin Working
  /\ worker'[Consumer].pc \in Off \cup {"claim", "reload"}
  /\ worker'[Consumer].pc = "claim" => job.status \notin JobOver
  /\ worker'[Consumer].pc = "sent" => worker'[Consumer].outcome \in Followers
  /\ job' = job \/ job'.status = "cancelled"

LEMMA ConsumerMoves ==
  ASSUME IInv, Alone(Consumer), ConsumerMove, HandledIsThere', OverTaskHasResult', Hold
  PROVE  Rest'
<1>0. StrangersKeepOff' /\ QuietBeforeJob' /\ Interrupted' = Interrupted
  BY StrangersStep, ConsumerIs DEF Alone, Interrupted
<1>1. OutcomesAreKnown'
  BY DEF IInv, OutcomesAreKnown, Alone, ConsumerMove, Off
<1>2. BackgroundIsApart' /\ ConsumerAlone'
  BY ConsumerIs DEF IInv, BackgroundIsApart, ConsumerAlone, BackgroundPcs, Alone, ConsumerMove
<1>3. OneTurn'
  <2>1. turns \in 0..2 /\ OneTurn
    BY DEF IInv, TypeOK
  <2>. QED  BY <1>0, <2>1 DEF OneTurn, Alone, ConsumerMove, Off, Working, JobOver
<1>4. CompletedIsInHand'
  <2>1. ASSUME job'.status = "completed", "completed" \notin inbox', ~ Interrupted'
        PROVE  \E w \in Workers : worker'[w].pc \in Telling
    <3>1. PICK w \in Workers : worker[w].pc \in Telling
      BY <1>0, <2>1 DEF IInv, CompletedIsInHand, Alone, ConsumerMove
    <3>2. w # Consumer
      BY <3>1 DEF ConsumerMove, Telling
    <3>. QED  BY <3>1, <3>2 DEF Alone
  <2>. QED  BY <2>1 DEF CompletedIsInHand
<1>. QED  BY <1>0, <1>1, <1>2, <1>3, <1>4 DEF Rest

LEMMA ConsumerSteps ==
  ASSUME IInv, ConsumerStep, Hold
  PROVE  Rest'
<1>0. /\ TypeOK /\ OutcomesAreKnown /\ HandledIsThere /\ OverTaskHasResult
      /\ job \in JobRows /\ worker[Consumer] \in Threads /\ Consumer \in Workers
      /\ Interrupted' = Interrupted
  <2>1. Interrupted' = Interrupted
    BY DEF ConsumerStep, DeliveryStep, TakeCreated, ExecuteTask, ReloadJob, RecordError, RecordTask,
           WriteResult, TakeResult, RefuseFollower, SendFollower, MarkFollower, DeliveryDone,
           Acknowledge, counters, Interrupted
  <2>. QED  BY <2>1, ConsumerIs DEF IInv, TypeOK
<1>1. ASSUME NEW t, worker' = [worker EXCEPT ![Consumer] = t]
      PROVE  worker'[Consumer] = t /\ \A v \in Workers : v # Consumer => worker'[v] = worker[v]
  BY <1>0, <1>1, Frame
<1>2. ~ At(Consumer, "idle") \/ (\E e \in Events : mail[e] > 0) => sender # "job"
  BY <1>0, NotTheSender DEF TypeOK
<1>3. worker[Consumer].pc = "reload" /\ job.status = "cancelled" => Consumer \in holders
  BY <1>0, WorkersHold
<1>4. CASE TakeCreated
  <2>1. \A v \in Workers : v # Consumer => worker'[v] = worker[v]
    BY <1>1, <1>4 DEF TakeCreated, ConsumerGoes
  <2>2. worker'[Consumer].pc \in {"taken", "ack-created"}
    BY <1>1, <1>4, NowType DEF TakeCreated, ConsumerGoes
  <2>3. Alone(Consumer)
    BY <1>2, <1>3, <1>4, <2>1, <2>2
    DEF TakeCreated, Alone, Off, Events, tables, history, counters, At, queue
  <2>4. ConsumerMove
    BY <1>4, <2>2 DEF TakeCreated, ConsumerMove, Off, Working, tables, history, counters, At, queue
  <2>5. HandledIsThere'
    BY <1>0, <1>4, <2>2
    DEF TakeCreated, HandledIsThere, Handling, Events, tables, history, counters, At, queue
  <2>6. OverTaskHasResult'
    BY <1>0, <1>4, <2>2
    DEF TakeCreated, OverTaskHasResult, TaskOver, tables, history, counters, At, queue
  <2>. QED  BY <2>3, <2>4, <2>5, <2>6, ConsumerMoves
<1>5. CASE ExecuteTask
  <2>1. ASSUME NEW pc \in {"reload", "claim"}, ConsumerGoes(pc)
        PROVE  worker'[Consumer].pc = pc
    BY <1>1, <2>1, NowType DEF ConsumerGoes
  <2>2. ASSUME Reads
        PROVE  worker'[Consumer].pc = "record"
    <3>1. worker'[Consumer] = Thread("record", [NoJob EXCEPT !.status = job.status], "none")
      BY <1>1, <2>2 DEF Reads
    <3>. QED  BY <3>1 DEF Thread
  <2>3. \/ job' = job /\ worker'[Consumer].pc = "record"
        \/ job' = job /\ worker'[Consumer].pc = "claim" /\ job.status \notin JobOver
        \/ /\ job'.status = "cancelled" /\ worker'[Consumer].pc = "reload"
           /\ job.status \notin JobOver
    BY <1>0, <1>5, <2>1, <2>2, RowsAre DEF ExecuteTask
  <2>4. \A v \in Workers : v # Consumer => worker'[v] = worker[v]
    BY <1>1, <1>5 DEF ExecuteTask, ConsumerGoes, Reads
  <2>5. Alone(Consumer)
    <3>1. UNCHANGED <<sender, faults>> /\ sender # "job"
      BY <1>2, <1>5 DEF ExecuteTask, At, counters, queue
    <3>. QED  BY <2>3, <2>4, <3>1 DEF Alone, Off, JobOver
  <2>6. ConsumerMove
    BY <1>5, <2>3 DEF ExecuteTask, ConsumerMove, Off, Working, history, At, queue
  <2>7. HandledIsThere'
    BY <1>0, <1>5, <2>3 DEF ExecuteTask, HandledIsThere, Handling, Events, At, queue
  <2>8. OverTaskHasResult'
    BY <1>0, <1>5, <2>3 DEF ExecuteTask, OverTaskHasResult, history, counters, At, queue
  <2>. QED  BY <2>5, <2>6, <2>7, <2>8, ConsumerMoves
<1>6. CASE ReloadJob
  <2>1. \A v \in Workers : v # Consumer => worker'[v] = worker[v]
    BY <1>1, <1>6 DEF ReloadJob, Reads, Thread
  <2>2. worker'[Consumer].pc \in {"record"}
    BY <1>1, <1>6, NowType DEF ReloadJob, Reads, Thread
  <2>3. Alone(Consumer)
    BY <1>2, <1>3, <1>6, <2>1, <2>2 DEF ReloadJob, Alone, Off, tables, history, counters, At, queue
  <2>4. ConsumerMove
    BY <1>6, <2>2 DEF ReloadJob, ConsumerMove, Off, Working, tables, history, counters, At, queue
  <2>5. HandledIsThere'
    BY <1>0, <1>6, <2>2
    DEF ReloadJob, HandledIsThere, Handling, Events, tables, history, counters, At, queue
  <2>6. OverTaskHasResult'
    BY <1>0, <1>6, <2>2 DEF ReloadJob, OverTaskHasResult, tables, history, counters, At, queue
  <2>. QED  BY <2>3, <2>4, <2>5, <2>6, ConsumerMoves
<1>7. CASE RecordError
  <2>1. \A v \in Workers : v # Consumer => worker'[v] = worker[v]
    BY <1>1, <1>7 DEF RecordError, ConsumerGoes
  <2>2. worker'[Consumer].pc \in {"ack-created"}
    BY <1>1, <1>7, NowType DEF RecordError, ConsumerGoes
  <2>3. Alone(Consumer)
    BY <1>2, <1>3, <1>7, <2>1, <2>2
    DEF RecordError, Alone, Off, tables, history, counters, At, queue
  <2>4. ConsumerMove
    BY <1>7, <2>2 DEF RecordError, ConsumerMove, Off, Working, tables, history, counters, At, queue
  <2>5. HandledIsThere'
    BY <1>0, <1>7, <2>2
    DEF RecordError, HandledIsThere, Handling, Events, tables, history, counters, At, queue
  <2>6. OverTaskHasResult'
    BY <1>0, <1>7, <2>2 DEF RecordError, OverTaskHasResult, tables, history, counters, At, queue
  <2>. QED  BY <2>3, <2>4, <2>5, <2>6, ConsumerMoves
<1>8. CASE RecordTask
  <2>1. \A v \in Workers : v # Consumer => worker'[v] = worker[v]
    BY <1>1, <1>8 DEF RecordTask, ConsumerGoes
  <2>2. worker'[Consumer].pc \in {"result", "ack-created"}
    BY <1>1, <1>8, NowType DEF RecordTask, ConsumerGoes
  <2>3. Alone(Consumer)
    BY <1>2, <1>3, <1>8, <2>1, <2>2 DEF RecordTask, Alone, Off, tables, history, counters, At, queue
  <2>4. ConsumerMove
    BY <1>8, <2>2 DEF RecordTask, ConsumerMove, Off, Working, tables, history, counters, At, queue
  <2>5. HandledIsThere'
    BY <1>0, <1>8, <2>2
    DEF RecordTask, HandledIsThere, Handling, Events, tables, history, counters, At, queue
  <2>6. OverTaskHasResult'
    BY <1>0, <1>1, <1>8, NowType
    DEF RecordTask, ConsumerGoes, StatusFromJob, OverTaskHasResult, TaskOver,
        JobOver, tables, history, counters, At, queue
  <2>. QED  BY <2>3, <2>4, <2>5, <2>6, ConsumerMoves
<1>9. CASE WriteResult
  <2>1. \A v \in Workers : v # Consumer => worker'[v] = worker[v]
    BY <1>1, <1>9 DEF WriteResult, ConsumerGoes
  <2>2. worker'[Consumer].pc \in {"ack-created"}
    BY <1>1, <1>9, NowType DEF WriteResult, ConsumerGoes
  <2>3. Alone(Consumer)
    BY <1>2, <1>3, <1>9, <2>1, <2>2
    DEF WriteResult, Alone, Off, tables, history, counters, At, queue
  <2>4. ConsumerMove
    BY <1>9, <2>2 DEF WriteResult, ConsumerMove, Off, Working, tables, history, counters, At, queue
  <2>5. HandledIsThere'
    BY <1>0, <1>9, <2>2
    DEF WriteResult, HandledIsThere, Handling, Events, tables, history, counters, At, queue
  <2>6. OverTaskHasResult'
    BY <1>0, <1>9, <2>2 DEF WriteResult, OverTaskHasResult, tables, history, counters, At, queue
  <2>. QED  BY <2>3, <2>4, <2>5, <2>6, ConsumerMoves
<1>10. CASE TakeResult
  <2>1. \A v \in Workers : v # Consumer => worker'[v] = worker[v]
    BY <1>1, <1>10 DEF TakeResult, ConsumerGoes
  <2>2. worker'[Consumer].pc \in {"deliver"}
    BY <1>1, <1>10, NowType DEF TakeResult, ConsumerGoes
  <2>3. Alone(Consumer)
    BY <1>2, <1>3, <1>10, <2>1, <2>2
    DEF TakeResult, Alone, Off, Events, tables, history, counters, At, queue
  <2>4. ConsumerMove
    BY <1>10, <2>2 DEF TakeResult, ConsumerMove, Off, Working, tables, history, counters, At, queue
  <2>5. HandledIsThere'
    BY <1>0, <1>10, <2>2
    DEF TakeResult, HandledIsThere, Handling, Events, tables, history, counters, At, queue
  <2>6. OverTaskHasResult'
    BY <1>0, <1>10, <2>2 DEF TakeResult, OverTaskHasResult, tables, history, counters, At, queue
  <2>. QED  BY <2>3, <2>4, <2>5, <2>6, ConsumerMoves
<1>11. ASSUME NEW f \in Followers, RefuseFollower(f)
       PROVE  Rest'
  <2>1. \A v \in Workers : v # Consumer => worker'[v] = worker[v]
    BY <1>11 DEF RefuseFollower
  <2>2. worker[Consumer].pc = "deliver" /\ worker'[Consumer].pc = "deliver"
    BY <1>11 DEF RefuseFollower, At
  <2>3. Alone(Consumer)
    BY <1>2, <1>3, <1>11, <2>1, <2>2
    DEF RefuseFollower, Alone, Off, tables, history, counters, At, queue
  <2>4. ConsumerMove
    BY <1>11, <2>2
    DEF RefuseFollower, ConsumerMove, Off, Working, tables, history, counters, At, queue
  <2>5. HandledIsThere'
    BY <1>0, <1>11, <2>2
    DEF RefuseFollower, HandledIsThere, Handling, Events, tables, history, counters, At, queue
  <2>6. OverTaskHasResult'
    BY <1>0, <1>11, <2>2 DEF RefuseFollower, OverTaskHasResult, tables, history, counters, At, queue
  <2>. QED  BY <2>3, <2>4, <2>5, <2>6, ConsumerMoves
<1>12. ASSUME NEW f \in Followers, SendFollower(f)
       PROVE  Rest'
  <2>1. \A v \in Workers : v # Consumer => worker'[v] = worker[v]
    BY <1>1, <1>12 DEF SendFollower, Thread
  <2>2. worker'[Consumer].pc \in {"sent"}
    <3>1. worker'[Consumer] = Thread("sent", NoJob, f)
      BY <1>1, <1>12 DEF SendFollower
    <3>. QED  BY <3>1 DEF Thread
  <2>3. worker'[Consumer].outcome = f
    BY <1>1, <1>12 DEF SendFollower, Thread
  <2>4. Alone(Consumer)
    BY <1>2, <1>3, <1>12, <2>1, <2>2, <2>3
    DEF SendFollower, Alone, Off, tables, history, counters, At, queue
  <2>5. ConsumerMove
    BY <1>12, <2>2, <2>3
    DEF SendFollower, ConsumerMove, Off, Working, tables, history, counters, At, queue
  <2>6. HandledIsThere'
    BY <1>0, <1>12, <2>2
    DEF SendFollower, HandledIsThere, Handling, Events, tables, history, counters, At, queue
  <2>7. OverTaskHasResult'
    BY <1>0, <1>12, <2>2 DEF SendFollower, OverTaskHasResult, tables, history, counters, At, queue
  <2>. QED  BY <2>4, <2>5, <2>6, <2>7, ConsumerMoves
<1>13. CASE MarkFollower
  <2>1. \A v \in Workers : v # Consumer => worker'[v] = worker[v]
    BY <1>1, <1>13 DEF MarkFollower, ConsumerGoes
  <2>2. worker'[Consumer].pc \in {"deliver"}
    BY <1>1, <1>13, NowType DEF MarkFollower, ConsumerGoes
  <2>3. Alone(Consumer)
    BY <1>2, <1>3, <1>13, <2>1, <2>2
    DEF MarkFollower, Alone, Off, tables, history, counters, At, queue
  <2>4. ConsumerMove
    BY <1>13, <2>2
    DEF MarkFollower, ConsumerMove, Off, Working, tables, history, counters, At, queue
  <2>5. HandledIsThere'
    BY <1>0, <1>13, <2>2
    DEF MarkFollower, HandledIsThere, Handling, Events, tables, history, counters, At, queue
  <2>6. OverTaskHasResult'
    BY <1>0, <1>13, <2>2 DEF MarkFollower, OverTaskHasResult, tables, history, counters, At, queue
  <2>. QED  BY <2>3, <2>4, <2>5, <2>6, ConsumerMoves
<1>14. CASE DeliveryDone
  <2>1. \A v \in Workers : v # Consumer => worker'[v] = worker[v]
    BY <1>1, <1>14 DEF DeliveryDone, ConsumerGoes
  <2>2. worker'[Consumer].pc \in {"ack-result"}
    BY <1>1, <1>14, NowType DEF DeliveryDone, ConsumerGoes
  <2>3. Alone(Consumer)
    BY <1>2, <1>3, <1>14, <2>1, <2>2
    DEF DeliveryDone, Alone, Off, tables, history, counters, At, queue
  <2>4. ConsumerMove
    BY <1>14, <2>2
    DEF DeliveryDone, ConsumerMove, Off, Working, tables, history, counters, At, queue
  <2>5. HandledIsThere'
    BY <1>0, <1>14, <2>2
    DEF DeliveryDone, HandledIsThere, Handling, Events, tables, history, counters, At, queue
  <2>6. OverTaskHasResult'
    BY <1>0, <1>14, <2>2 DEF DeliveryDone, OverTaskHasResult, tables, history, counters, At, queue
  <2>. QED  BY <2>3, <2>4, <2>5, <2>6, ConsumerMoves
<1>15. ASSUME NEW e \in Events, Acknowledge(e)
       PROVE  Rest'
  <2>1. \A v \in Workers : v # Consumer => worker'[v] = worker[v]
    BY <1>1, <1>15 DEF Acknowledge, Idle
  <2>2. worker'[Consumer].pc \in {"idle"}
    BY <1>1, <1>15, NowType DEF Acknowledge, Idle
  <2>3. worker[Consumer].pc \in {"ack-created", "ack-result"}
    BY <1>15 DEF Acknowledge, Events, At
  <2>4. Alone(Consumer)
    BY <1>2, <1>15, <2>1, <2>2, <2>3 DEF Acknowledge, Alone, Off, tables, counters, At, queue
  <2>5. ConsumerMove
    BY <1>15, <2>2, <2>3 DEF Acknowledge, ConsumerMove, Off, Working, tables, history, queue
  <2>6. HandledIsThere'
    BY <2>2 DEF HandledIsThere, Handling, Events, At
  <2>7. OverTaskHasResult'
    BY <1>0, <1>15, <2>2, <2>3
    DEF Acknowledge, OverTaskHasResult, tables, history, counters, At, queue
  <2>. QED  BY <2>4, <2>5, <2>6, <2>7, ConsumerMoves
<1>. QED
  BY <1>4, <1>5, <1>6, <1>7, <1>8, <1>9, <1>10, <1>11, <1>12, <1>13, <1>14, <1>15
  DEF ConsumerStep, DeliveryStep

(* A step of somebody who is no thread.                                    *)
LEMMA OtherSteps ==
  ASSUME IInv, OtherStep, Hold
  PROVE  Rest'
<1>0. /\ TypeOK /\ OutcomesAreKnown /\ HandledIsThere /\ BackgroundIsApart /\ QuietBeforeJob
      /\ StrangersKeepOff /\ ConsumerAlone /\ OneTurn /\ CompletedIsInHand /\ OverTaskHasResult
      /\ job \in JobRows
  BY DEF IInv, TypeOK
<1>1. UNCHANGED <<worker, turns, early, faults, inbox>> /\ Interrupted' = Interrupted
  BY DEF OtherStep, SenderStep, OperatorStep, SendJob, SendTask, SendEvent, SendFails, Publish,
         Redeliver, Unfollow, Follow, Snapshot, CancelRun, CancelJob, LoadTask, CancelTask,
         WriteCancelled, Expire, tables, threads, history, counters, Interrupted
<1>2. /\ \A e \in Events : mail[e] > 0 => mail'[e] > 0
      /\ written => written'
  <2>1. ASSUME NEW e \in Events, mail' = [mail EXCEPT ![e] = @ + 1]
        PROVE  \A d \in Events : mail[d] > 0 => mail'[d] > 0
    BY <1>0, <2>1 DEF TypeOK
  <2>2. UNCHANGED mail \/ \E e \in Events : mail' = [mail EXCEPT ![e] = @ + 1]
    BY DEF OtherStep, SenderStep, OperatorStep, SendJob, SendTask, SendEvent, SendFails, Publish,
           Redeliver, Unfollow, Follow, Snapshot, CancelRun, CancelJob, LoadTask, CancelTask,
           WriteCancelled, Expire, queue
  <2>3. written => written'
    BY DEF OtherStep, SenderStep, OperatorStep, SendJob, SendTask, SendEvent, SendFails, Publish,
           Redeliver, Unfollow, Follow, Snapshot, CancelRun, CancelJob, LoadTask, CancelTask,
           WriteCancelled, Expire, history
  <2>. QED  BY <2>1, <2>2, <2>3
<1>3. /\ job'.status \in JobOver \cup {job.status} \/ (SendJob /\ turns = 0)
      /\ job'.status = "completed" => job.status = "completed"
  <2>1. CASE SendJob
    BY <1>0, <2>1, NoJobType, RowsAre DEF SendJob, Sends, QuietBeforeJob
  <2>2. CASE CancelJob
    BY <1>0, <2>2, RowsAre DEF CancelJob, TypeOK, Operators, JobOver
  <2>3. CASE Expire
    BY <1>0, <2>3 DEF Expire, JobRows
  <2>4. CASE UNCHANGED job
    BY <2>4
  <2>. QED
    BY <2>1, <2>2, <2>3, <2>4
    DEF OtherStep, SenderStep, OperatorStep, SendTask, SendEvent, SendFails, Publish, Redeliver,
        Unfollow, Follow, Snapshot, CancelRun, LoadTask, CancelTask, WriteCancelled, tables, queue
<1>4. OutcomesAreKnown' /\ BackgroundIsApart' /\ ConsumerAlone' /\ HandledIsThere'
  BY <1>0, <1>1, <1>2
  DEF OutcomesAreKnown, BackgroundIsApart, ConsumerAlone, HandledIsThere, Handling, At
<1>5. StrangersKeepOff'
  BY <1>0, <1>1 DEF StrangersKeepOff, Hold, Off
<1>6. OneTurn'
  BY <1>0, <1>1, <1>3 DEF OneTurn, TypeOK
<1>7. CompletedIsInHand'
  BY <1>0, <1>1, <1>3 DEF CompletedIsInHand
<1>8. OverTaskHasResult'
  <2>1. CASE task' = task /\ canceller' = canceller
    BY <1>0, <1>1, <1>2, <2>1 DEF OverTaskHasResult, At
  <2>2. CASE SendTask
    BY <1>0, <2>2 DEF SendTask, OverTaskHasResult, TaskOver
  <2>3. CASE LoadTask \/ CancelTask \/ WriteCancelled
    BY <1>0, <1>1, <2>3
    DEF LoadTask, CancelTask, WriteCancelled, OverTaskHasResult, tables, history, At, queue
  <2>. QED
    BY <2>1, <2>2, <2>3
    DEF OtherStep, SenderStep, OperatorStep, SendJob, SendEvent, SendFails, Publish, Redeliver,
        Unfollow, Follow, Snapshot, CancelRun, CancelJob, Expire, tables, threads, queue
<1>9. QuietBeforeJob'
  <2>1. SUFFICES ASSUME sender' = "job"
                 PROVE  QuietBeforeJob'
    BY DEF QuietBeforeJob
  <2>2. sender = "job" /\ ~ SenderStep /\ ~ SendFails
    BY <2>1, SenderIs
    DEF OtherStep, SenderStep, OperatorStep, SendJob, SendTask, SendEvent, Sends, SendOrder,
        SendFails, Publish, Redeliver, Unfollow, Follow, Snapshot, CancelRun, CancelJob, LoadTask,
        CancelTask, WriteCancelled, Expire, tables, threads, queue
  <2>3. /\ job = NoJob /\ run = "none" /\ task = "none" /\ operator = Resting
        /\ canceller = "rest" /\ list = {} /\ turns = 0
        /\ \A w \in Workers : At(w, "idle")
        /\ rows = {} /\ \A e \in Events : mail[e] = 0
    BY <1>0, <2>2 DEF QuietBeforeJob
  <2>4. \E f \in Followers : Unfollow(f) \/ \E only \in BOOLEAN : Follow(f, only)
    BY <2>2, <2>3, ConsumerIs
    DEF OtherStep, OperatorStep, Publish, Redeliver, Handling, Snapshot, CancelRun, CancelJob,
        LoadTask, CancelTask, WriteCancelled, Expire, NoJob, Resting, Unfinished, At
  <2>. QED
    BY <2>3, <2>4 DEF Unfollow, Follow, FollowersMatter, TaskOver
<1>. QED  BY <1>4, <1>5, <1>6, <1>7, <1>8, <1>9 DEF Rest

LEMMA CrashStep ==
  ASSUME IInv, NEW claimed \in SUBSET Events, Crash(claimed), Hold
  PROVE  Rest'
<1>1. \A w \in Workers : worker'[w].pc = "idle"
  BY NowType DEF Crash, Idle
<1>2. Interrupted'
  BY DEF Crash, Interrupted
<1>3. sender' # "job"
  BY DEF Crash, SendOrder
<1>4. OutcomesAreKnown' /\ BackgroundIsApart' /\ ConsumerAlone' /\ StrangersKeepOff'
  BY <1>1, ConsumerIs
  DEF OutcomesAreKnown, BackgroundIsApart, BackgroundPcs, ConsumerAlone, StrangersKeepOff, Off
<1>5. HandledIsThere'
  BY <1>1, ConsumerIs DEF HandledIsThere, Handling, At
<1>6. QuietBeforeJob'
  BY <1>3 DEF QuietBeforeJob
<1>7. OneTurn' /\ CompletedIsInHand' /\ OverTaskHasResult'
  BY <1>2 DEF OneTurn, CompletedIsInHand, OverTaskHasResult
<1>. QED  BY <1>4, <1>5, <1>6, <1>7 DEF Rest

(* Where a failing call may leave a thread.                                *)
LEMMA FailureLeaves ==
  ASSUME TypeOK, CallFails
  PROVE  /\ \A w \in Workers :
              \/ worker'[w] = worker[w]
              \/ /\ worker'[w].pc \in {"idle", "error", "ack-created", "ack-result", "stopped"}
                 /\ w = Consumer => worker'[w].pc # "idle"
                 /\ w \in Background => worker'[w].pc = "idle"
         /\ "call" \in faults' /\ faults \subseteq faults'
         /\ UNCHANGED <<job, task, inbox, follower, mail, sender, turns, early, written, got>>
<1>1. ASSUME NEW w \in Background, BackgroundFails(w)
      PROVE  \A v \in Workers : worker'[v] = worker[v] \/ (v = w /\ worker'[v].pc = "idle")
  <2>1. worker'[w] = Idle /\ \A v \in Workers : v # w => worker'[v] = worker[v]
    BY <1>1, Frame, ConsumerIs DEF BackgroundFails
  <2>. QED  BY <2>1, NowType DEF Idle
<1>2. ASSUME NEW pc \in {"error", "ack-created", "ack-result", "stopped"}, ConsumerGoes(pc)
      PROVE  worker'[Consumer].pc = pc /\ \A v \in Workers : v # Consumer => worker'[v] = worker[v]
  <2>1. worker'[Consumer] = Now(pc) /\ \A v \in Workers : v # Consumer => worker'[v] = worker[v]
    BY <1>2, Frame, ConsumerIs DEF ConsumerGoes
  <2>. QED  BY <2>1, NowType
<1>3. AfterError(worker[Consumer].pc) \in {"error", "ack-created", "ack-result", "stopped"}
  BY DEF AfterError
<1>4. \A w \in Workers :
        \/ worker'[w] = worker[w]
        \/ /\ worker'[w].pc \in {"idle", "error", "ack-created", "ack-result", "stopped"}
           /\ w = Consumer => worker'[w].pc # "idle"
           /\ w \in Background => worker'[w].pc = "idle"
  <2>1. CASE \E w \in Background : BackgroundFails(w)
    BY <1>1, <2>1, ConsumerIs
  <2>2. CASE ConsumerFails \/ \E e \in Events : ConsumerCannotRead(e)
    BY <1>2, <1>3, <2>2, ConsumerIs DEF ConsumerFails, ConsumerCannotRead, Events
  <2>. QED
    BY <2>1, <2>2 DEF CallFails, CancellerFails, OperatorFails, PublisherStops, threads
<1>. QED
  BY <1>4
  DEF CallFails, BackgroundFails, ConsumerFails, ConsumerCannotRead, CancellerFails,
      OperatorFails, PublisherStops, tables, queue, threads, history

LEMMA FailureStep ==
  ASSUME IInv, CallFails, Hold
  PROVE  Rest'
<1>0. /\ TypeOK /\ OutcomesAreKnown /\ HandledIsThere /\ BackgroundIsApart /\ QuietBeforeJob
      /\ StrangersKeepOff /\ ConsumerAlone
  BY DEF IInv
<1>1. /\ \A w \in Workers :
           \/ worker'[w] = worker[w]
           \/ /\ worker'[w].pc \in {"idle", "error", "ack-created", "ack-result", "stopped"}
              /\ w = Consumer => worker'[w].pc # "idle"
              /\ w \in Background => worker'[w].pc = "idle"
      /\ "call" \in faults' /\ faults \subseteq faults'
      /\ UNCHANGED <<job, task, inbox, follower, mail, sender, turns, early, written, got>>
  BY <1>0, FailureLeaves
<1>2. OneTurn' /\ CompletedIsInHand' /\ OverTaskHasResult'
  BY <1>1 DEF OneTurn, CompletedIsInHand, OverTaskHasResult, Interrupted
<1>3. OutcomesAreKnown' /\ BackgroundIsApart' /\ ConsumerAlone'
  BY <1>0, <1>1, ConsumerIs
  DEF OutcomesAreKnown, BackgroundIsApart, BackgroundPcs, ConsumerAlone
<1>4. StrangersKeepOff'
  BY <1>0, <1>1 DEF StrangersKeepOff, Hold, Off
<1>5. HandledIsThere'
  <2>1. CASE ConsumerFails
    <3>1. worker'[Consumer].pc = AfterError(worker[Consumer].pc)
      <4>1. worker'[Consumer] = Now(AfterError(worker[Consumer].pc))
        BY <1>0, <2>1, Frame, ConsumerIs DEF ConsumerFails, ConsumerGoes
      <4>. QED  BY <4>1 DEF Now, Thread
    <3>. QED
      BY <1>0, <1>1, <2>1, <3>1
      DEF HandledIsThere, Handling, ConsumerFails, AfterError, Executing, At, Events
  <2>2. ASSUME NEW e \in Events, ConsumerCannotRead(e)
        PROVE  HandledIsThere'
    <3>1. worker'[Consumer].pc = [created |-> "ack-created", result |-> "ack-result"][e]
      <4>1. worker'[Consumer] = Now([created |-> "ack-created", result |-> "ack-result"][e])
        BY <1>0, <2>2, Frame, ConsumerIs DEF ConsumerCannotRead, ConsumerGoes
      <4>. QED  BY <4>1 DEF Now, Thread
    <3>2. mail[e] > 0
      BY <2>2 DEF ConsumerCannotRead
    <3>. QED  BY <1>1, <3>1, <3>2 DEF HandledIsThere, Handling, Events, At
  <2>3. CASE worker'[Consumer] = worker[Consumer]
    BY <1>0, <1>1, <2>3 DEF HandledIsThere, Handling, At
  <2>4. ASSUME NEW w \in Background, BackgroundFails(w)
        PROVE  worker'[Consumer] = worker[Consumer]
    BY <1>0, <2>4, Frame, ConsumerIs DEF BackgroundFails
  <2>. QED
    BY <2>1, <2>2, <2>3, <2>4 DEF CallFails, CancellerFails, OperatorFails, PublisherStops, threads
<1>6. QuietBeforeJob'
  <2>1. SUFFICES ASSUME sender = "job"
                 PROVE  QuietBeforeJob'
    BY <1>1 DEF QuietBeforeJob
  <2>2. /\ job = NoJob /\ run = "none" /\ task = "none" /\ operator = Resting
        /\ canceller = "rest" /\ turns = 0 /\ list = {} /\ rows = {}
        /\ \A w \in Workers : At(w, "idle")
        /\ \A e \in Events : mail[e] = 0
    BY <1>0, <2>1 DEF QuietBeforeJob
  <2>3. \E claimed \in SUBSET Events : PublisherStops(claimed)
    BY <2>2, ConsumerIs
    DEF CallFails, BackgroundFails, ConsumerFails, ConsumerCannotRead, CancellerFails,
        OperatorFails, Resting, At
  <2>. QED  BY <2>2, <2>3 DEF PublisherStops, QuietBeforeJob, tables, threads, history, At
<1>. QED  BY <1>2, <1>3, <1>4, <1>5, <1>6 DEF Rest

LEMMA InvStep ==
  ASSUME IInv, [Next]_vars
  PROVE  IInv'
<1>1. TypeOK'
  BY TypeStep
<1>2. ASSUME UNCHANGED vars
      PROVE  Rest'
  BY <1>2
  DEF IInv, Rest, OutcomesAreKnown, HandledIsThere, BackgroundIsApart, QuietBeforeJob,
      StrangersKeepOff, ConsumerAlone, OneTurn, CompletedIsInHand, OverTaskHasResult, vars, tables,
      threads, history, counters, Handling, At, queue, Interrupted
<1>3. Rest'
  BY <1>2, TurnSteps, ConsumerSteps, OtherSteps, CrashStep, FailureStep, ConsumerIs
  DEF Next, OtherStep
<1>. QED  BY <1>1, <1>3 DEF IInv, Rest

LEMMA InvInit ==
  ASSUME Init
  PROVE  IInv
<1>1. \A w \in Workers : worker[w] = Idle /\ worker[w].pc = "idle"
  BY NowType DEF Init, Idle
<1>2. TypeOK
  <2>1. /\ Idle \in Threads /\ NoJob \in JobRows /\ NoFollower \in FollowerRows
        /\ Resting \in Operators
    BY NowType, NoJobType DEF Idle, NoFollower, FollowerRows, Resting, Operators, Runs
  <2>2. /\ job \in JobRows /\ run \in Runs /\ task \in TaskOver \cup {"none", "queued", "running"}
        /\ follower \in [Followers -> FollowerRows] /\ worker \in [Workers -> Threads]
        /\ operator \in Operators
    BY <2>1 DEF Init, Runs
  <2>3. mail \in [Events -> Nat] /\ got \in [Followers -> 0..2]
    BY DEF Init
  <2>4. sender \in DOMAIN SendOrder /\ troubles \in 0..MaxTroubles
    BY SenderIs, TasksAssumption DEF Init
  <2>5. /\ inbox = {} /\ list = {} /\ excused = {} /\ holders = {} /\ canceller = "rest"
        /\ rows = {} /\ unrecorded = {} /\ faults = {}
    BY DEF Init
  <2>6. turns \in 0..2
    BY DEF Init
  <2>7. early \in BOOLEAN /\ written \in BOOLEAN /\ publisher \in BOOLEAN
    BY Zenon DEF Init
  <2>. QED  BY <2>2, <2>3, <2>4, <2>5, <2>6, <2>7 DEF TypeOK
<1>3. OutcomesAreKnown /\ BackgroundIsApart /\ StrangersKeepOff /\ ConsumerAlone
  BY <1>1, ConsumerIs
  DEF OutcomesAreKnown, BackgroundIsApart, BackgroundPcs, StrangersKeepOff, ConsumerAlone, Off
<1>4. HandledIsThere /\ QuietBeforeJob
  BY <1>1, ConsumerIs DEF Init, HandledIsThere, Handling, QuietBeforeJob, At
<1>5. OneTurn /\ CompletedIsInHand /\ OverTaskHasResult
  BY <1>1, ConsumerIs, NoJobType
  DEF Init, OneTurn, CompletedIsInHand, OverTaskHasResult, TaskOver
<1>. QED  BY <1>2, <1>3, <1>4, <1>5 DEF IInv

-----------------------------------------------------------------------------
(* Theorems.                                                               *)

(* Everything above holds of every reachable state.                        *)
THEOREM AgentTasksInvariant == Spec => []IInv
<1>1. Init => IInv
  BY InvInit
<1>2. IInv /\ [Next]_vars => IInv'
  BY InvStep
<1>. QED  BY <1>1, <1>2, PTL DEF Spec

(* The state of a message stays within its types.                          *)
THEOREM AgentTasksTypeOK == Spec => []TypeOK
<1>1. IInv => TypeOK
  BY DEF IInv
<1>. QED  BY <1>1, AgentTasksInvariant, PTL

(* With the event bus required, a job has a second turn only if the daemon *)
(* died, a call of the first failed or a background thread looked before   *)
(* the task was registered, and two turns at a time only in the last case: *)
(* neither the number of pumping threads nor repeated deliveries nor       *)
(* expired leases matter.                                                  *)
THEOREM TurnsHaveACause == ASSUME EventBusRequired PROVE Spec => []TurnsAreExplained
<1>1. ASSUME IInv
      PROVE  TurnsAreExplained
  <2>1. SecondTurnHasACause
    BY <1>1 DEF IInv, TypeOK, OneTurn, SecondTurnHasACause
  <2>2. ASSUME ~ early
        PROVE  ~ Cardinality(InTurn) > 1
    <3>1. InTurn \subseteq {Consumer}
      BY <1>1, <2>2, ConsumerIs DEF IInv, ConsumerAlone, InTurn
    <3>2. IsFiniteSet({Consumer}) /\ Cardinality({Consumer}) = 1
      BY FS_Singleton
    <3>3. Cardinality(InTurn) \in Nat /\ Cardinality(InTurn) <= 1
      BY <3>1, <3>2, FS_Subset, FS_CardinalityType
    <3>. QED  BY <3>3
  <2>. QED  BY <2>1, <2>2 DEF TurnsAreExplained, OneTurnAtATime
<1>. QED  BY <1>1, AgentTasksInvariant, PTL

(* A task that is over has had its result event written, and a completed   *)
(* job nobody works on has told the session that asked, unless the daemon  *)
(* died or a store call failed (or, of a task, its turn ended in an error, *)
(* which writes no event).                                                 *)
THEOREM EndsAreTold == Spec => []EndsAreReported
<1>1. ASSUME IInv
      PROVE  EndsAreReported
  <2>1. CompletionIsTold
    <3>1. ASSUME job.status = "completed", Engaged = {}
          PROVE  "completed" \in inbox \/ Interrupted
      <4>1. \A w \in Workers : worker[w].pc = "idle"
        BY <3>1 DEF Engaged, At
      <4>. QED  BY <1>1, <3>1, <4>1 DEF IInv, CompletedIsInHand, Telling, Working
    <3>. QED  BY <3>1 DEF CompletionIsTold
  <2>. QED  BY <1>1, <2>1 DEF IInv, EndsAreReported
<1>. QED  BY <1>1, AgentTasksInvariant, PTL

(* A cancelled job is written over only by a thread that had it in hand    *)
(* when it was cancelled, of any number of threads.                        *)
THEOREM CancelledJobIsRevivedByItsHolder == Spec => RevivalNeedsAHolder
<1>1. ASSUME IInv, Next, job.status = "cancelled", job'.status # "cancelled"
      PROVE  \E w \in holders : worker'[w] # worker[w]
  <2>0. job \in JobRows /\ TypeOK
    BY <1>1 DEF IInv, TypeOK
  <2>1. ASSUME NEW w \in Workers, Claim(w) \/ StartJob(w) \/ Settle(w)
        PROVE  w \in holders /\ worker'[w] # worker[w]
    <3>1. worker[w].pc \in {"claiming", "start", "settle"}
      BY <2>1 DEF Claim, StartJob, Settle, At
    <3>2. w \in holders
      BY <1>1, <3>1, WorkersHold DEF Working
    <3>3. worker'[w].pc # worker[w].pc
      BY <2>0, <2>1, Frame, NowType
      DEF Claim, StartJob, Settle, Goes, Idle, At, TypeOK, Threads
    <3>. QED  BY <3>2, <3>3
  <2>2. \E w \in Workers : Claim(w) \/ StartJob(w) \/ Settle(w)
    <3>1. CASE \E w \in Background : BackgroundStep(w)
      BY <1>1, <2>0, <3>1, RowsAre
      DEF BackgroundStep, ListJob, CancelListed, CheckDefer, tables, queue
    <3>2. CASE ConsumerStep
      BY <1>1, <2>0, <3>2, RowsAre
      DEF ConsumerStep, DeliveryStep, TakeCreated, ExecuteTask, ReloadJob, RecordError, RecordTask,
          WriteResult, TakeResult, RefuseFollower, SendFollower, MarkFollower, DeliveryDone,
          Acknowledge, tables, queue
    <3>3. CASE \E w \in Workers : TurnStep(w)
      BY <1>1, <3>3
      DEF TurnStep, LoadForClaim, StartRun, LastCheck, EndTurn, LookForCancel, Tell, tables, queue
    <3>4. CASE OtherStep
      <4>1. CASE SendJob
        BY <1>1, <4>1, NoJobType DEF SendJob, Sends, IInv, QuietBeforeJob
      <4>2. CASE CancelJob
        BY <1>1, <2>0, <4>2, RowsAre DEF CancelJob, TypeOK, Operators
      <4>3. CASE Expire
        BY <1>1, <2>0, <4>3 DEF Expire, JobRows
      <4>. QED
        BY <1>1, <3>4, <4>1, <4>2, <4>3
        DEF OtherStep, SenderStep, OperatorStep, SendTask, SendEvent, SendFails, Publish, Redeliver,
            Unfollow, Follow, Snapshot, CancelRun, LoadTask, CancelTask, WriteCancelled, tables,
            queue
    <3>5. CASE CallFails \/ \E claimed \in SUBSET Events : Crash(claimed)
      BY <1>1, <2>0, <3>5, FailureLeaves DEF Crash
    <3>. QED  BY <1>1, <3>1, <3>2, <3>3, <3>4, <3>5 DEF Next, OtherStep
  <2>. QED  BY <2>1, <2>2
<1>2. IInv /\ [Next]_vars => [job.status = "cancelled" /\ job'.status # "cancelled"
                                => \E w \in holders : worker'[w] # worker[w]]_vars
  BY <1>1
<1>. QED  BY <1>2, AgentTasksInvariant, PTL DEF Spec, RevivalNeedsAHolder
-----------------------------------------------------------------------------
(* FollowersAreServedOnce and ToldIsFinal: the delivery of the result.     *)

InHand == Working \cup {"taken", "reload", "record", "error"}
Delivering == {"deliver", "sent", "ack-result"}

(* The sender makes the task, once; the consumer that has it in hand found *)
(* it not over, and only a cancellation overtakes it.                      *)
TaskComesFirst ==
  /\ sender \in {"job", "task"} => task = "none"
  /\ task = "none" => canceller = "rest"
TaskIsInHand == worker[Consumer].pc \in InHand => task \in {"running", "cancelled"}

WrittenBeforeDelivered == Announced("result") => written

(* Who was sent the result is marked, or about to be; who is on the list   *)
(* was not sent it, but for the one that is about to be marked.            *)
Marks(f) == At(Consumer, "sent") /\ worker[Consumer].outcome = f
SentOnce ==
  \A f \in Followers \ unrecorded :
    /\ got[f] <= 1
    /\ got[f] > 0 => follower[f].delivered \/ Marks(f)
    /\ f \in list /\ ~ Marks(f) => got[f] = 0

(* Nothing is owed to a target, and what may be owed while a delivery is   *)
(* handled is on the list, or comes with the next delivery.                *)
NothingOwed(f) ==
  follower[f].enabled =>
    \/ follower[f].delivered \/ f \in excused \/ "result" \in faults
    \/ follower[f].errorsOnly /\ (task = "completed" \/ Interrupted \/ canceller = "event")
ComesAgain == "result" \in rows \/ mail["result"] > 1
DebtsAreListed ==
  /\ written /\ ~ Announced("result") => \A f \in Followers : NothingOwed(f)
  /\ worker[Consumer].pc \in Delivering =>
       \A f \in Followers : NothingOwed(f) \/ f \in list \/ ComesAgain
  /\ At(Consumer, "ack-result") => list = {}

(* With the consumer alone at work, the turn it saw ended is over, and so  *)
(* is a task whose result is written, for good.                            *)
TurnIsOver ==
  EventBusRequired /\ ~ early =>
    /\ worker[Consumer].pc \in {"tell", "reload"} => job.status \in JobOver
    /\ At(Consumer, "record") => worker[Consumer].copy.status \in JobOver
OverForGood ==
  EventBusRequired /\ ~ early /\ (written \/ At(Consumer, "result") \/ canceller = "event")
    => task \in TaskOver
ToldAtLast ==
  EventBusRequired /\ ~ early =>
    \A f \in Followers :
      got[f] > 0 =>
        written /\ worker[Consumer].pc \in Delivering \cup {"idle", "ack-created", "stopped"}

DeliveryInv ==
  /\ TaskComesFirst /\ TaskIsInHand /\ WrittenBeforeDelivered
  /\ SentOnce /\ DebtsAreListed
  /\ TurnIsOver /\ OverForGood /\ ToldAtLast

(* What the steps of a turn, and of a thread that looks for jobs, leave to *)
(* the delivery of the result.                                             *)
LEMMA TurnLeaves ==
  ASSUME IInv, NEW w \in Workers, TurnStep(w) \/ (w \in Background /\ BackgroundStep(w))
  PROVE  /\ UNCHANGED <<task, follower, rows, mail, sender, canceller, list, written, got, excused,
                        unrecorded, faults>>
         /\ early => early'
         /\ w # Consumer => worker'[Consumer] = worker[Consumer]
         /\ w = Consumer =>
              /\ worker[w].pc \in Working /\ worker'[w].pc \in Working \cup {"reload", "error"}
              /\ worker'[w].pc \in {"tell", "reload"}
                   => job'.status \in JobOver \/ (worker[w].pc = "tell" /\ job' = job)
<1>0. /\ TypeOK /\ worker[w] \in Threads /\ worker[w].copy \in JobRows
      /\ worker[w].pc = "settle" => worker[w].outcome \in JobOver
  BY DEF IInv, TypeOK, OutcomesAreKnown, Threads
<1>1. /\ UNCHANGED <<task, follower, rows, mail, sender, canceller, list, written, got, excused,
                     unrecorded, faults>>
      /\ early => early'
  BY DEF TurnStep, BackgroundStep, ListJob, CancelListed, CheckDefer, LoadForClaim, Claim,
         StartRun, StartJob, LastCheck, EndTurn, LookForCancel, Settle, Tell, tables, history,
         counters, queue
<1>2. PICK t : worker' = [worker EXCEPT ![w] = t]
  <2>1. ASSUME NEW pc, Goes(w, pc)
        PROVE  \E t : worker' = [worker EXCEPT ![w] = t]
    BY <2>1 DEF Goes
  <2>2. ASSUME NEW pc, NEW outcome, Leaves(w, pc, outcome)
        PROVE  \E t : worker' = [worker EXCEPT ![w] = t]
    BY <2>2 DEF Leaves
  <2>. QED
    BY <2>1, <2>2
    DEF TurnStep, BackgroundStep, ListJob, CancelListed, CheckDefer, LoadForClaim, Claim,
        StartRun, StartJob, LastCheck, EndTurn, LookForCancel, Settle, Tell
<1>3. worker'[w] = t /\ (w # Consumer => worker'[Consumer] = worker[Consumer])
  BY <1>0, <1>2, Frame, ConsumerIs
<1>4. ASSUME w = Consumer
      PROVE  /\ worker[w].pc \in Working /\ worker'[w].pc \in Working \cup {"reload", "error"}
             /\ worker'[w].pc \in {"tell", "reload"}
                  => job'.status \in JobOver \/ (worker[w].pc = "tell" /\ job' = job)
  <2>1. TurnStep(w) /\ worker[w].pc \in Working
    BY <1>4, ConsumerIs
    DEF TurnStep, LoadForClaim, Claim, StartRun, StartJob, LastCheck, EndTurn, LookForCancel,
        Settle, Tell, At, Working
  <2>2. CASE Settle(w)
    <3>1. worker'[w].pc \in {"tell", "error"}
      <4>1. worker'[w] \in {Now("tell"), Now("error")}
        BY <1>0, <1>4, <2>2, Frame DEF Settle
      <4>. QED  BY <4>1 DEF Now, Thread
    <3>2. job'.status \in JobOver
      BY <1>0, <2>2, SettledIs DEF Settle, At
    <3>. QED  BY <2>1, <3>1, <3>2 DEF Working
  <2>3. CASE Tell(w)
    <3>1. worker'[w].pc = "reload"
      <4>1. worker'[w] = Now("reload")
        BY <1>0, <1>4, <2>3, Frame DEF Tell
      <4>. QED  BY <4>1 DEF Now, Thread
    <3>. QED  BY <2>1, <2>3, <3>1 DEF Tell, At
  <2>4. ASSUME NEW pc \in {"turn", "asking"}, Goes(w, pc)
        PROVE  worker'[w].pc \in Working \ {"tell"}
    <3>1. worker' = [worker EXCEPT ![w] = [worker[w] EXCEPT !.pc = pc]]
      BY <2>4 DEF Goes
    <3>2. worker'[w] = [worker[w] EXCEPT !.pc = pc]
      BY <1>0, <3>1, Frame
    <3>. QED  BY <1>0, <3>2 DEF Threads, Working
  <2>5. ASSUME NEW pc \in {"failing", "settle"}, NEW outcome, Leaves(w, pc, outcome)
        PROVE  worker'[w].pc \in Working \ {"tell"}
    <3>1. worker'[w] = Thread(pc, worker[w].copy, outcome)
      BY <1>0, <2>5, Frame DEF Leaves
    <3>. QED  BY <3>1 DEF Thread, Working
  <2>6. CASE StartJob(w) \/ LastCheck(w) \/ EndTurn(w) \/ LookForCancel(w)
    <3>1. worker'[w].pc \in Working \ {"tell"}
      BY <2>4, <2>5, <2>6 DEF StartJob, LastCheck, EndTurn, LookForCancel
    <3>. QED  BY <2>1, <3>1 DEF Working
  <2>7. CASE LoadForClaim(w) \/ Claim(w) \/ StartRun(w)
    <3>1. \E pc \in {"claiming", "load", "start"} : \E copy, outcome :
            worker'[w] = Thread(pc, copy, outcome)
      BY <1>0, <2>7, Frame DEF LoadForClaim, Claim, StartRun, Now
    <3>2. worker'[w].pc \in {"claiming", "load", "start"}
      BY <3>1 DEF Thread
    <3>. QED  BY <2>1, <3>2 DEF Working
  <2>. QED  BY <2>1, <2>2, <2>3, <2>6, <2>7 DEF TurnStep
<1>. QED  BY <1>1, <1>3, <1>4

LEMMA TurnKeepsDelivery ==
  ASSUME IInv, DeliveryInv, NEW w \in Workers,
         TurnStep(w) \/ (w \in Background /\ BackgroundStep(w))
  PROVE  DeliveryInv'
<1>1. /\ UNCHANGED <<task, follower, rows, mail, sender, canceller, list, written, got, excused,
                     unrecorded, faults>>
      /\ early => early'
      /\ w # Consumer => worker'[Consumer] = worker[Consumer]
      /\ w = Consumer =>
           /\ worker[w].pc \in Working /\ worker'[w].pc \in Working \cup {"reload", "error"}
           /\ worker'[w].pc \in {"tell", "reload"}
                => job'.status \in JobOver \/ (worker[w].pc = "tell" /\ job' = job)
  BY TurnLeaves
<1>2. TaskComesFirst' /\ WrittenBeforeDelivered'
  BY <1>1 DEF DeliveryInv, TaskComesFirst, WrittenBeforeDelivered, Announced
<1>3. TaskIsInHand'
  BY <1>1 DEF DeliveryInv, TaskIsInHand, InHand
<1>4. \/ worker'[Consumer] = worker[Consumer]
      \/ /\ worker[Consumer].pc \in Working
         /\ worker'[Consumer].pc \in Working \cup {"reload", "error"}
  BY <1>1
<1>5. SentOnce'
  <2>1. \A f \in Followers : Marks(f)' <=> Marks(f)
    BY <1>4 DEF Marks, At, Working
  <2>. QED  BY <1>1, <2>1 DEF DeliveryInv, SentOnce
<1>6. DebtsAreListed'
  <2>1. \A f \in Followers : NothingOwed(f)' <=> NothingOwed(f)
    BY <1>1 DEF NothingOwed, Interrupted
  <2>2. /\ worker'[Consumer].pc \in Delivering => worker[Consumer].pc \in Delivering
        /\ At(Consumer, "ack-result")' => At(Consumer, "ack-result")
    BY <1>4 DEF At, Working, Delivering
  <2>. QED  BY <1>1, <2>1, <2>2 DEF DeliveryInv, DebtsAreListed, Announced, ComesAgain
<1>7. OverForGood' /\ ToldAtLast'
  <2>1. At(Consumer, "result")' => At(Consumer, "result")
    BY <1>4 DEF At, Working
  <2>2. OverForGood'
    BY <1>1, <2>1 DEF DeliveryInv, OverForGood
  <2>3. ASSUME EventBusRequired, ~ early', NEW f \in Followers, got'[f] > 0
        PROVE  /\ written'
               /\ worker'[Consumer].pc \in Delivering \cup {"idle", "ack-created", "stopped"}
    <3>1. written /\ worker[Consumer].pc \in Delivering \cup {"idle", "ack-created", "stopped"}
      BY <1>1, <2>3 DEF DeliveryInv, ToldAtLast
    <3>. QED  BY <1>1, <1>4, <3>1 DEF Working, Delivering
  <2>. QED  BY <2>2, <2>3 DEF ToldAtLast
<1>8. TurnIsOver'
  <2>. SUFFICES ASSUME EventBusRequired, ~ early'
                PROVE  /\ worker'[Consumer].pc \in {"tell", "reload"} => job'.status \in JobOver
                       /\ At(Consumer, "record")' => worker'[Consumer].copy.status \in JobOver
    BY DEF TurnIsOver
  <2>1. /\ worker[Consumer].pc \in {"tell", "reload"} => job.status \in JobOver
        /\ At(Consumer, "record") => worker[Consumer].copy.status \in JobOver
    BY <1>1 DEF DeliveryInv, TurnIsOver
  <2>2. CASE w = Consumer
    BY <1>1, <2>1, <2>2 DEF At, Working
  <2>3. CASE w # Consumer
    <3>1. worker'[Consumer] = worker[Consumer]
      BY <1>1, <2>3
    <3>2. BackgroundStep(w)
      <4>1. worker[w].pc \notin Working
        BY <1>1, <2>3, ConsumerIs DEF IInv, ConsumerAlone, Working
      <4>. QED
        BY <4>1
        DEF TurnStep, LoadForClaim, Claim, StartRun, StartJob, LastCheck, EndTurn, LookForCancel,
            Settle, Tell, At, Working
    <3>3. job' = job \/ job'.status = "cancelled"
      BY <3>2, RowsAre
      DEF BackgroundStep, ListJob, CancelListed, CheckDefer, tables, IInv, TypeOK, queue
    <3>. QED  BY <2>1, <3>1, <3>3 DEF At, JobOver
  <2>. QED  BY <2>2, <2>3
<1>. QED  BY <1>2, <1>3, <1>5, <1>6, <1>7, <1>8 DEF DeliveryInv

LEMMA ConsumerIsAt ==
  ASSUME TypeOK, NEW pc, ConsumerGoes(pc)
  PROVE  worker'[Consumer].pc = pc
<1>1. worker'[Consumer] = Now(pc)
  BY ConsumerIs, Frame DEF ConsumerGoes
<1>. QED  BY <1>1 DEF Now, Thread

(* A step that serves nobody, while none is served.                        *)
LEMMA OutsideDelivery ==
  ASSUME DeliveryInv,
         UNCHANGED <<follower, got, list, excused, unrecorded, faults, sender, canceller>>,
         worker[Consumer].pc \notin Delivering, worker'[Consumer].pc \notin Delivering,
         task' # task => task \notin {"none", "completed"} /\ task' # "none",
         worker'[Consumer].pc \in InHand => task' \in {"running", "cancelled"},
         \/ UNCHANGED <<rows, mail, written>>
         \/ "result" \in rows' /\ written'
  PROVE  TaskComesFirst' /\ TaskIsInHand' /\ WrittenBeforeDelivered' /\ SentOnce' /\ DebtsAreListed'
<1>1. TaskComesFirst'
  BY DEF DeliveryInv, TaskComesFirst
<1>2. TaskIsInHand' /\ WrittenBeforeDelivered'
  BY DEF DeliveryInv, TaskIsInHand, WrittenBeforeDelivered, Announced
<1>3. SentOnce'
  <2>1. \A f \in Followers : ~ Marks(f) /\ ~ Marks(f)'
    BY DEF Marks, At, Delivering
  <2>. QED  BY <2>1 DEF DeliveryInv, SentOnce
<1>4. DebtsAreListed'
  <2>1. ASSUME NEW f \in Followers, NothingOwed(f)
        PROVE  NothingOwed(f)'
    BY <2>1 DEF NothingOwed, Interrupted
  <2>2. written' /\ ~ Announced("result")' => \A f \in Followers : NothingOwed(f)'
    BY <2>1 DEF DeliveryInv, DebtsAreListed, Announced
  <2>. QED  BY <2>2 DEF DebtsAreListed, At, Delivering
<1>. QED  BY <1>1, <1>2, <1>3, <1>4

(* The consumer's steps that handle the task.                              *)
LEMMA TaskKeepsDelivery ==
  ASSUME IInv, DeliveryInv,
         TakeCreated \/ ExecuteTask \/ ReloadJob \/ RecordError \/ RecordTask \/ WriteResult
  PROVE  DeliveryInv'
<1>0. /\ TypeOK /\ job \in JobRows
      /\ mail["result"] \in Nat /\ mail["created"] \in Nat /\ mail \in [Events -> Nat]
      /\ TaskIsInHand /\ TurnIsOver /\ OverForGood /\ ToldAtLast
  BY DEF IInv, TypeOK, Events, DeliveryInv
<1>1. UNCHANGED <<follower, got, list, excused, unrecorded, faults, sender, canceller, early>>
  BY DEF TakeCreated, ExecuteTask, ReloadJob, RecordError, RecordTask, WriteResult, tables,
         history, counters, queue
<1>2. ASSUME Reads
      PROVE  worker'[Consumer].pc = "record" /\ worker'[Consumer].copy.status = job.status
  <2>. DEFINE seen == [NoJob EXCEPT !.status = job.status]
  <2>1. worker'[Consumer] = Thread("record", seen, "none")
    BY <1>0, <1>2, ConsumerIs, Frame DEF Reads
  <2>2. seen.status = job.status
    BY DEF NoJob
  <2>. HIDE DEF seen
  <2>. QED  BY <2>1, <2>2 DEF Thread
<1>3. CASE TakeCreated
  <2>1. /\ worker[Consumer].pc = "idle"
        /\ UNCHANGED <<job, rows, mail, written>>
        /\ \/ worker'[Consumer].pc = "ack-created" /\ task' = task
           \/ worker'[Consumer].pc = "taken" /\ task' = "running"
                /\ task \notin TaskOver \cup {"none"}
    BY <1>0, <1>3, ConsumerIsAt DEF TakeCreated, At, history, queue
  <2>2. task # "completed" \/ task' = task
    BY <2>1 DEF TaskOver
  <2>3. TaskComesFirst' /\ TaskIsInHand' /\ WrittenBeforeDelivered' /\ SentOnce' /\ DebtsAreListed'
    BY <1>1, <2>1, <2>2, OutsideDelivery DEF Delivering, InHand, Working
  <2>4. TurnIsOver' /\ OverForGood'
    BY <1>0, <1>1, <2>1 DEF TurnIsOver, OverForGood, At
  <2>5. ToldAtLast'
    BY <1>0, <1>1, <2>1 DEF ToldAtLast, OverForGood
  <2>. QED  BY <2>3, <2>4, <2>5 DEF DeliveryInv
<1>4. CASE ExecuteTask
  <2>1. /\ worker[Consumer].pc = "taken"
        /\ UNCHANGED <<task, rows, mail, written>>
        /\ \/ worker'[Consumer].pc = "record" /\ worker'[Consumer].copy.status \in JobOver
           \/ worker'[Consumer].pc = "reload" /\ job'.status = "cancelled"
           \/ worker'[Consumer].pc = "claim"
    BY <1>0, <1>2, <1>4, ConsumerIsAt, RowsAre DEF ExecuteTask, At, history, queue
  <2>2. task \in {"running", "cancelled"}
    BY <1>0, <2>1 DEF TaskIsInHand, InHand
  <2>3. TaskComesFirst' /\ TaskIsInHand' /\ WrittenBeforeDelivered' /\ SentOnce' /\ DebtsAreListed'
    BY <1>1, <2>1, <2>2, OutsideDelivery DEF Delivering
  <2>4. TurnIsOver' /\ OverForGood'
    BY <1>0, <1>1, <2>1 DEF TurnIsOver, OverForGood, At, JobOver
  <2>5. ToldAtLast'
    BY <1>0, <1>1, <2>1 DEF ToldAtLast, Delivering
  <2>. QED  BY <2>3, <2>4, <2>5 DEF DeliveryInv
<1>5. CASE ReloadJob
  <2>1. /\ worker[Consumer].pc = "reload" /\ worker'[Consumer].pc = "record"
        /\ worker'[Consumer].copy.status = job.status
        /\ UNCHANGED <<task, rows, mail, written>>
    BY <1>2, <1>5 DEF ReloadJob, At, tables, history, queue
  <2>2. task \in {"running", "cancelled"}
    BY <1>0, <2>1 DEF TaskIsInHand, InHand
  <2>3. TaskComesFirst' /\ TaskIsInHand' /\ WrittenBeforeDelivered' /\ SentOnce' /\ DebtsAreListed'
    BY <1>1, <2>1, <2>2, OutsideDelivery DEF Delivering
  <2>4. TurnIsOver' /\ OverForGood' /\ ToldAtLast'
    BY <1>0, <1>1, <2>1 DEF TurnIsOver, OverForGood, ToldAtLast, Delivering, At
  <2>. QED  BY <2>3, <2>4 DEF DeliveryInv
<1>6. CASE RecordError
  <2>1. /\ worker[Consumer].pc = "error" /\ worker'[Consumer].pc = "ack-created"
        /\ task' = "failed" /\ UNCHANGED <<rows, mail, written>>
    BY <1>0, <1>6, ConsumerIsAt DEF RecordError, At, history, queue
  <2>2. task \in {"running", "cancelled"}
    BY <1>0, <2>1 DEF TaskIsInHand, InHand
  <2>3. TaskComesFirst' /\ TaskIsInHand' /\ WrittenBeforeDelivered' /\ SentOnce' /\ DebtsAreListed'
    BY <1>1, <2>1, <2>2, OutsideDelivery DEF Delivering, InHand, Working
  <2>4. TurnIsOver' /\ OverForGood'
    BY <1>0, <1>1, <2>1 DEF TurnIsOver, OverForGood, At, TaskOver
  <2>5. ToldAtLast'
    BY <1>0, <1>1, <2>1 DEF ToldAtLast, Delivering
  <2>. QED  BY <2>3, <2>4, <2>5 DEF DeliveryInv
<1>7. CASE RecordTask
  <2>. DEFINE row == worker[Consumer].copy
  <2>1. /\ worker[Consumer].pc = "record" /\ UNCHANGED <<rows, mail, written>>
        /\ worker'[Consumer].pc \in {"result", "ack-created"}
        /\ task' = IF row.status \in JobOver THEN row.status ELSE "running"
        /\ row.status \notin JobOver => worker'[Consumer].pc = "ack-created"
    BY <1>0, <1>7, ConsumerIsAt DEF RecordTask, StatusFromJob, At, history, queue
  <2>2. task \in {"running", "cancelled"} /\ task' # "none"
    BY <1>0, <2>1 DEF TaskIsInHand, InHand, JobOver
  <2>3. TaskComesFirst' /\ TaskIsInHand' /\ WrittenBeforeDelivered' /\ SentOnce' /\ DebtsAreListed'
    BY <1>1, <2>1, <2>2, OutsideDelivery DEF Delivering, InHand, Working
  <2>4. TurnIsOver'
    BY <2>1 DEF TurnIsOver, At
  <2>5. EventBusRequired /\ ~ early => task' \in TaskOver
    BY <1>0, <2>1 DEF TurnIsOver, At, JobOver, TaskOver
  <2>6. OverForGood' /\ ToldAtLast'
    BY <1>0, <1>1, <2>1, <2>5 DEF OverForGood, ToldAtLast, Delivering
  <2>. QED  BY <2>3, <2>4, <2>6 DEF DeliveryInv
<1>8. CASE WriteResult
  <2>1. /\ worker[Consumer].pc = "result" /\ worker'[Consumer].pc = "ack-created"
        /\ task' = task /\ written' /\ "result" \in rows'
    BY <1>0, <1>8, ConsumerIsAt DEF WriteResult, At, tables
  <2>2. TaskComesFirst' /\ TaskIsInHand' /\ WrittenBeforeDelivered' /\ SentOnce' /\ DebtsAreListed'
    BY <1>1, <2>1, OutsideDelivery DEF Delivering, InHand, Working
  <2>3. TurnIsOver' /\ OverForGood' /\ ToldAtLast'
    BY <1>0, <1>1, <2>1 DEF TurnIsOver, OverForGood, ToldAtLast, Delivering, At
  <2>. QED  BY <2>2, <2>3 DEF DeliveryInv
<1>. QED  BY <1>3, <1>4, <1>5, <1>6, <1>7, <1>8

(* The consumer's steps that deliver the result.                           *)
LEMMA ResultKeepsDelivery ==
  ASSUME IInv, DeliveryInv, DeliveryStep \/ \E e \in Events : Acknowledge(e)
  PROVE  DeliveryInv'
<1>0. /\ TypeOK /\ OutcomesAreKnown /\ HandledIsThere
      /\ mail["result"] \in Nat /\ mail["created"] \in Nat /\ mail \in [Events -> Nat]
      /\ \A f \in Followers : got[f] \in 0..2 /\ follower[f] \in FollowerRows
      /\ TaskComesFirst /\ TaskIsInHand /\ WrittenBeforeDelivered /\ SentOnce /\ DebtsAreListed
      /\ TurnIsOver /\ OverForGood /\ ToldAtLast
  BY DEF IInv, TypeOK, Events, DeliveryInv
<1>1. UNCHANGED <<job, task, written, faults, sender, canceller, early, rows>>
        /\ Interrupted' = Interrupted
  BY DEF DeliveryStep, TakeResult, MarkFollower, DeliveryDone, SendFollower, RefuseFollower,
         Acknowledge, tables, history, counters, queue, Interrupted
<1>2. worker[Consumer].pc \in Delivering => mail["result"] > 0 /\ written
  BY <1>0 DEF HandledIsThere, Handling, WrittenBeforeDelivered, Announced, Delivering, Events
(* What every such step leaves in order.                                   *)
<1>3. ASSUME worker'[Consumer].pc \in Delivering \cup {"idle"},
             \A f \in Followers : got'[f] > 0 => got[f] > 0 \/ written,
             mail'["result"] > 0 => mail["result"] > 0
      PROVE  /\ TaskComesFirst' /\ TaskIsInHand' /\ WrittenBeforeDelivered'
             /\ TurnIsOver' /\ OverForGood' /\ ToldAtLast'
  <2>1. TaskComesFirst' /\ TaskIsInHand' /\ WrittenBeforeDelivered'
    BY <1>0, <1>1, <1>3
    DEF TaskComesFirst, TaskIsInHand, WrittenBeforeDelivered, Announced, InHand, Working,
        Delivering
  <2>2. TurnIsOver' /\ OverForGood'
    BY <1>0, <1>1, <1>3 DEF TurnIsOver, OverForGood, Delivering, At
  <2>3. ToldAtLast'
    BY <1>0, <1>1, <1>3 DEF ToldAtLast
  <2>. QED  BY <2>1, <2>2, <2>3
<1>4. CASE TakeResult
  <2>1. /\ worker[Consumer].pc = "idle" /\ worker'[Consumer].pc = "deliver"
        /\ mail["result"] > 0 /\ list' = {f \in ToServe : ~ Silent(f)}
        /\ UNCHANGED <<mail, follower, got, excused, unrecorded>>
    BY <1>0, <1>4, ConsumerIsAt DEF TakeResult, At, tables, history, queue
  <2>2. SentOnce'
    BY <1>0, <1>1, <2>1 DEF SentOnce, Marks, At, ToServe
  <2>3. \A f \in Followers : NothingOwed(f)' \/ f \in list'
    BY <1>1, <2>1 DEF NothingOwed, ToServe, Silent
  <2>4. DebtsAreListed'
    BY <2>1, <2>3 DEF DebtsAreListed, At, Announced
  <2>. QED  BY <1>3, <2>1, <2>2, <2>4 DEF DeliveryInv, Delivering
<1>5. ASSUME NEW f \in Followers, RefuseFollower(f)
      PROVE  DeliveryInv'
  <2>1. /\ worker[Consumer].pc = "deliver" /\ worker'[Consumer] = worker[Consumer] /\ f \in list
        /\ excused' = excused \cup {f} /\ list' = list \ {f}
        /\ \A g \in Followers : g # f => follower'[g] = follower[g] /\ got'[g] = got[g]
        /\ UNCHANGED mail
    BY <1>0, <1>5 DEF RefuseFollower, At, TypeOK, queue
  <2>2. SentOnce'
    <3>1. \A g \in Followers : ~ Marks(g) /\ ~ Marks(g)'
      BY <2>1 DEF Marks, At
    <3>2. unrecorded \subseteq unrecorded' /\ (f \in unrecorded' \/ got' = got)
      BY <1>5 DEF RefuseFollower
    <3>3. f \notin unrecorded => got[f] = 0
      BY <1>0, <2>1, <3>1 DEF SentOnce
    <3>. QED  BY <1>0, <1>1, <2>1, <3>1, <3>2, <3>3 DEF SentOnce
  <2>3. \A g \in Followers : NothingOwed(g)' \/ (g # f /\ (NothingOwed(g) => NothingOwed(g)'))
    BY <1>1, <2>1 DEF NothingOwed
  <2>4. DebtsAreListed'
    BY <1>0, <1>1, <1>2, <2>1, <2>3 DEF DebtsAreListed, At, Delivering, Announced, ComesAgain
  <2>5. \A g \in Followers : got'[g] > 0 => got[g] > 0 \/ written
    BY <1>2, <2>1 DEF Delivering
  <2>. QED  BY <1>3, <2>1, <2>2, <2>4, <2>5 DEF DeliveryInv, Delivering
<1>6. ASSUME NEW f \in Followers, SendFollower(f)
      PROVE  DeliveryInv'
  <2>1. /\ worker[Consumer].pc = "deliver" /\ f \in list
        /\ UNCHANGED <<mail, follower, list, excused>>
        /\ \A g \in Followers : g # f => got'[g] = got[g]
        /\ unrecorded \subseteq unrecorded'
        /\ f \in unrecorded' \/ got' = [got EXCEPT ![f] = AtMostTwo(got[f] + 1)]
    BY <1>0, <1>6 DEF SendFollower, At, tables, queue, TypeOK
  <2>2. worker'[Consumer].pc = "sent" /\ worker'[Consumer].outcome = f
    <3>1. worker'[Consumer] = Thread("sent", NoJob, f)
      BY <1>0, <1>6, ConsumerIs, Frame DEF SendFollower
    <3>. QED  BY <3>1 DEF Thread
  <2>3. written
    BY <1>2, <2>1 DEF Delivering
  <2>4. SentOnce'
    <3>1. \A g \in Followers : ~ Marks(g) /\ (Marks(g)' <=> g = f)
      BY <1>0, <2>1, <2>2 DEF Marks, At
    <3>2. f \notin unrecorded => got[f] = 0
      BY <1>0, <2>1, <3>1 DEF SentOnce
    <3>3. f \notin unrecorded' => got'[f] = 1
      BY <1>0, <2>1, <3>2 DEF AtMostTwo, TypeOK
    <3>. QED  BY <1>0, <1>1, <2>1, <3>1, <3>3 DEF SentOnce
  <2>5. \A g \in Followers : NothingOwed(g)' <=> NothingOwed(g)
    BY <1>1, <2>1 DEF NothingOwed
  <2>6. DebtsAreListed'
    BY <1>0, <1>1, <2>1, <2>2, <2>5 DEF DebtsAreListed, At, Delivering, Announced, ComesAgain
  <2>. QED  BY <1>3, <2>1, <2>2, <2>3, <2>4, <2>6 DEF DeliveryInv, Delivering
<1>7. CASE MarkFollower
  <2>. DEFINE f == worker[Consumer].outcome
  <2>1. /\ worker[Consumer].pc = "sent" /\ worker'[Consumer].pc = "deliver"
        /\ f \in Followers /\ list' = list \ {f} /\ UNCHANGED <<mail, got, excused, unrecorded>>
        /\ follower' = [follower EXCEPT ![f] = [@ EXCEPT !.enabled = TRUE, !.delivered = TRUE]]
    BY <1>0, <1>7, ConsumerIsAt, ConsumerIs
    DEF MarkFollower, At, OutcomesAreKnown, history, queue
  <2>2. Marks(f) /\ \A g \in Followers : (g # f => ~ Marks(g)) /\ ~ Marks(g)'
    BY <2>1 DEF Marks, At
  <2>. HIDE DEF f
  <2>3. follower'[f].delivered /\ \A g \in Followers : g # f => follower'[g] = follower[g]
    BY <1>0, <2>1 DEF TypeOK, FollowerRows
  <2>4. SentOnce'
    BY <1>0, <1>1, <2>1, <2>2, <2>3 DEF SentOnce
  <2>5. \A g \in Followers : NothingOwed(g)' \/ (g # f /\ (NothingOwed(g) => NothingOwed(g)'))
    BY <1>1, <2>1, <2>3 DEF NothingOwed
  <2>6. DebtsAreListed'
    BY <1>0, <1>1, <1>2, <2>1, <2>5 DEF DebtsAreListed, At, Delivering, Announced, ComesAgain
  <2>. QED  BY <1>3, <2>1, <2>4, <2>6 DEF DeliveryInv, Delivering
<1>8. CASE DeliveryDone
  <2>1. /\ worker[Consumer].pc = "deliver" /\ worker'[Consumer].pc = "ack-result"
        /\ list = {} /\ UNCHANGED <<list, mail, follower, got, excused, unrecorded>>
    BY <1>0, <1>8, ConsumerIsAt DEF DeliveryDone, At, tables, history, queue
  <2>2. SentOnce'
    BY <1>0, <1>1, <2>1 DEF SentOnce, Marks, At
  <2>3. \A g \in Followers : NothingOwed(g)' <=> NothingOwed(g)
    BY <1>1, <2>1 DEF NothingOwed
  <2>4. DebtsAreListed'
    BY <1>0, <1>1, <2>1, <2>3 DEF DebtsAreListed, At, Delivering, Announced, ComesAgain
  <2>. QED  BY <1>3, <2>1, <2>2, <2>4 DEF DeliveryInv, Delivering
<1>9. ASSUME NEW e \in Events, Acknowledge(e)
      PROVE  DeliveryInv'
  <2>1. /\ worker'[Consumer].pc = "idle" /\ UNCHANGED <<list, follower, got, excused, unrecorded>>
        /\ mail' = [mail EXCEPT ![e] = mail[e] - 1]
        /\ \/ e = "created" /\ worker[Consumer].pc = "ack-created"
           \/ e = "result" /\ worker[Consumer].pc = "ack-result"
    <3>1. worker'[Consumer] = Idle
      BY <1>0, <1>9, ConsumerIs, Frame DEF Acknowledge
    <3>. QED  BY <1>9, <3>1 DEF Acknowledge, Idle, Now, Thread, At, tables, history, Events, queue
  <2>2. \A g \in Followers : ~ Marks(g) /\ ~ Marks(g)' /\ (NothingOwed(g)' <=> NothingOwed(g))
    BY <1>1, <2>1 DEF Marks, At, NothingOwed
  <2>3. SentOnce'
    BY <1>0, <1>1, <2>1, <2>2 DEF SentOnce
  <2>4. mail'["result"] = IF e = "result" THEN mail["result"] - 1 ELSE mail["result"]
    BY <1>0, <2>1 DEF Events
  <2>5. DebtsAreListed'
    <3>1. e = "result" => \A f \in Followers : NothingOwed(f) \/ ComesAgain
      BY <1>0, <2>1 DEF DebtsAreListed, At, Delivering
    <3>2. \/ e = "result" /\ (Announced("result")' <=> ComesAgain)
          \/ e # "result" /\ (Announced("result")' <=> Announced("result"))
      BY <1>0, <1>1, <2>4 DEF Announced, ComesAgain
    <3>3. written' /\ ~ Announced("result")' => \A f \in Followers : NothingOwed(f)'
      BY <1>0, <1>1, <2>2, <3>1, <3>2 DEF DebtsAreListed
    <3>. QED  BY <2>1, <3>3 DEF DebtsAreListed, At, Delivering
  <2>. QED  BY <1>0, <1>3, <2>1, <2>3, <2>4, <2>5 DEF DeliveryInv
<1>. QED  BY <1>4, <1>5, <1>6, <1>7, <1>8, <1>9 DEF DeliveryStep

(* A step of somebody who is no thread.                                    *)
LEMMA OthersKeepDelivery ==
  ASSUME IInv, DeliveryInv, OtherStep
  PROVE  DeliveryInv'
<1>0. /\ TypeOK /\ HandledIsThere /\ QuietBeforeJob /\ job \in JobRows
      /\ mail["result"] \in Nat /\ mail["created"] \in Nat /\ mail \in [Events -> Nat]
      /\ \A f \in Followers : follower[f] \in FollowerRows
      /\ TaskComesFirst /\ TaskIsInHand /\ WrittenBeforeDelivered /\ SentOnce /\ DebtsAreListed
      /\ TurnIsOver /\ OverForGood /\ ToldAtLast
  BY DEF IInv, TypeOK, Events, DeliveryInv
<1>1. /\ UNCHANGED <<worker, list, got, unrecorded, faults, early>> /\ Interrupted' = Interrupted
      /\ written => written'
  <2>1. UNCHANGED <<worker, list, got, unrecorded, faults, early>> /\ Interrupted' = Interrupted
    BY DEF OtherStep, SenderStep, OperatorStep, SendJob, SendTask, SendEvent, SendFails, Publish,
           Redeliver, Unfollow, Follow, Snapshot, CancelRun, CancelJob, LoadTask, CancelTask,
           WriteCancelled, Expire, tables, threads, history, counters, Interrupted
  <2>2. CASE WriteCancelled
    BY <2>1, <2>2 DEF WriteCancelled
  <2>3. CASE ~ WriteCancelled
    <3>1. written' = written
      BY <2>3
      DEF OtherStep, SenderStep, OperatorStep, SendJob, SendTask, SendEvent, SendFails, Publish,
          Redeliver, Unfollow, Follow, Snapshot, CancelRun, CancelJob, LoadTask, CancelTask,
          Expire, threads, history, counters
    <3>. QED  BY <2>1, <3>1
  <2>. QED  BY <2>2, <2>3
<1>2. worker[Consumer].pc \in Delivering => mail["result"] > 0 /\ written
  BY <1>0 DEF HandledIsThere, Handling, WrittenBeforeDelivered, Announced, Delivering, Events
<1>3. \A f \in Followers : Marks(f)' <=> Marks(f)
  BY <1>1 DEF Marks, At
<1>4. ToldAtLast'
  BY <1>0, <1>1 DEF ToldAtLast
<1>5. TurnIsOver'
  <2>1. CASE SendJob
    <3>1. worker[Consumer].pc = "idle"
      BY <1>0, <2>1, ConsumerIs DEF SendJob, Sends, QuietBeforeJob, At
    <3>. QED  BY <1>1, <3>1 DEF TurnIsOver, At
  <2>2. CASE ~ SendJob
    <3>1. job'.status \in JobOver \cup {job.status}
      <4>1. CASE CancelJob
        BY <1>0, <4>1, RowsAre DEF CancelJob, TypeOK, Operators, JobOver
      <4>2. CASE Expire
        BY <1>0, <4>2 DEF Expire, JobRows
      <4>. QED
        BY <2>2, <4>1, <4>2
        DEF OtherStep, SenderStep, OperatorStep, SendTask, SendEvent, SendFails, Publish, Redeliver,
            Unfollow, Follow, Snapshot, CancelRun, LoadTask, CancelTask, WriteCancelled, tables,
            queue
    <3>. QED  BY <1>0, <1>1, <3>1 DEF TurnIsOver, At
  <2>. QED  BY <2>1, <2>2
(* The steps that touch neither the task nor what is owed.                 *)
<1>6. ASSUME UNCHANGED <<task, follower, written, excused>>,
             Announced("result") <=> Announced("result")',
             worker[Consumer].pc \in Delivering /\ ComesAgain => ComesAgain',
             sender' \in {"job", "task"} => sender \in {"job", "task"},
             \/ canceller' = canceller
             \/ canceller # "event" /\ canceller' # "event" /\ task # "none"
      PROVE  DeliveryInv'
  <2>1. TaskComesFirst' /\ TaskIsInHand' /\ WrittenBeforeDelivered'
    BY <1>0, <1>1, <1>6 DEF TaskComesFirst, TaskIsInHand, WrittenBeforeDelivered
  <2>2. SentOnce'
    BY <1>0, <1>1, <1>3, <1>6 DEF SentOnce
  <2>3. \A f \in Followers : NothingOwed(f)' <=> NothingOwed(f)
    BY <1>1, <1>6 DEF NothingOwed
  <2>4. DebtsAreListed'
    BY <1>0, <1>1, <1>6, <2>3 DEF DebtsAreListed, At
  <2>5. OverForGood'
    BY <1>0, <1>1, <1>6 DEF OverForGood, At
  <2>. QED  BY <1>4, <1>5, <2>1, <2>2, <2>4, <2>5 DEF DeliveryInv
<1>7. CASE SendJob \/ SendFails \/ Snapshot \/ CancelRun \/ CancelJob \/ LoadTask \/ Expire
  <2>1. UNCHANGED <<task, follower, written, excused, rows, mail>>
    BY <1>7
    DEF SendJob, SendFails, Snapshot, CancelRun, CancelJob, LoadTask, Expire, tables, history, queue
  <2>2. sender' \in {"job", "task"} => sender \in {"job", "task"}
    BY <1>7
    DEF SendJob, Sends, SendFails, Snapshot, CancelRun, CancelJob, LoadTask, Expire, threads
  <2>3. \/ canceller' = canceller
        \/ canceller # "event" /\ canceller' # "event" /\ task # "none"
    BY <1>7 DEF SendJob, SendFails, Snapshot, CancelRun, CancelJob, LoadTask, Expire, threads
  <2>. QED  BY <1>6, <2>1, <2>2, <2>3 DEF Announced, ComesAgain
<1>8. CASE SendEvent
  <2>1. /\ UNCHANGED <<task, follower, written, excused, canceller, mail>>
        /\ rows' = rows \cup {"created"} /\ sender' = "sent"
    BY <1>8 DEF SendEvent, Sends, SendOrder, tables, history
  <2>. QED  BY <1>6, <2>1 DEF Announced, ComesAgain
<1>9. ASSUME NEW e \in Events, Redeliver(e) \/ Publish(e)
      PROVE  DeliveryInv'
  <2>1. /\ UNCHANGED <<task, follower, written, excused, canceller, sender>>
        /\ mail' = [mail EXCEPT ![e] = @ + 1]
        /\ rows' = rows \/ (rows' = rows \ {e} /\ e \in rows)
        /\ e \in rows \/ mail[e] > 0
    BY <1>0, <1>9 DEF Redeliver, Publish, HandledIsThere, tables, threads, history
  <2>2. mail' \in [Events -> Nat] /\ mail'["result"] \in Nat
    BY <1>0, <2>1 DEF Events
  <2>3. /\ Announced("result") <=> Announced("result")'
        /\ worker[Consumer].pc \in Delivering /\ ComesAgain => ComesAgain'
    <3>1. CASE e = "result"
      <4>1. mail'["result"] = mail["result"] + 1
        BY <1>0, <2>1, <3>1 DEF Events
      <4>2. Announced("result") /\ Announced("result")'
        BY <1>0, <2>1, <3>1, <4>1 DEF Announced
      <4>3. worker[Consumer].pc \in Delivering /\ ComesAgain => ComesAgain'
        BY <1>0, <1>2, <2>1, <3>1, <4>1 DEF ComesAgain
      <4>. QED  BY <4>2, <4>3
    <3>2. CASE e # "result"
      BY <1>0, <2>1, <3>2 DEF Events, Announced, ComesAgain
    <3>. QED  BY <3>1, <3>2
  <2>. QED  BY <1>6, <2>1, <2>3
<1>10. CASE SendTask
  <2>1. /\ task = "none" /\ task' = "queued" /\ sender' = "event" /\ canceller = "rest"
        /\ UNCHANGED <<follower, written, excused, rows, mail, canceller>>
    BY <1>0, <1>10 DEF SendTask, Sends, SendOrder, TaskComesFirst, history, queue
  <2>2. TaskComesFirst' /\ TaskIsInHand' /\ WrittenBeforeDelivered' /\ OverForGood'
    BY <1>0, <1>1, <2>1
    DEF TaskComesFirst, TaskIsInHand, WrittenBeforeDelivered, Announced, OverForGood, TaskOver, At
  <2>3. SentOnce'
    BY <1>0, <1>1, <1>3, <2>1 DEF SentOnce
  <2>4. \A f \in Followers : NothingOwed(f)' <=> NothingOwed(f)
    BY <1>1, <2>1 DEF NothingOwed
  <2>5. DebtsAreListed'
    BY <1>0, <1>1, <2>1, <2>4 DEF DebtsAreListed, Announced, ComesAgain, At
  <2>. QED  BY <1>4, <1>5, <2>2, <2>3, <2>5 DEF DeliveryInv
(* The steps that let followers come and go.                               *)
<1>11. ASSUME NEW f \in Followers,
              Unfollow(f) \/ \E only \in BOOLEAN : Follow(f, only)
       PROVE  DeliveryInv'
  <2>1. /\ UNCHANGED <<task, written, rows, mail, canceller, sender>>
        /\ \A g \in Followers : g # f => follower'[g] = follower[g]
        /\ excused \subseteq excused'
        /\ follower'[f].delivered = follower[f].delivered
        /\ ~ follower'[f].enabled \/ f \in excused' \/ ~ written
        /\ written => Announced("result")
    <3>1. CASE Unfollow(f)
      <4>1. follower' = [follower EXCEPT ![f].enabled = FALSE]
        BY <3>1 DEF Unfollow
      <4>2. ~ follower'[f].enabled /\ follower'[f].delivered = follower[f].delivered
              /\ \A g \in Followers : g # f => follower'[g] = follower[g]
        BY <1>0, <4>1 DEF TypeOK, FollowerRows
      <4>. QED  BY <3>1, <4>2 DEF Unfollow, FollowersMatter, threads, history, queue
    <3>2. ASSUME NEW only \in BOOLEAN, Follow(f, only)
          PROVE  /\ UNCHANGED <<task, written, rows, mail, canceller, sender>>
                 /\ \A g \in Followers : g # f => follower'[g] = follower[g]
                 /\ excused \subseteq excused'
                 /\ follower'[f].delivered = follower[f].delivered
                 /\ ~ follower'[f].enabled \/ f \in excused' \/ ~ written
                 /\ written => Announced("result")
      <4>1. follower' = [follower EXCEPT ![f] = [@ EXCEPT !.enabled = TRUE, !.errorsOnly = only]]
        BY <3>2 DEF Follow
      <4>2. follower'[f].delivered = follower[f].delivered
              /\ \A g \in Followers : g # f => follower'[g] = follower[g]
        BY <1>0, <4>1 DEF TypeOK, FollowerRows
      <4>3. excused \subseteq excused' /\ (written => f \in excused')
        BY <3>2 DEF Follow
      <4>. QED  BY <3>2, <4>2, <4>3 DEF Follow, FollowersMatter, threads, queue
    <3>. QED  BY <1>11, <3>1, <3>2
  <2>2. TaskComesFirst' /\ TaskIsInHand' /\ WrittenBeforeDelivered' /\ OverForGood'
    BY <1>0, <1>1, <2>1
    DEF TaskComesFirst, TaskIsInHand, WrittenBeforeDelivered, Announced, OverForGood, At
  <2>3. SentOnce'
    BY <1>0, <1>1, <1>3, <2>1 DEF SentOnce
  <2>4. \A g \in Followers : g # f => (NothingOwed(g) => NothingOwed(g)')
    BY <1>1, <2>1 DEF NothingOwed
  <2>5. written => NothingOwed(f)'
    BY <2>1 DEF NothingOwed
  <2>6. DebtsAreListed'
    BY <1>0, <1>1, <1>2, <2>1, <2>4, <2>5 DEF DebtsAreListed, Announced, ComesAgain, At
  <2>. QED  BY <1>4, <1>5, <2>2, <2>3, <2>6 DEF DeliveryInv
(* The cancellation of the task.                                           *)
<1>12. CASE CancelTask \/ WriteCancelled
  <2>1. /\ UNCHANGED <<follower, excused, sender, mail>> /\ canceller' \in {"event", "done"}
        /\ task # "none" /\ task' # "none"
        /\ task' \in {task, "cancelled"}
        /\ \/ canceller' = "event" /\ task' = "cancelled" /\ UNCHANGED <<rows, written>>
           \/ canceller = "event" /\ written' /\ task' = task /\ "result" \in rows'
    BY <1>0, <1>12 DEF CancelTask, WriteCancelled, TaskComesFirst, tables, history, queue
  <2>2. TaskComesFirst' /\ TaskIsInHand'
    BY <1>0, <1>1, <2>1 DEF TaskComesFirst, TaskIsInHand
  <2>3. OverForGood'
    BY <1>0, <1>1, <2>1 DEF OverForGood, TaskOver, At
  <2>4. SentOnce'
    BY <1>0, <1>1, <1>3, <2>1 DEF SentOnce
  <2>5. CASE canceller' = "event" /\ UNCHANGED <<rows, written>>
    <3>1. \A f \in Followers : NothingOwed(f) => NothingOwed(f)'
      BY <1>1, <2>1, <2>5 DEF NothingOwed
    <3>2. DebtsAreListed' /\ WrittenBeforeDelivered'
      BY <1>0, <1>1, <2>1, <2>5, <3>1
      DEF DebtsAreListed, WrittenBeforeDelivered, Announced, ComesAgain, At
    <3>. QED  BY <1>4, <1>5, <2>2, <2>3, <2>4, <3>2 DEF DeliveryInv
  <2>6. CASE written' /\ "result" \in rows'
    <3>1. DebtsAreListed' /\ WrittenBeforeDelivered'
      BY <1>0, <1>1, <2>6 DEF DebtsAreListed, WrittenBeforeDelivered, Announced, ComesAgain, At
    <3>. QED  BY <1>4, <1>5, <2>2, <2>3, <2>4, <3>1 DEF DeliveryInv
  <2>. QED  BY <2>1, <2>5, <2>6
<1>. QED
  BY <1>7, <1>8, <1>9, <1>10, <1>11, <1>12 DEF OtherStep, SenderStep, OperatorStep

(* A crash or a stop of the publisher orphans the rows it had claimed.     *)
LEMMA OrphansAreExcused ==
  ASSUME DeliveryInv, NEW claimed \in SUBSET Events, rows' = rows \ claimed,
         faults \cup claimed \subseteq faults',
         UNCHANGED <<mail, written, task, follower, excused>>,
         Interrupted' \/ canceller' = canceller
  PROVE  /\ \A f \in Followers : NothingOwed(f) => NothingOwed(f)'
         /\ written' /\ ~ Announced("result")' => \A f \in Followers : NothingOwed(f)'
<1>1. \A f \in Followers : NothingOwed(f) => NothingOwed(f)'
  BY DEF NothingOwed, Interrupted
<1>2. CASE "result" \in claimed
  BY <1>1, <1>2 DEF NothingOwed
<1>3. CASE "result" \notin claimed
  BY <1>1, <1>3 DEF DeliveryInv, DebtsAreListed, Announced
<1>. QED  BY <1>1, <1>2, <1>3

LEMMA CrashKeepsDelivery ==
  ASSUME IInv, DeliveryInv, NEW claimed \in SUBSET Events, Crash(claimed)
  PROVE  DeliveryInv'
<1>0. /\ TaskComesFirst /\ WrittenBeforeDelivered /\ SentOnce /\ DebtsAreListed /\ OverForGood
      /\ ToldAtLast /\ mail["result"] \in Nat
  BY DEF DeliveryInv, IInv, TypeOK, Events
<1>1. worker'[Consumer].pc = "idle"
  BY ConsumerIs DEF Crash, Idle, Now, Thread
<1>2. /\ UNCHANGED <<task, follower, mail, written, got, excused, early>>
      /\ list' = {} /\ rows' = rows \ claimed /\ faults \cup claimed \subseteq faults'
      /\ Interrupted'
      /\ sender' \in {"job", "task"} => sender \in {"job", "task"}
      /\ canceller' = "event" => canceller = "event"
      /\ canceller = "rest" => canceller' = "rest"
  BY DEF Crash, Interrupted
<1>3. TaskComesFirst' /\ TaskIsInHand' /\ WrittenBeforeDelivered'
  BY <1>0, <1>1, <1>2
  DEF TaskComesFirst, TaskIsInHand, WrittenBeforeDelivered, Announced, InHand, Working
<1>4. SentOnce'
  <2>1. unrecorded \subseteq unrecorded' /\ \A f \in Followers : Marks(f) => f \in unrecorded'
    BY DEF Crash, Marks, At
  <2>. QED  BY <1>0, <1>2, <2>1 DEF SentOnce
<1>5. DebtsAreListed'
  BY <1>1, <1>2, OrphansAreExcused DEF DebtsAreListed, At, Delivering
<1>6. TurnIsOver' /\ OverForGood' /\ ToldAtLast'
  <2>1. TurnIsOver'
    BY <1>1 DEF TurnIsOver, At
  <2>2. OverForGood'
    BY <1>0, <1>1, <1>2 DEF OverForGood, At
  <2>3. ToldAtLast'
    BY <1>0, <1>1, <1>2 DEF ToldAtLast
  <2>. QED  BY <2>1, <2>2, <2>3
<1>. QED  BY <1>3, <1>4, <1>5, <1>6 DEF DeliveryInv

LEMMA FailuresKeepDelivery ==
  ASSUME IInv, DeliveryInv, CallFails
  PROVE  DeliveryInv'
<1>0. /\ TypeOK /\ OutcomesAreKnown /\ HandledIsThere /\ mail["result"] \in Nat
      /\ TaskComesFirst /\ TaskIsInHand /\ WrittenBeforeDelivered /\ SentOnce /\ DebtsAreListed
      /\ TurnIsOver /\ OverForGood /\ ToldAtLast
  BY DEF IInv, TypeOK, Events, DeliveryInv
<1>1. /\ "call" \in faults' /\ faults \subseteq faults' /\ Interrupted'
      /\ UNCHANGED <<job, task, inbox, follower, mail, sender, turns, early, written, got>>
  BY <1>0, FailureLeaves DEF Interrupted
(* What the consumer's failures leave in order.                            *)
<1>2. ASSUME UNCHANGED <<rows, canceller>>, faults' = faults \cup {"call"},
             excused \subseteq excused', unrecorded \subseteq unrecorded', list' \subseteq list,
             worker[Consumer].pc \notin InHand => worker'[Consumer].pc \notin InHand,
             worker'[Consumer].pc \in {"error", "ack-created", "ack-result", "stopped"},
             worker'[Consumer].pc = "error" => worker[Consumer].pc \in InHand,
             \A f \in Followers : Marks(f) => f \in unrecorded',
             worker'[Consumer].pc = "ack-result"
               => list' = {} /\ \A f \in Followers : NothingOwed(f)' \/ ComesAgain'
      PROVE  DeliveryInv'
  <2>1. TaskComesFirst' /\ TaskIsInHand' /\ WrittenBeforeDelivered'
    BY <1>0, <1>1, <1>2 DEF TaskComesFirst, TaskIsInHand, WrittenBeforeDelivered, Announced
  <2>2. SentOnce'
    BY <1>0, <1>1, <1>2 DEF SentOnce
  <2>3. DebtsAreListed'
    <3>1. written' /\ ~ Announced("result")' => \A f \in Followers : NothingOwed(f)'
      BY <1>0, <1>1, <1>2 DEF DebtsAreListed, NothingOwed, Announced
    <3>. QED  BY <1>2, <3>1 DEF DebtsAreListed, Delivering, At
  <2>4. TurnIsOver' /\ OverForGood'
    BY <1>0, <1>1, <1>2 DEF TurnIsOver, OverForGood, At
  <2>5. ToldAtLast'
    BY <1>0, <1>1, <1>2 DEF ToldAtLast, Delivering, InHand, Working
  <2>. QED  BY <2>1, <2>2, <2>3, <2>4, <2>5 DEF DeliveryInv
<1>3. CASE ConsumerFails
  <2>1. worker'[Consumer].pc = AfterError(worker[Consumer].pc)
    BY <1>0, <1>3, ConsumerIsAt DEF ConsumerFails
  <2>2. worker'[Consumer].pc = "ack-result" => worker[Consumer].pc \in Delivering
    BY <2>1 DEF AfterError, Delivering
  <2>3. worker'[Consumer].pc = "error" => worker[Consumer].pc \in InHand
    BY <2>1 DEF AfterError, Executing, InHand, Working
  <2>4. \A f \in Followers : Marks(f) => f \in unrecorded'
    BY <1>3 DEF ConsumerFails, Marks, At
  <2>5. \A f \in Followers : (NothingOwed(f) => NothingOwed(f)') /\ (f \in list => NothingOwed(f)')
    BY <1>1, <1>3 DEF ConsumerFails, NothingOwed
  <2>6. worker'[Consumer].pc = "ack-result"
          => \A f \in Followers : NothingOwed(f)' \/ ComesAgain'
    BY <1>0, <1>1, <1>3, <2>2, <2>5 DEF ConsumerFails, DebtsAreListed, ComesAgain, queue
  <2>7. worker'[Consumer].pc \in {"error", "ack-created", "ack-result", "stopped"}
    BY <2>1 DEF AfterError
  <2>8. worker[Consumer].pc \notin InHand => worker'[Consumer].pc \notin InHand
    BY <2>3, <2>7 DEF InHand, Working
  <2>. QED
    BY <1>2, <1>3, <2>3, <2>4, <2>6, <2>7, <2>8 DEF ConsumerFails, queue
<1>4. ASSUME NEW e \in Events, ConsumerCannotRead(e)
      PROVE  DeliveryInv'
  <2>1. worker'[Consumer].pc = [created |-> "ack-created", result |-> "ack-result"][e]
    BY <1>0, <1>4, ConsumerIsAt DEF ConsumerCannotRead
  <2>2. worker[Consumer].pc = "idle" /\ \A f \in Followers : ~ Marks(f)
    BY <1>4 DEF ConsumerCannotRead, At, Marks
  <2>3. /\ UNCHANGED <<rows, canceller, unrecorded>> /\ faults' = faults \cup {"call"}
        /\ excused \subseteq excused' /\ (e = "result" => ToServe \subseteq excused')
    BY <1>4 DEF ConsumerCannotRead, queue
  <2>4. worker'[Consumer].pc \in {"ack-created", "ack-result"}
          /\ (worker'[Consumer].pc = "ack-result" => e = "result")
    BY <2>1 DEF Events
  <2>5. e = "result" => \A f \in Followers : NothingOwed(f)'
    BY <1>1, <2>3 DEF NothingOwed, ToServe
  <2>. QED
    BY <1>2, <1>4, <2>2, <2>3, <2>4, <2>5 DEF ConsumerCannotRead, InHand, Working
<1>5. ASSUME UNCHANGED <<excused, unrecorded, list>>, UNCHANGED worker[Consumer],
             NEW claimed \in SUBSET Events, rows' = rows \ claimed,
             faults' = faults \cup {"call"} \cup claimed,
             \/ canceller' = canceller
             \/ canceller \in {"put", "event"} /\ canceller' = "done"
      PROVE  DeliveryInv'
  <2>1. TaskComesFirst' /\ TaskIsInHand' /\ WrittenBeforeDelivered'
    BY <1>0, <1>1, <1>5 DEF TaskComesFirst, TaskIsInHand, WrittenBeforeDelivered, Announced
  <2>2. SentOnce'
    BY <1>0, <1>1, <1>5 DEF SentOnce, Marks, At
  <2>3. /\ \A f \in Followers : NothingOwed(f) => NothingOwed(f)'
        /\ written' /\ ~ Announced("result")' => \A f \in Followers : NothingOwed(f)'
    BY <1>1, <1>5, OrphansAreExcused
  <2>4. ComesAgain => ComesAgain' \/ \A f \in Followers : NothingOwed(f)'
    BY <1>1, <1>5 DEF ComesAgain, NothingOwed
  <2>5. DebtsAreListed'
    BY <1>0, <1>5, <2>3, <2>4 DEF DebtsAreListed, At
  <2>6. TurnIsOver' /\ OverForGood' /\ ToldAtLast'
    BY <1>0, <1>1, <1>5 DEF TurnIsOver, OverForGood, ToldAtLast, At
  <2>. QED  BY <2>1, <2>2, <2>5, <2>6 DEF DeliveryInv
<1>6. CASE CancellerFails \/ OperatorFails \/ \E w \in Background : BackgroundFails(w)
  <2>1. UNCHANGED worker[Consumer]
    <3>1. ASSUME NEW w \in Background, BackgroundFails(w)
          PROVE  UNCHANGED worker[Consumer]
      BY <1>0, <3>1, ConsumerIs, Frame DEF BackgroundFails, Workers
    <3>. QED  BY <1>6, <3>1 DEF CancellerFails, OperatorFails
  <2>2. /\ UNCHANGED <<excused, unrecorded, list, rows>> /\ faults' = faults \cup {"call"}
        /\ \/ canceller' = canceller
           \/ canceller \in {"put", "event"} /\ canceller' = "done"
    BY <1>6 DEF CancellerFails, OperatorFails, BackgroundFails, history, queue
  <2>3. rows' = rows \ {} /\ faults' = faults \cup {"call"} \cup {} /\ {} \in SUBSET Events
    BY <2>2
  <2>. QED  BY <1>5, <2>1, <2>2, <2>3
<1>7. ASSUME NEW claimed \in SUBSET Events, PublisherStops(claimed)
      PROVE  DeliveryInv'
  BY <1>5, <1>7 DEF PublisherStops, threads, history
<1>. QED  BY <1>3, <1>4, <1>6, <1>7 DEF CallFails

LEMMA DeliveryStepInv ==
  ASSUME IInv, DeliveryInv, [Next]_vars
  PROVE  DeliveryInv'
<1>1. CASE UNCHANGED vars
  <2>1. UNCHANGED <<job, task, follower, rows, mail, sender, canceller, worker, list, early,
                    written, got, excused, unrecorded, faults>>
    BY <1>1 DEF vars, tables, threads, history, counters, queue
  <2>2. \A f \in Followers : (NothingOwed(f)' <=> NothingOwed(f)) /\ (Marks(f)' <=> Marks(f))
    BY <2>1 DEF NothingOwed, Marks, At, Interrupted
  <2>3. TaskComesFirst' /\ TaskIsInHand' /\ WrittenBeforeDelivered'
    BY <2>1 DEF DeliveryInv, TaskComesFirst, TaskIsInHand, WrittenBeforeDelivered, Announced
  <2>4. SentOnce' /\ DebtsAreListed'
    BY <2>1, <2>2 DEF DeliveryInv, SentOnce, DebtsAreListed, Announced, ComesAgain, At
  <2>5. TurnIsOver' /\ OverForGood' /\ ToldAtLast'
    BY <2>1 DEF DeliveryInv, TurnIsOver, OverForGood, ToldAtLast, At
  <2>. QED  BY <2>3, <2>4, <2>5 DEF DeliveryInv
<1>2. CASE \E w \in Background : BackgroundStep(w)
  BY <1>2, TurnKeepsDelivery, ConsumerIs
<1>3. CASE \E w \in Workers : TurnStep(w)
  BY <1>3, TurnKeepsDelivery
<1>4. CASE ConsumerStep
  BY <1>4, TaskKeepsDelivery, ResultKeepsDelivery DEF ConsumerStep
<1>5. CASE OtherStep
  BY <1>5, OthersKeepDelivery
<1>6. CASE CallFails
  BY <1>6, FailuresKeepDelivery
<1>7. CASE \E claimed \in SUBSET Events : Crash(claimed)
  BY <1>7, CrashKeepsDelivery
<1>. QED  BY <1>1, <1>2, <1>3, <1>4, <1>5, <1>6, <1>7 DEF Next, OtherStep

LEMMA DeliveryInit ==
  ASSUME Init
  PROVE  DeliveryInv
<1>1. worker[Consumer].pc = "idle"
  BY ConsumerIs DEF Init, Idle, Now, Thread
<1>2. rows = {} /\ mail["result"] = 0 /\ \A f \in Followers : got[f] = 0 /\ ~ follower[f].enabled
  BY DEF Init, Events, NoFollower
<1>3. TaskComesFirst /\ TaskIsInHand /\ WrittenBeforeDelivered
  BY <1>1, <1>2
  DEF Init, TaskComesFirst, TaskIsInHand, WrittenBeforeDelivered, Announced, InHand, Working
<1>4. SentOnce /\ DebtsAreListed
  BY <1>1, <1>2 DEF Init, SentOnce, DebtsAreListed, NothingOwed, Delivering, At
<1>5. TurnIsOver /\ OverForGood /\ ToldAtLast
  BY <1>1, <1>2 DEF Init, TurnIsOver, OverForGood, ToldAtLast, At
<1>. QED  BY <1>3, <1>4, <1>5 DEF DeliveryInv

THEOREM DeliveryInvariant == Spec => []DeliveryInv
<1>1. Init => DeliveryInv
  BY DeliveryInit
<1>2. IInv /\ DeliveryInv /\ [Next]_vars => DeliveryInv'
  BY DeliveryStepInv
<1>. QED  BY <1>1, <1>2, AgentTasksInvariant, PTL DEF Spec

(* When the result has been delivered, every follower has it that was      *)
(* there in time, wanted it and could be reached, unless a call of the     *)
(* handler failed while it was on the list or the row was orphaned, and    *)
(* none was sent it twice unless a send went unheard or unrecorded:        *)
(* however often the event is delivered and written, and whoever cancels   *)
(* the task meanwhile.                                                     *)
THEOREM FollowersHaveTheResult == Spec => []FollowersAreServedOnce
<1>1. ASSUME IInv, DeliveryInv
      PROVE  FollowersAreServedOnce
  <2>1. FollowersAreServed
    BY <1>1 DEF DeliveryInv, DebtsAreListed, NothingOwed, FollowersAreServed
  <2>2. ResultIsSentOnce
    <3>1. \A f \in Followers : got[f] \in 0..2
      BY <1>1 DEF IInv, TypeOK
    <3>. QED  BY <1>1, <3>1 DEF DeliveryInv, SentOnce, ResultIsSentOnce
  <2>. QED  BY <2>1, <2>2 DEF FollowersAreServedOnce
<1>. QED  BY <1>1, AgentTasksInvariant, DeliveryInvariant, PTL

(* With the event bus required, a task whose result a follower has been    *)
(* sent keeps its status, unless a cancellation had already read the row   *)
(* or a background thread took the job too early.                          *)
THEOREM WhatWasToldStands == ASSUME EventBusRequired PROVE Spec => ToldIsFinal
<1>. DEFINE A == \A f \in Followers : got[f] > 0 => task' = task \/ canceller = "put" \/ early
<1>1. ASSUME IInv, DeliveryInv, Next
      PROVE  A
  <2>. SUFFICES ASSUME NEW f \in Followers, got[f] > 0, canceller # "put", ~ early
                PROVE  task' = task
    OBVIOUS
  <2>1. /\ worker[Consumer].pc \in Delivering \cup {"idle", "ack-created", "stopped"}
        /\ task \in TaskOver /\ sender \notin {"job", "task"}
    BY <1>1 DEF DeliveryInv, ToldAtLast, OverForGood, TaskComesFirst, TaskOver
  <2>2. CASE (\E w \in Background : BackgroundStep(w)) \/ \E w \in Workers : TurnStep(w)
    BY <1>1, <2>2, TurnLeaves, ConsumerIs
  <2>3. CASE ConsumerStep
    BY <2>1, <2>3
    DEF ConsumerStep, DeliveryStep, TakeCreated, ExecuteTask, ReloadJob, RecordError, RecordTask,
        WriteResult, TakeResult, RefuseFollower, SendFollower, MarkFollower, DeliveryDone,
        Acknowledge, tables, At, Delivering, queue
  <2>4. CASE OtherStep
    BY <2>1, <2>4
    DEF OtherStep, SenderStep, OperatorStep, SendJob, SendTask, SendEvent, Sends, SendFails,
        Publish, Redeliver, Unfollow, Follow, Snapshot, CancelRun, CancelJob, LoadTask, CancelTask,
        WriteCancelled, Expire, tables
  <2>5. CASE CallFails \/ \E claimed \in SUBSET Events : Crash(claimed)
    BY <1>1, <2>5, FailureLeaves DEF IInv, Crash
  <2>. QED  BY <1>1, <2>2, <2>3, <2>4, <2>5 DEF Next, OtherStep
<1>2. IInv /\ DeliveryInv /\ [Next]_vars => [A]_vars
  BY <1>1
<1>. QED  BY <1>2, AgentTasksInvariant, DeliveryInvariant, PTL DEF Spec, ToldIsFinal
=============================================================================
