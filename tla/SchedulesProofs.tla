--------------------------- MODULE SchedulesProofs ---------------------------
(***************************************************************************)
(* Proofs about Schedules: its type invariant, that one job is under way,  *)
(* that an interval schedule keeps its cadence, that what a user switched  *)
(* off stays off, and that each mode keeps its promise; for any number of  *)
(* threads, jobs and troubles.                                             *)
(***************************************************************************)
EXTENDS Schedules, FiniteSetTheorems, TLAPS

-----------------------------------------------------------------------------
(* Arithmetic.                                                             *)

LEMMA OneMore ==
  ASSUME NEW m \in Nat, NEW n \in 0..m, n < m
  PROVE  n + 1 \in 0..m
  OBVIOUS

LEMMA DivType ==
  ASSUME NEW n \in Nat, NEW d \in Nat \ {0}
  PROVE  n \div d \in Nat
  OBVIOUS

LEMMA TimesType ==
  ASSUME NEW n \in Nat, NEW d \in Nat
  PROVE  n * d \in Nat
  OBVIOUS

LEMMA OnTheCadence ==
  ASSUME NEW n \in Nat, NEW k \in Nat, NEW d \in Nat \ {0}, n % d = 0
  PROVE  (n + k * d) % d = 0
<1>. DEFINE q == n \div d
<1>1. n = q * d
  OBVIOUS
<1>2. q \in Nat
  BY DivType
<1>. HIDE DEF q
<1>3. n + k * d = (q + k) * d
  BY <1>1, <1>2
<1>4. ASSUME NEW m \in Nat
      PROVE  (m * d) % d = 0
  OBVIOUS
<1>. QED  BY <1>2, <1>3, <1>4

LEMMA FiredType ==
  ASSUME NEW copy \in ScheduleRows, NEW j \in Jobs, NEW now \in Nat, Advanced(copy, now) \in Nat
  PROVE  Fired(copy, j, now) \in ScheduleRows
  BY DEF Fired, ScheduleRows, Results

LEMMA SyncedType ==
  ASSUME NEW copy \in ScheduleRows, NEW job \in JobRows
  PROVE  Synced(copy, job) \in ScheduleRows
<1>1. job.finished + Interval \in Nat
  BY SchedulesAssumption DEF JobRows
<1>. QED  BY <1>1 DEF Synced, ScheduleRows, Results

LEMMA EditedType ==
  ASSUME NEW copy \in ScheduleRows, NEW edit \in Edits, NEW now \in Nat
  PROVE  Edited(copy, edit, now) \in ScheduleRows
  BY DEF Edited, ScheduleRows, Results

LEMMA EndedType ==
  ASSUME NEW job \in JobRows, NEW at \in Nat
  PROVE  Ended(job, at) \in JobRows
  BY DEF Ended, JobRows

LEMMA AdvancedType ==
  ASSUME NEW copy \in ScheduleRows, NEW now \in Nat
  PROVE  \E k \in Nat : Advanced(copy, now) = copy.next + k * Interval
                         /\ Advanced(copy, now) \in Nat
<1>. DEFINE behind == IF now < copy.next THEN 0 ELSE (now - copy.next) \div Interval
<1>1. copy.next \in Nat /\ Interval \in Nat \ {0}
  BY SchedulesAssumption DEF ScheduleRows
<1>2. behind + 1 \in Nat
  <2>1. CASE now < copy.next
    BY <2>1
  <2>2. CASE ~ (now < copy.next)
    <3>1. now - copy.next \in Nat
      BY <1>1, <2>2
    <3>. QED  BY <1>1, <2>2, <3>1, DivType
  <2>. QED  BY <2>1, <2>2
<1>3. Advanced(copy, now) = copy.next + (behind + 1) * Interval
  BY DEF Advanced
<1>. HIDE DEF behind
<1>4. (behind + 1) * Interval \in Nat
  BY <1>1, <1>2, TimesType
<1>5. Advanced(copy, now) \in Nat
  BY <1>1, <1>3, <1>4
<1>6. WITNESS behind + 1 \in Nat
<1>. QED  BY <1>3, <1>5

LEMMA ThreadType ==
  ASSUME NEW pc \in {"idle", "sync", "check", "save", "jobs", "turn", "told", "put"},
         NEW copy \in ScheduleRows, NEW now \in 0..MaxTime
  PROVE  Thread(pc, copy, now) \in Threads
  BY DEF Thread, Threads

LEMMA GoneType == Gone \in ScheduleRows /\ NoJob \in JobRows /\ Resting \in Editors
  BY DEF Gone, NoJob, Resting, ScheduleRows, Modes, Results, JobRows, Editors

LEMMA IdleType == Idle \in Threads
<1>1. 0 \in 0..MaxTime
  BY SchedulesAssumption
<1>. QED  BY <1>1, GoneType, ThreadType DEF Idle

LEMMA RestsType ==
  ASSUME TypeOK, NEW w \in Workers
  PROVE  Rests(w) \in Threads
<1>1. Tick \in Workers
  BY DEF Workers
<1>2. worker[Tick].now \in 0..MaxTime
  BY <1>1 DEF TypeOK, Threads
<1>. QED  BY <1>2, IdleType, GoneType, ThreadType DEF Rests

LEMMA TroublesType ==
  ASSUME TypeOK, Trouble \/ UNCHANGED troubles
  PROVE  troubles' \in 0..MaxTroubles
  BY OneMore, SchedulesAssumption DEF TypeOK, Trouble

-----------------------------------------------------------------------------
(* Who holds a copy, before and after a step.                              *)

CopyOf(h) == IF h = "editor" THEN editor.copy ELSE worker[h].copy
Holding == {"sync", "check", "save", "put"}

(* A step of h leaves the copies of the others alone.                      *)
Others(h) ==
  \A g : g # h => /\ g \in Holders' <=> g \in Holders
                  /\ g \in Holders => CopyOf(g)' = CopyOf(g)

LEMMA WorkerMoves ==
  ASSUME TypeOK, NEW w \in Workers, NEW t, worker' = [worker EXCEPT ![w] = t], editor' = editor
  PROVE  /\ Others(w)
         /\ w \in Holders' <=> t.pc \in Holding
         /\ CopyOf(w)' = t.copy
         /\ worker'[w] = t /\ \A v \in Workers \ {w} : worker'[v] = worker[v]
<1>1. w # "editor"
  BY SchedulesAssumption DEF Workers
<1>2. worker'[w] = t /\ \A v \in Workers : v # w => worker'[v] = worker[v]
  BY DEF TypeOK
<1>3. Others(w)
  BY <1>2 DEF Others, Holders, CopyOf
<1>. QED  BY <1>1, <1>2, <1>3 DEF Holders, Holding, CopyOf

LEMMA EditorMoves ==
  ASSUME worker' = worker
  PROVE  /\ Others("editor")
         /\ "editor" \in Holders' <=> editor'.pc = "put"
         /\ CopyOf("editor")' = editor'.copy
<1>1. "editor" \notin Workers
  BY SchedulesAssumption DEF Workers
<1>. QED  BY <1>1 DEF Others, Holders, CopyOf

LEMMA HoldersAre ==
  ASSUME NEW w \in Workers
  PROVE  /\ w \in Holders <=> worker[w].pc \in Holding
         /\ CopyOf(w) = worker[w].copy /\ w # "editor"
<1>1. w # "editor"
  BY SchedulesAssumption DEF Workers
<1>. QED  BY <1>1 DEF Holders, Holding, CopyOf

LEMMA EditorIs ==
  /\ "editor" \in Holders <=> editor.pc = "put"
  /\ CopyOf("editor") = editor.copy
<1>1. "editor" \notin Workers
  BY SchedulesAssumption DEF Workers
<1>. QED  BY <1>1 DEF Holders, CopyOf

(* The copies that are stale are copies that somebody holds.               *)
LEMMA StaleType ==
  ASSUME TypeOK, NEW h, Others(h),
         \/ UNCHANGED stale /\ (h \in stale => h \in Holders')
         \/ LetsGo(h)
         \/ \E copy : Puts(h, copy)
  PROVE  stale' \subseteq Holders'
<1>1. stale \subseteq Holders /\ \A g : g # h => (g \in Holders' <=> g \in Holders)
  BY DEF TypeOK, Others
<1>2. CASE UNCHANGED stale /\ (h \in stale => h \in Holders')
  BY <1>1, <1>2
<1>3. CASE LetsGo(h)
  BY <1>1, <1>3 DEF LetsGo
<1>4. CASE \E copy : Puts(h, copy)
  BY <1>1, <1>4 DEF Puts
<1>. QED  BY <1>2, <1>3, <1>4

-----------------------------------------------------------------------------
(* Types.                                                                  *)

TurnsHaveJobs == \A w \in Workers : worker[w].pc \in {"turn", "told"} => worker[w].job \in Jobs

LEMMA DispatchType ==
  ASSUME TypeOK, DispatchStep
  PROVE  TypeOK'
<1>0. /\ worker[Tick].copy \in ScheduleRows /\ worker[Tick].now \in 0..MaxTime
      /\ Tick \in Workers /\ worker[Tick].now \in Nat
  BY SchedulesAssumption DEF TypeOK, Threads, Workers
<1>1. \A now \in Nat : Advanced(worker[Tick].copy, now) \in Nat
  BY <1>0, AdvancedType
<1>2. ASSUME NEW t \in Threads, worker' = [worker EXCEPT ![Tick] = t], editor' = editor,
             t.pc \notin {"turn", "told"},
             \/ UNCHANGED stale /\ (t.pc \in Holding \/ Tick \notin stale)
             \/ LetsGo(Tick)
             \/ \E copy : Puts(Tick, copy)
      PROVE  worker' \in [Workers -> Threads] /\ stale' \subseteq Holders' /\ TurnsHaveJobs'
  <2>1. Others(Tick) /\ (Tick \in Holders' <=> t.pc \in Holding)
    BY <1>0, <1>2, WorkerMoves
  <2>2. TurnsHaveJobs'
    BY <1>0, <1>2, WorkerMoves DEF TypeOK, TurnsHaveJobs
  <2>. QED  BY <1>2, <2>1, <2>2, StaleType DEF TypeOK
<1>3. CASE BeginTick
  <2>. DEFINE t == IF row.there THEN Thread("sync", row, clock) ELSE Thread("jobs", Gone, clock)
  <2>1. t \in Threads /\ t.pc \notin {"turn", "told"}
    BY ThreadType, GoneType DEF TypeOK, Thread
  <2>2. Tick \notin stale
    BY <1>0, <1>3, HoldersAre DEF TypeOK, BeginTick, At, Holding
  <2>. HIDE DEF t
  <2>3. worker' = [worker EXCEPT ![Tick] = t]
    BY <1>3 DEF BeginTick, t
  <2>4. worker' \in [Workers -> Threads] /\ stale' \subseteq Holders' /\ TurnsHaveJobs'
    BY <1>2, <1>3, <2>1, <2>2, <2>3 DEF BeginTick, history
  <2>. QED  BY <1>3, <2>4 DEF BeginTick, TypeOK, TurnsHaveJobs, rows, around, history
<1>4. CASE SyncLast
  <2>. DEFINE copy == worker[Tick].copy
              synced == IF copy.last = 0 THEN copy ELSE Synced(copy, jobs[copy.last])
  <2>1. synced \in ScheduleRows
    <3>1. copy.last # 0 => jobs[copy.last] \in JobRows
      BY <1>0 DEF TypeOK, ScheduleRows
    <3>. QED  BY <1>0, <3>1, SyncedType
  <2>2. Thread("check", synced, worker[Tick].now) \in Threads
    BY <1>0, <2>1, ThreadType
  <2>3. Thread("check", synced, worker[Tick].now).pc = "check"
    BY DEF Thread
  <2>4. /\ worker' = [worker EXCEPT ![Tick] = Thread("check", synced, worker[Tick].now)]
        /\ IF synced = copy THEN UNCHANGED <<row, stale, raced>> ELSE Puts(Tick, synced)
        /\ UNCHANGED <<jobs, around, editor, crashed, asks, shifted, troubles>>
    BY <1>4 DEF SyncLast
  <2>. HIDE DEF synced, copy
  <2>5. worker' \in [Workers -> Threads] /\ stale' \subseteq Holders' /\ TurnsHaveJobs'
    BY <1>2, <2>2, <2>3, <2>4 DEF Holding
  <2>6. row' \in ScheduleRows /\ raced' \in BOOLEAN
    BY <2>1, <2>4 DEF Puts, TypeOK
  <2>. QED  BY <2>4, <2>5, <2>6 DEF TypeOK, TurnsHaveJobs, around
<1>5. Rests(Tick) \in Threads /\ Rests(Tick).pc \notin {"turn", "told"}
  BY <1>0, RestsType DEF Rests, Thread
<1>6. CASE NothingToFire
  <2>1. worker' \in [Workers -> Threads] /\ stale' \subseteq Holders' /\ TurnsHaveJobs'
    BY <1>2, <1>5, <1>6 DEF NothingToFire
  <2>. QED  BY <1>6, <2>1 DEF NothingToFire, TypeOK, TurnsHaveJobs, rows, around, history
<1>7. CASE Postpone
  <2>. DEFINE copy == [worker[Tick].copy EXCEPT !.next = worker[Tick].now + Interval]
  <2>1. copy \in ScheduleRows
    BY <1>0, SchedulesAssumption DEF ScheduleRows
  <2>2. Puts(Tick, copy)
    BY <1>7 DEF Postpone
  <2>3. worker' \in [Workers -> Threads] /\ stale' \subseteq Holders' /\ TurnsHaveJobs'
    BY <1>2, <1>5, <1>7, <2>2 DEF Postpone
  <2>. HIDE DEF copy
  <2>. QED  BY <1>7, <2>1, <2>2, <2>3 DEF Postpone, Puts, TypeOK, TurnsHaveJobs, around
<1>8. CASE SkipBusy
  <2>. DEFINE copy == [worker[Tick].copy EXCEPT
                         !.next = Advanced(worker[Tick].copy, worker[Tick].now),
                         !.result = "skipped"]
  <2>1. copy \in ScheduleRows
    BY <1>0, <1>1 DEF ScheduleRows, Results
  <2>2. Puts(Tick, copy) \/ (LetsGo(Tick) /\ UNCHANGED <<row, raced>>)
    BY <1>8 DEF SkipBusy
  <2>3. worker' \in [Workers -> Threads] /\ stale' \subseteq Holders' /\ TurnsHaveJobs'
    BY <1>2, <1>5, <1>8, <2>2 DEF SkipBusy
  <2>. HIDE DEF copy
  <2>. QED  BY <1>8, <2>1, <2>2, <2>3 DEF SkipBusy, Puts, TypeOK, TurnsHaveJobs, around
<1>9. CASE SaveFired
  <2>1. worker' \in [Workers -> Threads] /\ stale' \subseteq Holders' /\ TurnsHaveJobs'
    BY <1>2, <1>5, <1>9 DEF SaveFired
  <2>. QED  BY <1>0, <1>9, <2>1 DEF SaveFired, Puts, TypeOK, TurnsHaveJobs, around
<1>10. ASSUME NEW j \in Jobs, Fire(j)
       PROVE  TypeOK'
  <2>. DEFINE t == Thread("save", Fired(worker[Tick].copy, j, worker[Tick].now), worker[Tick].now)
  <2>1. t \in Threads
    BY <1>0, <1>1, FiredType, ThreadType
  <2>2. t.pc = "save"
    BY DEF Thread
  <2>. HIDE DEF t
  <2>3. worker' = [worker EXCEPT ![Tick] = t]
    BY <1>10 DEF Fire, t
  <2>4. worker' \in [Workers -> Threads] /\ stale' \subseteq Holders' /\ TurnsHaveJobs'
    BY <1>2, <1>10, <2>1, <2>2, <2>3 DEF Fire, Holding
  <2>5. FreshJob(worker[Tick].now) \in JobRows
    BY <1>0, GoneType DEF FreshJob, JobRows
  <2>6. jobs' \in [Jobs -> JobRows]
    BY <1>10, <2>5 DEF Fire, TypeOK
  <2>. QED  BY <1>10, <2>4, <2>6 DEF Fire, TypeOK, TurnsHaveJobs, around, history
<1>. QED  BY <1>3, <1>4, <1>6, <1>7, <1>8, <1>9, <1>10 DEF DispatchStep

LEMMA JobType ==
  ASSUME TypeOK, NEW w \in Workers, JobStep(w)
  PROVE  TypeOK'
<1>0. /\ worker[w].copy \in ScheduleRows /\ worker[w].now \in 0..MaxTime /\ worker[w].now \in Nat
      /\ worker[w] \in Threads /\ clock \in 0..MaxTime /\ worker[w].job \in {0} \cup Jobs
  BY SchedulesAssumption DEF TypeOK, Threads
<1>1. ASSUME NEW t \in Threads, worker' = [worker EXCEPT ![w] = t], editor' = editor,
             t.pc \in {"turn", "told"} => t.job \in Jobs,
             \/ UNCHANGED stale /\ (t.pc \in Holding \/ w \notin stale)
             \/ \E copy : Puts(w, copy)
      PROVE  worker' \in [Workers -> Threads] /\ stale' \subseteq Holders' /\ TurnsHaveJobs'
  <2>1. Others(w) /\ (w \in Holders' <=> t.pc \in Holding)
    BY <1>1, WorkerMoves
  <2>2. TurnsHaveJobs'
    BY <1>1, WorkerMoves DEF TypeOK, TurnsHaveJobs
  <2>. QED  BY <1>1, <2>1, <2>2, StaleType DEF TypeOK
<1>2. worker[w].pc \notin Holding => w \notin stale
  BY HoldersAre DEF TypeOK
<1>3. ASSUME NEW j \in Jobs, TakeJob(w, j)
      PROVE  TypeOK'
  <2>. DEFINE t == [pc |-> "turn", copy |-> Gone, job |-> j,
                    now |-> IF w = Tick THEN worker[Tick].now ELSE clock]
  <2>1. t \in Threads /\ t.job \in Jobs
    BY <1>0, GoneType DEF Threads
  <2>2. worker' = [worker EXCEPT ![w] = t] /\ w \notin stale
    BY <1>2, <1>3 DEF TakeJob, Holding
  <2>. HIDE DEF t
  <2>3. worker' \in [Workers -> Threads] /\ stale' \subseteq Holders' /\ TurnsHaveJobs'
    BY <1>1, <1>3, <2>1, <2>2 DEF TakeJob, history
  <2>4. jobs' \in [Jobs -> JobRows]
    BY <1>3 DEF TakeJob, TypeOK, JobRows
  <2>. QED  BY <1>3, <2>3, <2>4 DEF TakeJob, TypeOK, TurnsHaveJobs, around, history
<1>4. CASE EndTurn(w)
  <2>. DEFINE t == [worker[w] EXCEPT !.pc = "told"]
  <2>1. t \in Threads /\ t.job \in Jobs
    BY <1>0, <1>4 DEF EndTurn, At, Threads, TypeOK
  <2>2. worker' = [worker EXCEPT ![w] = t] /\ w \notin stale
    BY <1>2, <1>4 DEF EndTurn, At, Goes, Holding
  <2>. HIDE DEF t
  <2>3. worker' \in [Workers -> Threads] /\ stale' \subseteq Holders' /\ TurnsHaveJobs'
    BY <1>1, <1>4, <2>1, <2>2 DEF EndTurn, history
  <2>4. jobs' \in [Jobs -> JobRows]
    <3>1. worker[w].job \in Jobs => Ended(jobs[worker[w].job], worker[w].now) \in JobRows
      BY <1>0, EndedType DEF TypeOK
    <3>. QED  BY <1>4, <3>1 DEF EndTurn, TypeOK
  <2>. QED  BY <1>4, <2>3, <2>4 DEF EndTurn, TypeOK, TurnsHaveJobs, around, history
<1>5. Rests(w) \in Threads /\ Rests(w).pc \notin {"turn", "told"}
  BY RestsType DEF Rests, Idle, Thread
<1>6. CASE PutSync(w)
  <2>1. worker' \in [Workers -> Threads] /\ stale' \subseteq Holders' /\ TurnsHaveJobs'
    BY <1>1, <1>5, <1>6 DEF PutSync
  <2>. QED  BY <1>0, <1>6, <2>1 DEF PutSync, Puts, TypeOK, TurnsHaveJobs, around
<1>7. CASE LoadForSync(w)
  <2>. DEFINE synced == Synced(row, jobs[worker[w].job])
              t == IF row.there /\ synced # row THEN Thread("put", synced, worker[w].now) ELSE Rests(w)
  <2>1. synced \in ScheduleRows
    BY <1>7, SyncedType DEF LoadForSync, At, TypeOK
  <2>2. t \in Threads /\ t.pc \notin {"turn", "told"}
    BY <1>0, <1>5, <2>1, ThreadType DEF Thread
  <2>3. worker' = [worker EXCEPT ![w] = t] /\ w \notin stale
    BY <1>2, <1>7 DEF LoadForSync, At, Holding
  <2>. HIDE DEF t
  <2>4. worker' \in [Workers -> Threads] /\ stale' \subseteq Holders' /\ TurnsHaveJobs'
    BY <1>1, <1>7, <2>2, <2>3 DEF LoadForSync, history
  <2>. QED  BY <1>7, <2>4 DEF LoadForSync, TypeOK, TurnsHaveJobs, rows, around, history
<1>. QED  BY <1>3, <1>4, <1>6, <1>7 DEF JobStep

LEMMA StaysType ==
  ASSUME TypeOK, UNCHANGED <<worker, editor, stale>>
  PROVE  /\ worker' \in [Workers -> Threads] /\ stale' \subseteq Holders' /\ TurnsHaveJobs'
         /\ editor' \in Editors
  BY DEF TypeOK, Holders, TurnsHaveJobs

LEMMA UserType ==
  ASSUME TypeOK, UserStep
  PROVE  TypeOK'
<1>0. editor \in Editors /\ editor.copy \in ScheduleRows /\ row \in ScheduleRows /\ clock \in Nat
  BY DEF TypeOK, Editors
<1>1. ASSUME worker' = worker,
             \/ UNCHANGED stale /\ (editor'.pc = "put" \/ "editor" \notin stale)
             \/ \E copy : Puts("editor", copy)
      PROVE  worker' \in [Workers -> Threads] /\ stale' \subseteq Holders' /\ TurnsHaveJobs'
  <2>1. Others("editor") /\ ("editor" \in Holders' <=> editor'.pc = "put")
    BY <1>1, EditorMoves
  <2>. QED  BY <1>1, <2>1, StaleType DEF TypeOK, TurnsHaveJobs
<1>2. ASSUME NEW edit \in Edits, LoadEdit(edit)
      PROVE  TypeOK'
  <2>1. editor' \in Editors /\ editor'.pc = "put"
    BY <1>0, <1>2, EditedType DEF LoadEdit, Editors
  <2>2. worker' \in [Workers -> Threads] /\ stale' \subseteq Holders' /\ TurnsHaveJobs'
    BY <1>1, <1>2, <2>1 DEF LoadEdit
  <2>3. asks' \in Nat /\ shifted' \in BOOLEAN
    BY <1>2 DEF LoadEdit, TypeOK
  <2>. QED
    BY <1>2, <2>1, <2>2, <2>3, TroublesType DEF LoadEdit, TypeOK, TurnsHaveJobs, rows, around
<1>3. CASE PutEdit
  <2>1. worker' \in [Workers -> Threads] /\ stale' \subseteq Holders' /\ TurnsHaveJobs'
    BY <1>1, <1>3 DEF PutEdit
  <2>. QED  BY <1>0, <1>3, <2>1, GoneType DEF PutEdit, Puts, TypeOK, TurnsHaveJobs, around
<1>4. CASE Delete
  <2>1. row' \in ScheduleRows
    BY <1>0, <1>4 DEF Delete, ScheduleRows
  <2>2. stale' \subseteq Holders'
    BY <1>4 DEF Delete, Holders
  <2>. QED  BY <1>4, <2>1, <2>2, TroublesType DEF Delete, TypeOK, around, history
<1>5. CASE DeleteProfile \/ StartChat \/ EndChat
  <2>1. UNCHANGED <<worker, editor, stale>>
    BY <1>5 DEF DeleteProfile, StartChat, EndChat
  <2>. QED
    BY <1>5, <2>1, StaysType, TroublesType
    DEF DeleteProfile, StartChat, EndChat, TypeOK, TurnsHaveJobs, rows, history
<1>6. ASSUME NEW j \in Jobs, CancelWork(j)
      PROVE  TypeOK'
  <2>1. jobs' \in [Jobs -> JobRows]
    BY <1>0, <1>6, EndedType DEF CancelWork, TypeOK
  <2>. QED
    BY <1>6, <2>1, StaysType, TroublesType
    DEF CancelWork, TypeOK, TurnsHaveJobs, around, history
<1>. QED  BY <1>2, <1>3, <1>4, <1>5, <1>6 DEF UserStep

LEMMA TypeStep ==
  ASSUME TypeOK, [Next]_vars
  PROVE  TypeOK'
<1>1. ASSUME UNCHANGED vars
      PROVE  TypeOK'
  BY <1>1, StaysType DEF vars, rows, around, history, TypeOK, TurnsHaveJobs
<1>2. CASE Tock
  <2>1. clock' \in 0..MaxTime
    BY <1>2, OneMore, SchedulesAssumption DEF Tock, TypeOK
  <2>. QED
    BY <1>2, <2>1, StaysType DEF Tock, TypeOK, TurnsHaveJobs, rows, history
<1>3. CASE Crash
  <2>1. jobs' \in [Jobs -> JobRows]
    <3>1. \A j \in Jobs : jobs[j] \in JobRows /\ [jobs[j] EXCEPT !.run = "over"] \in JobRows
      BY DEF TypeOK, JobRows
    <3>. QED  BY <1>3, <3>1 DEF Crash
  <2>2. worker' \in [Workers -> Threads] /\ editor' \in Editors /\ TurnsHaveJobs'
    BY <1>3, IdleType, GoneType DEF Crash, TurnsHaveJobs, Idle, Thread
  <2>. QED  BY <1>3, <2>1, <2>2, TroublesType DEF Crash, TypeOK, TurnsHaveJobs
<1>4. ASSUME NEW j \in Jobs, Expire(j)
      PROVE  TypeOK'
  <2>1. jobs' \in [Jobs -> JobRows]
    BY <1>4 DEF Expire, TypeOK, JobRows
  <2>. QED  BY <1>4, <2>1, StaysType DEF Expire, TypeOK, TurnsHaveJobs, around, history
<1>. QED  BY <1>1, <1>2, <1>3, <1>4, DispatchType, JobType, UserType DEF Next

-----------------------------------------------------------------------------
(* The inductive invariant.                                                *)

(* A copy has the mode of the row, and an interval schedule's next time on *)
(* the cadence, however old the copy is.                                   *)
Fits(copy) ==
  copy.mode = row.mode /\ (copy.mode = "interval" /\ ~ shifted => copy.next % Interval = 0)
CopiesFit == Fits(row) /\ \A h \in Holders : Fits(CopyOf(h))

(* A copy that is not stale brings nothing back, but for the user's own.   *)
Obeys(copy) == (copy.there => row.there) /\ (copy.enabled => row.enabled)
CopiesObey == \A h \in Holders \ stale : h = "editor" \/ Obeys(CopyOf(h))

(* The last job of the row is the last that was fired, as far as copies go *)
(* that are not stale, and it is the only one that may be active; between  *)
(* the two puts of a firing the dispatcher's copy has it.                  *)
FreshKnowLast ==
  \A h \in Holders \ stale : (h = Tick /\ At(Tick, "save")) \/ CopyOf(h).last = row.last
TickKnowsLast == worker[Tick].pc \in {"sync", "check"} => worker[Tick].copy.last = row.last
ActiveIsLast ==
  \A j \in Jobs : Active(jobs[j]) => j = IF At(Tick, "save") THEN worker[Tick].copy.last
                                                           ELSE row.last
LastIsKnown == Smooth => FreshKnowLast /\ TickKnowsLast /\ ActiveIsLast

IInv == TypeOK /\ CopiesFit /\ CopiesObey /\ LastIsKnown

-----------------------------------------------------------------------------
(* A step of h that leaves the row alone, and one that puts it.            *)

LEMMA KeepCopies ==
  ASSUME IInv, NEW h, Others(h), row' = row, stale \ {h} \subseteq stale', shifted => shifted',
         h \in Holders' => /\ Fits(CopyOf(h))'
                           /\ h = "editor" \/ h \in stale' \/ Obeys(CopyOf(h))'
  PROVE  CopiesFit' /\ CopiesObey'
<1>1. \A g \in Holders' : g # h => g \in Holders /\ CopyOf(g)' = CopyOf(g)
  BY DEF Others
<1>2. CopiesFit'
  BY <1>1 DEF IInv, CopiesFit, Fits
<1>3. CopiesObey'
  BY <1>1 DEF IInv, CopiesObey, Obeys
<1>. QED  BY <1>2, <1>3

LEMMA PutCopies ==
  ASSUME IInv, NEW h, NEW copy, Others(h), Puts(h, copy), shifted => shifted',
         copy.mode = row.mode,
         copy.mode = "interval" /\ ~ shifted' => copy.next % Interval = 0,
         h \in Holders' => CopyOf(h)' = copy
  PROVE  CopiesFit' /\ CopiesObey'
<1>1. \A g \in Holders' : g # h => g \in Holders /\ CopyOf(g)' = CopyOf(g)
  BY DEF Others
<1>2. row' = copy /\ \A g \in Holders : g # h => g \in stale'
  BY DEF Puts
<1>3. CopiesFit'
  BY <1>1, <1>2 DEF IInv, CopiesFit, Fits
<1>4. CopiesObey'
  BY <1>1, <1>2 DEF IInv, CopiesObey, Obeys
<1>. QED  BY <1>3, <1>4

LEMMA KeepLast ==
  ASSUME IInv, NEW h, Others(h),
         Smooth' => Smooth /\ row'.last = row.last /\ stale \ {h} \subseteq stale',
         \A j \in Jobs : Active(jobs'[j]) => Active(jobs[j]),
         IF h = Tick
         THEN /\ worker[Tick].pc # "save" /\ worker'[Tick].pc # "save"
              /\ Smooth' /\ Tick \in Holders' => CopyOf(Tick)'.last = row.last
         ELSE /\ worker'[Tick] = worker[Tick]
              /\ Smooth' /\ h \in Holders' => CopyOf(h)'.last = row.last
  PROVE  LastIsKnown'
<1>1. SUFFICES ASSUME Smooth'
               PROVE  FreshKnowLast' /\ TickKnowsLast' /\ ActiveIsLast'
  BY DEF LastIsKnown
<1>2. FreshKnowLast /\ TickKnowsLast /\ ActiveIsLast
  BY <1>1 DEF IInv, LastIsKnown
<1>3. \A g \in Holders' : g # h => g \in Holders /\ CopyOf(g)' = CopyOf(g)
  BY DEF Others
<1>4. Tick \in Workers
  BY DEF Workers
<1>5. (Tick \in Holders' <=> worker'[Tick].pc \in Holding) /\ CopyOf(Tick)' = worker'[Tick].copy
  <2>1. Tick # "editor"
    BY SchedulesAssumption
  <2>. QED  BY <1>4, <2>1 DEF Holders, Holding, CopyOf
<1>6. FreshKnowLast'
  BY <1>1, <1>2, <1>3 DEF FreshKnowLast, At
<1>7. TickKnowsLast'
  BY <1>1, <1>2, <1>5 DEF TickKnowsLast, Holding
<1>8. ActiveIsLast'
  BY <1>1, <1>2 DEF ActiveIsLast, At
<1>. QED  BY <1>6, <1>7, <1>8

-----------------------------------------------------------------------------
(* The dispatcher.                                                         *)

LEMMA SyncedIs ==
  ASSUME NEW copy \in ScheduleRows, NEW job
  PROVE  /\ Synced(copy, job).there = copy.there /\ Synced(copy, job).enabled = copy.enabled
         /\ Synced(copy, job).mode = copy.mode /\ Synced(copy, job).last = copy.last
         /\ copy.mode # "after_completion" => Synced(copy, job).next = copy.next
  BY DEF Synced, ScheduleRows

LEMMA TickIs ==
  ASSUME TypeOK
  PROVE  /\ Tick \in Workers /\ Tick # "editor"
         /\ worker[Tick] \in Threads /\ worker[Tick].copy \in ScheduleRows
         /\ worker[Tick].now \in Nat /\ row \in ScheduleRows
         /\ shifted \in BOOLEAN
  BY SchedulesAssumption DEF TypeOK, Threads, Workers

LEMMA AdvancedFits ==
  ASSUME NEW copy \in ScheduleRows, NEW now \in Nat, copy.next % Interval = 0
  PROVE  Advanced(copy, now) % Interval = 0
<1>1. PICK k \in Nat : Advanced(copy, now) = copy.next + k * Interval
  BY AdvancedType
<1>2. copy.next \in Nat /\ Interval \in Nat \ {0}
  BY SchedulesAssumption DEF ScheduleRows
<1>3. (copy.next + k * Interval) % Interval = 0
  <2>. DEFINE n == copy.next
  <2>1. n \in Nat /\ n % Interval = 0
    BY <1>2
  <2>. HIDE DEF n
  <2>2. (n + k * Interval) % Interval = 0
    BY <1>2, <2>1, OnTheCadence
  <2>. QED  BY <2>2 DEF n
<1>. QED  BY <1>1, <1>3

LEMMA LookStep ==
  ASSUME IInv, BeginTick \/ SyncLast
  PROVE  CopiesFit' /\ CopiesObey' /\ LastIsKnown'
<1>0. TypeOK
  BY DEF IInv
<1>1. ASSUME BeginTick
      PROVE  CopiesFit' /\ CopiesObey' /\ LastIsKnown'
  <2>. DEFINE t == IF row.there THEN Thread("sync", row, clock) ELSE Thread("jobs", Gone, clock)
  <2>1. /\ worker' = [worker EXCEPT ![Tick] = t]
        /\ UNCHANGED <<row, jobs, editor, stale, raced, crashed, shifted>>
    BY <1>1 DEF BeginTick, rows, history
  <2>2. t.pc \in Holding => t.copy = row
    BY DEF Thread, Holding
  <2>3. t.pc # "save" /\ worker[Tick].pc # "save"
    BY <1>1 DEF Thread, BeginTick, At
  <2>. HIDE DEF t
  <2>4. Others(Tick) /\ (Tick \in Holders' => CopyOf(Tick)' = row) /\ worker'[Tick] = t
    BY <1>0, <2>1, <2>2, TickIs, WorkerMoves
  <2>5. CopiesFit' /\ CopiesObey'
    <3>1. Fits(row)
      BY DEF IInv, CopiesFit
    <3>2. Tick \in Holders' => Fits(CopyOf(Tick))' /\ Obeys(CopyOf(Tick))'
      BY <2>1, <2>4, <3>1 DEF Fits, Obeys
    <3>. QED  BY <2>1, <2>4, <3>2, KeepCopies
  <2>6. LastIsKnown'
    BY <2>1, <2>3, <2>4, KeepLast DEF Smooth
  <2>. QED  BY <2>5, <2>6
<1>2. ASSUME SyncLast
      PROVE  CopiesFit' /\ CopiesObey' /\ LastIsKnown'
  <2>. DEFINE copy == worker[Tick].copy
              synced == IF copy.last = 0 THEN copy ELSE Synced(copy, jobs[copy.last])
              t == Thread("check", synced, worker[Tick].now)
  <2>1. /\ worker' = [worker EXCEPT ![Tick] = t]
        /\ IF synced = copy THEN UNCHANGED <<row, stale, raced>> ELSE Puts(Tick, synced)
        /\ UNCHANGED <<jobs, editor, crashed, shifted>>
        /\ worker[Tick].pc = "sync"
    BY <1>2 DEF SyncLast, around, At
  <2>2. t.copy = synced /\ t.pc = "check"
    BY DEF Thread
  <2>3. /\ synced.there = copy.there /\ synced.enabled = copy.enabled
        /\ synced.mode = copy.mode /\ synced.last = copy.last
        /\ copy.mode # "after_completion" => synced.next = copy.next
    BY <1>0, TickIs, SyncedIs
  <2>4. Tick \in Holders /\ CopyOf(Tick) = copy
    BY <1>0, <2>1, TickIs, HoldersAre DEF Holding
  <2>. HIDE DEF t, synced, copy
  <2>5. Others(Tick) /\ CopyOf(Tick)' = synced /\ worker'[Tick] = t
    BY <1>0, <2>1, <2>2, TickIs, WorkerMoves
  <2>6. synced.mode = row.mode /\ (synced.mode = "interval" /\ ~ shifted' => synced.next % Interval = 0)
    BY <2>1, <2>3, <2>4 DEF IInv, CopiesFit, Fits
  <2>7. CopiesFit' /\ CopiesObey'
    <3>1. CASE synced # copy
      BY <2>1, <2>5, <2>6, <3>1, PutCopies
    <3>2. ASSUME synced = copy
          PROVE  CopiesFit' /\ CopiesObey'
      <4>1. Fits(CopyOf(Tick))'
        BY <2>1, <2>5, <2>6, <3>2 DEF Fits
      <4>2. Tick \in stale' \/ Obeys(CopyOf(Tick))'
        BY <1>0, <2>1, <2>4, <2>5, <3>2, TickIs DEF IInv, CopiesObey, Obeys
      <4>. QED  BY <2>1, <2>5, <3>2, <4>1, <4>2, KeepCopies
    <3>. QED  BY <3>1, <3>2
  <2>8. ASSUME Smooth'
        PROVE  Smooth /\ row'.last = row.last /\ synced.last = row.last
                 /\ stale \ {Tick} \subseteq stale'
    <3>1. Smooth
      BY <1>0, <2>1, <2>8 DEF Smooth, Puts, TypeOK
    <3>2. copy.last = row.last
      BY <2>1, <3>1 DEF IInv, LastIsKnown, TickKnowsLast, copy
    <3>. QED  BY <2>1, <2>3, <3>1, <3>2 DEF Puts
  <2>9. LastIsKnown'
    BY <2>1, <2>2, <2>5, <2>8, KeepLast
  <2>. QED  BY <2>7, <2>9
<1>. QED  BY <1>1, <1>2

(* The dispatcher lets the row go, or puts it, and goes on to the jobs.    *)
LEMMA RestStep ==
  ASSUME IInv, NothingToFire \/ Postpone \/ SkipBusy
  PROVE  CopiesFit' /\ CopiesObey' /\ LastIsKnown'
<1>. DEFINE copy == worker[Tick].copy
<1>0. TypeOK /\ worker[Tick].pc = "check"
  BY DEF IInv, NothingToFire, Postpone, SkipBusy, ToFire, At
<1>1. Tick \in Holders /\ CopyOf(Tick) = copy
  BY <1>0, TickIs, HoldersAre DEF Holding
<1>2. Rests(Tick).pc = "jobs"
  BY DEF Rests, Thread
<1>3. /\ worker' = [worker EXCEPT ![Tick] = Rests(Tick)]
      /\ UNCHANGED <<jobs, editor, crashed>> /\ (shifted => shifted')
  BY DEF NothingToFire, Postpone, SkipBusy, rows, around, history
<1>4. Others(Tick) /\ Tick \notin Holders' /\ worker'[Tick].pc = "jobs"
  BY <1>0, <1>2, <1>3, TickIs, WorkerMoves DEF Holding
<1>5. ASSUME NEW new, Puts(Tick, new), new.mode = copy.mode, new.last = copy.last,
             new.mode = "interval" /\ ~ shifted' => new.next % Interval = 0
      PROVE  CopiesFit' /\ CopiesObey' /\ LastIsKnown'
  <2>1. new.mode = row.mode
    BY <1>1, <1>5 DEF IInv, CopiesFit, Fits
  <2>2. CopiesFit' /\ CopiesObey'
    BY <1>3, <1>4, <1>5, <2>1, PutCopies
  <2>3. ASSUME Smooth'
        PROVE  Smooth /\ row'.last = row.last /\ stale \ {Tick} \subseteq stale'
    <3>1. Smooth
      BY <1>0, <1>3, <1>5, <2>3 DEF Smooth, Puts, TypeOK
    <3>. QED  BY <1>0, <1>5, <3>1 DEF IInv, LastIsKnown, TickKnowsLast, Puts
  <2>4. LastIsKnown'
    BY <1>0, <1>3, <1>4, <2>3, KeepLast
  <2>. QED  BY <2>2, <2>4
<1>6. ASSUME LetsGo(Tick), UNCHANGED <<row, raced>>
      PROVE  CopiesFit' /\ CopiesObey' /\ LastIsKnown'
  <2>1. stale \ {Tick} \subseteq stale'
    BY <1>6 DEF LetsGo
  <2>2. CopiesFit' /\ CopiesObey'
    BY <1>3, <1>4, <1>6, <2>1, KeepCopies
  <2>3. LastIsKnown'
    BY <1>0, <1>3, <1>4, <1>6, <2>1, KeepLast DEF Smooth
  <2>. QED  BY <2>2, <2>3
<1>7. CASE NothingToFire
  BY <1>6, <1>7 DEF NothingToFire, rows, history
<1>8. CASE Postpone
  <2>. DEFINE new == [copy EXCEPT !.next = worker[Tick].now + Interval]
  <2>1. new.mode = copy.mode /\ new.last = copy.last
    BY <1>0, TickIs DEF ScheduleRows
  <2>2. Puts(Tick, new) /\ shifted'
    BY <1>8 DEF Postpone
  <2>. HIDE DEF new
  <2>. QED  BY <1>5, <2>1, <2>2
<1>9. CASE SkipBusy
  <2>. DEFINE new == [copy EXCEPT !.next = Advanced(copy, worker[Tick].now), !.result = "skipped"]
  <2>1. /\ new.mode = copy.mode /\ new.last = copy.last
        /\ new.next = Advanced(copy, worker[Tick].now)
    BY <1>0, TickIs DEF ScheduleRows
  <2>2. Puts(Tick, new) \/ (LetsGo(Tick) /\ UNCHANGED <<row, raced>>)
    BY <1>9 DEF SkipBusy
  <2>3. UNCHANGED shifted
    BY <1>9 DEF SkipBusy
  <2>4. copy.mode = "interval" /\ ~ shifted' => copy.next % Interval = 0
    BY <1>1, <2>3 DEF IInv, CopiesFit, Fits
  <2>5. new.mode = "interval" /\ ~ shifted' => new.next % Interval = 0
    BY <1>0, <2>1, <2>4, TickIs, AdvancedFits
  <2>. HIDE DEF new
  <2>. QED  BY <1>5, <1>6, <2>1, <2>2, <2>5
<1>. QED  BY <1>7, <1>8, <1>9

LEMMA FiredIs ==
  ASSUME NEW copy \in ScheduleRows, NEW j, NEW now
  PROVE  /\ Fired(copy, j, now).there = copy.there /\ Fired(copy, j, now).mode = copy.mode
         /\ Fired(copy, j, now).enabled => copy.enabled
         /\ Fired(copy, j, now).last = j
         /\ Fired(copy, j, now).next = IF copy.mode = "interval" THEN Advanced(copy, now)
                                                               ELSE copy.next
  BY DEF Fired, ScheduleRows

LEMMA FireStep ==
  ASSUME IInv, NEW j \in Jobs, Fire(j)
  PROVE  CopiesFit' /\ CopiesObey' /\ LastIsKnown'
<1>. DEFINE copy == worker[Tick].copy
            new == Fired(copy, j, worker[Tick].now)
            t == Thread("save", new, worker[Tick].now)
<1>0. TypeOK /\ worker[Tick].pc = "check"
  BY DEF IInv, Fire, ToFire, At
<1>1. /\ worker' = [worker EXCEPT ![Tick] = t]
      /\ UNCHANGED <<row, editor, stale, raced, crashed, shifted>>
      /\ \A i \in Jobs : i # j => jobs'[i] = jobs[i]
  BY <1>0 DEF Fire, history, TypeOK
<1>2. t.copy = new /\ t.pc = "save"
  BY DEF Thread
<1>3. Tick \in Holders /\ CopyOf(Tick) = copy
  BY <1>0, TickIs, HoldersAre DEF Holding
<1>4. /\ new.there = copy.there /\ new.mode = copy.mode /\ (new.enabled => copy.enabled)
      /\ new.last = j
      /\ new.next = IF copy.mode = "interval" THEN Advanced(copy, worker[Tick].now) ELSE copy.next
  BY <1>0, TickIs, FiredIs
<1>5. copy.mode = row.mode /\ (copy.mode = "interval" /\ ~ shifted => copy.next % Interval = 0)
  BY <1>3 DEF IInv, CopiesFit, Fits
<1>6. new.mode = "interval" /\ ~ shifted => new.next % Interval = 0
  BY <1>0, <1>4, <1>5, TickIs, AdvancedFits
<1>7. Tick \in stale \/ Obeys(copy)
  BY <1>0, <1>3, TickIs DEF IInv, CopiesObey
<1>8. ~ Waits(copy)
  BY DEF Fire, ToFire
<1>. HIDE DEF new, t
<1>9. Others(Tick) /\ CopyOf(Tick)' = new /\ worker'[Tick] = t
  BY <1>0, <1>1, <1>2, TickIs, WorkerMoves
<1>10. CopiesFit' /\ CopiesObey'
  <2>1. Fits(CopyOf(Tick))'
    BY <1>1, <1>4, <1>5, <1>6, <1>9 DEF Fits
  <2>2. Tick \in stale' \/ Obeys(CopyOf(Tick))'
    BY <1>1, <1>4, <1>7, <1>9 DEF Obeys
  <2>. QED  BY <1>1, <1>9, <2>1, <2>2, KeepCopies
<1>11. LastIsKnown'
  <2>1. SUFFICES ASSUME Smooth'
                 PROVE  FreshKnowLast' /\ TickKnowsLast' /\ ActiveIsLast'
    BY DEF LastIsKnown
  <2>2. FreshKnowLast /\ TickKnowsLast /\ ActiveIsLast
    BY <1>1, <2>1 DEF IInv, LastIsKnown, Smooth
  <2>3. FreshKnowLast'
    <3>1. \A g \in Holders' : g # Tick => g \in Holders /\ CopyOf(g)' = CopyOf(g)
      BY <1>9 DEF Others
    <3>. QED  BY <1>1, <1>2, <1>9, <2>2, <3>1 DEF FreshKnowLast, At
  <2>4. TickKnowsLast'
    BY <1>2, <1>9 DEF TickKnowsLast
  <2>5. copy.last = row.last
    BY <1>0, <2>2 DEF TickKnowsLast
  <2>6. \A i \in Jobs : ~ Active(jobs[i])
    BY <1>0, <1>8, <2>2, <2>5 DEF ActiveIsLast, Waits, At, Jobs
  <2>7. ActiveIsLast'
    BY <1>1, <1>2, <1>4, <1>9, <2>6 DEF ActiveIsLast, At
  <2>. QED  BY <2>3, <2>4, <2>7
<1>. QED  BY <1>10, <1>11

LEMMA SaveStep ==
  ASSUME IInv, SaveFired
  PROVE  CopiesFit' /\ CopiesObey' /\ LastIsKnown'
<1>. DEFINE copy == worker[Tick].copy
<1>0. TypeOK /\ worker[Tick].pc = "save"
  BY DEF IInv, SaveFired, At
<1>1. /\ worker' = [worker EXCEPT ![Tick] = Rests(Tick)] /\ Puts(Tick, copy)
      /\ UNCHANGED <<jobs, editor, crashed, shifted>>
  BY DEF SaveFired, around
<1>2. Tick \in Holders /\ CopyOf(Tick) = copy
  BY <1>0, TickIs, HoldersAre DEF Holding
<1>3. Rests(Tick).pc = "jobs"
  BY DEF Rests, Thread
<1>4. Others(Tick) /\ Tick \notin Holders' /\ worker'[Tick].pc = "jobs"
  BY <1>0, <1>1, <1>3, TickIs, WorkerMoves DEF Holding
<1>5. copy.mode = row.mode /\ (copy.mode = "interval" /\ ~ shifted' => copy.next % Interval = 0)
  BY <1>1, <1>2 DEF IInv, CopiesFit, Fits
<1>6. CopiesFit' /\ CopiesObey'
  BY <1>1, <1>4, <1>5, PutCopies
<1>7. LastIsKnown'
  <2>1. SUFFICES ASSUME Smooth'
                 PROVE  FreshKnowLast' /\ TickKnowsLast' /\ ActiveIsLast'
    BY DEF LastIsKnown
  <2>2. ActiveIsLast /\ row' = copy /\ \A g \in Holders : g # Tick => g \in stale'
    BY <1>0, <1>1, <2>1 DEF IInv, LastIsKnown, Smooth, Puts, TypeOK
  <2>3. FreshKnowLast'
    <3>1. \A g \in Holders' : g # Tick => g \in Holders
      BY <1>4 DEF Others
    <3>. QED  BY <1>4, <2>2, <3>1 DEF FreshKnowLast
  <2>4. TickKnowsLast' /\ ActiveIsLast'
    BY <1>0, <1>1, <1>4, <2>2 DEF TickKnowsLast, ActiveIsLast, At
  <2>. QED  BY <2>3, <2>4
<1>. QED  BY <1>6, <1>7

-----------------------------------------------------------------------------
(* The jobs.                                                               *)

(* A step of a thread that holds no copy, before or after.                 *)
LEMMA HandsFree ==
  ASSUME IInv, NEW w \in Workers, NEW t, worker' = [worker EXCEPT ![w] = t],
         UNCHANGED <<row, editor, stale, raced, crashed, shifted>>,
         worker[w].pc \notin Holding, t.pc \notin Holding,
         \A j \in Jobs : Active(jobs'[j]) => Active(jobs[j])
  PROVE  CopiesFit' /\ CopiesObey' /\ LastIsKnown'
<1>0. TypeOK /\ "save" \in Holding
  BY DEF IInv, Holding
<1>1. /\ Others(w) /\ w \notin Holders' /\ worker'[w] = t
      /\ w # Tick => worker'[Tick] = worker[Tick]
  BY <1>0, TickIs, WorkerMoves
<1>2. CopiesFit' /\ CopiesObey'
  BY <1>1, KeepCopies
<1>3. LastIsKnown'
  BY <1>0, <1>1, KeepLast DEF Smooth
<1>. QED  BY <1>2, <1>3

LEMMA EndedIs ==
  ASSUME NEW job \in JobRows, NEW at
  PROVE  ~ Active(Ended(job, at))
  BY DEF Ended, Active, JobRows

LEMMA JobStepInv ==
  ASSUME IInv, NEW w \in Workers, JobStep(w)
  PROVE  CopiesFit' /\ CopiesObey' /\ LastIsKnown'
<1>0. TypeOK /\ row \in ScheduleRows
  BY DEF IInv, TypeOK
<1>1. ASSUME NEW j \in Jobs, TakeJob(w, j)
      PROVE  CopiesFit' /\ CopiesObey' /\ LastIsKnown'
  <2>. DEFINE t == [pc |-> "turn", copy |-> Gone, job |-> j,
                    now |-> IF w = Tick THEN worker[Tick].now ELSE clock]
  <2>1. worker' = [worker EXCEPT ![w] = t] /\ t.pc \notin Holding /\ worker[w].pc \notin Holding
    BY <1>1 DEF TakeJob, Holding
  <2>2. \A i \in Jobs : Active(jobs'[i]) => Active(jobs[i])
    BY <1>0, <1>1 DEF TakeJob, TypeOK, JobRows, Active
  <2>. HIDE DEF t
  <2>. QED  BY <1>1, <2>1, <2>2, HandsFree DEF TakeJob, history
<1>2. CASE EndTurn(w)
  <2>. DEFINE t == [worker[w] EXCEPT !.pc = "told"]
  <2>1. worker' = [worker EXCEPT ![w] = t] /\ worker[w].pc \notin Holding
    BY <1>2 DEF EndTurn, Goes, At, Holding
  <2>2. t.pc \notin Holding
    BY <1>0 DEF TypeOK, Threads, Holding
  <2>3. worker[w].job \in Jobs
    BY <1>0, <1>2 DEF EndTurn, At, TypeOK
  <2>4. \A i \in Jobs : Active(jobs'[i]) => Active(jobs[i])
    BY <1>0, <1>2, <2>3, EndedIs DEF EndTurn, TypeOK
  <2>. HIDE DEF t
  <2>. QED  BY <1>2, <2>1, <2>2, <2>4, HandsFree DEF EndTurn, history
<1>3. Rests(w).pc \notin Holding
  BY DEF Rests, Idle, Thread, Holding
<1>4. CASE LoadForSync(w)
  <2>. DEFINE synced == Synced(row, jobs[worker[w].job])
              t == IF row.there /\ synced # row THEN Thread("put", synced, worker[w].now) ELSE Rests(w)
  <2>1. /\ worker' = [worker EXCEPT ![w] = t] /\ worker[w].pc = "told"
        /\ UNCHANGED <<row, jobs, editor, stale, raced, crashed, shifted>>
    BY <1>4 DEF LoadForSync, At, rows, history
  <2>2. /\ synced.there = row.there /\ synced.enabled = row.enabled
        /\ synced.mode = row.mode /\ synced.last = row.last
        /\ row.mode # "after_completion" => synced.next = row.next
    BY <1>0, SyncedIs
  <2>3. (t.pc \in Holding => t.copy = synced) /\ t.pc # "save"
    BY <1>3 DEF Thread, Holding
  <2>. HIDE DEF t, synced
  <2>4. /\ Others(w) /\ (w \in Holders' => CopyOf(w)' = synced) /\ worker'[w] = t
        /\ w # Tick => worker'[Tick] = worker[Tick]
    BY <1>0, <2>1, <2>3, TickIs, WorkerMoves
  <2>5. CopiesFit' /\ CopiesObey'
    <3>1. Fits(row)
      BY DEF IInv, CopiesFit
    <3>2. w \in Holders' => Fits(CopyOf(w))' /\ Obeys(CopyOf(w))'
      BY <2>1, <2>2, <2>4, <3>1 DEF Fits, Obeys
    <3>. QED  BY <2>1, <2>4, <3>2, KeepCopies
  <2>6. LastIsKnown'
    BY <2>1, <2>2, <2>3, <2>4, KeepLast DEF Smooth
  <2>. QED  BY <2>5, <2>6
<1>5. CASE PutSync(w)
  <2>. DEFINE copy == worker[w].copy
  <2>1. /\ worker' = [worker EXCEPT ![w] = Rests(w)] /\ worker[w].pc = "put" /\ Puts(w, copy)
        /\ UNCHANGED <<jobs, editor, crashed, shifted>>
    BY <1>5 DEF PutSync, At, around
  <2>2. w \in Holders /\ CopyOf(w) = copy
    BY <2>1, HoldersAre DEF Holding
  <2>3. /\ Others(w) /\ w \notin Holders' /\ worker'[w].pc # "save"
        /\ w # Tick => worker'[Tick] = worker[Tick]
    BY <1>0, <1>3, <2>1, TickIs, WorkerMoves DEF Holding
  <2>4. copy.mode = row.mode /\ (copy.mode = "interval" /\ ~ shifted' => copy.next % Interval = 0)
    BY <2>1, <2>2 DEF IInv, CopiesFit, Fits
  <2>5. CopiesFit' /\ CopiesObey'
    BY <2>1, <2>3, <2>4, PutCopies
  <2>6. ASSUME Smooth'
        PROVE  Smooth /\ row'.last = row.last /\ stale \ {w} \subseteq stale'
    <3>1. Smooth /\ w \notin stale
      BY <1>0, <2>1, <2>6 DEF Smooth, Puts, TypeOK
    <3>2. copy.last = row.last
      BY <2>1, <2>2, <3>1 DEF IInv, LastIsKnown, FreshKnowLast, At
    <3>. QED  BY <2>1, <3>1, <3>2 DEF Puts
  <2>7. LastIsKnown'
    BY <2>1, <2>3, <2>6, KeepLast
  <2>. QED  BY <2>5, <2>7
<1>. QED  BY <1>1, <1>2, <1>4, <1>5 DEF JobStep

-----------------------------------------------------------------------------
(* The users, the clock and the crash.                                     *)

LEMMA EditedIs ==
  ASSUME NEW copy \in ScheduleRows, NEW edit, NEW now
  PROVE  /\ Edited(copy, edit, now).mode = copy.mode
         /\ Edited(copy, edit, now).last = copy.last
         /\ edit # "trigger" => Edited(copy, edit, now).next = copy.next
  BY DEF Edited, ScheduleRows

LEMMA StandStill ==
  ASSUME IInv, UNCHANGED <<row, worker, editor, stale, raced, crashed, shifted>>,
         \A j \in Jobs : Active(jobs'[j]) => Active(jobs[j])
  PROVE  CopiesFit' /\ CopiesObey' /\ LastIsKnown'
<1>1. Others("editor") /\ ("editor" \in Holders' => CopyOf("editor")' = CopyOf("editor"))
  BY EditorMoves, EditorIs
<1>2. "editor" # Tick /\ ("editor" \in Holders' => "editor" \in Holders)
  BY EditorMoves, EditorIs, SchedulesAssumption
<1>3. CopiesFit' /\ CopiesObey'
  BY <1>1, <1>2, KeepCopies DEF IInv, CopiesFit, Fits
<1>4. Holders' = Holders
  BY DEF Holders
<1>5. LastIsKnown'
  BY <1>4 DEF IInv, LastIsKnown, Smooth, FreshKnowLast, TickKnowsLast, ActiveIsLast, At, CopyOf
<1>. QED  BY <1>3, <1>5

LEMMA UserStepInv ==
  ASSUME IInv, UserStep
  PROVE  CopiesFit' /\ CopiesObey' /\ LastIsKnown'
<1>0. TypeOK /\ row \in ScheduleRows /\ Fits(row) /\ "editor" # Tick
  BY SchedulesAssumption DEF IInv, TypeOK, CopiesFit
<1>1. ASSUME NEW edit \in Edits, LoadEdit(edit)
      PROVE  CopiesFit' /\ CopiesObey' /\ LastIsKnown'
  <2>. DEFINE copy == Edited(row, edit, clock)
  <2>1. /\ UNCHANGED <<row, jobs, worker, stale, raced, crashed>>
        /\ editor'.copy = copy
        /\ shifted' = (shifted \/ (edit = "trigger" /\ row.mode = "interval"))
    BY <1>1 DEF LoadEdit, rows
  <2>2. /\ copy.mode = row.mode /\ copy.last = row.last
        /\ edit # "trigger" => copy.next = row.next
    BY <1>0, EditedIs
  <2>. HIDE DEF copy
  <2>3. Others("editor") /\ CopyOf("editor")' = copy
    BY <2>1, EditorMoves
  <2>4. Fits(CopyOf("editor"))'
    BY <1>0, <2>1, <2>2, <2>3 DEF Fits
  <2>5. CopiesFit' /\ CopiesObey'
    BY <2>1, <2>3, <2>4, KeepCopies
  <2>6. LastIsKnown'
    BY <1>0, <2>1, <2>2, <2>3, KeepLast DEF Smooth
  <2>. QED  BY <2>5, <2>6
<1>2. CASE PutEdit
  <2>. DEFINE copy == editor.copy
  <2>1. /\ UNCHANGED <<jobs, worker, crashed, shifted>> /\ Puts("editor", copy)
        /\ editor.pc = "put" /\ editor'.pc = "rest"
    BY <1>2 DEF PutEdit, around, Resting
  <2>2. "editor" \in Holders /\ CopyOf("editor") = copy
    BY <2>1, EditorIs
  <2>3. Others("editor") /\ "editor" \notin Holders'
    BY <2>1, EditorMoves
  <2>4. copy.mode = row.mode /\ (copy.mode = "interval" /\ ~ shifted' => copy.next % Interval = 0)
    BY <2>1, <2>2 DEF IInv, CopiesFit, Fits
  <2>5. CopiesFit' /\ CopiesObey'
    BY <2>1, <2>3, <2>4, PutCopies
  <2>6. ASSUME Smooth'
        PROVE  Smooth /\ row'.last = row.last /\ stale \ {"editor"} \subseteq stale'
    <3>1. Smooth /\ "editor" \notin stale
      BY <1>0, <2>1, <2>6 DEF Smooth, Puts, TypeOK
    <3>2. copy.last = row.last
      BY <1>0, <2>2, <3>1 DEF IInv, LastIsKnown, FreshKnowLast
    <3>. QED  BY <2>1, <3>1, <3>2 DEF Puts
  <2>7. LastIsKnown'
    BY <1>0, <2>1, <2>3, <2>6, KeepLast
  <2>. QED  BY <2>5, <2>7
<1>3. CASE Delete
  <2>1. /\ UNCHANGED <<jobs, worker, editor, raced, crashed, shifted>> /\ stale' = Holders
        /\ row'.mode = row.mode /\ row'.next = row.next /\ row'.last = row.last
    BY <1>0, <1>3 DEF Delete, history, ScheduleRows
  <2>2. Holders' = Holders /\ \A h : CopyOf(h)' = CopyOf(h)
    BY <2>1 DEF Holders, CopyOf
  <2>3. CopiesFit' /\ CopiesObey'
    BY <2>1, <2>2 DEF IInv, CopiesFit, CopiesObey, Fits
  <2>4. LastIsKnown'
    BY <2>1, <2>2
    DEF IInv, LastIsKnown, Smooth, FreshKnowLast, TickKnowsLast, ActiveIsLast, At
  <2>. QED  BY <2>3, <2>4
<1>4. CASE DeleteProfile \/ StartChat \/ EndChat
  BY <1>4, StandStill DEF DeleteProfile, StartChat, EndChat, rows, history
<1>5. ASSUME NEW j \in Jobs, CancelWork(j)
      PROVE  CopiesFit' /\ CopiesObey' /\ LastIsKnown'
  <2>1. \A i \in Jobs : Active(jobs'[i]) => Active(jobs[i])
    BY <1>0, <1>5, EndedIs DEF CancelWork, TypeOK
  <2>. QED  BY <1>5, <2>1, StandStill DEF CancelWork, history
<1>. QED  BY <1>1, <1>2, <1>3, <1>4, <1>5 DEF UserStep

LEMMA InvStep ==
  ASSUME IInv, [Next]_vars
  PROVE  IInv'
<1>0. TypeOK /\ TypeOK'
  BY TypeStep DEF IInv
<1>1. ASSUME UNCHANGED vars \/ Tock
      PROVE  CopiesFit' /\ CopiesObey' /\ LastIsKnown'
  BY <1>1, StandStill DEF vars, rows, history, Tock
<1>2. ASSUME NEW j \in Jobs, Expire(j)
      PROVE  CopiesFit' /\ CopiesObey' /\ LastIsKnown'
  <2>1. \A i \in Jobs : Active(jobs'[i]) => Active(jobs[i])
    BY <1>0, <1>2 DEF Expire, TypeOK, JobRows, Active
  <2>. QED  BY <1>2, <2>1, StandStill DEF Expire, history
<1>3. ASSUME Crash
      PROVE  CopiesFit' /\ CopiesObey' /\ LastIsKnown'
  <2>1. Holders' = {}
    BY <1>3 DEF Crash, Holders, Idle, Thread, Resting
  <2>2. CopiesFit' /\ CopiesObey'
    BY <1>3, <2>1 DEF Crash, CopiesFit, CopiesObey, Fits, IInv
  <2>3. LastIsKnown'
    BY <1>3 DEF Crash, LastIsKnown, Smooth
  <2>. QED  BY <2>2, <2>3
<1>4. ASSUME DispatchStep
      PROVE  CopiesFit' /\ CopiesObey' /\ LastIsKnown'
  BY <1>4, LookStep, RestStep, FireStep, SaveStep DEF DispatchStep
<1>. QED  BY <1>0, <1>1, <1>2, <1>3, <1>4, JobStepInv, UserStepInv DEF Next, IInv

LEMMA InvInit ==
  ASSUME Init
  PROVE  IInv
<1>1. TypeOK
  <2>1. row \in ScheduleRows
    <3>1. PICK mode \in Modes, existing \in BOOLEAN :
            row = [there |-> TRUE, mode |-> mode, existing |-> existing, enabled |-> TRUE,
                   next |-> 0, last |-> 0, result |-> "none"]
      BY DEF Init
    <3>. QED  BY <3>1 DEF ScheduleRows, Results
  <2>2. jobs \in [Jobs -> JobRows] /\ worker \in [Workers -> Threads] /\ editor \in Editors
    BY IdleType, GoneType DEF Init
  <2>3. clock \in 0..MaxTime /\ troubles \in 0..MaxTroubles
    BY SchedulesAssumption DEF Init
  <2>4. \A w \in Workers : worker[w].pc = "idle"
    BY DEF Init, Idle, Thread
  <2>. QED  BY <2>1, <2>2, <2>3, <2>4 DEF Init, TypeOK
<1>2. Holders = {}
  BY DEF Init, Holders, Idle, Thread, Resting
<1>3. CopiesFit /\ CopiesObey
  <2>1. row.next % Interval = 0
    <3>1. 0 % Interval = 0
      BY SchedulesAssumption
    <3>. QED  BY <3>1 DEF Init
  <2>. QED  BY <1>2, <2>1 DEF CopiesFit, CopiesObey, Fits
<1>4. LastIsKnown
  <2>1. worker[Tick].pc = "idle"
    BY DEF Init, Idle, Thread, Workers
  <2>2. \A j \in Jobs : ~ Active(jobs[j])
    BY DEF Init, NoJob, Active
  <2>. QED  BY <1>2, <2>1, <2>2 DEF LastIsKnown, FreshKnowLast, TickKnowsLast, ActiveIsLast
<1>. QED  BY <1>1, <1>3, <1>4 DEF IInv

-----------------------------------------------------------------------------
(* The theorems.                                                           *)

(* The inductive invariant holds in every reachable state.                 *)
THEOREM SchedulesInvariant == Spec => []IInv
  BY InvInit, InvStep, PTL DEF Spec

(* Every variable stays within its type.                                   *)
THEOREM SchedulesTypeOK == Spec => []TypeOK
<1>1. IInv => TypeOK
  BY DEF IInv
<1>. QED  BY <1>1, SchedulesInvariant, PTL

(* dispatch_due_agent_schedules has one job of a schedule under way, as    *)
(* long as no stale copy was put and the daemon did not die.               *)
THEOREM OneJobIsUnderWay == Spec => []OneActiveJob
<1>1. IInv => OneActiveJob
  <2>1. SUFFICES ASSUME IInv, Smooth
                 PROVE  Cardinality({j \in Jobs : Active(jobs[j])}) <= 1
    BY DEF OneActiveJob
  <2>. DEFINE last == IF At(Tick, "save") THEN worker[Tick].copy.last ELSE row.last
              active == {j \in Jobs : Active(jobs[j])}
  <2>2. active \subseteq {last}
    BY <2>1 DEF IInv, LastIsKnown, ActiveIsLast
  <2>. HIDE DEF last, active
  <2>3. IsFiniteSet({last}) /\ Cardinality({last}) = 1
    BY FS_Singleton
  <2>4. Cardinality(active) <= Cardinality({last})
    BY <2>2, <2>3, FS_Subset
  <2>. QED  BY <2>3, <2>4 DEF active
<1>. QED  BY <1>1, SchedulesInvariant, PTL

(* advance_interval_schedule_cadence never leaves the cadence, and no copy *)
(* of the row takes it off.                                                *)
THEOREM IntervalKeepsItsCadence == Spec => []CadenceIsKept
<1>1. IInv => CadenceIsKept
  BY DEF IInv, CopiesFit, Fits, CadenceIsKept
<1>. QED  BY <1>1, SchedulesInvariant, PTL

(* Only the user, or a copy that was overtaken, brings back what the user  *)
(* switched off or deleted.                                                *)
THEOREM TheUsersWordStands == Spec => UsersWordStands
<1>. DEFINE A == (row'.there /\ ~ row.there) \/ (row'.enabled /\ ~ row.enabled)
                   => editor'.pc # editor.pc \/ raced'
<1>1. ASSUME IInv, [Next]_vars
      PROVE  [A]_vars
  <2>0. TypeOK
    BY <1>1 DEF IInv
  <2>1. ASSUME NEW h \in Holders, NEW copy, Puts(h, copy), h # "editor",
               copy.there => CopyOf(h).there, copy.enabled => CopyOf(h).enabled
        PROVE  A
    BY <1>1, <2>1 DEF IInv, CopiesObey, Obeys, Puts
  <2>2. ASSUME row'.there = row.there /\ row'.enabled = row.enabled
        PROVE  A
    BY <2>2
  <2>3. ASSUME DispatchStep
        PROVE  A
    <3>. DEFINE copy == worker[Tick].copy
    <3>1. ASSUME worker[Tick].pc \in Holding
          PROVE  Tick \in Holders /\ CopyOf(Tick) = copy /\ Tick # "editor"
      BY <2>0, <3>1, TickIs, HoldersAre
    <3>2. ASSUME SyncLast
          PROVE  A
      <4>. DEFINE synced == IF copy.last = 0 THEN copy ELSE Synced(copy, jobs[copy.last])
      <4>1. synced.there = copy.there /\ synced.enabled = copy.enabled
        BY <2>0, TickIs, SyncedIs
      <4>2. Puts(Tick, synced) \/ row' = row
        BY <3>2 DEF SyncLast
      <4>3. worker[Tick].pc \in Holding
        BY <3>2 DEF SyncLast, At, Holding
      <4>. HIDE DEF synced
      <4>. QED  BY <2>1, <2>2, <3>1, <4>1, <4>2, <4>3
    <3>3. ASSUME Postpone
          PROVE  A
      <4>. DEFINE new == [copy EXCEPT !.next = worker[Tick].now + Interval]
      <4>1. new.there = copy.there /\ new.enabled = copy.enabled
        BY <2>0, TickIs DEF ScheduleRows
      <4>2. Puts(Tick, new)
        BY <3>3 DEF Postpone
      <4>3. worker[Tick].pc \in Holding
        BY <3>3 DEF Postpone, ToFire, At, Holding
      <4>. HIDE DEF new
      <4>. QED  BY <2>1, <3>1, <4>1, <4>2, <4>3
    <3>4. ASSUME SkipBusy
          PROVE  A
      <4>. DEFINE new == [copy EXCEPT !.next = Advanced(copy, worker[Tick].now),
                                      !.result = "skipped"]
      <4>1. new.there = copy.there /\ new.enabled = copy.enabled
        BY <2>0, TickIs DEF ScheduleRows
      <4>2. Puts(Tick, new) \/ row' = row
        BY <3>4 DEF SkipBusy
      <4>3. worker[Tick].pc \in Holding
        BY <3>4 DEF SkipBusy, ToFire, At, Holding
      <4>. HIDE DEF new
      <4>. QED  BY <2>1, <2>2, <3>1, <4>1, <4>2, <4>3
    <3>5. ASSUME SaveFired
          PROVE  A
      BY <2>1, <3>1, <3>5 DEF SaveFired, At, Holding
    <3>6. ASSUME row' = row
          PROVE  A
      BY <2>2, <3>6
    <3>. QED
      BY <2>3, <3>2, <3>3, <3>4, <3>5, <3>6 DEF DispatchStep, BeginTick, NothingToFire, Fire, rows
  <2>4. ASSUME NEW w \in Workers, JobStep(w)
        PROVE  A
    <3>1. ASSUME PutSync(w)
          PROVE  A
      <4>1. w \in Holders /\ CopyOf(w) = worker[w].copy /\ w # "editor"
        BY <3>1, HoldersAre DEF PutSync, At, Holding
      <4>. QED  BY <2>1, <3>1, <4>1 DEF PutSync
    <3>. QED  BY <2>2, <2>4, <3>1 DEF JobStep, TakeJob, EndTurn, LoadForSync, rows
  <2>5. ASSUME UserStep
        PROVE  A
    <3>1. ASSUME PutEdit
          PROVE  A
      BY <3>1 DEF PutEdit, Resting
    <3>2. ASSUME Delete
          PROVE  A
      BY <2>0, <3>2, TickIs DEF Delete, ScheduleRows
    <3>. QED
      BY <2>2, <2>5, <3>1, <3>2
      DEF UserStep, LoadEdit, DeleteProfile, StartChat, EndChat, CancelWork, rows
  <2>. QED
    BY <1>1, <2>2, <2>3, <2>4, <2>5 DEF Next, Tock, Crash, Expire, rows
<1>. QED  BY <1>1, SchedulesInvariant, PTL DEF Spec, UsersWordStands
-----------------------------------------------------------------------------
(* FiresInItsMode: what the modes promise of the firings.                  *)

(* A turn has the claim of its job for itself, and the pass that runs it   *)
(* began before the job ended, if another ended it first.                  *)
OneTurnEach ==
  /\ \A w \in Workers : worker[w].now <= clock
  /\ \A w \in Workers : At(w, "turn") =>
       LET job == jobs[worker[w].job] IN
       /\ job.status # "none"
       /\ job.status = "running" => job.claimed
       /\ job.status = "ended" => worker[w].now <= job.finished
  /\ \A v, w \in Workers :
       At(v, "turn") /\ At(w, "turn") /\ worker[v].job = worker[w].job => v = w

(* The row that counts: between the two puts of a firing it is still the   *)
(* dispatcher's copy. The jobs are fired in order, the newest is its last. *)
Known == IF At(Tick, "save") THEN worker[Tick].copy ELSE row
Looking == worker[Tick].pc \in {"sync", "check"}

FiresInOrder ==
  /\ \A j \in Fires : /\ j <= Known.last /\ jobs[j].fired <= worker[Tick].now
                       /\ \A i \in Jobs : i < j => i \in Fires
  /\ Known.last # 0 => Known.last \in Fires

(* Who could enable the schedule, or fire it, has been asked to, and the   *)
(* asking has not been spent on a firing.                                  *)
Enabling ==
  \/ row.enabled
  \/ Looking /\ worker[Tick].copy.enabled
  \/ "editor" \in Holders \ stale /\ editor.copy.enabled
AsksCover ==
  row.mode = "once" =>
    /\ Cardinality(Fires) <= asks
    /\ ~ At(Tick, "save") /\ Enabling => Cardinality(Fires) < asks
    /\ At(Tick, "save") => ~ worker[Tick].copy.enabled

(* The next time of an interval schedule is one for all that may put it,   *)
(* and every firing so far was before it.                                  *)
NextIsAhead ==
  row.mode = "interval" /\ ~ shifted =>
    /\ \A h \in Holders \ stale : (h = Tick /\ At(Tick, "save")) \/ CopyOf(h).next = row.next
    /\ Looking => worker[Tick].copy.next = row.next
    /\ \A j \in Fires : jobs[j].fired < Known.next
    /\ \A i, j \in Fires : i # j => jobs[i].fired \div Interval # jobs[j].fired \div Interval

(* The dispatcher that looks at a job that was over when it synced the     *)
(* row has a next time that rests from the job.                            *)
Rested(copy, job) == Active(job) \/ job.unseen \/ copy.next >= job.finished + Interval
RestIsKept ==
  row.mode = "after_completion" =>
    /\ At(Tick, "check") /\ worker[Tick].copy.last # 0 =>
         Rested(worker[Tick].copy, jobs[worker[Tick].copy.last])
    /\ \A i, j \in Fires : i < j => jobs[i].unseen \/ jobs[j].fired >= jobs[i].finished + Interval

ModesKept == Smooth => FiresInOrder /\ AsksCover /\ NextIsAhead /\ RestIsKept

(* What a step that fires nothing does to the firings so far.              *)
FiringsKept ==
  \A j \in Jobs :
    /\ jobs'[j].status = "none" <=> jobs[j].status = "none"
    /\ jobs'[j].fired = jobs[j].fired
    /\ jobs[j].unseen => jobs'[j].unseen
    /\ ~ Active(jobs[j]) => ~ Active(jobs'[j]) /\ jobs'[j].finished <= jobs[j].finished
    /\ Active(jobs[j]) /\ ~ Active(jobs'[j]) /\ row.mode = "after_completion" /\ At(Tick, "check")
         => jobs'[j].unseen

LEMMA NothingFired ==
  ASSUME TypeOK, jobs' = jobs
  PROVE  FiringsKept
<1>1. \A j \in Jobs : jobs[j].finished \in Nat
  BY DEF TypeOK, JobRows
<1>. QED  BY <1>1 DEF FiringsKept

LEMMA FiresAre ==
  /\ Fires \subseteq Jobs /\ IsFiniteSet(Fires) /\ Cardinality(Fires) \in Nat
  /\ FiringsKept => Fires' = Fires
<1>1. IsFiniteSet(Jobs)
  BY FS_Interval, SchedulesAssumption DEF Jobs
<1>2. Fires \subseteq Jobs
  BY DEF Fires
<1>3. IsFiniteSet(Fires) /\ Cardinality(Fires) \in Nat
  BY <1>1, <1>2, FS_Subset, FS_CardinalityType
<1>4. FiringsKept => Fires' = Fires
  BY DEF FiringsKept, Fires
<1>. QED  BY <1>2, <1>3, <1>4

LEMMA FiringTypes ==
  ASSUME TypeOK
  PROVE  /\ \A j \in Jobs : jobs[j].fired \in Nat /\ jobs[j].finished \in Nat
         /\ \A w \in Workers : worker[w].now \in Nat
         /\ Interval \in Nat \ {0}
  BY SchedulesAssumption DEF TypeOK, JobRows, Threads

LEMMA OrderKept ==
  ASSUME TypeOK, FiringsKept, FiresInOrder, Known'.last = Known.last,
         worker'[Tick].now \in Nat, worker[Tick].now <= worker'[Tick].now
  PROVE  FiresInOrder'
<1>1. Fires' = Fires /\ Fires \subseteq Jobs
  BY FiresAre
<1>2. \A j \in Fires : jobs'[j].fired = jobs[j].fired /\ jobs[j].fired \in Nat
  BY <1>1, FiringTypes DEF FiringsKept
<1>3. worker[Tick].now \in Nat
  BY FiringTypes DEF Workers
<1>4. \A j \in Fires : jobs'[j].fired <= worker'[Tick].now
  BY <1>2, <1>3 DEF FiresInOrder
<1>. QED  BY <1>1, <1>4 DEF FiresInOrder

LEMMA AsksKept ==
  ASSUME FiringsKept, AsksCover, row'.mode = row.mode,
         row.mode = "once" =>
           /\ asks' = asks
           /\ At(Tick, "save")' => At(Tick, "save") /\ worker'[Tick].copy = worker[Tick].copy
           /\ ~ At(Tick, "save")' /\ Enabling' => ~ At(Tick, "save") /\ Enabling
  PROVE  AsksCover'
<1>1. Fires' = Fires
  BY FiresAre
<1>. QED  BY <1>1 DEF AsksCover

LEMMA NextKept ==
  ASSUME TypeOK, FiringsKept, NextIsAhead, NEW h, Others(h), shifted => shifted',
         row'.mode = row.mode, stale \ {h} \subseteq stale',
         row.mode = "interval" /\ ~ shifted' =>
           /\ row'.next = row.next
           /\ h \in Holders' => CopyOf(h)'.next = row.next
           /\ IF h = Tick
              THEN /\ worker[Tick].pc # "save" /\ worker'[Tick].pc # "save"
                   /\ Looking' => worker'[Tick].copy.next = row.next
              ELSE worker'[Tick] = worker[Tick]
  PROVE  NextIsAhead'
<1>1. SUFFICES ASSUME row.mode = "interval", ~ shifted'
               PROVE  /\ \A g \in Holders' \ stale' :
                            (g = Tick /\ At(Tick, "save")') \/ CopyOf(g)'.next = row'.next
                      /\ Looking' => worker'[Tick].copy.next = row'.next
                      /\ \A j \in Fires' : jobs'[j].fired < Known'.next
                      /\ \A i, j \in Fires' : i # j =>
                            jobs'[i].fired \div Interval # jobs'[j].fired \div Interval
  BY DEF NextIsAhead
<1>2. /\ \A g \in Holders \ stale : (g = Tick /\ At(Tick, "save")) \/ CopyOf(g).next = row.next
      /\ Looking => worker[Tick].copy.next = row.next
      /\ \A j \in Fires : jobs[j].fired < Known.next
      /\ \A i, j \in Fires : i # j => jobs[i].fired \div Interval # jobs[j].fired \div Interval
  BY <1>1 DEF NextIsAhead
<1>3. \A g \in Holders' : g # h => g \in Holders /\ CopyOf(g)' = CopyOf(g)
  BY DEF Others
<1>4. \A g \in Holders' \ stale' :
        (g = Tick /\ At(Tick, "save")') \/ CopyOf(g)'.next = row'.next
  <2>. SUFFICES ASSUME NEW g \in Holders' \ stale'
                PROVE  (g = Tick /\ At(Tick, "save")') \/ CopyOf(g)'.next = row'.next
    OBVIOUS
  <2>1. CASE g = h
    BY <1>1, <2>1
  <2>2. CASE g # h
    <3>1. g \in Holders \ stale /\ CopyOf(g)' = CopyOf(g)
      BY <1>3, <2>2
    <3>. QED  BY <1>1, <1>2, <2>2, <3>1 DEF At
  <2>. QED  BY <2>1, <2>2
<1>5. Looking' => worker'[Tick].copy.next = row'.next
  BY <1>1, <1>2 DEF Looking
<1>6. Known'.next = Known.next
  BY <1>1 DEF Known, At
<1>7. Fires' = Fires /\ \A j \in Fires : jobs'[j].fired = jobs[j].fired
  BY FiresAre DEF FiringsKept
<1>. QED  BY <1>2, <1>4, <1>5, <1>6, <1>7

LEMMA RestKept ==
  ASSUME TypeOK, ActiveIsLast, FiresInOrder, FiringsKept, RestIsKept, row'.mode = row.mode,
         \A j \in Jobs : jobs'[j].finished \in Nat,
         At(Tick, "check")' => At(Tick, "check") /\ worker'[Tick] = worker[Tick]
  PROVE  RestIsKept'
<1>1. SUFFICES ASSUME row.mode = "after_completion"
               PROVE  /\ At(Tick, "check")' /\ worker'[Tick].copy.last # 0 =>
                           Rested(worker'[Tick].copy, jobs'[worker'[Tick].copy.last])
                      /\ \A i, j \in Fires' : i < j =>
                           jobs'[i].unseen \/ jobs'[j].fired >= jobs'[i].finished + Interval
  BY DEF RestIsKept, Rested, Active
<1>2. ASSUME At(Tick, "check")', worker'[Tick].copy.last # 0
      PROVE  Rested(worker'[Tick].copy, jobs'[worker'[Tick].copy.last])
  <2>. DEFINE copy == worker[Tick].copy
              j == copy.last
  <2>1. At(Tick, "check") /\ worker'[Tick] = worker[Tick]
    BY <1>2
  <2>2. j \in Jobs /\ copy.next \in Nat
    BY <1>2, <2>1, TickIs DEF ScheduleRows
  <2>3. Rested(copy, jobs[j])
    BY <1>1, <1>2, <2>1 DEF RestIsKept
  <2>4. /\ jobs[j].unseen => jobs'[j].unseen
        /\ ~ Active(jobs[j]) => jobs'[j].finished <= jobs[j].finished
        /\ Active(jobs[j]) /\ ~ Active(jobs'[j]) => jobs'[j].unseen
    BY <1>1, <2>1, <2>2 DEF FiringsKept
  <2>5. jobs[j].finished \in Nat /\ jobs'[j].finished \in Nat /\ Interval \in Nat
    BY <2>2, FiringTypes
  <2>. HIDE DEF copy, j
  <2>6. Rested(copy, jobs'[j])
    BY <2>2, <2>3, <2>4, <2>5 DEF Rested
  <2>. QED  BY <2>1, <2>6 DEF copy, j
<1>3. ASSUME NEW i \in Fires, NEW j \in Fires, i < j
      PROVE  jobs'[i].unseen \/ jobs'[j].fired >= jobs'[i].finished + Interval
  <2>1. i \in Jobs /\ j \in Jobs /\ i \in Int /\ j \in Int
    BY FiresAre DEF Jobs
  <2>2. ~ Active(jobs[i])
    <3>1. Active(jobs[i]) => i = Known.last
      BY <2>1 DEF ActiveIsLast, Known
    <3>2. j <= Known.last
      BY DEF FiresInOrder
    <3>. QED  BY <1>3, <2>1, <3>1, <3>2
  <2>3. jobs'[i].finished <= jobs[i].finished /\ jobs'[j].fired = jobs[j].fired
          /\ (jobs[i].unseen => jobs'[i].unseen)
    BY <2>1, <2>2 DEF FiringsKept
  <2>4. jobs[i].unseen \/ jobs[j].fired >= jobs[i].finished + Interval
    BY <1>1, <1>3 DEF RestIsKept
  <2>5. /\ jobs[i].finished \in Nat /\ jobs'[i].finished \in Nat /\ jobs[j].fired \in Nat
        /\ Interval \in Nat
    BY <2>1, FiringTypes
  <2>. QED  BY <2>3, <2>4, <2>5
<1>4. Fires' = Fires
  BY FiresAre
<1>. QED  BY <1>2, <1>3, <1>4

(* The parts of the invariant, where no stale copy was put.                *)
LEMMA KnownNow ==
  ASSUME IInv, OneTurnEach, ModesKept, Smooth
  PROVE  /\ TypeOK /\ FreshKnowLast /\ TickKnowsLast /\ ActiveIsLast
         /\ FiresInOrder /\ AsksCover /\ NextIsAhead /\ RestIsKept
  BY DEF IInv, LastIsKnown, ModesKept

(* The dispatcher loads the row and brings it up to date.                  *)
LEMMA LookKeepsModes ==
  ASSUME IInv, OneTurnEach, ModesKept, TypeOK', Smooth', BeginTick \/ SyncLast
  PROVE  ModesKept'
<1>0. TypeOK /\ worker'[Tick].now \in Nat /\ \A j \in Jobs : jobs'[j].finished \in Nat
  BY TickIs, FiringTypes DEF IInv, TypeOK, Threads, JobRows
<1>1. CASE BeginTick
  <2>. DEFINE t == IF row.there THEN Thread("sync", row, clock) ELSE Thread("jobs", Gone, clock)
  <2>1. /\ worker' = [worker EXCEPT ![Tick] = t]
        /\ UNCHANGED <<row, jobs, editor, stale, raced, crashed, shifted, asks>>
        /\ worker[Tick].pc \in {"idle", "jobs"}
    BY <1>1 DEF BeginTick, rows, history, At
  <2>2. (t.pc = "sync" => t.copy = row) /\ t.now = clock /\ t.pc \in {"sync", "jobs"}
    BY DEF Thread
  <2>. HIDE DEF t
  <2>3. /\ Others(Tick) /\ worker'[Tick] = t /\ CopyOf(Tick)' = t.copy
        /\ Tick \in Holders' <=> t.pc \in Holding
    BY <1>0, <2>1, TickIs, WorkerMoves
  <2>4. Smooth
    BY <2>1 DEF Smooth
  <2>5. FiringsKept /\ Known = row /\ Known' = row
    BY <1>0, <2>1, <2>2, <2>3, NothingFired DEF Known, At
  <2>6. FiresInOrder'
    <3>1. worker[Tick].now <= worker'[Tick].now
      BY <1>0, <2>2, <2>3, TickIs DEF OneTurnEach
    <3>. QED  BY <1>0, <2>4, <2>5, <3>1, OrderKept, KnownNow
  <2>7. AsksCover'
    <3>1. ~ At(Tick, "save")' /\ ~ At(Tick, "save")
      BY <2>1, <2>2, <2>3 DEF At
    <3>2. Enabling' => Enabling
      <4>1. "editor" \in Holders' <=> "editor" \in Holders
        BY <2>3, TickIs, <1>0 DEF Others
      <4>. QED  BY <2>1, <2>2, <2>3, <4>1 DEF Enabling, Looking
    <3>. QED  BY <2>1, <2>4, <2>5, <3>1, <3>2, AsksKept, KnownNow
  <2>8. NextIsAhead'
    <3>1. Tick \in Holders' => CopyOf(Tick)'.next = row.next
      BY <2>2, <2>3 DEF Holding
    <3>2. worker[Tick].pc # "save" /\ worker'[Tick].pc # "save"
            /\ (Looking' => worker'[Tick].copy.next = row.next)
      BY <2>1, <2>2, <2>3 DEF Looking
    <3>. QED  BY <1>0, <2>1, <2>3, <2>4, <2>5, <3>1, <3>2, NextKept, KnownNow
  <2>9. RestIsKept'
    <3>1. ~ At(Tick, "check")'
      BY <2>2, <2>3 DEF At
    <3>. QED  BY <1>0, <2>1, <2>4, <2>5, <3>1, RestKept, KnownNow
  <2>. QED  BY <2>6, <2>7, <2>8, <2>9 DEF ModesKept
<1>2. CASE SyncLast
  <2>. DEFINE copy == worker[Tick].copy
              synced == IF copy.last = 0 THEN copy ELSE Synced(copy, jobs[copy.last])
              t == Thread("check", synced, worker[Tick].now)
  <2>1. /\ worker' = [worker EXCEPT ![Tick] = t]
        /\ IF synced = copy THEN UNCHANGED <<row, stale, raced>> ELSE Puts(Tick, synced)
        /\ UNCHANGED <<jobs, editor, crashed, shifted, asks>>
        /\ worker[Tick].pc = "sync"
    BY <1>2 DEF SyncLast, around, At
  <2>2. t.copy = synced /\ t.pc = "check" /\ t.now = worker[Tick].now
    BY DEF Thread
  <2>3. /\ synced.enabled = copy.enabled /\ synced.mode = copy.mode /\ synced.last = copy.last
        /\ copy.mode # "after_completion" => synced.next = copy.next
    BY <1>0, TickIs, SyncedIs
  <2>4. Tick \in Holders /\ CopyOf(Tick) = copy
    BY <1>0, <2>1, TickIs, HoldersAre DEF Holding
  <2>5. copy.mode = "after_completion" /\ copy.last # 0 => Rested(synced, jobs[copy.last])
    <3>. SUFFICES ASSUME copy.mode = "after_completion", copy.last # 0, ~ Active(jobs[copy.last])
                  PROVE  synced.next >= jobs[copy.last].finished + Interval
      BY DEF Rested
    <3>1. copy \in ScheduleRows /\ copy.last \in Jobs
      BY <1>0, TickIs DEF ScheduleRows
    <3>2. synced.next = jobs[copy.last].finished + Interval
      BY <3>1 DEF Synced, ScheduleRows
    <3>3. jobs[copy.last].finished + Interval \in Nat
      BY <1>0, <3>1, FiringTypes
    <3>. QED  BY <3>2, <3>3
  <2>6. copy.mode = row.mode
    BY <2>4 DEF IInv, CopiesFit, Fits
  <2>. HIDE DEF t, synced
  <2>7. /\ Others(Tick) /\ worker'[Tick] = t /\ CopyOf(Tick)' = t.copy
    BY <1>0, <2>1, TickIs, WorkerMoves
  <2>8. Smooth /\ stale \ {Tick} \subseteq stale'
          /\ (row' = row \/ row' = synced)
    BY <1>0, <2>1 DEF Smooth, Puts, TypeOK
  <2>9. copy.last = row.last /\ row'.mode = row.mode
    BY <2>1, <2>3, <2>6, <2>8, KnownNow DEF TickKnowsLast
  <2>10. FiringsKept /\ Known'.last = Known.last
    BY <1>0, <2>1, <2>2, <2>3, <2>7, <2>8, <2>9, NothingFired DEF Known, At
  <2>11. FiresInOrder'
    <3>1. worker[Tick].now <= worker'[Tick].now
      BY <1>0, <2>2, <2>7
    <3>. QED  BY <1>0, <2>8, <2>10, <3>1, OrderKept, KnownNow
  <2>12. AsksCover'
    <3>1. ~ At(Tick, "save")' /\ ~ At(Tick, "save")
      BY <2>1, <2>2, <2>7 DEF At
    <3>2. Enabling' => Enabling
      <4>1. "editor" \in Holders' \ stale' => "editor" \in Holders \ stale
        BY <2>7, <2>8, TickIs, <1>0 DEF Others
      <4>. QED  BY <2>1, <2>2, <2>3, <2>7, <2>8, <4>1 DEF Enabling, Looking
    <3>. QED  BY <2>1, <2>8, <2>9, <2>10, <3>1, <3>2, AsksKept, KnownNow
  <2>13. NextIsAhead'
    <3>1. row.mode = "interval" /\ ~ shifted' => copy.next = row.next
      BY <2>1, <2>8, KnownNow DEF NextIsAhead, Looking
    <3>2. row.mode = "interval" /\ ~ shifted' =>
            row'.next = row.next /\ CopyOf(Tick)'.next = row.next
              /\ worker'[Tick].copy.next = row.next
      BY <2>2, <2>3, <2>6, <2>7, <2>8, <3>1
    <3>3. worker[Tick].pc # "save" /\ worker'[Tick].pc # "save"
      BY <2>1, <2>2, <2>7
    <3>. QED  BY <1>0, <2>1, <2>7, <2>8, <2>9, <2>10, <3>2, <3>3, NextKept, KnownNow
  <2>14. RestIsKept'
    <3>1. row.mode = "after_completion" /\ copy.last # 0 => Rested(synced, jobs[copy.last])
      BY <2>5, <2>6
    <3>2. Fires' = Fires
      BY <2>10, FiresAre
    <3>. QED
      BY <2>1, <2>2, <2>3, <2>7, <2>8, <2>9, <3>1, <3>2, KnownNow DEF RestIsKept
  <2>. QED  BY <2>11, <2>12, <2>13, <2>14 DEF ModesKept
<1>. QED  BY <1>1, <1>2

(* The cadence: the next time is after now, and times on either side of a  *)
(* point of it are in different intervals.                                 *)
LEMMA DivBounds ==
  ASSUME NEW n \in Nat, NEW d \in Nat \ {0}
  PROVE  n \div d \in Nat /\ (n \div d) * d <= n /\ n < (n \div d + 1) * d
<1>. DEFINE q == n \div d
<1>1. q \in Nat
  BY DivType
<1>2. n = q * d + (n % d) /\ (n % d) \in 0..(d - 1)
  OBVIOUS
<1>. HIDE DEF q
<1>3. (q + 1) * d = q * d + d /\ q * d \in Nat
  BY <1>1
<1>4. q * d <= n /\ n < (q + 1) * d
  BY <1>2, <1>3
<1>. QED  BY <1>1, <1>4 DEF q

LEMMA ProductOrder ==
  ASSUME NEW a \in Nat, NEW b \in Nat, NEW d \in Nat \ {0}, a * d < b * d
  PROVE  a < b
<1>. SUFFICES ASSUME b <= a  PROVE FALSE
  OBVIOUS
<1>1. PICK c \in Nat : a = b + c
  <2>. WITNESS a - b \in Nat
  <2>. QED  OBVIOUS
<1>2. (b + c) * d = b * d + c * d /\ c * d \in Nat /\ b * d \in Nat
  OBVIOUS
<1>. QED  BY <1>1, <1>2

LEMMA AcrossTheCadence ==
  ASSUME NEW f \in Nat, NEW n \in Nat, NEW now \in Nat, NEW d \in Nat \ {0},
         n % d = 0, f < n, n <= now
  PROVE  f \div d # now \div d
<1>. DEFINE a == f \div d
            q == n \div d
            b == now \div d
<1>1. /\ a \in Nat /\ q \in Nat /\ b \in Nat
      /\ a * d <= f /\ now < (b + 1) * d /\ n = q * d
  BY DivBounds
<1>. HIDE DEF a, q, b
<1>2. a * d \in Nat /\ q * d \in Nat /\ (b + 1) * d \in Nat
  BY <1>1
<1>3. a * d < q * d /\ q * d < (b + 1) * d
  BY <1>1, <1>2
<1>4. a < q
  BY <1>1, <1>3, ProductOrder
<1>5. q < b + 1
  BY <1>1, <1>3, ProductOrder
<1>. QED  BY <1>1, <1>4, <1>5 DEF a, b

LEMMA AdvancedAhead ==
  ASSUME NEW copy \in ScheduleRows, NEW now \in Nat
  PROVE  /\ Advanced(copy, now) \in Nat
         /\ now < Advanced(copy, now) /\ copy.next < Advanced(copy, now)
<1>. DEFINE n == copy.next
            behind == IF now < n THEN 0 ELSE (now - n) \div Interval
<1>0. n \in Nat /\ Interval \in Nat \ {0}
  BY SchedulesAssumption DEF ScheduleRows
<1>1. Advanced(copy, now) = n + (behind + 1) * Interval
  BY DEF Advanced
<1>2. ASSUME now < n
      PROVE  behind = 0
  BY <1>2
<1>3. ASSUME ~ (now < n)
      PROVE  behind \in Nat /\ now - n < (behind + 1) * Interval
  <2>1. now - n \in Nat /\ behind = (now - n) \div Interval
    BY <1>0, <1>3
  <2>. QED  BY <1>0, <2>1, DivBounds
<1>. HIDE DEF behind, n
<1>4. behind \in Nat
  BY <1>2, <1>3
<1>5. (behind + 1) * Interval = behind * Interval + Interval /\ behind * Interval \in Nat
  BY <1>0, <1>4
<1>6. n < n + (behind + 1) * Interval /\ n + (behind + 1) * Interval \in Nat
  BY <1>0, <1>5
<1>7. now < n + (behind + 1) * Interval
  <2>1. CASE now < n
    BY <1>0, <1>6, <2>1
  <2>2. CASE ~ (now < n)
    BY <1>0, <1>3, <1>5, <2>2
  <2>. QED  BY <2>1, <2>2
<1>. QED  BY <1>1, <1>6, <1>7 DEF n

(* The dispatcher lets the row go without firing.                          *)
LEMMA RestKeepsModes ==
  ASSUME IInv, OneTurnEach, ModesKept, TypeOK', Smooth', NothingToFire \/ Postpone \/ SkipBusy
  PROVE  ModesKept'
<1>. DEFINE copy == worker[Tick].copy
<1>0. /\ TypeOK /\ worker[Tick].pc = "check" /\ worker[Tick].now \in Nat
      /\ \A j \in Jobs : jobs'[j].finished \in Nat
      /\ copy \in ScheduleRows
  BY TickIs, FiringTypes
  DEF IInv, NothingToFire, Postpone, SkipBusy, ToFire, At, TypeOK, JobRows
<1>1. Tick \in Holders /\ CopyOf(Tick) = copy
  BY <1>0, TickIs, HoldersAre DEF Holding
<1>2. Rests(Tick).pc = "jobs" /\ Rests(Tick).now = worker[Tick].now
  BY DEF Rests, Thread
<1>3. /\ worker' = [worker EXCEPT ![Tick] = Rests(Tick)]
      /\ UNCHANGED <<jobs, editor, crashed, asks>> /\ (shifted => shifted')
  BY DEF NothingToFire, Postpone, SkipBusy, rows, around, history
<1>4. /\ Others(Tick) /\ Tick \notin Holders' /\ worker'[Tick].pc = "jobs"
      /\ worker'[Tick].now = worker[Tick].now
  BY <1>0, <1>2, <1>3, TickIs, WorkerMoves DEF Holding
<1>5. \/ LetsGo(Tick) /\ UNCHANGED <<row, raced>>
      \/ Puts(Tick, [copy EXCEPT !.next = worker[Tick].now + Interval]) /\ shifted'
      \/ /\ Puts(Tick, [copy EXCEPT !.next = Advanced(copy, worker[Tick].now),
                                    !.result = "skipped"])
         /\ copy.mode = "interval"
  BY DEF NothingToFire, Postpone, SkipBusy, rows, history
<1>6. Smooth /\ stale \ {Tick} \subseteq stale'
  BY <1>0, <1>3, <1>5 DEF Smooth, Puts, LetsGo, TypeOK
<1>7. copy.mode = row.mode /\ copy.last = row.last
  BY <1>0, <1>1, <1>6, KnownNow DEF IInv, CopiesFit, Fits, TickKnowsLast
<1>8. /\ row'.mode = row.mode /\ row'.last = row.last
      /\ row'.enabled => row.enabled \/ copy.enabled
      /\ \/ row'.next = row.next
         \/ shifted'
         \/ row.mode = "interval" /\ row'.next = Advanced(copy, worker[Tick].now)
              /\ Holders' \subseteq stale'
  <2>1. CASE LetsGo(Tick) /\ UNCHANGED <<row, raced>>
    BY <2>1
  <2>2. CASE Puts(Tick, [copy EXCEPT !.next = worker[Tick].now + Interval]) /\ shifted'
    BY <1>0, <1>7, <2>2 DEF Puts, ScheduleRows
  <2>3. CASE /\ Puts(Tick, [copy EXCEPT !.next = Advanced(copy, worker[Tick].now),
                                       !.result = "skipped"])
             /\ copy.mode = "interval"
    <3>1. Holders' \subseteq stale'
      BY <1>4, <2>3 DEF Puts, Others
    <3>. QED  BY <1>0, <1>7, <2>3, <3>1 DEF Puts, ScheduleRows
  <2>. QED  BY <1>5, <2>1, <2>2, <2>3
<1>9. FiringsKept /\ Known = row /\ Known' = row'
  BY <1>0, <1>3, <1>4, NothingFired DEF Known, At
<1>10. FiresInOrder'
  BY <1>0, <1>4, <1>6, <1>8, <1>9, OrderKept, KnownNow
<1>11. AsksCover'
  <2>1. ~ At(Tick, "save")' /\ ~ At(Tick, "save") /\ Looking
    BY <1>0, <1>4 DEF At, Looking
  <2>2. "editor" \in Holders' \ stale' => "editor" \in Holders \ stale
    BY <1>0, <1>4, <1>6, TickIs DEF Others
  <2>3. Enabling' => Enabling
    BY <1>3, <1>4, <1>8, <2>1, <2>2 DEF Enabling, Looking
  <2>. QED  BY <1>3, <1>6, <1>8, <1>9, <2>1, <2>3, AsksKept, KnownNow
<1>12. NextIsAhead'
  <2>1. CASE row'.next = row.next \/ shifted'
    <3>1. row.mode = "interval" /\ ~ shifted' => row'.next = row.next
      BY <2>1
    <3>2. worker[Tick].pc # "save" /\ worker'[Tick].pc # "save" /\ ~ Looking'
      BY <1>0, <1>4 DEF Looking
    <3>. QED  BY <1>0, <1>3, <1>4, <1>6, <1>8, <1>9, <3>1, <3>2, NextKept, KnownNow
  <2>2. CASE /\ row.mode = "interval" /\ row'.next = Advanced(copy, worker[Tick].now)
             /\ Holders' \subseteq stale' /\ ~ shifted'
    <3>1. /\ copy.next = row.next /\ \A j \in Fires : jobs[j].fired < row.next
          /\ \A i, j \in Fires : i # j =>
               jobs[i].fired \div Interval # jobs[j].fired \div Interval
      BY <1>0, <1>3, <1>6, <1>9, <2>2, KnownNow DEF NextIsAhead, Looking
    <3>2. copy.next < row'.next /\ row'.next \in Nat /\ copy.next \in Nat
      BY <1>0, <2>2, AdvancedAhead DEF ScheduleRows
    <3>3. Fires' = Fires /\ \A j \in Fires : jobs[j].fired \in Nat
      BY <1>0, <1>9, FiresAre, FiringTypes
    <3>4. \A j \in Fires' : jobs'[j].fired < Known'.next
      BY <1>3, <1>9, <3>1, <3>2, <3>3
    <3>. QED  BY <1>3, <1>4, <2>2, <3>1, <3>3, <3>4 DEF NextIsAhead, Looking
  <2>. QED  BY <1>8, <2>1, <2>2
<1>13. RestIsKept'
  <2>1. ~ At(Tick, "check")'
    BY <1>4 DEF At
  <2>. QED  BY <1>0, <1>6, <1>8, <1>9, <2>1, RestKept, KnownNow
<1>. QED  BY <1>10, <1>11, <1>12, <1>13 DEF ModesKept

(* The dispatcher fires.                                                   *)
LEMMA FireKeepsModes ==
  ASSUME IInv, OneTurnEach, ModesKept, TypeOK', Smooth', NEW j \in Jobs, Fire(j)
  PROVE  ModesKept'
<1>. DEFINE copy == worker[Tick].copy
            now == worker[Tick].now
            new == Fired(copy, j, now)
            t == Thread("save", new, now)
<1>0. /\ TypeOK /\ worker[Tick].pc = "check" /\ now \in Nat /\ copy \in ScheduleRows
      /\ asks \in Nat
  BY TickIs DEF IInv, Fire, ToFire, At, TypeOK
<1>1. /\ worker' = [worker EXCEPT ![Tick] = t]
      /\ jobs'[j] = FreshJob(now) /\ \A i \in Jobs : i # j => jobs'[i] = jobs[i]
      /\ UNCHANGED <<row, editor, stale, raced, crashed, shifted, asks>>
  BY <1>0 DEF Fire, history, TypeOK
<1>2. t.copy = new /\ t.pc = "save" /\ t.now = now
  BY DEF Thread
<1>3. /\ new.last = j /\ (new.enabled => copy.mode # "once")
      /\ new.next = IF copy.mode = "interval" THEN Advanced(copy, now) ELSE copy.next
  BY <1>0 DEF Fired, ScheduleRows
<1>4. copy.enabled /\ copy.next <= now /\ ~ Waits(copy)
  BY <1>0 DEF Fire, ToFire, IsDue, ScheduleRows
<1>5. Smooth
  BY <1>1 DEF Smooth
<1>6. copy.mode = row.mode /\ copy.last = row.last /\ Known = row
  <2>1. Tick \in Holders /\ CopyOf(Tick) = copy
    BY <1>0, TickIs, HoldersAre DEF Holding
  <2>. QED
    BY <1>0, <1>5, <2>1, KnownNow DEF IInv, CopiesFit, Fits, TickKnowsLast, Known, At
<1>7. j \notin Fires /\ \A i \in Jobs : i < j => i \in Fires
  BY DEF Fire, Fires, Jobs
<1>8. Fires' = Fires \cup {j}
  BY <1>1 DEF Fires, FreshJob, NoJob
<1>9. jobs'[j].fired = now /\ jobs'[j].status = "running"
  BY <1>1 DEF FreshJob, NoJob
<1>10. \A i \in Fires : i < j /\ jobs'[i] = jobs[i] /\ i \in Jobs
  BY <1>1, <1>5, <1>7, KnownNow, FiresAre DEF FiresInOrder, Jobs
<1>. HIDE DEF new, t
<1>11. /\ Others(Tick) /\ CopyOf(Tick)' = new /\ worker'[Tick] = t
  BY <1>0, <1>1, <1>2, TickIs, WorkerMoves
<1>12. Known' = new /\ At(Tick, "save")' /\ ~ Looking' /\ ~ At(Tick, "check")'
  BY <1>2, <1>11 DEF Known, At, Looking
<1>13. \A i \in Fires : jobs[i].fired \in Nat /\ jobs[i].finished \in Nat
  BY <1>0, <1>10, FiringTypes
<1>14. FiresInOrder'
  <2>1. \A i \in Fires : jobs[i].fired <= now
    BY <1>5, KnownNow DEF FiresInOrder
  <2>2. worker'[Tick].now = now
    BY <1>2, <1>11
  <2>3. \A i \in Fires' : /\ i <= j /\ jobs'[i].fired <= now
                          /\ \A k \in Jobs : k < i => k \in Fires'
    <3>1. ASSUME NEW i \in Fires
          PROVE  /\ i <= j /\ jobs'[i].fired <= now
                 /\ \A k \in Jobs : k < i => k \in Fires'
      BY <1>5, <1>8, <1>10, <2>1, <3>1, KnownNow DEF FiresInOrder, Jobs
    <3>2. j <= j /\ jobs'[j].fired <= now /\ \A k \in Jobs : k < j => k \in Fires'
      BY <1>0, <1>7, <1>8, <1>9 DEF Jobs
    <3>. QED  BY <1>8, <3>1, <3>2
  <2>. QED  BY <1>3, <1>8, <1>12, <2>2, <2>3 DEF FiresInOrder
<1>15. AsksCover'
  <2>. SUFFICES ASSUME row.mode = "once"
                PROVE  Cardinality(Fires') <= asks /\ ~ worker'[Tick].copy.enabled
    BY <1>1, <1>12 DEF AsksCover
  <2>1. Enabling /\ ~ At(Tick, "save")
    BY <1>0, <1>4 DEF Enabling, Looking, At
  <2>2. Cardinality(Fires) < asks
    BY <1>5, <2>1, KnownNow DEF AsksCover
  <2>3. Cardinality(Fires') = Cardinality(Fires) + 1
    BY <1>7, <1>8, FiresAre, FS_AddElement
  <2>4. Cardinality(Fires) \in Nat
    BY FiresAre
  <2>5. ~ worker'[Tick].copy.enabled
    BY <1>2, <1>3, <1>6, <1>11
  <2>. QED  BY <1>0, <2>2, <2>3, <2>4, <2>5
<1>16. NextIsAhead'
  <2>. SUFFICES ASSUME row.mode = "interval", ~ shifted
                PROVE  /\ \A h \in Holders' \ stale' : h = Tick \/ CopyOf(h)'.next = row.next
                       /\ \A i \in Fires' : jobs'[i].fired < new.next
                       /\ \A i, k \in Fires' : i # k =>
                            jobs'[i].fired \div Interval # jobs'[k].fired \div Interval
    BY <1>1, <1>12 DEF NextIsAhead
  <2>1. /\ \A h \in Holders \ stale : h = Tick \/ CopyOf(h).next = row.next
        /\ copy.next = row.next
        /\ \A i \in Fires : jobs[i].fired < row.next
        /\ \A i, k \in Fires : i # k =>
              jobs[i].fired \div Interval # jobs[k].fired \div Interval
    BY <1>0, <1>5, <1>6, KnownNow DEF NextIsAhead, Looking
  <2>2. \A h \in Holders' \ stale' : h = Tick \/ CopyOf(h)'.next = row.next
    BY <1>1, <1>11, <2>1 DEF Others
  <2>3. /\ new.next \in Nat /\ now < new.next /\ copy.next < new.next
        /\ copy.next \in Nat
    BY <1>0, <1>3, <1>6, AdvancedAhead DEF ScheduleRows
  <2>4. \A i \in Fires' : jobs'[i].fired < new.next
    BY <1>8, <1>9, <1>10, <1>13, <2>1, <2>3
  <2>5. row.next % Interval = 0 /\ row.next \in Nat /\ Interval \in Nat \ {0}
    BY <1>0, TickIs, SchedulesAssumption DEF IInv, CopiesFit, Fits, ScheduleRows
  <2>6. \A i \in Fires : jobs[i].fired \div Interval # now \div Interval
    BY <1>0, <1>4, <1>13, <2>1, <2>5, AcrossTheCadence
  <2>7. \A i, k \in Fires' : i # k =>
            jobs'[i].fired \div Interval # jobs'[k].fired \div Interval
    BY <1>8, <1>9, <1>10, <2>1, <2>6
  <2>. QED  BY <2>2, <2>4, <2>7
<1>17. RestIsKept'
  <2>. SUFFICES ASSUME row.mode = "after_completion", NEW i \in Fires', NEW k \in Fires', i < k
                PROVE  jobs'[i].unseen \/ jobs'[k].fired >= jobs'[i].finished + Interval
    BY <1>1, <1>12 DEF RestIsKept
  <2>1. /\ copy.last # 0 => Rested(copy, jobs[copy.last])
        /\ \A m, n \in Fires : m < n =>
              jobs[m].unseen \/ jobs[n].fired >= jobs[m].finished + Interval
    BY <1>0, <1>5, KnownNow DEF RestIsKept, At
  <2>2. i \in Fires
    BY <1>8, <1>10 DEF Jobs
  <2>3. CASE k \in Fires
    BY <1>10, <2>1, <2>2, <2>3
  <2>4. CASE k = j
    <3>1. /\ \A m \in Fires : m <= row.last /\ jobs[m].fired <= now
          /\ row.last # 0 => row.last \in Fires
      BY <1>5, <1>6, KnownNow DEF FiresInOrder
    <3>2. row.last # 0
      BY <2>2, <3>1, <1>10 DEF Jobs
    <3>3. ~ Active(jobs[row.last])
      BY <1>4, <1>6, <3>2 DEF Waits
    <3>4. copy.next \in Nat /\ Interval \in Nat
      BY <1>0, FiringTypes DEF ScheduleRows
    <3>5. CASE i = row.last
      <4>1. jobs[i].unseen \/ copy.next >= jobs[i].finished + Interval
        BY <1>6, <2>1, <3>2, <3>3, <3>5 DEF Rested
      <4>. QED  BY <1>0, <1>4, <1>9, <1>10, <1>13, <2>2, <2>4, <3>4, <4>1
    <3>6. CASE i # row.last
      <4>1. i < row.last /\ row.last \in Fires
        BY <1>10, <2>2, <3>1, <3>2, <3>6 DEF Jobs
      <4>2. jobs[i].unseen \/ jobs[row.last].fired >= jobs[i].finished + Interval
        BY <2>1, <2>2, <4>1
      <4>3. jobs[row.last].fired <= now
        BY <3>1, <4>1
      <4>. QED  BY <1>0, <1>9, <1>10, <1>13, <2>2, <2>4, <3>4, <4>1, <4>2, <4>3
    <3>. QED  BY <3>5, <3>6
  <2>. QED  BY <1>8, <2>3, <2>4
<1>. QED  BY <1>14, <1>15, <1>16, <1>17 DEF ModesKept

(* The dispatcher puts the row of what it fired.                           *)
LEMMA SaveKeepsModes ==
  ASSUME IInv, OneTurnEach, ModesKept, TypeOK', Smooth', SaveFired
  PROVE  ModesKept'
<1>. DEFINE copy == worker[Tick].copy
<1>0. /\ TypeOK /\ worker[Tick].pc = "save" /\ worker[Tick].now \in Nat
      /\ \A j \in Jobs : jobs'[j].finished \in Nat
  BY TickIs, FiringTypes DEF IInv, SaveFired, At, TypeOK, JobRows
<1>1. /\ worker' = [worker EXCEPT ![Tick] = Rests(Tick)] /\ Puts(Tick, copy)
      /\ UNCHANGED <<jobs, editor, crashed, shifted, asks>>
  BY DEF SaveFired, around
<1>2. Tick \in Holders /\ CopyOf(Tick) = copy
  BY <1>0, TickIs, HoldersAre DEF Holding
<1>3. Rests(Tick).pc = "jobs" /\ Rests(Tick).now = worker[Tick].now
  BY DEF Rests, Thread
<1>4. /\ Others(Tick) /\ Tick \notin Holders' /\ worker'[Tick].pc = "jobs"
      /\ worker'[Tick].now = worker[Tick].now
  BY <1>0, <1>1, <1>3, TickIs, WorkerMoves DEF Holding
<1>5. /\ Smooth /\ row' = copy /\ row'.mode = row.mode /\ Holders' \subseteq stale'
  <2>1. copy.mode = row.mode
    BY <1>2 DEF IInv, CopiesFit, Fits
  <2>. QED  BY <1>0, <1>1, <1>4, <2>1 DEF Smooth, Puts, TypeOK, Others
<1>6. FiringsKept /\ Known' = Known /\ Fires' = Fires
  BY <1>0, <1>1, <1>4, <1>5, NothingFired, FiresAre DEF Known, At
<1>7. FiresInOrder'
  BY <1>0, <1>4, <1>5, <1>6, OrderKept, KnownNow
<1>8. AsksCover'
  <2>1. row.mode = "once" => ~ copy.enabled /\ Cardinality(Fires) <= asks
    BY <1>0, <1>5, KnownNow DEF AsksCover, At
  <2>2. ~ Looking' /\ ~ At(Tick, "save")'
    BY <1>4 DEF Looking, At
  <2>. QED  BY <1>1, <1>5, <1>6, <2>1, <2>2 DEF AsksCover, Enabling
<1>9. NextIsAhead'
  <2>1. ~ Looking'
    BY <1>4 DEF Looking
  <2>. QED  BY <1>1, <1>5, <1>6, <2>1, KnownNow DEF NextIsAhead
<1>10. RestIsKept'
  <2>1. ~ At(Tick, "check")'
    BY <1>4 DEF At
  <2>. QED  BY <1>0, <1>5, <1>6, <2>1, RestKept, KnownNow
<1>. QED  BY <1>7, <1>8, <1>9, <1>10 DEF ModesKept

(* A step of a thread that holds no copy, before or after, or of nobody    *)
(* who could hold one.                                                     *)
LEMMA FreeHandKeepsModes ==
  ASSUME IInv, OneTurnEach, ModesKept, TypeOK', Smooth', FiringsKept,
         NEW w \in Workers, NEW t, worker' = [worker EXCEPT ![w] = t], t.now \in Nat,
         UNCHANGED <<row, editor, stale, raced, crashed, shifted, asks>>,
         worker[w].pc \notin Holding, t.pc \notin Holding,
         w = Tick => t.now = worker[Tick].now
  PROVE  ModesKept'
<1>0. /\ TypeOK /\ Smooth /\ \A j \in Jobs : jobs'[j].finished \in Nat
      /\ worker[Tick].now \in Nat
  BY TickIs DEF IInv, TypeOK, JobRows, Smooth
<1>1. /\ Others(w) /\ w \notin Holders' /\ worker'[w] = t /\ w # "editor"
      /\ w # Tick => worker'[Tick] = worker[Tick]
  BY <1>0, TickIs, WorkerMoves, HoldersAre
<1>2. /\ worker'[Tick].now = worker[Tick].now
      /\ worker'[Tick].pc \in Holding => worker'[Tick] = worker[Tick]
      /\ worker[Tick].pc \in Holding => worker'[Tick] = worker[Tick]
  BY <1>1
<1>3. Known' = Known
  BY <1>2 DEF Known, At, Holding
<1>4. FiresInOrder'
  BY <1>0, <1>2, <1>3, OrderKept, KnownNow
<1>5. AsksCover'
  <2>1. "editor" \in Holders' <=> "editor" \in Holders
    BY <1>1 DEF Others
  <2>2. /\ At(Tick, "save")' => At(Tick, "save") /\ worker'[Tick].copy = worker[Tick].copy
        /\ ~ At(Tick, "save")' /\ Enabling' => ~ At(Tick, "save") /\ Enabling
    BY <1>2, <2>1 DEF At, Enabling, Looking, Holding
  <2>. QED  BY <1>0, <2>2, AsksKept, KnownNow
<1>6. NextIsAhead'
  <2>1. worker[Tick].pc = "save" => worker'[Tick] = worker[Tick]
    BY <1>2 DEF Holding
  <2>2. w = Tick => worker[Tick].pc # "save" /\ worker'[Tick].pc # "save" /\ ~ Looking'
    BY <1>1 DEF Holding, Looking
  <2>. QED  BY <1>0, <1>1, <2>1, <2>2, NextKept, KnownNow
<1>7. RestIsKept'
  <2>1. At(Tick, "check")' => At(Tick, "check") /\ worker'[Tick] = worker[Tick]
    BY <1>2 DEF At, Holding
  <2>. QED  BY <1>0, <2>1, RestKept, KnownNow
<1>. QED  BY <1>4, <1>5, <1>6, <1>7 DEF ModesKept

(* The end of a job: what it makes of the row, and of the firings so far.   *)
LEMMA EndedGives ==
  ASSUME NEW job \in JobRows, NEW at
  PROVE  /\ Ended(job, at).status = "ended" /\ Ended(job, at).finished = at
         /\ Ended(job, at).fired = job.fired
         /\ job.unseen => Ended(job, at).unseen
         /\ row.mode = "after_completion" /\ At(Tick, "check") => Ended(job, at).unseen
<1>1. DOMAIN job = {"status", "claimed", "run", "fired", "finished", "unseen"}
  BY DEF JobRows
<1>. QED  BY <1>1 DEF Ended, JobRows

LEMMA EndKeepsFirings ==
  ASSUME TypeOK, NEW j \in Jobs, NEW at \in Nat, jobs[j].status \in {"running", "ended"},
         jobs[j].status = "ended" => at <= jobs[j].finished,
         jobs' = [jobs EXCEPT ![j] = Ended(jobs[j], at)]
  PROVE  FiringsKept
<1>1. /\ jobs[j] \in JobRows /\ jobs'[j] = Ended(jobs[j], at)
      /\ \A i \in Jobs : i # j => jobs'[i] = jobs[i]
      /\ \A i \in Jobs : jobs[i].finished \in Nat
  BY FiringTypes DEF TypeOK
<1>2. /\ jobs'[j].status = "ended" /\ jobs'[j].finished = at /\ jobs'[j].fired = jobs[j].fired
      /\ jobs[j].unseen => jobs'[j].unseen
      /\ row.mode = "after_completion" /\ At(Tick, "check") => jobs'[j].unseen
  BY <1>1, EndedGives
<1>. SUFFICES ASSUME NEW i \in Jobs
              PROVE  /\ jobs'[i].status = "none" <=> jobs[i].status = "none"
                     /\ jobs'[i].fired = jobs[i].fired
                     /\ jobs[i].unseen => jobs'[i].unseen
                     /\ ~ Active(jobs[i]) =>
                          ~ Active(jobs'[i]) /\ jobs'[i].finished <= jobs[i].finished
                     /\ /\ Active(jobs[i]) /\ ~ Active(jobs'[i])
                        /\ row.mode = "after_completion" /\ At(Tick, "check")
                        => jobs'[i].unseen
  BY DEF FiringsKept
<1>3. CASE i = j
  BY <1>2, <1>3 DEF Active
<1>4. CASE i # j
  BY <1>1, <1>4
<1>. QED  BY <1>3, <1>4

LEMMA JobKeepsModes ==
  ASSUME IInv, OneTurnEach, ModesKept, TypeOK', Smooth', NEW w \in Workers, JobStep(w)
  PROVE  ModesKept'
<1>0. /\ TypeOK /\ row \in ScheduleRows /\ \A j \in Jobs : jobs[j] \in JobRows
      /\ \A j \in Jobs : jobs[j].finished \in Nat /\ jobs'[j].finished \in Nat
      /\ worker[w] \in Threads /\ worker[w].now \in Nat /\ worker[Tick].now \in Nat
      /\ clock \in Nat
  BY TickIs, FiringTypes DEF IInv, TypeOK, JobRows, Threads
<1>1. ASSUME NEW j \in Jobs, TakeJob(w, j)
      PROVE  ModesKept'
  <2>. DEFINE t == [pc |-> "turn", copy |-> Gone, job |-> j,
                    now |-> IF w = Tick THEN worker[Tick].now ELSE clock]
  <2>1. /\ worker' = [worker EXCEPT ![w] = t] /\ t.pc \notin Holding
        /\ worker[w].pc \notin Holding
        /\ t.now \in Nat /\ (w = Tick => t.now = worker[Tick].now)
    BY <1>0, <1>1 DEF TakeJob, Holding
  <2>2. FiringsKept
    BY <1>0, <1>1 DEF TakeJob, TypeOK, JobRows, Active, FiringsKept
  <2>. HIDE DEF t
  <2>. QED  BY <1>1, <2>1, <2>2, FreeHandKeepsModes DEF TakeJob, history
<1>2. CASE EndTurn(w)
  <2>. DEFINE t == [worker[w] EXCEPT !.pc = "told"]
              j == worker[w].job
  <2>1. /\ worker' = [worker EXCEPT ![w] = t] /\ worker[w].pc = "turn"
        /\ jobs' = [jobs EXCEPT ![j] = Ended(jobs[j], worker[w].now)]
        /\ UNCHANGED <<row, editor, stale, raced, crashed, shifted, asks>>
    BY <1>2 DEF EndTurn, Goes, At, history
  <2>2. t.pc = "told" /\ t.now = worker[w].now
    BY <1>0 DEF Threads
  <2>3. j \in Jobs /\ jobs[j].status \in {"running", "ended"}
          /\ (jobs[j].status = "ended" => worker[w].now <= jobs[j].finished)
    BY <1>0, <2>1 DEF TypeOK, OneTurnEach, At, JobRows
  <2>. HIDE DEF t, j
  <2>6. FiringsKept
    BY <1>0, <2>1, <2>3, EndKeepsFirings
  <2>. QED  BY <1>0, <2>1, <2>2, <2>6, FreeHandKeepsModes DEF Holding
<1>3. Rests(w).pc \in {"jobs", "idle"} /\ Rests(w).now \in Nat
        /\ (w = Tick => Rests(w).now = worker[w].now)
  BY <1>0 DEF Rests, Idle, Thread
<1>4. CASE LoadForSync(w)
  <2>. DEFINE synced == Synced(row, jobs[worker[w].job])
              t == IF row.there /\ synced # row THEN Thread("put", synced, worker[w].now)
                                                ELSE Rests(w)
  <2>1. /\ worker' = [worker EXCEPT ![w] = t] /\ worker[w].pc = "told"
        /\ UNCHANGED <<row, jobs, editor, stale, raced, crashed, shifted, asks>>
    BY <1>4 DEF LoadForSync, At, rows, history
  <2>2. row.mode # "after_completion" => synced.next = row.next
    BY <1>0, SyncedIs
  <2>3. /\ t.pc \in {"put", "jobs", "idle"} /\ (t.pc = "put" => t.copy = synced)
        /\ t.now \in Nat /\ (w = Tick => t.now = worker[w].now)
    BY <1>0, <1>3 DEF Thread
  <2>. HIDE DEF t, synced
  <2>4. /\ Others(w) /\ (w \in Holders' <=> t.pc \in Holding) /\ CopyOf(w)' = t.copy
        /\ worker'[w] = t /\ (w # Tick => worker'[Tick] = worker[Tick]) /\ w # "editor"
    BY <1>0, <2>1, TickIs, WorkerMoves, HoldersAre
  <2>5. FiringsKept /\ Smooth
    BY <1>0, <2>1, NothingFired DEF Smooth
  <2>6. Known' = Known
    BY <2>1, <2>3, <2>4 DEF Known, At
  <2>7. FiresInOrder'
    BY <1>0, <2>3, <2>4, <2>5, <2>6, OrderKept, KnownNow
  <2>8. AsksCover'
    <3>1. "editor" \in Holders' <=> "editor" \in Holders
      BY <2>4 DEF Others
    <3>2. /\ At(Tick, "save")' => At(Tick, "save") /\ worker'[Tick].copy = worker[Tick].copy
          /\ ~ At(Tick, "save")' /\ Enabling' => ~ At(Tick, "save") /\ Enabling
      BY <2>1, <2>3, <2>4, <3>1 DEF At, Enabling, Looking
    <3>. QED  BY <2>1, <2>5, <3>2, AsksKept, KnownNow
  <2>9. NextIsAhead'
    <3>1. row.mode = "interval" => (w \in Holders' => CopyOf(w)'.next = row.next)
      BY <2>2, <2>3, <2>4 DEF Holding
    <3>2. w = Tick => worker[Tick].pc # "save" /\ worker'[Tick].pc # "save" /\ ~ Looking'
      BY <2>1, <2>3, <2>4 DEF Looking
    <3>. QED  BY <1>0, <2>1, <2>4, <2>5, <3>1, <3>2, NextKept, KnownNow
  <2>10. RestIsKept'
    <3>1. At(Tick, "check")' => At(Tick, "check") /\ worker'[Tick] = worker[Tick]
      BY <2>3, <2>4 DEF At
    <3>. QED  BY <1>0, <2>1, <2>5, <3>1, RestKept, KnownNow
  <2>. QED  BY <2>7, <2>8, <2>9, <2>10 DEF ModesKept
<1>5. CASE PutSync(w)
  <2>. DEFINE copy == worker[w].copy
  <2>1. /\ worker' = [worker EXCEPT ![w] = Rests(w)] /\ worker[w].pc = "put" /\ Puts(w, copy)
        /\ UNCHANGED <<jobs, editor, crashed, shifted, asks>>
    BY <1>5 DEF PutSync, At, around
  <2>2. w \in Holders /\ CopyOf(w) = copy /\ w # "editor"
    BY <2>1, HoldersAre DEF Holding
  <2>3. /\ Others(w) /\ w \notin Holders' /\ worker'[w] = Rests(w)
        /\ w # Tick => worker'[Tick] = worker[Tick]
    BY <1>0, <1>3, <2>1, TickIs, WorkerMoves DEF Holding
  <2>4. /\ Smooth /\ w \notin stale /\ row' = copy /\ stale \ {w} \subseteq stale'
        /\ "editor" \in Holders' => "editor" \in stale'
    BY <1>0, <2>1, <2>2, <2>3 DEF Smooth, Puts, TypeOK, Others
  <2>5. /\ copy.mode = row.mode /\ copy.last = row.last /\ (copy.enabled => row.enabled)
        /\ row.mode = "interval" /\ ~ shifted => copy.next = row.next
    BY <2>1, <2>2, <2>4, KnownNow
    DEF IInv, CopiesFit, Fits, FreshKnowLast, CopiesObey, Obeys, NextIsAhead, At
  <2>6. /\ FiringsKept
        /\ At(Tick, "save")' <=> At(Tick, "save")
        /\ w = Tick => ~ At(Tick, "save")
    BY <1>0, <1>3, <2>1, <2>3, NothingFired DEF At
  <2>7. FiresInOrder'
    <3>1. Known'.last = Known.last
      BY <2>3, <2>4, <2>5, <2>6 DEF Known
    <3>2. worker'[Tick].now \in Nat /\ worker[Tick].now <= worker'[Tick].now
      BY <1>0, <1>3, <2>3
    <3>. QED  BY <1>0, <2>4, <2>6, <3>1, <3>2, OrderKept, KnownNow
  <2>8. AsksCover'
    <3>1. Looking' => Looking /\ worker'[Tick].copy = worker[Tick].copy
      BY <1>3, <2>3 DEF Looking
    <3>2. Enabling' => Enabling
      BY <2>4, <2>5, <3>1 DEF Enabling
    <3>3. At(Tick, "save")' => At(Tick, "save") /\ worker'[Tick].copy = worker[Tick].copy
      BY <2>3, <2>6
    <3>. QED  BY <2>1, <2>4, <2>5, <2>6, <3>2, <3>3, AsksKept, KnownNow
  <2>9. NextIsAhead'
    <3>1. w = Tick => worker[Tick].pc # "save" /\ worker'[Tick].pc # "save" /\ ~ Looking'
      BY <1>3, <2>1, <2>3 DEF Looking
    <3>. QED  BY <1>0, <2>1, <2>3, <2>4, <2>5, <2>6, <3>1, NextKept, KnownNow
  <2>10. RestIsKept'
    <3>1. At(Tick, "check")' => At(Tick, "check") /\ worker'[Tick] = worker[Tick]
      BY <1>3, <2>3 DEF At
    <3>. QED  BY <1>0, <2>4, <2>5, <2>6, <3>1, RestKept, KnownNow
  <2>. QED  BY <2>7, <2>8, <2>9, <2>10 DEF ModesKept
<1>. QED  BY <1>1, <1>2, <1>4, <1>5 DEF JobStep

(* A step that leaves the row, the threads and the edit alone.             *)
LEMMA StillKeepsModes ==
  ASSUME IInv, OneTurnEach, ModesKept, TypeOK', Smooth', FiringsKept,
         UNCHANGED <<row, worker, editor, stale, raced, crashed, shifted, asks>>
  PROVE  ModesKept'
<1>0. /\ TypeOK /\ Smooth /\ \A j \in Jobs : jobs'[j].finished \in Nat
      /\ worker[Tick].now \in Nat
  BY TickIs DEF IInv, TypeOK, JobRows, Smooth
<1>1. /\ Known' = Known /\ Holders' = Holders /\ Looking' = Looking
      /\ At(Tick, "save")' = At(Tick, "save")
  BY DEF Known, Holders, Looking, At
<1>2. FiresInOrder'
  BY <1>0, <1>1, OrderKept, KnownNow
<1>3. AsksCover'
  <2>1. Enabling' => Enabling
    BY <1>1 DEF Enabling
  <2>. QED  BY <1>0, <1>1, <2>1, AsksKept, KnownNow
<1>4. NextIsAhead'
  <2>1. Fires' = Fires /\ \A j \in Fires : jobs'[j].fired = jobs[j].fired
    BY FiresAre DEF FiringsKept
  <2>2. NextIsAhead /\ \A h : CopyOf(h)' = CopyOf(h)
    BY <1>0, KnownNow DEF CopyOf
  <2>. QED  BY <1>1, <2>1, <2>2 DEF NextIsAhead
<1>5. RestIsKept'
  BY <1>0, RestKept, KnownNow DEF At
<1>. QED  BY <1>2, <1>3, <1>4, <1>5 DEF ModesKept

LEMMA UserKeepsModes ==
  ASSUME IInv, OneTurnEach, ModesKept, TypeOK', Smooth', UserStep
  PROVE  ModesKept'
<1>0. /\ TypeOK /\ row \in ScheduleRows /\ "editor" # Tick /\ asks \in Nat
      /\ \A j \in Jobs : jobs'[j].finished \in Nat
      /\ worker[Tick].now \in Nat /\ clock \in Nat
  BY TickIs, SchedulesAssumption DEF IInv, TypeOK, JobRows
<1>1. ASSUME NEW edit \in Edits, LoadEdit(edit)
      PROVE  ModesKept'
  <2>. DEFINE copy == Edited(row, edit, clock)
  <2>1. /\ UNCHANGED <<row, jobs, worker, stale, raced, crashed>>
        /\ editor.pc = "rest" /\ editor'.copy = copy
        /\ asks' = asks + (IF edit # "off" /\ row.mode = "once" THEN 1 ELSE 0)
        /\ shifted' = (shifted \/ (edit = "trigger" /\ row.mode = "interval"))
    BY <1>1 DEF LoadEdit, rows
  <2>2. /\ edit # "trigger" => copy.next = row.next
        /\ edit = "off" => ~ copy.enabled
    BY <1>0, EditedIs DEF Edited, ScheduleRows
  <2>. HIDE DEF copy
  <2>3. Others("editor") /\ CopyOf("editor")' = copy /\ "editor" \notin Holders
    BY <2>1, EditorMoves, EditorIs
  <2>4. FiringsKept /\ Smooth /\ Known' = Known /\ Looking' = Looking
          /\ At(Tick, "save")' = At(Tick, "save")
    BY <1>0, <2>1, NothingFired DEF Smooth, Known, Looking, At
  <2>5. FiresInOrder'
    BY <1>0, <2>1, <2>4, OrderKept, KnownNow
  <2>6. AsksCover'
    <3>1. CASE edit = "off"
      <4>1. Enabling' => Enabling
        BY <2>1, <2>2, <2>4, <3>1 DEF Enabling
      <4>2. asks' = asks
        BY <1>0, <2>1, <3>1
      <4>. QED  BY <2>1, <2>4, <4>1, <4>2, AsksKept, KnownNow
    <3>2. CASE edit # "off"
      <4>1. Fires' = Fires /\ Cardinality(Fires) \in Nat /\ AsksCover
        BY <2>4, FiresAre, KnownNow
      <4>2. row.mode = "once" => asks' = asks + 1
        BY <2>1, <3>2
      <4>. QED  BY <1>0, <2>1, <2>4, <4>1, <4>2 DEF AsksCover
    <3>. QED  BY <3>1, <3>2
  <2>7. NextIsAhead'
    BY <1>0, <2>1, <2>2, <2>3, <2>4, NextKept, KnownNow
  <2>8. RestIsKept'
    BY <1>0, <2>1, <2>4, RestKept, KnownNow DEF At
  <2>. QED  BY <2>5, <2>6, <2>7, <2>8 DEF ModesKept
<1>2. CASE PutEdit
  <2>. DEFINE copy == editor.copy
  <2>1. /\ UNCHANGED <<jobs, worker, crashed, shifted, asks>> /\ Puts("editor", copy)
        /\ editor.pc = "put" /\ editor'.pc = "rest"
    BY <1>2 DEF PutEdit, around, Resting
  <2>2. "editor" \in Holders /\ CopyOf("editor") = copy
    BY <2>1, EditorIs
  <2>3. Others("editor") /\ "editor" \notin Holders'
    BY <2>1, EditorMoves
  <2>4. /\ Smooth /\ "editor" \notin stale /\ row' = copy /\ stale \ {"editor"} \subseteq stale'
    BY <1>0, <2>1 DEF Smooth, Puts, TypeOK
  <2>5. /\ copy.mode = row.mode /\ copy.last = row.last
        /\ row.mode = "interval" /\ ~ shifted => copy.next = row.next
    BY <1>0, <2>2, <2>4, KnownNow DEF IInv, CopiesFit, Fits, FreshKnowLast, NextIsAhead
  <2>6. FiringsKept /\ Looking' = Looking /\ At(Tick, "save")' = At(Tick, "save")
    BY <1>0, <2>1, NothingFired DEF Looking, At
  <2>7. FiresInOrder'
    <3>1. Known'.last = Known.last
      BY <2>1, <2>4, <2>5, <2>6 DEF Known
    <3>. QED  BY <1>0, <2>1, <2>4, <2>6, <3>1, OrderKept, KnownNow
  <2>8. AsksCover'
    <3>1. Enabling' => Enabling
      BY <2>1, <2>2, <2>3, <2>4, <2>6 DEF Enabling
    <3>. QED  BY <2>1, <2>4, <2>5, <2>6, <3>1, AsksKept, KnownNow
  <2>9. NextIsAhead'
    BY <1>0, <2>1, <2>3, <2>4, <2>5, <2>6, NextKept, KnownNow
  <2>10. RestIsKept'
    BY <1>0, <2>1, <2>4, <2>5, <2>6, RestKept, KnownNow DEF At
  <2>. QED  BY <2>7, <2>8, <2>9, <2>10 DEF ModesKept
<1>3. CASE Delete
  <2>1. /\ UNCHANGED <<jobs, worker, editor, raced, crashed, shifted, asks>> /\ stale' = Holders
        /\ row'.mode = row.mode /\ row'.next = row.next /\ row'.last = row.last
        /\ row'.enabled = row.enabled
    BY <1>0, <1>3 DEF Delete, history, ScheduleRows
  <2>2. /\ Holders' = Holders /\ Looking' = Looking /\ At(Tick, "save")' = At(Tick, "save")
        /\ Known'.last = Known.last /\ Known'.next = Known.next
    BY <2>1 DEF Holders, Looking, At, Known
  <2>3. FiringsKept /\ Smooth
    BY <1>0, <2>1, NothingFired DEF Smooth
  <2>4. FiresInOrder'
    BY <1>0, <2>1, <2>2, <2>3, OrderKept, KnownNow
  <2>5. AsksCover'
    <3>1. Enabling' => Enabling
      BY <2>1, <2>2 DEF Enabling
    <3>. QED  BY <2>1, <2>2, <2>3, <3>1, AsksKept, KnownNow
  <2>6. NextIsAhead'
    <3>1. Fires' = Fires
      BY <2>3, FiresAre
    <3>. QED  BY <2>1, <2>2, <2>3, <3>1, KnownNow DEF NextIsAhead
  <2>7. RestIsKept'
    BY <1>0, <2>1, <2>3, RestKept, KnownNow DEF At
  <2>. QED  BY <2>4, <2>5, <2>6, <2>7 DEF ModesKept
<1>4. CASE DeleteProfile \/ StartChat \/ EndChat
  <2>1. FiringsKept
    BY <1>0, <1>4, NothingFired DEF DeleteProfile, StartChat, EndChat, rows
  <2>. QED  BY <1>4, <2>1, StillKeepsModes DEF DeleteProfile, StartChat, EndChat, rows, history
<1>5. ASSUME NEW j \in Jobs, CancelWork(j)
      PROVE  ModesKept'
  <2>1. FiringsKept
    BY <1>0, <1>5, EndKeepsFirings DEF CancelWork
  <2>. QED  BY <1>5, <2>1, StillKeepsModes DEF CancelWork, history
<1>. QED  BY <1>1, <1>2, <1>3, <1>4, <1>5 DEF UserStep

(* A step after which nobody has a turn who had none before.               *)
LEMMA TurnsKept ==
  ASSUME OneTurnEach, \A v \in Workers : worker'[v].now <= clock',
         \A v \in Workers : At(v, "turn")' =>
           /\ worker'[v] = worker[v]
           /\ LET job == jobs'[worker[v].job] IN
              /\ job.status # "none"
              /\ job.status = "running" => job.claimed
              /\ job.status = "ended" => worker[v].now <= job.finished
  PROVE  OneTurnEach'
<1>1. \A v \in Workers : At(v, "turn")' => At(v, "turn")
  BY DEF At
<1>. QED  BY <1>1 DEF OneTurnEach

(* A step of a thread that does not take a turn, nor touch the job of a    *)
(* turn another has.                                                       *)
LEMMA NoTurnTaken ==
  ASSUME TypeOK, OneTurnEach, NEW w \in Workers, NEW t, worker' = [worker EXCEPT ![w] = t],
         t.pc # "turn", t.now <= clock, clock' = clock,
         \A v \in Workers \ {w} : At(v, "turn") => jobs'[worker[v].job] = jobs[worker[v].job]
  PROVE  OneTurnEach'
<1>1. worker'[w] = t /\ \A v \in Workers \ {w} : worker'[v] = worker[v]
  BY DEF TypeOK
<1>2. \A v \in Workers : worker'[v].now <= clock'
  BY <1>1 DEF OneTurnEach
<1>3. \A v \in Workers : At(v, "turn")' => v # w /\ worker'[v] = worker[v] /\ At(v, "turn")
  BY <1>1 DEF At
<1>. QED  BY <1>2, <1>3, TurnsKept DEF OneTurnEach

LEMMA OneTurnStep ==
  ASSUME IInv, OneTurnEach, [Next]_vars
  PROVE  OneTurnEach'
<1>0. /\ TypeOK /\ Tick \in Workers /\ worker[Tick].now <= clock /\ clock \in Nat
      /\ \A v \in Workers : worker[v].now <= clock /\ worker[v].now \in Nat
      /\ \A v \in Workers : At(v, "turn") => worker[v].job \in Jobs
      /\ \A j \in Jobs : jobs[j] \in JobRows
  BY TickIs, FiringTypes, SchedulesAssumption DEF IInv, TypeOK, OneTurnEach, At
<1>1. ASSUME NEW w \in Workers
      PROVE  Rests(w).pc # "turn" /\ Rests(w).now <= clock
  BY <1>0 DEF Rests, Idle, Thread
<1>2. ASSUME DispatchStep
      PROVE  OneTurnEach'
  <2>1. ASSUME NEW j \in Jobs, Fire(j)
        PROVE  OneTurnEach'
    <3>. DEFINE t == Thread("save", Fired(worker[Tick].copy, j, worker[Tick].now),
                            worker[Tick].now)
    <3>1. /\ worker' = [worker EXCEPT ![Tick] = t] /\ clock' = clock /\ jobs[j].status = "none"
          /\ \A i \in Jobs : i # j => jobs'[i] = jobs[i]
      BY <1>0, <2>1 DEF Fire, around, TypeOK
    <3>2. t.pc # "turn" /\ t.now <= clock
      BY <1>0 DEF Thread
    <3>. HIDE DEF t
    <3>3. \A v \in Workers \ {Tick} : At(v, "turn") => jobs'[worker[v].job] = jobs[worker[v].job]
      BY <1>0, <3>1 DEF OneTurnEach
    <3>. QED  BY <1>0, <3>1, <3>2, <3>3, NoTurnTaken
  <2>2. ASSUME BeginTick
        PROVE  OneTurnEach'
    <3>. DEFINE t == IF row.there THEN Thread("sync", row, clock) ELSE Thread("jobs", Gone, clock)
    <3>1. worker' = [worker EXCEPT ![Tick] = t] /\ clock' = clock /\ jobs' = jobs
      BY <2>2 DEF BeginTick, around, rows
    <3>2. t.pc # "turn" /\ t.now <= clock
      BY <1>0 DEF Thread
    <3>. HIDE DEF t
    <3>. QED  BY <1>0, <3>1, <3>2, NoTurnTaken
  <2>3. ASSUME SyncLast
        PROVE  OneTurnEach'
    <3>. DEFINE copy == worker[Tick].copy
                synced == IF copy.last = 0 THEN copy ELSE Synced(copy, jobs[copy.last])
                t == Thread("check", synced, worker[Tick].now)
    <3>1. worker' = [worker EXCEPT ![Tick] = t] /\ clock' = clock /\ jobs' = jobs
      BY <2>3 DEF SyncLast, around
    <3>2. t.pc # "turn" /\ t.now <= clock
      BY <1>0 DEF Thread
    <3>. HIDE DEF t
    <3>. QED  BY <1>0, <3>1, <3>2, NoTurnTaken
  <2>4. ASSUME NothingToFire \/ Postpone \/ SkipBusy \/ SaveFired
        PROVE  OneTurnEach'
    <3>1. worker' = [worker EXCEPT ![Tick] = Rests(Tick)] /\ clock' = clock /\ jobs' = jobs
      BY <2>4 DEF NothingToFire, Postpone, SkipBusy, SaveFired, around, rows
    <3>. QED  BY <1>0, <1>1, <3>1, NoTurnTaken
  <2>. QED  BY <1>2, <2>1, <2>2, <2>3, <2>4 DEF DispatchStep
<1>3. ASSUME NEW w \in Workers, NEW j \in Jobs, TakeJob(w, j)
      PROVE  OneTurnEach'
  <2>. DEFINE now == IF w = Tick THEN worker[Tick].now ELSE clock
  <2>1. /\ worker'[w].job = j /\ worker'[w].now = now
        /\ \A v \in Workers : v # w => worker'[v] = worker[v]
        /\ jobs[j].status = "running" /\ ~ jobs[j].claimed /\ clock' = clock
    BY <1>0, <1>3 DEF TakeJob, Runnable, around, TypeOK
  <2>2. jobs'[j].status = "running" /\ jobs'[j].claimed
          /\ \A i \in Jobs : i # j => jobs'[i] = jobs[i]
    BY <1>0, <1>3, <2>1 DEF TakeJob, TypeOK, JobRows
  <2>3. \A v \in Workers : v # w /\ At(v, "turn")' => At(v, "turn") /\ worker[v].job # j
    BY <1>0, <2>1 DEF OneTurnEach, At
  <2>4. now <= clock
    BY <1>0
  <2>. HIDE DEF now
  <2>5. \A v \in Workers : worker'[v].now <= clock'
    BY <1>0, <2>1, <2>4
  <2>6. ASSUME NEW v \in Workers, At(v, "turn")'
        PROVE  LET job == jobs'[worker'[v].job] IN
               /\ job.status # "none"
               /\ job.status = "running" => job.claimed
               /\ job.status = "ended" => worker'[v].now <= job.finished
    <3>1. CASE v = w
      BY <2>1, <2>2, <3>1
    <3>2. CASE v # w
      BY <1>0, <2>1, <2>2, <2>3, <2>6, <3>2 DEF OneTurnEach
    <3>. QED  BY <3>1, <3>2
  <2>7. ASSUME NEW u \in Workers, NEW v \in Workers,
               At(u, "turn")', At(v, "turn")', worker'[u].job = worker'[v].job
        PROVE  u = v
    BY <2>1, <2>3, <2>7 DEF OneTurnEach
  <2>. QED  BY <2>5, <2>6, <2>7 DEF OneTurnEach
<1>4. ASSUME NEW w \in Workers, EndTurn(w)
      PROVE  OneTurnEach'
  <2>. DEFINE t == [worker[w] EXCEPT !.pc = "told"]
  <2>1. /\ worker' = [worker EXCEPT ![w] = t] /\ clock' = clock /\ At(w, "turn")
        /\ \A i \in Jobs : i # worker[w].job => jobs'[i] = jobs[i]
    BY <1>0, <1>4 DEF EndTurn, Goes, around, TypeOK
  <2>2. t.pc # "turn" /\ t.now <= clock
    BY <1>0 DEF TypeOK, Threads
  <2>. HIDE DEF t
  <2>3. \A v \in Workers \ {w} : At(v, "turn") => jobs'[worker[v].job] = jobs[worker[v].job]
    BY <1>0, <2>1 DEF OneTurnEach
  <2>. QED  BY <1>0, <2>1, <2>2, <2>3, NoTurnTaken
<1>5. ASSUME NEW w \in Workers, LoadForSync(w)
      PROVE  OneTurnEach'
  <2>. DEFINE synced == Synced(row, jobs[worker[w].job])
              t == IF row.there /\ synced # row THEN Thread("put", synced, worker[w].now)
                                                ELSE Rests(w)
  <2>1. worker' = [worker EXCEPT ![w] = t] /\ clock' = clock /\ jobs' = jobs
    BY <1>5 DEF LoadForSync, around, rows
  <2>2. t.pc # "turn" /\ t.now <= clock
    BY <1>0, <1>1 DEF Thread
  <2>. HIDE DEF t
  <2>. QED  BY <1>0, <2>1, <2>2, NoTurnTaken
<1>6. ASSUME NEW w \in Workers, PutSync(w)
      PROVE  OneTurnEach'
  <2>1. worker' = [worker EXCEPT ![w] = Rests(w)] /\ clock' = clock /\ jobs' = jobs
    BY <1>6 DEF PutSync, around
  <2>. QED  BY <1>0, <1>1, <2>1, NoTurnTaken
<1>7. ASSUME worker' = worker, clock' = clock \/ clock' = clock + 1, jobs' = jobs
      PROVE  OneTurnEach'
  <2>1. \A v \in Workers : worker'[v].now <= clock'
    BY <1>0, <1>7
  <2>. QED  BY <1>7, <2>1, TurnsKept DEF OneTurnEach, At
<1>8. ASSUME NEW j \in Jobs, CancelWork(j)
      PROVE  OneTurnEach'
  <2>1. /\ worker' = worker /\ clock' = clock /\ jobs'[j] = Ended(jobs[j], clock)
        /\ \A i \in Jobs : i # j => jobs'[i] = jobs[i]
    BY <1>0, <1>8 DEF CancelWork, around, TypeOK
  <2>2. jobs'[j].status = "ended" /\ jobs'[j].finished = clock
    BY <1>0, <2>1, EndedGives
  <2>3. ASSUME NEW v \in Workers, At(v, "turn")
        PROVE  LET job == jobs'[worker[v].job] IN
               /\ job.status # "none"
               /\ job.status = "running" => job.claimed
               /\ job.status = "ended" => worker[v].now <= job.finished
    <3>1. CASE worker[v].job = j
      BY <1>0, <2>2, <3>1
    <3>2. CASE worker[v].job # j
      BY <1>0, <2>1, <2>3, <3>2 DEF OneTurnEach
    <3>. QED  BY <3>1, <3>2
  <2>. QED  BY <1>0, <2>1, <2>3, TurnsKept DEF At
<1>9. ASSUME NEW j \in Jobs, Expire(j)
      PROVE  OneTurnEach'
  <2>1. /\ worker' = worker /\ clock' = clock
        /\ \A v \in Workers : worker[v].job # j
        /\ \A i \in Jobs : i # j => jobs'[i] = jobs[i]
    BY <1>0, <1>9 DEF Expire, around, TypeOK
  <2>2. \A v \in Workers : At(v, "turn") => jobs'[worker[v].job] = jobs[worker[v].job]
    BY <1>0, <2>1
  <2>. QED  BY <1>0, <2>1, <2>2, TurnsKept DEF At, OneTurnEach
<1>10. ASSUME Crash
       PROVE  OneTurnEach'
  <2>1. \A v \in Workers : worker'[v].pc = "idle" /\ worker'[v].now = 0
    BY <1>10 DEF Crash, Idle, Thread
  <2>. QED  BY <1>0, <1>10, <2>1 DEF Crash, OneTurnEach, At
<1>11. ASSUME UserStep \/ Tock \/ UNCHANGED vars
       PROVE  OneTurnEach'
  BY <1>7, <1>8, <1>11
  DEF UserStep, LoadEdit, PutEdit, Delete, DeleteProfile, StartChat, EndChat, Tock, vars, rows,
      around
<1>. QED
  BY <1>2, <1>3, <1>4, <1>5, <1>6, <1>9, <1>10, <1>11 DEF Next, JobStep

LEMMA ModesStep ==
  ASSUME IInv, OneTurnEach, ModesKept, [Next]_vars
  PROVE  ModesKept'
<1>. SUFFICES ASSUME Smooth'
              PROVE  ModesKept'
  BY DEF ModesKept
<1>0. TypeOK /\ TypeOK'
  BY InvStep DEF IInv
<1>1. CASE DispatchStep
  BY <1>0, <1>1, LookKeepsModes, RestKeepsModes, FireKeepsModes, SaveKeepsModes DEF DispatchStep
<1>2. CASE Tock \/ UNCHANGED vars
  <2>1. FiringsKept
    BY <1>0, <1>2, NothingFired DEF Tock, vars, rows
  <2>. QED  BY <1>0, <1>2, <2>1, StillKeepsModes DEF Tock, vars, rows, history
<1>3. ASSUME NEW j \in Jobs, Expire(j)
      PROVE  ModesKept'
  <2>1. FiringsKept
    BY <1>0, <1>3 DEF Expire, TypeOK, JobRows, Active, FiringsKept
  <2>. QED  BY <1>0, <1>3, <2>1, StillKeepsModes DEF Expire, history
<1>4. ~ Crash
  BY DEF Crash, Smooth
<1>. QED  BY <1>0, <1>1, <1>2, <1>3, <1>4, JobKeepsModes, UserKeepsModes DEF Next

LEMMA ModesInit ==
  ASSUME Init
  PROVE  OneTurnEach /\ ModesKept
<1>1. Fires = {} /\ Cardinality(Fires) = 0
  BY FS_EmptySet DEF Init, Fires, NoJob
<1>2. \A w \in Workers : worker[w].pc = "idle" /\ worker[w].now = 0
  BY DEF Init, Idle, Thread
<1>3. Tick \in Workers /\ Holders = {} /\ row.last = 0 /\ clock = 0
  BY <1>2 DEF Init, Workers, Holders, Resting
<1>4. OneTurnEach
  BY <1>2, <1>3 DEF OneTurnEach, At
<1>5. ~ At(Tick, "save") /\ ~ At(Tick, "check") /\ ~ Looking
  BY <1>2, <1>3 DEF At, Looking
<1>6. FiresInOrder /\ NextIsAhead /\ RestIsKept
  BY <1>1, <1>3, <1>5 DEF FiresInOrder, NextIsAhead, RestIsKept, Known
<1>7. AsksCover
  BY <1>1, <1>5 DEF AsksCover, Init
<1>. QED  BY <1>4, <1>6, <1>7 DEF ModesKept

(* A schedule that fires once fires no more often than it was asked to,    *)
(* an interval schedule never fires twice in one interval, and one that    *)
(* waits for its last job fires no sooner than an interval after that job  *)
(* ended, unless the job ended under the dispatcher's eyes: whoever edits, *)
(* triggers, cancels or chats, as long as nobody puts a copy that was      *)
(* overtaken and the daemon does not die.                                  *)
THEOREM EachModeIsKept == Spec => []FiresInItsMode
<1>1. Init => OneTurnEach /\ ModesKept
  BY ModesInit
<1>2. IInv /\ OneTurnEach /\ ModesKept /\ [Next]_vars => OneTurnEach' /\ ModesKept'
  BY OneTurnStep, ModesStep
<1>3. IInv /\ ModesKept => FiresInItsMode
  BY FiresAre
  DEF FiresInItsMode, OnceFiresOnce, NoCatchUp, AfterCompletionRests, ModesKept, AsksCover,
      NextIsAhead, RestIsKept
<1>. QED  BY <1>1, <1>2, <1>3, SchedulesInvariant, PTL DEF Spec
=============================================================================
