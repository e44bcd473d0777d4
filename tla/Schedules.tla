----------------------------- MODULE Schedules ------------------------------
(***************************************************************************)
(* One agent schedule (crates/agent-runtime/src/agent.rs) and the jobs it  *)
(* fires: the background worker's tick, which dispatches and then executes *)
(* jobs, and a thread inside session_wait, which only executes             *)
(* (cmd/agentd/src/execution/background.rs), the users who edit the        *)
(* schedule over HTTP or by a tool (bootstrap/agent_ops.rs,                *)
(* execution/autonomy.rs) and chat turns in the schedule's session.        *)
(*                                                                         *)
(* The schedule row has no version either: everybody loads it, changes a   *)
(* copy and puts the copy. Loading and putting are steps of their own; a   *)
(* read of another table is merged with the step that uses it. `now` is    *)
(* read once per pass, so a turn ends, for the code, when its pass began.  *)
(* Who wins the claim of a job is the subject of AgentTasks: here taking a *)
(* job is one step, and so is the cancellation of a session's work.        *)
(***************************************************************************)
EXTENDS Integers, FiniteSets

CONSTANTS
  Tick,        \* the background worker of the daemon
  Pumps,       \* threads inside session_wait
  Interval,    \* interval_seconds, in steps of the clock
  MaxTime,     \* bound: the clock
  MaxJobs,     \* bound: jobs the schedule may fire
  MaxTroubles  \* bound: edits, chat turns, cancellations and crashes, together

ASSUME SchedulesAssumption ==
  /\ Tick \notin Pumps /\ "editor" \notin Pumps \cup {Tick}
  /\ Interval \in Nat \ {0}
  /\ {MaxTime, MaxJobs, MaxTroubles} \subseteq Nat

Workers == Pumps \cup {Tick}
Jobs == 1..MaxJobs

VARIABLES
  row,       \* agent_schedules: the row, or what is left of it
  jobs,      \* jobs: the rows of the schedule's jobs, with their runs
  chat,      \* a chat turn is active in the session the schedule is aimed at
  profile,   \* agent_profiles has the schedule's agent
  clock,     \* unix_timestamp
  worker,    \* the threads
  editor,    \* the user's edit
  stale,     \* history: who holds a copy of a row that was changed since
  raced,     \* history: a stale copy was put
  crashed,   \* history: the daemon died
  asks,      \* history: how often the schedule was enabled or triggered
  shifted,   \* history: next_fire_at was set off the cadence on purpose
  troubles   \* counter of what MaxTroubles bounds

rows == <<row, jobs>>
around == <<chat, profile, clock>>
history == <<raced, crashed, asks, shifted>>
vars == <<rows, around, worker, editor, stale, history, troubles>>

Modes == {"interval", "after_completion", "once"}
Results == {"none", "running", "queued", "skipped", "ended"}
ScheduleRows == [there : BOOLEAN, mode : Modes, existing : BOOLEAN, enabled : BOOLEAN,
                 next : Nat, last : {0} \cup Jobs, result : Results]
JobRows == [status : {"none", "running", "ended"}, claimed : BOOLEAN,
            run : {"none", "active", "over"}, fired : Nat, finished : Nat, unseen : BOOLEAN]
Threads == [pc : {"idle", "sync", "check", "save", "jobs", "turn", "told", "put"},
            copy : ScheduleRows, job : {0} \cup Jobs, now : 0..MaxTime]
Editors == [pc : {"rest", "put"}, copy : ScheduleRows]

NoJob == [status |-> "none", claimed |-> FALSE, run |-> "none", fired |-> 0, finished |-> 0,
          unseen |-> FALSE]
Gone == [there |-> FALSE, mode |-> "once", existing |-> FALSE, enabled |-> FALSE, next |-> 0,
         last |-> 0, result |-> "none"]
Thread(pc, copy, now) == [pc |-> pc, copy |-> copy, job |-> 0, now |-> now]
Idle == Thread("idle", Gone, 0)
Resting == [pc |-> "rest", copy |-> Gone]

At(w, pc) == worker[w].pc = pc
Goes(w, pc) == worker' = [worker EXCEPT ![w].pc = pc]
Rests(w) == IF w = Tick THEN Thread("jobs", Gone, worker[Tick].now) ELSE Idle
Trouble == troubles < MaxTroubles /\ troubles' = troubles + 1

(* Who holds a copy of the row, and what becomes of the copies when one of *)
(* them is let go or put.                                                  *)
Holders ==
  {w \in Workers : worker[w].pc \in {"sync", "check", "save", "put"}}
    \cup {h \in {"editor"} : editor.pc = "put"}
LetsGo(h) == stale' = stale \ {h}
Puts(h, copy) ==
  /\ row' = copy
  /\ stale' = (stale \cup Holders) \ {h}
  /\ raced' = (raced \/ h \in stale)

-----------------------------------------------------------------------------
(* What a row says.                                                        *)

(* JobStatus::is_active, for the statuses that occur here: a turn in the   *)
(* background approves everything itself, so no job is blocked.            *)
Active(job) == job.status = "running"

(* AgentSchedule::is_due                                                   *)
IsDue(copy, now) == now >= copy.next

(* Mutant: the next time is counted from now.                              *)
Advanced_FromNow(copy, now) == now + Interval

(* advance_interval_schedule_cadence: the first time of the cadence after  *)
(* now.                                                                    *)
Advanced(copy, now) ==
  LET behind == IF now < copy.next THEN 0 ELSE (now - copy.next) \div Interval
  IN  copy.next + (behind + 1) * Interval

(* apply_schedule_job_terminal_state                                       *)
Synced(copy, job) ==
  IF Active(job) THEN copy
  ELSE [copy EXCEPT !.result = "ended",
                    !.next = IF copy.mode = "after_completion" THEN job.finished + Interval ELSE @]

(* session_has_active_run, asked for the session of job j, or with 0 for   *)
(* the session the schedule is aimed at. The job's own run counts.         *)
Busy(j) ==
  \/ row.existing /\ chat
  \/ \E k \in Jobs : (k = j \/ row.existing) /\ jobs[k].run = "active"

(* Mutant: a job that had a run is not taken up again.                     *)
Runnable_Fresh(j) ==
  jobs[j].status = "running" /\ ~ jobs[j].claimed /\ ~ Busy(j) /\ jobs[j].run = "none"

(* should_run_background_job and should_defer_background_job               *)
Runnable(j) == jobs[j].status = "running" /\ ~ jobs[j].claimed /\ ~ Busy(j)

-----------------------------------------------------------------------------
(* dispatch_due_agent_schedules. It is the first thing a tick does, and    *)
(* the jobs at hand are run before the next.                               *)

BeginTick ==
  /\ At(Tick, "idle") \/ (At(Tick, "jobs") /\ \A j \in Jobs : ~ Runnable(j))
  /\ worker' = [worker EXCEPT ![Tick] = IF row.there THEN Thread("sync", row, clock)
                                                     ELSE Thread("jobs", Gone, clock)]
  /\ UNCHANGED <<rows, around, editor, stale, history, troubles>>

(* sync_schedule_state_from_last_job                                       *)
SyncLast ==
  LET copy == worker[Tick].copy
      synced == IF copy.last = 0 THEN copy ELSE Synced(copy, jobs[copy.last]) IN
  /\ At(Tick, "sync")
  /\ worker' = [worker EXCEPT ![Tick] = Thread("check", synced, worker[Tick].now)]
  /\ IF synced = copy THEN UNCHANGED <<row, stale, raced>> ELSE Puts(Tick, synced)
  /\ UNCHANGED <<jobs, around, editor, crashed, asks, shifted, troubles>>

(* Mutant: what the row says of the job is believed.                       *)
Waits_Result(copy) == copy.result = "running"

Waits(copy) == copy.last # 0 /\ Active(jobs[copy.last])

ToFire == At(Tick, "check")
  /\ LET copy == worker[Tick].copy IN copy.enabled /\ IsDue(copy, worker[Tick].now) /\ ~ Waits(copy)

(* The model runs out of jobs where the code does not.                     *)
Spent == jobs[MaxJobs].status # "none"

NothingToFire ==
  /\ At(Tick, "check") /\ (~ ToFire \/ (profile /\ Spent))
  /\ worker' = [worker EXCEPT ![Tick] = Rests(Tick)]
  /\ LetsGo(Tick)
  /\ UNCHANGED <<rows, around, editor, history, troubles>>

(* The agent of the schedule is gone.                                      *)
Postpone ==
  /\ ToFire /\ ~ profile
  /\ Puts(Tick, [worker[Tick].copy EXCEPT !.next = worker[Tick].now + Interval])
  /\ worker' = [worker EXCEPT ![Tick] = Rests(Tick)]
  /\ shifted' = TRUE
  /\ UNCHANGED <<jobs, around, editor, crashed, asks, troubles>>

(* The session has an active run: an interval schedule skips a turn, the   *)
(* others are looked at again by the next tick.                            *)
SkipBusy ==
  LET copy == worker[Tick].copy IN
  /\ ToFire /\ profile /\ copy.existing /\ Busy(0)
  /\ IF copy.mode = "interval"
     THEN Puts(Tick, [copy EXCEPT !.next = Advanced(copy, worker[Tick].now), !.result = "skipped"])
     ELSE LetsGo(Tick) /\ UNCHANGED <<row, raced>>
  /\ worker' = [worker EXCEPT ![Tick] = Rests(Tick)]
  /\ UNCHANGED <<jobs, around, editor, crashed, asks, shifted, troubles>>

(* Mutant: a schedule that fires once stays enabled.                       *)
Fired_StaysEnabled(copy, j, now) ==
  [copy EXCEPT !.last = j, !.result = "running",
               !.next = IF copy.mode = "interval" THEN Advanced(copy, now) ELSE @]

Fired(copy, j, now) ==
  [copy EXCEPT !.last = j, !.result = "running",
               !.next = IF copy.mode = "interval" THEN Advanced(copy, now) ELSE @,
               !.enabled = @ /\ copy.mode # "once"]

FreshJob(now) == [NoJob EXCEPT !.status = "running", !.fired = now]

(* The job is put before the row that names it.                            *)
Fire(j) ==
  LET copy == worker[Tick].copy IN
  /\ ToFire /\ profile /\ ~ (copy.existing /\ Busy(0))
  /\ jobs[j].status = "none" /\ \A i \in 1..(j - 1) : jobs[i].status # "none"
  /\ jobs' = [jobs EXCEPT ![j] = FreshJob(worker[Tick].now)]
  /\ worker' = [worker EXCEPT ![Tick] =
                   Thread("save", Fired(copy, j, worker[Tick].now), worker[Tick].now)]
  /\ UNCHANGED <<row, around, editor, stale, history, troubles>>

SaveFired ==
  /\ At(Tick, "save")
  /\ Puts(Tick, worker[Tick].copy)
  /\ worker' = [worker EXCEPT ![Tick] = Rests(Tick)]
  /\ UNCHANGED <<jobs, around, editor, crashed, asks, shifted, troubles>>

-----------------------------------------------------------------------------
(* The turn of a job, and what the schedule hears of it.                   *)

(* The claim, and the run of the job.                                      *)
TakeJob(w, j) ==
  /\ worker[w].pc = IF w = Tick THEN "jobs" ELSE "idle"
  /\ Runnable(j)
  /\ jobs' = [jobs EXCEPT ![j] = [@ EXCEPT !.claimed = TRUE, !.run = "active"]]
  /\ worker' = [worker EXCEPT ![w] = [pc |-> "turn", copy |-> Gone, job |-> j,
                                      now |-> IF w = Tick THEN worker[Tick].now ELSE clock]]
  /\ UNCHANGED <<row, around, editor, stale, history, troubles>>

(* Completed, failed and cancelled are all one to the schedule, and so is  *)
(* the lease of a job that is over. History, in unseen: the job ended      *)
(* after the dispatcher's first look at it, and before its second.         *)
Ended(job, at) ==
  [job EXCEPT !.status = "ended", !.claimed = FALSE, !.run = "over", !.finished = at,
              !.unseen = @ \/ (row.mode = "after_completion" /\ At(Tick, "check"))]

(* execute_background_chat_turn_job: finished_at is the time the pass      *)
(* began. A turn whose job was cancelled writes it once more.              *)
EndTurn(w) ==
  /\ At(w, "turn")
  /\ jobs' = [jobs EXCEPT ![worker[w].job] = Ended(@, worker[w].now)]
  /\ Goes(w, "told")
  /\ UNCHANGED <<row, around, editor, stale, history, troubles>>

(* Mutant: the row is not looked for.                                      *)
LoadForSync_Unchecked(w) ==
  LET synced == Synced(row, jobs[worker[w].job]) IN
  /\ At(w, "told")
  /\ worker' = [worker EXCEPT ![w] =
       IF synced # row THEN Thread("put", [synced EXCEPT !.there = TRUE], worker[w].now)
                       ELSE Rests(w)]
  /\ UNCHANGED <<rows, around, editor, stale, history, troubles>>

(* sync_schedule_state_from_job: the row is loaded again, and put if the   *)
(* job changes it.                                                         *)
LoadForSync(w) ==
  LET synced == Synced(row, jobs[worker[w].job]) IN
  /\ At(w, "told")
  /\ worker' = [worker EXCEPT ![w] =
       IF row.there /\ synced # row THEN Thread("put", synced, worker[w].now) ELSE Rests(w)]
  /\ UNCHANGED <<rows, around, editor, stale, history, troubles>>

PutSync(w) ==
  /\ At(w, "put")
  /\ Puts(w, worker[w].copy)
  /\ worker' = [worker EXCEPT ![w] = Rests(w)]
  /\ UNCHANGED <<jobs, around, editor, crashed, asks, shifted, troubles>>

-----------------------------------------------------------------------------
(* The users: update_agent_schedule, set_agent_schedule_enabled and        *)
(* trigger_agent_schedule_now, delete_agent_schedule, delete_agent_profile.*)

Edits == {"on", "off", "trigger"}

Edited(copy, edit, now) ==
  IF edit = "trigger" THEN [copy EXCEPT !.enabled = TRUE, !.next = now, !.result = "queued"]
  ELSE [copy EXCEPT !.enabled = (edit = "on")]

LoadEdit(edit) ==
  /\ editor.pc = "rest" /\ row.there /\ Edited(row, edit, clock) # row
  /\ Trouble
  /\ editor' = [pc |-> "put", copy |-> Edited(row, edit, clock)]
  /\ asks' = asks + (IF edit # "off" /\ row.mode = "once" THEN 1 ELSE 0)
  /\ shifted' = (shifted \/ (edit = "trigger" /\ row.mode = "interval"))
  /\ UNCHANGED <<rows, around, worker, stale, raced, crashed>>

PutEdit ==
  /\ editor.pc = "put"
  /\ Puts("editor", editor.copy)
  /\ editor' = Resting
  /\ UNCHANGED <<jobs, around, worker, crashed, asks, shifted, troubles>>

Delete ==
  /\ editor.pc = "rest" /\ row.there
  /\ Trouble
  /\ row' = [row EXCEPT !.there = FALSE]
  /\ stale' = Holders
  /\ UNCHANGED <<jobs, around, worker, editor, history>>

(* Refused while a schedule or a session names the agent.                  *)
DeleteProfile ==
  /\ profile /\ ~ row.there /\ ~ row.existing /\ jobs[1].status = "none"
  /\ profile' = FALSE
  /\ UNCHANGED <<rows, chat, clock, worker, editor, stale, history, troubles>>

StartChat ==
  /\ row.existing /\ ~ chat /\ Trouble
  /\ chat' = TRUE
  /\ UNCHANGED <<rows, profile, clock, worker, editor, stale, history>>

EndChat ==
  /\ chat
  /\ chat' = FALSE
  /\ UNCHANGED <<rows, profile, clock, worker, editor, stale, history, troubles>>

(* cancel_all_session_work: the run and the job of the session.            *)
CancelWork(j) ==
  /\ jobs[j].status = "running"
  /\ Trouble
  /\ jobs' = [jobs EXCEPT ![j] = Ended(@, clock)]
  /\ UNCHANGED <<row, around, worker, editor, stale, history>>

Tock ==
  /\ clock < MaxTime
  /\ clock' = clock + 1
  /\ UNCHANGED <<rows, chat, profile, worker, editor, stale, history, troubles>>

(* A lease runs out. One that runs out under a turn is AgentTasks' subject.*)
Expire(j) ==
  /\ jobs[j].claimed /\ jobs[j].status = "running"
  /\ \A w \in Workers : worker[w].job # j
  /\ jobs' = [jobs EXCEPT ![j].claimed = FALSE]
  /\ UNCHANGED <<row, around, worker, editor, stale, history, troubles>>

(* The daemon dies. reconcile_runs keeps the run of a job that is under    *)
(* way, and interrupts it if the job did not name it yet.                  *)
Crash ==
  /\ Trouble
  /\ worker' = [w \in Workers |-> Idle]
  /\ editor' = Resting
  /\ chat' = FALSE
  /\ \E kept \in BOOLEAN :
       jobs' = [j \in Jobs |->
         IF jobs[j].run = "active" /\ ~ kept THEN [jobs[j] EXCEPT !.run = "over"] ELSE jobs[j]]
  /\ stale' = {}
  /\ crashed' = TRUE
  /\ UNCHANGED <<row, profile, clock, raced, asks, shifted>>

-----------------------------------------------------------------------------
Init ==
  /\ row \in [there : {TRUE}, mode : Modes, existing : BOOLEAN, enabled : {TRUE}, next : {0},
              last : {0}, result : {"none"}]
  /\ jobs = [j \in Jobs |-> NoJob]
  /\ chat = FALSE /\ profile = TRUE /\ clock = 0
  /\ worker = [w \in Workers |-> Idle]
  /\ editor = Resting
  /\ stale = {} /\ raced = FALSE /\ crashed = FALSE
  /\ asks = 1 /\ shifted = FALSE /\ troubles = 0

DispatchStep ==
  \/ BeginTick \/ SyncLast \/ NothingToFire \/ Postpone \/ SkipBusy \/ SaveFired
  \/ \E j \in Jobs : Fire(j)

JobStep(w) ==
  \/ \E j \in Jobs : TakeJob(w, j)
  \/ EndTurn(w) \/ LoadForSync(w) \/ PutSync(w)

UserStep ==
  \/ \E edit \in Edits : LoadEdit(edit)
  \/ PutEdit \/ Delete \/ DeleteProfile \/ StartChat \/ EndChat
  \/ \E j \in Jobs : CancelWork(j)

Next ==
  \/ DispatchStep
  \/ \E w \in Workers : JobStep(w)
  \/ UserStep
  \/ Tock \/ Crash
  \/ \E j \in Jobs : Expire(j)

Spec == Init /\ [][Next]_vars

(* The daemon's loop goes on, a thread ends the turn it took, a chat turn  *)
(* ends, an edit that was loaded is put, an abandoned lease runs out.      *)
FairSpec ==
  /\ Spec
  /\ WF_vars(DispatchStep \/ JobStep(Tick))
  /\ \A w \in Pumps : WF_vars(EndTurn(w) \/ LoadForSync(w) \/ PutSync(w))
  /\ \A j \in Jobs : WF_vars(Expire(j))
  /\ WF_vars(EndChat) /\ WF_vars(PutEdit)

-----------------------------------------------------------------------------
(* Properties.                                                             *)

(* Type invariant.                                                         *)
TypeOK ==
  /\ row \in ScheduleRows
  /\ jobs \in [Jobs -> JobRows]
  /\ chat \in BOOLEAN /\ profile \in BOOLEAN /\ clock \in 0..MaxTime
  /\ worker \in [Workers -> Threads]
  /\ \A w \in Workers : worker[w].pc \in {"turn", "told"} => worker[w].job \in Jobs
  /\ editor \in Editors
  /\ stale \subseteq Holders
  /\ raced \in BOOLEAN /\ crashed \in BOOLEAN /\ shifted \in BOOLEAN
  /\ asks \in Nat /\ troubles \in 0..MaxTroubles

(* What follows is promised as long as nobody put a copy of the row that   *)
(* another had overtaken, and the daemon did not die between the two puts  *)
(* of a firing.                                                            *)
Smooth == ~ raced /\ ~ crashed
Fires == {j \in Jobs : jobs[j].status # "none"}

(* A schedule has one job under way, however long the job takes and        *)
(* whoever edits, triggers or cancels meanwhile.                           *)
OneActiveJob == Smooth => Cardinality({j \in Jobs : Active(jobs[j])}) <= 1

(* A one-shot schedule fires once for each time it was asked to.           *)
OnceFiresOnce == Smooth /\ row.mode = "once" => Cardinality(Fires) <= asks

(* An interval schedule that was held up fires once and not once for each  *)
(* interval it missed, unless a trigger moved it.                          *)
NoCatchUp ==
  Smooth /\ row.mode = "interval" /\ ~ shifted =>
    \A i, j \in Fires : i # j => jobs[i].fired \div Interval # jobs[j].fired \div Interval

(* and it stays on its cadence, however late it fires. Even two copies of  *)
(* the row cannot take it off.                                             *)
CadenceIsKept == row.mode = "interval" /\ ~ shifted => row.next % Interval = 0

(* Between the end of a turn and the next firing an after_completion       *)
(* schedule rests for the interval, counted from the pass that ran the     *)
(* turn: a trigger does not cut the rest short. The dispatcher reads the   *)
(* job twice, and a job that ends in between is not rested from.           *)
AfterCompletionRests ==
  Smooth /\ row.mode = "after_completion" =>
    \A i, j \in Fires : i < j => jobs[i].unseen \/ jobs[j].fired >= jobs[i].finished + Interval

(* Each schedule fires as its mode promises.                               *)
FiresInItsMode == OnceFiresOnce /\ NoCatchUp /\ AfterCompletionRests

(* What the user switched off or deleted comes back only by the user's own *)
(* edit, or by a copy that was loaded before: the dispatcher and the jobs  *)
(* put the row whole, as they knew it.                                     *)
UsersWordStands ==
  [][(row'.there /\ ~ row.there) \/ (row'.enabled /\ ~ row.enabled)
       => editor'.pc # editor.pc \/ raced']_vars

(* The run of a job outlived the daemon that ran it: recovery kept it for  *)
(* the job's sake, and the job is deferred because its session is busy.    *)
Stranded ==
  \E j \in Jobs : jobs[j].run = "active" /\ \A w \in Workers : worker[w].job # j

(* A schedule that is due fires, is put off or switched off: its last job  *)
(* is taken up and ends, through busy sessions and edits, and through      *)
(* crashes but those that strand a job for good.                           *)
Due == row.there /\ row.enabled /\ IsDue(row, clock)
DueEnds == <>[]Stranded \/ (Due ~> ~ Due \/ Spent)
=============================================================================
