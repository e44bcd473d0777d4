---------------------------- MODULE SessionInbox -----------------------------
(***************************************************************************)
(* The inbox of one session: the events a job or a Telegram message leaves *)
(* there, the wake-up turns that answer them                               *)
(* (cmd/agentd/src/execution/wakeup.rs), started by the background worker's*)
(* tick and by a thread inside session_wait (execution/background.rs), the *)
(* chat turns and the queue commands of the polling Telegram worker        *)
(* (telegram/router.rs) and the operator's /cancel.                        *)
(*                                                                         *)
(* An event is put whole, as whoever listed it knew it, so listing and     *)
(* putting are steps of their own, one put at a time. A run is put with    *)
(* the step that decides it. The clock is left out: a queued event is ripe *)
(* once its available_at has come. The provider loop is one look for a     *)
(* stop and the end of the turn; RunControl has it at length.              *)
(***************************************************************************)
EXTENDS Naturals, FiniteSets

CONSTANTS
  Messages,    \* messages a Telegram user sends while a turn is running
  Results,     \* events left by the session's background jobs; all are numbered
  Tick,        \* the background worker of the daemon
  Pumps,       \* threads inside session_wait
  MaxTroubles  \* bound: commands, stops, failing calls and turns, and crashes

ASSUME SessionInboxAssumption ==
  /\ Messages \cup Results \subseteq Nat /\ Messages \cap Results = {}
  /\ Tick \notin Pumps /\ "chat" \notin Pumps \cup {Tick}
  /\ MaxTroubles \in Nat

Events == Messages \cup Results
Workers == Pumps \cup {Tick}
Turns == Workers \cup {"chat"}

VARIABLES
  inbox,     \* session_inbox_events: status, and whether available_at has come
  run,       \* runs: the last run of each thread, and of the chat
  busy,      \* active_chat_turns has the session
  tickFails, \* the tick fails before it comes to this session
  worker,    \* the threads: what they hold and have still to put
  user,      \* the Telegram user's command: what it listed and has still to put
  canceller, \* the operator's /cancel: the same
  answered,  \* history: events that were in a turn which answered, or asked a person
  dropped,   \* history: events that /queue clear or /cancel put away
  twice,     \* history: events that two threads had listed, or that an old copy queued again
  orphans,   \* history: events whose thread died or gave up
  troubles   \* counter of what MaxTroubles bounds

actors == <<worker, user, canceller>>
history == <<answered, dropped, twice, orphans>>
vars == <<inbox, run, busy, tickFails, actors, history, troubles>>

InboxRows == [status : {"none", "queued", "claimed", "processed"}, ripe : BOOLEAN]
RunStatuses == {"none", "running", "waiting", "stopped", "cancelled", "over"}
Verdicts == {"none", "completed", "waiting", "failed", "stopped", "cancelled"}
Wakeups == [pc : {"idle", "looked", "claim", "turn", "settle"},
            held : SUBSET Events, todo : SUBSET Events, verdict : Verdicts]
Commands == [op : {"none", "refresh", "flush", "clear"}, todo : SUBSET Messages]

Resting == [pc |-> "idle", held |-> {}, todo |-> {}, verdict |-> "none"]
AtRest == [op |-> "none", todo |-> {}]

At(w, pc) == worker[w].pc = pc
Trouble == troubles < MaxTroubles /\ troubles' = troubles + 1

-----------------------------------------------------------------------------
(* What the store is asked.                                                *)

(* list_queued_session_inbox_events_for_session                            *)
Queued == {e \in Events : inbox[e].status = "queued"}
Ripe == {e \in Queued : inbox[e].ripe}

(* Mutant: a cancelled run is still in the way.                            *)
Active_NotOver(status) == status \notin {"none", "over"}

(* RunStatus::is_terminal                                                  *)
Active(status) == status \in {"running", "waiting"}

(* The two ways to a cancelled run, told apart by its error.               *)
Stop(status) == status \in {"stopped", "cancelled"}

(* session_has_active_run                                                  *)
HasActiveRun == \E t \in Turns : Active(run[t])

(* A list is worked off in its order.                                      *)
First(events) == CHOOSE e \in events : \A f \in events : e <= f

Put(e, status, ripe) == inbox' = [inbox EXCEPT ![e] = [status |-> status, ripe |-> ripe]]
PutAll(events, status, ripe) ==
  inbox' = [e \in Events |-> IF e \in events THEN [status |-> status, ripe |-> ripe] ELSE inbox[e]]

-----------------------------------------------------------------------------
(* A wake-up turn.                                                         *)

(* The end of a pass: something is due, and nothing runs in the session.   *)
(* The tick leaves at the first error, of a job, a schedule or the wake-up *)
(* of a session that comes before this one.                                *)
Look(w) ==
  /\ At(w, "idle") /\ Ripe # {} /\ ~ HasActiveRun
  /\ w = Tick => ~ tickFails
  /\ worker' = [worker EXCEPT ![w].pc = "looked"]
  /\ UNCHANGED <<inbox, run, busy, tickFails, user, canceller, history, troubles>>

(* execute_session_wakeup_turn lists again, but does not look again.       *)
List(w) ==
  /\ At(w, "looked") /\ Ripe # {}
  /\ worker' = [worker EXCEPT ![w] =
                   [pc |-> "claim", held |-> Ripe, todo |-> Ripe, verdict |-> "none"]]
  /\ run' = [run EXCEPT ![w] = "running"]
  /\ twice' = twice \cup {e \in Ripe : \E v \in Workers \ {w} : e \in worker[v].held}
  /\ UNCHANGED <<inbox, busy, tickFails, user, canceller, answered, dropped, orphans, troubles>>

ListNothing(w) ==
  /\ At(w, "looked") /\ Ripe = {}
  /\ worker' = [worker EXCEPT ![w] = Resting]
  /\ UNCHANGED <<inbox, run, busy, tickFails, user, canceller, history, troubles>>

Claim(w) ==
  LET e == First(worker[w].todo) IN
  /\ At(w, "claim") /\ worker[w].todo # {}
  /\ Put(e, "claimed", TRUE)
  /\ worker' = [worker EXCEPT ![w].todo = @ \ {e}]
  /\ UNCHANGED <<run, busy, tickFails, user, canceller, history, troubles>>

(* run_was_cancelled_by_operator, at the head of the provider loop         *)
Begin(w) ==
  /\ At(w, "claim") /\ worker[w].todo = {} /\ ~ Stop(run[w])
  /\ worker' = [worker EXCEPT ![w].pc = "turn"]
  /\ UNCHANGED <<inbox, run, busy, tickFails, user, canceller, history, troubles>>

Answers(verdict) == verdict \in {"completed", "waiting"}

(* Any error but an approval fails the run, the operator's stop as well.   *)
Ends(w, verdict) ==
  /\ run' = [run EXCEPT ![w] = IF verdict = "waiting" THEN "waiting" ELSE "over"]
  /\ worker' = [worker EXCEPT ![w] = [pc |-> "settle", held |-> worker[w].held,
                                      todo |-> worker[w].held, verdict |-> verdict]]
  /\ answered' = IF Answers(verdict) THEN answered \cup worker[w].held ELSE answered
  /\ UNCHANGED <<inbox, busy, tickFails, user, canceller, dropped, twice, orphans>>

Stopped(w) ==
  /\ At(w, "claim") /\ worker[w].todo = {} /\ Stop(run[w])
  /\ Ends(w, run[w])
  /\ UNCHANGED troubles

Finish(w, verdict) ==
  /\ At(w, "turn")
  /\ Ends(w, verdict)
  /\ IF verdict = "failed" THEN Trouble ELSE UNCHANGED troubles

(* Mutant: a turn that asks for an approval queues its events again.       *)
Verdict_Requeues(verdict) == IF verdict = "completed" THEN "processed" ELSE "queued"

(* Mutant: whatever became of the turn, its events are done.               *)
Verdict_Processed(verdict) == "processed"

(* Mutant: a turn that failed leaves its events as they are.               *)
Verdict_Claimed(verdict) == IF Answers(verdict) THEN "processed" ELSE "claimed"

(* mark_processed, or requeue at once                                      *)
Verdict(verdict) == IF Answers(verdict) THEN "processed" ELSE "queued"

Settle(w) ==
  LET e == First(worker[w].todo)
      left == worker[w].todo \ {e} IN
  /\ At(w, "settle")
  /\ Put(e, Verdict(worker[w].verdict), TRUE)
  /\ worker' = [worker EXCEPT ![w] = IF left = {} THEN Resting ELSE [@ EXCEPT !.todo = left]]
  /\ UNCHANGED <<run, busy, tickFails, user, canceller, history, troubles>>

(* A put fails, of an event or of the run at the end of the turn: the      *)
(* error leaves both where they are.                                       *)
GiveUp(w) ==
  /\ worker[w].pc \in {"claim", "turn", "settle"}
  /\ Trouble
  /\ worker' = [worker EXCEPT ![w] = Resting]
  /\ orphans' = orphans \cup {e \in worker[w].held : inbox[e].status = "claimed"}
  /\ UNCHANGED <<inbox, run, busy, tickFails, user, canceller, answered, dropped, twice>>

(* A person answers the approval: the turn goes on to its end, or to a put *)
(* that fails and leaves the run running in nobody's hands.                *)
Approve(t) ==
  /\ run[t] = "waiting"
  /\ \/ run' = [run EXCEPT ![t] = "over"] /\ UNCHANGED troubles
     \/ run' = [run EXCEPT ![t] = "running"] /\ Trouble
  /\ UNCHANGED <<inbox, busy, tickFails, actors, history>>

(* What fails ahead of this session may do so for a while, or for good.    *)
Ahead ==
  /\ At(Tick, "idle")
  /\ tickFails' = ~ tickFails
  /\ IF tickFails THEN UNCHANGED troubles ELSE Trouble
  /\ UNCHANGED <<inbox, run, busy, actors, history>>

-----------------------------------------------------------------------------
(* Who fills the inbox: a job that ends, and the Telegram worker.          *)

(* emit_inbox_event_for_job                                                *)
Emit(e) ==
  /\ e \in Results /\ inbox[e].status = "none"
  /\ Put(e, "queued", TRUE)
  /\ UNCHANGED <<run, busy, tickFails, actors, history, troubles>>

(* start_or_queue_chat_turn: what else runs in the session is not asked.   *)
(* Bound: one chat turn.                                                   *)
StartChat ==
  /\ ~ busy /\ run["chat"] = "none"
  /\ busy' = TRUE
  /\ run' = [run EXCEPT !["chat"] = "running"]
  /\ UNCHANGED <<inbox, tickFails, actors, history, troubles>>

(* The turn is over, or it has stored the run as waiting for an approval,  *)
(* or a put failed and the run stays as it was stored; the session is      *)
(* taken out of active_chat_turns all the same.                            *)
EndChat ==
  /\ busy
  /\ \/ \E status \in {"over", "waiting"} : run' = [run EXCEPT !["chat"] = status]
        /\ UNCHANGED troubles
     \/ UNCHANGED run /\ Trouble
  /\ busy' = FALSE
  /\ UNCHANGED <<inbox, tickFails, actors, history>>

(* handle_inbound_while_turn_running_with_binding, by the mode of the chat.*)
(* A message that is rejected changes nothing. One that is coalesced moves *)
(* the window of all that wait: they are listed with its put.              *)
Incoming(e) == busy /\ user.op = "none" /\ e \in Messages /\ inbox[e].status = "none"

Queue(e) ==
  /\ Incoming(e)
  /\ Put(e, "queued", TRUE)
  /\ UNCHANGED <<run, busy, tickFails, actors, history, troubles>>

Coalesce(e) ==
  /\ Incoming(e)
  /\ Put(e, "queued", FALSE)
  /\ user' = [op |-> "refresh", todo |-> (Queued \cap Messages) \cup {e}]
  /\ UNCHANGED <<run, busy, tickFails, worker, canceller, history, troubles>>

(* cancel_latest_session_run, which goes by updated_at: any run may be it. *)
Restart(e) ==
  /\ Incoming(e) /\ Trouble
  /\ IF HasActiveRun
     THEN \E t \in Turns : Active(run[t]) /\ run' = [run EXCEPT ![t] = "stopped"]
     ELSE UNCHANGED run
  /\ Put(e, "queued", TRUE)
  /\ UNCHANGED <<busy, tickFails, actors, history>>

(* /queue flush and /queue clear, after their list.                        *)
Command(op) ==
  /\ user.op = "none" /\ Trouble
  /\ Queued \cap Messages # {}
  /\ user' = [op |-> op, todo |-> Queued \cap Messages]
  /\ UNCHANGED <<inbox, run, busy, tickFails, worker, canceller, history>>

(* Each listed record is put, whatever it has become.                      *)
Rewrite ==
  /\ user.todo # {}
  /\ PutAll(user.todo, IF user.op = "clear" THEN "processed" ELSE "queued", user.op # "refresh")
  /\ user' = AtRest
  /\ dropped' = IF user.op = "clear" THEN dropped \cup user.todo ELSE dropped
  /\ twice' = IF user.op = "clear" THEN twice ELSE twice \cup (user.todo \ Queued)
  /\ UNCHANGED <<run, busy, tickFails, worker, canceller, answered, orphans, troubles>>

Ripen(e) ==
  /\ inbox[e].status = "queued" /\ ~ inbox[e].ripe
  /\ inbox' = [inbox EXCEPT ![e].ripe = TRUE]
  /\ UNCHANGED <<run, busy, tickFails, actors, history, troubles>>

-----------------------------------------------------------------------------
(* cancel_all_session_work: every run of the snapshot, then its events. The*)
(* snapshot has the queued events only.                                    *)

Cancel ==
  /\ canceller = {} /\ Trouble
  /\ run' = [t \in Turns |-> IF Active(run[t]) THEN "cancelled" ELSE run[t]]
  /\ canceller' = Queued
  /\ UNCHANGED <<inbox, busy, tickFails, worker, user, history>>

PutAway ==
  /\ canceller # {}
  /\ PutAll(canceller, "processed", TRUE)
  /\ canceller' = {}
  /\ dropped' = dropped \cup canceller
  /\ UNCHANGED <<run, busy, tickFails, worker, user, answered, twice, orphans, troubles>>

(* The daemon dies. At startup running runs are interrupted; nobody looks  *)
(* for a claimed event.                                                    *)
Crash ==
  /\ Trouble
  /\ run' = [t \in Turns |-> IF run[t] = "waiting" THEN "waiting" ELSE "over"]
  /\ busy' = FALSE
  /\ worker' = [w \in Workers |-> Resting]
  /\ user' = AtRest /\ canceller' = {}
  /\ orphans' = orphans \cup {e \in Events : inbox[e].status = "claimed"}
  /\ UNCHANGED <<inbox, tickFails, answered, dropped, twice>>

-----------------------------------------------------------------------------
Init ==
  /\ inbox = [e \in Events |-> [status |-> "none", ripe |-> FALSE]]
  /\ run = [t \in Turns |-> IF t = "chat" THEN "none" ELSE "over"]
  /\ busy = FALSE /\ tickFails = FALSE
  /\ worker = [w \in Workers |-> Resting]
  /\ user = AtRest /\ canceller = {}
  /\ answered = {}
  /\ dropped = {} /\ twice = {} /\ orphans = {}
  /\ troubles = 0

WakeUpStep(w) ==
  \/ Look(w) \/ List(w) \/ ListNothing(w) \/ Begin(w) \/ Stopped(w)
  \/ Claim(w) \/ Settle(w)
  \/ \E verdict \in {"completed", "waiting", "failed"} : Finish(w, verdict)

UserStep ==
  \/ StartChat
  \/ \E e \in Messages : Queue(e) \/ Coalesce(e) \/ Restart(e)
  \/ \E op \in {"flush", "clear"} : Command(op)

Next ==
  \/ \E w \in Workers : WakeUpStep(w) \/ GiveUp(w)
  \/ \E t \in Turns : Approve(t)
  \/ \E e \in Events : Emit(e) \/ Ripen(e)
  \/ UserStep \/ Rewrite \/ EndChat \/ Ahead
  \/ Cancel \/ PutAway \/ Crash

Spec == Init /\ [][Next]_vars

(* The daemon's loop comes round, a thread ends what it began, a chat turn *)
(* ends, a window closes, a command that listed puts. No person has to act,*)
(* and nobody has to call session_wait.                                    *)
FairSpec ==
  /\ Spec
  /\ WF_vars(WakeUpStep(Tick))
  /\ \A w \in Pumps : WF_vars(WakeUpStep(w) /\ ~ Look(w))
  /\ WF_vars(EndChat)
  /\ WF_vars(Rewrite)
  /\ WF_vars(PutAway)
  /\ \A e \in Events : WF_vars(Ripen(e))

-----------------------------------------------------------------------------
(* Properties.                                                             *)

(* Type invariant.                                                         *)
TypeOK ==
  /\ inbox \in [Events -> InboxRows]
  /\ run \in [Turns -> RunStatuses]
  /\ busy \in BOOLEAN /\ tickFails \in BOOLEAN
  /\ worker \in [Workers -> Wakeups]
  /\ user \in Commands
  /\ canceller \subseteq Events
  /\ {answered, dropped, twice, orphans} \subseteq SUBSET Events
  /\ troubles \in 0..MaxTroubles

(* A claimed event is in the hands of a thread that will settle it, unless *)
(* its thread died or a put failed: nobody else would ever take it up.     *)
ClaimedHasAHolder ==
  \A e \in Events :
    inbox[e].status = "claimed" => e \in orphans \/ \E w \in Workers : e \in worker[w].held

(* An event leads to one answer, or to one turn that asks for an approval. *)
(* Two need a thread that listed it before another one's claim, or a       *)
(* Telegram command that put the copy it had listed before.                *)
AnsweredOnce ==
  [][\A w \in Workers :
       At(w, "turn") /\ worker'[w].pc = "settle" /\ Answers(worker'[w].verdict)
         => worker[w].held \cap answered \subseteq twice]_vars

(* What is marked processed was in a turn that ended, or was put away by   *)
(* /queue clear or /cancel: a failing turn loses nothing.                  *)
ProcessedIsAccountedFor ==
  \A e \in Events : inbox[e].status = "processed" => e \in answered \/ e \in dropped

(* An event that waits is processed in the end, through failing turns,     *)
(* chat turns and rewritten windows, unless its thread was lost, the       *)
(* session stands still (a person is asked, by a wake-up or by the chat,   *)
(* or a failing put left a run behind that looks active) or the tick       *)
(* never stops failing before it comes to this session.                    *)
Standstill ==
  \/ \E t \in Turns : run[t] = "waiting"
  \/ \E w \in Workers : run[w] = "running" /\ At(w, "idle")
  \/ run["chat"] = "running" /\ ~ busy
InboxIsServed ==
  \/ <>[]tickFails
  \/ \A e \in Events :
       inbox[e].status \in {"queued", "claimed"}
         ~> inbox[e].status = "processed" \/ e \in orphans \/ Standstill

(* /cancel cancels the active, queued and background work of the session:  *)
(* the events of a turn it stopped do not wake the session again.          *)
CancelIsKept ==
  [][\A w \in Workers : \A e \in worker[w].todo :
       worker[w].verdict = "cancelled" /\ e \notin worker'[w].todo
         => inbox'[e].status # "queued"]_vars
=============================================================================
