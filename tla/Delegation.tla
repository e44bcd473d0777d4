----------------------------- MODULE Delegation ------------------------------
(***************************************************************************)
(* A delegation from one daemon to another over HTTP (A2A). Here a delegate*)
(* job sends the request and waits (cmd/agentd/src/execution/              *)
(* delegate_jobs.rs); there a job is made of it and executed as a          *)
(* background chat turn (bootstrap/execution_ops.rs, execution/chat.rs),   *)
(* and its end is called back (execution/background.rs), which ends the    *)
(* delegate job and leaves an event in the inbox of its session.           *)
(*                                                                         *)
(* Both job rows are put whole by whoever loaded them. On both sides a     *)
(* thread lists the jobs that run and have no lease, and then, for each,   *)
(* loads and puts it with a lease, loads it again and puts it running,     *)
(* whatever it has become since it was listed. The lease and the second    *)
(* load are one step. Each HTTP call is a thread of the daemon that serves *)
(* it, and the caller waits: there is no timeout but a broken connection.  *)
(***************************************************************************)
EXTENDS Naturals, FiniteSets

CONSTANTS
  Workers,     \* threads of the remote daemon that execute jobs
  MaxAttempts, \* bound: requests the delegate job may send, each by a thread
  MaxTroubles  \* bound: broken connections, leases outlasted, cancellations, crashes,
               \*   and threads that list a job another has listed

ASSUME DelegationAssumption ==
  /\ "sender" \notin Workers
  /\ MaxAttempts \in Nat \ {0} /\ MaxTroubles \in Nat

Attempts == 1..MaxAttempts

VARIABLES
  parent,   \* jobs, here: the delegate job
  told,     \* session_inbox_events, here: the ids of the delegation's events
  sender,   \* the threads that execute the delegate job, with the row they loaded
  request,  \* POST /v1/a2a/delegations, by attempt: the thread that serves it
  remote,   \* jobs, there
  worker,   \* the threads that execute the job there, with the row they loaded
  callback, \* POST /v1/a2a/delegations/{id}/complete, by the thread that calls
  overtaken,\* history: a copy of the delegate job was put over a newer row
  retaken,  \* history: a thread took the delegate job when it ran no more
  doubled,  \* history: the remote job was made again, or begun when begun or over
  muted,    \* history: the remote job ended and nobody will say so
  troubles  \* counter of what MaxTroubles bounds

here == <<parent, told, sender>>
there == <<remote, worker>>
calls == <<request, callback>>
history == <<overtaken, retaken, doubled, muted>>
vars == <<here, there, calls, history, troubles>>

NoJob == [status |-> "none", requested |-> FALSE, claimed |-> FALSE, sent |-> FALSE]
Idle == [pc |-> "idle", copy |-> NoJob]
NoCopy == [status |-> "none", requested |-> FALSE]
NotYet == [pc |-> "idle", copy |-> NoCopy]
NoRequest == [pc |-> "none", broken |-> FALSE]
NoCallback == [pc |-> "none", broken |-> FALSE, outcome |-> "none", loaded |-> NoCopy]

At(w, pc) == worker[w].pc = pc
Goes(w, pc, copy) == worker' = [worker EXCEPT ![w] = [pc |-> pc, copy |-> copy]]
Trouble == troubles < MaxTroubles /\ troubles' = troubles + 1

(* JobStatus::is_active, and the statuses a callback is sent for           *)
Active(status) == status \in {"running", "waiting", "blocked"}
Over(status) == status \in {"completed", "failed", "blocked", "cancelled"}

(* should_run_background_job, and no cancel_requested_at                   *)
Runs(job) == job.status = "running" /\ ~ job.claimed
Due(job) == Runs(job) /\ ~ job.requested

(* What a thread loads of the delegate job.                                *)
Copy(row) == [status |-> row.status, requested |-> row.requested]

(* A loaded copy is put, and says nothing of what the row became meanwhile.*)
PutParent(status, by, copy) ==
  /\ parent' = [status |-> status, requested |-> copy.requested, by |-> by,
                 claimed |-> status = "running"]
  /\ overtaken' = (overtaken \/ Copy(parent) # copy)

-----------------------------------------------------------------------------
(* Here: the tick, or the pump of the session, and                         *)
(* execute_background_delegate_job.                                        *)

(* The job is listed with others, and its turn comes.                      *)
List(a) ==
  /\ sender[a].pc = "idle" /\ \A b \in 1..(a - 1) : sender[b].pc # "idle"
  /\ IF \E b \in Attempts : sender[b].pc \in {"listed", "taken"}
     THEN Trouble ELSE UNCHANGED troubles
  /\ Due(parent)
  /\ sender' = [sender EXCEPT ![a].pc = "listed"]
  /\ UNCHANGED <<parent, told, there, calls, history>>

(* claim_background_job, and the load that follows: nobody looks whether   *)
(* the job still runs, or has a lease by now.                              *)
Take(a) ==
  /\ sender[a].pc = "listed"
  /\ parent' = [parent EXCEPT !.claimed = TRUE, !.by = "sender"]
  /\ sender' = [sender EXCEPT ![a] = [pc |-> "taken", copy |-> Copy(parent)]]
  /\ retaken' = (retaken \/ parent.status # "running")
  /\ UNCHANGED <<told, there, calls, overtaken, doubled, muted, troubles>>

(* The copy is put as running, whatever its status, and sent to the peer.  *)
Start(a) ==
  /\ sender[a].pc = "taken"
  /\ PutParent("running", "sender", sender[a].copy)
  /\ sender' = [sender EXCEPT ![a].pc = "sent", ![a].copy.status = "running"]
  /\ request' = [request EXCEPT ![a].pc = "sent"]
  /\ UNCHANGED <<told, there, callback, retaken, doubled, muted, troubles>>

(* Mutant: a refused delegation waits like an accepted one.                *)
Answered_Waits(answer) == "waiting"

(* Without an answer nobody knows whether the peer took the request.       *)
Answered(answer) == IF answer.broken THEN "blocked" ELSE "waiting"

Settle(a) ==
  /\ sender[a].pc = "sent" /\ (request[a].broken \/ request[a].pc = "accepted")
  /\ PutParent(Answered(request[a]), "sender", sender[a].copy)
  /\ sender' = [sender EXCEPT ![a] = [pc |-> "settled", copy |-> NoCopy]]
  /\ UNCHANGED <<told, there, calls, retaken, doubled, muted, troubles>>

(* Mutant: the event is named after the thread that leaves it.             *)
EventId_Own(row) == <<row.status, "sender">>

(* The event's id is made of the outcome and of updated_at, which the last *)
(* writer of the row set.                                                  *)
EventId(row) == <<row.status, row.by>>

IsTold(status) == status \in {"blocked", "completed", "failed"}

(* emit_inbox_event_for_job, of the row as it is by now.                   *)
Emit(a) ==
  /\ sender[a].pc = "settled"
  /\ told' = IF IsTold(parent.status) THEN told \cup {EventId(parent)} ELSE told
  /\ sender' = [sender EXCEPT ![a].pc = "done"]
  /\ UNCHANGED <<parent, there, calls, history, troubles>>

(* cancel_background_job: a job that runs and was to be cancelled.         *)
CancelListed ==
  /\ Runs(parent) /\ parent.requested
  /\ parent' = [parent EXCEPT !.status = "cancelled"]
  /\ UNCHANGED <<told, sender, there, calls, history, troubles>>

-----------------------------------------------------------------------------
(* There: accept_remote_delegation.                                        *)

Looked == IF remote.status = "none" THEN "absent" ELSE "accepted"

Look(a) ==
  /\ request[a].pc = "sent"
  /\ request' = [request EXCEPT ![a].pc = Looked]
  /\ UNCHANGED <<here, there, callback, history, troubles>>

(* Mutant: the job is left as JobSpec::chat_turn makes it.                 *)
FreshJob_Queued == [NoJob EXCEPT !.status = "queued"]

FreshJob == [NoJob EXCEPT !.status = "running"]

Accept(a) ==
  /\ request[a].pc = "absent"
  /\ remote' = FreshJob
  /\ doubled' = (doubled \/ remote.status # "none")
  /\ request' = [request EXCEPT ![a].pc = "accepted"]
  /\ UNCHANGED <<here, worker, callback, overtaken, retaken, muted, troubles>>

(* The connection breaks under the sender. The other side may go on.       *)
Break(a) ==
  /\ sender[a].pc = "sent" /\ ~ request[a].broken
  /\ Trouble
  /\ request' = [request EXCEPT ![a].broken = TRUE]
  /\ UNCHANGED <<here, there, callback, history>>

-----------------------------------------------------------------------------
(* There: the turn of the job.                                             *)

ListRemote(w) ==
  /\ At(w, "idle") /\ Due(remote)
  /\ IF \E v \in Workers : worker[v].pc \in {"listed", "taken"}
     THEN Trouble ELSE UNCHANGED troubles
  /\ Goes(w, "listed", NoJob)
  /\ UNCHANGED <<here, remote, calls, history>>

TakeRemote(w) ==
  /\ At(w, "listed")
  /\ remote' = [remote EXCEPT !.claimed = TRUE]
  /\ Goes(w, "taken", remote')
  /\ UNCHANGED <<here, calls, history, troubles>>

(* A thread that has begun the turn, and has not done with the job.        *)
Busy(w) == worker[w].pc \in {"turn", "ending", "load", "calling"}

(* execute_background_chat_turn_job puts the job running in the same way.  *)
StartRemote(w) ==
  /\ At(w, "taken")
  /\ remote' = [worker[w].copy EXCEPT !.status = "running"]
  /\ Goes(w, "turn", remote')
  /\ doubled' = (doubled \/ remote.status # "running" \/ \E v \in Workers : Busy(v))
  /\ UNCHANGED <<here, calls, overtaken, retaken, muted, troubles>>

(* A job that runs and was to be cancelled is: nobody is called.           *)
CancelListedRemote(w) ==
  /\ At(w, "idle") /\ Runs(remote) /\ remote.requested
  /\ remote' = [remote EXCEPT !.status = "cancelled"]
  /\ muted' = TRUE
  /\ UNCHANGED <<here, worker, calls, overtaken, retaken, doubled, troubles>>

(* job_was_cancelled_by_operator                                           *)
ToCancel == remote.status = "cancelled" \/ remote.requested

(* The turn is over, and nobody cancelled it: the run, the transcript and  *)
(* the curator are between this look and the end.                          *)
Check(w) ==
  /\ At(w, "turn") /\ ~ ToCancel
  /\ Goes(w, "ending", worker[w].copy)
  /\ UNCHANGED <<here, remote, calls, history, troubles>>

End(w, status) ==
  /\ remote' = [worker[w].copy EXCEPT !.status = status]
  /\ UNCHANGED <<here, calls, overtaken, retaken, doubled, troubles>>

Complete(w) ==
  /\ At(w, "ending")
  /\ End(w, "completed")
  /\ Goes(w, "load", NoJob)
  /\ UNCHANGED muted

HeedCancel(w) ==
  /\ At(w, "turn") /\ ToCancel
  /\ End(w, "cancelled")
  /\ Goes(w, "load", NoJob)
  /\ UNCHANGED muted

(* The turn needs an approval, and the job is over with that.              *)
NeedApproval(w) ==
  /\ At(w, "turn")
  /\ End(w, "blocked")
  /\ Goes(w, "load", NoJob)
  /\ UNCHANGED muted

(* The error of a background chat turn ends the pass, before the callback. *)
FailTurn(w) ==
  /\ At(w, "turn") /\ ~ ToCancel
  /\ End(w, "failed")
  /\ Goes(w, "idle", NoJob)
  /\ muted' = TRUE

-----------------------------------------------------------------------------
(* There: deliver_callback_for_job, and here: complete_remote_delegation.  *)

(* build_a2a_completion_request: a cancelled job blocks its parent.        *)
Outcome(status) == IF status = "cancelled" THEN "blocked" ELSE status

Call(w) ==
  /\ At(w, "load") /\ Over(remote.status) /\ ~ remote.sent
  /\ callback[w].pc \in {"none", "ok", "dead"}
  /\ callback' = [callback EXCEPT ![w] =
                    [NoCallback EXCEPT !.pc = "sent", !.outcome = Outcome(remote.status)]]
  /\ Goes(w, "calling", remote)
  /\ UNCHANGED <<here, remote, request, history, troubles>>

NothingToCall(w) ==
  /\ At(w, "load") /\ (~ Over(remote.status) \/ remote.sent)
  /\ Goes(w, "idle", NoJob)
  /\ UNCHANGED <<here, remote, calls, history, troubles>>

(* Mutant: a cancelled job is completed all the same.                      *)
Ignored_Never == FALSE

Ignored == parent.status = "cancelled" \/ parent.requested

Receive(w) ==
  /\ callback[w].pc = "sent"
  /\ callback' = [callback EXCEPT ![w] = [pc |-> IF Ignored THEN "ok" ELSE "loaded",
                     broken |-> @.broken, outcome |-> @.outcome,
                     loaded |-> IF Ignored THEN NoCopy ELSE Copy(parent)]]
  /\ UNCHANGED <<here, there, request, history, troubles>>

EndParent(w) ==
  /\ callback[w].pc = "loaded"
  /\ PutParent(callback[w].outcome, w, callback[w].loaded)
  /\ callback' = [callback EXCEPT ![w].pc = "ended", ![w].loaded = NoCopy]
  /\ UNCHANGED <<told, sender, there, request, retaken, doubled, muted, troubles>>

Tell(w) ==
  /\ callback[w].pc = "ended"
  /\ told' = told \cup {<<callback[w].outcome, w>>}
  /\ callback' = [callback EXCEPT ![w].pc = "ok"]
  /\ UNCHANGED <<parent, sender, there, request, history, troubles>>

(* Nobody serves the call any more.                                        *)
Dropped(call) ==
  [pc |-> "dead", broken |-> TRUE, outcome |-> call.outcome, loaded |-> NoCopy]

(* The connection breaks under the caller, or a put fails under the server.*)
Lose(w) ==
  /\ At(w, "calling") /\ ~ callback[w].broken
  /\ Trouble
  /\ callback' = [callback EXCEPT ![w].broken = TRUE]
       \/ callback' = [callback EXCEPT ![w] = Dropped(@)]
  /\ UNCHANGED <<here, there, request, history>>

(* The row is put as it was loaded, sent or not: there is no second call.  *)
Return(w) ==
  /\ At(w, "calling") /\ (callback[w].broken \/ callback[w].pc = "ok")
  /\ remote' = [worker[w].copy EXCEPT !.sent = ~ callback[w].broken]
  /\ Goes(w, "idle", NoJob)
  /\ muted' = (muted \/ callback[w].broken)
  /\ UNCHANGED <<here, calls, overtaken, retaken, doubled, troubles>>

-----------------------------------------------------------------------------
(* The operators of the two daemons, and the daemons' deaths.              *)

(* cancel_all_session_work, here: the peer does not hear of it.            *)
Cancelled(row) == [row EXCEPT !.status = "cancelled", !.requested = TRUE, !.claimed = FALSE]

Cancel ==
  /\ Active(parent.status) /\ Trouble
  /\ parent' = Cancelled(parent)
  /\ UNCHANGED <<told, sender, there, calls, history>>

(* and there: only a thread that has the job in hand calls back.           *)
CancelRemote ==
  /\ Active(remote.status) /\ Trouble
  /\ remote' = Cancelled(remote)
  /\ muted' = (muted \/ \A w \in Workers : At(w, "idle"))
  /\ UNCHANGED <<here, worker, calls, overtaken, retaken, doubled>>

CrashHere ==
  /\ Trouble
  /\ sender' = [a \in Attempts |->
       CASE sender[a].pc \in {"idle", "listed", "taken"} -> NotYet
         [] OTHER -> [pc |-> "done", copy |-> NoCopy]]
  /\ callback' = [w \in Workers |->
       IF At(w, "calling") /\ callback[w].pc # "ok"
       THEN Dropped(callback[w]) ELSE callback[w]]
  /\ UNCHANGED <<parent, told, there, request, history>>

CrashThere ==
  /\ Trouble
  /\ worker' = [w \in Workers |-> Idle]
  /\ request' = [a \in Attempts |->
       IF request[a].pc \in {"sent", "absent"}
       THEN [pc |-> "dead", broken |-> TRUE] ELSE request[a]]
  /\ muted' = (muted \/ Over(remote.status))
  /\ UNCHANGED <<here, remote, callback, overtaken, retaken, doubled>>

(* An abandoned lease runs out, or a call outlasts its own.                *)
FreeParent ==
  /\ parent.status = "running" /\ parent.claimed
  /\ parent' = [parent EXCEPT !.claimed = FALSE]
  /\ UNCHANGED <<told, sender, there, calls, history>>

Expire ==
  /\ \A a \in Attempts : sender[a].pc \notin {"taken", "sent"}
  /\ FreeParent
  /\ UNCHANGED troubles

SlowCall ==
  /\ \E a \in Attempts : sender[a].pc = "sent"
  /\ FreeParent
  /\ Trouble

FreeRemote ==
  /\ remote.status = "running" /\ remote.claimed
  /\ remote' = [remote EXCEPT !.claimed = FALSE]
  /\ UNCHANGED <<here, worker, calls, history>>

ExpireRemote ==
  /\ \A w \in Workers : worker[w].pc \notin {"taken", "turn", "ending"}
  /\ FreeRemote
  /\ UNCHANGED troubles

(* A turn outlasts its lease, which nobody renews.                         *)
SlowTurn ==
  /\ \E w \in Workers : At(w, "turn")
  /\ FreeRemote
  /\ Trouble

-----------------------------------------------------------------------------
Init ==
  /\ parent = [status |-> "running", requested |-> FALSE, by |-> "sender", claimed |-> FALSE]
  /\ told = {}
  /\ sender = [a \in Attempts |-> NotYet]
  /\ request = [a \in Attempts |-> NoRequest]
  /\ remote = NoJob
  /\ worker = [w \in Workers |-> Idle]
  /\ callback = [w \in Workers |-> NoCallback]
  /\ overtaken = FALSE /\ retaken = FALSE /\ doubled = FALSE /\ muted = FALSE
  /\ troubles = 0

SenderStep(a) == List(a) \/ Take(a) \/ Start(a) \/ Settle(a) \/ Emit(a)
ServerStep(a) == Look(a) \/ Accept(a)
WorkerStep(w) ==
  \/ ListRemote(w) \/ TakeRemote(w) \/ StartRemote(w) \/ CancelListedRemote(w)
  \/ Check(w) \/ Complete(w) \/ HeedCancel(w) \/ NeedApproval(w) \/ FailTurn(w)
  \/ Call(w) \/ NothingToCall(w) \/ Return(w)
CallbackStep(w) == Receive(w) \/ EndParent(w) \/ Tell(w)

Next ==
  \/ \E a \in Attempts : SenderStep(a) \/ ServerStep(a) \/ Break(a)
  \/ \E w \in Workers : WorkerStep(w) \/ CallbackStep(w) \/ Lose(w)
  \/ CancelListed \/ Expire \/ SlowCall \/ ExpireRemote \/ SlowTurn
  \/ Cancel \/ CancelRemote \/ CrashHere \/ CrashThere

Spec == Init /\ [][Next]_vars

(* The threads of both daemons go on, a call that is not lost is served,   *)
(* abandoned leases run out.                                               *)
FairSpec ==
  /\ Spec
  /\ WF_vars(CancelListed) /\ WF_vars(Expire) /\ WF_vars(ExpireRemote)
  /\ \A a \in Attempts : WF_vars(SenderStep(a)) /\ WF_vars(ServerStep(a))
  /\ \A w \in Workers : WF_vars(WorkerStep(w)) /\ WF_vars(CallbackStep(w))

-----------------------------------------------------------------------------
(* Properties.                                                             *)

Statuses == {"none", "running", "waiting", "blocked", "completed", "failed", "cancelled"}
Outcomes == {"blocked", "completed", "failed"}
Writers == {"sender"} \cup Workers
ParentRows == [status : Statuses \ {"none"}, requested : BOOLEAN, by : Writers, claimed : BOOLEAN]
RemoteRows == [status : Statuses \ {"waiting"}, requested : BOOLEAN,
               claimed : BOOLEAN, sent : BOOLEAN]
Copies == [status : Statuses, requested : BOOLEAN]
Senders == [pc : {"idle", "listed", "taken", "sent", "settled", "done"},
            copy : Copies]
Requests == [pc : {"none", "sent", "absent", "accepted", "dead"}, broken : BOOLEAN]
Turns == [pc : {"idle", "listed", "taken", "turn", "ending", "load", "calling"},
          copy : RemoteRows]
Callbacks == [pc : {"none", "sent", "loaded", "ended", "ok", "dead"}, broken : BOOLEAN,
              outcome : Outcomes \cup {"none"}, loaded : Copies]

(* Type invariant.                                                         *)
TypeOK ==
  /\ parent \in ParentRows
  /\ told \subseteq Outcomes \X Writers
  /\ sender \in [Attempts -> Senders]
  /\ request \in [Attempts -> Requests]
  /\ remote \in RemoteRows
  /\ worker \in [Workers -> Turns]
  /\ callback \in [Workers -> Callbacks]
  /\ overtaken \in BOOLEAN /\ retaken \in BOOLEAN
  /\ doubled \in BOOLEAN /\ muted \in BOOLEAN
  /\ troubles \in 0..MaxTroubles

(* The remote job is in somebody's hands, or will be.                      *)
UnderWay == remote.status = "running" \/ \E w \in Workers : ~ At(w, "idle")

(* Somebody put the delegate job running or waiting that had ended, or the *)
(* job there was executed twice.                                           *)
Crossed == overtaken \/ retaken \/ doubled

(* While the delegate job waits, somebody there is still to call back,     *)
(* unless the end was muted, the job there was made or begun twice, or a   *)
(* thread here put or took the job when the callback had already spoken.   *)
WaitsForSomebody ==
  parent.status = "waiting" => UnderWay \/ muted \/ Crossed

(* The session here hears once how a delegation ended, whatever is asked   *)
(* again after a crash and whoever tells it: the job there, and the event, *)
(* are named after the delegation. Two causes are left: the job there was  *)
(* made or begun twice, or the job here was taken again when it had ended. *)
ToldOnce == Cardinality(told \ {<<"blocked", "sender">>}) > 1 => doubled \/ retaken

(* What the operator cancelled here stays cancelled: neither an answer nor *)
(* a callback revives it. Two threads may: one that loaded the job before, *)
(* whose copy says nothing of it, and one that had listed it, which loads  *)
(* it afresh and puts it running. Then the request to cancel stays, and no *)
(* result is ever taken for it.                                            *)
CancelledStays ==
  [][parent.requested /\ ~ overtaken' =>
       /\ parent'.requested
       /\ parent'.status \notin {"completed", "failed"}
       /\ parent.status = "cancelled" /\ parent'.status # "cancelled" =>
            parent'.status = "running" /\ retaken]_vars

(* A delegation ends or is blocked, through crashes and repeated requests, *)
(* unless one of the above kept the news from it.                          *)
Spent ==
  /\ parent.status = "running"
  /\ \A a \in Attempts : sender[a].pc = "done"
DelegationEnds ==
  parent.status \in {"running", "waiting"}
    ~> parent.status \notin {"running", "waiting"} \/ muted \/ Crossed \/ Spent
=============================================================================
