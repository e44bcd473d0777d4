-------------------------- MODULE DelegationProofs ---------------------------
(***************************************************************************)
(* Proofs about Delegation: its type invariant, that a cancelled job is    *)
(* revived by nobody but the threads named, that a job that waits is heard *)
(* of, and that the session is told once; for any number of threads,       *)
(* requests and troubles.                                                  *)
(***************************************************************************)
EXTENDS Delegation, FiniteSetTheorems, TLAPS

(* The small abbreviations of the model are open throughout.              *)
USE DEF Goes, At, Trouble, PutParent, Copy

-----------------------------------------------------------------------------
LEMMA OneMore ==
  ASSUME NEW m \in Nat, NEW n \in 0..m, n < m
  PROVE  n + 1 \in 0..m
  OBVIOUS

LEMMA SenderType ==
  ASSUME TypeOK, NEW a \in Attempts, SenderStep(a)
  PROVE  /\ parent' \in ParentRows
         /\ told' \subseteq Outcomes \X Writers
         /\ sender' \in [Attempts -> Senders]
         /\ overtaken' \in BOOLEAN /\ retaken' \in BOOLEAN
<1>1. /\ parent \in ParentRows /\ sender \in [Attempts -> Senders]
      /\ told \subseteq Outcomes \X Writers
      /\ overtaken \in BOOLEAN /\ retaken \in BOOLEAN
  BY DEF TypeOK
<1>2. sender[a] \in Senders /\ sender[a].copy \in Copies
  BY <1>1 DEF Senders
<1>3. CASE List(a)
  BY <1>1, <1>3 DEF List, Senders, history
<1>4. CASE Take(a)
  <2>1. parent' \in ParentRows
    BY <1>1, <1>4 DEF Take, ParentRows, Writers
  <2>2. [pc |-> "taken", copy |-> Copy(parent)] \in Senders
    BY <1>1 DEF Senders, Copies, ParentRows, Statuses
  <2>. QED  BY <1>1, <1>4, <2>1, <2>2 DEF Take
<1>5. CASE Start(a)
  <2>1. parent' \in ParentRows /\ overtaken' \in BOOLEAN
    BY <1>1, <1>2, <1>5 DEF Start, ParentRows, Copies, Statuses, Writers
  <2>2. sender' \in [Attempts -> Senders]
    BY <1>1, <1>2, <1>5 DEF Start, Senders, Copies, Statuses
  <2>. QED  BY <1>1, <1>5, <2>1, <2>2 DEF Start
<1>6. CASE Settle(a)
  <2>1. parent' \in ParentRows /\ overtaken' \in BOOLEAN
    BY <1>1, <1>2, <1>6 DEF Settle, Answered, ParentRows, Copies, Statuses, Writers
  <2>2. [pc |-> "settled", copy |-> NoCopy] \in Senders
    BY DEF Senders, NoCopy, Copies, Statuses
  <2>. QED  BY <1>1, <1>6, <2>1, <2>2 DEF Settle
<1>7. CASE Emit(a)
  <2>1. IsTold(parent.status) => EventId(parent) \in Outcomes \X Writers
    BY <1>1 DEF IsTold, EventId, Outcomes, ParentRows
  <2>2. sender' \in [Attempts -> Senders]
    BY <1>1, <1>7 DEF Emit, Senders
  <2>. QED  BY <1>1, <1>7, <2>1, <2>2 DEF Emit, history
<1>. QED  BY <1>3, <1>4, <1>5, <1>6, <1>7 DEF SenderStep

LEMMA OperatorType ==
  ASSUME TypeOK, CancelListed \/ FreeParent \/ Cancel \/ CrashHere
  PROVE  /\ parent' \in ParentRows
         /\ told' \subseteq Outcomes \X Writers
         /\ sender' \in [Attempts -> Senders]
         /\ overtaken' \in BOOLEAN /\ retaken' \in BOOLEAN
<1>1. /\ parent \in ParentRows /\ sender \in [Attempts -> Senders]
      /\ told \subseteq Outcomes \X Writers
      /\ overtaken \in BOOLEAN /\ retaken \in BOOLEAN
  BY DEF TypeOK
<1>2. CASE CancelListed
  BY <1>1, <1>2 DEF CancelListed, ParentRows, Statuses, history
<1>3. CASE FreeParent
  BY <1>1, <1>3 DEF FreeParent, ParentRows, history
<1>4. CASE Cancel
  BY <1>1, <1>4 DEF Cancel, Cancelled, ParentRows, Statuses, history
<1>5. CASE CrashHere
  <2>1. NotYet \in Senders /\ [pc |-> "done", copy |-> NoCopy] \in Senders
    BY DEF NotYet, NoCopy, Senders, Copies, Statuses
  <2>. QED  BY <1>1, <1>5, <2>1 DEF CrashHere, history
<1>. QED  BY <1>2, <1>3, <1>4, <1>5

LEMMA RequestType ==
  ASSUME TypeOK, Next
  PROVE  request' \in [Attempts -> Requests]
<1>1. request \in [Attempts -> Requests]
  BY DEF TypeOK
<1>2. ASSUME NEW a \in Attempts, SenderStep(a) \/ ServerStep(a) \/ Break(a)
      PROVE  request' \in [Attempts -> Requests]
  <2>1. CASE Start(a)
    BY <1>1, <2>1 DEF Start, Requests
  <2>2. CASE Look(a)
    BY <1>1, <2>2 DEF Look, Looked, Requests
  <2>3. CASE Accept(a)
    BY <1>1, <2>3 DEF Accept, Requests
  <2>4. CASE Break(a)
    BY <1>1, <2>4 DEF Break, Requests
  <2>. QED
    BY <1>1, <1>2, <2>1, <2>2, <2>3, <2>4
    DEF SenderStep, List, Take, Settle, Emit, ServerStep, calls
<1>3. CASE CrashThere
  BY <1>1, <1>3 DEF CrashThere, Requests
<1>4. CASE UNCHANGED request
  BY <1>1, <1>4
<1>. QED
  BY <1>2, <1>3, <1>4
  DEF Next, WorkerStep, ListRemote, TakeRemote, StartRemote, CancelListedRemote, Check,
      Complete, HeedCancel, NeedApproval, FailTurn, End, Call, NothingToCall, Return,
      CallbackStep, Receive, EndParent, Tell, Lose, CancelListed, Expire, SlowCall, FreeParent,
      ExpireRemote, SlowTurn, FreeRemote, Cancel, CancelRemote, CrashHere, calls

(* What a thread there does with the job and with its call.                *)
LEMMA WorkerType ==
  ASSUME TypeOK, NEW w \in Workers, WorkerStep(w)
  PROVE  /\ remote' \in RemoteRows
         /\ worker' \in [Workers -> Turns]
         /\ callback' \in [Workers -> Callbacks]
<1>1. /\ remote \in RemoteRows /\ NoJob \in RemoteRows
      /\ worker \in [Workers -> Turns] /\ callback \in [Workers -> Callbacks]
  BY DEF TypeOK, NoJob, RemoteRows, Statuses
<1>2. worker[w].copy \in RemoteRows
  BY <1>1 DEF Turns
<1>3. ASSUME NEW pc \in {"idle", "listed", "taken", "turn", "ending", "load", "calling"},
             NEW copy \in RemoteRows, Goes(w, pc, copy)
      PROVE  worker' \in [Workers -> Turns]
  BY <1>1, <1>3 DEF Turns
<1>4. ASSUME NEW status \in Statuses \ {"waiting"}, NEW row \in RemoteRows
      PROVE  [row EXCEPT !.status = status] \in RemoteRows
  BY DEF RemoteRows
<1>5. CASE ListRemote(w)
  BY <1>1, <1>3, <1>5 DEF ListRemote, calls
<1>6. CASE TakeRemote(w)
  <2>1. remote' \in RemoteRows
    BY <1>1, <1>6 DEF TakeRemote, RemoteRows
  <2>. QED  BY <1>1, <1>3, <1>6, <2>1 DEF TakeRemote, calls
<1>7. CASE StartRemote(w)
  <2>1. remote' \in RemoteRows
    BY <1>2, <1>4, <1>7 DEF StartRemote, Statuses
  <2>. QED  BY <1>1, <1>3, <1>7, <2>1 DEF StartRemote, calls
<1>8. CASE CancelListedRemote(w)
  BY <1>1, <1>4, <1>8 DEF CancelListedRemote, Statuses, calls
<1>9. CASE Check(w)
  BY <1>1, <1>2, <1>3, <1>9 DEF Check, calls
<1>10. ASSUME NEW status \in {"completed", "cancelled", "failed", "blocked"}, End(w, status),
              NEW pc \in {"load", "idle"}, Goes(w, pc, NoJob)
       PROVE  /\ remote' \in RemoteRows
              /\ worker' \in [Workers -> Turns]
              /\ callback' \in [Workers -> Callbacks]
  BY <1>1, <1>2, <1>3, <1>4, <1>10 DEF End, Statuses, calls
<1>11. CASE Complete(w) \/ HeedCancel(w) \/ NeedApproval(w) \/ FailTurn(w)
  BY <1>10, <1>11 DEF Complete, HeedCancel, NeedApproval, FailTurn
<1>12. CASE Call(w)
  <2>1. Outcome(remote.status) \in Outcomes
    BY <1>12 DEF Call, Outcome, Outcomes, Over
  <2>2. callback' \in [Workers -> Callbacks]
    BY <1>1, <1>12, <2>1 DEF Call, NoCallback, NoCopy, Callbacks, Copies, Statuses
  <2>. QED  BY <1>1, <1>3, <1>12, <2>2 DEF Call
<1>13. CASE NothingToCall(w)
  BY <1>1, <1>3, <1>13 DEF NothingToCall, calls
<1>14. CASE Return(w)
  <2>1. callback[w].broken \in BOOLEAN
    BY <1>1 DEF Callbacks
  <2>2. remote' \in RemoteRows
    BY <1>2, <1>14, <2>1 DEF Return, RemoteRows
  <2>. QED  BY <1>1, <1>3, <1>14, <2>2 DEF Return, calls
<1>. QED
  BY <1>5, <1>6, <1>7, <1>8, <1>9, <1>11, <1>12, <1>13, <1>14 DEF WorkerStep

LEMMA DroppedType ==
  ASSUME NEW call \in Callbacks
  PROVE  Dropped(call) \in Callbacks
  BY DEF Dropped, NoCopy, Copies, Statuses, Callbacks

LEMMA CallbackType ==
  ASSUME TypeOK, NEW w \in Workers, CallbackStep(w) \/ Lose(w)
  PROVE  callback' \in [Workers -> Callbacks]
<1>1. callback \in [Workers -> Callbacks] /\ parent \in ParentRows
  BY DEF TypeOK
<1>2. callback[w] \in Callbacks /\ NoCopy \in Copies /\ Copy(parent) \in Copies
  BY <1>1 DEF NoCopy, Copies, ParentRows, Statuses
<1>3. CASE Receive(w)
  <2>. DEFINE received == [pc |-> IF Ignored THEN "ok" ELSE "loaded", broken |-> callback[w].broken,
                           outcome |-> callback[w].outcome,
                           loaded |-> IF Ignored THEN NoCopy ELSE Copy(parent)]
  <2>1. received \in Callbacks
    BY <1>2 DEF Callbacks
  <2>2. callback' = [callback EXCEPT ![w] = received]
    BY <1>3 DEF Receive
  <2>. QED  BY <1>1, <2>1, <2>2
<1>4. CASE EndParent(w)
  BY <1>1, <1>2, <1>4 DEF EndParent, Callbacks
<1>5. CASE Tell(w)
  BY <1>1, <1>5 DEF Tell, Callbacks
<1>6. CASE Lose(w)
  <2>1. CASE callback' = [callback EXCEPT ![w].broken = TRUE]
    BY <1>1, <2>1 DEF Callbacks
  <2>2. CASE callback' = [callback EXCEPT ![w] = Dropped(@)]
    BY <1>1, <1>2, <2>2, DroppedType
  <2>. QED  BY <1>6, <2>1, <2>2 DEF Lose
<1>. QED  BY <1>3, <1>4, <1>5, <1>6 DEF CallbackStep

LEMMA HistoryType ==
  ASSUME TypeOK, Next
  PROVE  doubled' \in BOOLEAN /\ muted' \in BOOLEAN /\ troubles' \in 0..MaxTroubles
<1>1. troubles \in 0..MaxTroubles /\ MaxTroubles \in Nat
  BY DelegationAssumption DEF TypeOK
<1>2. Trouble => troubles' \in 0..MaxTroubles
  BY <1>1, OneMore DEF Trouble
<1>3. Trouble \/ troubles' = troubles
  BY DEF Next, SenderStep, List, Take, Start, Settle, Emit, ServerStep, Look, Accept, Break,
         WorkerStep, ListRemote, TakeRemote, StartRemote, CancelListedRemote, Check, Complete,
         HeedCancel, NeedApproval, FailTurn, End, Call, NothingToCall, Return, CallbackStep,
         Receive, EndParent, Tell, Lose, CancelListed, Expire, SlowCall, FreeParent, ExpireRemote,
         SlowTurn, FreeRemote, Cancel, CancelRemote, CrashHere, CrashThere
<1>4. /\ doubled' = doubled \/ doubled' \in BOOLEAN
      /\ muted' = muted \/ muted' \in BOOLEAN
  BY DEF Next, SenderStep, List, Take, Start, Settle, Emit, ServerStep, Look, Accept, Break,
         WorkerStep, ListRemote, TakeRemote, StartRemote, CancelListedRemote, Check, Complete,
         HeedCancel, NeedApproval, FailTurn, End, Call, NothingToCall, Return, CallbackStep,
         Receive, EndParent, Tell, Lose, CancelListed, Expire, SlowCall, FreeParent, ExpireRemote,
         SlowTurn, FreeRemote, Cancel, CancelRemote, CrashHere, CrashThere, history
<1>. QED  BY <1>1, <1>2, <1>3, <1>4 DEF TypeOK

-----------------------------------------------------------------------------
(***************************************************************************)
(* The inductive invariant.                                                *)
(***************************************************************************)

(* A callback on its way has an outcome, and did not find a cancelled job. *)
CallsAreWellFormed ==
  \A w \in Workers :
    /\ callback[w].pc # "none" => callback[w].outcome # "none"
    /\ callback[w].pc = "loaded" =>
         callback[w].loaded.status # "cancelled" /\ ~ callback[w].loaded.requested
    /\ At(w, "calling") => callback[w].pc # "none" /\ Over(worker[w].copy.status)

(* A thread here that found the job over when it took it is recorded, and  *)
(* so is whatever brings a job that was to be cancelled back, or takes a   *)
(* result for it.                                                          *)
CopiesAreFresh ==
  /\ \A a \in Attempts :
       /\ sender[a].pc = "taken" /\ sender[a].copy.status # "running" => retaken
       /\ sender[a].pc = "sent" => sender[a].copy.status = "running"
  /\ parent.requested => parent.status = "cancelled" \/ overtaken \/ retaken
  /\ parent.requested => parent.status \notin {"completed", "failed"} \/ overtaken

(* The job there is in the hands of one thread at most, and over when that *)
(* thread has ended it.                                                    *)
OneThread ==
  ~ doubled =>
    \A w \in Workers :
      /\ Busy(w) => \A v \in Workers \ {w} : ~ Busy(v)
      /\ worker[w].pc \in {"load", "calling"} => Over(remote.status)

(* After a call the job there is over for good, and nobody else calls.     *)
OneCall ==
  ~ doubled =>
    \A w \in Workers :
      callback[w].pc # "none" =>
        /\ Over(remote.status)
        /\ \A v \in Workers : worker[v].pc \notin {"turn", "ending", "load"}
        /\ \A v \in Workers \ {w} : callback[v].pc = "none"

(* What is accepted is there, and so is what a job waits for.              *)
AcceptedIsThere ==
  /\ \A a \in Attempts : request[a].pc = "accepted" => remote.status # "none"
  /\ parent.status = "waiting" => remote.status # "none"

(* The job here has heard how the delegation ended.                        *)
Heard == parent.status \notin {"running", "waiting"}

NewsArrives ==
  ~ Crossed /\ ~ muted =>
    /\ \A w \in Workers :
         At(w, "calling") /\ callback[w].pc \in {"ended", "ok"} => Heard
    /\ remote.sent => Heard
    /\ \A w \in Workers : worker[w].copy.sent => Heard
    /\ Over(remote.status) /\ (\A w \in Workers : At(w, "idle")) => Heard

(* The events of a delegation, and the row they are made of.               *)
Callers == {w \in Workers : callback[w].pc # "none"}
EventsAreCalls ==
  ~ doubled /\ ~ retaken =>
    /\ \A e \in told :
         e = <<"blocked", "sender">> \/ \E w \in Callers : e = <<callback[w].outcome, w>>
    /\ parent.by = "sender" => parent.status \notin {"completed", "failed"}
    /\ \A w \in Workers :
         parent.by = w /\ IsTold(parent.status)
           => w \in Callers /\ parent.status = callback[w].outcome

IInv ==
  /\ TypeOK
  /\ CallsAreWellFormed
  /\ CopiesAreFresh
  /\ OneThread
  /\ OneCall
  /\ AcceptedIsThere
  /\ NewsArrives
  /\ EventsAreCalls

-----------------------------------------------------------------------------
(* Which steps touch which variables.                                      *)

LEMMA HereMoves ==
  ASSUME Next
  PROVE  \/ \E a \in Attempts : SenderStep(a)
         \/ CancelListed \/ FreeParent \/ Cancel \/ CrashHere
         \/ \E w \in Workers : EndParent(w) /\ UNCHANGED <<told, sender, retaken>>
         \/ \E w \in Workers : Tell(w) /\ UNCHANGED <<parent, sender, overtaken, retaken>>
         \/ UNCHANGED <<parent, told, sender, overtaken, retaken>>
  BY DEF Next, ServerStep, Look, Accept, Break, WorkerStep, ListRemote, TakeRemote, StartRemote,
         CancelListedRemote, Check, Complete, HeedCancel, NeedApproval, FailTurn, End, Call,
         NothingToCall, Return, CallbackStep, Receive, EndParent, Tell, Lose, Expire, SlowCall,
         ExpireRemote, SlowTurn, FreeRemote, CancelRemote, CrashThere, history, here

LEMMA ThereMoves ==
  ASSUME Next
  PROVE  \/ \E a \in Attempts : Accept(a)
         \/ \E w \in Workers : WorkerStep(w)
         \/ FreeRemote \/ CancelRemote \/ CrashThere
         \/ UNCHANGED <<remote, worker>>
  BY DEF Next, SenderStep, List, Take, Start, Settle, Emit, ServerStep, Look, Break, CallbackStep,
         Receive, EndParent, Tell, Lose, CancelListed, Expire, SlowCall, FreeParent, ExpireRemote,
         SlowTurn, Cancel, CrashHere, there

LEMMA CallbackMoves ==
  ASSUME Next
  PROVE  \/ \E w \in Workers : Call(w) \/ Receive(w) \/ EndParent(w) \/ Tell(w) \/ Lose(w)
         \/ CrashHere
         \/ UNCHANGED callback
  BY DEF Next, SenderStep, List, Take, Start, Settle, Emit, ServerStep, Look, Accept, Break,
         WorkerStep, ListRemote, TakeRemote, StartRemote, CancelListedRemote, Check, Complete,
         HeedCancel, NeedApproval, FailTurn, End, NothingToCall, Return, CallbackStep,
         CancelListed, Expire, SlowCall, FreeParent, ExpireRemote, SlowTurn, FreeRemote, Cancel,
         CancelRemote, CrashThere, calls

LEMMA WorkersMove ==
  ASSUME Next
  PROVE  \/ \E w \in Workers : ListRemote(w) \/ TakeRemote(w) \/ StartRemote(w) \/ Check(w)
                                \/ Call(w)
         \/ \E w \in Workers : \E pc \in {"load", "idle"} : Goes(w, pc, NoJob)
         \/ worker' = [w \in Workers |-> Idle]
         \/ UNCHANGED worker
<1>1. ASSUME NEW w \in Workers, WorkerStep(w)
      PROVE  \/ ListRemote(w) \/ TakeRemote(w) \/ StartRemote(w) \/ Check(w) \/ Call(w)
             \/ \E pc \in {"load", "idle"} : Goes(w, pc, NoJob)
             \/ UNCHANGED worker
  BY <1>1
  DEF WorkerStep, CancelListedRemote, Complete, HeedCancel, NeedApproval, FailTurn, NothingToCall,
      Return
<1>2. ASSUME NEW a \in Attempts, Accept(a)  PROVE UNCHANGED worker
  BY <1>2 DEF Accept
<1>. QED
  BY <1>1, <1>2, ThereMoves DEF FreeRemote, CancelRemote, CrashThere, there

(* What happens to a thread that has a job in hand, and was not begun.     *)
LEMMA StaysBusy ==
  ASSUME TypeOK, Next, NEW v \in Workers
  PROVE  /\ worker'[v].pc = "calling" => At(v, "calling") \/ Call(v)
         /\ worker'[v].pc = "calling" /\ At(v, "calling") => worker'[v] = worker[v]
         /\ worker'[v].pc = "ending" => At(v, "ending") \/ Check(v)
         /\ worker'[v].pc = "turn" => At(v, "turn") \/ StartRemote(v)
<1>1. worker \in [Workers -> Turns]
  BY DEF TypeOK
<1>2. ASSUME NEW w \in Workers, NEW pc, NEW copy,
             worker' = [worker EXCEPT ![w] = [pc |-> pc, copy |-> copy]]
      PROVE  IF w = v THEN worker'[v] = [pc |-> pc, copy |-> copy] /\ worker'[v].pc = pc
             ELSE worker'[v] = worker[v]
  <2>1. w = v => worker'[v] = [pc |-> pc, copy |-> copy]
    BY <1>1, <1>2
  <2>. QED  BY <1>1, <1>2, <2>1
<1>3. ASSUME NEW w \in Workers,
             ListRemote(w) \/ TakeRemote(w) \/ StartRemote(w) \/ Check(w) \/ Call(w), w # v
      PROVE  worker'[v] = worker[v]
  BY <1>1, <1>3 DEF ListRemote, TakeRemote, StartRemote, Check, Call
<1>4. ASSUME ListRemote(v) \/ TakeRemote(v)
      PROVE  worker'[v].pc \in {"listed", "taken"}
  <2>1. CASE ListRemote(v)
    <3>1. worker' = [worker EXCEPT ![v] = [pc |-> "listed", copy |-> NoJob]]
      BY <2>1 DEF ListRemote
    <3>. QED  BY <1>2, <3>1
  <2>2. CASE TakeRemote(v)
    <3>1. worker' = [worker EXCEPT ![v] = [pc |-> "taken", copy |-> remote']]
      BY <2>2 DEF TakeRemote
    <3>. QED  BY <1>2, <3>1
  <2>. QED  BY <1>4, <2>1, <2>2
<1>5. ASSUME StartRemote(v)  PROVE worker'[v].pc = "turn"
  <2>1. worker' = [worker EXCEPT ![v] = [pc |-> "turn", copy |-> remote']]
    BY <1>5 DEF StartRemote
  <2>. QED  BY <1>2, <2>1
<1>6. ASSUME Check(v)  PROVE worker'[v].pc = "ending"
  <2>1. worker' = [worker EXCEPT ![v] = [pc |-> "ending", copy |-> worker[v].copy]]
    BY <1>6 DEF Check
  <2>. QED  BY <1>2, <2>1
<1>7. ASSUME Call(v)  PROVE worker'[v].pc = "calling" /\ ~ At(v, "calling")
  <2>1. worker' = [worker EXCEPT ![v] = [pc |-> "calling", copy |-> remote]] /\ At(v, "load")
    BY <1>7 DEF Call
  <2>. QED  BY <1>2, <2>1
<1>8. ASSUME NEW w \in Workers, NEW pc \in {"load", "idle"}, Goes(w, pc, NoJob)
      PROVE  worker'[v].pc \in {"load", "idle"} \/ worker'[v] = worker[v]
  BY <1>1, <1>8
<1>9. worker' = [w \in Workers |-> Idle] => worker'[v].pc = "idle"
  BY DEF Idle
<1>. QED
  BY <1>3, <1>4, <1>5, <1>6, <1>7, <1>8, <1>9, WorkersMove

-----------------------------------------------------------------------------
LEMMA NextTypeOK ==
  ASSUME TypeOK, CallsAreWellFormed, [Next]_vars
  PROVE  TypeOK'
<1>1. CASE UNCHANGED vars
  BY <1>1 DEF TypeOK, vars, here, there, calls, history
<1>2. ASSUME Next
      PROVE  /\ parent' \in ParentRows
             /\ told' \subseteq Outcomes \X Writers
             /\ sender' \in [Attempts -> Senders]
             /\ overtaken' \in BOOLEAN /\ retaken' \in BOOLEAN
  <2>1. ASSUME NEW w \in Workers, callback[w].pc # "none"
        PROVE  callback[w].outcome \in Outcomes /\ callback[w].loaded \in Copies
    BY <2>1 DEF TypeOK, Callbacks, CallsAreWellFormed
  <2>2. ASSUME NEW w \in Workers, EndParent(w)
        PROVE  parent' \in ParentRows /\ overtaken' \in BOOLEAN
    BY <2>1, <2>2 DEF EndParent, ParentRows, Writers, Statuses, Outcomes, Copies, TypeOK
  <2>3. ASSUME NEW w \in Workers, Tell(w)
        PROVE  told' \subseteq Outcomes \X Writers
    <3>1. <<callback[w].outcome, w>> \in Outcomes \X Writers
      BY <2>1, <2>3 DEF Tell, Writers
    <3>2. told' = told \cup {<<callback[w].outcome, w>>}
      BY <2>3 DEF Tell
    <3>. QED  BY <3>1, <3>2 DEF TypeOK
  <2>. QED  BY <1>2, <2>2, <2>3, HereMoves, SenderType, OperatorType DEF TypeOK
<1>3. ASSUME Next
      PROVE  remote' \in RemoteRows /\ worker' \in [Workers -> Turns]
  <2>0. remote \in RemoteRows
    BY DEF TypeOK
  <2>1. ASSUME NEW a \in Attempts, Accept(a)
        PROVE  remote' \in RemoteRows /\ worker' = worker
    BY <2>1 DEF Accept, FreshJob, NoJob, RemoteRows, Statuses
  <2>2. CASE FreeRemote
    BY <2>0, <2>2 DEF FreeRemote, TypeOK, RemoteRows
  <2>3. CASE CancelRemote
    BY <2>0, <2>3 DEF CancelRemote, Cancelled, TypeOK, RemoteRows, Statuses
  <2>4. CASE CrashThere
    <3>1. Idle \in Turns
      BY DEF Idle, NoJob, Turns, RemoteRows, Statuses
    <3>. QED  BY <2>0, <2>4, <3>1 DEF CrashThere, TypeOK
  <2>. QED  BY <1>3, <2>1, <2>2, <2>3, <2>4, ThereMoves, WorkerType DEF TypeOK
<1>4. ASSUME Next
      PROVE  callback' \in [Workers -> Callbacks]
  <2>1. CASE CrashHere
    BY <2>1, DroppedType DEF CrashHere, TypeOK
  <2>2. ASSUME NEW w \in Workers, Call(w)
        PROVE  callback' \in [Workers -> Callbacks]
    BY <2>2, WorkerType DEF WorkerStep
  <2>. QED  BY <1>4, <2>1, <2>2, CallbackMoves, CallbackType DEF CallbackStep, TypeOK
<1>. QED  BY <1>1, <1>2, <1>3, <1>4, RequestType, HistoryType DEF TypeOK

-----------------------------------------------------------------------------
LEMMA NextCallsAreWellFormed ==
  ASSUME TypeOK, CallsAreWellFormed, [Next]_vars
  PROVE  CallsAreWellFormed'
<1>1. callback \in [Workers -> Callbacks] /\ worker \in [Workers -> Turns]
  BY DEF TypeOK
<1>2. SUFFICES ASSUME NEW v \in Workers
               PROVE  /\ callback'[v].pc # "none" => callback'[v].outcome # "none"
                      /\ callback'[v].pc = "loaded" =>
                           callback'[v].loaded.status # "cancelled"
                             /\ ~ callback'[v].loaded.requested
                      /\ worker'[v].pc = "calling" =>
                           callback'[v].pc # "none" /\ Over(worker'[v].copy.status)
  BY DEF CallsAreWellFormed
<1>3. callback[v] \in Callbacks /\ worker[v] \in Turns
  BY <1>1
<1>4. CASE UNCHANGED vars
  BY <1>4 DEF vars, there, calls, CallsAreWellFormed
<1>. DEFINE Formed ==
       /\ callback'[v].pc # "none" => callback'[v].outcome # "none"
       /\ callback'[v].pc = "loaded" =>
            callback'[v].loaded.status # "cancelled" /\ ~ callback'[v].loaded.requested
       /\ callback[v].pc # "none" => callback'[v].pc # "none"
<1>5. ASSUME Next  PROVE Formed
  <2>1. ASSUME NEW w \in Workers, Call(w)  PROVE Formed
    <3>1. Outcome(remote.status) # "none"
      BY <2>1 DEF Call, Outcome, Over
    <3>. QED  BY <1>1, <2>1, <3>1 DEF Call, NoCallback, CallsAreWellFormed
  <2>2. ASSUME NEW w \in Workers, Receive(w)  PROVE Formed
    <3>1. CASE w = v
      <4>. DEFINE received == [pc |-> IF Ignored THEN "ok" ELSE "loaded",
                     broken |-> callback[v].broken, outcome |-> callback[v].outcome,
                     loaded |-> IF Ignored THEN NoCopy ELSE Copy(parent)]
      <4>1. callback'[v] = received
        BY <1>1, <2>2, <3>1 DEF Receive
      <4>2. /\ received.pc = IF Ignored THEN "ok" ELSE "loaded"
            /\ received.outcome = callback[v].outcome
            /\ received.loaded = IF Ignored THEN NoCopy ELSE Copy(parent)
        OBVIOUS
      <4>3. callback[v].outcome # "none"
        BY <2>2, <3>1 DEF Receive, CallsAreWellFormed
      <4>4. ~ Ignored => Copy(parent).status # "cancelled" /\ ~ Copy(parent).requested
        BY DEF Ignored
      <4>. QED  BY <4>1, <4>2, <4>3, <4>4
    <3>2. CASE w # v
      BY <1>1, <2>2, <3>2 DEF Receive, CallsAreWellFormed
    <3>. QED  BY <3>1, <3>2
  <2>3. ASSUME NEW w \in Workers, EndParent(w) \/ Tell(w)  PROVE Formed
    <3>1. CASE EndParent(w)
      BY <1>1, <1>3, <3>1 DEF EndParent, CallsAreWellFormed, Callbacks
    <3>2. CASE Tell(w)
      BY <1>1, <1>3, <3>2 DEF Tell, CallsAreWellFormed, Callbacks
    <3>. QED  BY <2>3, <3>1, <3>2
  <2>4. ASSUME callback'[v] \in {callback[v], Dropped(callback[v])},
               callback'[v] = callback[v] \/ At(v, "calling")
        PROVE  Formed
    BY <1>3, <2>4 DEF CallsAreWellFormed, Dropped, Callbacks
  <2>5. CASE CrashHere
    BY <1>1, <2>4, <2>5 DEF CrashHere
  <2>6. ASSUME NEW w \in Workers, Lose(w)  PROVE Formed
    <3>1. CASE callback' = [callback EXCEPT ![w].broken = TRUE]
      BY <1>1, <1>3, <3>1 DEF CallsAreWellFormed, Callbacks
    <3>2. CASE callback' = [callback EXCEPT ![w] = Dropped(@)]
      BY <1>1, <2>4, <2>6, <3>2 DEF Lose
    <3>. QED  BY <2>6, <3>1, <3>2 DEF Lose
  <2>7. CASE UNCHANGED callback
    BY <2>7 DEF CallsAreWellFormed
  <2>. QED  BY <1>5, <2>1, <2>2, <2>3, <2>5, <2>6, <2>7, CallbackMoves
<1>6. ASSUME Next, worker'[v].pc = "calling"
      PROVE  callback'[v].pc # "none" /\ Over(worker'[v].copy.status)
  <2>1. CASE At(v, "calling")
    BY <1>5, <1>6, <2>1, StaysBusy DEF CallsAreWellFormed
  <2>2. CASE Call(v)
    <3>1. Goes(v, "calling", remote) /\ Over(remote.status)
      BY <2>2 DEF Call
    <3>2. callback'[v].pc = "sent"
      BY <1>1, <2>2 DEF Call, NoCallback
    <3>. QED  BY <1>1, <3>1, <3>2
  <2>. QED  BY <1>6, <2>1, <2>2, StaysBusy
<1>. QED  BY <1>4, <1>5, <1>6

-----------------------------------------------------------------------------
LEMMA DoubledGrows ==
  ASSUME TypeOK, [Next]_vars, ~ doubled'
  PROVE  /\ ~ doubled
         /\ \A a \in Attempts : Accept(a) => remote.status = "none"
         /\ \A w \in Workers : StartRemote(w) =>
              remote.status = "running" /\ \A v \in Workers : ~ Busy(v)
<1>1. \/ UNCHANGED doubled
      \/ \E a \in Attempts : Accept(a)
      \/ \E w \in Workers : StartRemote(w)
  BY DEF Next, SenderStep, List, Take, Start, Settle, Emit, ServerStep, Look, Accept, Break,
         WorkerStep, ListRemote, TakeRemote, StartRemote, CancelListedRemote, Check, Complete,
         HeedCancel, NeedApproval, FailTurn, End, Call, NothingToCall, Return, CallbackStep,
         Receive, EndParent, Tell, Lose, CancelListed, Expire, SlowCall, FreeParent, ExpireRemote,
         SlowTurn, FreeRemote, Cancel, CancelRemote, CrashHere, CrashThere, history, vars
<1>2. \A a \in Attempts : Accept(a) => ~ doubled /\ remote.status = "none"
  BY DEF Accept
<1>3. \A w \in Workers : StartRemote(w) =>
        ~ doubled /\ remote.status = "running" /\ \A v \in Workers : ~ Busy(v)
  BY DEF StartRemote
<1>. QED  BY <1>1, <1>2, <1>3

LEMMA NextOneThread ==
  ASSUME TypeOK, CallsAreWellFormed, OneThread, [Next]_vars
  PROVE  OneThread'
<1>. DEFINE Held(v) ==
       /\ Busy(v)' => \A u \in Workers \ {v} : ~ Busy(u)'
       /\ worker'[v].pc \in {"load", "calling"} => Over(remote'.status)
<1>1. SUFFICES ASSUME ~ doubled', NEW v \in Workers  PROVE Held(v)
  BY DEF OneThread
<1>2. /\ ~ doubled
      /\ \A a \in Attempts : Accept(a) => remote.status = "none"
      /\ \A w \in Workers : StartRemote(w) =>
           remote.status = "running" /\ \A u \in Workers : ~ Busy(u)
  BY <1>1, DoubledGrows
<1>3. /\ worker \in [Workers -> Turns]
      /\ remote \in RemoteRows
      /\ \A w \in Workers : worker[w].copy \in RemoteRows
  BY DEF TypeOK, Turns
<1>4. \A w \in Workers :
        /\ Busy(w) => \A u \in Workers \ {w} : ~ Busy(u)
        /\ worker[w].pc \in {"load", "calling"} => Over(remote.status)
  BY <1>2 DEF OneThread
<1>5. ASSUME worker' = worker, Over(remote.status) => Over(remote'.status)  PROVE Held(v)
  BY <1>4, <1>5 DEF Busy
<1>6. ASSUME NEW a \in Attempts, Accept(a)  PROVE Held(v)
  BY <1>2, <1>5, <1>6 DEF Accept, Over
<1>7. ASSUME NEW w \in Workers, NEW pc \in {"listed", "taken"}, NEW copy, Goes(w, pc, copy),
             remote'.status = remote.status
      PROVE  Held(v)
  <2>1. \A u \in Workers : IF u = w THEN worker'[u].pc = pc ELSE worker'[u] = worker[u]
    BY <1>3, <1>7
  <2>2. \A u \in Workers : Busy(u)' => Busy(u) /\ u # w
    BY <2>1 DEF Busy
  <2>. QED  BY <1>4, <1>7, <2>1, <2>2
<1>8. ASSUME NEW w \in Workers, NEW pc, NEW copy, Goes(w, pc, copy), Busy(w),
             pc \in {"load", "calling"} => Over(remote'.status)
      PROVE  Held(v)
  <2>1. \A u \in Workers : IF u = w THEN worker'[u].pc = pc ELSE worker'[u] = worker[u]
    BY <1>3, <1>8
  <2>2. \A u \in Workers \ {w} : ~ Busy(u)'
    BY <1>4, <1>8, <2>1 DEF Busy
  <2>. QED  BY <1>8, <2>1, <2>2 DEF Busy
<1>9. ASSUME NEW w \in Workers, WorkerStep(w)  PROVE Held(v)
  <2>1. ASSUME NEW status \in {"completed", "failed", "blocked", "cancelled"}, End(w, status)
        PROVE  Over(remote'.status)
    BY <1>3, <2>1 DEF End, Over, RemoteRows
  <2>2. CASE ListRemote(w)
    BY <1>7, <2>2 DEF ListRemote
  <2>3. CASE TakeRemote(w)
    <3>1. remote'.status = remote.status
      BY <1>3, <2>3 DEF TakeRemote, RemoteRows
    <3>. QED  BY <1>7, <2>3, <3>1 DEF TakeRemote
  <2>4. CASE StartRemote(w)
    <3>1. \A u \in Workers : ~ Busy(u)
      BY <1>2, <2>4
    <3>2. worker' = [worker EXCEPT ![w] = [pc |-> "turn", copy |-> remote']]
      BY <2>4 DEF StartRemote
    <3>3. \A u \in Workers : IF u = w THEN worker'[u].pc = "turn" ELSE worker'[u] = worker[u]
      BY <1>3, <3>2
    <3>. QED  BY <3>1, <3>3 DEF Busy
  <2>5. CASE CancelListedRemote(w)
    <3>1. remote'.status = "cancelled"
      BY <1>3, <2>5 DEF CancelListedRemote, RemoteRows
    <3>. QED  BY <1>5, <2>5, <3>1 DEF CancelListedRemote, Over
  <2>6. CASE Check(w)
    BY <1>8, <2>6 DEF Check, Busy
  <2>7. CASE Complete(w)
    BY <1>8, <2>1, <2>7 DEF Complete, Busy
  <2>8. CASE HeedCancel(w)
    BY <1>8, <2>1, <2>8 DEF HeedCancel, Busy
  <2>9. CASE NeedApproval(w)
    BY <1>8, <2>1, <2>9 DEF NeedApproval, Busy
  <2>10. CASE FailTurn(w)
    BY <1>8, <2>10 DEF FailTurn, Busy
  <2>11. CASE Call(w)
    BY <1>8, <2>11 DEF Call, Busy
  <2>12. CASE NothingToCall(w)
    BY <1>8, <2>12 DEF NothingToCall, Busy
  <2>13. CASE Return(w)
    BY <1>8, <2>13 DEF Return, Busy
  <2>. QED
    BY <1>9, <2>2, <2>3, <2>4, <2>5, <2>6, <2>7, <2>8, <2>9, <2>10, <2>11, <2>12, <2>13
    DEF WorkerStep
<1>10. CASE FreeRemote
  <2>1. worker' = worker /\ remote'.status = remote.status
    BY <1>3, <1>10 DEF FreeRemote, RemoteRows
  <2>. QED  BY <1>5, <2>1
<1>11. CASE CancelRemote
  <2>1. worker' = worker /\ remote'.status = "cancelled"
    BY <1>3, <1>11 DEF CancelRemote, Cancelled, RemoteRows
  <2>. QED  BY <1>5, <2>1 DEF Over
<1>12. CASE CrashThere
  BY <1>12 DEF CrashThere, Idle, Busy
<1>13. CASE UNCHANGED <<remote, worker>>
  BY <1>5, <1>13
<1>. QED
  BY <1>6, <1>9, <1>10, <1>11, <1>12, <1>13, ThereMoves DEF vars, there

-----------------------------------------------------------------------------
(* A call is begun by Call, and its outcome is what it began with.         *)
LEMMA OnlyCallCalls ==
  ASSUME TypeOK, CallsAreWellFormed, Next, NEW v \in Workers
  PROVE  \/ Call(v)
         \/ /\ callback'[v].outcome = callback[v].outcome
            /\ callback'[v].pc = "none" <=> callback[v].pc = "none"
<1>1. callback \in [Workers -> Callbacks] /\ callback[v] \in Callbacks
  BY DEF TypeOK
<1>. DEFINE Same == /\ callback'[v].outcome = callback[v].outcome
                    /\ callback'[v].pc = "none" <=> callback[v].pc = "none"
<1>2. ASSUME NEW w \in Workers, w # v, Call(w)  PROVE Same
  BY <1>1, <1>2 DEF Call
<1>3. ASSUME NEW w \in Workers, Receive(w)  PROVE Same
  BY <1>1, <1>3 DEF Receive
<1>4. ASSUME NEW w \in Workers, EndParent(w)  PROVE Same
  BY <1>1, <1>4 DEF EndParent, Callbacks
<1>5. ASSUME NEW w \in Workers, Tell(w)  PROVE Same
  BY <1>1, <1>5 DEF Tell, Callbacks
<1>6. ASSUME callback'[v] \in {callback[v], Dropped(callback[v])},
             callback'[v] = callback[v] \/ At(v, "calling")
      PROVE  Same
  BY <1>6 DEF CallsAreWellFormed, Dropped
<1>7. ASSUME NEW w \in Workers, Lose(w)  PROVE Same
  <2>1. CASE callback' = [callback EXCEPT ![w].broken = TRUE]
    BY <1>1, <2>1 DEF Callbacks
  <2>2. CASE callback' = [callback EXCEPT ![w] = Dropped(@)]
    BY <1>1, <1>6, <1>7, <2>2 DEF Lose
  <2>. QED  BY <1>7, <2>1, <2>2 DEF Lose
<1>8. CASE CrashHere
  BY <1>1, <1>6, <1>8 DEF CrashHere
<1>9. CASE UNCHANGED callback
  BY <1>9
<1>. QED
  BY <1>2, <1>3, <1>4, <1>5, <1>7, <1>8, <1>9, CallbackMoves

LEMMA NextOneCall ==
  ASSUME TypeOK, CallsAreWellFormed, OneThread, OneCall, [Next]_vars
  PROVE  OneCall'
<1>. DEFINE Alone(v) ==
       /\ Over(remote'.status)
       /\ \A u \in Workers : worker'[u].pc \notin {"turn", "ending", "load"}
       /\ \A u \in Workers \ {v} : callback'[u].pc = "none"
<1>1. SUFFICES ASSUME ~ doubled', NEW v \in Workers, callback'[v].pc # "none"  PROVE Alone(v)
  BY DEF OneCall
<1>2. /\ ~ doubled
      /\ \A a \in Attempts : Accept(a) => remote.status = "none"
      /\ \A w \in Workers : StartRemote(w) => remote.status = "running"
  BY <1>1, DoubledGrows
<1>3. CASE UNCHANGED vars
  BY <1>1, <1>2, <1>3 DEF OneCall, vars, there, calls
<1>4. /\ worker \in [Workers -> Turns]
      /\ remote \in RemoteRows
      /\ \A w \in Workers : worker[w].copy \in RemoteRows
  BY DEF TypeOK, Turns
<1>5. ASSUME Next, callback[v].pc # "none"  PROVE Alone(v)
  <2>1. /\ Over(remote.status)
        /\ \A u \in Workers : worker[u].pc \notin {"turn", "ending", "load"}
        /\ \A u \in Workers \ {v} : callback[u].pc = "none"
    BY <1>2, <1>5 DEF OneCall
  <2>2. \A u \in Workers : ~ Call(u)
    BY <2>1 DEF Call
  <2>3. \A u \in Workers \ {v} : callback'[u].pc = "none"
    BY <1>5, <2>1, <2>2, OnlyCallCalls
  <2>4. remote.status \notin {"none", "running"}
    BY <2>1 DEF Over
  <2>. DEFINE Quiet == /\ Over(remote'.status)
                       /\ \A u \in Workers : worker'[u].pc \notin {"turn", "ending", "load"}
  <2>5. ASSUME NEW w \in Workers, Return(w)  PROVE Quiet
    <3>1. Over(worker[w].copy.status)
      BY <2>5 DEF Return, CallsAreWellFormed
    <3>2. remote'.status = worker[w].copy.status
      BY <1>4, <2>5 DEF Return, RemoteRows
    <3>3. \A u \in Workers : worker'[u].pc = "idle" \/ worker'[u] = worker[u]
      BY <1>4, <2>5 DEF Return
    <3>. QED  BY <2>1, <3>1, <3>2, <3>3
  <2>6. ASSUME NEW w \in Workers, TakeRemote(w)  PROVE Quiet
    <3>1. remote'.status = remote.status
      BY <1>4, <2>6 DEF TakeRemote, RemoteRows
    <3>2. \A u \in Workers : worker'[u].pc = "taken" \/ worker'[u] = worker[u]
      <4>1. worker' = [worker EXCEPT ![w] = [pc |-> "taken", copy |-> remote']]
        BY <2>6 DEF TakeRemote
      <4>. QED  BY <1>4, <4>1
    <3>. QED  BY <2>1, <3>1, <3>2
  <2>7. ASSUME NEW w \in Workers, WorkerStep(w)  PROVE TakeRemote(w) \/ Return(w)
    BY <1>2, <2>1, <2>2, <2>4, <2>7
    DEF WorkerStep, ListRemote, Due, Runs, StartRemote, CancelListedRemote, Check, Complete,
        HeedCancel, NeedApproval, FailTurn, NothingToCall
  <2>8. CASE CancelRemote
    <3>1. worker' = worker /\ remote'.status = "cancelled"
      BY <1>4, <2>8 DEF CancelRemote, Cancelled, RemoteRows
    <3>. QED  BY <2>1, <2>3, <3>1 DEF Over
  <2>9. CASE CrashThere
    BY <2>1, <2>3, <2>9 DEF CrashThere, Idle
  <2>10. CASE UNCHANGED <<remote, worker>>
    BY <2>1, <2>3, <2>10
  <2>11. ~ FreeRemote /\ \A a \in Attempts : ~ Accept(a)
    BY <1>2, <2>4 DEF FreeRemote
  <2>. QED
    BY <1>5, <2>3, <2>5, <2>6, <2>7, <2>8, <2>9, <2>10, <2>11, ThereMoves
<1>6. ASSUME Next, callback[v].pc = "none"  PROVE Alone(v)
  <2>1. Call(v)
    BY <1>1, <1>6, OnlyCallCalls
  <2>2. remote' = remote /\ Over(remote.status) /\ worker[v].pc = "load"
    BY <2>1 DEF Call
  <2>3. \A u \in Workers : callback[u].pc = "none"
    BY <1>2, <2>2 DEF OneCall
  <2>4. \A u \in Workers \ {v} : ~ Busy(u)
    BY <1>2, <2>2 DEF OneThread, Busy
  <2>5. \A u \in Workers \ {v} : ~ Call(u)
    BY <2>4 DEF Call, Busy
  <2>6. \A u \in Workers \ {v} : callback'[u].pc = "none"
    BY <1>6, <2>3, <2>5, OnlyCallCalls
  <2>7. worker' = [worker EXCEPT ![v] = [pc |-> "calling", copy |-> remote]]
    BY <2>1 DEF Call
  <2>8. \A u \in Workers : IF u = v THEN worker'[u].pc = "calling" ELSE worker'[u] = worker[u]
    BY <1>4, <2>7
  <2>. QED  BY <2>2, <2>4, <2>6, <2>8 DEF Busy
<1>. QED  BY <1>3, <1>5, <1>6

-----------------------------------------------------------------------------
(* A job that was made is not unmade.                                      *)
LEMMA RemoteStays ==
  ASSUME TypeOK, CallsAreWellFormed, [Next]_vars, remote.status # "none"
  PROVE  remote'.status # "none"
<1>1. /\ remote \in RemoteRows
      /\ \A w \in Workers : worker[w].copy \in RemoteRows
  BY DEF TypeOK, Turns
<1>2. ASSUME NEW w \in Workers, NEW status \in {"completed", "failed", "blocked", "cancelled"},
             End(w, status)
      PROVE  remote'.status # "none"
  BY <1>1, <1>2 DEF End, RemoteRows
<1>3. ASSUME NEW w \in Workers, Return(w)  PROVE remote'.status # "none"
  <2>1. worker[w].copy.status # "none"
    BY <1>3 DEF Return, CallsAreWellFormed, Over
  <2>. QED  BY <1>1, <1>3, <2>1 DEF Return, RemoteRows
<1>4. ASSUME NEW w \in Workers, TakeRemote(w) \/ StartRemote(w) \/ CancelListedRemote(w)
      PROVE  remote'.status # "none"
  <2>1. CASE TakeRemote(w)
    BY <1>1, <2>1 DEF TakeRemote, RemoteRows
  <2>2. CASE StartRemote(w)
    BY <1>1, <2>2 DEF StartRemote, RemoteRows
  <2>3. CASE CancelListedRemote(w)
    BY <1>1, <2>3 DEF CancelListedRemote, RemoteRows
  <2>. QED  BY <1>4, <2>1, <2>2, <2>3
<1>5. ASSUME NEW w \in Workers, WorkerStep(w)  PROVE remote'.status # "none"
  BY <1>2, <1>3, <1>4, <1>5
  DEF WorkerStep, ListRemote, Check, Complete, HeedCancel, NeedApproval, FailTurn, Call,
      NothingToCall
<1>6. ASSUME NEW a \in Attempts, Accept(a)  PROVE remote'.status # "none"
  BY <1>6 DEF Accept, FreshJob, NoJob
<1>7. FreeRemote => remote'.status # "none"
  BY <1>1 DEF FreeRemote, RemoteRows
<1>8. CancelRemote => remote'.status # "none"
  BY <1>1 DEF CancelRemote, Cancelled, RemoteRows
<1>9. CrashThere => remote' = remote
  BY DEF CrashThere
<1>. QED  BY <1>5, <1>6, <1>7, <1>8, <1>9, ThereMoves DEF vars, there

(* What happens to the job here.                                           *)
LEMMA ParentMoves ==
  ASSUME TypeOK, CallsAreWellFormed, Next
  PROVE  \/ \E a \in Attempts :
              /\ Take(a)
              /\ parent'.status = parent.status /\ parent'.requested = parent.requested
              /\ parent'.by = "sender"
         \/ \E a \in Attempts :
              /\ Start(a) \/ Settle(a)
              /\ parent'.status \in {"running", "waiting", "blocked"}
              /\ parent'.status = "waiting" => request[a].pc = "accepted"
              /\ parent'.requested = sender[a].copy.requested
              /\ parent'.by = "sender"
         \/ \E w \in Workers :
              /\ EndParent(w) /\ callback[w].outcome \in Outcomes
              /\ parent'.status = callback[w].outcome /\ parent'.by = w
              /\ parent'.requested = callback[w].loaded.requested
         \/ /\ parent'.status = "cancelled" /\ parent'.by = parent.by
            /\ parent'.requested
         \/ /\ parent'.status = parent.status /\ parent'.by = parent.by
            /\ parent'.requested = parent.requested
<1>1. parent \in ParentRows
  BY DEF TypeOK
<1>2. ASSUME NEW w \in Workers, EndParent(w)
      PROVE  callback[w].outcome \in Outcomes
  BY <1>2 DEF EndParent, TypeOK, Callbacks, CallsAreWellFormed
<1>3. ASSUME NEW a \in Attempts, Take(a)
      PROVE  /\ parent'.status = parent.status /\ parent'.requested = parent.requested
             /\ parent'.by = "sender"
  BY <1>1, <1>3 DEF Take, ParentRows
<1>4. ASSUME NEW a \in Attempts, Start(a) \/ Settle(a)
      PROVE  /\ parent'.status \in {"running", "waiting", "blocked"}
             /\ parent'.status = "waiting" => request[a].pc = "accepted"
             /\ parent'.requested = sender[a].copy.requested
             /\ parent'.by = "sender"
  BY <1>4 DEF Start, Settle, Answered
<1>5. FreeParent => /\ parent'.status = parent.status /\ parent'.by = parent.by
                    /\ parent'.requested = parent.requested
  BY <1>1 DEF FreeParent, ParentRows
<1>6. Cancel \/ CancelListed => /\ parent'.status = "cancelled" /\ parent'.by = parent.by
                                /\ parent'.requested
  <2>1. Cancel => parent'.status = "cancelled" /\ parent'.by = parent.by /\ parent'.requested
    BY <1>1 DEF Cancel, Cancelled, ParentRows
  <2>2. CancelListed => parent'.status = "cancelled" /\ parent'.by = parent.by /\ parent'.requested
    BY <1>1 DEF CancelListed, ParentRows
  <2>. QED  BY <2>1, <2>2
<1>7. ASSUME NEW w \in Workers, EndParent(w)
      PROVE  /\ parent'.status = callback[w].outcome /\ parent'.by = w
             /\ parent'.requested = callback[w].loaded.requested
  BY <1>7 DEF EndParent
<1>. QED
  BY <1>2, <1>3, <1>4, <1>5, <1>6, <1>7, HereMoves DEF SenderStep, List, Emit, CrashHere

(* What was put over a newer row, or taken when it was over, stays so.     *)
LEMMA HistoryGrows ==
  ASSUME TypeOK, Next
  PROVE  (overtaken => overtaken') /\ (retaken => retaken')
<1>0. overtaken \in BOOLEAN /\ retaken \in BOOLEAN
  BY DEF TypeOK
<1>1. ASSUME NEW a \in Attempts, Take(a)
      PROVE  (overtaken => overtaken') /\ (retaken => retaken')
  <2>1. overtaken' = overtaken
    BY <1>1 DEF Take
  <2>2. retaken' = (retaken \/ parent.status # "running")
    BY <1>1 DEF Take
  <2>. QED  BY <1>0, <2>1, <2>2
<1>2. ASSUME NEW a \in Attempts, Start(a) \/ Settle(a)
      PROVE  (overtaken => overtaken') /\ (retaken => retaken')
  <2>1. retaken' = retaken
    BY <1>2 DEF Start, Settle
  <2>2. overtaken' = (overtaken \/ Copy(parent) # sender[a].copy)
    BY <1>2 DEF Start, Settle
  <2>. QED  BY <1>0, <2>1, <2>2
<1>3. ASSUME NEW w \in Workers, EndParent(w)
      PROVE  (overtaken => overtaken') /\ (retaken => retaken')
  <2>1. retaken' = retaken
    BY <1>3 DEF EndParent
  <2>2. overtaken' = (overtaken \/ Copy(parent) # callback[w].loaded)
    BY <1>3 DEF EndParent
  <2>. QED  BY <1>0, <2>1, <2>2
<1>4. \/ \E a \in Attempts : Take(a) \/ Start(a) \/ Settle(a)
      \/ \E w \in Workers : EndParent(w)
      \/ UNCHANGED <<overtaken, retaken>>
  BY HereMoves
  DEF SenderStep, List, Emit, CancelListed, FreeParent, Cancel, CrashHere, history
<1>. QED  BY <1>1, <1>2, <1>3, <1>4

LEMMA NextCopiesAreFresh ==
  ASSUME TypeOK, CallsAreWellFormed, CopiesAreFresh, [Next]_vars
  PROVE  CopiesAreFresh'
<1>1. sender \in [Attempts -> Senders]
  BY DEF TypeOK
<1>2. CASE UNCHANGED vars
  BY <1>2 DEF CopiesAreFresh, vars, here, history
<1>3. ASSUME Next, NEW b \in Attempts
      PROVE  /\ sender'[b].pc = "taken" /\ sender'[b].copy.status # "running" => retaken'
             /\ sender'[b].pc = "sent" => sender'[b].copy.status = "running"
  <2>. DEFINE Fresh ==
         /\ sender'[b].pc = "taken" /\ sender'[b].copy.status # "running" => retaken'
         /\ sender'[b].pc = "sent" => sender'[b].copy.status = "running"
  <2>1. sender[b] \in Senders /\ sender[b].copy \in Copies
    BY <1>1 DEF Senders
  <2>2. ASSUME sender'[b] = sender[b]  PROVE Fresh
    BY <1>3, <2>2, HistoryGrows DEF CopiesAreFresh
  <2>3. ASSUME NEW a \in Attempts, SenderStep(a), a # b  PROVE Fresh
    BY <1>1, <2>2, <2>3 DEF SenderStep, List, Take, Start, Settle, Emit
  <2>4. CASE List(b)
    BY <1>1, <2>1, <2>4 DEF List, Senders
  <2>5. CASE Take(b)
    <3>1. sender' = [sender EXCEPT ![b] = [pc |-> "taken", copy |-> Copy(parent)]]
      BY <2>5 DEF Take
    <3>2. sender'[b].pc = "taken" /\ sender'[b].copy.status = parent.status
      BY <1>1, <3>1
    <3>. QED  BY <2>5, <3>2 DEF Take
  <2>6. CASE Start(b)
    BY <1>1, <2>1, <2>6 DEF Start, Senders, Copies
  <2>7. CASE Settle(b)
    <3>1. sender' = [sender EXCEPT ![b] = [pc |-> "settled", copy |-> NoCopy]]
      BY <2>7 DEF Settle
    <3>. QED  BY <1>1, <3>1
  <2>8. CASE Emit(b)
    BY <1>1, <2>1, <2>8 DEF Emit, Senders
  <2>9. CASE CrashHere
    BY <2>9 DEF CrashHere, NotYet
  <2>. QED
    BY <1>3, <2>2, <2>3, <2>4, <2>5, <2>6, <2>7, <2>8, <2>9, HereMoves
    DEF SenderStep, CancelListed, FreeParent, Cancel
<1>4. ASSUME Next, parent'.requested, ~ overtaken', ~ retaken'
      PROVE  parent'.status = "cancelled"
  <2>1. ~ overtaken /\ ~ retaken
    BY <1>4, HistoryGrows
  <2>2. parent.requested => parent.status = "cancelled"
    BY <2>1 DEF CopiesAreFresh
  <2>3. ASSUME NEW a \in Attempts, Start(a) \/ Settle(a),
               parent'.requested = sender[a].copy.requested
        PROVE  FALSE
    <3>1. Copy(parent) = sender[a].copy
      BY <1>4, <2>3 DEF Start, Settle
    <3>2. sender[a].copy.status = "running"
      BY <2>1, <2>3 DEF Start, Settle, CopiesAreFresh
    <3>3. parent.requested /\ parent.status = "running"
      BY <1>4, <2>3, <3>1, <3>2
    <3>. QED  BY <2>2, <3>3
  <2>4. ASSUME NEW w \in Workers, EndParent(w),
               parent'.requested = callback[w].loaded.requested
        PROVE  FALSE
    BY <1>4, <2>4 DEF EndParent, CallsAreWellFormed
  <2>. QED  BY <1>4, <2>2, <2>3, <2>4, ParentMoves
<1>5. ASSUME Next, parent'.requested, ~ overtaken'
      PROVE  parent'.status \notin {"completed", "failed"}
  <2>1. parent.requested => parent.status \notin {"completed", "failed"}
    BY <1>5, HistoryGrows DEF CopiesAreFresh
  <2>2. ASSUME NEW w \in Workers, EndParent(w),
               parent'.requested = callback[w].loaded.requested
        PROVE  FALSE
    BY <1>5, <2>2 DEF EndParent, CallsAreWellFormed
  <2>. QED  BY <1>5, <2>1, <2>2, ParentMoves
<1>. QED  BY <1>2, <1>3, <1>4, <1>5 DEF CopiesAreFresh

LEMMA NextAcceptedIsThere ==
  ASSUME TypeOK, CallsAreWellFormed, AcceptedIsThere, [Next]_vars
  PROVE  AcceptedIsThere'
<1>1. CASE UNCHANGED vars
  BY <1>1 DEF AcceptedIsThere, vars, here, there, calls
<1>2. ASSUME Next, parent'.status = "waiting"  PROVE remote'.status # "none"
  BY <1>2, RemoteStays, ParentMoves DEF AcceptedIsThere, Outcomes
<1>3. ASSUME Next, NEW b \in Attempts, request'[b].pc = "accepted"  PROVE remote'.status # "none"
  <2>1. request \in [Attempts -> Requests]
    BY DEF TypeOK
  <2>2. CASE request[b].pc = "accepted"
    BY <2>2, RemoteStays DEF AcceptedIsThere
  <2>3. ASSUME NEW a \in Attempts, Accept(a)  PROVE remote'.status # "none"
    BY <2>3 DEF Accept, FreshJob, NoJob
  <2>4. ASSUME NEW a \in Attempts, Look(a)
        PROVE  remote.status # "none" \/ request[b].pc = "accepted"
    BY <1>3, <2>1, <2>4 DEF Look, Looked
  <2>5. ASSUME NEW a \in Attempts, Break(a)  PROVE request[b].pc = "accepted"
    BY <1>3, <2>1, <2>5 DEF Break, Requests
  <2>6. ASSUME NEW a \in Attempts, Start(a)  PROVE request[b].pc = "accepted"
    BY <1>3, <2>1, <2>6 DEF Start
  <2>7. CASE CrashThere
    BY <1>3, <2>1, <2>2, <2>7 DEF CrashThere
  <2>8. CASE UNCHANGED request
    BY <1>3, <2>2, <2>8
  <2>. QED
    BY <1>3, <2>2, <2>3, <2>4, <2>5, <2>6, <2>7, <2>8, RemoteStays
    DEF Next, SenderStep, List, Take, Settle, Emit, ServerStep, WorkerStep, ListRemote,
        TakeRemote, StartRemote, CancelListedRemote, Check, Complete, HeedCancel, NeedApproval,
        FailTurn, End, Call, NothingToCall, Return, CallbackStep, Receive, EndParent, Tell,
        Lose, CancelListed, Expire, SlowCall, FreeParent, ExpireRemote, SlowTurn, FreeRemote,
        Cancel, CancelRemote, CrashHere, calls
<1>. QED  BY <1>1, <1>2, <1>3 DEF AcceptedIsThere

-----------------------------------------------------------------------------
LEMMA HeardStays ==
  ASSUME TypeOK, CallsAreWellFormed, CopiesAreFresh, Next, ~ overtaken', ~ retaken'
  PROVE  /\ ~ overtaken /\ ~ retaken
         /\ Heard => Heard'
         /\ \A w \in Workers : EndParent(w) => Heard'
<1>1. ASSUME NEW w \in Workers, EndParent(w)  PROVE Heard'
  <2>1. callback[w].outcome \in Outcomes
    BY <1>1 DEF EndParent, TypeOK, Callbacks, CallsAreWellFormed
  <2>2. parent'.status = callback[w].outcome
    BY <1>1 DEF EndParent
  <2>. QED  BY <2>1, <2>2 DEF Heard, Outcomes
<1>2. ~ overtaken /\ ~ retaken
  BY HistoryGrows
<1>3. ASSUME NEW a \in Attempts, Start(a) \/ Settle(a)  PROVE ~ Heard
  <2>1. Copy(parent) = sender[a].copy /\ sender[a].copy.status = "running"
    BY <1>2, <1>3 DEF Start, Settle, CopiesAreFresh
  <2>2. parent.status = "running"
    BY <2>1
  <2>. QED  BY <2>2 DEF Heard
<1>. QED  BY <1>1, <1>2, <1>3, ParentMoves DEF Heard

LEMMA MutedGrows ==
  ASSUME TypeOK, Next, ~ muted'
  PROVE  /\ ~ muted
         /\ \A w \in Workers : /\ ~ FailTurn(w) /\ ~ CancelListedRemote(w)
                                /\ (Return(w) => ~ callback[w].broken)
         /\ CrashThere => ~ Over(remote.status)
         /\ CancelRemote => \E w \in Workers : ~ At(w, "idle")
<1>1. /\ \A w \in Workers : /\ ~ FailTurn(w) /\ ~ CancelListedRemote(w)
                             /\ (Return(w) => ~ callback[w].broken /\ ~ muted)
      /\ CrashThere => ~ Over(remote.status) /\ ~ muted
      /\ CancelRemote => ~ muted /\ \E w \in Workers : ~ At(w, "idle")
  BY DEF FailTurn, CancelListedRemote, Return, CrashThere, CancelRemote
<1>2. \/ UNCHANGED muted
      \/ \E w \in Workers : FailTurn(w) \/ CancelListedRemote(w) \/ Return(w)
      \/ CrashThere \/ CancelRemote
  BY DEF Next, SenderStep, List, Take, Start, Settle, Emit, ServerStep, Look, Accept, Break,
         WorkerStep, ListRemote, TakeRemote, StartRemote, Check, Complete, HeedCancel,
         NeedApproval, End, Call, NothingToCall, CallbackStep, Receive, EndParent, Tell, Lose,
         CancelListed, Expire, SlowCall, FreeParent, ExpireRemote, SlowTurn, FreeRemote, Cancel,
         CrashHere, history
<1>3. ~ muted
  BY <1>1, <1>2
<1>. QED  BY <1>1, <1>3

-----------------------------------------------------------------------------
LEMMA NextNewsArrives ==
  ASSUME TypeOK, CallsAreWellFormed, CopiesAreFresh, OneThread, NewsArrives, [Next]_vars
  PROVE  NewsArrives'
<1>1. CASE UNCHANGED vars
  BY <1>1 DEF NewsArrives, Crossed, Heard, vars, here, there, calls, history
<1>2. SUFFICES ASSUME Next, ~ overtaken', ~ retaken', ~ doubled', ~ muted'
               PROVE  /\ \A v \in Workers :
                           worker'[v].pc = "calling" /\ callback'[v].pc \in {"ended", "ok"}
                             => Heard'
                      /\ remote'.sent => Heard'
                      /\ \A v \in Workers : worker'[v].copy.sent => Heard'
                      /\ Over(remote'.status) /\ (\A v \in Workers : worker'[v].pc = "idle")
                           => Heard'
  BY <1>1 DEF NewsArrives, Crossed
<1>3. /\ ~ doubled
      /\ \A a \in Attempts : Accept(a) => remote.status = "none"
      /\ \A w \in Workers : StartRemote(w) => remote.status = "running"
  BY <1>2, DoubledGrows
<1>4. /\ ~ muted
      /\ \A w \in Workers : /\ ~ FailTurn(w) /\ ~ CancelListedRemote(w)
                             /\ (Return(w) => ~ callback[w].broken)
      /\ CrashThere => ~ Over(remote.status)
      /\ CancelRemote => \E w \in Workers : ~ At(w, "idle")
  BY <1>2, MutedGrows
<1>5. /\ ~ overtaken /\ ~ retaken
      /\ Heard => Heard'
      /\ \A w \in Workers : EndParent(w) => Heard'
  BY <1>2, HeardStays
<1>6. /\ \A w \in Workers :
            worker[w].pc = "calling" /\ callback[w].pc \in {"ended", "ok"} => Heard'
      /\ remote.sent => Heard'
      /\ \A w \in Workers : worker[w].copy.sent => Heard'
      /\ Over(remote.status) /\ (\A w \in Workers : worker[w].pc = "idle") => Heard'
  BY <1>3, <1>4, <1>5 DEF NewsArrives, Crossed
<1>7. /\ worker \in [Workers -> Turns]
      /\ callback \in [Workers -> Callbacks]
      /\ remote \in RemoteRows
      /\ \A w \in Workers : worker[w].copy \in RemoteRows
  BY DEF TypeOK, Turns
<1>8. ASSUME NEW w \in Workers, Return(w)  PROVE Heard'
  BY <1>4, <1>6, <1>8 DEF Return
<1>9. ASSUME NEW w \in Workers, Receive(w), Ignored  PROVE Heard'
  <2>1. parent.status = "cancelled"
    BY <1>5, <1>9 DEF Ignored, CopiesAreFresh
  <2>. QED  BY <1>5, <2>1 DEF Heard
<1>10. ASSUME NEW v \in Workers, worker'[v].pc = "calling", callback'[v].pc \in {"ended", "ok"}
       PROVE  Heard'
  <2>1. ASSUME Call(v)  PROVE FALSE
    BY <1>7, <1>10, <2>1 DEF Call, NoCallback
  <2>2. worker[v].pc = "calling"
    BY <1>2, <1>10, <2>1, StaysBusy
  <2>3. CASE callback[v].pc \in {"ended", "ok"}
    BY <1>6, <2>2, <2>3
  <2>4. ASSUME NEW w \in Workers, Call(w)  PROVE callback[v].pc \in {"ended", "ok"}
    BY <1>7, <1>10, <2>1, <2>4 DEF Call
  <2>5. ASSUME NEW w \in Workers, Receive(w)
        PROVE  callback[v].pc \in {"ended", "ok"} \/ Heard'
    <3>1. CASE w = v /\ ~ Ignored
      BY <1>7, <1>10, <2>5, <3>1 DEF Receive
    <3>2. CASE w # v
      BY <1>7, <1>10, <2>5, <3>2 DEF Receive
    <3>. QED  BY <1>9, <2>5, <3>1, <3>2
  <2>6. ASSUME NEW w \in Workers, Tell(w)  PROVE callback[v].pc \in {"ended", "ok"}
    BY <1>7, <1>10, <2>6 DEF Tell
  <2>7. ASSUME NEW w \in Workers, Lose(w)  PROVE callback[v].pc \in {"ended", "ok"}
    <3>1. CASE callback' = [callback EXCEPT ![w].broken = TRUE]
      BY <1>7, <1>10, <3>1 DEF Callbacks
    <3>2. CASE callback' = [callback EXCEPT ![w] = Dropped(@)]
      BY <1>7, <1>10, <3>2 DEF Dropped
    <3>. QED  BY <2>7, <3>1, <3>2 DEF Lose
  <2>8. ASSUME CrashHere  PROVE callback[v].pc \in {"ended", "ok"}
    BY <1>7, <1>10, <2>8 DEF CrashHere, Dropped
  <2>9. CASE UNCHANGED callback
    BY <1>10, <2>3, <2>9
  <2>. QED
    BY <1>2, <1>5, <2>3, <2>4, <2>5, <2>6, <2>7, <2>8, <2>9, CallbackMoves
<1>11. remote'.sent => Heard'
  <2>1. ASSUME NEW w \in Workers, NEW status, End(w, status)
        PROVE  remote'.sent = worker[w].copy.sent
    BY <1>7, <2>1 DEF End, RemoteRows
  <2>2. ASSUME NEW w \in Workers, TakeRemote(w)  PROVE remote'.sent = remote.sent
    BY <1>7, <2>2 DEF TakeRemote, RemoteRows
  <2>3. ASSUME NEW w \in Workers, StartRemote(w)  PROVE remote'.sent = worker[w].copy.sent
    BY <1>7, <2>3 DEF StartRemote, RemoteRows
  <2>4. ASSUME NEW w \in Workers, WorkerStep(w)  PROVE remote'.sent => Heard'
    BY <1>4, <1>6, <1>8, <2>1, <2>2, <2>3, <2>4
    DEF WorkerStep, ListRemote, Check, Complete, HeedCancel, NeedApproval, Call, NothingToCall
  <2>5. ASSUME NEW a \in Attempts, Accept(a)  PROVE ~ remote'.sent
    BY <2>5 DEF Accept, FreshJob, NoJob
  <2>6. FreeRemote => remote'.sent = remote.sent
    BY <1>7 DEF FreeRemote, RemoteRows
  <2>7. CancelRemote => remote'.sent = remote.sent
    BY <1>7 DEF CancelRemote, Cancelled, RemoteRows
  <2>8. CrashThere => remote'.sent = remote.sent
    BY DEF CrashThere
  <2>. QED  BY <1>2, <1>6, <2>4, <2>5, <2>6, <2>7, <2>8, ThereMoves
<1>12. ASSUME NEW v \in Workers, worker'[v].copy.sent  PROVE Heard'
  <2>1. ASSUME NEW w \in Workers, NEW pc, NEW copy, copy.sent => Heard',
               worker' = [worker EXCEPT ![w] = [pc |-> pc, copy |-> copy]]
        PROVE  Heard'
    <3>1. CASE w = v
      <4>1. worker'[v] = [pc |-> pc, copy |-> copy]
        BY <1>7, <2>1, <3>1
      <4>2. worker'[v].copy = copy
        BY <4>1
      <4>. QED  BY <1>12, <2>1, <4>2
    <3>2. CASE w # v
      BY <1>6, <1>7, <1>12, <2>1, <3>2
    <3>. QED  BY <3>1, <3>2
  <2>2. ~ NoJob.sent
    BY DEF NoJob
  <2>3. ASSUME NEW w \in Workers,
               ListRemote(w) \/ TakeRemote(w) \/ StartRemote(w) \/ Check(w) \/ Call(w)
        PROVE  Heard'
    <3>1. CASE ListRemote(w)
      BY <2>1, <2>2, <3>1 DEF ListRemote
    <3>2. CASE TakeRemote(w)
      BY <1>11, <2>1, <3>2 DEF TakeRemote
    <3>3. CASE StartRemote(w)
      BY <1>11, <2>1, <3>3 DEF StartRemote
    <3>4. CASE Check(w)
      BY <1>6, <2>1, <3>4 DEF Check
    <3>5. CASE Call(w)
      BY <1>6, <2>1, <3>5 DEF Call
    <3>. QED  BY <2>3, <3>1, <3>2, <3>3, <3>4, <3>5
  <2>4. ASSUME NEW w \in Workers, NEW pc \in {"load", "idle"}, Goes(w, pc, NoJob)
        PROVE  Heard'
    BY <2>1, <2>2, <2>4
  <2>5. CASE UNCHANGED worker
    BY <1>6, <1>12, <2>5
  <2>6. worker' # [w \in Workers |-> Idle]
    BY <1>12, <2>2 DEF Idle
  <2>. QED  BY <1>2, <2>3, <2>4, <2>5, <2>6, WorkersMove
<1>13. ASSUME Over(remote'.status), \A v \in Workers : worker'[v].pc = "idle"  PROVE Heard'
  <2>1. CASE UNCHANGED <<remote, worker>>
    BY <1>6, <1>13, <2>1
  <2>2. ASSUME NEW a \in Attempts, Accept(a)  PROVE FALSE
    BY <1>13, <2>2 DEF Accept, FreshJob, NoJob, Over
  <2>3. ASSUME NEW w \in Workers, NEW pc, pc # "idle", NEW copy,
               worker' = [worker EXCEPT ![w] = [pc |-> pc, copy |-> copy]]
        PROVE  FALSE
    <3>1. worker'[w] = [pc |-> pc, copy |-> copy]
      BY <1>7, <2>3
    <3>2. worker'[w].pc = pc
      BY <3>1
    <3>. QED  BY <1>13, <2>3, <3>2
  <2>4. ASSUME NEW w \in Workers, NothingToCall(w)  PROVE Heard'
    <3>1. Over(remote.status) /\ worker[w].pc = "load"
      BY <1>3, <2>4 DEF NothingToCall, OneThread
    <3>. QED  BY <1>6, <2>4, <3>1 DEF NothingToCall
  <2>5. ASSUME NEW w \in Workers, WorkerStep(w)  PROVE Heard'
    <3>1. ~ ListRemote(w) /\ ~ TakeRemote(w) /\ ~ StartRemote(w)
      BY <2>3 DEF ListRemote, TakeRemote, StartRemote
    <3>2. ~ Check(w) /\ ~ Complete(w) /\ ~ HeedCancel(w) /\ ~ NeedApproval(w) /\ ~ Call(w)
      BY <2>3 DEF Check, Complete, HeedCancel, NeedApproval, Call
    <3>. QED  BY <1>4, <1>8, <2>4, <2>5, <3>1, <3>2 DEF WorkerStep
  <2>6. ASSUME FreeRemote  PROVE FALSE
    <3>1. remote'.status = "running"
      BY <1>7, <2>6 DEF FreeRemote, RemoteRows
    <3>. QED  BY <1>13, <3>1 DEF Over
  <2>7. ASSUME CancelRemote  PROVE FALSE
    <3>1. worker' = worker
      BY <2>7 DEF CancelRemote
    <3>. QED  BY <1>4, <1>13, <2>7, <3>1
  <2>8. ASSUME CrashThere  PROVE FALSE
    BY <1>4, <1>13, <2>8 DEF CrashThere
  <2>. QED  BY <1>2, <2>1, <2>2, <2>5, <2>6, <2>7, <2>8, ThereMoves
<1>. QED  BY <1>10, <1>11, <1>12, <1>13

-----------------------------------------------------------------------------
LEMMA NextEventsAreCalls ==
  ASSUME TypeOK, CallsAreWellFormed, CopiesAreFresh, OneCall, EventsAreCalls, [Next]_vars
  PROVE  EventsAreCalls'
<1>1. CASE UNCHANGED vars
  BY <1>1 DEF EventsAreCalls, Callers, IsTold, vars, here, there, calls, history
<1>. DEFINE Called(e) ==
       e = <<"blocked", "sender">>
         \/ \E w \in Workers : callback'[w].pc # "none" /\ e = <<callback'[w].outcome, w>>
<1>. DEFINE ByWhom ==
       /\ parent'.by = "sender" => parent'.status \notin {"completed", "failed"}
       /\ \A w \in Workers :
            parent'.by = w /\ IsTold(parent'.status)
              => callback'[w].pc # "none" /\ parent'.status = callback'[w].outcome
<1>2. SUFFICES ASSUME Next, ~ doubled', ~ retaken'
               PROVE  (\A e \in told' : Called(e)) /\ ByWhom
  BY <1>1 DEF EventsAreCalls, Callers, IsTold
<1>3. ~ doubled /\ ~ retaken
  BY <1>2, DoubledGrows, HistoryGrows
<1>4. /\ \A e \in told : e = <<"blocked", "sender">>
           \/ \E w \in Workers : callback[w].pc # "none" /\ e = <<callback[w].outcome, w>>
      /\ parent.by = "sender" => parent.status \notin {"completed", "failed"}
      /\ \A w \in Workers :
           parent.by = w /\ IsTold(parent.status)
             => callback[w].pc # "none" /\ parent.status = callback[w].outcome
  BY <1>3 DEF EventsAreCalls, Callers
<1>5. ASSUME NEW w \in Workers, callback[w].pc # "none"
      PROVE  callback'[w].pc # "none" /\ callback'[w].outcome = callback[w].outcome
  <2>1. ~ Call(w)
    BY <1>3, <1>5 DEF Call, OneCall
  <2>. QED  BY <1>2, <1>5, <2>1, OnlyCallCalls
<1>6. ASSUME NEW e \in told  PROVE Called(e)
  <2>1. CASE e = <<"blocked", "sender">>
    BY <2>1
  <2>2. ASSUME NEW w \in Workers, callback[w].pc # "none", e = <<callback[w].outcome, w>>
        PROVE  Called(e)
    BY <1>5, <2>2
  <2>. QED  BY <1>4, <2>1, <2>2
<1>7. ASSUME IsTold(parent.status)  PROVE Called(<<parent.status, parent.by>>)
  <2>1. parent.by \in {"sender"} \cup Workers
    BY DEF TypeOK, ParentRows, Writers
  <2>2. CASE parent.by = "sender"
    BY <1>4, <1>7, <2>2 DEF IsTold
  <2>3. CASE parent.by \in Workers
    <3>1. callback[parent.by].pc # "none" /\ parent.status = callback[parent.by].outcome
      BY <1>4, <1>7, <2>3
    <3>. QED  BY <1>5, <2>3, <3>1
  <2>. QED  BY <2>1, <2>2, <2>3
<1>8. \A e \in told' : Called(e)
  <2>1. ASSUME NEW a \in Attempts, Emit(a)  PROVE \A e \in told' : Called(e)
    <3>1. told' = IF IsTold(parent.status) THEN told \cup {<<parent.status, parent.by>>} ELSE told
      BY <2>1 DEF Emit, EventId
    <3>. QED  BY <1>6, <1>7, <3>1
  <2>2. ASSUME NEW w \in Workers, Tell(w)  PROVE \A e \in told' : Called(e)
    <3>1. callback[w].pc # "none" /\ told' = told \cup {<<callback[w].outcome, w>>}
      BY <2>2 DEF Tell
    <3>2. Called(<<callback[w].outcome, w>>)
      BY <1>5, <3>1
    <3>. QED  BY <1>6, <3>1, <3>2
  <2>3. CASE UNCHANGED told
    BY <1>6, <2>3
  <2>. QED
    BY <1>2, <2>1, <2>2, <2>3, HereMoves
    DEF SenderStep, List, Take, Start, Settle, CancelListed, FreeParent, Cancel, CrashHere
<1>9. ByWhom
  <2>0. \A w \in Workers : w # "sender"
    BY DelegationAssumption
  <2>1. CASE parent'.status = parent.status /\ parent'.by = parent.by
    BY <1>4, <1>5, <2>1
  <2>2. CASE parent'.status = "cancelled"
    BY <2>2 DEF IsTold
  <2>3. ASSUME NEW w \in Workers, EndParent(w), parent'.status = callback[w].outcome,
               parent'.by = w
        PROVE  ByWhom
    <3>1. callback[w].pc # "none"
      BY <2>3 DEF EndParent
    <3>. QED  BY <1>5, <2>0, <2>3, <3>1
  <2>4. ASSUME NEW a \in Attempts, Start(a) \/ Settle(a), parent'.by = "sender",
               parent'.status \in {"running", "waiting", "blocked"}
        PROVE  ByWhom
    BY <2>0, <2>4
  <2>5. ASSUME NEW a \in Attempts, Take(a), parent'.by = "sender", parent'.status = parent.status
        PROVE  ByWhom
    <3>1. parent.status = "running"
      BY <1>2, <2>5 DEF Take
    <3>. QED  BY <2>0, <2>5, <3>1
  <2>. QED  BY <1>2, <2>1, <2>2, <2>3, <2>4, <2>5, ParentMoves
<1>. QED  BY <1>8, <1>9

-----------------------------------------------------------------------------
LEMMA InitIInv == Init => IInv
<1>. SUFFICES ASSUME Init  PROVE IInv
  OBVIOUS
<1>1. TypeOK
  <2>1. 0 \in 0..MaxTroubles
    BY DelegationAssumption
  <2>. QED
    BY <2>1
    DEF Init, TypeOK, ParentRows, Statuses, Writers, Senders, NotYet, NoCopy, Copies, Requests,
        NoRequest, RemoteRows, NoJob, Turns, Idle, Callbacks, NoCallback
<1>. QED
  BY <1>1, DelegationAssumption
  DEF Init, IInv, CallsAreWellFormed, CopiesAreFresh, OneThread, OneCall, AcceptedIsThere,
      NewsArrives, EventsAreCalls, Heard, Callers, IsTold, Busy, NotYet, NoRequest, NoJob, Idle,
      NoCallback, Over

LEMMA InductiveInvariant == Spec => []IInv
<1>1. IInv /\ [Next]_vars => IInv'
  BY NextTypeOK, NextCallsAreWellFormed, NextCopiesAreFresh, NextOneThread, NextOneCall,
     NextAcceptedIsThere, NextNewsArrives, NextEventsAreCalls
  DEF IInv
<1>. QED  BY InitIInv, <1>1, PTL DEF Spec

(* The rows, the threads and the calls keep their types.                   *)
THEOREM DelegationTypeOK == Spec => []TypeOK
<1>1. IInv => TypeOK
  BY DEF IInv
<1>. QED  BY InductiveInvariant, <1>1, PTL

(* A delegate job waits in vain for one of the listed reasons only.        *)
THEOREM WaitingIsAnswered == Spec => []WaitsForSomebody
<1>1. IInv => WaitsForSomebody
  <2>. SUFFICES ASSUME IInv, parent.status = "waiting", ~ UnderWay, ~ muted, ~ Crossed
                PROVE  FALSE
    BY DEF WaitsForSomebody
  <2>1. remote.status \notin {"none", "running"} /\ \A w \in Workers : At(w, "idle")
    BY DEF IInv, AcceptedIsThere, UnderWay
  <2>2. Over(remote.status)
    BY <2>1 DEF IInv, TypeOK, RemoteRows, Statuses, Over
  <2>. QED  BY <2>1, <2>2 DEF IInv, NewsArrives, Heard
<1>. QED  BY InductiveInvariant, <1>1, PTL

(* The session is told once how a delegation ended, unless the job there   *)
(* was made or begun twice, or the job here taken again when it had ended. *)
THEOREM SessionIsToldOnce == Spec => []ToldOnce
<1>1. IInv => ToldOnce
  <2>. SUFFICES ASSUME IInv, ~ doubled, ~ retaken
                PROVE  ~ Cardinality(told \ {<<"blocked", "sender">>}) > 1
    BY DEF ToldOnce
  <2>. DEFINE ends == told \ {<<"blocked", "sender">>}
  <2>1. \A e \in ends : \E w \in Callers : e = <<callback[w].outcome, w>>
    BY DEF IInv, EventsAreCalls
  <2>2. \A v, w \in Callers : v = w
    BY DEF IInv, OneCall, Callers
  <2>3. \A d, e \in ends : d = e
    BY <2>1, <2>2
  <2>4. CASE ends = {}
    BY <2>4, FS_EmptySet
  <2>5. ASSUME NEW e \in ends  PROVE ~ Cardinality(ends) > 1
    <3>1. ends = {e}
      BY <2>3, <2>5
    <3>2. Cardinality({e}) = 1
      BY FS_Singleton
    <3>. QED  BY <3>1, <3>2
  <2>. QED  BY <2>4, <2>5
<1>. QED  BY InductiveInvariant, <1>1, PTL

(* A cancelled delegate job is revived by a thread that had listed or      *)
(* loaded it before and by nobody else, and keeps the request to cancel.   *)
THEOREM CancelledJobsStay == Spec => CancelledStays
<1>1. ASSUME IInv, Next, parent.requested, ~ overtaken'
      PROVE  /\ parent'.requested
             /\ parent'.status \notin {"completed", "failed"}
             /\ parent.status = "cancelled" /\ parent'.status # "cancelled"
                  => parent'.status = "running" /\ retaken
  <2>. DEFINE Kept ==
         /\ parent'.requested
         /\ parent'.status \notin {"completed", "failed"}
         /\ parent.status = "cancelled" /\ parent'.status # "cancelled"
              => parent'.status = "running" /\ retaken
  <2>1. TypeOK /\ CallsAreWellFormed /\ CopiesAreFresh /\ ~ overtaken
    BY <1>1, HistoryGrows DEF IInv
  <2>2. ASSUME parent'.status = parent.status, parent'.requested = parent.requested
        PROVE  Kept
    BY <1>1, <2>1, <2>2 DEF CopiesAreFresh
  <2>3. ASSUME NEW a \in Attempts, Start(a), parent'.requested = sender[a].copy.requested
        PROVE  Kept
    <3>1. sender[a].pc = "taken" /\ sender[a].copy = Copy(parent) /\ parent'.status = "running"
      BY <1>1, <2>3 DEF Start
    <3>2. parent'.requested
      BY <1>1, <2>3, <3>1
    <3>3. parent.status = "cancelled" => retaken
      BY <2>1, <3>1 DEF CopiesAreFresh
    <3>. QED  BY <3>1, <3>2, <3>3
  <2>4. ASSUME NEW a \in Attempts, Settle(a), parent'.requested = sender[a].copy.requested,
               parent'.status \in {"running", "waiting", "blocked"}
        PROVE  Kept
    <3>1. sender[a].pc = "sent" /\ sender[a].copy = Copy(parent)
      BY <1>1, <2>4 DEF Settle
    <3>2. parent'.requested /\ parent.status = "running"
      BY <1>1, <2>1, <2>4, <3>1 DEF CopiesAreFresh
    <3>. QED  BY <2>4, <3>2
  <2>5. ASSUME NEW w \in Workers, EndParent(w)
        PROVE  FALSE
    <3>1. callback[w].pc = "loaded" /\ callback[w].loaded = Copy(parent)
      BY <1>1, <2>5 DEF EndParent
    <3>. QED  BY <1>1, <2>1, <3>1 DEF CallsAreWellFormed
  <2>6. ASSUME parent'.status = "cancelled", parent'.requested
        PROVE  Kept
    BY <2>6
  <2>. QED  BY <1>1, <2>1, <2>2, <2>3, <2>4, <2>5, <2>6, ParentMoves
<1>2. IInv /\ [Next]_vars
        => [parent.requested /\ ~ overtaken' =>
              /\ parent'.requested
              /\ parent'.status \notin {"completed", "failed"}
              /\ parent.status = "cancelled" /\ parent'.status # "cancelled" =>
                   parent'.status = "running" /\ retaken]_vars
  BY <1>1
<1>. QED  BY InductiveInvariant, <1>2, PTL DEF Spec, CancelledStays
=============================================================================
