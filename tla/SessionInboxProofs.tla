------------------------- MODULE SessionInboxProofs --------------------------
(***************************************************************************)
(* Proofs about SessionInbox: its type invariant, that a claimed event has *)
(* a holder, that what is processed is accounted for and that an event is  *)
(* answered once; for any number of threads, events and troubles.          *)
(***************************************************************************)
EXTENDS SessionInbox, WellFoundedInduction, TLAPS

-----------------------------------------------------------------------------
(* The inductive invariant.                                                *)

Fresh(w) ==
  \/ worker[w].pc \in {"claim", "turn"}
  \/ worker[w].pc = "settle" /\ ~ Answers(worker[w].verdict)

(* What a thread holds, it holds from its list to its last put, and when   *)
(* the turn answered, all of it was answered.                              *)
WakeupIsWellFormed(w) ==
  /\ worker[w].pc \in {"idle", "looked"} => worker[w].held = {}
  /\ worker[w].pc \in {"claim", "turn"} => worker[w].held # {}
  /\ worker[w].todo \subseteq worker[w].held
  /\ worker[w].pc = "turn" => worker[w].todo = {}
  /\ worker[w].pc = "settle" => worker[w].todo # {}
  /\ worker[w].pc = "settle" /\ Answers(worker[w].verdict) => worker[w].held \subseteq answered
WakeupsAreWellFormed == \A w \in Workers : WakeupIsWellFormed(w)

(* A claimed event is still to be put by the thread that holds it.         *)
Owns(w, e) == e \in worker[w].held /\ (worker[w].pc = "settle" => e \in worker[w].todo)
ClaimsAreOwned ==
  \A e \in Events :
    inbox[e].status = "claimed" => e \in orphans \/ \E w \in Workers : Owns(w, e)

(* Nobody holds, and nobody answered, what has not been left yet.          *)
HeldWasQueued ==
  \A e \in Events :
    inbox[e].status = "none" => e \notin answered /\ \A w \in Workers : e \notin worker[w].held

(* Two threads hold an event only if the second listed it under the first. *)
SharedIsTwice ==
  \A v, w \in Workers : v # w => worker[v].held \cap worker[w].held \subseteq twice

(* An event that was answered is not queued again but by an old copy,      *)
QueuedIsUnanswered ==
  \A e \in Events : inbox[e].status = "queued" /\ e \in answered => e \in twice

(* and a thread that has yet to answer holds nothing that was answered.    *)
FreshIsUnanswered ==
  \A w \in Workers : Fresh(w) => worker[w].held \cap answered \subseteq twice

(* What a thread claimed stays claimed until its turn is over.             *)
ClaimedIsNotQueued ==
  \A w \in Workers : \A e \in worker[w].held :
    worker[w].pc \in {"claim", "turn"} /\ e \notin worker[w].todo /\ inbox[e].status = "queued"
      => e \in twice

IInv ==
  /\ TypeOK /\ WakeupsAreWellFormed
  /\ ClaimsAreOwned /\ ProcessedIsAccountedFor
  /\ HeldWasQueued /\ SharedIsTwice
  /\ QueuedIsUnanswered /\ FreshIsUnanswered /\ ClaimedIsNotQueued

-----------------------------------------------------------------------------
(* Types.                                                                  *)

LEMMA OneMore ==
  ASSUME NEW m \in Nat, NEW n \in 0..m, n < m
  PROVE  n + 1 \in 0..m
  OBVIOUS

LEMMA TroublesType ==
  ASSUME TypeOK, Trouble \/ UNCHANGED troubles
  PROVE  troubles' \in 0..MaxTroubles
  BY OneMore, SessionInboxAssumption DEF TypeOK, Trouble

(* A list that is not empty has a first.                                   *)
LEMMA FirstOfList ==
  ASSUME NEW events \in SUBSET Events, events # {}
  PROVE  First(events) \in events
<1>. DEFINE Before == OpToRel(<, Nat)
<1>1. Events \subseteq Nat
  BY SessionInboxAssumption DEF Events
<1>2. PICK e \in events : \A f \in events : ~ (<<f, e>> \in Before)
  BY <1>1, NatLessThanWellFounded, WFMin
<1>3. \A f \in events : f < e => <<f, e>> \in Before
  BY <1>1, Zenon DEF OpToRel
<1>. HIDE DEF Before
<1>4. ASSUME NEW f \in events
      PROVE  e <= f
  <2>1. e \in Nat /\ f \in Nat
    BY <1>1
  <2>2. ~ (f < e)
    BY <1>2, <1>3
  <2>. QED  BY <2>1, <2>2
<1>. QED  BY <1>2, <1>4 DEF First

LEMMA QueuedType ==
  /\ Ripe \subseteq Queued /\ Queued \subseteq Events /\ Ripe \subseteq Events
  /\ Queued \cap Messages \subseteq Messages
  /\ Messages \subseteq Events /\ Results \subseteq Events
  BY DEF Ripe, Queued, Events

LEMMA PutType ==
  ASSUME TypeOK, NEW e, NEW status \in {"queued", "claimed", "processed"}, NEW ripe \in BOOLEAN,
         Put(e, status, ripe)
  PROVE  inbox' \in [Events -> InboxRows]
  BY DEF TypeOK, Put, InboxRows

LEMMA PutAllType ==
  ASSUME TypeOK, NEW events, NEW status \in {"queued", "claimed", "processed"},
         NEW ripe \in BOOLEAN, PutAll(events, status, ripe)
  PROVE  inbox' \in [Events -> InboxRows]
  BY DEF TypeOK, PutAll, InboxRows

LEMMA WakeUpType ==
  ASSUME TypeOK, NEW w \in Workers, WakeUpStep(w) \/ GiveUp(w)
  PROVE  TypeOK'
<1>0. worker[w] \in Wakeups /\ run \in [Turns -> RunStatuses] /\ w \in Turns
  BY DEF TypeOK, Turns
<1>1. CASE Look(w)
  BY <1>1, <1>0 DEF Look, TypeOK, Wakeups, history, At
<1>2. CASE List(w)
  <2>1. [pc |-> "claim", held |-> Ripe, todo |-> Ripe, verdict |-> "none"] \in Wakeups
    BY QueuedType DEF Wakeups, Verdicts
  <2>2. worker' \in [Workers -> Wakeups] /\ run' \in [Turns -> RunStatuses]
    BY <1>2, <2>1 DEF List, TypeOK, RunStatuses
  <2>3. twice' \subseteq Events
    BY <1>2, QueuedType DEF List, TypeOK
  <2>. QED  BY <1>2, <2>2, <2>3 DEF List, TypeOK
<1>3. Resting \in Wakeups
  BY DEF Resting, Wakeups, Verdicts
<1>4. CASE ListNothing(w)
  BY <1>3, <1>4 DEF ListNothing, TypeOK, history
<1>5. CASE Claim(w)
  <2>1. inbox' \in [Events -> InboxRows]
    BY <1>5, PutType DEF Claim
  <2>2. worker' \in [Workers -> Wakeups]
    BY <1>0, <1>5 DEF Claim, TypeOK, Wakeups
  <2>. QED  BY <1>5, <2>1, <2>2 DEF Claim, TypeOK, history
<1>6. CASE Begin(w)
  BY <1>0, <1>6 DEF Begin, TypeOK, Wakeups, history
<1>7. ASSUME NEW verdict \in Verdicts, Ends(w, verdict), troubles' \in 0..MaxTroubles
      PROVE  TypeOK'
  <2>1. [pc |-> "settle", held |-> worker[w].held, todo |-> worker[w].held, verdict |-> verdict]
          \in Wakeups
    BY <1>0 DEF Wakeups
  <2>2. worker' \in [Workers -> Wakeups]
    BY <1>7, <2>1 DEF Ends, TypeOK
  <2>3. run' \in [Turns -> RunStatuses]
    BY <1>0, <1>7 DEF Ends, RunStatuses
  <2>4. answered' \subseteq Events
    BY <1>0, <1>7 DEF Ends, TypeOK, Wakeups
  <2>. QED  BY <1>7, <2>2, <2>3, <2>4 DEF Ends, TypeOK
<1>8. CASE Stopped(w)
  <2>1. run[w] \in Verdicts
    BY <1>0, <1>8 DEF Stopped, Stop, Verdicts
  <2>. QED  BY <1>7, <1>8, <2>1, TroublesType DEF Stopped
<1>9. ASSUME NEW verdict \in {"completed", "waiting", "failed"}, Finish(w, verdict)
      PROVE  TypeOK'
  <2>1. verdict \in Verdicts
    BY DEF Verdicts
  <2>2. Trouble \/ UNCHANGED troubles
    BY <1>9 DEF Finish
  <2>. QED  BY <1>7, <1>9, <2>1, <2>2, TroublesType DEF Finish
<1>10. CASE Settle(w)
  <2>1. inbox' \in [Events -> InboxRows]
    BY <1>10, PutType DEF Settle, Verdict
  <2>2. worker' \in [Workers -> Wakeups]
    BY <1>0, <1>3, <1>10 DEF Settle, TypeOK, Wakeups
  <2>. QED  BY <1>10, <2>1, <2>2 DEF Settle, TypeOK, history
<1>11. CASE GiveUp(w)
  BY <1>0, <1>3, <1>11, TroublesType DEF GiveUp, TypeOK, Wakeups
<1>. QED  BY <1>1, <1>2, <1>4, <1>5, <1>6, <1>8, <1>9, <1>10, <1>11 DEF WakeUpStep

LEMMA OthersType ==
  ASSUME TypeOK, Next, \A w \in Workers : ~ WakeUpStep(w) /\ ~ GiveUp(w)
  PROVE  TypeOK'
<1>0. run \in [Turns -> RunStatuses] /\ AtRest \in Commands /\ user \in Commands
  BY DEF TypeOK, AtRest, Commands
<1>1. ASSUME NEW t \in Turns, Approve(t)
      PROVE  TypeOK'
  <2>1. run' \in [Turns -> RunStatuses] /\ troubles' \in 0..MaxTroubles
    BY <1>0, <1>1, TroublesType DEF Approve, RunStatuses
  <2>. QED  BY <1>1, <2>1 DEF Approve, TypeOK, history, actors
<1>2. ASSUME NEW e \in Events, Emit(e)
      PROVE  TypeOK'
  BY <1>2, PutType DEF Emit, TypeOK, history, actors
<1>3. ASSUME NEW e \in Events, Ripen(e)
      PROVE  TypeOK'
  BY <1>3 DEF Ripen, TypeOK, history, actors, InboxRows
<1>4. CASE StartChat \/ EndChat
  <2>1. run' \in [Turns -> RunStatuses] /\ troubles' \in 0..MaxTroubles
    BY <1>0, <1>4, TroublesType DEF StartChat, EndChat, RunStatuses
  <2>2. busy' \in BOOLEAN
    BY <1>4 DEF StartChat, EndChat
  <2>. QED  BY <1>4, <2>1, <2>2 DEF StartChat, EndChat, TypeOK, history, actors
<1>5. ASSUME NEW e \in Messages, Queue(e)
      PROVE  TypeOK'
  BY <1>5, PutType DEF Queue, TypeOK, history, actors
<1>6. ASSUME NEW e \in Messages, Coalesce(e)
      PROVE  TypeOK'
  <2>1. inbox' \in [Events -> InboxRows]
    BY <1>6, PutType DEF Coalesce
  <2>2. user' \in Commands
    BY <1>6, QueuedType DEF Coalesce, Commands
  <2>. QED  BY <1>6, <2>1, <2>2 DEF Coalesce, TypeOK, history
<1>7. ASSUME NEW e \in Messages, Restart(e)
      PROVE  TypeOK'
  <2>1. inbox' \in [Events -> InboxRows]
    BY <1>7, PutType DEF Restart
  <2>2. run' \in [Turns -> RunStatuses]
    BY <1>0, <1>7 DEF Restart, RunStatuses
  <2>. QED  BY <1>7, <2>1, <2>2, TroublesType DEF Restart, TypeOK, history, actors
<1>8. ASSUME NEW op \in {"flush", "clear"}, Command(op)
      PROVE  TypeOK'
  <2>1. user' \in Commands
    BY <1>8, QueuedType DEF Command, Commands
  <2>. QED  BY <1>8, <2>1, TroublesType DEF Command, TypeOK, history
<1>9. CASE Rewrite
  <2>1. (user.op # "refresh") \in BOOLEAN
    OBVIOUS
  <2>2. inbox' \in [Events -> InboxRows]
    BY <1>9, <2>1, PutAllType DEF Rewrite
  <2>3. user.todo \subseteq Events
    BY <1>0, QueuedType DEF Commands
  <2>4. dropped' \subseteq Events /\ twice' \subseteq Events
    BY <1>9, <2>3 DEF Rewrite, TypeOK
  <2>. QED  BY <1>0, <1>9, <2>2, <2>4 DEF Rewrite, TypeOK
<1>10. CASE Cancel
  BY <1>0, <1>10, QueuedType, TroublesType DEF Cancel, TypeOK, history, RunStatuses
<1>11. CASE PutAway
  <2>1. inbox' \in [Events -> InboxRows]
    BY <1>11, PutAllType DEF PutAway
  <2>. QED  BY <1>11, <2>1 DEF PutAway, TypeOK
<1>12. CASE Crash
  <2>1. Resting \in Wakeups
    BY DEF Resting, Wakeups, Verdicts
  <2>. QED  BY <1>0, <1>12, <2>1, TroublesType DEF Crash, TypeOK, RunStatuses
<1>13. CASE Ahead
  <2>1. tickFails' \in BOOLEAN
    BY <1>13 DEF Ahead
  <2>. QED  BY <1>13, <2>1, TroublesType DEF Ahead, TypeOK, history, actors
<1>. QED
  BY <1>1, <1>2, <1>3, <1>4, <1>5, <1>6, <1>7, <1>8, <1>9, <1>10, <1>11, <1>12, <1>13
  DEF Next, UserStep

LEMMA TypeStep ==
  ASSUME TypeOK, [Next]_vars
  PROVE  TypeOK'
<1>1. CASE UNCHANGED vars
  BY <1>1 DEF vars, history, actors, TypeOK
<1>2. CASE Next
  BY <1>2, WakeUpType, OthersType
<1>. QED  BY <1>1, <1>2

-----------------------------------------------------------------------------
(* The steps that no thread takes: events come, and are put as they were   *)
(* listed.                                                                 *)

Rest ==
  /\ WakeupsAreWellFormed /\ ClaimsAreOwned /\ ProcessedIsAccountedFor
  /\ HeldWasQueued /\ SharedIsTwice
  /\ QueuedIsUnanswered /\ FreshIsUnanswered /\ ClaimedIsNotQueued

(* What may become of an event while the threads stand still.              *)
Changes(e) ==
  \/ inbox'[e].status = inbox[e].status
  \/ inbox'[e].status = "queued" /\ (inbox[e].status = "none" \/ e \in twice')
  \/ inbox'[e].status = "processed" /\ e \in dropped'

LEMMA InboxMoves ==
  ASSUME IInv, worker' = worker, answered' = answered, orphans \subseteq orphans',
         twice \subseteq twice', dropped \subseteq dropped', \A e \in Events : Changes(e)
  PROVE  Rest'
<1>0. \A w \in Workers : worker[w].held \subseteq Events
  BY DEF IInv, TypeOK, Wakeups
<1>1. WakeupsAreWellFormed'
  BY DEF IInv, WakeupsAreWellFormed, WakeupIsWellFormed
<1>2. ClaimsAreOwned'
  BY DEF IInv, ClaimsAreOwned, Owns, Changes
<1>3. ProcessedIsAccountedFor'
  BY DEF IInv, ProcessedIsAccountedFor, Changes
<1>4. HeldWasQueued'
  BY DEF IInv, HeldWasQueued, Changes
<1>5. SharedIsTwice'
  BY DEF IInv, SharedIsTwice
<1>6. QueuedIsUnanswered'
  BY DEF IInv, QueuedIsUnanswered, HeldWasQueued, Changes
<1>7. FreshIsUnanswered'
  BY DEF IInv, FreshIsUnanswered, Fresh
<1>8. ClaimedIsNotQueued'
  BY <1>0 DEF IInv, ClaimedIsNotQueued, HeldWasQueued, Changes
<1>. QED  BY <1>1, <1>2, <1>3, <1>4, <1>5, <1>6, <1>7, <1>8 DEF Rest

LEMMA PutIs ==
  ASSUME TypeOK, NEW e \in Events, NEW status, NEW ripe, Put(e, status, ripe)
  PROVE  /\ inbox'[e].status = status
         /\ \A f \in Events : f # e => inbox'[f] = inbox[f]
  BY DEF TypeOK, Put

LEMMA PutAllIs ==
  ASSUME NEW events \in SUBSET Events, NEW status, NEW ripe, PutAll(events, status, ripe)
  PROVE  \A f \in Events : IF f \in events THEN inbox'[f].status = status
                                            ELSE inbox'[f] = inbox[f]
  BY DEF PutAll

LEMMA OthersStep ==
  ASSUME IInv, Next, \A w \in Workers : ~ WakeUpStep(w) /\ ~ GiveUp(w)
  PROVE  Rest'
<1>0. TypeOK /\ Messages \subseteq Events
  BY QueuedType DEF IInv
<1>1. ASSUME NEW t \in Turns, Approve(t)
      PROVE  Rest'
  BY <1>1, InboxMoves DEF Approve, Changes, actors, history
<1>2. ASSUME NEW e \in Events, inbox[e].status = "none", NEW ripe, Put(e, "queued", ripe),
             worker' = worker, UNCHANGED history
      PROVE  Rest'
  <2>1. \A f \in Events : Changes(f)
    BY <1>0, <1>2, PutIs DEF Changes
  <2>. QED  BY <1>2, <2>1, InboxMoves DEF history
<1>3. ASSUME NEW e \in Events, Emit(e)
      PROVE  Rest'
  BY <1>2, <1>3 DEF Emit, actors
<1>4. ASSUME NEW e \in Events, Ripen(e)
      PROVE  Rest'
  <2>1. \A f \in Events : inbox'[f].status = inbox[f].status
    BY <1>0, <1>4 DEF Ripen, TypeOK, InboxRows
  <2>. QED  BY <1>4, <2>1, InboxMoves DEF Ripen, Changes, actors, history
<1>5. CASE StartChat \/ EndChat \/ Ahead
  BY <1>5, InboxMoves DEF StartChat, EndChat, Ahead, Changes, actors, history
<1>6. ASSUME NEW e \in Messages, Queue(e)
      PROVE  Rest'
  BY <1>0, <1>2, <1>6 DEF Queue, Incoming, actors
<1>7. ASSUME NEW e \in Messages, Coalesce(e)
      PROVE  Rest'
  BY <1>0, <1>2, <1>7 DEF Coalesce, Incoming
<1>8. ASSUME NEW e \in Messages, Restart(e)
      PROVE  Rest'
  BY <1>0, <1>2, <1>8 DEF Restart, Incoming, actors
<1>9. ASSUME NEW op \in {"flush", "clear"}, Command(op)
      PROVE  Rest'
  BY <1>9, InboxMoves DEF Command, Changes, history
<1>10. CASE Rewrite
  <2>1. user.todo \in SUBSET Events
    BY <1>0 DEF TypeOK, Commands
  <2>2. \A f \in Events : Changes(f)
    BY <1>10, <2>1, PutAllIs DEF Rewrite, Changes, Queued
  <2>. QED  BY <1>10, <2>2, InboxMoves DEF Rewrite
<1>11. CASE Cancel
  BY <1>11, InboxMoves DEF Cancel, Changes, history
<1>12. CASE PutAway
  <2>1. canceller \in SUBSET Events
    BY <1>0 DEF TypeOK
  <2>2. \A f \in Events : Changes(f)
    BY <1>12, <2>1, PutAllIs DEF PutAway, Changes
  <2>. QED  BY <1>12, <2>2, InboxMoves DEF PutAway
<1>13. CASE Crash
  <2>1. \A w \in Workers : worker'[w] = Resting
    BY <1>13 DEF Crash
  <2>2. UNCHANGED <<inbox, answered, dropped, twice>>
    BY <1>13 DEF Crash
  <2>3. \A e \in Events : inbox[e].status = "claimed" => e \in orphans'
    BY <1>13 DEF Crash
  <2>4. WakeupsAreWellFormed'
    BY <2>1 DEF WakeupsAreWellFormed, WakeupIsWellFormed, Resting
  <2>5. ClaimsAreOwned' /\ ProcessedIsAccountedFor'
    BY <2>2, <2>3 DEF ClaimsAreOwned, ProcessedIsAccountedFor, IInv
  <2>6. HeldWasQueued' /\ SharedIsTwice' /\ QueuedIsUnanswered'
    BY <2>1, <2>2 DEF HeldWasQueued, SharedIsTwice, QueuedIsUnanswered, IInv, Resting
  <2>7. FreshIsUnanswered' /\ ClaimedIsNotQueued'
    BY <2>1 DEF FreshIsUnanswered, ClaimedIsNotQueued, Resting
  <2>. QED  BY <2>4, <2>5, <2>6, <2>7 DEF Rest
<1>. QED
  BY <1>1, <1>3, <1>4, <1>5, <1>6, <1>7, <1>8, <1>9, <1>10, <1>11, <1>12, <1>13
  DEF Next, UserStep

-----------------------------------------------------------------------------
(* The steps of a thread.                                                  *)

LEMMA LookStep ==
  ASSUME IInv, NEW w \in Workers, Look(w) \/ ListNothing(w) \/ Begin(w)
  PROVE  Rest'
<1>. DEFINE pc == worker'[w].pc
<1>0. worker[w] \in Wakeups /\ worker \in [Workers -> Wakeups]
  BY DEF IInv, TypeOK
<1>1. \A v \in Workers : v # w => worker'[v] = worker[v]
  BY <1>0 DEF Look, ListNothing, Begin
<1>2. UNCHANGED <<inbox, answered, dropped, twice, orphans>>
  BY DEF Look, ListNothing, Begin, history
<1>3. /\ worker'[w].held = worker[w].held /\ worker'[w].todo = worker[w].todo
      /\ pc # "settle" /\ worker[w].pc # "settle"
      /\ pc \in {"idle", "looked"} => worker[w].held = {}
      /\ pc = "turn" => worker[w].todo = {}
      /\ pc \in {"claim", "turn"} => worker[w].pc \in {"claim", "turn"}
  <2>1. CASE Look(w)
    BY <1>0, <2>1 DEF Look, IInv, WakeupsAreWellFormed, WakeupIsWellFormed, At, Wakeups
  <2>2. CASE ListNothing(w)
    BY <1>0, <2>2
    DEF ListNothing, IInv, WakeupsAreWellFormed, WakeupIsWellFormed, At, Resting, Wakeups
  <2>3. CASE Begin(w)
    BY <1>0, <2>3 DEF Begin, At, Wakeups
  <2>. QED  BY <2>1, <2>2, <2>3
<1>4. WakeupsAreWellFormed'
  BY <1>1, <1>2, <1>3 DEF IInv, WakeupsAreWellFormed, WakeupIsWellFormed
<1>5. ClaimsAreOwned' /\ ProcessedIsAccountedFor'
  BY <1>1, <1>2, <1>3 DEF IInv, ClaimsAreOwned, Owns, ProcessedIsAccountedFor
<1>6. HeldWasQueued'
  BY <1>1, <1>2, <1>3 DEF IInv, HeldWasQueued
<1>7. SharedIsTwice' /\ QueuedIsUnanswered'
  BY <1>1, <1>2, <1>3 DEF IInv, SharedIsTwice, QueuedIsUnanswered
<1>8. FreshIsUnanswered'
  BY <1>1, <1>2, <1>3 DEF IInv, FreshIsUnanswered, Fresh
<1>9. ClaimedIsNotQueued'
  BY <1>1, <1>2, <1>3 DEF IInv, ClaimedIsNotQueued
<1>. QED  BY <1>4, <1>5, <1>6, <1>7, <1>8, <1>9 DEF Rest

LEMMA ListStep ==
  ASSUME IInv, NEW w \in Workers, List(w)
  PROVE  Rest'
<1>0. worker \in [Workers -> Wakeups] /\ worker[w].held = {} /\ worker[w].pc = "looked"
  BY DEF IInv, TypeOK, List, At, WakeupsAreWellFormed, WakeupIsWellFormed
<1>1. \A v \in Workers : v # w => worker'[v] = worker[v]
  BY <1>0 DEF List
<1>2. worker'[w] = [pc |-> "claim", held |-> Ripe, todo |-> Ripe, verdict |-> "none"]
  BY <1>0 DEF List
<1>3. UNCHANGED <<inbox, answered, dropped, orphans>> /\ twice \subseteq twice'
  BY DEF List
<1>4. Ripe # {} /\ \A e \in Ripe : e \in Events /\ inbox[e].status = "queued"
  BY DEF List, Ripe, Queued
<1>5. \A e \in Ripe : \A v \in Workers : v # w /\ e \in worker[v].held => e \in twice'
  BY DEF List
<1>6. WakeupsAreWellFormed'
  BY <1>1, <1>2, <1>3, <1>4 DEF IInv, WakeupsAreWellFormed, WakeupIsWellFormed
<1>7. ClaimsAreOwned' /\ ProcessedIsAccountedFor'
  BY <1>0, <1>1, <1>2, <1>3 DEF IInv, ClaimsAreOwned, Owns, ProcessedIsAccountedFor
<1>8. HeldWasQueued'
  BY <1>1, <1>2, <1>3, <1>4 DEF IInv, HeldWasQueued
<1>9. SharedIsTwice'
  BY <1>1, <1>2, <1>3, <1>5 DEF IInv, SharedIsTwice
<1>10. QueuedIsUnanswered'
  BY <1>3 DEF IInv, QueuedIsUnanswered
<1>11. FreshIsUnanswered'
  BY <1>1, <1>2, <1>3, <1>4 DEF IInv, FreshIsUnanswered, Fresh, QueuedIsUnanswered
<1>12. ClaimedIsNotQueued'
  BY <1>1, <1>2, <1>3 DEF IInv, ClaimedIsNotQueued
<1>. QED  BY <1>6, <1>7, <1>8, <1>9, <1>10, <1>11, <1>12 DEF Rest

LEMMA ClaimStep ==
  ASSUME IInv, NEW w \in Workers, Claim(w)
  PROVE  Rest'
<1>. DEFINE e == First(worker[w].todo)
<1>0. worker \in [Workers -> Wakeups] /\ worker[w] \in Wakeups /\ TypeOK
  BY DEF IInv, TypeOK
<1>1. worker[w].todo \in SUBSET Events /\ worker[w].held \in SUBSET Events
  BY <1>0 DEF Wakeups
<1>2. e \in worker[w].todo /\ e \in worker[w].held /\ e \in Events
  BY <1>1, FirstOfList DEF Claim, IInv, WakeupsAreWellFormed, WakeupIsWellFormed
<1>3. inbox'[e].status = "claimed" /\ \A f \in Events : f # e => inbox'[f] = inbox[f]
  BY <1>0, <1>2, PutIs DEF Claim
<1>4. \A v \in Workers : v # w => worker'[v] = worker[v]
  BY <1>0 DEF Claim
<1>5. /\ worker[w].pc = "claim" /\ worker'[w].pc = "claim"
      /\ worker'[w].held = worker[w].held /\ worker'[w].todo = worker[w].todo \ {e}
  BY <1>0 DEF Claim, At, Wakeups
<1>6. UNCHANGED <<answered, dropped, twice, orphans>>
  BY DEF Claim, history
<1>. HIDE DEF e
<1>7. WakeupsAreWellFormed'
  BY <1>4, <1>5, <1>6 DEF IInv, WakeupsAreWellFormed, WakeupIsWellFormed
<1>8. ClaimsAreOwned'
  BY <1>2, <1>3, <1>4, <1>5, <1>6 DEF IInv, ClaimsAreOwned, Owns
<1>9. ProcessedIsAccountedFor'
  BY <1>3, <1>6 DEF IInv, ProcessedIsAccountedFor
<1>10. HeldWasQueued'
  BY <1>3, <1>4, <1>5, <1>6 DEF IInv, HeldWasQueued
<1>11. SharedIsTwice' /\ FreshIsUnanswered'
  BY <1>4, <1>5, <1>6 DEF IInv, SharedIsTwice, FreshIsUnanswered, Fresh
<1>12. QueuedIsUnanswered'
  BY <1>3, <1>6 DEF IInv, QueuedIsUnanswered
<1>13. ClaimedIsNotQueued'
  <2>1. \A v \in Workers : worker[v].held \subseteq Events
    BY <1>0 DEF Wakeups
  <2>. QED  BY <1>3, <1>4, <1>5, <1>6, <2>1 DEF IInv, ClaimedIsNotQueued
<1>. QED  BY <1>7, <1>8, <1>9, <1>10, <1>11, <1>12, <1>13 DEF Rest

(* The end of a turn. What another thread holds as well was listed twice.  *)
LEMMA EndsStep ==
  ASSUME IInv, NEW w \in Workers, NEW verdict, Ends(w, verdict), worker[w].pc \in {"claim", "turn"},
         worker[w].todo = {}, worker[w].held # {}
  PROVE  Rest'
<1>0. worker \in [Workers -> Wakeups] /\ worker[w].held \subseteq Events
  BY DEF IInv, TypeOK, Wakeups
<1>1. \A v \in Workers : v # w => worker'[v] = worker[v]
  BY <1>0 DEF Ends
<1>2. worker'[w] = [pc |-> "settle", held |-> worker[w].held, todo |-> worker[w].held,
                    verdict |-> verdict]
  BY <1>0 DEF Ends
<1>3. UNCHANGED <<inbox, dropped, twice, orphans>>
  BY DEF Ends
<1>4. answered' = IF Answers(verdict) THEN answered \cup worker[w].held ELSE answered
  BY DEF Ends
<1>5. WakeupsAreWellFormed'
  BY <1>1, <1>2, <1>4 DEF IInv, WakeupsAreWellFormed, WakeupIsWellFormed
<1>6. ClaimsAreOwned' /\ ProcessedIsAccountedFor'
  BY <1>1, <1>2, <1>3, <1>4 DEF IInv, ClaimsAreOwned, Owns, ProcessedIsAccountedFor
<1>7. HeldWasQueued'
  BY <1>1, <1>2, <1>3, <1>4 DEF IInv, HeldWasQueued
<1>8. SharedIsTwice'
  BY <1>1, <1>2, <1>3 DEF IInv, SharedIsTwice
<1>9. QueuedIsUnanswered'
  BY <1>0, <1>3, <1>4 DEF IInv, QueuedIsUnanswered, ClaimedIsNotQueued
<1>10. FreshIsUnanswered'
  <2>1. \A v \in Workers : v # w => worker[v].held \cap worker[w].held \subseteq twice
    BY DEF IInv, SharedIsTwice
  <2>. QED  BY <1>1, <1>2, <1>3, <1>4, <2>1 DEF IInv, FreshIsUnanswered, Fresh
<1>11. ClaimedIsNotQueued'
  BY <1>1, <1>2, <1>3 DEF IInv, ClaimedIsNotQueued
<1>. QED  BY <1>5, <1>6, <1>7, <1>8, <1>9, <1>10, <1>11 DEF Rest

LEMMA SettleStep ==
  ASSUME IInv, NEW w \in Workers, Settle(w)
  PROVE  Rest'
<1>. DEFINE e == First(worker[w].todo)
            left == worker[w].todo \ {e}
<1>0. worker \in [Workers -> Wakeups] /\ worker[w] \in Wakeups /\ TypeOK
  BY DEF IInv, TypeOK
<1>1. worker[w].todo \in SUBSET Events /\ worker[w].held \in SUBSET Events
  BY <1>0 DEF Wakeups
<1>2. e \in worker[w].todo /\ e \in worker[w].held /\ e \in Events
  BY <1>1, FirstOfList DEF Settle, At, IInv, WakeupsAreWellFormed, WakeupIsWellFormed
<1>3. /\ inbox'[e].status = Verdict(worker[w].verdict)
      /\ \A f \in Events : f # e => inbox'[f] = inbox[f]
  BY <1>0, <1>2, PutIs DEF Settle
<1>4. \A v \in Workers : v # w => worker'[v] = worker[v]
  BY <1>0 DEF Settle
<1>5. worker[w].pc = "settle"
  BY DEF Settle, At
<1>6. \/ left = {} /\ worker'[w] = Resting
      \/ /\ left # {} /\ worker'[w].pc = "settle" /\ worker'[w].held = worker[w].held
         /\ worker'[w].todo = left /\ worker'[w].verdict = worker[w].verdict
  BY <1>0, <1>5 DEF Settle, Wakeups
<1>7. UNCHANGED <<answered, dropped, twice, orphans>>
  BY DEF Settle, history
<1>8. left \subseteq worker[w].todo /\ \A f \in worker[w].todo : f # e => f \in left
  OBVIOUS
<1>9. /\ Answers(worker[w].verdict) => e \in answered /\ inbox'[e].status = "processed"
      /\ ~ Answers(worker[w].verdict) => /\ inbox'[e].status = "queued"
                                         /\ worker[w].held \cap answered \subseteq twice
  BY <1>2, <1>3, <1>5
  DEF Verdict, IInv, WakeupsAreWellFormed, WakeupIsWellFormed, FreshIsUnanswered, Fresh
<1>. HIDE DEF e, left
<1>10. WakeupsAreWellFormed'
  BY <1>4, <1>5, <1>6, <1>7, <1>8
  DEF IInv, WakeupsAreWellFormed, WakeupIsWellFormed, Resting
<1>11. ClaimsAreOwned'
  BY <1>3, <1>4, <1>5, <1>6, <1>7, <1>8, <1>9 DEF IInv, ClaimsAreOwned, Owns
<1>12. ProcessedIsAccountedFor'
  BY <1>3, <1>7, <1>9 DEF IInv, ProcessedIsAccountedFor
<1>13. worker'[w].held \subseteq worker[w].held
  BY <1>6 DEF Resting
<1>14. HeldWasQueued'
  BY <1>3, <1>4, <1>7, <1>9, <1>13 DEF IInv, HeldWasQueued
<1>15. SharedIsTwice'
  BY <1>4, <1>7, <1>13 DEF IInv, SharedIsTwice
<1>16. QueuedIsUnanswered'
  BY <1>2, <1>3, <1>7, <1>9 DEF IInv, QueuedIsUnanswered
<1>17. FreshIsUnanswered'
  BY <1>4, <1>5, <1>6, <1>7 DEF IInv, FreshIsUnanswered, Fresh, Resting
<1>18. ClaimedIsNotQueued'
  <2>1. worker'[w].pc \notin {"claim", "turn"}
    BY <1>6 DEF Resting
  <2>2. ASSUME NEW v \in Workers, v # w, NEW f \in worker[v].held, f # e
        PROVE  inbox'[f] = inbox[f]
    BY <1>0, <1>3, <2>2 DEF Wakeups
  <2>3. ASSUME NEW v \in Workers, v # w, e \in worker[v].held
        PROVE  e \in twice
    BY <1>2, <2>3 DEF IInv, SharedIsTwice
  <2>. QED  BY <1>4, <1>7, <2>1, <2>2, <2>3 DEF IInv, ClaimedIsNotQueued
<1>. QED  BY <1>10, <1>11, <1>12, <1>14, <1>15, <1>16, <1>17, <1>18 DEF Rest

LEMMA GiveUpStep ==
  ASSUME IInv, NEW w \in Workers, GiveUp(w)
  PROVE  Rest'
<1>0. worker \in [Workers -> Wakeups]
  BY DEF IInv, TypeOK
<1>1. \A v \in Workers : v # w => worker'[v] = worker[v]
  BY <1>0 DEF GiveUp
<1>2. worker'[w] = Resting
  BY <1>0 DEF GiveUp
<1>3. UNCHANGED <<inbox, answered, dropped, twice>> /\ orphans \subseteq orphans'
  BY DEF GiveUp
<1>4. \A e \in worker[w].held : inbox[e].status = "claimed" => e \in orphans'
  BY DEF GiveUp
<1>5. WakeupsAreWellFormed'
  BY <1>1, <1>2, <1>3 DEF IInv, WakeupsAreWellFormed, WakeupIsWellFormed, Resting
<1>6. ClaimsAreOwned' /\ ProcessedIsAccountedFor'
  BY <1>1, <1>3, <1>4 DEF IInv, ClaimsAreOwned, Owns, ProcessedIsAccountedFor
<1>7. HeldWasQueued' /\ SharedIsTwice' /\ QueuedIsUnanswered'
  BY <1>1, <1>2, <1>3
  DEF IInv, HeldWasQueued, SharedIsTwice, QueuedIsUnanswered, Resting
<1>8. FreshIsUnanswered' /\ ClaimedIsNotQueued'
  BY <1>1, <1>2, <1>3 DEF IInv, FreshIsUnanswered, Fresh, ClaimedIsNotQueued, Resting
<1>. QED  BY <1>5, <1>6, <1>7, <1>8 DEF Rest

-----------------------------------------------------------------------------
(* The theorems.                                                           *)

LEMMA InvStep ==
  ASSUME IInv, [Next]_vars
  PROVE  IInv'
<1>1. TypeOK'
  BY TypeStep DEF IInv
<1>2. ASSUME UNCHANGED vars
      PROVE  Rest'
  BY <1>2, InboxMoves DEF vars, actors, history, Changes, Rest
<1>3. ASSUME NEW w \in Workers, Stopped(w)
      PROVE  Rest'
  <2>1. worker[w].held # {}
    BY <1>3 DEF Stopped, At, IInv, WakeupsAreWellFormed, WakeupIsWellFormed
  <2>. QED  BY <1>3, <2>1, EndsStep DEF Stopped, At
<1>4. ASSUME NEW w \in Workers, NEW verdict, Finish(w, verdict)
      PROVE  Rest'
  <2>1. worker[w].held # {} /\ worker[w].todo = {}
    BY <1>4 DEF Finish, At, IInv, WakeupsAreWellFormed, WakeupIsWellFormed
  <2>. QED  BY <1>4, <2>1, EndsStep DEF Finish, At
<1>5. ASSUME NEW w \in Workers, WakeUpStep(w) \/ GiveUp(w)
      PROVE  Rest'
  BY <1>3, <1>4, <1>5, LookStep, ListStep, ClaimStep, SettleStep, GiveUpStep DEF WakeUpStep
<1>6. ASSUME Next, \A w \in Workers : ~ WakeUpStep(w) /\ ~ GiveUp(w)
      PROVE  Rest'
  BY <1>6, OthersStep
<1>7. IInv' <=> TypeOK' /\ Rest'
  BY DEF IInv, Rest
<1>. QED  BY <1>1, <1>2, <1>5, <1>6, <1>7

LEMMA InvInit ==
  ASSUME Init
  PROVE  IInv
<1>1. TypeOK
  <2>1. inbox \in [Events -> InboxRows] /\ run \in [Turns -> RunStatuses]
    BY DEF Init, InboxRows, RunStatuses
  <2>2. worker \in [Workers -> Wakeups] /\ user \in Commands
    BY DEF Init, Wakeups, Commands, Verdicts, Resting, AtRest
  <2>3. troubles \in 0..MaxTroubles
    BY SessionInboxAssumption DEF Init
  <2>. QED  BY <2>1, <2>2, <2>3 DEF Init, TypeOK
<1>2. WakeupsAreWellFormed /\ ClaimsAreOwned /\ ProcessedIsAccountedFor
  BY DEF Init, WakeupsAreWellFormed, WakeupIsWellFormed, ClaimsAreOwned, ProcessedIsAccountedFor,
         Resting
<1>3. HeldWasQueued /\ SharedIsTwice /\ QueuedIsUnanswered /\ FreshIsUnanswered
        /\ ClaimedIsNotQueued
  BY DEF Init, HeldWasQueued, SharedIsTwice, QueuedIsUnanswered, FreshIsUnanswered,
         ClaimedIsNotQueued, Resting
<1>. QED  BY <1>1, <1>2, <1>3 DEF IInv

(* The inductive invariant holds in every reachable state.                 *)
THEOREM SessionInboxInvariant == Spec => []IInv
  BY InvInit, InvStep, PTL DEF Spec

(* Every variable stays within its type, for any number of threads.        *)
THEOREM SessionInboxTypeOK == Spec => []TypeOK
<1>1. IInv => TypeOK
  BY DEF IInv
<1>. QED  BY <1>1, SessionInboxInvariant, PTL

(* execute_session_wakeup_turn leaves no event claimed behind, but for a   *)
(* thread that died or gave up on a put.                                   *)
THEOREM ClaimedIsHeld == Spec => []ClaimedHasAHolder
<1>1. IInv => ClaimedHasAHolder
  BY DEF IInv, ClaimsAreOwned, Owns, ClaimedHasAHolder
<1>. QED  BY <1>1, SessionInboxInvariant, PTL

(* Only an answer, /queue clear and /cancel mark an event processed.       *)
THEOREM ProcessedIsExplained == Spec => []ProcessedIsAccountedFor
<1>1. IInv => ProcessedIsAccountedFor
  BY DEF IInv
<1>. QED  BY <1>1, SessionInboxInvariant, PTL

(* A turn answers what another one answered only if both had listed it, or *)
(* a command put an old copy.                                              *)
THEOREM EventsAreAnsweredOnce == Spec => AnsweredOnce
<1>. DEFINE A == \A w \in Workers :
                  At(w, "turn") /\ worker'[w].pc = "settle" /\ Answers(worker'[w].verdict)
                    => worker[w].held \cap answered \subseteq twice
<1>1. IInv => A
  BY DEF IInv, FreshIsUnanswered, Fresh, At
<1>2. IInv /\ [Next]_vars => [A]_vars
  BY <1>1
<1>. QED  BY <1>2, SessionInboxInvariant, PTL DEF Spec, AnsweredOnce
=============================================================================
