------------------------------- MODULE RunLife -------------------------------
(***************************************************************************)
(* The life of a stored run as run.rs means it, without threads, copies,   *)
(* cursors and tools: somebody is at work on the run or nobody is, and     *)
(* only who is at work moves it. A run that is over is out of reach.       *)
(***************************************************************************)
EXTENDS Naturals, RunEngine

VARIABLES
  run,    \* the stored run
  busy,   \* somebody is at work on it
  faults  \* failing store calls so far

vars == <<run, busy, faults>>

Init == run = NewRun /\ ~ busy /\ faults = 0

Is(status) == run.status = status
Moves(status) == run'.status = status

AsksNothing == run'.approvals = {} /\ run'.loop = NoLoop
AsksOne == run'.loop # NoLoop /\ run'.approvals = {run'.loop.id}

Begin ==
  /\ ~ busy /\ Is("queued")
  /\ run' = Start(run) /\ busy'

(* A turn at work saves what it has: its steps and its processes.          *)
Work ==
  /\ busy /\ Is("running")
  /\ Moves("running") /\ AsksNothing /\ busy'

(* It lets go of the run to wait for one approval ...                      *)
Ask ==
  /\ busy /\ Is("running")
  /\ Moves("waiting_approval") /\ AsksOne /\ ~ busy'

(* ... and an operator who grants it, or one who stops the run, is at work *)
(* before anything is stored.                                              *)
Take ==
  /\ ~ busy /\ (Is("running") \/ Is("waiting_approval"))
  /\ UNCHANGED run /\ busy'

Resume ==
  /\ busy /\ Is("waiting_approval")
  /\ Moves("running") /\ AsksNothing /\ busy'

End ==
  /\ busy /\ (Is("running") \/ Is("waiting_approval"))
  /\ \E status \in Terminal : Moves(status)
  /\ run'.loop = NoLoop /\ ~ busy'

(* A grant that leads to nothing leaves the run waiting. Otherwise only a  *)
(* failing store call makes a thread let go of a run as it is.             *)
LetGo ==
  /\ busy /\ (Is("waiting_approval") \/ faults' > 0)
  /\ UNCHANGED run /\ ~ busy'

(* The daemon restarts: a run nobody is asked about is over.               *)
Restart ==
  /\ IF Is("running") THEN run' = [run EXCEPT !.status = "interrupted"]
                      ELSE UNCHANGED run
  /\ ~ busy' /\ UNCHANGED faults

(* Beginning, working and ending store; the rest may meet a failing call.  *)
Next ==
  \/ (Begin \/ Work \/ Ask \/ Take \/ Resume \/ End) /\ UNCHANGED faults
  \/ LetGo /\ faults' \in {faults, faults + 1}
  \/ UNCHANGED <<run, busy>> /\ faults' = faults + 1
  \/ Restart

Spec == Init /\ [][Next]_vars
=============================================================================
