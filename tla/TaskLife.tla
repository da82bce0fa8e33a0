------------------------------ MODULE TaskLife -------------------------------
(***************************************************************************)
(* What the scheduler promises the caller of ScheduleTask about a          *)
(* long-running task: it is launched or refused, and the caller is told by *)
(* OnLaunchComplete; a launched task may end, and the caller is told by    *)
(* OnTaskComplete; a refused one never ends.  Of a short-running task only *)
(* the first call is made, when its command is over.                       *)
(***************************************************************************)
EXTENDS FiniteSets

CONSTANT Tasks
VARIABLE life

Lives == {"unknown", "scheduled", "launched", "refused", "ended"}

LifeInit == life = [t \in Tasks |-> "unknown"]

Schedule(S) ==
  /\ \A t \in S : life[t] = "unknown"
  /\ life' = [t \in Tasks |-> IF t \in S THEN "scheduled" ELSE life[t]]

Launched(t) ==
  /\ life[t] = "scheduled"
  /\ life' = [life EXCEPT ![t] = "launched"]

Refused(t) ==
  /\ life[t] = "scheduled"
  /\ life' = [life EXCEPT ![t] = "refused"]

Ended(t) ==
  /\ life[t] = "launched"
  /\ life' = [life EXCEPT ![t] = "ended"]

LifeNext ==
  \/ \E S \in SUBSET Tasks : Schedule(S)
  \/ \E t \in Tasks : Launched(t) \/ Refused(t) \/ Ended(t)

LifeSpec == LifeInit /\ [][LifeNext]_life
=============================================================================
