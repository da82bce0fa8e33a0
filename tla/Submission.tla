------------------------------ MODULE Submission ------------------------------
(***************************************************************************)
(* What the database promises of a submission, whoever writes its row: it  *)
(* waits for the platform (flux_queued, flux_failed), is recorded once,    *)
(* with an id of the platform no other submission has, and from then on    *)
(* follows the verdict until that is final.                                *)
(***************************************************************************)
EXTENDS Integers, FiniteSets

CONSTANTS Subs,       \* submission ids
          MaxCfSubs   \* bound on the submissions made on the platform

ASSUME SubmissionAssumption == MaxCfSubs \in Nat

VARIABLES state,    \* submissions.state
          cfSubID   \* cf_submissions.cf_sub_id, 0 without a row

rows == <<state, cfSubID>>

CfIds == 1..MaxCfSubs
Verdicts == {"TESTING", "OK"}
Sink(st) == st = "OK"
nonSinkFluxStates == {"flux_queued", "flux_failed"}
States == {"none"} \cup nonSinkFluxStates \cup Verdicts

Pending(s) == state[s] \in nonSinkFluxStates
Recorded(s) == cfSubID[s] # 0
Taken(id) == \E s \in Subs : cfSubID[s] = id

InitRows ==
  /\ state = [s \in Subs |-> "none"]
  /\ cfSubID = [s \in Subs |-> 0]

Create(s) ==
  /\ state[s] = "none"
  /\ state' = [state EXCEPT ![s] = "flux_queued"]
  /\ UNCHANGED cfSubID

Fail(s) ==
  /\ Pending(s)
  /\ state' = [state EXCEPT ![s] = "flux_failed"]
  /\ UNCHANGED cfSubID

Record(s, id, verdict) ==
  /\ Pending(s)
  /\ ~ Recorded(s) /\ ~ Taken(id)
  /\ state' = [state EXCEPT ![s] = verdict]
  /\ cfSubID' = [cfSubID EXCEPT ![s] = id]

(* Any of the submissions that are not judged may be.                      *)
Advance ==
  \E S \in SUBSET {s \in Subs : Recorded(s) /\ ~ Sink(state[s])} :
    /\ \E f \in [S -> Verdicts] :
         state' = [s \in Subs |-> IF s \in S THEN f[s] ELSE state[s]]
    /\ UNCHANGED cfSubID

RowsNext ==
  \/ \E s \in Subs : \/ Create(s) \/ Fail(s)
                     \/ \E id \in CfIds, verdict \in Verdicts : Record(s, id, verdict)
  \/ Advance

SubmissionSpec == InitRows /\ [][RowsNext]_rows
=============================================================================
