---------------------------- MODULE MonitorProofs ----------------------------
(* Proofs about the slaves' results and the bots' monitors, for any        *)
(* submissions, slaves, bots, window and number of restarts.               *)
EXTENDS MonitorProperties, SequenceTheorems, WellFoundedInduction, TLAPS

-----------------------------------------------------------------------------
(* The inductive invariant.  A verdict that travels in a result, an alert  *)
(* or a monitor's map may be late, but never ahead of the platform's.      *)
Tells(id, verdict) == verdict = "OK" => VerdictOf(id) = "OK"

(* A row has an id of the platform exactly when it has a verdict.          *)
RowsAgree ==
  \A s \in Subs :
    /\ Recorded(s) <=> state[s] \in Verdicts
    /\ Recorded(s) => cfSubID[s] \in DOMAIN cf /\ Tells(cfSubID[s], state[s])

MailsAgree ==
  /\ \A r \in results : r.id \in DOMAIN cf /\ Tells(r.id, r.verdict)
  /\ \A a \in alerts : a.id \in SubsOf(a.bot) /\ Tells(a.id, a.verdict)

(* A monitor knows only submissions of its own bot, so no other monitor    *)
(* writes the rows it has read.                                            *)
MonitorsAgree ==
  \A b \in Bots :
    /\ \A id \in Ids : subStatMap[b][id] # "unknown" =>
         id \in SubsOf(b) /\ Tells(id, subStatMap[b][id])
    /\ \A s \in updates[b] :
         /\ pc[b] = "read"
         /\ Recorded(s) /\ ~ Sink(state[s])
         /\ subStatMap[b][cfSubID[s]] # "unknown"

IInv == RowsAgree /\ MailsAgree /\ MonitorsAgree

-----------------------------------------------------------------------------
(* The platform's ids, and what it may change.                             *)
CfRecord == [sub : Subs, bot : Bots, verdict : Verdicts]

LEMMA CfShape ==
  ASSUME TypeOK
  PROVE  /\ cf \in Seq(CfRecord) /\ Len(cf) \in Nat /\ Len(cf) <= MaxCfSubs
         /\ DOMAIN cf = 1 .. Len(cf) /\ DOMAIN cf \subseteq CfIds /\ MaxCfSubs \in Nat
         /\ \A id \in DOMAIN cf : cf[id] \in CfRecord
         /\ \A b : SubsOf(b) \subseteq Ids /\ 0 \in SubsOf(b)
         /\ \A b : \A id \in SubsOf(b) : id # 0 => id \in DOMAIN cf /\ cf[id].bot = b
         /\ \A b : \A id \in SubsOf(b) : VerdictOf(id) \in Verdicts
<1>1. /\ cf \in Seq(CfRecord) /\ Len(cf) \in Nat /\ Len(cf) <= MaxCfSubs
      /\ DOMAIN cf = 1 .. Len(cf) /\ MaxCfSubs \in Nat
  BY LenProperties, SubmissionAssumption DEF TypeOK, CfRecord
<1>2. DOMAIN cf \subseteq CfIds
  BY <1>1 DEF CfIds
<1>3. \A id \in DOMAIN cf : cf[id] \in CfRecord
  BY <1>1, ElementOfSeq
<1>4. \A b : SubsOf(b) \subseteq Ids /\ 0 \in SubsOf(b)
  BY <1>2 DEF SubsOf, Ids
<1>5. \A b : \A id \in SubsOf(b) : id # 0 => id \in DOMAIN cf /\ cf[id].bot = b
  BY DEF SubsOf
<1>6. \A b : \A id \in SubsOf(b) : VerdictOf(id) \in Verdicts
  BY <1>3, <1>5 DEF VerdictOf, Verdicts, CfRecord
<1>7. QED
  BY <1>1, <1>2, <1>3, <1>4, <1>5, <1>6

(* A bot has a latest submission: the greatest of finitely many ids.       *)
LEMMA LatestExists ==
  ASSUME TypeOK, NEW b
  PROVE  Latest(b) \in SubsOf(b)
<1> DEFINE N == {Len(cf) - i : i \in SubsOf(b)}
<1>1. SubsOf(b) \subseteq 0 .. Len(cf) /\ Len(cf) \in Nat /\ 0 \in SubsOf(b)
  BY CfShape DEF SubsOf
<1>2. N \subseteq Nat /\ N # {}
  BY <1>1
<1>3. PICK n \in N : \A m \in N : <<m, n>> \notin OpToRel(<, Nat)
  <2> HIDE DEF N
  <2>1. QED
    BY <1>2, NatLessThanWellFounded, WFMin
<1>4. PICK i \in SubsOf(b) : n = Len(cf) - i
  OBVIOUS
<1>5. ASSUME NEW j \in SubsOf(b) PROVE j <= i
  <2>1. Len(cf) - j \in N /\ Len(cf) - j \in Nat /\ n \in Nat
    BY <1>2
  <2>2. ~ (Len(cf) - j < n)
    <3> HIDE DEF N
    <3>1. QED
      BY <1>3, <2>1 DEF OpToRel
  <2>3. QED
    BY <1>1, <1>4, <2>2
<1>6. QED
  BY <1>5 DEF Latest

(* The platform only adds submissions and judges them.                     *)
CfGrows ==
  \A id \in DOMAIN cf : /\ id \in DOMAIN cf' /\ cf'[id].bot = cf[id].bot
                        /\ cf[id].verdict = "OK" => cf'[id].verdict = "OK"

LEMMA GrownCf ==
  ASSUME CfGrows
  PROVE  /\ DOMAIN cf \subseteq DOMAIN cf'
         /\ \A b : SubsOf(b) \subseteq SubsOf(b)'
         /\ \A b, v : \A id \in SubsOf(b) : Tells(id, v) => Tells(id, v)'
         /\ \A v : \A id \in DOMAIN cf : Tells(id, v) => Tells(id, v)'
BY DEF CfGrows, SubsOf, Tells, VerdictOf

(* When only the platform moves, what agreed with it still does.           *)
LEMMA PlatformFrame ==
  ASSUME TypeOK, IInv, CfGrows,
         UNCHANGED <<rows, results, alerts, subStatMap, pc, updates>>
  PROVE  IInv'
<1>1. RowsAgree'
  BY GrownCf DEF IInv, RowsAgree, rows, Recorded
<1>2. MailsAgree'
  <2>1. \A r \in results' : r.id \in DOMAIN cf' /\ Tells(r.id, r.verdict)'
    BY GrownCf DEF IInv, MailsAgree
  <2>2. \A a \in alerts' : a.id \in SubsOf(a.bot)' /\ Tells(a.id, a.verdict)'
    BY GrownCf DEF IInv, MailsAgree
  <2>3. QED
    BY <2>1, <2>2 DEF MailsAgree
<1>3. MonitorsAgree'
  BY GrownCf DEF IInv, MonitorsAgree, rows, Recorded
<1>4. QED
  BY <1>1, <1>2, <1>3 DEF IInv

(* When cf, the rows and the monitors stay, only new mails matter.         *)
LEMMA MailFrame ==
  ASSUME TypeOK, IInv, UNCHANGED <<rows, cf, subStatMap, pc, updates>>,
         \A r \in results' : \/ r \in results
                             \/ r.id \in DOMAIN cf /\ Tells(r.id, r.verdict),
         \A a \in alerts' : \/ a \in alerts
                            \/ a.id \in SubsOf(a.bot) /\ Tells(a.id, a.verdict)
  PROVE  IInv'
<1>1. RowsAgree'
  BY DEF IInv, RowsAgree, rows, Recorded, Tells, VerdictOf
<1>2. MailsAgree'
  BY DEF IInv, MailsAgree, Tells, VerdictOf, SubsOf
<1>3. MonitorsAgree'
  BY DEF IInv, MonitorsAgree, rows, Recorded, Tells, VerdictOf, SubsOf
<1>4. QED
  BY <1>1, <1>2, <1>3 DEF IInv

-----------------------------------------------------------------------------
(* The slaves and the platform.                                            *)
LEMMA SlaveStep ==
  ASSUME TypeOK, IInv, NEW v \in Slaves, Slave(v)
  PROVE  TypeOK' /\ IInv'
<1>1. ASSUME NEW s \in Subs, NEW b \in Bots, TakeRequest(v, s, b)
      PROVE  TypeOK' /\ IInv'
  <2> DEFINE id == Latest(b)
  <2>1. id \in SubsOf(b) /\ id \in Ids /\ VerdictOf(id) \in Verdicts
    BY LatestExists, CfShape
  <2>2. /\ job' = [job EXCEPT ![v] = Job(s, b, id)]
        /\ scripts' = scripts \cup {Script(s, b)}
        /\ alerts' = alerts \cup {Alert(b, id, VerdictOf(id))}
        /\ UNCHANGED <<rows, cf, results, subStatMap, pc, updates, endLife, restarts>>
    BY <1>1 DEF TakeRequest, LatestAlert, monitorVars
  <2> HIDE DEF id
  <2>3. Alert(b, id, VerdictOf(id)) \in [bot : Bots, id : Ids, verdict : Verdicts]
    BY <2>1 DEF Alert
  <2>4. /\ Job(s, b, id) \in [sub : Subs, bot : Bots, prev : Ids]
        /\ Script(s, b) \in [sub : Subs, bot : Bots]
    BY <2>1 DEF Job, Script
  <2>5. TypeOK'
    BY <2>2, <2>3, <2>4 DEF TypeOK, rows, Recorded
  <2>6. LET a == Alert(b, id, VerdictOf(id)) IN a.id \in SubsOf(a.bot) /\ Tells(a.id, a.verdict)
    BY <2>1 DEF Alert, Tells
  <2>7. QED
    BY <2>2, <2>5, <2>6, MailFrame
<1>2. CASE ReportSuccess(v)
  <2> DEFINE b == job[v].bot
             s == job[v].sub
             id == Latest(b)
  <2>1. /\ job' = [job EXCEPT ![v] = None]
        /\ alerts' = alerts \cup {Alert(b, id, VerdictOf(id))}
        /\ results' = results \cup {Result(s, id, VerdictOf(id))}
        /\ UNCHANGED <<rows, cf, scripts, subStatMap, pc, updates, endLife, restarts>>
        /\ job[v] # None /\ id > job[v].prev
    BY <1>2 DEF ReportSuccess, LatestAlert, Done, monitorVars
  <2>2. b \in Bots /\ s \in Subs /\ job[v].prev \in Ids
    BY <2>1 DEF TypeOK
  <2>3. id \in SubsOf(b) /\ id \in Ids /\ VerdictOf(id) \in Verdicts
    BY LatestExists, CfShape
  <2> HIDE DEF id, b, s
  <2>4. id # 0 /\ id \in DOMAIN cf /\ id \in CfIds
    <3>1. job[v].prev \in Nat
      BY <2>2, CfShape DEF Ids, CfIds
    <3>2. id # 0
      BY <2>1, <3>1
    <3>3. QED
      BY <2>3, <3>2, CfShape
  <2>5. /\ Alert(b, id, VerdictOf(id)) \in [bot : Bots, id : Ids, verdict : Verdicts]
        /\ Result(s, id, VerdictOf(id)) \in [sub : Subs, id : CfIds, verdict : Verdicts]
    BY <2>2, <2>3, <2>4 DEF Alert, Result
  <2>6. TypeOK'
    BY <2>1, <2>5 DEF TypeOK, rows, Recorded
  <2>7. /\ LET a == Alert(b, id, VerdictOf(id))
           IN  a.id \in SubsOf(a.bot) /\ Tells(a.id, a.verdict)
        /\ LET r == Result(s, id, VerdictOf(id))
           IN  r.id \in DOMAIN cf /\ Tells(r.id, r.verdict)
    BY <2>3, <2>4 DEF Alert, Result, Tells
  <2>8. QED
    BY <2>1, <2>6, <2>7, MailFrame
<1>3. CASE ReportFailure(v)
  <2>1. TypeOK'
    BY <1>3 DEF ReportFailure, TypeOK, rows, Recorded, monitorVars
  <2>2. QED
    BY <1>3, <2>1, MailFrame DEF ReportFailure, monitorVars
<1>4. QED
  BY <1>1, <1>2, <1>3 DEF Slave

LEMMA PlatformStep ==
  ASSUME TypeOK, IInv, Platform
  PROVE  TypeOK' /\ IInv'
<1>1. ASSUME NEW c \in scripts, SubmitSolution(c) PROVE TypeOK' /\ IInv'
  <2> DEFINE e == [sub |-> c.sub, bot |-> c.bot, verdict |-> "TESTING"]
  <2>1. /\ cf' = Append(cf, e) /\ scripts' = scripts \ {c} /\ Len(cf) < MaxCfSubs
        /\ UNCHANGED <<rows, job, results, alerts, subStatMap, pc, updates, endLife, restarts>>
    BY <1>1 DEF SubmitSolution, platformEnv, slaveVars, monitorVars
  <2>2. e \in CfRecord
    BY DEF TypeOK, CfRecord, Verdicts
  <2> HIDE DEF e
  <2>3. /\ cf' \in Seq(CfRecord) /\ Len(cf') = Len(cf) + 1 /\ Len(cf') \in Nat
        /\ DOMAIN cf' = 1 .. Len(cf')
        /\ \A i \in 1 .. Len(cf) : cf'[i] = cf[i]
    BY <2>1, <2>2, CfShape, AppendProperties, LenProperties
  <2>4. TypeOK'
    BY <2>1, <2>3, CfShape DEF TypeOK, CfRecord, rows, Recorded
  <2>5. CfGrows
    BY <2>3, CfShape DEF CfGrows
  <2>6. QED
    BY <2>1, <2>4, <2>5, PlatformFrame
<1>2. ASSUME NEW c \in scripts, GiveUp(c) PROVE TypeOK' /\ IInv'
  <2>1. /\ scripts' = scripts \ {c}
        /\ UNCHANGED <<rows, cf, job, results, alerts, subStatMap, pc,
                       updates, endLife, restarts>>
    BY <1>2 DEF GiveUp, platformEnv, slaveVars, monitorVars
  <2>2. TypeOK'
    BY <2>1 DEF TypeOK, rows, Recorded
  <2>3. QED
    BY <2>1, <2>2, MailFrame
<1>3. ASSUME NEW id \in CfIds, Judge(id) PROVE TypeOK' /\ IInv'
  <2>1. /\ id \in DOMAIN cf /\ cf' = [cf EXCEPT ![id].verdict = "OK"]
        /\ UNCHANGED <<rows, scripts, job, results, alerts, subStatMap, pc,
                       updates, endLife, restarts>>
    BY <1>3 DEF Judge, platformEnv, slaveVars, monitorVars
  <2>2. cf[id] \in CfRecord /\ [cf[id] EXCEPT !.verdict = "OK"] \in CfRecord
    BY <2>1, CfShape DEF CfRecord, Verdicts
  <2>3. cf' = [cf EXCEPT ![id] = [cf[id] EXCEPT !.verdict = "OK"]]
    BY <2>1
  <2>4. cf' \in Seq(CfRecord) /\ Len(cf') = Len(cf) /\ DOMAIN cf' = DOMAIN cf
    BY <2>1, <2>2, <2>3, CfShape, ExceptSeq
  <2>5. TypeOK'
    BY <2>1, <2>4 DEF TypeOK, CfRecord, rows, Recorded
  <2>6. CfGrows
    BY <2>1, <2>2, <2>4, CfShape DEF CfGrows, CfRecord
  <2>7. QED
    BY <2>1, <2>5, <2>6, PlatformFrame
<1>4. QED
  BY <1>1, <1>2, <1>3 DEF Platform

-----------------------------------------------------------------------------
(* The rows.                                                               *)
LEMMA RowStep ==
  ASSUME TypeOK, IInv, NEW s \in Subs, CreateOrFail(s)
  PROVE  TypeOK' /\ IInv'
<1>1. /\ state[s] \notin Verdicts
      /\ \/ state' = [state EXCEPT ![s] = "flux_queued"]
         \/ state' = [state EXCEPT ![s] = "flux_failed"]
      /\ UNCHANGED <<cfSubID, cf, scripts, job, results, alerts, subStatMap, pc,
                     updates, endLife, restarts>>
  BY DEF CreateOrFail, Create, Fail, Pending, nonSinkFluxStates, Verdicts,
     slaveVars, monitorVars
<1>2. /\ state'[s] \in nonSinkFluxStates
      /\ \A u \in Subs : u # s => state'[u] = state[u]
      /\ state' \in [Subs -> States]
  BY <1>1 DEF TypeOK, nonSinkFluxStates, States
<1>3. TypeOK'
  BY <1>1, <1>2 DEF TypeOK, Recorded
<1>4. ~ Recorded(s)
  BY <1>1 DEF IInv, RowsAgree
<1>5. RowsAgree'
  BY <1>1, <1>2, <1>4 DEF IInv, RowsAgree, Recorded, Tells, VerdictOf,
     nonSinkFluxStates, Verdicts
<1>6. MailsAgree'
  BY <1>1 DEF IInv, MailsAgree, Tells, VerdictOf, SubsOf
<1>7. MonitorsAgree'
  <2>1. \A b \in Bots : \A u \in updates[b] : u \in Subs /\ u # s
    BY <1>4 DEF TypeOK, IInv, MonitorsAgree
  <2>2. QED
    BY <1>1, <1>2, <2>1 DEF IInv, MonitorsAgree, Recorded, Tells, VerdictOf, SubsOf
<1>8. QED
  BY <1>3, <1>5, <1>6, <1>7 DEF IInv

LEMMA RecordStep ==
  ASSUME TypeOK, IInv, NEW s \in Subs, NEW id \in CfIds, NEW verdict \in Verdicts,
         RecordResult(s, id, verdict)
  PROVE  TypeOK' /\ IInv'
<1>1. /\ Result(s, id, verdict) \in results
      /\ ~ Recorded(s)
      /\ state' = [state EXCEPT ![s] = verdict]
      /\ cfSubID' = [cfSubID EXCEPT ![s] = id]
      /\ results' \subseteq results
      /\ UNCHANGED <<cf, scripts, job, alerts, subStatMap, pc, updates, endLife, restarts>>
  BY DEF RecordResult, Record, monitorVars
<1>2. id \in DOMAIN cf /\ Tells(id, verdict) /\ id # 0 /\ id \in Ids
  BY <1>1, CfShape DEF IInv, MailsAgree, Result, Ids, CfIds
<1>3. /\ state'[s] = verdict /\ cfSubID'[s] = id
      /\ \A u \in Subs : u # s => state'[u] = state[u] /\ cfSubID'[u] = cfSubID[u]
      /\ state' \in [Subs -> States] /\ cfSubID' \in [Subs -> Ids]
  BY <1>1, <1>2 DEF TypeOK, States
<1>4. \A b \in Bots : \A u \in updates[b] : u \in Subs /\ u # s /\ Recorded(u)
  BY <1>1 DEF TypeOK, IInv, MonitorsAgree
<1>5. TypeOK'
  <2>1. updates' \in [Bots -> SUBSET {u \in Subs : Recorded(u)'}]
    BY <1>1, <1>3, <1>4 DEF TypeOK, Recorded
  <2>2. QED
    BY <1>1, <1>3, <2>1 DEF TypeOK
<1>6. RowsAgree'
  BY <1>1, <1>2, <1>3 DEF IInv, RowsAgree, Recorded, Tells, VerdictOf
<1>7. MailsAgree'
  BY <1>1 DEF IInv, MailsAgree, Tells, VerdictOf, SubsOf
<1>8. MonitorsAgree'
  BY <1>1, <1>3, <1>4 DEF IInv, MonitorsAgree, Recorded, Tells, VerdictOf, SubsOf
<1>9. QED
  BY <1>5, <1>6, <1>7, <1>8 DEF IInv

-----------------------------------------------------------------------------
(* The monitor of one bot: what it takes in is the platform's, and the     *)
(* other monitors' rows are not touched.                                   *)
LEMMA MapStep ==
  ASSUME TypeOK, IInv, NEW b \in Bots, NEW m \in [Ids -> Known], pc[b] # "read",
         \A id \in Ids : m[id] # "unknown" => id \in SubsOf(b) /\ Tells(id, m[id]),
         subStatMap' = [subStatMap EXCEPT ![b] = m],
         \A c \in Bots : c # b => pc'[c] = pc[c],
         UNCHANGED <<rows, cf, updates>>
  PROVE  subStatMap' \in [Bots -> [Ids -> Known]] /\ MonitorsAgree'
<1>1. /\ subStatMap'[b] = m /\ \A c \in Bots : c # b => subStatMap'[c] = subStatMap[c]
      /\ subStatMap' \in [Bots -> [Ids -> Known]]
  BY DEF TypeOK
<1>2. updates[b] = {}
  BY DEF TypeOK, IInv, MonitorsAgree
<1>3. QED
  BY <1>1, <1>2 DEF IInv, MonitorsAgree, rows, Recorded, Tells, VerdictOf, SubsOf

LEMMA MapFrame ==
  ASSUME TypeOK, IInv, UNCHANGED <<rows, cf, results>>, alerts' \subseteq alerts
  PROVE  RowsAgree' /\ MailsAgree'
<1>1. RowsAgree'
  BY DEF IInv, RowsAgree, rows, Recorded, Tells, VerdictOf
<1>2. MailsAgree'
  BY DEF IInv, MailsAgree, Tells, VerdictOf, SubsOf
<1>3. QED
  BY <1>1, <1>2

LEMMA AlertStep ==
  ASSUME TypeOK, IInv, NEW b \in Bots, NEW id \in Ids, NEW verdict \in Verdicts,
         HandleAlert(b, id, verdict)
  PROVE  TypeOK' /\ IInv'
<1> DEFINE m == [subStatMap[b] EXCEPT ![id] = verdict]
<1>1. /\ pc[b] = "idle" /\ Alert(b, id, verdict) \in alerts /\ alerts' \subseteq alerts
      /\ subStatMap' = [subStatMap EXCEPT ![b] = m]
      /\ UNCHANGED <<rows, cf, scripts, job, results, pc, updates, endLife, restarts>>
  BY DEF HandleAlert, monitorEnv, slaveVars, rows
<1>2. id \in SubsOf(b) /\ Tells(id, verdict)
  BY <1>1 DEF IInv, MailsAgree, Alert
<1>3. m \in [Ids -> Known]
  BY DEF TypeOK, Known
<1>4. \A i \in Ids : m[i] # "unknown" => i \in SubsOf(b) /\ Tells(i, m[i])
  BY <1>2 DEF TypeOK, IInv, MonitorsAgree
<1> HIDE DEF m
<1>5. subStatMap' \in [Bots -> [Ids -> Known]] /\ MonitorsAgree'
  BY <1>1, <1>3, <1>4, MapStep
<1>6. TypeOK'
  BY <1>1, <1>5 DEF TypeOK, rows, Recorded
<1>7. QED
  BY <1>1, <1>5, <1>6, MapFrame DEF IInv

LEMMA QueryStep ==
  ASSUME TypeOK, IInv, NEW b \in Bots, Query(b)
  PROVE  TypeOK' /\ IInv'
<1> DEFINE m == StatusesOf(b)
<1>1. /\ pc[b] = "idle" /\ pc' = [pc EXCEPT ![b] = "queried"]
      /\ \/ subStatMap' = [subStatMap EXCEPT ![b] = m]
         \/ subStatMap' = subStatMap
      /\ UNCHANGED <<rows, cf, scripts, job, results, alerts, updates, endLife, restarts>>
  BY DEF Query, monitorEnv, slaveVars, rows
<1>2. /\ pc' \in [Bots -> {"none", "idle", "queried", "read", "ended"}] /\ pc'[b] = "queried"
      /\ \A c \in Bots : c # b => pc'[c] = pc[c]
  BY <1>1 DEF TypeOK
<1>3. /\ m \in [Ids -> Known]
      /\ \A i \in Ids : m[i] # "unknown" => i \in SubsOf(b) /\ Tells(i, m[i])
  <2>1. Recent(b) \subseteq SubsOf(b)
    BY DEF Recent
  <2>2. QED
    BY <2>1, CfShape DEF StatusesOf, Known, Tells
<1> HIDE DEF m
<1>4. subStatMap' \in [Bots -> [Ids -> Known]] /\ MonitorsAgree'
  <2>1. CASE subStatMap' = [subStatMap EXCEPT ![b] = m]
    BY <1>1, <1>2, <1>3, <2>1, MapStep
  <2>2. CASE subStatMap' = subStatMap
    <3>1. updates[b] = {}
      BY <1>1 DEF TypeOK, IInv, MonitorsAgree
    <3>2. QED
      BY <1>1, <1>2, <2>2, <3>1 DEF TypeOK, IInv, MonitorsAgree, rows, Recorded,
         Tells, VerdictOf, SubsOf
  <2>3. QED
    BY <1>1, <2>1, <2>2
<1>5. TypeOK'
  BY <1>1, <1>2, <1>4 DEF TypeOK, rows, Recorded
<1>6. QED
  BY <1>1, <1>4, <1>5, MapFrame DEF IInv

(* Reading the rows, or failing to read or to write them.                  *)
LEMMA ReadStep ==
  ASSUME TypeOK, IInv, NEW b \in Bots, GetBulkEntries(b) \/ UpdateFails(b)
  PROVE  TypeOK' /\ IInv'
<1>1. PICK U \in SUBSET Subs :
        /\ updates' = [updates EXCEPT ![b] = U]
        /\ pc' = [pc EXCEPT ![b] = IF U = {} THEN "idle" ELSE "read"]
        /\ \A s \in U : Changed(b, s) /\ ~ Sink(state[s])
  <2>1. CASE UpdateFails(b)
    <3>1. {} \in SUBSET Subs
      OBVIOUS
    <3>2. updates' = [updates EXCEPT ![b] = {}] /\ pc' = [pc EXCEPT ![b] = "idle"]
      BY <2>1 DEF UpdateFails
    <3>3. QED
      BY <3>1, <3>2
  <2>2. CASE GetBulkEntries(b)
    <3> DEFINE U == {s \in Subs : Changed(b, s) /\ ~ Sink(state[s])}
    <3>1. /\ updates' = [updates EXCEPT ![b] = U]
          /\ pc' = [pc EXCEPT ![b] = IF updates'[b] = {} THEN "idle" ELSE "read"]
      BY <2>2 DEF GetBulkEntries
    <3>2. updates'[b] = U
      BY <3>1 DEF TypeOK
    <3>3. /\ U \in SUBSET Subs
          /\ \A s \in U : Changed(b, s) /\ ~ Sink(state[s])
      OBVIOUS
    <3>4. pc' = [pc EXCEPT ![b] = IF U = {} THEN "idle" ELSE "read"]
      BY <3>1, <3>2
    <3> HIDE DEF U
    <3>5. QED
      BY <3>1, <3>3, <3>4
  <2>3. QED
    BY <2>1, <2>2
<1>2. UNCHANGED <<rows, cf, scripts, job, results, alerts, subStatMap, endLife, restarts>>
  BY DEF GetBulkEntries, UpdateFails, monitorEnv, slaveVars, rows
<1>3. /\ updates'[b] = U /\ pc'[b] = (IF U = {} THEN "idle" ELSE "read")
      /\ \A c \in Bots : c # b => updates'[c] = updates[c] /\ pc'[c] = pc[c]
      /\ pc' \in [Bots -> {"none", "idle", "queried", "read", "ended"}]
  BY <1>1 DEF TypeOK
<1>4. \A s \in U : Recorded(s) /\ ~ Sink(state[s]) /\ subStatMap[b][cfSubID[s]] # "unknown"
  BY <1>1 DEF Changed
<1>5. TypeOK'
  <2>1. updates' \in [Bots -> SUBSET {s \in Subs : Recorded(s)}]
    BY <1>1, <1>4 DEF TypeOK
  <2>2. QED
    BY <1>2, <1>3, <2>1 DEF TypeOK, rows, Recorded
<1>6. MonitorsAgree'
  BY <1>2, <1>3, <1>4 DEF IInv, MonitorsAgree, rows, Recorded, Tells, VerdictOf, SubsOf
<1>7. QED
  BY <1>2, <1>5, <1>6, MapFrame DEF IInv

(* Writing them: rows with ids of this bot, which are not judged, get what *)
(* the monitor knows.                                                      *)
LEMMA UpdateFacts ==
  ASSUME TypeOK, IInv, NEW b \in Bots, NEW s \in updates[b]
  PROVE  /\ s \in Subs /\ Recorded(s) /\ ~ Sink(state[s])
         /\ subStatMap[b][cfSubID[s]] \in Verdicts
         /\ Tells(cfSubID[s], subStatMap[b][cfSubID[s]])
         /\ cfSubID[s] \in DOMAIN cf /\ cf[cfSubID[s]].bot = b
<1>1. s \in Subs /\ cfSubID[s] \in Ids
  BY DEF TypeOK
<1>2. /\ Recorded(s) /\ ~ Sink(state[s]) /\ subStatMap[b][cfSubID[s]] # "unknown"
      /\ cfSubID[s] \in SubsOf(b) /\ Tells(cfSubID[s], subStatMap[b][cfSubID[s]])
  BY <1>1 DEF IInv, MonitorsAgree
<1>3. subStatMap[b][cfSubID[s]] \in Verdicts
  BY <1>1, <1>2 DEF TypeOK, Known
<1>4. cfSubID[s] \in DOMAIN cf /\ cf[cfSubID[s]].bot = b
  BY <1>2, CfShape DEF Recorded
<1>5. QED
  BY <1>1, <1>2, <1>3, <1>4

LEMMA UpdateStep ==
  ASSUME TypeOK, IInv, NEW b \in Bots, BulkUpdate(b)
  PROVE  TypeOK' /\ IInv' /\ Advance
<1>1. /\ state' = [s \in Subs |-> IF s \in updates[b] THEN subStatMap[b][cfSubID[s]]
                                                       ELSE state[s]]
      /\ updates' = [updates EXCEPT ![b] = {}]
      /\ pc' = [pc EXCEPT ![b] = "idle"]
      /\ UNCHANGED <<cfSubID, cf, scripts, job, results, alerts, subStatMap,
                     endLife, restarts>>
  BY DEF BulkUpdate, monitorEnv, slaveVars
<1>2. /\ updates' \in [Bots -> SUBSET {s \in Subs : Recorded(s)}] /\ updates'[b] = {}
      /\ pc' \in [Bots -> {"none", "idle", "queried", "read", "ended"}]
      /\ \A c \in Bots : c # b => updates'[c] = updates[c] /\ pc'[c] = pc[c]
  BY <1>1 DEF TypeOK
<1>3. state' \in [Subs -> States]
  BY <1>1, UpdateFacts DEF TypeOK, States
<1>4. TypeOK'
  BY <1>1, <1>2, <1>3 DEF TypeOK, Recorded
<1>5. RowsAgree'
  <2> SUFFICES ASSUME NEW s \in Subs
               PROVE  /\ Recorded(s) <=> state'[s] \in Verdicts
                      /\ Recorded(s) => cfSubID[s] \in DOMAIN cf /\ Tells(cfSubID[s], state'[s])
    BY <1>1 DEF RowsAgree, Recorded, Tells, VerdictOf
  <2>1. CASE s \in updates[b]
    BY <1>1, <2>1, UpdateFacts
  <2>2. CASE s \notin updates[b]
    BY <1>1, <2>2 DEF IInv, RowsAgree
  <2>3. QED
    BY <2>1, <2>2
<1>6. MailsAgree'
  BY <1>1 DEF IInv, MailsAgree, Tells, VerdictOf, SubsOf
<1>7. ASSUME NEW c \in Bots, c # b, NEW s \in updates[c] PROVE state'[s] = state[s]
  <2>1. s \in Subs /\ s \notin updates[b]
    BY <1>7, UpdateFacts
  <2>2. QED
    BY <1>1, <2>1
<1>8. MonitorsAgree'
  BY <1>1, <1>2, <1>7 DEF IInv, MonitorsAgree, Recorded, Tells, VerdictOf, SubsOf
<1>9. Advance
  <2> DEFINE S == updates[b]
             f == [s \in S |-> subStatMap[b][cfSubID[s]]]
  <2>1. S \in SUBSET {s \in Subs : Recorded(s) /\ ~ Sink(state[s])}
    BY UpdateFacts
  <2>2. f \in [S -> Verdicts]
    BY UpdateFacts
  <2>3. state' = [s \in Subs |-> IF s \in S THEN f[s] ELSE state[s]]
    BY <1>1
  <2> HIDE DEF S, f
  <2>4. QED
    BY <1>1, <2>1, <2>2, <2>3 DEF Advance
<1>10. QED
  BY <1>4, <1>5, <1>6, <1>8, <1>9 DEF IInv

(* A monitor starts, is told to stop or to go on, or ends.                 *)
LEMMA LifeStep ==
  ASSUME TypeOK, IInv, NEW b \in Bots, Start(b) \/ HandleSignal(b) \/ End(b)
  PROVE  TypeOK' /\ IInv'
<1>1. /\ pc[b] # "read"
      /\ \A c \in Bots : c # b => pc'[c] = pc[c]
      /\ pc' \in [Bots -> {"none", "idle", "queried", "read", "ended"}]
      /\ endLife' \in [Bots -> BOOLEAN]
      /\ UNCHANGED <<rows, cf, scripts, job, results, alerts, subStatMap, updates, restarts>>
  BY DEF TypeOK, Start, HandleSignal, End, lifeEnv, slaveVars
<1>2. TypeOK'
  BY <1>1 DEF TypeOK, rows, Recorded
<1>3. updates[b] = {}
  BY <1>1 DEF TypeOK, IInv, MonitorsAgree
<1>4. MonitorsAgree'
  BY <1>1, <1>3 DEF IInv, MonitorsAgree, rows, Recorded, Tells, VerdictOf, SubsOf
<1>5. QED
  BY <1>1, <1>2, <1>4, MapFrame DEF IInv

(* The program forgets everything but the rows.                            *)
LEMMA RestartStep ==
  ASSUME TypeOK, IInv, Restart
  PROVE  TypeOK' /\ IInv'
<1>1. /\ job' = [v \in Slaves |-> None]
      /\ results' = {} /\ alerts' = {}
      /\ subStatMap' = [b \in Bots |-> NoStatus]
      /\ pc' = [b \in Bots |-> "none"] /\ endLife' = [b \in Bots |-> FALSE]
      /\ updates' = [b \in Bots |-> {}]
      /\ restarts' \in 0 .. MaxRestarts
      /\ UNCHANGED <<rows, cf, scripts>>
  BY MonitorAssumption DEF Restart, TypeOK
<1>2. NoStatus \in [Ids -> Known] /\ \A id \in Ids : NoStatus[id] = "unknown"
  BY DEF NoStatus, Known
<1>3. TypeOK'
  BY <1>1, <1>2 DEF TypeOK, rows, Recorded
<1>4. MonitorsAgree'
  BY <1>1, <1>2 DEF MonitorsAgree
<1>5. RowsAgree' /\ MailsAgree'
  BY <1>1 DEF IInv, RowsAgree, MailsAgree, rows, Recorded, Tells, VerdictOf
<1>6. QED
  BY <1>3, <1>4, <1>5 DEF IInv

-----------------------------------------------------------------------------
(* Every step.                                                             *)
LEMMA MonitorStep ==
  ASSUME TypeOK, IInv, NEW b \in Bots, Monitor(b)
  PROVE  TypeOK' /\ IInv'
BY LifeStep, AlertStep, QueryStep, ReadStep, UpdateStep DEF Monitor

LEMMA InvariantStep == TypeOK /\ IInv /\ [Next]_vars => TypeOK' /\ IInv'
<1> SUFFICES ASSUME TypeOK, IInv, [Next]_vars PROVE TypeOK' /\ IInv'
  OBVIOUS
<1>1. CASE UNCHANGED vars
  <2>1. UNCHANGED <<rows, cf, scripts, job, results, alerts, subStatMap, pc,
                    updates, endLife, restarts>>
    BY <1>1 DEF vars, slaveVars, monitorVars
  <2>2. TypeOK'
    BY <2>1 DEF TypeOK, rows, Recorded
  <2>3. QED
    BY <2>1, <2>2, MailFrame
<1>2. QED
  BY <1>1, RowStep, RecordStep, SlaveStep, PlatformStep, MonitorStep, RestartStep DEF Next

LEMMA Everything == Spec => [](TypeOK /\ IInv)
<1>1. Init => TypeOK /\ IInv
  <2> SUFFICES ASSUME Init PROVE TypeOK /\ IInv
    OBVIOUS
  <2>1. /\ state = [s \in Subs |-> "none"] /\ cfSubID = [s \in Subs |-> 0]
        /\ cf = <<>> /\ scripts = {} /\ results = {} /\ alerts = {}
        /\ job = [v \in Slaves |-> None]
        /\ subStatMap = [b \in Bots |-> NoStatus]
        /\ pc = [b \in Bots |-> "none"] /\ endLife = [b \in Bots |-> FALSE]
        /\ updates = [b \in Bots |-> {}] /\ restarts = 0
    BY DEF Init, InitRows
  <2>2. NoStatus \in [Ids -> Known] /\ \A id \in Ids : NoStatus[id] = "unknown"
    BY DEF NoStatus, Known
  <2>3. cf \in Seq([sub : Subs, bot : Bots, verdict : Verdicts]) /\ Len(cf) = 0
    BY <2>1
  <2>4. TypeOK
    BY <2>1, <2>2, <2>3, MonitorAssumption, SubmissionAssumption DEF TypeOK, States, Ids
  <2>5. IInv
    BY <2>1, <2>2 DEF IInv, RowsAgree, MailsAgree, MonitorsAgree, Recorded, Verdicts
  <2>6. QED
    BY <2>4, <2>5
<1>2. QED
  BY <1>1, InvariantStep, PTL DEF Spec

(* cf_bot_monitor.go, nyx_slave.go: see TypeOK.                            *)
THEOREM TypeCorrect == Spec => []TypeOK
BY Everything, PTL

(* cf_bot_monitor.go:217-243: a row becomes final only with the platform's *)
(* verdict on the submission whose id it has, for any number of bots whose *)
(* monitors write at the same time.                                        *)
THEOREM VerdictsAreTheirOwn == Spec => []VerdictOfItsOwn
<1>1. TypeOK /\ IInv => VerdictOfItsOwn
  BY DEF IInv, RowsAgree, VerdictOfItsOwn, Recorded, Sink, Verdicts, Tells
<1>2. QED
  BY <1>1, Everything, PTL

-----------------------------------------------------------------------------
(* The rows follow Submission: a monitor's write is an Advance, since none *)
(* of its rows became final after they were read.                          *)
LEMMA RowsStep == TypeOK /\ IInv /\ [Next]_vars => [RowsNext]_rows
<1> SUFFICES ASSUME TypeOK, IInv, [Next]_vars PROVE RowsNext \/ UNCHANGED rows
  OBVIOUS
<1>1. ASSUME NEW s \in Subs, CreateOrFail(s) PROVE RowsNext
  BY <1>1 DEF CreateOrFail, RowsNext
<1>2. ASSUME NEW s \in Subs, NEW id \in CfIds, NEW verdict \in Verdicts,
             RecordResult(s, id, verdict)
      PROVE  RowsNext
  BY <1>2 DEF RecordResult, RowsNext
<1>3. ASSUME NEW v \in Slaves, Slave(v) PROVE UNCHANGED rows
  BY <1>3 DEF Slave, TakeRequest, ReportSuccess, ReportFailure
<1>4. ASSUME Platform PROVE UNCHANGED rows
  BY <1>4 DEF Platform, SubmitSolution, GiveUp, Judge, platformEnv
<1>5. ASSUME NEW b \in Bots, Monitor(b) PROVE RowsNext \/ UNCHANGED rows
  <2>1. CASE BulkUpdate(b)
    BY <2>1, UpdateStep DEF RowsNext
  <2>2. CASE ~ BulkUpdate(b)
    BY <1>5, <2>2 DEF Monitor, Start, HandleSignal, End, HandleAlert, Query,
       GetBulkEntries, UpdateFails, lifeEnv, monitorEnv, rows
  <2>3. QED
    BY <2>1, <2>2
<1>6. ASSUME Restart \/ UNCHANGED vars PROVE UNCHANGED rows
  BY <1>6 DEF Restart, vars
<1>7. QED
  BY <1>1, <1>2, <1>3, <1>4, <1>5, <1>6 DEF Next

(* cf_bot_monitor.go:217-243, submission results: the slaves, the watchers *)
(* and all monitors together keep the promise of Submission: a row is      *)
(* recorded once, under an id of its own, and a final state stays.         *)
THEOREM RowsFollowSubmission == Spec => SubmissionSpec
<1>1. Init => InitRows
  BY DEF Init
<1>2. QED
  BY <1>1, RowsStep, Everything, PTL DEF Spec, SubmissionSpec
=============================================================================
