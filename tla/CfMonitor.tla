------------------------------ MODULE CfMonitor ------------------------------
(***************************************************************************)
(* From the platform's verdict to a submission's row: slaves submit with   *)
(* the account of a bot and take the bot's latest submission for theirs    *)
(* (nyx_slave.go), and a monitor per bot asks the platform for the         *)
(* verdicts and writes those that changed (cf_bot_monitor.go).             *)
(*                                                                         *)
(* A query, a read and a write of the database are steps of their own, and *)
(* any may fail.  A bot has submissions from before, of which the latest   *)
(* counts: 0, which is judged.  Without any it could not be used.  What    *)
(* the watchers of NyxManager do to the rows is what Submission allows     *)
(* them to, with the results the slaves gave; when a monitor is started    *)
(* and told to stop is BotManager's business, and may be at any time here. *)
(***************************************************************************)
EXTENDS Submission, Sequences

CONSTANTS Slaves, Bots,
          Window,       \* how many submissions a query returns, 50 in the code
          MaxRestarts,  \* bound on the restarts of the program
          None

ASSUME MonitorAssumption ==
  Window \in Nat \ {0} /\ MaxRestarts \in Nat /\ None \notin Subs

VARIABLES cf,          \* what was submitted to the platform, by its id
          scripts,     \* what the slaves' scripts are asked to submit
          job,         \* what a slave waits for
          results,     \* of slaves, not yet recorded
          alerts,      \* mnrSubAlert mails in transit
          subStatMap,  \* what a bot's monitor knows
          pc,          \* its goroutine, "none" while the map has no monitor
          endLife,     \* it was told to stop
          updates,     \* the rows it is going to write
          restarts

slaveVars == <<job, results>>
monitorVars == <<subStatMap, pc, endLife, updates>>
vars == <<rows, cf, scripts, slaveVars, alerts, monitorVars, restarts>>

Script(s, b) == [sub |-> s, bot |-> b]
Job(s, b, prev) == [sub |-> s, bot |-> b, prev |-> prev]
Result(s, id, verdict) == [sub |-> s, id |-> id, verdict |-> verdict]
Alert(b, id, verdict) == [bot |-> b, id |-> id, verdict |-> verdict]

Ids == {0} \cup CfIds
SubsOf(b) == {0} \cup {id \in DOMAIN cf : cf[id].bot = b}
Latest(b) == CHOOSE id \in SubsOf(b) : \A i \in SubsOf(b) : i <= id
VerdictOf(id) == IF id = 0 THEN "OK" ELSE cf[id].verdict

NoStatus == [id \in Ids |-> "unknown"]

Init ==
  /\ InitRows
  /\ cf = <<>> /\ scripts = {}
  /\ job = [v \in Slaves |-> None]
  /\ results = {} /\ alerts = {}
  /\ subStatMap = [b \in Bots |-> NoStatus]
  /\ pc = [b \in Bots |-> "none"]
  /\ endLife = [b \in Bots |-> FALSE]
  /\ updates = [b \in Bots |-> {}]
  /\ restarts = 0

-----------------------------------------------------------------------------
(* Submit and the watchers.                                                *)
CreateOrFail(s) ==
  /\ Create(s) \/ Fail(s)
  /\ UNCHANGED <<cf, scripts, slaveVars, alerts, monitorVars, restarts>>

RecordResult(s, id, verdict) ==
  /\ Result(s, id, verdict) \in results
  /\ results' = results \ {Result(s, id, verdict)}
  /\ Record(s, id, verdict)
  /\ UNCHANGED <<cf, scripts, job, alerts, monitorVars, restarts>>

-----------------------------------------------------------------------------
(* A slave.  getLatestSubmission is a call of a monitor in the manager's   *)
(* map, which need not run any more, and tells it what was seen.           *)
LatestAlert(b) == Alert(b, Latest(b), VerdictOf(Latest(b)))

TakeRequest(v, s, b) ==
  /\ job[v] = None
  /\ pc[b] # "none"
  /\ state[s] # "none"
  /\ job' = [job EXCEPT ![v] = Job(s, b, Latest(b))]
  /\ scripts' = scripts \cup {Script(s, b)}
  /\ alerts' = alerts \cup {LatestAlert(b)}
  /\ UNCHANGED <<rows, cf, results, monitorVars, restarts>>

Done(v) == job[v] # None /\ Script(job[v].sub, job[v].bot) \notin scripts

(* Mutant of ReportSuccess: the monitor is not told.                       *)
ReportSuccessQuietly(v) ==
  LET id == Latest(job[v].bot)
  IN  /\ Done(v)
      /\ id > job[v].prev
      /\ results' = results \cup {Result(job[v].sub, id, VerdictOf(id))}
      /\ job' = [job EXCEPT ![v] = None]
      /\ UNCHANGED <<rows, cf, scripts, alerts, monitorVars, restarts>>

(* The script reports no error, and the bot has a new submission.          *)
ReportSuccess(v) ==
  LET id == Latest(job[v].bot)
  IN  /\ Done(v)
      /\ id > job[v].prev
      /\ alerts' = alerts \cup {LatestAlert(job[v].bot)}
      /\ results' = results \cup {Result(job[v].sub, id, VerdictOf(id))}
      /\ job' = [job EXCEPT ![v] = None]
      /\ UNCHANGED <<rows, cf, scripts, monitorVars, restarts>>

(* Some step has failed, or the script, which may still be at it, has not  *)
(* answered in time.                                                       *)
ReportFailure(v) ==
  /\ job[v] # None
  /\ job' = [job EXCEPT ![v] = None]
  /\ UNCHANGED <<rows, cf, scripts, results, alerts, monitorVars, restarts>>

-----------------------------------------------------------------------------
(* The scripts and the platform.                                           *)
platformEnv == <<rows, slaveVars, alerts, monitorVars, restarts>>

SubmitSolution(c) ==
  /\ c \in scripts
  /\ Len(cf) < MaxCfSubs
  /\ cf' = Append(cf, [sub |-> c.sub, bot |-> c.bot, verdict |-> "TESTING"])
  /\ scripts' = scripts \ {c}
  /\ UNCHANGED platformEnv

GiveUp(c) ==
  /\ c \in scripts
  /\ scripts' = scripts \ {c}
  /\ UNCHANGED <<cf, platformEnv>>

Judge(id) ==
  /\ id \in DOMAIN cf
  /\ cf[id].verdict = "TESTING"
  /\ cf' = [cf EXCEPT ![id].verdict = "OK"]
  /\ UNCHANGED <<scripts, platformEnv>>

-----------------------------------------------------------------------------
(* The life of a bot's monitor.                                            *)
lifeEnv == <<rows, cf, scripts, slaveVars, alerts, updates, restarts>>

(* The bot is new to the manager.  One that is added again keeps the       *)
(* monitor it had, which may have ended: bot_manager.go:127.               *)
Start(b) ==
  /\ pc[b] = "none"
  /\ pc' = [pc EXCEPT ![b] = "idle"]
  /\ UNCHANGED <<subStatMap, endLife, lifeEnv>>

(* The latest of stop and keepAlive: the bot is gone, or is back.          *)
HandleSignal(b) ==
  /\ pc[b] = "idle"
  /\ endLife' = [endLife EXCEPT ![b] = ~ @]
  /\ UNCHANGED <<subStatMap, pc, lifeEnv>>

(* For five minutes there was no alert, nothing to update, and the         *)
(* platform has perhaps still not judged what the monitor asks for.        *)
End(b) ==
  /\ pc[b] = "idle"
  /\ endLife[b]
  /\ pc' = [pc EXCEPT ![b] = "ended"]
  /\ UNCHANGED <<subStatMap, endLife, lifeEnv>>

-----------------------------------------------------------------------------
(* The cycles of a monitor.                                                *)
monitorEnv == <<cfSubID, cf, scripts, slaveVars, endLife, restarts>>

(* Mutant of HandleAlert: it is taken for news of the latest one known.    *)
HandleAlertForLatest(b, id, verdict) ==
  LET known == {id} \cup {i \in Ids : subStatMap[b][i] # "unknown"}
      last == CHOOSE i \in known : \A k \in known : k <= i
  IN  /\ pc[b] = "idle"
      /\ Alert(b, id, verdict) \in alerts
      /\ alerts' = alerts \ {Alert(b, id, verdict)}
      /\ subStatMap' = [subStatMap EXCEPT ![b][last] = verdict]
      /\ UNCHANGED <<state, pc, updates, monitorEnv>>

HandleAlert(b, id, verdict) ==
  /\ pc[b] = "idle"
  /\ Alert(b, id, verdict) \in alerts
  /\ alerts' = alerts \ {Alert(b, id, verdict)}
  /\ subStatMap' = [subStatMap EXCEPT ![b][id] = verdict]
  /\ UNCHANGED <<state, pc, updates, monitorEnv>>

Recent(b) == {id \in SubsOf(b) : Cardinality({i \in SubsOf(b) : i > id}) < Window}

StatusesOf(b) == [id \in Ids |-> IF id \in Recent(b) THEN VerdictOf(id) ELSE "unknown"]

ShouldQuery(b) == \E id \in Ids : subStatMap[b][id] = "TESTING"
ColdStart(b) == subStatMap[b] = NoStatus

(* The platform is asked if something is not judged or nothing is known.   *)
Query(b) ==
  /\ pc[b] = "idle"
  /\ subStatMap' = IF ShouldQuery(b) \/ ColdStart(b)
                     THEN [subStatMap EXCEPT ![b] = StatusesOf(b)]
                     ELSE subStatMap
  /\ pc' = [pc EXCEPT ![b] = "queried"]
  /\ UNCHANGED <<state, alerts, updates, monitorEnv>>

(* Mutant of Changed: what the monitor does not know has changed.          *)
ChangedOrUnknown(b, s) ==
  /\ Recorded(s)
  /\ subStatMap[b][cfSubID[s]] # state[s]

(* A row whose submission the monitor knows, with another verdict.         *)
Changed(b, s) ==
  /\ Recorded(s)
  /\ subStatMap[b][cfSubID[s]] \notin {"unknown", state[s]}

(* Mutant of GetBulkEntries: final rows are selected, too.                 *)
GetAllEntries(b) ==
  /\ pc[b] = "queried"
  /\ updates' = [updates EXCEPT ![b] = {s \in Subs : Changed(b, s)}]
  /\ pc' = [pc EXCEPT ![b] = IF updates'[b] = {} THEN "idle" ELSE "read"]
  /\ UNCHANGED <<state, alerts, subStatMap, monitorEnv>>

GetBulkEntries(b) ==
  /\ pc[b] = "queried"
  /\ updates' = [updates EXCEPT ![b] = {s \in Subs : Changed(b, s) /\ ~ Sink(state[s])}]
  /\ pc' = [pc EXCEPT ![b] = IF updates'[b] = {} THEN "idle" ELSE "read"]
  /\ UNCHANGED <<state, alerts, subStatMap, monitorEnv>>

BulkUpdate(b) ==
  /\ pc[b] = "read"
  /\ state' = [s \in Subs |-> IF s \in updates[b] THEN subStatMap[b][cfSubID[s]]
                                                  ELSE state[s]]
  /\ updates' = [updates EXCEPT ![b] = {}]
  /\ pc' = [pc EXCEPT ![b] = "idle"]
  /\ UNCHANGED <<alerts, subStatMap, monitorEnv>>

(* Reading the rows, or the transaction, fails.                            *)
UpdateFails(b) ==
  /\ pc[b] \in {"queried", "read"}
  /\ updates' = [updates EXCEPT ![b] = {}]
  /\ pc' = [pc EXCEPT ![b] = "idle"]
  /\ UNCHANGED <<state, alerts, subStatMap, monitorEnv>>

-----------------------------------------------------------------------------
(* The program ends and is started again; rows and platform stay, and a    *)
(* script that works may go on.                                            *)
Restart ==
  /\ restarts < MaxRestarts
  /\ restarts' = restarts + 1
  /\ job' = [v \in Slaves |-> None]
  /\ results' = {} /\ alerts' = {}
  /\ subStatMap' = [b \in Bots |-> NoStatus]
  /\ pc' = [b \in Bots |-> "none"]
  /\ endLife' = [b \in Bots |-> FALSE]
  /\ updates' = [b \in Bots |-> {}]
  /\ UNCHANGED <<rows, cf, scripts>>

Slave(v) ==
  \/ \E s \in Subs, b \in Bots : TakeRequest(v, s, b)
  \/ ReportSuccess(v) \/ ReportFailure(v)

Platform ==
  \/ \E c \in scripts : SubmitSolution(c) \/ GiveUp(c)
  \/ \E id \in CfIds : Judge(id)

Monitor(b) ==
  \/ Start(b) \/ HandleSignal(b) \/ End(b)
  \/ \E id \in Ids, verdict \in Verdicts : HandleAlert(b, id, verdict)
  \/ Query(b) \/ GetBulkEntries(b) \/ BulkUpdate(b) \/ UpdateFails(b)

Next ==
  \/ \E s \in Subs : \/ CreateOrFail(s)
                     \/ \E id \in CfIds, verdict \in Verdicts : RecordResult(s, id, verdict)
  \/ \E v \in Slaves : Slave(v)
  \/ Platform
  \/ \E b \in Bots : Monitor(b)
  \/ Restart

Spec == Init /\ [][Next]_vars

(* The platform judges what it has and answers, the ticker of a monitor    *)
(* that has not ended goes on, a mail to one that reads its mailbox again  *)
(* and again is taken, and the database is not broken for ever.  That a    *)
(* bot has a monitor, or that its monitor lives on, is not assumed.        *)
Fairness ==
  /\ \A id \in CfIds : WF_vars(Judge(id))
  /\ \A b \in Bots :
       /\ WF_vars(Query(b))
       /\ SF_vars(GetBulkEntries(b)) /\ SF_vars(BulkUpdate(b))
       /\ WF_vars(UpdateFails(b))
       /\ \A id \in CfIds : SF_vars(HandleAlert(b, id, "TESTING"))

FairSpec == Spec /\ Fairness
=============================================================================
