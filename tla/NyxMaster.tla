------------------------------ MODULE NyxMaster ------------------------------
(***************************************************************************)
(* The master of internal/service/submission_service (nyx_master.go) and   *)
(* the mail loops of its slaves (nyx_slave.go).                            *)
(*                                                                         *)
(* The master has the scheduler launch a process per slave, adds a slave   *)
(* to its inventory when the process is ready, routes every submission to  *)
(* the least busy slave, and starts and kills slaves by the load.  It      *)
(* handles one mail at a time: each handler is one action.  The postman    *)
(* starts a goroutine per delivery, so mails in transit form a bag, and    *)
(* whatever their priorities any of them may be the next one handled.      *)
(*                                                                         *)
(* The scheduler is what TaskLife says of it.  A slave is named by its     *)
(* task, whose id its mail id is made of.                                  *)
(***************************************************************************)
EXTENDS Integers, FiniteSets, Bags, TaskLife

CONSTANTS Subs,      \* submission ids
          MaxBots,   \* bound on the number of bots
          MaxMails,  \* bound on the mails to the master when one is added at will
          None

ASSUME MasterAssumption ==
  /\ IsFiniteSet(Tasks) /\ Tasks # {} /\ IsFiniteSet(Subs)
  /\ MaxBots \in Nat /\ MaxMails \in Nat
  /\ None \notin Tasks /\ None \notin Subs

VARIABLES slaves, numActSubs,   \* the inventory, and the load of each slave
          pendingSlaves,        \* scheduled, not yet ready
          killedSlaves,         \* the scheduler was asked to kill them
          activeSubmissions,    \* submission -> the slave it was routed to
          bots,                 \* len(master.bots)
          wait,                 \* waitForNyxScrReady goroutine of a slave
          gor, job,             \* a slave's mail loop and the submission in hand
          mails,                \* in transit to the master
          jobs, stops,          \* in transit to the slaves
          unreported,           \* history: given up by a slave without a word
          crashed               \* a panic of the master ends the program

masterVars == <<slaves, numActSubs, pendingSlaves, killedSlaves,
                activeSubmissions, bots, crashed>>
slaveVars == <<gor, job, jobs, stops, unreported>>
vars == <<life, wait, mails, masterVars, slaveVars>>

Request(s) == [kind |-> "cfSubRequest", sub |-> s]
Result(s) == [kind |-> "cfSubResult", sub |-> s]
TaskLaunch(t) == [kind |-> "slvTaskLnh", slave |-> t]
Ready(t, ok) == [kind |-> "slaveReady", slave |-> t, ok |-> ok]
Dead(t) == [kind |-> "slvScrDead", slave |-> t]
LoadReport(n) == [kind |-> "loadReport", recSlaves |-> n]
BotError(t, err) == [kind |-> "slaveBotError", slave |-> t, err |-> err]
Failed(t) == [kind |-> "slaveFailed", slave |-> t]
CorruptedBot == [kind |-> "corruptedBot"]
RefreshBots == [kind |-> "refreshBots"]

BotErrors == {"notFound", "noBots", "other"}
Mail == {Request(s) : s \in Subs} \cup {Result(s) : s \in Subs \cup {None}}
          \cup {TaskLaunch(t) : t \in Tasks}
          \cup {Ready(t, ok) : t \in Tasks, ok \in BOOLEAN}
          \cup {Dead(t) : t \in Tasks} \cup {LoadReport(n) : n \in 0..MaxBots}
          \cup {BotError(t, err) : t \in Tasks, err \in BotErrors}
          \cup {Failed(t) : t \in Tasks} \cup {CorruptedBot, RefreshBots}

Job(t, s) == [to |-> t, sub |-> s]

InTransit(m) == m \in BagToSet(mails)
Posted(S) == mails' = mails (+) SetToBag(S)
Handling(m) == InTransit(m) /\ mails' = mails (-) SetToBag({m})

(* master.Start has read the bots and scheduled the first slave.           *)
Init ==
  \E t \in Tasks :
    /\ life = [u \in Tasks |-> IF u = t THEN "scheduled" ELSE "unknown"]
    /\ pendingSlaves = {t}
    /\ slaves = {} /\ killedSlaves = {}
    /\ numActSubs = [u \in Tasks |-> 0]
    /\ activeSubmissions = [s \in Subs |-> None]
    /\ bots \in 0..MaxBots
    /\ wait = [u \in Tasks |-> "no"]
    /\ gor = [u \in Tasks |-> "none"]
    /\ job = [u \in Tasks |-> None]
    /\ mails = EmptyBag /\ jobs = EmptyBag /\ stops = {}
    /\ unreported = {}
    /\ crashed = FALSE

-----------------------------------------------------------------------------
(* Watchers, the load monitor and the submission service.                  *)
Post ==
  /\ BagCardinality(mails) < MaxMails
  /\ \/ \E s \in Subs : Posted({Request(s)})
     \/ \E n \in 0..MaxBots : Posted({LoadReport(n)})
     \/ Posted({RefreshBots})
  /\ UNCHANGED <<life, wait, masterVars, slaveVars>>

(* The scheduler's callbacks.                                              *)
TaskAnswered(t) ==
  /\ Launched(t) \/ Refused(t)
  /\ Posted({TaskLaunch(t)})
  /\ UNCHANGED <<wait, masterVars, slaveVars>>

TaskEnded(t) ==
  /\ Ended(t)
  /\ Posted({Dead(t)})
  /\ UNCHANGED <<wait, masterVars, slaveVars>>

(* waitForNyxScrReady finds the address the process has written, or gives  *)
(* up after a minute.                                                      *)
ScriptReady(t, ok) ==
  /\ wait[t] = "on"
  /\ ok => life[t] \in {"launched", "ended"}
  /\ wait' = [wait EXCEPT ![t] = "over"]
  /\ Posted({Ready(t, ok)})
  /\ UNCHANGED <<life, masterVars, slaveVars>>

-----------------------------------------------------------------------------
(* A slave's mail loop.                                                    *)
SlaveTakes(t, s) ==
  /\ gor[t] = "idle"
  /\ Job(t, s) \in BagToSet(jobs)
  /\ jobs' = jobs (-) SetToBag({Job(t, s)})

(* getBot fails: the slave is not in the distribution, or has no bots.     *)
SlaveLacksBot(t, s) ==
  /\ SlaveTakes(t, s)
  /\ \E err \in {"notFound", "noBots"} : Posted({BotError(t, err), Result(s)})
  /\ UNCHANGED <<life, wait, masterVars, gor, job, stops, unreported>>

SlaveSubmits(t, s) ==
  /\ SlaveTakes(t, s)
  /\ gor' = [gor EXCEPT ![t] = "busy"]
  /\ job' = [job EXCEPT ![t] = s]
  /\ UNCHANGED <<life, wait, mails, masterVars, stops, unreported>>

(* Mutant of SlaveReports: no answer when the bot is corrupted.            *)
SlaveReportsBot(t, corrupted) ==
  /\ gor[t] = "busy"
  /\ Posted(IF corrupted THEN {CorruptedBot} ELSE {Result(job[t])})
  /\ gor' = [gor EXCEPT ![t] = "idle"]
  /\ job' = [job EXCEPT ![t] = None]
  /\ UNCHANGED <<life, wait, masterVars, jobs, stops, unreported>>

(* submitCfSolution returned; the script may have found the bot corrupted. *)
SlaveReports(t, corrupted) ==
  /\ gor[t] = "busy"
  /\ Posted({Result(job[t])} \cup IF corrupted THEN {CorruptedBot} ELSE {})
  /\ gor' = [gor EXCEPT ![t] = "idle"]
  /\ job' = [job EXCEPT ![t] = None]
  /\ UNCHANGED <<life, wait, masterVars, jobs, stops, unreported>>

(* The deferred function posts the value recovered.  slaveBotError is an   *)
(* interface, so a Go runtime error among those values is taken for one.   *)
SlavePanics(t) ==
  /\ gor[t] = "busy"
  /\ Posted({Failed(t)}) \/ Posted({BotError(t, "other")})
  /\ gor' = [gor EXCEPT ![t] = "failed"]
  /\ unreported' = unreported \cup {job[t]}
  /\ job' = [job EXCEPT ![t] = None]
  /\ UNCHANGED <<life, wait, masterVars, jobs, stops>>

SlaveStops(t) ==
  /\ gor[t] = "idle"
  /\ t \in stops
  /\ stops' = stops \ {t}
  /\ gor' = [gor EXCEPT ![t] = "stopping"]
  /\ UNCHANGED <<life, wait, mails, masterVars, job, jobs, unreported>>

(* handleStopSignal rejects what has been delivered, without the id of the *)
(* submission, and returns.                                                *)
SlaveRejects(t, s) ==
  /\ gor[t] = "stopping"
  /\ Job(t, s) \in BagToSet(jobs)
  /\ jobs' = jobs (-) SetToBag({Job(t, s)})
  /\ Posted({Result(None)})
  /\ unreported' = unreported \cup {s}
  /\ UNCHANGED <<life, wait, masterVars, gor, job, stops>>

SlaveStopped(t) ==
  /\ gor[t] = "stopping"
  /\ gor' = [gor EXCEPT ![t] = "stopped"]
  /\ UNCHANGED <<life, wait, mails, masterVars, job, jobs, stops, unreported>>

-----------------------------------------------------------------------------
(* The master's handlers.                                                  *)

LeastBusy(t) == t \in slaves /\ \A u \in slaves : numActSubs[t] <= numActSubs[u]

(* Mutant of HandleRequest: a submission under way is routed once more.    *)
HandleRequestAgain(s) ==
  /\ Handling(Request(s))
  /\ IF slaves = {}
       THEN UNCHANGED <<numActSubs, activeSubmissions, jobs>>
       ELSE \E t \in slaves :
              /\ LeastBusy(t)
              /\ numActSubs' = [numActSubs EXCEPT ![t] = @ + 1]
              /\ activeSubmissions' = [activeSubmissions EXCEPT ![s] = t]
              /\ jobs' = jobs (+) SetToBag({Job(t, s)})
  /\ UNCHANGED <<life, wait, slaves, pendingSlaves, killedSlaves, bots, crashed,
                 gor, job, stops, unreported>>

(* A request is ignored while the slave it was routed to is there, and     *)
(* refused, which only its watcher sees, while there is no slave.          *)
HandleRequest(s) ==
  /\ Handling(Request(s))
  /\ IF activeSubmissions[s] \in slaves \/ slaves = {}
       THEN UNCHANGED <<numActSubs, activeSubmissions, jobs>>
       ELSE \E t \in slaves :
              /\ LeastBusy(t)
              /\ numActSubs' = [numActSubs EXCEPT ![t] = @ + 1]
              /\ activeSubmissions' = [activeSubmissions EXCEPT ![s] = t]
              /\ jobs' = jobs (+) SetToBag({Job(t, s)})
  /\ UNCHANGED <<life, wait, slaves, pendingSlaves, killedSlaves, bots, crashed,
                 gor, job, stops, unreported>>

(* A result without an entry is only logged.  One of a slave that has left *)
(* the inventory makes the warning dereference a nil slave.                *)
HandleResult(s) ==
  /\ Handling(Result(s))
  /\ IF s = None \/ activeSubmissions[s] = None
       THEN UNCHANGED <<numActSubs, activeSubmissions, crashed>>
       ELSE LET t == activeSubmissions[s]
            IN  /\ activeSubmissions' = [activeSubmissions EXCEPT ![s] = None]
                /\ IF t \in slaves
                     THEN /\ numActSubs' = [numActSubs EXCEPT ![t] = @ - 1]
                          /\ UNCHANGED crashed
                     ELSE /\ crashed' = TRUE
                          /\ UNCHANGED numActSubs
  /\ UNCHANGED <<life, wait, slaves, pendingSlaves, killedSlaves, bots, slaveVars>>

(* The error in the scheduler's answer is not looked at.                   *)
HandleTaskLaunch(t) ==
  /\ Handling(TaskLaunch(t))
  /\ wait' = [wait EXCEPT ![t] = IF t \in pendingSlaves THEN "on" ELSE @]
  /\ UNCHANGED <<life, masterVars, slaveVars>>

(* Mutant of HandleReady: it is not asked whether the slave still pends.   *)
HandleReadyAlways(t, ok) ==
  /\ Handling(Ready(t, ok))
  /\ IF ok
       THEN /\ slaves' = slaves \cup {t}
            /\ pendingSlaves' = pendingSlaves \ {t}
            /\ numActSubs' = [numActSubs EXCEPT ![t] = 0]
            /\ gor' = [gor EXCEPT ![t] = "idle"]
       ELSE UNCHANGED <<slaves, pendingSlaves, numActSubs, gor>>
  /\ UNCHANGED <<life, wait, killedSlaves, activeSubmissions, bots, crashed,
                 job, jobs, stops, unreported>>

(* A ready slave that still pends starts its mail loop; one that failed to *)
(* get ready is left pending.                                              *)
HandleReady(t, ok) ==
  /\ Handling(Ready(t, ok))
  /\ IF ok /\ t \in pendingSlaves
       THEN /\ slaves' = slaves \cup {t}
            /\ pendingSlaves' = pendingSlaves \ {t}
            /\ numActSubs' = [numActSubs EXCEPT ![t] = 0]
            /\ gor' = [gor EXCEPT ![t] = "idle"]
       ELSE UNCHANGED <<slaves, pendingSlaves, numActSubs, gor>>
  /\ UNCHANGED <<life, wait, killedSlaves, activeSubmissions, bots, crashed,
                 job, jobs, stops, unreported>>

(* The slave is in the inventory, among the killed or pending: the first   *)
(* two are told to stop, and its waitForNyxScrReady is cancelled.          *)
HandleDead(t) ==
  /\ Handling(Dead(t))
  /\ slaves' = slaves \ {t}
  /\ killedSlaves' = killedSlaves \ {t}
  /\ pendingSlaves' = pendingSlaves \ {t}
  /\ stops' = IF t \in slaves \cup killedSlaves THEN stops \cup {t} ELSE stops
  /\ wait' = [wait EXCEPT ![t] = IF t \in pendingSlaves /\ @ = "on" THEN "over" ELSE @]
  /\ UNCHANGED <<life, numActSubs, activeSubmissions, bots, crashed,
                 gor, job, jobs, unreported>>

(* Mutant of KillSlaves: the inventory is not rebuilt.                     *)
KillSlavesListed(V) ==
  /\ stops' = stops \cup V
  /\ killedSlaves' = killedSlaves \cup V
  /\ slaves' = slaves

(* Each of the slaves V is told to stop and leaves the inventory.  KillTask *)
(* fails only for an id it does not know, and has nothing to do for a task *)
(* that has ended, so a dead slave whose death is not handled moves too.   *)
KillSlaves(V) ==
  /\ stops' = stops \cup V
  /\ slaves' = slaves \ V
  /\ killedSlaves' = killedSlaves \cup V

KillLeastBusy(num) ==
  \E V \in SUBSET slaves :
    /\ Cardinality(V) = num
    /\ \A v \in V, u \in slaves \ V : numActSubs[v] <= numActSubs[u]
    /\ KillSlaves(V)

LoadCap(n) == IF n < (bots + 1) \div 2 THEN n ELSE (bots + 1) \div 2
LoadMin(n) == IF LoadCap(n) > 1 THEN LoadCap(n) ELSE 1
Total == Cardinality(slaves) + Cardinality(pendingSlaves)

(* Mutant of StartSlaves: pending slaves do not count.                     *)
StartSlavesAnyway(n) ==
  \E S \in SUBSET {t \in Tasks : life[t] = "unknown"} :
    /\ IF Cardinality(slaves) < LoadMin(n)
         THEN Cardinality(S) <= LoadMin(n) - Cardinality(slaves) ELSE S = {}
    /\ Schedule(S)
    /\ pendingSlaves' = pendingSlaves \cup S

(* startSlave as often as slaves are missing; any of the calls may fail.   *)
StartSlaves(n) ==
  \E S \in SUBSET {t \in Tasks : life[t] = "unknown"} :
    /\ IF Total < LoadMin(n)
         THEN Cardinality(S) <= LoadMin(n) - Total ELSE S = {}
    /\ Schedule(S)
    /\ pendingSlaves' = pendingSlaves \cup S

(* One slave too many is taken for noise.                                  *)
KillSurplus(n) ==
  IF Cardinality(slaves) > LoadCap(n) + 1
    THEN KillLeastBusy(Cardinality(slaves) - LoadMin(n))
    ELSE UNCHANGED <<slaves, killedSlaves, stops>>

HandleLoadReport(n) ==
  /\ Handling(LoadReport(n))
  /\ StartSlaves(n)
  /\ KillSurplus(n)
  /\ UNCHANGED <<wait, numActSubs, activeSubmissions, bots, crashed,
                 gor, job, jobs, unreported>>

(* What a slave without bots leads to: a new distribution, which is the    *)
(* bot manager's affair, a stop signal or the end of slaves.  A slave with *)
(* any other error is killed.                                              *)
BotErrorEnds(t, err) ==
  CASE err = "notFound" ->
         /\ stops' = IF t \in slaves THEN stops ELSE stops \cup {t}
         /\ UNCHANGED <<slaves, killedSlaves>>
    [] err = "noBots" ->
         IF bots >= Cardinality(slaves) \/ Cardinality(slaves) = 1
           THEN UNCHANGED <<slaves, killedSlaves, stops>>
           ELSE KillLeastBusy(Cardinality(slaves) - bots)
    [] err = "other" ->
         IF t \in slaves THEN KillSlaves({t})
                         ELSE UNCHANGED <<slaves, killedSlaves, stops>>

HandleBotError(t, err) ==
  /\ Handling(BotError(t, err))
  /\ BotErrorEnds(t, err)
  /\ UNCHANGED <<life, wait, pendingSlaves, numActSubs, activeSubmissions, bots,
                 crashed, gor, job, jobs, unreported>>

(* start() of a slave of the inventory, whose loop is over.                *)
HandleFailed(t) ==
  /\ Handling(Failed(t))
  /\ gor' = [gor EXCEPT ![t] = IF t \in slaves /\ @ = "failed" THEN "idle" ELSE @]
  /\ UNCHANGED <<life, wait, masterVars, job, jobs, stops, unreported>>

(* The bots are read from the database, or that fails; a corrupted bot is  *)
(* removed if it is still known.                                           *)
HandleBots ==
  /\ \/ Handling(RefreshBots) /\ bots' \in 0..MaxBots
     \/ Handling(CorruptedBot) /\ bots' \in {bots, bots - 1} \cap Nat
  /\ UNCHANGED <<life, wait, slaves, numActSubs, pendingSlaves, killedSlaves,
                 activeSubmissions, crashed, slaveVars>>

-----------------------------------------------------------------------------
SlaveStep(t) ==
  \/ \E s \in Subs : SlaveLacksBot(t, s) \/ SlaveSubmits(t, s) \/ SlaveRejects(t, s)
  \/ \E corrupted \in BOOLEAN : SlaveReports(t, corrupted)
  \/ SlavePanics(t) \/ SlaveStops(t) \/ SlaveStopped(t)

Handle ==
  \/ \E s \in Subs : HandleRequest(s)
  \/ \E s \in Subs \cup {None} : HandleResult(s)
  \/ \E t \in Tasks :
       \/ HandleTaskLaunch(t) \/ HandleDead(t) \/ HandleFailed(t)
       \/ \E ok \in BOOLEAN : HandleReady(t, ok)
       \/ \E err \in BotErrors : HandleBotError(t, err)
  \/ \E n \in 0..MaxBots : HandleLoadReport(n)
  \/ HandleBots

Next ==
  /\ ~ crashed
  /\ \/ Post
     \/ Handle
     \/ \E t \in Tasks :
          \/ TaskAnswered(t) \/ TaskEnded(t)
          \/ \E ok \in BOOLEAN : ScriptReady(t, ok)
          \/ SlaveStep(t)

Spec == Init /\ [][Next]_vars
=============================================================================
