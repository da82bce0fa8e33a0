------------------------------ MODULE NyxProofs ------------------------------
(* Proofs about the nyx master for any tasks, submissions and numbers of   *)
(* bots.                                                                   *)
EXTENDS NyxProperties, FiniteSetTheorems, TLAPS

(* What is in a bag after some mails were added or one was taken.          *)
LEMMA PostedBag ==
  ASSUME NEW b, IsABag(b), NEW S
  PROVE  /\ IsABag(b (+) SetToBag(S))
         /\ BagToSet(b (+) SetToBag(S)) = BagToSet(b) \cup S
BY DEF IsABag, SetToBag, BagToSet, (+)

LEMMA TakenBag ==
  ASSUME NEW b, IsABag(b), NEW m \in BagToSet(b)
  PROVE  /\ IsABag(b (-) SetToBag({m}))
         /\ BagToSet(b (-) SetToBag({m})) \subseteq BagToSet(b)
         /\ \A k \in BagToSet(b) : k # m => k \in BagToSet(b (-) SetToBag({m}))
BY DEF IsABag, SetToBag, BagToSet, (-)

(* The two lemmas for the mails to the master.                             *)
LEMMA PostedMails ==
  ASSUME TypeOK, NEW S, Posted(S)
  PROVE  /\ IsABag(mails')
         /\ BagToSet(mails') = BagToSet(mails) \cup S
BY PostedBag DEF TypeOK, Posted

LEMMA HandledMails ==
  ASSUME TypeOK, NEW m, Handling(m)
  PROVE  /\ m \in BagToSet(mails)
         /\ IsABag(mails')
         /\ BagToSet(mails') \subseteq BagToSet(mails)
         /\ \A k \in BagToSet(mails) : k # m => k \in BagToSet(mails')
BY TakenBag DEF TypeOK, Handling, InTransit

(* Slaves leave the inventory for the killed ones.                         *)
LEMMA KilledFromSlaves ==
  ASSUME \/ \E t \in Tasks, err \in BotErrors : HandleBotError(t, err)
         \/ \E n \in 0..MaxBots : HandleLoadReport(n)
  PROVE  \E K \in SUBSET slaves :
           slaves' = slaves \ K /\ killedSlaves' = killedSlaves \cup K
<1> DEFINE Kill == \E K \in SUBSET slaves :
                     slaves' = slaves \ K /\ killedSlaves' = killedSlaves \cup K
<1>1. ASSUME NEW V \in SUBSET slaves, KillSlaves(V) PROVE Kill
  BY <1>1 DEF KillSlaves
<1>2. ASSUME UNCHANGED <<slaves, killedSlaves>> PROVE Kill
  <2>1. slaves' = slaves \ {} /\ killedSlaves' = killedSlaves \cup {}
    BY <1>2
  <2>2. QED
    BY <2>1
<1> HIDE DEF Kill
<1>3. ASSUME NEW num, KillLeastBusy(num) PROVE Kill
  BY <1>1, <1>3 DEF KillLeastBusy
<1>4. ASSUME NEW t \in Tasks, NEW err \in BotErrors, HandleBotError(t, err) PROVE Kill
  <2>1. CASE err = "notFound"
    BY <1>2, <1>4, <2>1 DEF HandleBotError, BotErrorEnds
  <2>2. CASE err = "noBots"
    BY <1>2, <1>3, <1>4, <2>2 DEF HandleBotError, BotErrorEnds
  <2>3. CASE err = "other"
    BY <1>1, <1>2, <1>4, <2>3 DEF HandleBotError, BotErrorEnds
  <2>4. QED
    BY <2>1, <2>2, <2>3 DEF BotErrors
<1>5. ASSUME NEW n \in 0..MaxBots, HandleLoadReport(n) PROVE Kill
  BY <1>2, <1>3, <1>5 DEF HandleLoadReport, KillSurplus
<1>6. QED
  BY <1>4, <1>5 DEF Kill

-----------------------------------------------------------------------------
(* Types: the mails on their own, the rest action by action.               *)
MailsOK == IsABag(mails) /\ BagToSet(mails) \subseteq Mail

LEMMA MailTypes ==
  ASSUME TypeOK, [Next]_vars
  PROVE  MailsOK'
<1>1. MailsOK
  BY DEF TypeOK, MailsOK
<1>2. ASSUME NEW m, Handling(m) PROVE MailsOK'
  BY <1>1, <1>2, HandledMails DEF MailsOK
<1>3. ASSUME NEW S \in SUBSET Mail, Posted(S) PROVE MailsOK'
  BY <1>1, <1>3, PostedMails DEF MailsOK
<1>4. ASSUME UNCHANGED mails PROVE MailsOK'
  BY <1>1, <1>4 DEF MailsOK
<1>5. CASE Post
  <2>1. \A s \in Subs : {Request(s)} \subseteq Mail
    BY DEF Mail
  <2>2. \A n \in 0..MaxBots : {LoadReport(n)} \subseteq Mail
    BY DEF Mail
  <2>3. {RefreshBots} \subseteq Mail
    BY DEF Mail
  <2>4. QED
    BY <1>3, <1>5, <2>1, <2>2, <2>3 DEF Post
<1>6. CASE Handle
  BY <1>2, <1>6 DEF Handle, HandleRequest, HandleResult, HandleTaskLaunch, HandleDead,
       HandleFailed, HandleReady, HandleBotError, HandleLoadReport, HandleBots
<1>7. ASSUME NEW t \in Tasks, TaskAnswered(t) \/ TaskEnded(t) PROVE MailsOK'
  <2>1. {TaskLaunch(t)} \subseteq Mail /\ {Dead(t)} \subseteq Mail
    BY DEF Mail
  <2>2. QED
    BY <1>3, <1>7, <2>1 DEF TaskAnswered, TaskEnded
<1>8. ASSUME NEW t \in Tasks, NEW ok \in BOOLEAN, ScriptReady(t, ok) PROVE MailsOK'
  <2>1. {Ready(t, ok)} \subseteq Mail
    BY DEF Mail
  <2>2. QED
    BY <1>3, <1>8, <2>1 DEF ScriptReady
<1>9. ASSUME NEW t \in Tasks, SlaveStep(t) PROVE MailsOK'
  <2>1. ASSUME NEW s \in Subs, SlaveLacksBot(t, s) PROVE MailsOK'
    <3>1. PICK err \in {"notFound", "noBots"} : Posted({BotError(t, err), Result(s)})
      BY <2>1 DEF SlaveLacksBot
    <3>2. {BotError(t, err), Result(s)} \subseteq Mail
      BY DEF Mail, BotErrors
    <3>3. QED
      BY <1>3, <3>1, <3>2
  <2>2. ASSUME NEW s \in Subs, SlaveSubmits(t, s) PROVE MailsOK'
    BY <1>4, <2>2 DEF SlaveSubmits
  <2>3. ASSUME NEW s \in Subs, SlaveRejects(t, s) PROVE MailsOK'
    <3>1. {Result(None)} \subseteq Mail
      BY DEF Mail
    <3>2. QED
      BY <1>3, <2>3, <3>1 DEF SlaveRejects
  <2>4. ASSUME NEW corrupted \in BOOLEAN, SlaveReports(t, corrupted) PROVE MailsOK'
    <3>1. job[t] \in Subs \cup {None}
      BY DEF TypeOK
    <3>2. {Result(job[t])} \subseteq Mail /\ {CorruptedBot} \subseteq Mail
      BY <3>1 DEF Mail
    <3>3. {Result(job[t])} \cup (IF corrupted THEN {CorruptedBot} ELSE {}) \subseteq Mail
      BY <3>2
    <3>4. QED
      BY <1>3, <2>4, <3>3 DEF SlaveReports
  <2>5. CASE SlavePanics(t)
    <3>1. {Failed(t)} \subseteq Mail /\ {BotError(t, "other")} \subseteq Mail
      BY DEF Mail, BotErrors
    <3>2. QED
      BY <1>3, <2>5, <3>1 DEF SlavePanics
  <2>6. CASE SlaveStops(t) \/ SlaveStopped(t)
    BY <1>4, <2>6 DEF SlaveStops, SlaveStopped
  <2>7. QED
    BY <1>9, <2>1, <2>2, <2>3, <2>4, <2>5, <2>6 DEF SlaveStep
<1>10. CASE UNCHANGED vars
  BY <1>4, <1>10 DEF vars
<1>11. QED
  BY <1>5, <1>6, <1>7, <1>8, <1>9, <1>10 DEF Next

JobsOK == IsABag(jobs) /\ BagToSet(jobs) \subseteq {Job(t, s) : t \in Tasks, s \in Subs}
LoopsOK ==
  /\ gor \in [Tasks -> {"none", "idle", "busy", "failed", "stopping", "stopped"}]
  /\ job \in [Tasks -> Subs \cup {None}]
  /\ \A t \in Tasks : job[t] # None <=> gor[t] = "busy"
MasterOK ==
  /\ slaves \in SUBSET Tasks
  /\ numActSubs \in [Tasks -> Int]
  /\ pendingSlaves \in SUBSET Tasks
  /\ killedSlaves \in SUBSET Tasks
  /\ activeSubmissions \in [Subs -> Tasks \cup {None}]
  /\ bots \in 0..MaxBots
  /\ crashed \in BOOLEAN
OtherOK ==
  /\ life \in [Tasks -> Lives]
  /\ wait \in [Tasks -> {"no", "on", "over"}]
  /\ stops \in SUBSET Tasks
  /\ unreported \in SUBSET Subs

LEMMA JobTypes ==
  ASSUME TypeOK, [Next]_vars
  PROVE  JobsOK'
<1>1. JobsOK
  BY DEF TypeOK, JobsOK
<1>2. ASSUME UNCHANGED jobs PROVE JobsOK'
  BY <1>1, <1>2 DEF JobsOK
<1>3. ASSUME NEW t \in Tasks, NEW s \in Subs, SlaveTakes(t, s) \/ SlaveRejects(t, s)
      PROVE  JobsOK'
  <2>1. Job(t, s) \in BagToSet(jobs) /\ jobs' = jobs (-) SetToBag({Job(t, s)})
    BY <1>3 DEF SlaveTakes, SlaveRejects
  <2>2. QED
    BY <1>1, <2>1, TakenBag DEF JobsOK
<1>4. ASSUME NEW s \in Subs, HandleRequest(s) PROVE JobsOK'
  <2>1. ASSUME NEW t \in Tasks, jobs' = jobs (+) SetToBag({Job(t, s)}) PROVE JobsOK'
    <3>1. IsABag(jobs') /\ BagToSet(jobs') = BagToSet(jobs) \cup {Job(t, s)}
      BY <1>1, <2>1, PostedBag DEF JobsOK
    <3>2. QED
      BY <1>1, <3>1 DEF JobsOK
  <2>2. slaves \subseteq Tasks
    BY DEF TypeOK
  <2>3. UNCHANGED jobs \/ \E t \in slaves : jobs' = jobs (+) SetToBag({Job(t, s)})
    BY <1>4 DEF HandleRequest
  <2>4. QED
    BY <1>2, <2>1, <2>2, <2>3
<1>5. CASE Handle
  BY <1>2, <1>4, <1>5 DEF Handle, HandleResult, HandleTaskLaunch, HandleDead, HandleFailed,
       HandleReady, HandleBotError, HandleLoadReport, HandleBots, slaveVars
<1>6. ASSUME NEW t \in Tasks, SlaveStep(t) PROVE JobsOK'
  BY <1>2, <1>3, <1>6 DEF SlaveStep, SlaveLacksBot, SlaveSubmits, SlaveReports,
       SlavePanics, SlaveStops, SlaveStopped
<1>7. QED
  BY <1>2, <1>5, <1>6 DEF Next, Post, TaskAnswered, TaskEnded, ScriptReady, slaveVars, vars

LEMMA LoopTypes ==
  ASSUME TypeOK, NotBefore, [Next]_vars
  PROVE  LoopsOK'
<1>1. LoopsOK
  BY DEF TypeOK, LoopsOK
<1>2. ASSUME UNCHANGED <<gor, job>> PROVE LoopsOK'
  BY <1>1, <1>2 DEF LoopsOK
<1>3. CASE Handle
  <2>1. ASSUME NEW t \in Tasks, HandleFailed(t) PROVE LoopsOK'
    BY <1>1, <2>1 DEF LoopsOK, HandleFailed
  <2>2. ASSUME NEW t \in Tasks, NEW ok \in BOOLEAN, HandleReady(t, ok)
        PROVE  LoopsOK'
    <3>1. t \in pendingSlaves => gor[t] = "none"
      BY DEF NotBefore
    <3>2. QED
      BY <1>1, <2>2, <3>1 DEF LoopsOK, HandleReady
  <2>3. QED
    BY <1>2, <1>3, <2>1, <2>2 DEF Handle, HandleRequest, HandleResult, HandleTaskLaunch,
         HandleDead, HandleBotError, HandleLoadReport, HandleBots, slaveVars
<1>4. ASSUME NEW t \in Tasks, SlaveStep(t) PROVE LoopsOK'
  <2>1. ASSUME NEW s \in Subs, SlaveSubmits(t, s) PROVE LoopsOK'
    BY <1>1, <2>1, MasterAssumption DEF LoopsOK, SlaveSubmits, SlaveTakes
  <2>2. ASSUME NEW corrupted \in BOOLEAN, SlaveReports(t, corrupted) PROVE LoopsOK'
    BY <1>1, <2>2 DEF LoopsOK, SlaveReports
  <2>3. CASE SlavePanics(t)
    BY <1>1, <2>3 DEF LoopsOK, SlavePanics
  <2>4. CASE SlaveStops(t) \/ SlaveStopped(t)
    BY <1>1, <2>4 DEF LoopsOK, SlaveStops, SlaveStopped
  <2>5. ASSUME NEW s \in Subs, SlaveLacksBot(t, s) \/ SlaveRejects(t, s) PROVE LoopsOK'
    BY <1>2, <2>5 DEF SlaveLacksBot, SlaveRejects
  <2>6. QED
    BY <1>4, <2>1, <2>2, <2>3, <2>4, <2>5 DEF SlaveStep
<1>5. QED
  BY <1>2, <1>3, <1>4 DEF Next, Post, TaskAnswered, TaskEnded, ScriptReady, slaveVars, vars

LEMMA MasterTypes ==
  ASSUME TypeOK, [Next]_vars
  PROVE  MasterOK'
<1>1. MasterOK
  BY DEF TypeOK, MasterOK
<1>2. ASSUME UNCHANGED masterVars PROVE MasterOK'
  BY <1>1, <1>2 DEF MasterOK, masterVars
<1>3. ASSUME NEW s \in Subs, HandleRequest(s) PROVE MasterOK'
  <2>1. CASE activeSubmissions[s] \in slaves \/ slaves = {}
    BY <1>2, <1>3, <2>1 DEF HandleRequest, masterVars
  <2>2. CASE ~ (activeSubmissions[s] \in slaves \/ slaves = {})
    <3>1. PICK t \in slaves :
            /\ numActSubs' = [numActSubs EXCEPT ![t] = @ + 1]
            /\ activeSubmissions' = [activeSubmissions EXCEPT ![s] = t]
      BY <1>3, <2>2 DEF HandleRequest
    <3>2. numActSubs' \in [Tasks -> Int]
      BY <1>1, <3>1 DEF MasterOK
    <3>3. activeSubmissions' \in [Subs -> Tasks \cup {None}]
      BY <1>1, <3>1 DEF MasterOK
    <3>4. UNCHANGED <<slaves, pendingSlaves, killedSlaves, bots, crashed>>
      BY <1>3 DEF HandleRequest
    <3>5. QED
      BY <1>1, <3>2, <3>3, <3>4 DEF MasterOK
  <2>3. QED
    BY <2>1, <2>2
<1>4. ASSUME NEW s \in Subs \cup {None}, HandleResult(s) PROVE MasterOK'
  <2>1. CASE s = None \/ activeSubmissions[s] = None
    BY <1>2, <1>4, <2>1 DEF HandleResult, masterVars
  <2>2. CASE ~ (s = None \/ activeSubmissions[s] = None)
    <3>1. s \in Subs /\ activeSubmissions[s] \in Tasks
      BY <1>1, <2>2 DEF MasterOK
    <3>2. /\ activeSubmissions' = [activeSubmissions EXCEPT ![s] = None]
          /\ \/ /\ numActSubs' = [numActSubs EXCEPT ![activeSubmissions[s]] = @ - 1]
                /\ UNCHANGED crashed
             \/ crashed' = TRUE /\ UNCHANGED numActSubs
          /\ UNCHANGED <<slaves, pendingSlaves, killedSlaves, bots>>
      BY <1>4, <2>2 DEF HandleResult
    <3>3. numActSubs' \in [Tasks -> Int]
      BY <1>1, <3>1, <3>2 DEF MasterOK
    <3>4. activeSubmissions' \in [Subs -> Tasks \cup {None}]
      BY <1>1, <3>1, <3>2 DEF MasterOK
    <3>5. crashed' \in BOOLEAN
      BY <1>1, <3>2 DEF MasterOK
    <3>6. QED
      BY <1>1, <3>2, <3>3, <3>4, <3>5 DEF MasterOK
  <2>3. QED
    BY <2>1, <2>2
<1>5. ASSUME NEW t \in Tasks, HandleTaskLaunch(t) \/ HandleFailed(t) PROVE MasterOK'
  BY <1>2, <1>5 DEF HandleTaskLaunch, HandleFailed
<1>6. ASSUME NEW t \in Tasks, HandleDead(t) PROVE MasterOK'
  BY <1>1, <1>6 DEF MasterOK, HandleDead
<1>7. ASSUME NEW t \in Tasks, NEW ok \in BOOLEAN, HandleReady(t, ok) PROVE MasterOK'
  BY <1>1, <1>7 DEF MasterOK, HandleReady
<1>8. ASSUME NEW t \in Tasks, NEW err \in BotErrors, HandleBotError(t, err) PROVE MasterOK'
  <2>1. slaves' \subseteq slaves /\ killedSlaves' \subseteq killedSlaves \cup slaves
    BY <1>8, KilledFromSlaves
  <2>2. QED
    BY <1>1, <1>8, <2>1 DEF MasterOK, HandleBotError
<1>9. ASSUME NEW n \in 0..MaxBots, HandleLoadReport(n) PROVE MasterOK'
  <2>1. slaves' \subseteq slaves /\ killedSlaves' \subseteq killedSlaves \cup slaves
    BY <1>9, KilledFromSlaves
  <2>2. pendingSlaves' \subseteq Tasks
    BY <1>1, <1>9 DEF MasterOK, HandleLoadReport, StartSlaves
  <2>3. QED
    BY <1>1, <1>9, <2>1, <2>2 DEF MasterOK, HandleLoadReport
<1>10. CASE HandleBots
  BY <1>1, <1>10, MasterAssumption DEF MasterOK, HandleBots
<1>11. ASSUME NEW t \in Tasks, SlaveStep(t) PROVE MasterOK'
  BY <1>2, <1>11 DEF SlaveStep, SlaveLacksBot, SlaveSubmits, SlaveRejects, SlaveReports,
       SlavePanics, SlaveStops, SlaveStopped
<1>12. QED
  BY <1>2, <1>3, <1>4, <1>5, <1>6, <1>7, <1>8, <1>9, <1>10, <1>11
  DEF Next, Handle, Post, TaskAnswered, TaskEnded, ScriptReady, vars

LEMMA OtherTypes ==
  ASSUME TypeOK, [Next]_vars
  PROVE  OtherOK'
<1>1. OtherOK /\ job \in [Tasks -> Subs \cup {None}] /\ slaves \subseteq Tasks
      /\ killedSlaves \subseteq Tasks
  BY DEF TypeOK, OtherOK
<1>2. ASSUME UNCHANGED <<life, wait, stops, unreported>> PROVE OtherOK'
  BY <1>1, <1>2 DEF OtherOK
<1>3. CASE Post \/ UNCHANGED vars
  BY <1>2, <1>3 DEF Post, slaveVars, vars
<1>4. ASSUME NEW t \in Tasks, TaskAnswered(t) \/ TaskEnded(t) PROVE OtherOK'
  BY <1>1, <1>4 DEF OtherOK, TaskAnswered, TaskEnded, Launched, Refused, Ended, Lives,
       slaveVars
<1>5. ASSUME NEW t \in Tasks, NEW ok \in BOOLEAN, ScriptReady(t, ok) PROVE OtherOK'
  BY <1>1, <1>5 DEF OtherOK, ScriptReady, slaveVars
<1>6. ASSUME NEW t \in Tasks, SlaveStep(t) PROVE OtherOK'
  <2>1. CASE SlavePanics(t)
    <3>1. job[t] \in Subs
      BY <2>1 DEF TypeOK, SlavePanics
    <3>2. QED
      BY <1>1, <2>1, <3>1 DEF OtherOK, SlavePanics
  <2>2. CASE SlaveStops(t)
    BY <1>1, <2>2 DEF OtherOK, SlaveStops
  <2>3. ASSUME NEW s \in Subs, SlaveRejects(t, s) PROVE OtherOK'
    BY <1>1, <2>3 DEF OtherOK, SlaveRejects
  <2>4. QED
    BY <1>2, <1>6, <2>1, <2>2, <2>3 DEF SlaveStep, SlaveLacksBot, SlaveSubmits,
         SlaveReports, SlaveStopped
<1>7. ASSUME NEW V \in SUBSET slaves, KillSlaves(V) PROVE stops' \in SUBSET Tasks
  BY <1>1, <1>7 DEF KillSlaves, OtherOK
<1>8. CASE Handle
  <2>1. ASSUME NEW t \in Tasks, HandleTaskLaunch(t) \/ HandleDead(t) PROVE OtherOK'
    BY <1>1, <2>1 DEF OtherOK, HandleTaskLaunch, HandleDead, slaveVars
  <2>2. ASSUME NEW t \in Tasks, NEW err \in BotErrors, HandleBotError(t, err) PROVE OtherOK'
    <3>1. stops' \in SUBSET Tasks
      BY <1>1, <1>7, <2>2 DEF HandleBotError, BotErrorEnds, KillLeastBusy, BotErrors, OtherOK
    <3>2. QED
      BY <1>1, <2>2, <3>1 DEF OtherOK, HandleBotError
  <2>3. ASSUME NEW n \in 0..MaxBots, HandleLoadReport(n) PROVE OtherOK'
    <3>1. stops' \in SUBSET Tasks
      BY <1>1, <1>7, <2>3 DEF HandleLoadReport, KillSurplus, KillLeastBusy, OtherOK
    <3>2. life' \in [Tasks -> Lives]
      BY <1>1, <2>3 DEF HandleLoadReport, StartSlaves, Schedule, Lives, OtherOK
    <3>3. QED
      BY <1>1, <2>3, <3>1, <3>2 DEF OtherOK, HandleLoadReport
  <2>4. QED
    BY <1>2, <1>8, <2>1, <2>2, <2>3 DEF Handle, HandleRequest, HandleResult, HandleFailed,
         HandleReady, HandleBots, slaveVars
<1>9. QED
  BY <1>3, <1>4, <1>5, <1>6, <1>8 DEF Next

LEMMA TypeStep ==
  ASSUME TypeOK, NotBefore, [Next]_vars
  PROVE  TypeOK'
BY MailTypes, JobTypes, LoopTypes, MasterTypes, OtherTypes
DEF TypeOK, MailsOK, JobsOK, LoopsOK, MasterOK, OtherOK

-----------------------------------------------------------------------------
(* The three lists, and what a task may be used for before it is ready.    *)
LEMMA ListsStep ==
  ASSUME TypeOK, NotBefore, OneList, [Next]_vars
  PROVE  NotBefore' /\ OneList'
<1> DEFINE Lists == <<slaves, pendingSlaves, killedSlaves>>
<1>1. /\ slaves \subseteq Tasks /\ pendingSlaves \subseteq Tasks /\ killedSlaves \subseteq Tasks
      /\ life \in [Tasks -> Lives]
      /\ activeSubmissions \in [Subs -> Tasks \cup {None}]
  BY DEF TypeOK
<1>2. ASSUME UNCHANGED <<life, gor, activeSubmissions>>, UNCHANGED Lists
      PROVE  NotBefore' /\ OneList'
  BY <1>2 DEF NotBefore, OneList, Known
<1>3. CASE Post \/ UNCHANGED vars
  BY <1>2, <1>3 DEF Post, vars, masterVars, slaveVars
<1>4. ASSUME NEW t \in Tasks, TaskAnswered(t) \/ TaskEnded(t)
      PROVE  NotBefore' /\ OneList'
  <2>1. \A u \in Tasks : life[u] # "unknown" => life'[u] # "unknown"
    BY <1>1, <1>4 DEF TaskAnswered, TaskEnded, Launched, Refused, Ended
  <2>2. UNCHANGED <<gor, activeSubmissions>> /\ UNCHANGED Lists
    BY <1>4 DEF TaskAnswered, TaskEnded, masterVars, slaveVars
  <2>3. QED
    BY <1>1, <2>1, <2>2 DEF NotBefore, OneList, Known
<1>5. ASSUME NEW t \in Tasks, NEW ok \in BOOLEAN, ScriptReady(t, ok)
      PROVE  NotBefore' /\ OneList'
  BY <1>2, <1>5 DEF ScriptReady, masterVars, slaveVars
<1>6. ASSUME NEW t \in Tasks, SlaveStep(t) PROVE NotBefore' /\ OneList'
  <2>1. /\ UNCHANGED <<life, activeSubmissions>> /\ UNCHANGED Lists
        /\ \A u \in Tasks : gor'[u] # "none" => gor[u] # "none"
    <3>1. gor \in [Tasks -> {"none", "idle", "busy", "failed", "stopping", "stopped"}]
      BY DEF TypeOK
    <3>2. QED
      BY <1>6, <3>1 DEF SlaveStep, SlaveLacksBot, SlaveSubmits, SlaveRejects, SlaveReports,
           SlavePanics, SlaveStops, SlaveStopped, SlaveTakes, masterVars
  <2>2. QED
    BY <1>1, <2>1 DEF NotBefore, OneList, Known
<1>7. ASSUME NEW s \in Subs, HandleRequest(s) PROVE NotBefore' /\ OneList'
  <2>1. CASE activeSubmissions[s] \in slaves \/ slaves = {}
    BY <1>2, <1>7, <2>1 DEF HandleRequest
  <2>2. CASE ~ (activeSubmissions[s] \in slaves \/ slaves = {})
    <3>1. PICK t \in slaves : activeSubmissions' = [activeSubmissions EXCEPT ![s] = t]
      BY <1>7, <2>2 DEF HandleRequest
    <3>2. UNCHANGED <<life, gor>> /\ UNCHANGED Lists
      BY <1>7 DEF HandleRequest
    <3>3. life[t] # "unknown" /\ t \notin pendingSlaves
      BY <3>1 DEF NotBefore, OneList, Known
    <3>4. QED
      BY <1>1, <3>1, <3>2, <3>3 DEF NotBefore, OneList, Known
  <2>3. QED
    BY <2>1, <2>2
<1>8. ASSUME NEW s \in Subs \cup {None}, HandleResult(s) PROVE NotBefore' /\ OneList'
  <2>1. UNCHANGED <<life, gor>> /\ UNCHANGED Lists
    BY <1>8 DEF HandleResult, slaveVars
  <2>2. \A r \in Subs : activeSubmissions'[r] \in {activeSubmissions[r], None}
    BY <1>1, <1>8 DEF HandleResult
  <2>3. QED
    BY <1>1, <2>1, <2>2 DEF NotBefore, OneList, Known
<1>9. ASSUME NEW t \in Tasks, HandleTaskLaunch(t) \/ HandleFailed(t)
      PROVE  NotBefore' /\ OneList'
  <2>1. /\ UNCHANGED <<life, activeSubmissions>> /\ UNCHANGED Lists
        /\ \A u \in Tasks : gor'[u] # "none" => gor[u] # "none"
    <3>1. gor \in [Tasks -> {"none", "idle", "busy", "failed", "stopping", "stopped"}]
      BY DEF TypeOK
    <3>2. QED
      BY <1>9, <3>1 DEF HandleTaskLaunch, HandleFailed, masterVars, slaveVars
  <2>2. QED
    BY <1>1, <2>1 DEF NotBefore, OneList, Known
<1>10. ASSUME NEW t \in Tasks, HandleDead(t) PROVE NotBefore' /\ OneList'
  BY <1>1, <1>10 DEF HandleDead, NotBefore, OneList, Known
<1>11. ASSUME NEW t \in Tasks, NEW ok \in BOOLEAN, HandleReady(t, ok)
       PROVE  NotBefore' /\ OneList'
  <2>1. CASE ok /\ t \in pendingSlaves
    <3>1. gor' = [gor EXCEPT ![t] = "idle"]
          /\ gor \in [Tasks -> {"none", "idle", "busy", "failed", "stopping", "stopped"}]
      BY <1>11, <2>1 DEF HandleReady, TypeOK
    <3>2. slaves' = slaves \cup {t} /\ pendingSlaves' = pendingSlaves \ {t}
      BY <1>11, <2>1 DEF HandleReady
    <3>3. UNCHANGED <<life, killedSlaves, activeSubmissions>>
      BY <1>11 DEF HandleReady
    <3>4. QED
      BY <1>1, <2>1, <3>1, <3>2, <3>3 DEF NotBefore, OneList, Known
  <2>2. CASE ~ (ok /\ t \in pendingSlaves)
    BY <1>2, <1>11, <2>2 DEF HandleReady
  <2>3. QED
    BY <2>1, <2>2
<1>12. ASSUME NEW t \in Tasks, NEW err \in BotErrors, HandleBotError(t, err)
       PROVE  NotBefore' /\ OneList'
  <2>1. PICK K \in SUBSET slaves :
          slaves' = slaves \ K /\ killedSlaves' = killedSlaves \cup K
    BY <1>12, KilledFromSlaves
  <2>2. UNCHANGED <<life, gor, pendingSlaves, activeSubmissions>>
    BY <1>12 DEF HandleBotError
  <2>3. QED
    BY <2>1, <2>2 DEF NotBefore, OneList, Known
<1>13. ASSUME NEW n \in 0..MaxBots, HandleLoadReport(n) PROVE NotBefore' /\ OneList'
  <2>1. PICK K \in SUBSET slaves :
          slaves' = slaves \ K /\ killedSlaves' = killedSlaves \cup K
    BY <1>13, KilledFromSlaves
  <2>2. PICK S \in SUBSET Tasks :
          /\ \A u \in S : life[u] = "unknown"
          /\ life' = [u \in Tasks |-> IF u \in S THEN "scheduled" ELSE life[u]]
          /\ pendingSlaves' = pendingSlaves \cup S
    BY <1>13 DEF HandleLoadReport, StartSlaves, Schedule
  <2>3. UNCHANGED <<gor, activeSubmissions>>
    BY <1>13 DEF HandleLoadReport
  <2>4. \A u \in Tasks : life'[u] = "unknown" => life[u] = "unknown" /\ u \notin S
    BY <2>2
  <2>5. OneList'
    BY <2>1, <2>2 DEF NotBefore, OneList, Known
  <2>6. NotBefore'
    BY <1>1, <2>1, <2>2, <2>3, <2>4 DEF NotBefore, Known
  <2>7. QED
    BY <2>5, <2>6
<1>14. CASE HandleBots
  BY <1>2, <1>14 DEF HandleBots, slaveVars
<1>15. QED
  BY <1>3, <1>4, <1>5, <1>6, <1>7, <1>8, <1>9, <1>10, <1>11, <1>12, <1>13, <1>14
  DEF Next, Handle

-----------------------------------------------------------------------------
(* The dead: a slave leaves the lists with the mail of its death.          *)
LEMMA GhostsStep ==
  ASSUME TypeOK, NotBefore, NoGhosts, [Next]_vars
  PROVE  NoGhosts'
<1>1. /\ slaves \subseteq Tasks /\ pendingSlaves \subseteq Tasks /\ killedSlaves \subseteq Tasks
      /\ life \in [Tasks -> Lives]
  BY DEF TypeOK
<1>2. ASSUME \A u \in Known' : u \in Known /\ (life'[u] = "ended" => life[u] = "ended"),
             \A u \in Known' : Dead(u) \in BagToSet(mails) => Dead(u) \in BagToSet(mails')
      PROVE  NoGhosts'
  BY <1>2 DEF NoGhosts, InTransit
<1>3. ASSUME NEW S, Posted(S) \/ UNCHANGED mails
      PROVE  BagToSet(mails) \subseteq BagToSet(mails')
  BY <1>3, PostedMails
<1>4. ASSUME NEW m, Handling(m), \A u \in Tasks : m # Dead(u)
      PROVE  \A u \in Tasks : Dead(u) \in BagToSet(mails) => Dead(u) \in BagToSet(mails')
  BY <1>4, HandledMails
<1>5. CASE Post \/ UNCHANGED vars
  <2>1. UNCHANGED <<life, slaves, pendingSlaves, killedSlaves>>
    BY <1>5 DEF Post, vars, masterVars
  <2>2. BagToSet(mails) \subseteq BagToSet(mails')
    BY <1>3, <1>5 DEF Post, vars
  <2>3. QED
    BY <1>2, <2>1, <2>2 DEF Known
<1>6. ASSUME NEW t \in Tasks, TaskAnswered(t) PROVE NoGhosts'
  <2>1. UNCHANGED <<slaves, pendingSlaves, killedSlaves>>
    BY <1>6 DEF TaskAnswered, masterVars
  <2>2. BagToSet(mails) \subseteq BagToSet(mails')
    BY <1>3, <1>6 DEF TaskAnswered
  <2>3. \A u \in Tasks : life'[u] = "ended" => life[u] = "ended"
    BY <1>1, <1>6 DEF TaskAnswered, Launched, Refused
  <2>4. QED
    BY <1>1, <1>2, <2>1, <2>2, <2>3 DEF Known
<1>7. ASSUME NEW t \in Tasks, TaskEnded(t) PROVE NoGhosts'
  <2>1. UNCHANGED <<slaves, pendingSlaves, killedSlaves>>
    BY <1>7 DEF TaskEnded, masterVars
  <2>2. BagToSet(mails') = BagToSet(mails) \cup {Dead(t)}
    BY <1>7, PostedMails DEF TaskEnded
  <2>3. \A u \in Tasks \ {t} : life'[u] = life[u]
    BY <1>1, <1>7 DEF TaskEnded, Ended
  <2>4. QED
    BY <1>1, <2>1, <2>2, <2>3 DEF NoGhosts, Known, InTransit
<1>8. ASSUME NEW t \in Tasks, NEW ok \in BOOLEAN, ScriptReady(t, ok) PROVE NoGhosts'
  <2>1. UNCHANGED <<life, slaves, pendingSlaves, killedSlaves>>
    BY <1>8 DEF ScriptReady, masterVars
  <2>2. BagToSet(mails) \subseteq BagToSet(mails')
    BY <1>3, <1>8 DEF ScriptReady
  <2>3. QED
    BY <1>2, <2>1, <2>2 DEF Known
<1>9. ASSUME NEW t \in Tasks, SlaveStep(t) PROVE NoGhosts'
  <2>1. UNCHANGED <<life, slaves, pendingSlaves, killedSlaves>>
    BY <1>9 DEF SlaveStep, SlaveLacksBot, SlaveSubmits, SlaveRejects, SlaveReports,
         SlavePanics, SlaveStops, SlaveStopped, masterVars
  <2>2. BagToSet(mails) \subseteq BagToSet(mails')
    BY <1>3, <1>9 DEF SlaveStep, SlaveLacksBot, SlaveSubmits, SlaveRejects, SlaveReports,
         SlavePanics, SlaveStops, SlaveStopped
  <2>3. QED
    BY <1>2, <2>1, <2>2 DEF Known
<1>10. ASSUME NEW t \in Tasks, HandleDead(t) PROVE NoGhosts'
  <2>1. Known' = Known \ {t} /\ UNCHANGED life
    BY <1>10 DEF HandleDead, Known
  <2>2. \A u \in Known' : Dead(u) # Dead(t)
    BY <2>1 DEF Dead
  <2>3. \A u \in Known' : Dead(u) \in BagToSet(mails) => Dead(u) \in BagToSet(mails')
    BY <1>10, <2>2, HandledMails DEF HandleDead
  <2>4. QED
    BY <1>2, <2>1, <2>3
<1>11. ASSUME NEW m, Handling(m), \A u \in Tasks : m # Dead(u),
              Known' \subseteq Known, UNCHANGED life
       PROVE  NoGhosts'
  <2>1. Known' \subseteq Tasks
    BY <1>1, <1>11 DEF Known
  <2>2. QED
    BY <1>2, <1>4, <1>11, <2>1
<1>12. ASSUME NEW t \in Tasks, NEW ok \in BOOLEAN, HandleReady(t, ok) PROVE NoGhosts'
  <2>1. Handling(Ready(t, ok)) /\ \A u \in Tasks : Ready(t, ok) # Dead(u)
    BY <1>12 DEF HandleReady, Ready, Dead
  <2>2. Known' \subseteq Known /\ UNCHANGED life
    BY <1>12 DEF HandleReady, Known
  <2>3. QED
    BY <1>11, <2>1, <2>2
<1>13. ASSUME NEW t \in Tasks, NEW err \in BotErrors, HandleBotError(t, err) PROVE NoGhosts'
  <2>1. Handling(BotError(t, err)) /\ \A u \in Tasks : BotError(t, err) # Dead(u)
    BY <1>13 DEF HandleBotError, BotError, Dead
  <2>2. Known' \subseteq Known /\ UNCHANGED life
    BY <1>13, KilledFromSlaves DEF HandleBotError, Known
  <2>3. QED
    BY <1>11, <2>1, <2>2
<1>14. ASSUME NEW n \in 0..MaxBots, HandleLoadReport(n) PROVE NoGhosts'
  <2>1. PICK S \in SUBSET Tasks :
          /\ life' = [u \in Tasks |-> IF u \in S THEN "scheduled" ELSE life[u]]
          /\ pendingSlaves' = pendingSlaves \cup S
    BY <1>14 DEF HandleLoadReport, StartSlaves, Schedule
  <2>2. Known' \subseteq Known \cup S
    BY <1>14, <2>1, KilledFromSlaves DEF Known
  <2>3. Known' \subseteq Tasks
    BY <1>1, <2>2 DEF Known
  <2>4. \A u \in Tasks : Dead(u) \in BagToSet(mails) => Dead(u) \in BagToSet(mails')
    <3>1. Handling(LoadReport(n)) /\ \A u \in Tasks : LoadReport(n) # Dead(u)
      BY <1>14 DEF HandleLoadReport, LoadReport, Dead
    <3>2. QED
      BY <1>4, <3>1
  <2>5. \A u \in Tasks : life'[u] = "ended" => life[u] = "ended" /\ u \notin S
    BY <2>1
  <2>6. QED
    BY <2>2, <2>3, <2>4, <2>5 DEF NoGhosts, InTransit
<1>15. CASE \/ \E s \in Subs : HandleRequest(s)
            \/ \E s \in Subs \cup {None} : HandleResult(s)
            \/ \E t \in Tasks : HandleTaskLaunch(t) \/ HandleFailed(t)
            \/ HandleBots
  <2>1. UNCHANGED <<life, slaves, pendingSlaves, killedSlaves>>
    BY <1>15 DEF HandleRequest, HandleResult, HandleTaskLaunch, HandleFailed, HandleBots,
         masterVars
  <2>2. \E m : Handling(m) /\ \A u \in Tasks : m # Dead(u)
    <3>1. \A x, u : /\ Request(x) # Dead(u) /\ Result(x) # Dead(u)
                    /\ TaskLaunch(x) # Dead(u) /\ Failed(x) # Dead(u)
                    /\ RefreshBots # Dead(u) /\ CorruptedBot # Dead(u)
      BY DEF Request, Result, TaskLaunch, Failed, RefreshBots, CorruptedBot, Dead
    <3>2. \/ \E x : \/ Handling(Request(x)) \/ Handling(Result(x))
                   \/ Handling(TaskLaunch(x)) \/ Handling(Failed(x))
          \/ Handling(RefreshBots) \/ Handling(CorruptedBot)
      BY <1>15 DEF HandleRequest, HandleResult, HandleTaskLaunch, HandleFailed, HandleBots
    <3>3. QED
      BY <3>1, <3>2
  <2>3. QED
    BY <1>11, <2>1, <2>2 DEF Known
<1>16. QED
  BY <1>5, <1>6, <1>7, <1>8, <1>9, <1>10, <1>12, <1>13, <1>14, <1>15 DEF Next, Handle

-----------------------------------------------------------------------------
(* The loads: a slave's number is that of the entries that name it.        *)
Entries(t) == {s \in Subs : activeSubmissions[s] = t}

LEMMA EntriesFinite ==
  ASSUME NEW S \in SUBSET Subs
  PROVE  IsFiniteSet(S) /\ Cardinality(S) \in Nat
BY MasterAssumption, FS_Subset, FS_CardinalityType

LEMMA LoadsStep ==
  ASSUME TypeOK, NotBefore, OneList, LoadCounted, [Next]_vars
  PROVE  LoadCounted'
<1>1. /\ slaves \subseteq Tasks /\ pendingSlaves \subseteq Tasks
      /\ numActSubs \in [Tasks -> Int]
      /\ activeSubmissions \in [Subs -> Tasks \cup {None}]
      /\ None \notin Tasks
  BY MasterAssumption DEF TypeOK
<1>2. \A t \in slaves : numActSubs[t] = Cardinality(Entries(t))
  BY DEF LoadCounted, Entries
<1>3. ASSUME \A t \in slaves' : numActSubs'[t] = Cardinality(Entries(t)') PROVE LoadCounted'
  BY <1>3 DEF LoadCounted, Entries
<1>4. ASSUME slaves' \subseteq slaves, UNCHANGED <<numActSubs, activeSubmissions>>
      PROVE  LoadCounted'
  <2>1. \A t : Entries(t)' = Entries(t)
    BY <1>4 DEF Entries
  <2>2. QED
    BY <1>2, <1>3, <1>4, <2>1
<1>5. ASSUME NEW s \in Subs, HandleRequest(s) PROVE LoadCounted'
  <2>1. CASE activeSubmissions[s] \in slaves \/ slaves = {}
    BY <1>4, <1>5, <2>1 DEF HandleRequest
  <2>2. CASE ~ (activeSubmissions[s] \in slaves \/ slaves = {})
    <3>1. PICK t \in slaves : /\ numActSubs' = [numActSubs EXCEPT ![t] = @ + 1]
                             /\ activeSubmissions' = [activeSubmissions EXCEPT ![s] = t]
      BY <1>5, <2>2 DEF HandleRequest
    <3>2. slaves' = slaves
      BY <1>5 DEF HandleRequest
    <3>3. Entries(t)' = Entries(t) \cup {s} /\ s \notin Entries(t)
      BY <1>1, <2>2, <3>1 DEF Entries
    <3>4. Cardinality(Entries(t) \cup {s}) = Cardinality(Entries(t)) + 1
      <4>1. IsFiniteSet(Entries(t))
        BY EntriesFinite DEF Entries
      <4>2. QED
        BY <3>3, <4>1, FS_AddElement
    <3>5. numActSubs'[t] = Cardinality(Entries(t)')
      BY <1>1, <1>2, <3>1, <3>3, <3>4
    <3>6. ASSUME NEW u \in slaves \ {t} PROVE numActSubs'[u] = Cardinality(Entries(u)')
      <4>1. Entries(u)' = Entries(u)
        BY <1>1, <2>2, <3>1, <3>6 DEF Entries
      <4>2. QED
        BY <1>1, <1>2, <3>1, <3>6, <4>1
    <3>7. QED
      BY <1>3, <3>2, <3>5, <3>6
  <2>3. QED
    BY <2>1, <2>2
<1>6. ASSUME NEW s \in Subs \cup {None}, HandleResult(s) PROVE LoadCounted'
  <2>1. CASE s = None \/ activeSubmissions[s] = None
    BY <1>4, <1>6, <2>1 DEF HandleResult
  <2>2. CASE ~ (s = None \/ activeSubmissions[s] = None)
    <3>1. s \in Subs /\ activeSubmissions[s] \in Tasks
      BY <1>1, <2>2
    <3>2. PICK t \in Tasks : t = activeSubmissions[s]
      BY <3>1
    <3>3. activeSubmissions' = [activeSubmissions EXCEPT ![s] = None] /\ slaves' = slaves
      BY <1>6, <2>2 DEF HandleResult
    <3>4. numActSubs' = IF t \in slaves THEN [numActSubs EXCEPT ![t] = @ - 1] ELSE numActSubs
      BY <1>6, <2>2, <3>2 DEF HandleResult
    <3>5. Entries(t)' = Entries(t) \ {s} /\ s \in Entries(t)
      BY <1>1, <3>1, <3>2, <3>3 DEF Entries
    <3>6. Cardinality(Entries(t) \ {s}) = Cardinality(Entries(t)) - 1
      <4>1. IsFiniteSet(Entries(t))
        BY EntriesFinite DEF Entries
      <4>2. QED
        BY <3>5, <4>1, FS_RemoveElement
    <3>7. ASSUME NEW u \in slaves PROVE numActSubs'[u] = Cardinality(Entries(u)')
      <4>1. CASE u = t
        BY <1>1, <1>2, <3>4, <3>5, <3>6, <3>7, <4>1
      <4>2. CASE u # t
        <5>1. Entries(u)' = Entries(u)
          BY <1>1, <3>1, <3>2, <3>3, <3>7, <4>2 DEF Entries
        <5>2. QED
          BY <1>1, <1>2, <3>4, <3>7, <4>2, <5>1
      <4>3. QED
        BY <4>1, <4>2
    <3>8. QED
      BY <1>3, <3>3, <3>7
  <2>3. QED
    BY <2>1, <2>2
<1>7. ASSUME NEW t \in Tasks, NEW ok \in BOOLEAN, HandleReady(t, ok) PROVE LoadCounted'
  <2>1. CASE ok /\ t \in pendingSlaves
    <3>1. /\ slaves' = slaves \cup {t} /\ t \notin slaves
          /\ numActSubs' = [numActSubs EXCEPT ![t] = 0]
          /\ UNCHANGED activeSubmissions
      BY <1>7, <2>1 DEF HandleReady, OneList
    <3>2. \A u : Entries(u)' = Entries(u)
      BY <3>1 DEF Entries
    <3>3. Entries(t) = {}
      <4>1. ASSUME NEW s \in Subs PROVE activeSubmissions[s] # t
        BY <1>1, <2>1, <4>1 DEF NotBefore
      <4>2. QED
        BY <4>1 DEF Entries
    <3>4. numActSubs'[t] = Cardinality(Entries(t)')
      BY <1>1, <3>1, <3>2, <3>3, FS_EmptySet
    <3>5. ASSUME NEW u \in slaves PROVE numActSubs'[u] = Cardinality(Entries(u)')
      BY <1>1, <1>2, <3>1, <3>2, <3>5
    <3>6. QED
      BY <1>3, <3>1, <3>4, <3>5
  <2>2. CASE ~ (ok /\ t \in pendingSlaves)
    BY <1>4, <1>7, <2>2 DEF HandleReady
  <2>3. QED
    BY <2>1, <2>2
<1>8. ASSUME NEW t \in Tasks, HandleDead(t) PROVE LoadCounted'
  BY <1>4, <1>8 DEF HandleDead
<1>9. ASSUME NEW t \in Tasks, NEW err \in BotErrors, HandleBotError(t, err) PROVE LoadCounted'
  BY <1>4, <1>9, KilledFromSlaves DEF HandleBotError
<1>10. ASSUME NEW n \in 0..MaxBots, HandleLoadReport(n) PROVE LoadCounted'
  BY <1>4, <1>10, KilledFromSlaves DEF HandleLoadReport
<1>11. ASSUME UNCHANGED <<slaves, numActSubs, activeSubmissions>> PROVE LoadCounted'
  BY <1>4, <1>11
<1>12. CASE Handle
  BY <1>5, <1>6, <1>7, <1>8, <1>9, <1>10, <1>11, <1>12
  DEF Handle, HandleTaskLaunch, HandleFailed, HandleBots, masterVars
<1>13. ASSUME NEW t \in Tasks, SlaveStep(t) PROVE LoadCounted'
  BY <1>11, <1>13 DEF SlaveStep, SlaveLacksBot, SlaveSubmits, SlaveRejects, SlaveReports,
       SlavePanics, SlaveStops, SlaveStopped, masterVars
<1>14. QED
  BY <1>11, <1>12, <1>13
  DEF Next, Post, TaskAnswered, TaskEnded, ScriptReady, masterVars, vars

-----------------------------------------------------------------------------
(* The entries: what is routed to a slave is on its way, in its hand or    *)
(* answered, until the slave leaves or gives it up.                        *)
OnItsWay(t, s) == \/ Job(t, s) \in BagToSet(jobs)
                  \/ job[t] = s
                  \/ Result(s) \in BagToSet(mails)

LEMMA EntriesStep ==
  ASSUME TypeOK, NotBefore, EntriesAlive, [Next]_vars
  PROVE  EntriesAlive'
<1>1. /\ slaves \subseteq Tasks /\ pendingSlaves \subseteq Tasks
      /\ activeSubmissions \in [Subs -> Tasks \cup {None}]
      /\ job \in [Tasks -> Subs \cup {None}]
      /\ None \notin Tasks /\ None \notin Subs
  BY MasterAssumption DEF TypeOK
<1>2. \A s \in Subs \ unreported :
        activeSubmissions[s] \in slaves => OnItsWay(activeSubmissions[s], s)
  BY DEF EntriesAlive, OnItsWay, InTransit
<1>3. ASSUME \A s \in Subs \ unreported', t \in slaves' :
               activeSubmissions'[s] = t => OnItsWay(t, s)'
      PROVE  EntriesAlive'
  BY <1>3 DEF EntriesAlive, OnItsWay, InTransit
<1>4. ASSUME slaves' \subseteq slaves, UNCHANGED activeSubmissions,
             unreported \subseteq unreported',
             \A u \in Tasks, x \in Subs \ unreported' : OnItsWay(u, x) => OnItsWay(u, x)'
      PROVE  EntriesAlive'
  <2>1. ASSUME NEW s \in Subs \ unreported', NEW t \in slaves', activeSubmissions'[s] = t
        PROVE  OnItsWay(t, s)'
    <3>1. t \in slaves /\ t = activeSubmissions[s]
      BY <1>4, <2>1
    <3>2. OnItsWay(t, s)
      BY <1>2, <1>4, <2>1, <3>1
    <3>3. QED
      BY <1>1, <1>4, <2>1, <3>1, <3>2
  <2>2. QED
    BY <1>3, <2>1
<1>5. ASSUME UNCHANGED <<slaves, activeSubmissions, unreported, jobs, job>>,
             BagToSet(mails) \subseteq BagToSet(mails')
      PROVE  EntriesAlive'
  BY <1>4, <1>5 DEF OnItsWay
<1>6. ASSUME NEW S, Posted(S) \/ UNCHANGED mails
      PROVE  BagToSet(mails) \subseteq BagToSet(mails')
  BY <1>6, PostedMails
<1>7. CASE \/ Post \/ UNCHANGED vars
           \/ \E t \in Tasks : \/ TaskAnswered(t) \/ TaskEnded(t)
                             \/ \E ok \in BOOLEAN : ScriptReady(t, ok)
  <2>1. UNCHANGED <<slaves, activeSubmissions, unreported, jobs, job>>
    BY <1>7 DEF Post, TaskAnswered, TaskEnded, ScriptReady, vars, masterVars, slaveVars
  <2>2. BagToSet(mails) \subseteq BagToSet(mails')
    BY <1>6, <1>7 DEF Post, TaskAnswered, TaskEnded, ScriptReady, vars
  <2>3. QED
    BY <1>5, <2>1, <2>2
<1>8. ASSUME NEW t \in Tasks, NEW s \in Subs,
             Job(t, s) \in BagToSet(jobs), jobs' = jobs (-) SetToBag({Job(t, s)})
      PROVE  \A u \in Tasks, x \in Subs :
               Job(u, x) \in BagToSet(jobs) /\ (u # t \/ x # s)
                 => Job(u, x) \in BagToSet(jobs')
  <2>1. IsABag(jobs)
    BY DEF TypeOK
  <2>2. \A k \in BagToSet(jobs) : k # Job(t, s) => k \in BagToSet(jobs')
    BY <1>8, <2>1, TakenBag
  <2>3. \A u \in Tasks, x \in Subs : u # t \/ x # s => Job(u, x) # Job(t, s)
    BY DEF Job
  <2>4. QED
    BY <2>2, <2>3
<1>9. ASSUME NEW t \in Tasks, SlaveStep(t) PROVE EntriesAlive'
  <2>1. UNCHANGED <<slaves, activeSubmissions>>
    BY <1>9 DEF SlaveStep, SlaveLacksBot, SlaveSubmits, SlaveRejects, SlaveReports,
         SlavePanics, SlaveStops, SlaveStopped, masterVars
  <2>2. ASSUME NEW s \in Subs, SlaveLacksBot(t, s) PROVE EntriesAlive'
    <3>1. Result(s) \in BagToSet(mails') /\ BagToSet(mails) \subseteq BagToSet(mails')
      BY <2>2, PostedMails DEF SlaveLacksBot
    <3>2. \A u \in Tasks, x \in Subs : OnItsWay(u, x) => OnItsWay(u, x)'
      BY <1>8, <2>2, <3>1 DEF SlaveLacksBot, SlaveTakes, OnItsWay
    <3>3. QED
      BY <1>4, <2>1, <2>2, <3>2 DEF SlaveLacksBot
  <2>3. ASSUME NEW s \in Subs, SlaveSubmits(t, s) PROVE EntriesAlive'
    <3>1. job[t] = None
      BY <2>3 DEF TypeOK, SlaveSubmits, SlaveTakes
    <3>2. job'[t] = s /\ \A u \in Tasks \ {t} : job'[u] = job[u]
      BY <1>1, <2>3 DEF SlaveSubmits
    <3>3. \A u \in Tasks, x \in Subs : OnItsWay(u, x) => OnItsWay(u, x)'
      <4>1. UNCHANGED mails
        BY <2>3 DEF SlaveSubmits
      <4>2. \A u \in Tasks, x \in Subs :
              Job(u, x) \in BagToSet(jobs) /\ (u # t \/ x # s)
                => Job(u, x) \in BagToSet(jobs')
        BY <1>8, <2>3 DEF SlaveSubmits, SlaveTakes
      <4>3. \A u \in Tasks, x \in Subs : job[u] = x => job'[u] = x
        BY <1>1, <3>1, <3>2
      <4>4. QED
        BY <3>2, <4>1, <4>2, <4>3 DEF OnItsWay
    <3>4. QED
      BY <1>4, <2>1, <2>3, <3>3 DEF SlaveSubmits
  <2>4. ASSUME NEW s \in Subs, SlaveRejects(t, s) PROVE EntriesAlive'
    <3>1. BagToSet(mails) \subseteq BagToSet(mails')
      BY <1>6, <2>4 DEF SlaveRejects
    <3>2. \A u \in Tasks, x \in Subs \ unreported' : OnItsWay(u, x) => OnItsWay(u, x)'
      BY <1>8, <2>4, <3>1 DEF SlaveRejects, OnItsWay
    <3>3. QED
      BY <1>4, <2>1, <2>4, <3>2 DEF SlaveRejects
  <2>5. ASSUME NEW corrupted \in BOOLEAN, SlaveReports(t, corrupted) PROVE EntriesAlive'
    <3>1. Result(job[t]) \in BagToSet(mails') /\ BagToSet(mails) \subseteq BagToSet(mails')
      BY <2>5, PostedMails DEF SlaveReports
    <3>2. \A u \in Tasks \ {t} : job'[u] = job[u]
      BY <1>1, <2>5 DEF SlaveReports
    <3>3. \A u \in Tasks, x \in Subs : OnItsWay(u, x) => OnItsWay(u, x)'
      BY <2>5, <3>1, <3>2 DEF SlaveReports, OnItsWay
    <3>4. QED
      BY <1>4, <2>1, <2>5, <3>3 DEF SlaveReports
  <2>6. CASE SlavePanics(t)
    <3>1. BagToSet(mails) \subseteq BagToSet(mails')
      BY <1>6, <2>6 DEF SlavePanics
    <3>2. \A u \in Tasks \ {t} : job'[u] = job[u]
      BY <1>1, <2>6 DEF SlavePanics
    <3>3. job[t] \in unreported'
      BY <2>6 DEF SlavePanics
    <3>4. \A u \in Tasks, x \in Subs \ unreported' : OnItsWay(u, x) => OnItsWay(u, x)'
      BY <2>6, <3>1, <3>2, <3>3 DEF SlavePanics, OnItsWay
    <3>5. QED
      BY <1>4, <2>1, <2>6, <3>4 DEF SlavePanics
  <2>7. CASE SlaveStops(t) \/ SlaveStopped(t)
    BY <1>5, <2>1, <2>7 DEF SlaveStops, SlaveStopped
  <2>8. QED
    BY <1>9, <2>2, <2>3, <2>4, <2>5, <2>6, <2>7 DEF SlaveStep
<1>10. ASSUME NEW m, Handling(m), \A x \in Subs : m # Result(x),
              slaves' \subseteq slaves, UNCHANGED <<activeSubmissions, unreported, jobs, job>>
       PROVE  EntriesAlive'
  <2>1. \A x \in Subs : Result(x) \in BagToSet(mails) => Result(x) \in BagToSet(mails')
    BY <1>10, HandledMails
  <2>2. QED
    BY <1>4, <1>10, <2>1 DEF OnItsWay
<1>11. \A x, y : /\ Request(y) # Result(x) /\ TaskLaunch(y) # Result(x)
                 /\ Dead(y) # Result(x) /\ Failed(y) # Result(x)
                 /\ LoadReport(y) # Result(x)
                 /\ CorruptedBot # Result(x) /\ RefreshBots # Result(x)
                 /\ \A z : Ready(y, z) # Result(x) /\ BotError(y, z) # Result(x)
  BY DEF Request, Result, TaskLaunch, Dead, Failed, LoadReport, CorruptedBot, RefreshBots,
     Ready, BotError
<1>12. ASSUME NEW s \in Subs, HandleRequest(s) PROVE EntriesAlive'
  <2>1. CASE activeSubmissions[s] \in slaves \/ slaves = {}
    BY <1>10, <1>11, <1>12, <2>1 DEF HandleRequest
  <2>2. CASE ~ (activeSubmissions[s] \in slaves \/ slaves = {})
    <3>1. PICK t \in slaves : /\ activeSubmissions' = [activeSubmissions EXCEPT ![s] = t]
                             /\ jobs' = jobs (+) SetToBag({Job(t, s)})
      BY <1>12, <2>2 DEF HandleRequest
    <3>2. BagToSet(jobs') = BagToSet(jobs) \cup {Job(t, s)}
      BY <3>1, PostedBag DEF TypeOK
    <3>3. \A x \in Subs : Result(x) \in BagToSet(mails) => Result(x) \in BagToSet(mails')
      BY <1>11, <1>12, HandledMails DEF HandleRequest
    <3>4. UNCHANGED <<slaves, unreported, job>>
      BY <1>12 DEF HandleRequest
    <3>5. ASSUME NEW x \in Subs \ unreported', NEW u \in slaves', activeSubmissions'[x] = u
          PROVE  OnItsWay(u, x)'
      <4>1. CASE x = s
        BY <1>1, <3>1, <3>2, <3>5, <4>1 DEF OnItsWay
      <4>2. CASE x # s
        <5>1. activeSubmissions'[x] = activeSubmissions[x]
          BY <1>1, <3>1, <4>2
        <5>2. OnItsWay(u, x)
          BY <1>2, <3>4, <3>5, <5>1
        <5>3. QED
          BY <3>2, <3>3, <3>4, <5>2 DEF OnItsWay
      <4>3. QED
        BY <4>1, <4>2
    <3>6. QED
      BY <1>3, <3>5
  <2>3. QED
    BY <2>1, <2>2
<1>13. ASSUME NEW s \in Subs \cup {None}, HandleResult(s) PROVE EntriesAlive'
  <2>1. UNCHANGED <<slaves, unreported, jobs, job>>
    BY <1>13 DEF HandleResult, slaveVars
  <2>2. \A x \in Subs \ {s} : Result(x) \in BagToSet(mails) => Result(x) \in BagToSet(mails')
    BY <1>13, HandledMails DEF HandleResult, Result
  <2>3. \A x \in Subs \ {s} : activeSubmissions'[x] = activeSubmissions[x]
    BY <1>1, <1>13 DEF HandleResult
  <2>4. s \in Subs => activeSubmissions'[s] = None
    BY <1>1, <1>13 DEF HandleResult
  <2>5. ASSUME NEW x \in Subs \ unreported', NEW u \in slaves', activeSubmissions'[x] = u
        PROVE  OnItsWay(u, x)'
    <3>1. x # s
      BY <1>1, <2>1, <2>4, <2>5
    <3>2. activeSubmissions'[x] = activeSubmissions[x]
      BY <2>3, <3>1
    <3>3. OnItsWay(u, x)
      BY <1>2, <2>1, <2>5, <3>2
    <3>4. QED
      BY <2>1, <2>2, <3>1, <3>3 DEF OnItsWay
  <2>6. QED
    BY <1>3, <2>5
<1>14. ASSUME NEW t \in Tasks, NEW ok \in BOOLEAN, HandleReady(t, ok) PROVE EntriesAlive'
  <2>1. Handling(Ready(t, ok)) /\ UNCHANGED <<activeSubmissions, unreported, jobs, job>>
    BY <1>14 DEF HandleReady
  <2>2. CASE slaves' = slaves
    BY <1>10, <1>11, <2>1, <2>2
  <2>3. CASE t \in pendingSlaves /\ slaves' = slaves \cup {t}
    <3>1. \A x \in Subs : Result(x) \in BagToSet(mails) => Result(x) \in BagToSet(mails')
      BY <1>11, <2>1, HandledMails
    <3>2. ASSUME NEW x \in Subs PROVE activeSubmissions[x] # t
      BY <1>1, <2>3 DEF NotBefore
    <3>3. ASSUME NEW x \in Subs \ unreported', NEW u \in slaves', activeSubmissions'[x] = u
          PROVE  OnItsWay(u, x)'
      <4>1. OnItsWay(u, x)
        BY <1>2, <2>1, <2>3, <3>2, <3>3
      <4>2. QED
        BY <2>1, <3>1, <4>1 DEF OnItsWay
    <3>4. QED
      BY <1>3, <3>3
  <2>4. QED
    BY <1>14, <2>2, <2>3 DEF HandleReady
<1>15. CASE \E t \in Tasks : HandleTaskLaunch(t) \/ HandleFailed(t) \/ HandleDead(t)
  <2>1. PICK t \in Tasks : HandleTaskLaunch(t) \/ HandleFailed(t) \/ HandleDead(t)
    BY <1>15
  <2>2. /\ slaves' \subseteq slaves
        /\ UNCHANGED <<activeSubmissions, unreported, jobs, job>>
    BY <2>1 DEF HandleTaskLaunch, HandleFailed, HandleDead, masterVars, slaveVars
  <2>3. Handling(TaskLaunch(t)) \/ Handling(Failed(t)) \/ Handling(Dead(t))
    BY <2>1 DEF HandleTaskLaunch, HandleFailed, HandleDead
  <2>4. QED
    BY <1>10, <1>11, <2>2, <2>3
<1>16. ASSUME NEW t \in Tasks, NEW err \in BotErrors, HandleBotError(t, err) PROVE EntriesAlive'
  <2>1. slaves' \subseteq slaves
    BY <1>16, KilledFromSlaves
  <2>2. QED
    BY <1>10, <1>11, <1>16, <2>1 DEF HandleBotError
<1>17. ASSUME NEW n \in 0..MaxBots, HandleLoadReport(n) PROVE EntriesAlive'
  <2>1. slaves' \subseteq slaves
    BY <1>17, KilledFromSlaves
  <2>2. QED
    BY <1>10, <1>11, <1>17, <2>1 DEF HandleLoadReport
<1>18. CASE HandleBots
  <2>1. UNCHANGED <<slaves, activeSubmissions, unreported, jobs, job>>
    BY <1>18 DEF HandleBots, slaveVars
  <2>2. QED
    BY <1>10, <1>11, <1>18, <2>1 DEF HandleBots
<1>19. QED
  BY <1>7, <1>9, <1>12, <1>13, <1>14, <1>15, <1>16, <1>17, <1>18 DEF Next, Handle

-----------------------------------------------------------------------------
(* The fleet: of the slaves a load report starts, the ready and the        *)
(* pending ones are no more than it asks for.                              *)
Bound == IF MaxBots >= 1 THEN (MaxBots + 1) \div 2 ELSE 1

LEMMA TasksFinite ==
  ASSUME NEW S \in SUBSET Tasks
  PROVE  IsFiniteSet(S) /\ Cardinality(S) \in Nat
BY MasterAssumption, FS_Subset, FS_CardinalityType

LEMMA SmallerFleet ==
  ASSUME NEW S \in SUBSET Tasks, NEW R \in SUBSET S
  PROVE  Cardinality(R) <= Cardinality(S)
BY TasksFinite, FS_Subset

LEMMA MinBounded ==
  ASSUME NEW n \in 0..MaxBots, bots \in 0..MaxBots
  PROVE  LoadMin(n) \in Nat /\ LoadMin(n) <= Bound
BY MasterAssumption DEF LoadMin, LoadCap, Bound

LEMMA FleetStep ==
  ASSUME TypeOK, OneList, FleetBounded, [Next]_vars
  PROVE  FleetBounded'
<1>1. /\ slaves \subseteq Tasks /\ pendingSlaves \subseteq Tasks
      /\ bots \in 0..MaxBots
      /\ slaves \cap pendingSlaves = {}
      /\ Cardinality(slaves) + Cardinality(pendingSlaves) <= Bound
  BY DEF TypeOK, OneList, FleetBounded, Total, Bound
<1>2. Bound \in Nat
  BY MasterAssumption DEF Bound
<1>3. ASSUME Cardinality(slaves') + Cardinality(pendingSlaves') <= Bound PROVE FleetBounded'
  BY <1>3 DEF FleetBounded, Total, Bound
<1>4. ASSUME slaves' \subseteq slaves, pendingSlaves' \subseteq pendingSlaves
      PROVE  FleetBounded'
  <2>1. /\ Cardinality(slaves') <= Cardinality(slaves)
        /\ Cardinality(pendingSlaves') <= Cardinality(pendingSlaves)
    BY <1>1, <1>4, SmallerFleet
  <2>2. /\ Cardinality(slaves') \in Nat /\ Cardinality(slaves) \in Nat
        /\ Cardinality(pendingSlaves') \in Nat /\ Cardinality(pendingSlaves) \in Nat
    BY <1>1, <1>4, TasksFinite
  <2>3. QED
    BY <1>1, <1>2, <1>3, <2>1, <2>2
<1>5. ASSUME NEW t \in Tasks, NEW ok \in BOOLEAN, HandleReady(t, ok) PROVE FleetBounded'
  <2>1. CASE ok /\ t \in pendingSlaves
    <3>1. /\ slaves' = slaves \cup {t} /\ t \notin slaves
          /\ pendingSlaves' = pendingSlaves \ {t}
      BY <1>1, <1>5, <2>1 DEF HandleReady
    <3>2. /\ IsFiniteSet(slaves) /\ Cardinality(slaves) \in Nat
          /\ IsFiniteSet(pendingSlaves) /\ Cardinality(pendingSlaves) \in Nat
      BY <1>1, TasksFinite
    <3>3. Cardinality(slaves') = Cardinality(slaves) + 1
      BY <3>1, <3>2, FS_AddElement
    <3>4. Cardinality(pendingSlaves') = Cardinality(pendingSlaves) - 1
      BY <2>1, <3>1, <3>2, FS_RemoveElement
    <3>5. QED
      BY <1>1, <1>2, <1>3, <3>2, <3>3, <3>4
  <2>2. CASE ~ (ok /\ t \in pendingSlaves)
    BY <1>4, <1>5, <2>2 DEF HandleReady
  <2>3. QED
    BY <2>1, <2>2
<1>6. ASSUME NEW n \in 0..MaxBots, HandleLoadReport(n) PROVE FleetBounded'
  <2>1. slaves' \subseteq slaves
    BY <1>6, KilledFromSlaves
  <2>2. PICK S \in SUBSET Tasks :
          /\ IF Cardinality(slaves) + Cardinality(pendingSlaves) < LoadMin(n)
               THEN Cardinality(S) <= LoadMin(n)
                                        - (Cardinality(slaves) + Cardinality(pendingSlaves))
               ELSE S = {}
          /\ pendingSlaves' = pendingSlaves \cup S
    BY <1>6 DEF HandleLoadReport, StartSlaves, Total
  <2>3. CASE S = {}
    BY <1>4, <2>1, <2>2, <2>3
  <2>4. CASE S # {}
    <3>1. /\ Cardinality(slaves) \in Nat /\ Cardinality(slaves') \in Nat
          /\ Cardinality(pendingSlaves) \in Nat /\ Cardinality(S) \in Nat
          /\ IsFiniteSet(pendingSlaves) /\ IsFiniteSet(S)
          /\ Cardinality(pendingSlaves \cap S) \in Nat
          /\ Cardinality(pendingSlaves \cup S) \in Nat
      <4>1. slaves' \subseteq Tasks /\ pendingSlaves \cap S \subseteq Tasks
            /\ pendingSlaves \cup S \subseteq Tasks
        BY <1>1, <2>1
      <4>2. QED
        BY <1>1, <4>1, TasksFinite
    <3>2. Cardinality(slaves') <= Cardinality(slaves)
      BY <1>1, <2>1, SmallerFleet
    <3>3. Cardinality(pendingSlaves \cup S)
            = Cardinality(pendingSlaves) + Cardinality(S) - Cardinality(pendingSlaves \cap S)
      BY <3>1, FS_Union
    <3>4. LoadMin(n) \in Nat /\ LoadMin(n) <= Bound
      BY <1>1, MinBounded
    <3>5. Cardinality(S) <= LoadMin(n) - (Cardinality(slaves) + Cardinality(pendingSlaves))
      BY <2>2, <2>4
    <3>6. Cardinality(slaves') + Cardinality(pendingSlaves \cup S) <= Bound
      BY <1>2, <3>1, <3>2, <3>3, <3>4, <3>5
    <3>7. QED
      BY <1>3, <2>2, <3>6
  <2>5. QED
    BY <2>3, <2>4
<1>7. ASSUME NEW t \in Tasks, NEW err \in BotErrors, HandleBotError(t, err) PROVE FleetBounded'
  BY <1>4, <1>7, KilledFromSlaves DEF HandleBotError
<1>8. CASE Handle
  BY <1>4, <1>5, <1>6, <1>7, <1>8 DEF Handle, HandleRequest, HandleResult, HandleTaskLaunch,
     HandleDead, HandleFailed, HandleBots, masterVars
<1>9. ASSUME NEW t \in Tasks, SlaveStep(t) PROVE FleetBounded'
  BY <1>4, <1>9 DEF SlaveStep, SlaveLacksBot, SlaveSubmits, SlaveRejects, SlaveReports,
     SlavePanics, SlaveStops, SlaveStopped, masterVars
<1>10. QED
  BY <1>4, <1>8, <1>9
  DEF Next, Post, TaskAnswered, TaskEnded, ScriptReady, masterVars, vars

-----------------------------------------------------------------------------
LEMMA InitHolds ==
  ASSUME Init
  PROVE  TypeOK /\ IInv /\ FleetBounded
<1>1. PICK t \in Tasks :
        /\ life = [u \in Tasks |-> IF u = t THEN "scheduled" ELSE "unknown"]
        /\ pendingSlaves = {t}
  BY DEF Init
<1>2. /\ slaves = {} /\ killedSlaves = {}
      /\ numActSubs = [u \in Tasks |-> 0]
      /\ activeSubmissions = [s \in Subs |-> None]
      /\ bots \in 0..MaxBots
      /\ wait = [u \in Tasks |-> "no"]
      /\ gor = [u \in Tasks |-> "none"]
      /\ job = [u \in Tasks |-> None]
      /\ mails = EmptyBag /\ jobs = EmptyBag /\ stops = {}
      /\ unreported = {}
      /\ crashed = FALSE
  BY DEF Init
<1>3. IsABag(EmptyBag) /\ BagToSet(EmptyBag) = {}
  BY DEF EmptyBag, IsABag, BagToSet, SetToBag
<1>4. /\ MailsOK /\ JobsOK
  BY <1>2, <1>3 DEF MailsOK, JobsOK
<1>5. LoopsOK
  BY <1>2 DEF LoopsOK
<1>6. MasterOK
  <2>1. /\ slaves \in SUBSET Tasks /\ pendingSlaves \in SUBSET Tasks
        /\ killedSlaves \in SUBSET Tasks /\ bots \in 0..MaxBots
    BY <1>1, <1>2
  <2>2. numActSubs \in [Tasks -> Int]
    BY <1>2
  <2>3. activeSubmissions \in [Subs -> Tasks \cup {None}]
    BY <1>2
  <2>4. crashed \in BOOLEAN
    BY <1>2
  <2>5. QED
    BY <2>1, <2>2, <2>3, <2>4 DEF MasterOK
<1>7. OtherOK
  BY <1>1, <1>2 DEF OtherOK, Lives
<1>8. TypeOK
  BY <1>4, <1>5, <1>6, <1>7 DEF TypeOK, MailsOK, JobsOK, LoopsOK, MasterOK, OtherOK
<1>9. NotBefore
  BY <1>1, <1>2 DEF NotBefore, Known
<1>10. OneList /\ NoGhosts
  BY <1>1, <1>2 DEF OneList, NoGhosts, Known
<1>11. LoadCounted /\ EntriesAlive
  BY <1>2 DEF LoadCounted, EntriesAlive
<1>12. FleetBounded
  <2>1. Cardinality(pendingSlaves) = 1 /\ Cardinality(slaves) = 0
    BY <1>1, <1>2, FS_Singleton, FS_EmptySet
  <2>2. 1 <= (MaxBots + 1) \div 2 \/ ~ (MaxBots >= 1)
    BY MasterAssumption
  <2>3. QED
    BY <2>1, <2>2 DEF FleetBounded, Total
<1>13. QED
  BY <1>8, <1>9, <1>10, <1>11, <1>12 DEF IInv

LEMMA NextHolds ==
  ASSUME TypeOK, IInv, FleetBounded, [Next]_vars
  PROVE  TypeOK' /\ IInv' /\ FleetBounded'
BY TypeStep, ListsStep, GhostsStep, LoadsStep, EntriesStep, FleetStep DEF IInv

LEMMA Everything == Spec => [](TypeOK /\ IInv /\ FleetBounded)
BY InitHolds, NextHolds, PTL DEF Spec

(* nyx_master.go, nyx_slave.go: the data structures keep their shapes, and *)
(* only a busy slave has a submission in hand, although results, stops,    *)
(* panics and restarts overlap.                                            *)
THEOREM TypeCorrect == Spec => []TypeOK
BY Everything, PTL

(* The inductive invariant: nothing happens to a slave before it was       *)
(* scheduled, nor is anything routed to it before it is ready.             *)
THEOREM InductiveInvariant == Spec => []IInv
BY Everything, PTL

(* nyx_master.go:649, 682, 932: a slave is in one list at most.            *)
THEOREM ListsDisjoint == Spec => []OneList
<1>1. IInv => OneList
  BY DEF IInv
<1>2. QED
  BY <1>1, Everything, PTL

(* nyx_master.go:660-744: handling the mail of a slave's death takes the   *)
(* slave out of every list for good.                                       *)
THEOREM DeadForgotten == Spec => []NoGhosts
<1>1. IInv => NoGhosts
  BY DEF IInv
<1>2. QED
  BY <1>1, Everything, PTL

(* nyx_master.go:394, 472: the load of a slave is the number of entries    *)
(* that name it, for any number of slaves, submissions and late results.   *)
THEOREM LoadsAreCounts == Spec => []LoadCounted
<1>1. IInv => LoadCounted
  BY DEF IInv
<1>2. QED
  BY <1>1, Everything, PTL

(* nyx_master.go:338-343: an entry of a slave that is there stands for a   *)
(* submission on its way, in hand or answered.                             *)
THEOREM NoDeadEntry == Spec => []EntriesAlive
<1>1. IInv => EntriesAlive
  BY DEF IInv
<1>2. QED
  BY <1>1, Everything, PTL

(* nyx_master.go:799-820: the fleet stays within half the bots for any     *)
(* number of bots, tasks and load reports.                                 *)
THEOREM FleetStaysBounded == Spec => []FleetBounded
BY Everything, PTL

(* nyx_master.go:649-744: a slave is in one of the lists while it lives,   *)
(* and in none once its death was handled, whatever the order of mails.    *)
THEOREM ListsAlwaysKept == Spec => []ListsKept
<1>1. OneList /\ NoGhosts => ListsKept
  BY DEF ListsKept
<1>2. QED
  BY <1>1, ListsDisjoint, DeadForgotten, PTL

-----------------------------------------------------------------------------
(* A slave that is taken off the pending ones was launched or has ended.   *)
LEMMA UnansweredStep ==
  ASSUME TypeOK, UnansweredPend, [Next]_vars
  PROVE  UnansweredPend'
<1>1. life \in [Tasks -> Lives] /\ pendingSlaves \subseteq Tasks
  BY DEF TypeOK
<1>2. ASSUME NEW m, Handling(m), UNCHANGED life, pendingSlaves \subseteq pendingSlaves'
      PROVE  UnansweredPend'
  BY <1>2, HandledMails DEF UnansweredPend, Unanswered, InTransit
<1>3. ASSUME NEW S, Posted(S), UNCHANGED <<life, pendingSlaves>>,
             \A t \in Tasks : /\ Ready(t, TRUE) \in S => life[t] \in {"launched", "ended"}
                             /\ Dead(t) \notin S
      PROVE  UnansweredPend'
  BY <1>3, PostedMails DEF UnansweredPend, Unanswered, InTransit
<1>4. ASSUME UNCHANGED <<life, pendingSlaves, mails>> PROVE UnansweredPend'
  BY <1>4 DEF UnansweredPend, Unanswered, InTransit
<1>5. \A x, y, t : /\ Request(x) \notin {Ready(t, TRUE), Dead(t)}
                   /\ Result(x) \notin {Ready(t, TRUE), Dead(t)}
                   /\ LoadReport(x) \notin {Ready(t, TRUE), Dead(t)}
                   /\ BotError(x, y) \notin {Ready(t, TRUE), Dead(t)}
                   /\ Failed(x) \notin {Ready(t, TRUE), Dead(t)}
                   /\ TaskLaunch(x) \notin {Ready(t, TRUE), Dead(t)}
                   /\ CorruptedBot \notin {Ready(t, TRUE), Dead(t)}
                   /\ RefreshBots \notin {Ready(t, TRUE), Dead(t)}
                   /\ Ready(x, y) # Dead(t) /\ (Ready(x, y) = Ready(t, TRUE) => x = t /\ y = TRUE)
                   /\ Dead(x) # Ready(t, TRUE) /\ (Dead(x) = Dead(t) => x = t)
  BY DEF Request, Result, LoadReport, BotError, Failed, TaskLaunch, CorruptedBot,
         RefreshBots, Ready, Dead
<1>6. CASE Post
  BY <1>3, <1>5, <1>6 DEF Post, masterVars
<1>7. ASSUME NEW t \in Tasks, TaskAnswered(t) \/ TaskEnded(t) PROVE UnansweredPend'
  <2>1. CASE TaskAnswered(t)
    <3>1. /\ life[t] = "scheduled" /\ UNCHANGED pendingSlaves
          /\ \A u \in Tasks : life'[u] # life[u] => u = t
          /\ life'[t] # "scheduled"
      BY <1>1, <2>1 DEF TaskAnswered, Launched, Refused, masterVars
    <3>2. BagToSet(mails') = BagToSet(mails) \cup {TaskLaunch(t)}
      BY <2>1, PostedMails DEF TaskAnswered
    <3>3. QED
      BY <1>5, <3>1, <3>2 DEF UnansweredPend, Unanswered, InTransit
  <2>2. CASE TaskEnded(t)
    <3>1. /\ life' = [life EXCEPT ![t] = "ended"] /\ UNCHANGED pendingSlaves
      BY <2>2 DEF TaskEnded, Ended, masterVars
    <3>2. BagToSet(mails') = BagToSet(mails) \cup {Dead(t)}
      BY <2>2, PostedMails DEF TaskEnded
    <3>3. QED
      BY <1>1, <1>5, <3>1, <3>2 DEF UnansweredPend, Unanswered, InTransit
  <2>3. QED
    BY <1>7, <2>1, <2>2
<1>8. ASSUME NEW t \in Tasks, NEW ok \in BOOLEAN, ScriptReady(t, ok) PROVE UnansweredPend'
  BY <1>3, <1>5, <1>8 DEF ScriptReady, masterVars
<1>9. ASSUME NEW t \in Tasks, SlaveStep(t) PROVE UnansweredPend'
  <2>1. UNCHANGED <<life, pendingSlaves>>
    BY <1>9 DEF SlaveStep, SlaveLacksBot, SlaveSubmits, SlaveRejects, SlaveReports,
         SlavePanics, SlaveStops, SlaveStopped, masterVars
  <2> DEFINE Other(S) == \A u \in Tasks : Ready(u, TRUE) \notin S /\ Dead(u) \notin S
  <2>2. ASSUME NEW S, Posted(S), Other(S) PROVE UnansweredPend'
    BY <1>3, <2>1, <2>2
  <2>3. ASSUME NEW s \in Subs, SlaveLacksBot(t, s) PROVE UnansweredPend'
    <3>1. PICK err \in {"notFound", "noBots"} : Posted({BotError(t, err), Result(s)})
      BY <2>3 DEF SlaveLacksBot
    <3>2. Other({BotError(t, err), Result(s)})
      BY <1>5
    <3> HIDE DEF Other
    <3>3. QED
      BY <2>2, <3>1, <3>2
  <2>4. ASSUME NEW s \in Subs, SlaveRejects(t, s) PROVE UnansweredPend'
    <3>1. Other({Result(None)}) /\ Posted({Result(None)})
      BY <1>5, <2>4 DEF SlaveRejects
    <3> HIDE DEF Other
    <3>2. QED
      BY <2>2, <3>1
  <2>5. ASSUME NEW corrupted \in BOOLEAN, SlaveReports(t, corrupted) PROVE UnansweredPend'
    <3> DEFINE S == {Result(job[t])} \cup IF corrupted THEN {CorruptedBot} ELSE {}
    <3>1. Other(S)
      BY <1>5
    <3>2. Posted(S)
      BY <2>5 DEF SlaveReports
    <3> HIDE DEF Other, S
    <3>3. QED
      BY <2>2, <3>1, <3>2
  <2>6. CASE SlavePanics(t)
    <3>1. Other({Failed(t)}) /\ Other({BotError(t, "other")})
      BY <1>5
    <3>2. Posted({Failed(t)}) \/ Posted({BotError(t, "other")})
      BY <2>6 DEF SlavePanics
    <3> HIDE DEF Other
    <3>3. QED
      BY <2>2, <3>1, <3>2
  <2>7. CASE SlaveStops(t) \/ SlaveStopped(t) \/ \E s \in Subs : SlaveSubmits(t, s)
    BY <1>4, <2>1, <2>7 DEF SlaveStops, SlaveStopped, SlaveSubmits
  <2>8. QED
    BY <1>9, <2>3, <2>4, <2>5, <2>6, <2>7 DEF SlaveStep
<1>10. ASSUME NEW t \in Tasks, NEW ok \in BOOLEAN, HandleReady(t, ok) PROVE UnansweredPend'
  <2>1. CASE ok /\ t \in pendingSlaves
    <3>1. life[t] # "scheduled" /\ pendingSlaves' = pendingSlaves \ {t} /\ UNCHANGED life
      BY <1>10, <2>1, HandledMails DEF HandleReady, UnansweredPend, InTransit
    <3>2. BagToSet(mails') \subseteq BagToSet(mails)
      BY <1>10, HandledMails DEF HandleReady
    <3>3. QED
      BY <3>1, <3>2 DEF UnansweredPend, Unanswered, InTransit
  <2>2. CASE ~ (ok /\ t \in pendingSlaves)
    BY <1>2, <1>10, <2>2 DEF HandleReady
  <2>3. QED
    BY <2>1, <2>2
<1>11. ASSUME NEW t \in Tasks, HandleDead(t) PROVE UnansweredPend'
  <2>1. /\ life[t] = "ended" /\ UNCHANGED life /\ pendingSlaves' = pendingSlaves \ {t}
    BY <1>11, HandledMails DEF HandleDead, UnansweredPend, InTransit
  <2>2. BagToSet(mails') \subseteq BagToSet(mails)
    BY <1>11, HandledMails DEF HandleDead
  <2>3. QED
    BY <2>1, <2>2 DEF UnansweredPend, Unanswered, InTransit
<1>12. ASSUME NEW n \in 0..MaxBots, HandleLoadReport(n) PROVE UnansweredPend'
  <2>1. PICK S \in SUBSET Tasks :
          /\ \A u \in S : life[u] = "unknown"
          /\ life' = [u \in Tasks |-> IF u \in S THEN "scheduled" ELSE life[u]]
          /\ pendingSlaves' = pendingSlaves \cup S
    BY <1>12 DEF HandleLoadReport, StartSlaves, Schedule
  <2>2. BagToSet(mails') \subseteq BagToSet(mails)
    BY <1>12, HandledMails DEF HandleLoadReport
  <2>3. QED
    BY <2>1, <2>2 DEF UnansweredPend, Unanswered, InTransit
<1>13. CASE \/ \E s \in Subs : HandleRequest(s)
            \/ \E s \in Subs \cup {None} : HandleResult(s)
            \/ \E t \in Tasks : \/ HandleTaskLaunch(t) \/ HandleFailed(t)
                               \/ \E err \in BotErrors : HandleBotError(t, err)
            \/ HandleBots
  <2>1. UNCHANGED <<life, pendingSlaves>>
    BY <1>13 DEF HandleRequest, HandleResult, HandleTaskLaunch, HandleFailed, HandleBots,
         HandleBotError, masterVars
  <2>2. \E m : Handling(m)
    BY <1>13 DEF HandleRequest, HandleResult, HandleTaskLaunch, HandleFailed, HandleBots,
         HandleBotError
  <2>3. QED
    BY <1>2, <2>1, <2>2
<1>14. CASE UNCHANGED vars
  BY <1>4, <1>14 DEF vars, masterVars
<1>15. QED
  BY <1>6, <1>7, <1>8, <1>9, <1>10, <1>11, <1>12, <1>13, <1>14 DEF Next, Handle

(* nyx_master.go:799-820, 606-744: the tasks the master waits for in the   *)
(* scheduler are never more than half the bots, so with a queue of 30, as  *)
(* in main, it takes more than 62 bots to build the backlog that wedges    *)
(* the scheduler (WedgeIsABacklog in SchedulerProofs).                     *)
THEOREM BacklogStaysBounded ==
  Spec => [](Cardinality(Unanswered) <= Bound)
<1>1. Init => UnansweredPend
  <2>1. BagToSet(EmptyBag) = {}
    BY DEF EmptyBag, BagToSet, SetToBag
  <2>2. QED
    BY <2>1 DEF Init, UnansweredPend, Unanswered, InTransit
<1>2. TypeOK /\ UnansweredPend /\ FleetBounded => Cardinality(Unanswered) <= Bound
  <2> SUFFICES ASSUME TypeOK, UnansweredPend, FleetBounded
               PROVE  Cardinality(Unanswered) <= Bound
    OBVIOUS
  <2>1. /\ IsFiniteSet(slaves) /\ IsFiniteSet(pendingSlaves)
        /\ Unanswered \subseteq pendingSlaves
    BY MasterAssumption, FS_Subset DEF TypeOK, UnansweredPend
  <2>2. Cardinality(Unanswered) <= Cardinality(pendingSlaves)
    BY <2>1, FS_Subset
  <2>3. /\ Cardinality(Unanswered) \in Nat /\ Cardinality(pendingSlaves) \in Nat
        /\ Cardinality(slaves) \in Nat
    BY <2>1, FS_Subset, FS_CardinalityType
  <2>4. Bound \in Int /\ Cardinality(slaves) + Cardinality(pendingSlaves) <= Bound
    BY MasterAssumption DEF FleetBounded, Total, Bound
  <2>5. QED
    BY <2>2, <2>3, <2>4
<1>3. TypeOK /\ UnansweredPend /\ [Next]_vars => UnansweredPend'
  BY UnansweredStep
<1>4. QED
  BY <1>1, <1>2, <1>3, Everything, PTL DEF Spec
=============================================================================
