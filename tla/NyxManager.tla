------------------------------ MODULE NyxManager ------------------------------
(***************************************************************************)
(* From a submission's row to its result: submit.go inserts it, the        *)
(* manager (nyx_manager.go) gives it a watcher, and the watcher            *)
(* (nyx_watcher.go) has the master submit it and records the result.       *)
(*                                                                         *)
(* A statement of the database is one step, for others write the same      *)
(* rows, and any of them may fail.  A mail posted twice before it is       *)
(* handled is in `mails' once: whoever posts it may post it again.  Mails  *)
(* are taken in any order.  Of the master and its slaves, which NyxMaster  *)
(* models, there is what a watcher can see: a request is dropped, or       *)
(* answered with an id of the platform or an error.  The monitors of       *)
(* CfMonitor change the rows as Submission allows them to.                 *)
(***************************************************************************)
EXTENDS Submission

CONSTANTS Malformed,    \* submissions whose solution lacks a key
          Watchers,     \* names for the watchers made
          MaxRestarts,  \* bound on the restarts of the program
          None

ASSUME ManagerAssumption ==
  /\ Malformed \subseteq Subs
  /\ MaxRestarts \in Nat
  /\ None \notin Watchers \cup Subs

VARIABLES mails,               \* in transit, or in a mailbox
          mailClients,         \* the postman's entry for a watcher's mail id
          watchers,            \* the manager's map
          sub, pc, val, ends,  \* of a watcher: its submission, its goroutine,
                               \* the status it has read or was told, whether
                               \* its watch ends and the manager is told so
          restarts, down       \* down: a panic outside of every recover

watcherVars == <<sub, pc, val, ends>>
program == <<restarts, down>>
vars == <<rows, mails, mailClients, watchers, watcherVars, program>>

Status(id, verdict) == [id |-> id, verdict |-> verdict]
NoStatus == Status(0, "TESTING")

FluxSubmission(s) == [kind |-> "fluxSubmission", sub |-> s]
WatchEnd(s) == [kind |-> "watchEnd", sub |-> s]
InvalidClient(s) == [kind |-> "invalidMailClient", sub |-> s]
Unregister(s) == [kind |-> "unregisterMailClient", sub |-> s]
SubmitMail(s) == [kind |-> "submit", sub |-> s]
Request(s) == [kind |-> "cfSubRequest", sub |-> s]
Result(s, stat) == [kind |-> "cfSubResult", sub |-> s, status |-> stat]

Kinds == {"fluxSubmission", "watchEnd", "invalidMailClient",
          "unregisterMailClient", "submit", "cfSubRequest"}
Statuses == {NoStatus} \cup [id : CfIds, verdict : Verdicts]
Mail == [kind : Kinds, sub : Subs]
          \cup [kind : {"cfSubResult"}, sub : Subs, status : Statuses]

Init ==
  /\ InitRows
  /\ mails = {}
  /\ mailClients = [s \in Subs |-> None]
  /\ watchers = [s \in Subs |-> None]
  /\ sub = [w \in Watchers |-> None]
  /\ pc = [w \in Watchers |-> "none"]
  /\ val = [w \in Watchers |-> NoStatus]
  /\ ends = [w \in Watchers |-> "no"]
  /\ restarts = 0 /\ down = FALSE

-----------------------------------------------------------------------------
(* Submit inserts the row and mails the manager, who polls for rows that   *)
(* have not come to the platform.                                          *)
Submit(s) ==
  /\ Create(s)
  /\ mails' = mails \cup {FluxSubmission(s)}
  /\ UNCHANGED <<mailClients, watchers, watcherVars, program>>

(* Mutant of Poll: failed submissions are not looked for.                  *)
PollQueued ==
  /\ mails' = mails \cup {FluxSubmission(s) : s \in {u \in Subs : state[u] = "flux_queued"}}
  /\ UNCHANGED <<rows, mailClients, watchers, watcherVars, program>>

Poll ==
  /\ mails' = mails \cup {FluxSubmission(s) : s \in {u \in Subs : Pending(u)}}
  /\ UNCHANGED <<rows, mailClients, watchers, watcherVars, program>>

-----------------------------------------------------------------------------
(* The manager and the postman's register.  A watcher's mail id is made of *)
(* its submission, so a later watcher of the submission has the same.      *)
Handling(m) == m \in mails /\ mails' = mails \ {m}
Answering(m, S) == m \in mails /\ mails' = (mails \ {m}) \cup S

(* The name of a watcher nobody knows any more may be given again.         *)
Free(w) ==
  \/ pc[w] = "none"
  \/ /\ pc[w] = "over"
     /\ \A s \in Subs : watchers[s] # w /\ mailClients[s] # w

(* Registered and in the map before start looks at the solution.           *)
CreateWatcher(s) ==
  \E w \in Watchers :
    /\ Free(w)
    /\ mailClients' = [mailClients EXCEPT ![s] = w]
    /\ watchers' = [watchers EXCEPT ![s] = w]
    /\ sub' = [sub EXCEPT ![w] = s]
    /\ pc' = [pc EXCEPT ![w] = IF s \in Malformed THEN "unstarted" ELSE "idle"]
    /\ val' = [val EXCEPT ![w] = NoStatus]
    /\ ends' = [ends EXCEPT ![w] = "no"]

(* Mutant of HandleSubmission: whether there is a watcher is not asked.    *)
HandleSubmissionAnew(s) ==
  /\ Answering(FluxSubmission(s), IF s \in Malformed THEN {} ELSE {SubmitMail(s)})
  /\ CreateWatcher(s)
  /\ UNCHANGED <<rows, program>>

HandleSubmission(s) ==
  /\ Answering(FluxSubmission(s),
               IF watchers[s] = None /\ s \in Malformed THEN {} ELSE {SubmitMail(s)})
  /\ IF watchers[s] = None
       THEN CreateWatcher(s)
       ELSE UNCHANGED <<mailClients, watchers, watcherVars>>
  /\ UNCHANGED <<rows, program>>

(* A watcher's last word.  The postman forgets the mail id later.          *)
HandleWatchEnd(s) ==
  /\ Answering(WatchEnd(s), IF watchers[s] = None THEN {} ELSE {Unregister(s)})
  /\ watchers' = [watchers EXCEPT ![s] = None]
  /\ UNCHANGED <<rows, mailClients, watcherVars, program>>

HandleUnregister(s) ==
  /\ Handling(Unregister(s))
  /\ mailClients' = [mailClients EXCEPT ![s] = None]
  /\ UNCHANGED <<rows, watchers, watcherVars, program>>

(* A mail to an id that is not registered goes back to its sender: the     *)
(* manager registers the watcher it has, the master has no use for it.     *)
BounceToManager(s) ==
  /\ mailClients[s] = None
  /\ Answering(SubmitMail(s), {InvalidClient(s)})
  /\ UNCHANGED <<rows, mailClients, watchers, watcherVars, program>>

BounceToMaster(s) ==
  /\ mailClients[s] = None
  /\ \E m \in mails : m.kind = "cfSubResult" /\ m.sub = s /\ Handling(m)
  /\ UNCHANGED <<rows, mailClients, watchers, watcherVars, program>>

HandleInvalidClient(s) ==
  /\ Handling(InvalidClient(s))
  /\ mailClients' = [mailClients EXCEPT ![s] = IF watchers[s] = None THEN @ ELSE watchers[s]]
  /\ UNCHANGED <<rows, watchers, watcherVars, program>>

(* Delivered to a watcher that does not read any more, or to one that was  *)
(* never started and has no mailbox: the goroutine that delivers it panics.*)
DeliverInVain(s) ==
  LET w == mailClients[s]
  IN  /\ w # None
      /\ pc[w] \in {"over", "unstarted"}
      /\ \E m \in mails : m.kind \in {"submit", "cfSubResult"} /\ m.sub = s /\ Handling(m)
      /\ down' = (pc[w] = "unstarted")
      /\ UNCHANGED <<rows, mailClients, watchers, watcherVars, restarts>>

-----------------------------------------------------------------------------
(* A watcher.                                                              *)
Goto(w, label) == pc' = [pc EXCEPT ![w] = label]
watcherEnv == <<mailClients, watchers, program>>

(* cfSubmit, getSubmission.                                                *)
ReadSubmission(w) ==
  /\ pc[w] = "idle"
  /\ Handling(SubmitMail(sub[w]))
  /\ val' = [val EXCEPT ![w] = Status(cfSubID[sub[w]], "TESTING")]
  /\ Goto(w, "read")
  /\ UNCHANGED <<rows, sub, ends, watcherEnv>>

ReadSubmissionFails(w) ==
  /\ pc[w] = "idle"
  /\ Handling(SubmitMail(sub[w]))
  /\ Goto(w, "fail")
  /\ UNCHANGED <<rows, sub, val, ends, watcherEnv>>

(* It was submitted before: the manager is told, then the deferred update  *)
(* of the state is tried.                                                  *)
AbortSubmission(w) ==
  /\ pc[w] = "read"
  /\ val[w].id # 0
  /\ mails' = mails \cup {WatchEnd(sub[w])}
  /\ ends' = [ends EXCEPT ![w] = "told"]
  /\ Goto(w, "fail")
  /\ UNCHANGED <<rows, sub, val, watcherEnv>>

(* Mutant of RequestMaster: the id read is not looked at.                  *)
RequestMasterAnyway(w) ==
  /\ pc[w] = "read"
  /\ mails' = mails \cup {Request(sub[w])}
  /\ Goto(w, "idle")
  /\ UNCHANGED <<rows, sub, val, ends, watcherEnv>>

RequestMaster(w) ==
  /\ pc[w] = "read"
  /\ val[w].id = 0
  /\ mails' = mails \cup {Request(sub[w])}
  /\ Goto(w, "idle")
  /\ UNCHANGED <<rows, sub, val, ends, watcherEnv>>

(* The problem, or its code on the platform, is not found.                 *)
NoProblem(w) ==
  /\ pc[w] = "read"
  /\ val[w].id = 0
  /\ Goto(w, "fail")
  /\ UNCHANGED <<rows, mails, sub, val, ends, watcherEnv>>

(* handleSubResult.  InsertCfSubmission waits for a transaction that holds *)
(* an equal key, and fails if there is a row with one.                     *)
InTransaction(w) == pc[w] \in {"inserted", "checked"}
Conflict(s, id) == Recorded(s) \/ Taken(id)
Blocked(w, s, id) ==
  \E u \in Watchers \ {w} : InTransaction(u) /\ (val[u].id = id \/ sub[u] = s)

ResultFails(w) ==
  /\ pc[w] = "idle"
  /\ \E m \in mails : m.kind = "cfSubResult" /\ m.sub = sub[w] /\ Handling(m)
  /\ Goto(w, "fail")
  /\ UNCHANGED <<rows, sub, val, ends, watcherEnv>>

(* Mutant of InsertCfSubmission: outside of the transaction.               *)
InsertCommitted(w, stat) ==
  /\ pc[w] = "idle"
  /\ stat.id # 0
  /\ Handling(Result(sub[w], stat))
  /\ ~ Conflict(sub[w], stat.id)
  /\ cfSubID' = [cfSubID EXCEPT ![sub[w]] = stat.id]
  /\ val' = [val EXCEPT ![w] = stat]
  /\ Goto(w, "inserted")
  /\ UNCHANGED <<state, sub, ends, watcherEnv>>

InsertCfSubmission(w, stat) ==
  LET s == sub[w]
  IN  /\ pc[w] = "idle"
      /\ stat.id # 0
      /\ Handling(Result(s, stat))
      /\ ~ Blocked(w, s, stat.id)
      /\ IF Conflict(s, stat.id)
           THEN /\ ends' = [ends EXCEPT ![w] = "untold"]
                /\ Goto(w, "fail")
                /\ UNCHANGED val
           ELSE /\ val' = [val EXCEPT ![w] = stat]
                /\ Goto(w, "inserted")
                /\ UNCHANGED ends
      /\ UNCHANGED <<rows, sub, watcherEnv>>

(* updateCfSubmissionState reads the state outside of the transaction.     *)
CheckState(w) ==
  /\ pc[w] = "inserted"
  /\ ~ Sink(state[sub[w]])
  /\ Goto(w, "checked")
  /\ UNCHANGED <<rows, mails, sub, val, ends, watcherEnv>>

Commit(w) ==
  LET s == sub[w]
  IN  /\ pc[w] = "checked"
      /\ state' = [state EXCEPT ![s] = val[w].verdict]
      /\ cfSubID' = [cfSubID EXCEPT ![s] = val[w].id]
      /\ mails' = mails \cup {WatchEnd(s)}
      /\ ends' = [ends EXCEPT ![w] = "told"]
      /\ Goto(w, "over")
      /\ val' = [val EXCEPT ![w] = NoStatus]
      /\ UNCHANGED <<sub, watcherEnv>>

Rollback(w) ==
  /\ InTransaction(w)
  /\ Goto(w, "fail")
  /\ val' = [val EXCEPT ![w] = NoStatus]
  /\ UNCHANGED <<rows, mails, sub, ends, watcherEnv>>

(* The deferred updateSubStateToFailure, then the watcher goes on or ends. *)
Return(w) ==
  /\ Goto(w, IF ends[w] = "no" THEN "idle" ELSE "over")
  /\ val' = [val EXCEPT ![w] = NoStatus]

(* Mutant of CheckFailure: a state of the platform is no obstacle.         *)
CheckFailureNot(w) ==
  /\ pc[w] = "fail"
  /\ Goto(w, "failing")
  /\ UNCHANGED <<rows, mails, sub, val, ends, watcherEnv>>

CheckFailure(w) ==
  /\ pc[w] = "fail"
  /\ \/ Pending(sub[w]) /\ Goto(w, "failing") /\ UNCHANGED val
     \/ Return(w)
  /\ UNCHANGED <<rows, mails, sub, ends, watcherEnv>>

(* Mutant of UpdateToFailure: a state nobody knows.                        *)
UpdateToFailed(w) ==
  /\ pc[w] = "failing"
  /\ state' = [state EXCEPT ![sub[w]] = "failed"]
  /\ Return(w)
  /\ UNCHANGED <<cfSubID, mails, sub, ends, watcherEnv>>

UpdateToFailure(w) ==
  /\ pc[w] = "failing"
  /\ \/ state' = [state EXCEPT ![sub[w]] = "flux_failed"]
     \/ UNCHANGED state
  /\ Return(w)
  /\ UNCHANGED <<cfSubID, mails, sub, ends, watcherEnv>>

-----------------------------------------------------------------------------
(* The master and its slaves, as far as a watcher can see: a request is    *)
(* dropped, or its answer is an error or the bot's latest submission.      *)
DropRequest(s) ==
  /\ Handling(Request(s))
  /\ UNCHANGED <<rows, mailClients, watchers, watcherVars, program>>

Answer(s, stat) ==
  /\ Answering(Request(s), {Result(s, stat)})
  /\ UNCHANGED <<rows, mailClients, watchers, watcherVars, program>>

(* A bot's monitor.                                                        *)
FollowVerdicts ==
  /\ Advance
  /\ UNCHANGED <<mails, mailClients, watchers, watcherVars, program>>

(* The program ends and is started again; the rows stay.                   *)
Restart ==
  /\ restarts < MaxRestarts
  /\ restarts' = restarts + 1
  /\ mails' = {}
  /\ mailClients' = [s \in Subs |-> None]
  /\ watchers' = [s \in Subs |-> None]
  /\ sub' = [w \in Watchers |-> None]
  /\ pc' = [w \in Watchers |-> "none"]
  /\ val' = [w \in Watchers |-> NoStatus]
  /\ ends' = [w \in Watchers |-> "no"]
  /\ UNCHANGED <<rows, down>>

Manage ==
  \/ Poll
  \/ \E s \in Subs : \/ Submit(s) \/ HandleSubmission(s) \/ HandleWatchEnd(s)
                     \/ HandleUnregister(s) \/ BounceToManager(s) \/ BounceToMaster(s)
                     \/ HandleInvalidClient(s) \/ DeliverInVain(s)

Watch(w) ==
  \/ ReadSubmission(w) \/ ReadSubmissionFails(w)
  \/ AbortSubmission(w) \/ RequestMaster(w) \/ NoProblem(w)
  \/ ResultFails(w)
  \/ \E stat \in Statuses : InsertCfSubmission(w, stat)
  \/ CheckState(w) \/ Commit(w) \/ Rollback(w)
  \/ CheckFailure(w) \/ UpdateToFailure(w)

Next ==
  /\ ~ down
  /\ \/ Manage
     \/ \E w \in Watchers : Watch(w)
     \/ \E s \in Subs : \/ DropRequest(s)
                        \/ \E stat \in Statuses : Answer(s, stat)
     \/ FollowVerdicts
     \/ Restart

Spec == Init /\ [][Next]_vars

(* The goroutines go on; what may fail, database and platform, does not    *)
(* fail every time; mail to a watcher the postman knows does not wait for  *)
(* ever.                                                                   *)
Success == {stat \in Statuses : stat.id # 0}
WatcherOf(s) == {w \in Watchers : sub[w] = s}

Fairness ==
  /\ WF_vars(~ down /\ Poll)
  /\ \A s \in Subs \ Malformed :
       /\ WF_vars(~ down /\ HandleSubmission(s))
       /\ WF_vars(~ down /\ (BounceToManager(s) \/ HandleInvalidClient(s)))
       /\ SF_vars(~ down /\ \E stat \in Success : Answer(s, stat))
       /\ WF_vars(~ down /\ \E w \in WatcherOf(s) : CheckFailure(w) \/ UpdateToFailure(w))
       /\ SF_vars(~ down /\ \E w \in WatcherOf(s) : mailClients[s] = w /\ ReadSubmission(w))
       /\ SF_vars(~ down /\ \E w \in WatcherOf(s) : AbortSubmission(w) \/ RequestMaster(w))
       /\ SF_vars(~ down /\ \E w \in WatcherOf(s), stat \in Success :
                               mailClients[s] = w /\ InsertCfSubmission(w, stat))
       /\ SF_vars(~ down /\ \E w \in WatcherOf(s) : CheckState(w))
       /\ SF_vars(~ down /\ \E w \in WatcherOf(s) : Commit(w))

FairSpec == Spec /\ Fairness
=============================================================================
