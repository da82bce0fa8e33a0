-------------------------- MODULE SubmissionService --------------------------
(***************************************************************************)
(* The start of the submission service and its requests about bots         *)
(* (submission_service.go), with the part of the master that keeps the     *)
(* bots (nyx_master.go), over the postman.                                 *)
(*                                                                         *)
(* Requests are served concurrently, each once.  AddBot and UpdateBot      *)
(* write in a transaction, ask the master to read the bots again, and then *)
(* commit; DeleteBot writes first.  The cookies a request writes are named *)
(* by the request, those the bot manager writes by Renewed.                *)
(***************************************************************************)
EXTENDS Postman, FiniteSets

CONSTANTS Requests, Bots,
          Watchers,   \* clients that are registered and unregistered
          Old,        \* cookies the table held before
          Renewed,
          MaxActors   \* bound on requests, watchers, reports and deaths together

Names == {PostmanID, "scheduler", "service", "master", "manager", "botManager"}

ASSUME ServiceAssumption ==
  /\ Watchers \cap Names = {}
  /\ None \notin Requests \cup Bots /\ Requests \cap Bots = {}
  /\ {Old, Renewed} \cap Requests = {}
  /\ Old # None /\ Renewed # None

VARIABLES boot,       \* how far Start is
          watched,    \* watchers that were created
          pc,         \* where each request is
          tx,         \* the bot its open transaction has written, or None
          table,      \* the rows of bots: the committed cookies, or None
          bots,       \* master.bots
          corrupted,  \* history: bots taken off since the last were read
          handled,    \* requests to refresh the master has handled
          stale,      \* history: a refresh failed or was left out since the last
          overtaken   \* history: refreshes handled before their commit

serviceVars == <<boot, watched, pc, tx, table, bots, corrupted, handled, stale, overtaken>>
vars == <<postmanVars, serviceVars>>

(* What the scheduler's callbacks for the first slave post; the second is  *)
(* posted in the master's name.                                            *)
Launch == [from |-> "scheduler", to |-> "master", about |-> None]
Death == [from |-> "master", to |-> "master", about |-> None]
FirstSlave == {Launch, Death}

Refresh(r) == [from |-> "service", to |-> "master", about |-> r]
Share(r) == [from |-> "master", to |-> "botManager", about |-> r]
Corrupt(b) == [from |-> "master", to |-> "botManager", about |-> b]
Result(w) == [from |-> "master", to |-> w, about |-> None]
Over(w) == [from |-> "manager", to |-> PostmanID, about |-> w]

(* All mails, and what the postman posts about them.                       *)
Mails ==
  FirstSlave \cup {Refresh(r) : r \in Requests} \cup {Share(r) : r \in Requests \cup {None}}
    \cup {Corrupt(b) : b \in Bots}
    \cup {Result(w) : w \in Watchers} \cup {Over(w) : w \in Watchers}
Letters == Mails \cup {Bounce(m) : m \in Mails}

ASSUME NoneAssumption == None \notin Letters

Init ==
  /\ PostmanInit
  /\ boot = "postman" /\ watched = {}
  /\ pc = [r \in Requests |-> "idle"]
  /\ tx = [r \in Requests |-> None]
  /\ table \in [Bots -> {None, Old}]
  /\ bots = [b \in Bots |-> None]
  /\ corrupted = {} /\ handled = {}
  /\ stale = TRUE /\ overtaken = {}

(* Bound: nothing comes when there have been MaxActors.                    *)
Actors ==
  {r \in Requests : pc[r] # "idle"} \cup watched
    \cup {m \in {Death} \cup {Corrupt(b) : b \in Bots} : Posted(m)}
MoreActors == Cardinality(Actors) < MaxActors

(* The master's goroutine is in postMail.                                  *)
Waits == \E m \in posting : m.from = "master" /\ m # Death

OthersUnchanged == UNCHANGED <<mailBox, inHand, carrying, received, closed>>

-----------------------------------------------------------------------------
(* Start.  The master's Start registers the bot manager, reads the bots,   *)
(* if it can, and shares them.                                             *)
RegisterBotManager ==
  /\ boot = "postman"
  /\ boot' = "botManager"
  /\ RegisterMailClient("botManager")
  /\ OthersUnchanged
  /\ UNCHANGED <<posting, watched, pc, tx, table, bots, corrupted, handled, stale, overtaken>>

StartMaster ==
  /\ boot = "botManager"
  /\ boot' = "master"
  /\ \/ bots' = table /\ stale' = FALSE /\ PostMail(Share(None))
     \/ UNCHANGED <<bots, stale, posting>>
  /\ OthersUnchanged
  /\ UNCHANGED <<mailClients, watched, pc, tx, table, corrupted, handled, overtaken>>

(* The first slave is asked for before the master is registered.           *)
StartSlave ==
  /\ boot = "master" /\ ~ Waits
  /\ boot' = "slave"
  /\ UNCHANGED postmanVars
  /\ UNCHANGED <<watched, pc, tx, table, bots, corrupted, handled, stale, overtaken>>

RegisterMaster ==
  /\ boot = "slave"
  /\ boot' = "up"
  /\ RegisterMailClient("master")
  /\ OthersUnchanged
  /\ UNCHANGED <<posting, watched, pc, tx, table, bots, corrupted, handled, stale, overtaken>>

(* OnLaunchComplete and OnTaskComplete of the first slave, each called in  *)
(* a goroutine of its own, in any order.                                   *)
SchedulerCalls(m) ==
  /\ boot \in {"slave", "up"}
  /\ ~ Posted(m) /\ (m = Death => MoreActors)
  /\ PostMail(m)
  /\ OthersUnchanged
  /\ UNCHANGED <<mailClients, serviceVars>>

-----------------------------------------------------------------------------
Become(r, stage) == pc' = [pc EXCEPT ![r] = stage]
Holding(r, b) == tx' = [tx EXCEPT ![r] = b]
RequestUnchanged == UNCHANGED <<boot, watched, bots, corrupted, handled, overtaken>>

(* No transaction of another request has written the row.                  *)
RowFree(b) == \A s \in Requests : tx[s] # b

(* Mutant of Begins: requests come in while the service is being started.  *)
BeginsEarly(r) == boot # "postman" /\ MoreActors /\ pc[r] = "idle"

Begins(r) == boot = "up" /\ MoreActors /\ pc[r] = "idle"

(* A request and its first statement: what fails there has done nothing.   *)
InsertBot(r, b) ==
  /\ Begins(r) /\ Become(r, "ask")
  /\ table[b] = None /\ RowFree(b)
  /\ Holding(r, b)
  /\ UNCHANGED <<postmanVars, table, stale>> /\ RequestUnchanged

UpdateBot(r, b) ==
  /\ Begins(r) /\ Become(r, "ask")
  /\ table[b] # None /\ RowFree(b)
  /\ Holding(r, b)
  /\ UNCHANGED <<postmanVars, table, stale>> /\ RequestUnchanged

(* Outside a transaction.  An insertion that is not committed is not seen. *)
DeleteBot(r, b) ==
  /\ Begins(r) /\ Become(r, "deleted")
  /\ table[b] # None => RowFree(b)
  /\ table' = [table EXCEPT ![b] = None]
  /\ UNCHANGED <<postmanVars, tx, stale>> /\ RequestUnchanged

AskRefresh(r) ==
  /\ Begins(r) /\ Become(r, "ask")
  /\ UNCHANGED <<postmanVars, tx, table, stale>> /\ RequestUnchanged

(* Mutant of RefreshBots: one that is under way is taken to be enough.     *)
RefreshBotsOnce(r) ==
  LET due == {s \in Requests : Refresh(s) \in posting \cup carrying \cup (received \ handled)}
  IN  /\ pc[r] \in {"ask", "deleted"} /\ Become(r, "posting")
      /\ IF due = {} THEN PostMail(Refresh(r)) ELSE UNCHANGED posting
      /\ OthersUnchanged
      /\ UNCHANGED <<mailClients, tx, table, stale>> /\ RequestUnchanged

(* RefreshBots, whose authorization reads the roles of the user.           *)
RefreshBots(r) ==
  /\ pc[r] \in {"ask", "deleted"} /\ Become(r, "posting")
  /\ PostMail(Refresh(r))
  /\ OthersUnchanged
  /\ UNCHANGED <<mailClients, tx, table, stale>> /\ RequestUnchanged

(* AddBot and UpdateBot are rolled back; a deletion stays although it is   *)
(* said to be reverted.                                                    *)
RefreshFails(r) ==
  /\ pc[r] \in {"ask", "deleted"} /\ Become(r, "done")
  /\ Holding(r, None)
  /\ stale' = (stale \/ pc[r] = "deleted")
  /\ UNCHANGED <<postmanVars, table>> /\ RequestUnchanged

(* postMail has returned.                                                  *)
Commit(r) ==
  /\ pc[r] = "posting" /\ Refresh(r) \notin posting /\ Become(r, "done")
  /\ table' = [b \in Bots |-> IF tx[r] = b THEN r ELSE table[b]]
  /\ Holding(r, None)
  /\ UNCHANGED <<postmanVars, stale>> /\ RequestUnchanged

(* The transaction is rolled back.                                         *)
CommitFails(r) ==
  /\ pc[r] = "posting" /\ Refresh(r) \notin posting /\ Become(r, "done")
  /\ tx[r] # None /\ Holding(r, None)
  /\ UNCHANGED <<postmanVars, table, stale>> /\ RequestUnchanged

(* The bot manager has new cookies of a bot (updateBotCookies).            *)
RenewCookies(b) ==
  /\ boot = "up" /\ table[b] # None /\ RowFree(b)
  /\ table' = [table EXCEPT ![b] = Renewed]
  /\ UNCHANGED <<postmanVars, pc, tx, stale>> /\ RequestUnchanged

-----------------------------------------------------------------------------
(* processMails of the master.  What it does with a launch, a death or a   *)
(* mail that was returned is in NyxMaster.                                 *)
Handles(m) ==
  /\ m \in received \ handled
  /\ ~ Waits
  /\ handled' = handled \cup {m}

(* The bots are read and shared, or kept if they cannot be read.           *)
refreshBots(r) ==
  /\ Handles(Refresh(r))
  /\ overtaken' = IF tx[r] # None THEN overtaken \cup {r} ELSE overtaken
  /\ \/ bots' = table /\ corrupted' = {} /\ stale' = FALSE /\ PostMail(Share(r))
     \/ stale' = TRUE /\ UNCHANGED <<bots, corrupted, posting>>
  /\ OthersUnchanged
  /\ UNCHANGED <<mailClients, boot, watched, pc, tx, table>>

(* A slave has reported the bot, once.  The mail to the managers is in     *)
(* Mailer.                                                                 *)
handleCorruptedBot(b) ==
  /\ boot = "up" /\ MoreActors
  /\ ~ Waits /\ ~ Posted(Corrupt(b))
  /\ bots[b] # None
  /\ bots' = [bots EXCEPT ![b] = None]
  /\ corrupted' = corrupted \cup {b}
  /\ PostMail(Corrupt(b))
  /\ OthersUnchanged
  /\ UNCHANGED <<mailClients, boot, watched, pc, tx, table, handled, stale, overtaken>>

-----------------------------------------------------------------------------
(* A watcher is created, gets a result of the master, and is over.         *)
WatcherUnchanged ==
  /\ OthersUnchanged
  /\ UNCHANGED <<boot, pc, tx, table, bots, corrupted, handled, stale, overtaken>>

CreateWatcher(w) ==
  /\ boot = "up" /\ MoreActors
  /\ w \notin watched
  /\ watched' = watched \cup {w}
  /\ RegisterMailClient(w)
  /\ UNCHANGED posting /\ WatcherUnchanged

SendResult(w) ==
  /\ w \in watched /\ ~ Waits /\ ~ Posted(Result(w))
  /\ PostMail(Result(w))
  /\ UNCHANGED <<mailClients, watched>> /\ WatcherUnchanged

EndWatcher(w) ==
  /\ w \in watched /\ ~ Posted(Over(w))
  /\ PostMail(Over(w))
  /\ UNCHANGED <<mailClients, watched>> /\ WatcherUnchanged

ServiceNext ==
  \/ RegisterBotManager \/ StartMaster \/ StartSlave \/ RegisterMaster
  \/ \E m \in FirstSlave : SchedulerCalls(m)
  \/ \E r \in Requests :
       \/ \E b \in Bots : InsertBot(r, b) \/ UpdateBot(r, b) \/ DeleteBot(r, b)
       \/ AskRefresh(r) \/ RefreshBots(r) \/ RefreshFails(r)
       \/ Commit(r) \/ CommitFails(r) \/ refreshBots(r)
  \/ \E b \in Bots : RenewCookies(b) \/ handleCorruptedBot(b)
  \/ \E w \in Watchers : CreateWatcher(w) \/ SendResult(w) \/ EndWatcher(w)

Next ==
  \/ PostmanNext /\ UNCHANGED serviceVars
  \/ ServiceNext

(* The Go runtime runs every goroutine that can run; a blocked sender of a *)
(* channel gets its turn.                                                  *)
Fairness ==
  /\ WF_vars(deliverMails /\ UNCHANGED serviceVars)
  /\ \A m \in Letters : WF_vars(Enter(m) /\ UNCHANGED serviceVars)
                        /\ WF_vars(recieveMail(m) /\ UNCHANGED serviceVars)

Spec == Init /\ [][Next]_vars
FairSpec == Spec /\ Fairness
=============================================================================
