------------------------------- MODULE Mailer --------------------------------
(***************************************************************************)
(* The email package: NewMail puts a job on the bounded emailChan or       *)
(* returns when its context is done, the worker dials, sends, and closes   *)
(* an idle connection.  main starts the worker after the services, so a    *)
(* mail may be asked for while emailChan is still nil.                     *)
(*                                                                         *)
(* The one internal client is here too: the master's goroutine that alerts *)
(* the managers of a corrupted bot by MailManagers, for ten minutes.       *)
(***************************************************************************)
EXTENDS Integers, FiniteSets, Sequences

CONSTANTS Bots,            \* the bots that may be found corrupted
          EmailCapacity,   \* defaultEmailChannelCapacity
          None

ASSUME MailerAssumption == EmailCapacity \in Nat \ {0}

VARIABLES env,         \* which of the environment variables are set
          started,     \* StartEmailWorkers was called, emailChan is not nil
          emailChan,   \* the jobs in the channel
          open,        \* the worker has a connection
          inHand,      \* the job the worker sends, or None
          sent,        \* the jobs the server has taken
          alerts,      \* how far the alert of a corrupted bot is
          late         \* the bots whose alert is older than ten minutes

mailerVars == <<env, started, emailChan, open, inHand, sent, alerts, late>>

TokenMail(t) == [about |-> "token", of |-> t]
AlertMail(b) == [about |-> "bot", of |-> b]

MailerInit ==
  /\ env \in {"complete", "noPassword", "noSender"}
  /\ started = FALSE
  /\ emailChan = <<>>
  /\ open = FALSE /\ inHand = None
  /\ sent = {}
  /\ alerts = [b \in Bots |-> "idle"]
  /\ late = {}

(* main.go:200.                                                            *)
StartEmailWorkers ==
  /\ ~ started
  /\ started' = TRUE
  /\ UNCHANGED <<env, emailChan, open, inHand, sent, alerts, late>>

(* Mutant of Queue: the channel has no capacity.                           *)
QueueUnbounded(job) ==
  /\ started
  /\ emailChan' = Append(emailChan, job)

(* The select of NewMail takes the channel it found when it was reached:   *)
(* a send on the nil channel stays blocked although one is made later.     *)
Queue(job) ==
  /\ started
  /\ Len(emailChan) < EmailCapacity
  /\ emailChan' = Append(emailChan, job)

-----------------------------------------------------------------------------
(* The worker, which has returned at once if there is no dialer.           *)
WorkerRuns == started /\ env = "complete"

(* A job is taken and, if the connection was closed, lost when dialing     *)
(* fails.                                                                  *)
TakeJob ==
  /\ WorkerRuns
  /\ inHand = None
  /\ emailChan # <<>>
  /\ emailChan' = Tail(emailChan)
  /\ \/ open' = TRUE /\ inHand' = Head(emailChan)
     \/ ~ open /\ UNCHANGED <<open, inHand>>
  /\ UNCHANGED <<env, started, sent, alerts, late>>

(* After a failure the connection is closed, the job is not sent again.    *)
Send ==
  /\ inHand # None
  /\ inHand' = None
  /\ \/ sent' = sent \cup {inHand} /\ UNCHANGED open
     \/ open' = FALSE /\ UNCHANGED sent
  /\ UNCHANGED <<env, started, emailChan, alerts, late>>

(* Thirty seconds without a job.                                           *)
CloseIdle ==
  /\ WorkerRuns
  /\ inHand = None
  /\ open
  /\ open' = FALSE
  /\ UNCHANGED <<env, started, emailChan, inHand, sent, alerts, late>>

-----------------------------------------------------------------------------
(* The goroutine of the master that alerts the managers.                   *)
SetAlert(b, stage) == alerts' = [alerts EXCEPT ![b] = stage]

ReportCorruptedBot(b) ==
  /\ alerts[b] = "idle"
  /\ SetAlert(b, "asking")
  /\ UNCHANGED <<env, started, emailChan, open, inHand, sent, late>>

(* MailManagers: the addresses of the managers, whose query may fail, then *)
(* NewMail, whose error is not looked at.                                  *)
MailManagers(b) ==
  /\ alerts[b] = "asking"
  /\ \/ SetAlert(b, "sleeping")
     \/ /\ b \notin late
        /\ SetAlert(b, CASE env = "noSender" -> "told"
                         [] env # "noSender" /\ started -> "queueing"
                         [] OTHER -> "onNil")
  /\ UNCHANGED <<env, started, emailChan, open, inHand, sent, late>>

AlertQueued(b) ==
  /\ alerts[b] = "queueing"
  /\ Queue(AlertMail(b))
  /\ SetAlert(b, "told")
  /\ UNCHANGED <<env, started, open, inHand, sent, late>>

AlertCut(b) ==
  /\ alerts[b] \in {"queueing", "onNil"}
  /\ b \in late
  /\ SetAlert(b, "told")
  /\ UNCHANGED <<env, started, emailChan, open, inHand, sent, late>>

(* Every thirty seconds another attempt, until the ten minutes are over.   *)
AlertAgain(b) ==
  /\ alerts[b] = "sleeping"
  /\ SetAlert(b, "asking")
  /\ UNCHANGED <<env, started, emailChan, open, inHand, sent, late>>

AlertGivesUp(b) ==
  /\ alerts[b] = "sleeping"
  /\ b \in late
  /\ SetAlert(b, "gaveUp")
  /\ UNCHANGED <<env, started, emailChan, open, inHand, sent, late>>

Deadline(b) ==
  /\ alerts[b] # "idle"
  /\ b \notin late
  /\ late' = late \cup {b}
  /\ UNCHANGED <<env, started, emailChan, open, inHand, sent, alerts>>

MailerNext ==
  \/ StartEmailWorkers
  \/ TakeJob \/ Send \/ CloseIdle
  \/ \E b \in Bots :
       \/ ReportCorruptedBot(b) \/ MailManagers(b)
       \/ AlertQueued(b) \/ AlertCut(b)
       \/ AlertAgain(b) \/ AlertGivesUp(b) \/ Deadline(b)
=============================================================================
