------------------------- MODULE ServiceProperties ---------------------------
(* Correctness properties of the postman and of the changes of bots.       *)
EXTENDS SubmissionService

Cookies == Requests \cup {None, Old, Renewed}
Returned == {m \in Mails : Bounce(m) \in Hand \cup InBox}
Told == {m \in Mails : Bounce(m) \in carrying \cup received}
Lost == {m \in Mails : Bounce(m) \in closed}

PostmanTypes ==
  /\ mailClients \subseteq Watchers \cup {"master", "botManager"}
  /\ posting \subseteq Mails
  /\ mailBox \in Seq(Letters) /\ Len(mailBox) <= Capacity
  /\ inHand \in {Bounce(m) : m \in Mails} \cup {None}
  /\ carrying \subseteq Letters /\ received \subseteq Letters /\ closed \subseteq Letters

ServiceTypes ==
  /\ boot \in {"postman", "botManager", "master", "slave", "up"}
  /\ watched \subseteq Watchers
  /\ pc \in [Requests -> {"idle", "ask", "deleted", "posting", "done"}]
  /\ tx \in [Requests -> Bots \cup {None}]
  /\ table \in [Bots -> Cookies] /\ bots \in [Bots -> Cookies]
  /\ corrupted \subseteq Bots
  /\ handled \subseteq received \cap {Refresh(r) : r \in Requests}
  /\ stale \in BOOLEAN
  /\ overtaken \subseteq Requests

(* A letter is in one place, and not beside what was sent back for it.     *)
OnePlace ==
  /\ \A i, j \in DOMAIN mailBox : mailBox[i] = mailBox[j] => i = j
  /\ posting \cap (InBox \cup Hand \cup carrying \cup received \cup closed) = {}
  /\ InBox \cap (Hand \cup carrying \cup received \cup closed) = {}
  /\ Hand \cap (carrying \cup received \cup closed) = {}
  /\ carrying \cap (received \cup closed) = {}
  /\ received \cap closed = {}
  /\ \A m \in Mails : Bounce(m) \in Everywhere => m \notin Everywhere

(* Every variable has its type, the mailbox keeps to its capacity, and a   *)
(* mail is in one place.                                                   *)
TypeOK == PostmanTypes /\ ServiceTypes /\ OnePlace

(* What the postman promises, in terms of its mailbox and goroutines.      *)
Ends(box, i, c) == box[i].to = PostmanID /\ box[i].about = c
Safe(box, clients, i) ==
  /\ box[i] \in Mails
  /\ box[i].to \in clients
  /\ \A j \in 1..i : ~ Ends(box, j, box[i].to)
SafeOf(box, clients) == {box[i] : i \in {j \in DOMAIN box : Safe(box, clients, j)}}

Promise == INSTANCE MailService WITH
  clients <- mailClients,
  posted <- posting,
  accepted <- InBox \cap Mails,
  safe <- SafeOf(mailBox, mailClients),
  handed <- (carrying \cup received) \cap Mails,
  returned <- Returned,
  told <- Told,
  lost <- Lost,
  done <- closed \cap Mails

(* postman.go:20-55: a mail is handed over, returned or lost, each once;   *)
(* one that came after its receiver and before the end of it is handed     *)
(* over, however many clients post, come and go meanwhile.                 *)
MailSpec == Promise!Spec

(* postman.go:21: when no more mails are posted, all that were have been   *)
(* handed over, returned or dropped in the end, unless deliverMails waits  *)
(* for itself.                                                             *)
MailsMove ==
  <>[](Wedged \/ (posting = {} /\ mailBox = <<>> /\ inHand = None /\ carrying = {}))

Due(r) ==
  \/ Refresh(r) \in posting \cup InBox \cup carrying \cup (received \ handled)
  \/ pc[r] = "deleted"

(* submission_service.go:170, :283, :331: what the master knows of a bot   *)
(* is what the table says, or it will read the table again, or it failed   *)
(* to, or the bot manager changed the row, or it has read the table before *)
(* the transaction of the last change was committed, or the bot was found  *)
(* to be corrupted since.                                                  *)
BotsKnown ==
  \A b \in Bots :
    \/ bots[b] = table[b]
    \/ stale \/ \E r \in Requests : Due(r)
    \/ table[b] \in overtaken \cup {Renewed}
    \/ b \in corrupted /\ bots[b] = None

(* submission_service.go:83-86: the first slave is asked for before the    *)
(* master is registered.  Its launch and its death, of which the one may   *)
(* miss and the other not, are all that can be returned of what is posted  *)
(* to the master and the bot manager, however early the first mails come.  *)
OnlyFirstSlaveMissed ==
  \A m \in Mails :
    m.to \in {"master", "botManager"} /\ m \in Returned \cup Told \cup Lost
      => m \in FirstSlave

-----------------------------------------------------------------------------
(* The inductive form of the above.  A client of Start is registered       *)
(* before a mail, but of the first slave, can be posted to it, and every   *)
(* mail is posted at one place that is passed once; a request whose        *)
(* transaction is about to be committed has asked for what will be read,   *)
(* or it was read.                                                         *)
Started ==
  /\ boot # "postman" => "botManager" \in mailClients
  /\ boot = "up" => "master" \in mailClients
  /\ \A r \in Requests : pc[r] # "idle" => boot = "up"
  /\ \A m \in Mails : Posted(m) /\ m.to = "botManager" => boot # "postman"

NotYet ==
  /\ boot \in {"postman", "botManager"} => ~ Posted(Share(None))
  /\ \A r \in Requests :
       /\ pc[r] \notin {"posting", "done"} => ~ Posted(Refresh(r))
       /\ Refresh(r) \notin handled => ~ Posted(Share(r))

WillBeRead(r) == pc[r] = "posting" /\ tx[r] # None => Due(r) \/ r \in overtaken

IInv ==
  /\ TypeOK
  /\ Started /\ NotYet
  /\ OnlyFirstSlaveMissed
  /\ \A r \in Requests : WillBeRead(r)
  /\ BotsKnown
=============================================================================
