------------------------------ MODULE Postman --------------------------------
(***************************************************************************)
(* The postman (postman.go): a mailbox of bounded capacity, which one      *)
(* goroutine, deliverMails, empties: it starts a goroutine per mail for a  *)
(* known client, sends the mail of an unknown one back, and unregisters    *)
(* clients.  Whoever posts blocks while the mailbox is full, deliverMails  *)
(* itself, when it sends a mail back, too.                                 *)
(*                                                                         *)
(* Every mail is posted once; it is identified by its sender, its receiver *)
(* and what it is about.                                                   *)
(***************************************************************************)
EXTENDS Integers, Sequences

CONSTANTS Capacity,  \* of the mailbox
          None

ASSUME PostmanAssumption == Capacity \in Nat \ {0}

VARIABLES mailClients,  \* who is registered
          posting,      \* mails whose sender is in postMail
          mailBox,
          inHand,       \* what deliverMails posts itself, or None
          carrying,     \* mails in a goroutine of recieveMail
          received,     \* mails the clients have got
          closed        \* mails deliverMails has carried out or dropped

postmanVars == <<mailClients, posting, mailBox, inHand, carrying, received, closed>>

PostmanID == "postman"
Bounce(m) == [from |-> PostmanID, to |-> m.from, about |-> m]

PostmanInit ==
  /\ mailClients = {}
  /\ posting = {} /\ mailBox = <<>> /\ inHand = None
  /\ carrying = {} /\ received = {} /\ closed = {}

(* Parts of the actions of others.                                         *)
RegisterMailClient(c) == mailClients' = mailClients \cup {c}
PostMail(m) == posting' = posting \cup {m}

InBox == {mailBox[i] : i \in DOMAIN mailBox}
Hand == IF inHand = None THEN {} ELSE {inHand}
Everywhere == posting \cup InBox \cup Hand \cup carrying \cup received \cup closed
Posted(m) == m \in Everywhere \/ Bounce(m) \in Everywhere

-----------------------------------------------------------------------------
(* Mutant of Enter: the mailbox is unbounded.                              *)
EnterUnbounded(m) ==
  /\ m \in posting
  /\ posting' = posting \ {m}
  /\ mailBox' = Append(mailBox, m)
  /\ UNCHANGED <<mailClients, inHand, carrying, received, closed>>

(* postMail returns.                                                       *)
Enter(m) ==
  /\ m \in posting
  /\ Len(mailBox) < Capacity
  /\ posting' = posting \ {m}
  /\ mailBox' = Append(mailBox, m)
  /\ UNCHANGED <<mailClients, inHand, carrying, received, closed>>

Take(m) ==
  /\ inHand = None
  /\ mailBox # <<>>
  /\ m = Head(mailBox)
  /\ mailBox' = Tail(mailBox)

(* A request to unregister a client, that is ignored if there is none.     *)
handlePostmanMails(m) ==
  /\ Take(m) /\ m.to = PostmanID
  /\ mailClients' = mailClients \ {m.about}
  /\ closed' = closed \cup {m}
  /\ UNCHANGED <<posting, inHand, carrying, received>>

Deliver(m) ==
  /\ Take(m) /\ m.to \in mailClients
  /\ carrying' = carrying \cup {m}
  /\ UNCHANGED <<mailClients, posting, inHand, received, closed>>

(* Mutant of SendBack: the mail is dropped.                                *)
SendNothingBack(m) ==
  /\ Take(m) /\ m.to \notin mailClients \cup {PostmanID}
  /\ m.from # PostmanID
  /\ closed' = closed \cup {Bounce(m)}
  /\ UNCHANGED <<mailClients, posting, inHand, carrying, received>>

(* The receiver is unknown: the sender is told.                            *)
SendBack(m) ==
  /\ Take(m) /\ m.to \notin mailClients \cup {PostmanID}
  /\ m.from # PostmanID
  /\ inHand' = Bounce(m)
  /\ UNCHANGED <<mailClients, posting, carrying, received, closed>>

EnterBounce ==
  /\ inHand # None
  /\ Len(mailBox) < Capacity
  /\ mailBox' = Append(mailBox, inHand)
  /\ inHand' = None
  /\ UNCHANGED <<mailClients, posting, carrying, received, closed>>

(* Mutant of Drop: the sender is tried again.                              *)
DropNever(m) ==
  /\ Take(m) /\ m.to \notin mailClients \cup {PostmanID}
  /\ m.from = PostmanID
  /\ inHand' = m
  /\ UNCHANGED <<mailClients, posting, carrying, received, closed>>

(* The sender is unknown as well.                                          *)
Drop(m) ==
  /\ Take(m) /\ m.to \notin mailClients \cup {PostmanID}
  /\ m.from = PostmanID
  /\ closed' = closed \cup {m}
  /\ UNCHANGED <<mailClients, posting, inHand, carrying, received>>

(* recieveMail of the client, in the order the goroutines are run.         *)
recieveMail(m) ==
  /\ m \in carrying
  /\ carrying' = carrying \ {m}
  /\ received' = received \cup {m}
  /\ UNCHANGED <<mailClients, posting, mailBox, inHand, closed>>

deliverMails ==
  \/ EnterBounce
  \/ \E m \in InBox :
       handlePostmanMails(m) \/ Deliver(m) \/ SendBack(m) \/ Drop(m)

PostmanNext ==
  \/ deliverMails
  \/ \E m \in posting : Enter(m)
  \/ \E m \in carrying : recieveMail(m)

(* deliverMails waits for room in the mailbox that only itself empties.    *)
Wedged == inHand # None /\ Len(mailBox) = Capacity
=============================================================================
