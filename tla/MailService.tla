----------------------------- MODULE MailService -----------------------------
(***************************************************************************)
(* What the postman promises those who post: every mail is handed to its   *)
(* receiver, or its sender is told that the receiver is unknown, or, if    *)
(* the sender is unknown too, it is lost; each at most once.  A mail that  *)
(* was accepted while its receiver was registered and no request to        *)
(* unregister it had been accepted is safe: it is handed over.             *)
(***************************************************************************)
CONSTANTS Mails, PostmanID

VARIABLES clients,   \* who is registered
          posted,    \* mails that wait to be accepted
          accepted,  \* mails that wait for deliverMails
          safe,      \* those of them that are safe
          handed,    \* mails whose receiver gets them
          returned,  \* mails whose receiver is unknown
          told,      \* those of which the sender is told
          lost,      \* those whose sender is unknown too
          done       \* mails to the postman that were carried out

boxes == <<posted, accepted, handed, returned, told, lost, done>>
vars == <<clients, safe, boxes>>

Init ==
  /\ clients = {} /\ posted = {} /\ accepted = {} /\ safe = {} /\ handed = {}
  /\ returned = {} /\ told = {} /\ lost = {} /\ done = {}

Moves(m, from, to) ==
  /\ m \in from
  /\ from' = from \ {m}
  /\ to' = to \cup {m}

(* A client may become safe for what is accepted already.                  *)
Register(c) ==
  /\ clients' = clients \cup {c}
  /\ safe \subseteq safe' /\ safe' \subseteq accepted
  /\ UNCHANGED boxes

Post(m) ==
  /\ m \notin posted \cup accepted \cup handed \cup returned \cup told \cup lost \cup done
  /\ posted' = posted \cup {m}
  /\ UNCHANGED <<clients, accepted, safe, handed, returned, told, lost, done>>

Ending(c) == \E m \in accepted : m.to = PostmanID /\ m.about = c

Accept(m) ==
  /\ Moves(m, posted, accepted)
  /\ safe' = IF m.to \in clients /\ ~ Ending(m.to) THEN safe \cup {m} ELSE safe
  /\ UNCHANGED <<clients, handed, returned, told, lost, done>>

HandOver(m) ==
  /\ Moves(m, accepted, handed)
  /\ m.to \in clients
  /\ safe' = safe \ {m}
  /\ UNCHANGED <<clients, posted, returned, told, lost, done>>

(* Before a client is unregistered it is handed what is safe.              *)
Unregister(m) ==
  /\ Moves(m, accepted, done)
  /\ m.to = PostmanID
  /\ \A n \in safe : n.to # m.about
  /\ clients' = clients \ {m.about}
  /\ UNCHANGED <<safe, posted, handed, returned, told, lost>>

Return(m) ==
  /\ Moves(m, accepted, returned)
  /\ m \notin safe /\ m.to \notin clients
  /\ UNCHANGED <<clients, safe, posted, handed, told, lost, done>>

Tell(m) ==
  /\ Moves(m, returned, told)
  /\ m.from \in clients
  /\ UNCHANGED <<clients, safe, posted, accepted, handed, lost, done>>

Lose(m) ==
  /\ Moves(m, returned, lost)
  /\ m.from \notin clients
  /\ UNCHANGED <<clients, safe, posted, accepted, handed, told, done>>

Next ==
  \E m \in Mails :
       \/ Register(m.to)
       \/ Post(m) \/ Accept(m) \/ HandOver(m) \/ Unregister(m)
       \/ Return(m) \/ Tell(m) \/ Lose(m)

Spec == Init /\ [][Next]_vars
=============================================================================
