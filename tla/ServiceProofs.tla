---------------------------- MODULE ServiceProofs ----------------------------
(* Proofs about the postman and the changes of bots for any requests,      *)
(* bots, watchers and capacity of the mailbox.                             *)
EXTENDS ServiceProperties, SequenceTheorems, FiniteSetTheorems, TLAPS

(* A send adds one position, the last.                                     *)
LEMMA AppendPositions ==
  ASSUME NEW S, NEW q \in Seq(S), NEW e \in S
  PROVE  /\ Append(q, e) \in Seq(S)
         /\ Len(Append(q, e)) = Len(q) + 1
         /\ DOMAIN Append(q, e) = DOMAIN q \cup {Len(q) + 1}
         /\ Len(q) + 1 \notin DOMAIN q
         /\ \A i \in DOMAIN q : Append(q, e)[i] = q[i]
         /\ Append(q, e)[Len(q) + 1] = e
<1>1. DOMAIN q = 1 .. Len(q) /\ Len(q) \in Nat
  BY LenProperties
<1>2. DOMAIN Append(q, e) = 1 .. Len(Append(q, e))
  BY AppendProperties, LenProperties
<1>3. QED
  BY <1>1, <1>2, AppendProperties

(* A receive takes the first position; the others move down by one.        *)
LEMMA TailPositions ==
  ASSUME NEW S, NEW q \in Seq(S), q # <<>>
  PROVE  /\ Tail(q) \in Seq(S)
         /\ Head(q) \in S
         /\ Len(Tail(q)) = Len(q) - 1
         /\ 1 \in DOMAIN q /\ Head(q) = q[1]
         /\ \A i \in DOMAIN Tail(q) :
              /\ i + 1 \in DOMAIN q /\ i + 1 # 1
              /\ Tail(q)[i] = q[i + 1]
              /\ i = (i + 1) - 1
         /\ \A j \in DOMAIN q :
              j # 1 => j - 1 \in DOMAIN Tail(q) /\ Tail(q)[j - 1] = q[j]
<1>1. /\ DOMAIN q = 1 .. Len(q)
      /\ Len(q) \in Nat \ {0}
      /\ DOMAIN Tail(q) = 1 .. Len(Tail(q))
  BY HeadTailProperties, LenProperties, EmptySeq
<1>2. Head(q) = q[1]
  OBVIOUS
<1>3. \A i \in DOMAIN Tail(q) : i + 1 \in DOMAIN q /\ i + 1 # 1 /\ i = (i + 1) - 1
  BY <1>1, HeadTailProperties
<1>4. ASSUME NEW j \in DOMAIN q, j # 1
      PROVE  j - 1 \in DOMAIN Tail(q) /\ Tail(q)[j - 1] = q[j]
  <2>1. j - 1 \in 1 .. Len(Tail(q)) /\ (j - 1) + 1 = j
    BY <1>1, <1>4, HeadTailProperties
  <2>2. QED
    BY <1>1, <2>1, HeadTailProperties
<1>5. QED
  BY <1>1, <1>2, <1>3, <1>4, HeadTailProperties

(* Mails are told from what is sent back for them by their sender.         *)
LEMMA MailKinds ==
  /\ FirstSlave \subseteq Mails
  /\ \A r \in Requests : Refresh(r) \in Mails
  /\ \A r \in Requests \cup {None} : Share(r) \in Mails
  /\ \A b \in Bots : Corrupt(b) \in Mails
  /\ \A w \in Watchers : Result(w) \in Mails /\ Over(w) \in Mails
BY DEF Mails

LEMMA Senders ==
  ASSUME NEW m \in Mails
  PROVE  /\ m.from # PostmanID
         /\ m.from \in Names /\ m.from \notin Watchers
         /\ m.to = PostmanID => \E w \in Watchers : m = Over(w) /\ m.about = w
         /\ m.to \in {"master", "botManager", PostmanID} \cup Watchers
BY ServiceAssumption
   DEF Mails, FirstSlave, Launch, Death, Refresh, Share, Corrupt, Result, Over, Names, PostmanID

LEMMA Bounced ==
  /\ \A m \in Mails : /\ Bounce(m) \in Letters /\ Bounce(m) \notin Mails
                      /\ Bounce(m).from = PostmanID /\ Bounce(m).to = m.from
                      /\ Bounce(m).about = m
                      /\ Bounce(m).to # PostmanID
  /\ \A m, n \in Mails : Bounce(m) = Bounce(n) => m = n
  /\ \A l \in Letters : l \in Mails \/ \E m \in Mails : l = Bounce(m)
  /\ \A l \in Letters : l \in Mails <=> l.from # PostmanID
  /\ Mails \subseteq Letters
  /\ None \notin Letters
<1>1. \A m \in Mails : m.from # PostmanID
  BY Senders
<1>2. \A m : Bounce(m).from = PostmanID /\ Bounce(m).to = m.from /\ Bounce(m).about = m
  BY DEF Bounce
<1>3. \A m \in Mails : Bounce(m) \notin Mails
  BY <1>1, <1>2
<1>4. QED
  BY <1>1, <1>2, <1>3, NoneAssumption DEF Letters

(* Of the mails to the clients that Start registers, which are which.      *)
LEMMA Apart ==
  /\ \A r \in Requests : Refresh(r) \notin FirstSlave
  /\ \A r, s \in Requests : Refresh(r) = Refresh(s) => r = s
  /\ \A r, s \in Requests \cup {None} : Share(r) = Share(s) => r = s
  /\ \A r \in Requests, s \in Requests \cup {None} : Refresh(r) # Share(s)
  /\ \A s \in Requests \cup {None} : Share(s) \notin FirstSlave
  /\ \A s \in Requests \cup {None}, b \in Bots : Share(s) # Corrupt(b)
  /\ \A r \in Requests, b \in Bots : Refresh(r) # Corrupt(b) /\ Corrupt(b) \notin FirstSlave
  /\ \A w \in Watchers, r \in Requests : Result(w) # Refresh(r) /\ Over(w) # Refresh(r)
  /\ \A w \in Watchers, s \in Requests \cup {None} : Result(w) # Share(s) /\ Over(w) # Share(s)
  /\ \A w \in Watchers : Result(w) \notin FirstSlave /\ Over(w) \notin FirstSlave
  /\ \A m \in Mails : m.to = "botManager" =>
       (\E s \in Requests \cup {None} : m = Share(s)) \/ \E b \in Bots : m = Corrupt(b)
  /\ \A m \in Mails : m.to = "master" => m \in FirstSlave \/ \E r \in Requests : m = Refresh(r)
  /\ (\A m \in FirstSlave : m.to = "master") /\ \A r : Refresh(r).to = "master"
  /\ \A s : Share(s).to = "botManager" /\ Corrupt(s).to = "botManager"
  /\ \A w \in Watchers : Result(w).to = w /\ Over(w).to = PostmanID
  /\ "botManager" \notin Watchers /\ "master" \notin Watchers
<1>1. \A m \in Mails : m.to = "botManager" =>
       (\E s \in Requests \cup {None} : m = Share(s)) \/ \E b \in Bots : m = Corrupt(b)
  BY ServiceAssumption
     DEF Mails, FirstSlave, Launch, Death, Refresh, Share, Corrupt, Result, Over, Names, PostmanID
<1>2. \A m \in Mails : m.to = "master" => m \in FirstSlave \/ \E r \in Requests : m = Refresh(r)
  BY ServiceAssumption
     DEF Mails, FirstSlave, Launch, Death, Refresh, Share, Corrupt, Result, Over, Names, PostmanID
<1>3. \A r, s : /\ Refresh(r) \notin FirstSlave /\ Refresh(r) # Share(s)
                /\ Share(s) \notin FirstSlave
                /\ Refresh(r) # Corrupt(s) /\ Corrupt(s) \notin FirstSlave
                /\ Refresh(r) = Refresh(s) => r = s
                /\ Share(r) = Share(s) => r = s
                /\ Share(r) = Corrupt(s) => r = s
  BY DEF FirstSlave, Launch, Death, Refresh, Share, Corrupt
<1>4. \A w, s : /\ Over(w) # Refresh(s) /\ Over(w) # Share(s) /\ Over(w) \notin FirstSlave
                /\ Result(w) # Refresh(s)
                /\ w # "master" => Result(w) \notin FirstSlave
                /\ w # "botManager" => Result(w) # Share(s)
                /\ Result(w).to = w /\ Over(w).to = PostmanID
  BY DEF FirstSlave, Launch, Death, Refresh, Share, Result, Over, PostmanID
<1>5. /\ (\A m \in FirstSlave : m.to = "master") /\ \A r : Refresh(r).to = "master"
      /\ \A s : Share(s).to = "botManager" /\ Corrupt(s).to = "botManager"
  BY DEF FirstSlave, Launch, Death, Refresh, Share, Corrupt
<1>6. "botManager" \notin Watchers /\ "master" \notin Watchers
  BY ServiceAssumption DEF Names
<1>7. \A s \in Requests \cup {None}, b \in Bots : Share(s) # Corrupt(b)
  BY <1>3, ServiceAssumption
<1>8. QED
  BY <1>1, <1>2, <1>3, <1>4, <1>5, <1>6, <1>7

-----------------------------------------------------------------------------
(* The mailbox as a set.                                                   *)
LEMMA Entered ==
  ASSUME NEW l \in Letters, mailBox \in Seq(Letters), mailBox' = Append(mailBox, l)
  PROVE  /\ mailBox' \in Seq(Letters) /\ Len(mailBox') = Len(mailBox) + 1
         /\ InBox' = InBox \cup {l}
         /\ l \notin InBox /\ (\A i, j \in DOMAIN mailBox : mailBox[i] = mailBox[j] => i = j)
              => \A i, j \in DOMAIN mailBox' : mailBox'[i] = mailBox'[j] => i = j
BY AppendPositions DEF InBox

LEMMA Taken ==
  ASSUME mailBox \in Seq(Letters), mailBox # <<>>, mailBox' = Tail(mailBox),
         \A i, j \in DOMAIN mailBox : mailBox[i] = mailBox[j] => i = j
  PROVE  /\ mailBox' \in Seq(Letters) /\ Len(mailBox') = Len(mailBox) - 1
         /\ Head(mailBox) \in Letters /\ Head(mailBox) \in InBox
         /\ InBox' = InBox \ {Head(mailBox)}
         /\ \A i, j \in DOMAIN mailBox' : mailBox'[i] = mailBox'[j] => i = j
<1>1. /\ mailBox' \in Seq(Letters) /\ Len(mailBox') = Len(mailBox) - 1
      /\ Head(mailBox) \in Letters
      /\ 1 \in DOMAIN mailBox /\ Head(mailBox) = mailBox[1]
      /\ \A i \in DOMAIN mailBox' : /\ i + 1 \in DOMAIN mailBox /\ i + 1 # 1
                                    /\ mailBox'[i] = mailBox[i + 1] /\ i = (i + 1) - 1
      /\ \A j \in DOMAIN mailBox :
           j # 1 => j - 1 \in DOMAIN mailBox' /\ mailBox'[j - 1] = mailBox[j]
  BY TailPositions
<1>2. Head(mailBox) \in InBox
  BY <1>1 DEF InBox
<1>3. InBox' = InBox \ {Head(mailBox)}
  <2>1. ASSUME NEW l \in InBox' PROVE l \in InBox /\ l # Head(mailBox)
    BY <1>1 DEF InBox
  <2>2. ASSUME NEW l \in InBox, l # Head(mailBox) PROVE l \in InBox'
    <3>1. PICK j \in DOMAIN mailBox : l = mailBox[j]
      BY <2>2 DEF InBox
    <3>2. j - 1 \in DOMAIN mailBox' /\ mailBox'[j - 1] = l
      BY <1>1, <2>2, <3>1
    <3>3. QED
      BY <3>2 DEF InBox
  <2>3. QED
    BY <2>1, <2>2
<1>4. \A i, j \in DOMAIN mailBox' : mailBox'[i] = mailBox'[j] => i = j
  BY <1>1
<1>5. QED
  BY <1>1, <1>2, <1>3, <1>4

-----------------------------------------------------------------------------
(* The places of the postman as sets, and what a step moves.               *)

PostmanOK == PostmanTypes /\ OnePlace

(* What may be taken from the mailbox.                                     *)
LEMMA TakenLetter ==
  ASSUME PostmanOK, NEW l \in InBox, Take(l)
  PROVE  /\ l \in Letters /\ inHand = None /\ Hand = {}
         /\ InBox' = InBox \ {l}
         /\ mailBox' \in Seq(Letters) /\ Len(mailBox') <= Capacity
         /\ \A i, j \in DOMAIN mailBox' : mailBox'[i] = mailBox'[j] => i = j
<1>1. /\ mailBox \in Seq(Letters) /\ mailBox # <<>> /\ mailBox' = Tail(mailBox)
      /\ l = Head(mailBox) /\ inHand = None
      /\ \A i, j \in DOMAIN mailBox : mailBox[i] = mailBox[j] => i = j
      /\ Len(mailBox) <= Capacity
  BY DEF PostmanOK, PostmanTypes, OnePlace, Take
<1>2. Len(mailBox) \in Nat /\ Capacity \in Nat
  BY <1>1, LenProperties, PostmanAssumption
<1>3. Len(mailBox') = Len(mailBox) - 1
  BY <1>1, Taken
<1>4. Len(mailBox') <= Capacity
  BY <1>1, <1>2, <1>3
<1>5. QED
  BY <1>1, <1>4, Taken DEF Hand

(* The letters stay where they are or move to another place, but for one   *)
(* that is sent back.                                                      *)
SameLetters ==
  /\ Everywhere' = Everywhere
  /\ \A m \in Mails : m \in posting \cup InBox \cup carrying \cup received
       => m \in posting' \cup InBox' \cup carrying' \cup received' \/ m.to = PostmanID

LEMMA EnterKeeps ==
  ASSUME PostmanOK, NEW m \in posting, Enter(m)
  PROVE  PostmanOK' /\ SameLetters
<1>1. m \in Mails /\ m \in Letters /\ m \notin InBox
  BY Bounced DEF PostmanOK, PostmanTypes, OnePlace
<1>2. /\ mailBox' \in Seq(Letters) /\ Len(mailBox') = Len(mailBox) + 1
      /\ InBox' = InBox \cup {m}
      /\ \A i, j \in DOMAIN mailBox' : mailBox'[i] = mailBox'[j] => i = j
  BY <1>1, Entered DEF PostmanOK, PostmanTypes, OnePlace, Enter
<1>3. Len(mailBox') <= Capacity
  <2>1. Len(mailBox) \in Nat /\ Capacity \in Nat
    BY LenProperties, PostmanAssumption DEF PostmanOK, PostmanTypes
  <2>2. QED
    BY <1>2, <2>1 DEF Enter
<1>4. /\ posting' = posting \ {m} /\ Hand' = Hand /\ inHand' = inHand
      /\ UNCHANGED <<mailClients, carrying, received, closed>>
  BY DEF Enter, Hand
<1>5. PostmanTypes'
  BY <1>2, <1>3, <1>4 DEF PostmanOK, PostmanTypes
<1>6. SameLetters
  BY <1>2, <1>4 DEF SameLetters, Everywhere
<1>7. OnePlace'
  BY <1>2, <1>4, <1>6 DEF PostmanOK, OnePlace, SameLetters
<1>8. QED
  BY <1>5, <1>6, <1>7 DEF PostmanOK

LEMMA EnterBounceKeeps ==
  ASSUME PostmanOK, EnterBounce
  PROVE  /\ PostmanOK' /\ SameLetters
         /\ inHand \in Letters \ Mails /\ Hand' = {} /\ InBox' = InBox \cup {inHand}
<1>1. inHand \in Letters \ Mails /\ Hand = {inHand} /\ inHand \notin InBox
  BY Bounced DEF PostmanOK, PostmanTypes, OnePlace, EnterBounce, Hand
<1>2. /\ mailBox' \in Seq(Letters) /\ Len(mailBox') = Len(mailBox) + 1
      /\ InBox' = InBox \cup {inHand}
      /\ \A i, j \in DOMAIN mailBox' : mailBox'[i] = mailBox'[j] => i = j
  BY <1>1, Entered DEF PostmanOK, PostmanTypes, OnePlace, EnterBounce
<1>3. Len(mailBox') <= Capacity
  <2>1. Len(mailBox) \in Nat /\ Capacity \in Nat
    BY LenProperties, PostmanAssumption DEF PostmanOK, PostmanTypes
  <2>2. QED
    BY <1>2, <2>1 DEF EnterBounce
<1>4. /\ inHand' = None /\ Hand' = {}
      /\ UNCHANGED <<mailClients, posting, carrying, received, closed>>
  BY DEF EnterBounce, Hand
<1>5. PostmanTypes'
  BY <1>2, <1>3, <1>4 DEF PostmanOK, PostmanTypes
<1>6. SameLetters
  BY <1>1, <1>2, <1>4 DEF SameLetters, Everywhere
<1>7. OnePlace'
  BY <1>1, <1>2, <1>4, <1>6 DEF PostmanOK, OnePlace, SameLetters
<1>8. QED
  BY <1>1, <1>2, <1>4, <1>5, <1>6, <1>7 DEF PostmanOK

LEMMA UnregisterKeeps ==
  ASSUME PostmanOK, NEW m \in InBox, handlePostmanMails(m)
  PROVE  /\ PostmanOK' /\ SameLetters
         /\ \E w \in Watchers : m = Over(w) /\ mailClients' = mailClients \ {w}
<1>1. /\ Take(m) /\ m.to = PostmanID
      /\ mailClients' = mailClients \ {m.about}
      /\ closed' = closed \cup {m}
      /\ UNCHANGED <<posting, inHand, carrying, received>>
      /\ Hand' = Hand
  BY DEF handlePostmanMails, Hand
<1>2. /\ m \in Letters /\ InBox' = InBox \ {m}
      /\ mailBox' \in Seq(Letters) /\ Len(mailBox') <= Capacity
      /\ \A i, j \in DOMAIN mailBox' : mailBox'[i] = mailBox'[j] => i = j
  BY <1>1, TakenLetter
<1>3. m \in Mails /\ \E w \in Watchers : m = Over(w) /\ m.about = w
  <2>1. m \in Mails
    BY <1>1, <1>2, Bounced
  <2>2. QED
    BY <1>1, <2>1, Senders
<1>4. PostmanTypes'
  BY <1>1, <1>2 DEF PostmanOK, PostmanTypes
<1>5. SameLetters
  BY <1>1, <1>2 DEF SameLetters, Everywhere
<1>6. OnePlace'
  BY <1>1, <1>2, <1>5 DEF PostmanOK, OnePlace, SameLetters
<1>7. QED
  BY <1>1, <1>3, <1>4, <1>5, <1>6 DEF PostmanOK

LEMMA DeliverKeeps ==
  ASSUME PostmanOK, NEW m \in InBox, Deliver(m)
  PROVE  PostmanOK' /\ SameLetters
<1>1. /\ Take(m) /\ m.to \in mailClients
      /\ carrying' = carrying \cup {m}
      /\ UNCHANGED <<mailClients, posting, inHand, received, closed>>
      /\ Hand' = Hand
  BY DEF Deliver, Hand
<1>2. /\ m \in Letters /\ InBox' = InBox \ {m}
      /\ mailBox' \in Seq(Letters) /\ Len(mailBox') <= Capacity
      /\ \A i, j \in DOMAIN mailBox' : mailBox'[i] = mailBox'[j] => i = j
  BY <1>1, TakenLetter
<1>3. PostmanTypes'
  BY <1>1, <1>2 DEF PostmanOK, PostmanTypes
<1>4. SameLetters
  BY <1>1, <1>2 DEF SameLetters, Everywhere
<1>5. OnePlace'
  BY <1>1, <1>2, <1>4 DEF PostmanOK, OnePlace, SameLetters
<1>6. QED
  BY <1>3, <1>4, <1>5 DEF PostmanOK

LEMMA DropKeeps ==
  ASSUME PostmanOK, NEW m \in InBox, Drop(m)
  PROVE  PostmanOK' /\ SameLetters /\ m \in Letters \ Mails
<1>1. /\ Take(m) /\ m.from = PostmanID
      /\ closed' = closed \cup {m}
      /\ UNCHANGED <<mailClients, posting, inHand, carrying, received>>
      /\ Hand' = Hand
  BY DEF Drop, Hand
<1>2. /\ m \in Letters /\ InBox' = InBox \ {m}
      /\ mailBox' \in Seq(Letters) /\ Len(mailBox') <= Capacity
      /\ \A i, j \in DOMAIN mailBox' : mailBox'[i] = mailBox'[j] => i = j
  BY <1>1, TakenLetter
<1>3. m \notin Mails
  BY <1>1, Senders
<1>4. PostmanTypes'
  BY <1>1, <1>2 DEF PostmanOK, PostmanTypes
<1>5. SameLetters
  BY <1>1, <1>2, <1>3 DEF SameLetters, Everywhere
<1>6. OnePlace'
  BY <1>1, <1>2, <1>5 DEF PostmanOK, OnePlace, SameLetters
<1>7. QED
  BY <1>2, <1>3, <1>4, <1>5, <1>6 DEF PostmanOK

LEMMA ReceiveKeeps ==
  ASSUME PostmanOK, NEW m \in carrying, recieveMail(m)
  PROVE  PostmanOK' /\ SameLetters
<1>1. /\ carrying' = carrying \ {m} /\ received' = received \cup {m}
      /\ UNCHANGED <<mailClients, posting, mailBox, inHand, closed>>
      /\ Hand' = Hand /\ InBox' = InBox
  BY DEF recieveMail, Hand, InBox
<1>2. PostmanTypes'
  BY <1>1 DEF PostmanOK, PostmanTypes
<1>3. SameLetters
  BY <1>1 DEF SameLetters, Everywhere
<1>4. OnePlace'
  BY <1>1, <1>3 DEF PostmanOK, OnePlace, SameLetters
<1>5. QED
  BY <1>2, <1>3, <1>4 DEF PostmanOK

(* The mail leaves the places of mails, what is sent back for it is new.   *)
LEMMA SendBackKeeps ==
  ASSUME PostmanOK, NEW m \in InBox, SendBack(m)
  PROVE  /\ PostmanOK'
         /\ m \in Mails /\ m.to \notin mailClients /\ m.to # PostmanID
         /\ Bounce(m) \notin Everywhere
         /\ InBox' = InBox \ {m} /\ Hand = {} /\ Hand' = {Bounce(m)}
         /\ Everywhere' = (Everywhere \ {m}) \cup {Bounce(m)}
<1>1. /\ Take(m) /\ m.to \notin mailClients /\ m.to # PostmanID /\ m.from # PostmanID
      /\ inHand' = Bounce(m)
      /\ UNCHANGED <<mailClients, posting, carrying, received, closed>>
  BY DEF SendBack
<1>2. /\ m \in Letters /\ InBox' = InBox \ {m} /\ Hand = {}
      /\ mailBox' \in Seq(Letters) /\ Len(mailBox') <= Capacity
      /\ \A i, j \in DOMAIN mailBox' : mailBox'[i] = mailBox'[j] => i = j
  BY <1>1, TakenLetter
<1>3. m \in Mails /\ Bounce(m) \in Letters /\ Bounce(m) \notin Mails
  BY <1>1, <1>2, Bounced
<1>4. Hand' = {Bounce(m)}
  BY <1>1, <1>3, Bounced DEF Hand
<1>5. m \in Everywhere /\ Bounce(m) \notin Everywhere
  BY <1>3 DEF Everywhere, PostmanOK, OnePlace
<1>6. PostmanTypes'
  BY <1>1, <1>2, <1>3 DEF PostmanOK, PostmanTypes
<1>7. Everywhere' = (Everywhere \ {m}) \cup {Bounce(m)}
  BY <1>1, <1>2, <1>4 DEF Everywhere, PostmanOK, OnePlace
<1>8. OnePlace'
  <2>1. \A n \in Mails : Bounce(n) \in Everywhere' => n \notin Everywhere'
    BY <1>3, <1>7, Bounced DEF PostmanOK, OnePlace
  <2>2. Bounce(m) \notin posting \cup InBox \cup carrying \cup received \cup closed
    BY <1>5 DEF Everywhere
  <2>3. QED
    BY <1>1, <1>2, <1>4, <2>1, <2>2 DEF PostmanOK, OnePlace
<1>9. QED
  BY <1>1, <1>2, <1>3, <1>4, <1>5, <1>6, <1>7, <1>8 DEF PostmanOK

-----------------------------------------------------------------------------
(* What was sent back is somewhere exactly if it is returned, told or lost.*)
LEMMA Missed ==
  ASSUME PostmanOK, NEW m \in Mails
  PROVE  m \in Returned \cup Told \cup Lost <=> Bounce(m) \in Everywhere
<1>1. Bounce(m) \notin posting
  BY Bounced DEF PostmanOK, PostmanTypes
<1>2. QED
  BY <1>1 DEF Returned, Told, Lost, Everywhere

(* Mails that have not got to their client, or have and are not handled.   *)
UnderWay == posting \cup InBox \cup carrying \cup received

LEMMA DueIs ==
  ASSUME TypeOK, NEW r \in Requests
  PROVE  Due(r) <=> (Refresh(r) \in UnderWay \ handled \/ pc[r] = "deleted")
BY DEF TypeOK, ServiceTypes, OnePlace, Due, UnderWay

(* A step of the service: mails of N are posted, clients registered.       *)
Adds(N) ==
  /\ posting' = posting \cup N
  /\ OthersUnchanged
  /\ mailClients \subseteq mailClients'
  /\ mailClients' \subseteq Watchers \cup {"master", "botManager"}

LEMMA AddsKeeps ==
  ASSUME PostmanOK, OnlyFirstSlaveMissed, NEW N, N \subseteq Mails, Adds(N),
         \A m \in N : ~ Posted(m)
  PROVE  /\ PostmanOK' /\ OnlyFirstSlaveMissed'
         /\ Everywhere' = Everywhere \cup N
         /\ UnderWay' = UnderWay \cup N
         /\ \A m \in Mails : Posted(m)' <=> Posted(m) \/ m \in N
         /\ received' = received
<1>1. /\ posting' = posting \cup N /\ InBox' = InBox /\ Hand' = Hand
      /\ UNCHANGED <<mailBox, inHand, carrying, received, closed>>
  BY DEF Adds, OthersUnchanged, InBox, Hand
<1>2. N \cap Everywhere = {} /\ \A m \in N : Bounce(m) \notin Everywhere
  BY DEF Posted
<1>3. Everywhere' = Everywhere \cup N
  BY <1>1 DEF Everywhere
<1>4. UnderWay' = UnderWay \cup N
  BY <1>1 DEF UnderWay
<1>5. PostmanTypes'
  BY <1>1 DEF PostmanOK, PostmanTypes, Adds
<1>6. OnePlace'
  <2>1. \A m \in Mails : Bounce(m) \in Everywhere' => m \notin Everywhere'
    BY <1>2, <1>3, Bounced DEF PostmanOK, OnePlace
  <2>2. N \cap (InBox \cup Hand \cup carrying \cup received \cup closed) = {}
    BY <1>2 DEF Everywhere
  <2>3. QED
    BY <1>1, <2>1, <2>2 DEF PostmanOK, OnePlace
<1>7. \A m \in Mails : Bounce(m)' = Bounce(m) /\ Bounce(m) \notin N
  BY Bounced DEF Bounce
<1>8. \A m \in Mails : Posted(m)' <=> Posted(m) \/ m \in N
  BY <1>3, <1>7 DEF Posted
<1>9. OnlyFirstSlaveMissed'
  <2>1. Returned' = Returned /\ Told' = Told /\ Lost' = Lost
    BY <1>1 DEF Returned, Told, Lost
  <2>2. QED
    BY <2>1 DEF OnlyFirstSlaveMissed
<1>10. QED
  BY <1>1, <1>3, <1>4, <1>5, <1>6, <1>8, <1>9 DEF PostmanOK

(* A step of the postman.                                                  *)
LEMMA PostmanMoves ==
  ASSUME PostmanOK, PostmanNext
  PROVE  /\ PostmanOK'
         /\ \A m \in Mails : Posted(m)' <=> Posted(m)
         /\ \A m \in UnderWay \cap Mails : m.to \in mailClients => m \in UnderWay'
         /\ {"master", "botManager"} \cap mailClients \subseteq mailClients'
         /\ \A m \in Mails :
              Bounce(m) \in Everywhere' => Bounce(m) \in Everywhere \/ m.to \notin mailClients
         /\ received \subseteq received'
<1>1. PostmanID \notin mailClients
  BY ServiceAssumption DEF PostmanOK, PostmanTypes, Names, PostmanID
<1>2. ASSUME SameLetters
      PROVE  /\ \A m \in Mails : Posted(m)' <=> Posted(m)
             /\ \A m \in UnderWay \cap Mails : m.to \in mailClients => m \in UnderWay'
             /\ \A m \in Mails : Bounce(m) \in Everywhere' => Bounce(m) \in Everywhere
  BY <1>1, <1>2 DEF SameLetters, Posted, UnderWay
<1>3. CASE EnterBounce
  <2>1. UNCHANGED <<mailClients, received>>
    BY <1>3 DEF EnterBounce
  <2>2. QED
    BY <1>2, <1>3, <2>1, EnterBounceKeeps
<1>4. CASE \E m \in InBox : handlePostmanMails(m)
  <2>1. PICK m \in InBox : handlePostmanMails(m)
    BY <1>4
  <2>2. PostmanOK' /\ SameLetters /\ \E w \in Watchers : mailClients' = mailClients \ {w}
    BY <2>1, UnregisterKeeps
  <2>3. received' = received
    BY <2>1 DEF handlePostmanMails
  <2>4. {"master", "botManager"} \cap mailClients \subseteq mailClients'
    BY <2>2, Apart
  <2>5. QED
    BY <1>2, <2>2, <2>3, <2>4
<1>5. CASE \E m \in InBox : Deliver(m)
  <2>1. PICK m \in InBox : Deliver(m)
    BY <1>5
  <2>2. UNCHANGED <<mailClients, received>>
    BY <2>1 DEF Deliver
  <2>3. QED
    BY <1>2, <2>1, <2>2, DeliverKeeps
<1>6. CASE \E m \in InBox : Drop(m)
  <2>1. PICK m \in InBox : Drop(m)
    BY <1>6
  <2>2. UNCHANGED <<mailClients, received>>
    BY <2>1 DEF Drop
  <2>3. QED
    BY <1>2, <2>1, <2>2, DropKeeps
<1>7. CASE \E m \in InBox : SendBack(m)
  <2>1. PICK m \in InBox : SendBack(m)
    BY <1>7
  <2>2. UNCHANGED <<mailClients, posting, carrying, received>>
    BY <2>1 DEF SendBack
  <2>3. /\ PostmanOK' /\ m \in Mails /\ m.to \notin mailClients
        /\ InBox' = InBox \ {m}
        /\ Everywhere' = (Everywhere \ {m}) \cup {Bounce(m)}
    BY <2>1, SendBackKeeps
  <2>4. \A n \in Mails : Bounce(n) = Bounce(m) => n = m
    BY <2>3, Bounced
  <2>5. m \in Everywhere
    BY DEF Everywhere
  <2>6. \A n \in Mails : Posted(n)' <=> Posted(n)
    BY <2>3, <2>4, <2>5, Bounced DEF Posted
  <2>7. \A n \in UnderWay \cap Mails : n.to \in mailClients => n \in UnderWay'
    BY <2>2, <2>3 DEF UnderWay
  <2>8. \A n \in Mails :
          Bounce(n) \in Everywhere' => Bounce(n) \in Everywhere \/ n.to \notin mailClients
    BY <2>3, <2>4
  <2>9. QED
    BY <2>2, <2>3, <2>6, <2>7, <2>8
<1>8. CASE \E m \in posting : Enter(m)
  <2>1. PICK m \in posting : Enter(m)
    BY <1>8
  <2>2. UNCHANGED <<mailClients, received>>
    BY <2>1 DEF Enter
  <2>3. QED
    BY <1>2, <2>1, <2>2, EnterKeeps
<1>9. CASE \E m \in carrying : recieveMail(m)
  <2>1. PICK m \in carrying : recieveMail(m)
    BY <1>9
  <2>2. mailClients' = mailClients /\ received \subseteq received'
    BY <2>1 DEF recieveMail
  <2>3. QED
    BY <1>2, <2>1, <2>2, ReceiveKeeps
<1>10. QED
  BY <1>3, <1>4, <1>5, <1>6, <1>7, <1>8, <1>9 DEF PostmanNext, deliverMails

-----------------------------------------------------------------------------
(* What is due stays due while its mail is under way and not handled.      *)
LEMMA DueStays ==
  ASSUME TypeOK, NEW r \in Requests, Due(r), handled' = handled,
         Refresh(r) \in UnderWay => Refresh(r) \in UnderWay',
         pc[r] = "deleted" => pc'[r] = "deleted"
  PROVE  Due(r)'
<1>1. Refresh(r)' = Refresh(r)
  BY DEF Refresh
<1>2. CASE pc[r] = "deleted"
  BY <1>2 DEF Due
<1>3. CASE pc[r] # "deleted"
  <2>1. Refresh(r) \in UnderWay \ handled
    BY <1>3, DueIs
  <2>2. QED
    BY <1>1, <2>1 DEF Due, UnderWay
<1>4. QED
  BY <1>2, <1>3

LEMMA PostmanStep ==
  ASSUME IInv, PostmanNext, UNCHANGED serviceVars
  PROVE  IInv'
<1>1. /\ PostmanOK /\ ServiceTypes /\ Started /\ NotYet /\ OnlyFirstSlaveMissed /\ BotsKnown
      /\ \A r \in Requests : WillBeRead(r)
  BY DEF IInv, TypeOK, PostmanOK
<1>2. /\ PostmanOK'
      /\ \A m \in Mails : Posted(m)' <=> Posted(m)
      /\ \A m \in UnderWay \cap Mails : m.to \in mailClients => m \in UnderWay'
      /\ {"master", "botManager"} \cap mailClients \subseteq mailClients'
      /\ \A m \in Mails :
           Bounce(m) \in Everywhere' => Bounce(m) \in Everywhere \/ m.to \notin mailClients
      /\ received \subseteq received'
  BY <1>1, PostmanMoves
<1>3. UNCHANGED <<boot, watched, pc, tx, table, bots, corrupted, handled, stale,
                  overtaken>>
  BY DEF serviceVars
<1>4. ServiceTypes'
  BY <1>1, <1>2, <1>3 DEF ServiceTypes, Refresh, Cookies
<1>5. TypeOK'
  BY <1>2, <1>4 DEF TypeOK, PostmanOK
<1>6. Started'
  BY <1>1, <1>2, <1>3 DEF Started
<1>7. NotYet'
  BY <1>1, <1>2, <1>3, MailKinds DEF NotYet, FirstSlave, Launch, Death, Share, Refresh
<1>8. \A m \in UnderWay \cap Mails : Posted(m)
  BY DEF UnderWay, Posted, Everywhere
<1>9. ASSUME NEW m \in Mails, m.to \in {"master", "botManager"}, Posted(m), m \notin FirstSlave
      PROVE  m.to \in mailClients
  <2>1. CASE m.to = "botManager"
    BY <1>1, <1>9, <2>1 DEF Started
  <2>2. CASE m.to = "master"
    <3>1. PICK r \in Requests : m = Refresh(r)
      BY <1>9, <2>2, Apart
    <3>2. pc[r] # "idle"
      BY <1>1, <1>9, <3>1 DEF NotYet
    <3>3. QED
      BY <1>1, <2>2, <3>2 DEF Started
  <2>3. QED
    BY <1>9, <2>1, <2>2
<1>10. OnlyFirstSlaveMissed'
  <2>1. ASSUME NEW m \in Mails, m.to \in {"master", "botManager"}, m \notin FirstSlave
        PROVE  Bounce(m) \notin Everywhere'
    <3>1. Bounce(m) \notin Everywhere
      BY <1>1, <2>1, Missed DEF OnlyFirstSlaveMissed
    <3>2. SUFFICES ASSUME Bounce(m) \in Everywhere' PROVE FALSE
      OBVIOUS
    <3>3. m.to \notin mailClients
      BY <1>2, <3>1, <3>2
    <3>4. Posted(m)
      BY <1>2, <3>2 DEF Posted, Bounce
    <3>5. QED
      BY <1>9, <2>1, <3>3, <3>4
  <2>2. QED
    BY <2>1
       DEF OnlyFirstSlaveMissed, Returned, Told, Lost, Everywhere, FirstSlave, Launch, Death, Bounce
<1>11. ASSUME NEW r \in Requests, Due(r) PROVE Due(r)'
  <2>1. Refresh(r) \in UnderWay => Refresh(r) \in UnderWay'
    <3>1. SUFFICES ASSUME Refresh(r) \in UnderWay PROVE Refresh(r) \in UnderWay'
      OBVIOUS
    <3>2. Refresh(r) \in Mails /\ Refresh(r).to = "master" /\ Refresh(r) \notin FirstSlave
      BY MailKinds, Apart
    <3>3. Refresh(r).to \in mailClients
      BY <1>8, <1>9, <3>1, <3>2
    <3>4. QED
      BY <1>2, <3>1, <3>2, <3>3
  <2>2. QED
    BY <1>3, <1>11, <2>1, DueStays DEF IInv
<1>12. (\A r \in Requests : WillBeRead(r))'
  BY <1>1, <1>3, <1>11 DEF WillBeRead
<1>13. BotsKnown'
  BY <1>1, <1>3, <1>11 DEF BotsKnown
<1>14. QED
  BY <1>5, <1>6, <1>7, <1>10, <1>12, <1>13 DEF IInv

-----------------------------------------------------------------------------
(* Steps of the service, by what they post: given AddsKeeps, what is left  *)
(* is the rows, who is registered, and what the new mail asks for.         *)
ServiceOK == Started /\ NotYet /\ (\A r \in Requests : WillBeRead(r)) /\ BotsKnown

LEMMA ServiceStep ==
  ASSUME IInv, NEW N, N \subseteq Mails, Adds(N), \A m \in N : ~ Posted(m),
         ServiceTypes', ServiceOK'
  PROVE  IInv'
<1>1. PostmanOK /\ OnlyFirstSlaveMissed
  BY DEF IInv, TypeOK, PostmanOK
<1>2. PostmanOK' /\ OnlyFirstSlaveMissed'
  BY <1>1, AddsKeeps
<1>3. QED
  BY <1>2 DEF IInv, TypeOK, PostmanOK, ServiceOK

(* What AddsKeeps says of the rest of the invariant, for a step that       *)
(* handles no mail.                                                        *)
LEMMA NewMails ==
  ASSUME IInv, NEW N, N \subseteq Mails, Adds(N), \A m \in N : ~ Posted(m),
         handled' = handled
  PROVE  /\ \A m \in Mails : Posted(m)' <=> Posted(m) \/ m \in N
         /\ \A r \in Requests :
              Due(r) /\ (pc[r] = "deleted" => pc'[r] = "deleted") => Due(r)'
         /\ \A r \in Requests : Refresh(r) \in N => Due(r)'
         /\ handled' \subseteq received' \cap {Refresh(r)' : r \in Requests}
<1>1. PostmanOK /\ OnlyFirstSlaveMissed /\ TypeOK
  BY DEF IInv, TypeOK, PostmanOK
<1>2. /\ UnderWay' = UnderWay \cup N /\ received' = received
      /\ \A m \in Mails : Posted(m)' <=> Posted(m) \/ m \in N
  BY <1>1, AddsKeeps
<1>3. \A r \in Requests :
        Due(r) /\ (pc[r] = "deleted" => pc'[r] = "deleted") => Due(r)'
  BY <1>1, <1>2, DueStays
<1>4. ASSUME NEW r \in Requests, Refresh(r) \in N PROVE Due(r)'
  <2>1. Refresh(r) \in posting' /\ Refresh(r)' = Refresh(r)
    BY <1>4 DEF Adds, Refresh
  <2>2. QED
    BY <2>1 DEF Due
<1>5. handled' \subseteq received' \cap {Refresh(r)' : r \in Requests}
  BY <1>1, <1>2 DEF TypeOK, ServiceTypes, Refresh
<1>6. QED
  BY <1>2, <1>3, <1>4, <1>5

LEMMA RegisterBotManagerKeeps ==
  ASSUME IInv, RegisterBotManager
  PROVE  IInv'
<1>1. /\ Adds({}) /\ boot = "postman" /\ boot' = "botManager"
      /\ "botManager" \in mailClients'
      /\ UNCHANGED <<watched, pc, tx, table, bots, corrupted, handled, stale, overtaken>>
  BY DEF RegisterBotManager, RegisterMailClient, Adds, IInv, TypeOK, PostmanTypes
<1>2. /\ \A m \in Mails : Posted(m)' <=> Posted(m)
      /\ \A r \in Requests : Due(r) => Due(r)'
      /\ handled' \subseteq received' \cap {Refresh(r)' : r \in Requests}
  BY <1>1, NewMails
<1>3. ServiceTypes'
  BY <1>1, <1>2 DEF IInv, TypeOK, ServiceTypes, Cookies
<1>4. Started'
  BY <1>1, <1>2 DEF IInv, Started
<1>5. NotYet'
  BY <1>1, <1>2, MailKinds
     DEF IInv, NotYet, FirstSlave, Launch, Death, Share, Refresh
<1>6. (\A r \in Requests : WillBeRead(r))' /\ BotsKnown'
  BY <1>1, <1>2 DEF IInv, WillBeRead, BotsKnown
<1>7. QED
  BY <1>1, <1>3, <1>4, <1>5, <1>6, ServiceStep DEF ServiceOK

LEMMA StartMasterKeeps ==
  ASSUME IInv, StartMaster
  PROVE  IInv'
<1>1. /\ boot = "botManager" /\ boot' = "master"
      /\ "botManager" \in mailClients /\ mailClients' = mailClients
      /\ UNCHANGED <<watched, pc, tx, table, corrupted, handled, overtaken>>
      /\ \A r \in Requests : pc[r] = "idle"
  BY DEF StartMaster, IInv, Started
<1>2. Share(None) \in Mails /\ ~ Posted(Share(None))
  BY <1>1, MailKinds DEF IInv, NotYet
<1>3. \E N \in {{}, {Share(None)}} : Adds(N)
  BY DEF StartMaster, PostMail, Adds, IInv, TypeOK, PostmanTypes
<1>4. PICK N \in {{}, {Share(None)}} : Adds(N)
  BY <1>3
<1>5. N \subseteq Mails /\ (\A m \in N : ~ Posted(m)) /\ \A m \in N : m = Share(None)
  BY <1>2, <1>4
<1>6. /\ \A m \in Mails : Posted(m)' => Posted(m) \/ m = Share(None)
      /\ \A r \in Requests : Due(r) => Due(r)'
      /\ handled' \subseteq received' \cap {Refresh(r)' : r \in Requests}
  BY <1>1, <1>4, <1>5, NewMails
<1>7. bots' = table \/ (bots' = bots /\ stale' = stale)
  BY DEF StartMaster
<1>8. stale' \in BOOLEAN /\ bots' \in [Bots -> Cookies]
  BY <1>7 DEF StartMaster, IInv, TypeOK, ServiceTypes
<1>9. ServiceTypes'
  BY <1>1, <1>6, <1>8 DEF IInv, TypeOK, ServiceTypes, Cookies
<1>10. Started'
  BY <1>1, <1>6 DEF IInv, Started
<1>11. NotYet'
  BY <1>1, <1>6, MailKinds, Apart, ServiceAssumption
     DEF IInv, NotYet, FirstSlave, Launch, Death, Share, Refresh
<1>12. (\A r \in Requests : WillBeRead(r))'
  BY <1>1 DEF WillBeRead
<1>13. BotsKnown'
  BY <1>1, <1>6, <1>7 DEF IInv, BotsKnown
<1>14. QED
  BY <1>4, <1>5, <1>9, <1>10, <1>11, <1>12, <1>13, ServiceStep DEF ServiceOK

LEMMA StartSlaveKeeps ==
  ASSUME IInv, StartSlave \/ RegisterMaster
  PROVE  IInv'
<1>1. /\ Adds({}) /\ boot \in {"master", "slave"} /\ boot' \in {"slave", "up"}
      /\ boot' = "up" => "master" \in mailClients'
      /\ "botManager" \in mailClients'
      /\ UNCHANGED <<watched, pc, tx, table, bots, corrupted, handled, stale, overtaken>>
  BY DEF StartSlave, RegisterMaster, RegisterMailClient, postmanVars, OthersUnchanged, Adds,
         IInv, TypeOK, PostmanTypes, Started
<1>2. /\ \A m \in Mails : Posted(m)' <=> Posted(m)
      /\ \A r \in Requests : Due(r) => Due(r)'
      /\ handled' \subseteq received' \cap {Refresh(r)' : r \in Requests}
  BY <1>1, NewMails
<1>3. ServiceTypes'
  BY <1>1, <1>2 DEF IInv, TypeOK, ServiceTypes, Cookies
<1>4. Started'
  BY <1>1, <1>2 DEF IInv, Started
<1>5. NotYet'
  BY <1>1, <1>2, MailKinds
     DEF IInv, NotYet, FirstSlave, Launch, Death, Share, Refresh
<1>6. (\A r \in Requests : WillBeRead(r))' /\ BotsKnown'
  BY <1>1, <1>2 DEF IInv, WillBeRead, BotsKnown
<1>7. QED
  BY <1>1, <1>3, <1>4, <1>5, <1>6, ServiceStep DEF ServiceOK

LEMMA SchedulerCallsKeeps ==
  ASSUME IInv, NEW m \in FirstSlave, SchedulerCalls(m)
  PROVE  IInv'
<1>1. /\ Adds({m}) /\ mailClients' = mailClients /\ ~ Posted(m)
      /\ UNCHANGED <<boot, watched, pc, tx, table, bots, corrupted, handled, stale, overtaken>>
  BY DEF SchedulerCalls, serviceVars, PostMail, Adds, IInv, TypeOK, PostmanTypes
<1>2. m \in Mails /\ {m} \subseteq Mails /\ \A n \in {m} : ~ Posted(n)
  BY <1>1, MailKinds
<1>3. /\ \A n \in Mails : Posted(n)' <=> Posted(n) \/ n = m
      /\ \A r \in Requests : Due(r) => Due(r)'
      /\ handled' \subseteq received' \cap {Refresh(r)' : r \in Requests}
  BY <1>1, <1>2, NewMails
<1>4. ServiceTypes'
  BY <1>1, <1>3 DEF IInv, TypeOK, ServiceTypes, Cookies
<1>5. Started'
  BY <1>1, <1>3, Apart DEF IInv, Started
<1>6. NotYet'
  BY <1>1, <1>3, MailKinds, Apart
     DEF IInv, NotYet, FirstSlave, Launch, Death, Share, Refresh
<1>7. (\A r \in Requests : WillBeRead(r))' /\ BotsKnown'
  BY <1>1, <1>3 DEF IInv, WillBeRead, BotsKnown
<1>8. QED
  BY <1>1, <1>2, <1>4, <1>5, <1>6, <1>7, ServiceStep DEF ServiceOK

LEMMA BeginKeeps ==
  ASSUME IInv, NEW r \in Requests,
         AskRefresh(r) \/ \E b \in Bots : InsertBot(r, b) \/ UpdateBot(r, b) \/ DeleteBot(r, b)
  PROVE  IInv'
<1>1. /\ Adds({}) /\ boot = "up" /\ pc[r] = "idle" /\ mailClients' = mailClients
      /\ UNCHANGED <<boot, watched, bots, corrupted, handled, stale, overtaken>>
  BY DEF AskRefresh, InsertBot, UpdateBot, DeleteBot, Begins, RequestUnchanged, postmanVars,
         OthersUnchanged, Adds, IInv, TypeOK, PostmanTypes
<1>2. /\ pc' = [pc EXCEPT ![r] = "ask"] \/ pc' = [pc EXCEPT ![r] = "deleted"]
      /\ pc'[r] = "ask" => table' = table
  BY DEF AskRefresh, InsertBot, UpdateBot, DeleteBot, Become, IInv, TypeOK, ServiceTypes
<1>3. /\ pc' \in [Requests -> {"idle", "ask", "deleted", "posting", "done"}]
      /\ pc'[r] \in {"ask", "deleted"}
      /\ \A s \in Requests : s # r => pc'[s] = pc[s]
  BY <1>2 DEF IInv, TypeOK, ServiceTypes
<1>4. tx' \in [Requests -> Bots \cup {None}] /\ \A s \in Requests : s # r => tx'[s] = tx[s]
  BY DEF AskRefresh, InsertBot, UpdateBot, DeleteBot, Holding, IInv, TypeOK, ServiceTypes
<1>5. table' \in [Bots -> Cookies]
  BY DEF AskRefresh, InsertBot, UpdateBot, DeleteBot, IInv, TypeOK, ServiceTypes, Cookies
<1>6. /\ \A m \in Mails : Posted(m)' <=> Posted(m)
      /\ \A s \in Requests : Due(s) /\ (pc[s] = "deleted" => pc'[s] = "deleted") => Due(s)'
      /\ handled' \subseteq received' \cap {Refresh(s)' : s \in Requests}
  BY <1>1, NewMails
<1>7. ServiceTypes'
  BY <1>1, <1>3, <1>4, <1>5, <1>6 DEF IInv, TypeOK, ServiceTypes, Cookies
<1>8. Started'
  BY <1>1, <1>3, <1>6 DEF IInv, Started
<1>9. NotYet'
  <2>1. ASSUME NEW s \in Requests, pc'[s] \notin {"posting", "done"} PROVE ~ Posted(Refresh(s))'
    BY <1>1, <1>3, <1>6, <2>1, MailKinds DEF IInv, NotYet, Refresh
  <2>2. QED
    BY <1>1, <1>6, <2>1, MailKinds
       DEF IInv, NotYet, FirstSlave, Launch, Death, Share, Refresh
<1>10. \A s \in Requests : Due(s) => Due(s)'
  BY <1>1, <1>3, <1>6
<1>11. (\A s \in Requests : WillBeRead(s))'
  BY <1>1, <1>3, <1>4, <1>10 DEF IInv, WillBeRead
<1>12. BotsKnown'
  <2>1. CASE pc'[r] = "deleted"
    BY <2>1 DEF BotsKnown, Due
  <2>2. CASE pc'[r] = "ask"
    BY <1>1, <1>2, <1>10, <2>2 DEF IInv, BotsKnown
  <2>3. QED
    BY <1>3, <2>1, <2>2
<1>13. QED
  BY <1>1, <1>7, <1>8, <1>9, <1>11, <1>12, ServiceStep DEF ServiceOK

LEMMA RefreshBotsKeeps ==
  ASSUME IInv, NEW r \in Requests, RefreshBots(r)
  PROVE  IInv'
<1>1. /\ Adds({Refresh(r)}) /\ pc[r] \in {"ask", "deleted"} /\ mailClients' = mailClients
      /\ UNCHANGED <<boot, watched, tx, table, bots, corrupted, handled, stale,
                      overtaken>>
  BY DEF RefreshBots, RequestUnchanged, PostMail, Adds, IInv, TypeOK, PostmanTypes
<1>2. /\ pc' \in [Requests -> {"idle", "ask", "deleted", "posting", "done"}]
      /\ pc'[r] = "posting"
      /\ \A s \in Requests : s # r => pc'[s] = pc[s]
  BY DEF RefreshBots, Become, IInv, TypeOK, ServiceTypes
<1>3. {Refresh(r)} \subseteq Mails /\ \A m \in {Refresh(r)} : ~ Posted(m)
  BY <1>1, MailKinds DEF IInv, NotYet
<1>4. /\ \A m \in Mails : Posted(m)' <=> Posted(m) \/ m = Refresh(r)
      /\ \A s \in Requests : Due(s) /\ (pc[s] = "deleted" => pc'[s] = "deleted") => Due(s)'
      /\ Due(r)'
      /\ handled' \subseteq received' \cap {Refresh(s)' : s \in Requests}
  BY <1>1, <1>3, NewMails
<1>5. ServiceTypes'
  BY <1>1, <1>2, <1>4 DEF IInv, TypeOK, ServiceTypes, Cookies
<1>6. Started'
  BY <1>1, <1>2, <1>4, Apart DEF IInv, Started
<1>7. NotYet'
  BY <1>1, <1>2, <1>4, MailKinds, Apart
     DEF IInv, NotYet, FirstSlave, Launch, Death, Share, Refresh
<1>8. \A s \in Requests : Due(s) => Due(s)'
  BY <1>2, <1>4
<1>9. (\A s \in Requests : WillBeRead(s))'
  BY <1>1, <1>2, <1>4, <1>8 DEF IInv, WillBeRead
<1>10. BotsKnown'
  BY <1>4 DEF BotsKnown
<1>11. QED
  BY <1>1, <1>3, <1>5, <1>6, <1>7, <1>9, <1>10, ServiceStep DEF ServiceOK

LEMMA EndKeeps ==
  ASSUME IInv, NEW r \in Requests, RefreshFails(r) \/ Commit(r) \/ CommitFails(r)
  PROVE  IInv'
<1>1. /\ Adds({}) /\ pc[r] \in {"ask", "deleted", "posting"} /\ mailClients' = mailClients
      /\ UNCHANGED <<boot, watched, bots, corrupted, handled, overtaken>>
  BY DEF RefreshFails, Commit, CommitFails, RequestUnchanged, postmanVars, Adds,
         OthersUnchanged, IInv, TypeOK, PostmanTypes
<1>2. /\ pc' \in [Requests -> {"idle", "ask", "deleted", "posting", "done"}]
      /\ pc'[r] = "done" /\ pc[r] # "idle"
      /\ \A s \in Requests : s # r => pc'[s] = pc[s]
  BY <1>1 DEF RefreshFails, Commit, CommitFails, Become, IInv, TypeOK, ServiceTypes
<1>3. tx' \in [Requests -> Bots \cup {None}] /\ \A s \in Requests : s # r => tx'[s] = tx[s]
  BY DEF RefreshFails, Commit, CommitFails, Holding, IInv, TypeOK, ServiceTypes
<1>4. /\ table' \in [Bots -> Cookies] /\ stale' \in BOOLEAN /\ (stale => stale')
      /\ pc[r] = "deleted" => stale'
      /\ \A b \in Bots : table'[b] = table[b]
                         \/ (pc[r] = "posting" /\ tx[r] = b /\ table'[b] = r)
  <2>1. table \in [Bots -> Cookies] /\ stale \in BOOLEAN /\ r \in Cookies
    BY DEF IInv, TypeOK, ServiceTypes, Cookies
  <2>2. CASE RefreshFails(r)
    BY <2>1, <2>2 DEF RefreshFails
  <2>3. CASE Commit(r)
    <3>1. /\ pc[r] = "posting" /\ stale' = stale
          /\ table' = [b \in Bots |-> IF tx[r] = b THEN r ELSE table[b]]
      BY <2>3 DEF Commit
    <3>2. QED
      BY <2>1, <3>1
  <2>4. CASE CommitFails(r)
    BY <2>1, <2>4 DEF CommitFails
  <2>5. QED
    BY <2>2, <2>3, <2>4
<1>5. /\ \A m \in Mails : Posted(m)' <=> Posted(m)
      /\ \A s \in Requests : Due(s) /\ (pc[s] = "deleted" => pc'[s] = "deleted") => Due(s)'
      /\ handled' \subseteq received' \cap {Refresh(s)' : s \in Requests}
  BY <1>1, NewMails
<1>6. ServiceTypes'
  BY <1>1, <1>2, <1>3, <1>4, <1>5 DEF IInv, TypeOK, ServiceTypes, Cookies
<1>7. Started'
  BY <1>1, <1>2, <1>5 DEF IInv, Started
<1>8. NotYet'
  BY <1>1, <1>2, <1>5, MailKinds
     DEF IInv, NotYet, FirstSlave, Launch, Death, Share, Refresh
<1>9. (\A s \in Requests : WillBeRead(s))'
  BY <1>1, <1>2, <1>3, <1>5 DEF IInv, WillBeRead
<1>10. BotsKnown'
  <2>1. CASE stale'
    BY <2>1 DEF BotsKnown
  <2>2. CASE ~ stale'
    <3>1. pc[r] # "deleted" /\ ~ stale
      BY <1>4, <2>2
    <3>2. \A s \in Requests : Due(s) => Due(s)'
      BY <1>2, <1>5, <3>1
    <3>3. ASSUME NEW b \in Bots, pc[r] = "posting", tx[r] = b, table'[b] = r
          PROVE  Due(r)' \/ r \in overtaken'
      <4>1. b # None
        BY ServiceAssumption
      <4>2. QED
        BY <1>1, <3>2, <3>3, <4>1 DEF IInv, WillBeRead
    <3>4. QED
      BY <1>1, <1>4, <3>1, <3>2, <3>3 DEF IInv, BotsKnown
  <2>3. QED
    BY <2>1, <2>2
<1>11. QED
  BY <1>1, <1>6, <1>7, <1>8, <1>9, <1>10, ServiceStep DEF ServiceOK

LEMMA RenewCookiesKeeps ==
  ASSUME IInv, NEW b \in Bots, RenewCookies(b)
  PROVE  IInv'
<1>1. /\ Adds({}) /\ mailClients' = mailClients
      /\ UNCHANGED <<boot, watched, pc, tx, bots, corrupted, handled, stale, overtaken>>
  BY DEF RenewCookies, RequestUnchanged, postmanVars, Adds, OthersUnchanged, IInv, TypeOK,
         PostmanTypes
<1>2. /\ table' \in [Bots -> Cookies] /\ table'[b] = Renewed
      /\ \A c \in Bots : c # b => table'[c] = table[c]
  BY DEF RenewCookies, IInv, TypeOK, ServiceTypes, Cookies
<1>3. /\ \A m \in Mails : Posted(m)' <=> Posted(m)
      /\ \A s \in Requests : Due(s) => Due(s)'
      /\ handled' \subseteq received' \cap {Refresh(s)' : s \in Requests}
  BY <1>1, NewMails
<1>4. ServiceTypes'
  BY <1>1, <1>2, <1>3 DEF IInv, TypeOK, ServiceTypes, Cookies
<1>5. Started'
  BY <1>1, <1>3 DEF IInv, Started
<1>6. NotYet'
  BY <1>1, <1>3, MailKinds
     DEF IInv, NotYet, FirstSlave, Launch, Death, Share, Refresh
<1>7. (\A s \in Requests : WillBeRead(s))' /\ BotsKnown'
  BY <1>1, <1>2, <1>3 DEF IInv, WillBeRead, BotsKnown
<1>8. QED
  BY <1>1, <1>4, <1>5, <1>6, <1>7, ServiceStep DEF ServiceOK

LEMMA ReadKeeps ==
  ASSUME IInv, NEW r \in Requests, refreshBots(r)
  PROVE  IInv'
<1>1. /\ Refresh(r) \in received \ handled /\ handled' = handled \cup {Refresh(r)}
      /\ overtaken' = IF tx[r] # None THEN overtaken \cup {r} ELSE overtaken
      /\ mailClients' = mailClients
      /\ UNCHANGED <<boot, watched, pc, tx, table>>
  BY DEF refreshBots, Handles
<1>2. \E N \in {{}, {Share(r)}} : Adds(N)
  BY DEF refreshBots, PostMail, Adds, IInv, TypeOK, PostmanTypes
<1>3. PICK N \in {{}, {Share(r)}} : Adds(N)
  BY <1>2
<1>4. Posted(Refresh(r)) /\ ~ Posted(Share(r))
  BY <1>1 DEF IInv, NotYet, Posted, Everywhere
<1>5. boot = "up"
  BY <1>4 DEF IInv, NotYet, Started
<1>6. N \subseteq Mails /\ (\A m \in N : ~ Posted(m)) /\ \A m \in N : m = Share(r)
  BY <1>3, <1>4, MailKinds
<1>7. /\ received' = received /\ UnderWay' = UnderWay \cup N
      /\ \A m \in Mails : Posted(m)' => Posted(m) \/ m = Share(r)
  BY <1>3, <1>6, AddsKeeps DEF IInv, TypeOK, PostmanOK
<1>8. \A s \in Requests : Refresh(s)' = Refresh(s)
  BY DEF Refresh
<1>9. /\ handled' \subseteq received' \cap {Refresh(s)' : s \in Requests}
      /\ overtaken' \subseteq Requests
      /\ corrupted' \subseteq Bots /\ stale' \in BOOLEAN /\ bots' \in [Bots -> Cookies]
  BY <1>1, <1>7, <1>8 DEF refreshBots, IInv, TypeOK, ServiceTypes
<1>10. ServiceTypes'
  BY <1>1, <1>9 DEF IInv, TypeOK, ServiceTypes, Cookies
<1>11. Started'
  BY <1>1, <1>5, <1>7 DEF IInv, Started
<1>12. NotYet'
  BY <1>1, <1>5, <1>7, <1>8, MailKinds, Apart
     DEF IInv, NotYet, FirstSlave, Launch, Death, Share
<1>13. (\A s \in Requests : WillBeRead(s))'
  <2>1. ASSUME NEW s \in Requests, s # r, Due(s) PROVE Due(s)'
    <3>1. Refresh(s) # Refresh(r)
      BY <2>1, Apart
    <3>2. Refresh(s) \in UnderWay \ handled \/ pc[s] = "deleted"
      BY <2>1, DueIs DEF IInv
    <3>3. QED
      BY <1>1, <1>7, <1>8, <3>1, <3>2 DEF Due, UnderWay
  <2>2. overtaken \subseteq overtaken' /\ (tx[r] # None => r \in overtaken')
    BY <1>1
  <2>3. QED
    BY <1>1, <2>1, <2>2 DEF IInv, WillBeRead
<1>14. BotsKnown'
  <2>1. bots' = table' \/ stale' = TRUE
    BY DEF refreshBots
  <2>2. QED
    BY <2>1 DEF BotsKnown
<1>15. QED
  BY <1>3, <1>6, <1>10, <1>11, <1>12, <1>13, <1>14, ServiceStep DEF ServiceOK

LEMMA CorruptedKeeps ==
  ASSUME IInv, NEW b \in Bots, handleCorruptedBot(b)
  PROVE  IInv'
<1>1. /\ Adds({Corrupt(b)}) /\ boot = "up" /\ mailClients' = mailClients
      /\ UNCHANGED <<boot, watched, pc, tx, table, handled, stale, overtaken>>
  BY DEF handleCorruptedBot, PostMail, Adds, IInv, TypeOK, PostmanTypes
<1>2. {Corrupt(b)} \subseteq Mails /\ \A m \in {Corrupt(b)} : ~ Posted(m)
  BY MailKinds DEF handleCorruptedBot
<1>3. /\ bots' \in [Bots -> Cookies] /\ bots'[b] = None
      /\ \A c \in Bots : c # b => bots'[c] = bots[c]
      /\ corrupted' = corrupted \cup {b}
  BY DEF handleCorruptedBot, IInv, TypeOK, ServiceTypes, Cookies
<1>4. /\ \A m \in Mails : Posted(m)' <=> Posted(m) \/ m = Corrupt(b)
      /\ \A s \in Requests : Due(s) => Due(s)'
      /\ handled' \subseteq received' \cap {Refresh(s)' : s \in Requests}
  BY <1>1, <1>2, NewMails
<1>5. ServiceTypes'
  BY <1>1, <1>3, <1>4 DEF IInv, TypeOK, ServiceTypes, Cookies
<1>6. Started'
  BY <1>1, <1>4 DEF IInv, Started
<1>7. NotYet'
  BY <1>1, <1>4, MailKinds, Apart
     DEF IInv, NotYet, FirstSlave, Launch, Death, Share, Refresh
<1>8. (\A s \in Requests : WillBeRead(s))' /\ BotsKnown'
  BY <1>1, <1>3, <1>4 DEF IInv, WillBeRead, BotsKnown
<1>9. QED
  BY <1>1, <1>2, <1>5, <1>6, <1>7, <1>8, ServiceStep DEF ServiceOK

LEMMA WatcherKeeps ==
  ASSUME IInv, NEW w \in Watchers, CreateWatcher(w) \/ SendResult(w) \/ EndWatcher(w)
  PROVE  IInv'
<1>1. \E N \in {{}, {Result(w)}, {Over(w)}} : Adds(N) /\ \A m \in N : ~ Posted(m)
  BY DEF CreateWatcher, SendResult, EndWatcher, RegisterMailClient, PostMail, Adds,
         WatcherUnchanged, IInv, TypeOK, PostmanTypes
<1>2. PICK N \in {{}, {Result(w)}, {Over(w)}} : Adds(N) /\ \A m \in N : ~ Posted(m)
  BY <1>1
<1>3. N \subseteq Mails /\ \A m \in N : m \in {Result(w), Over(w)}
  BY <1>2, MailKinds
<1>4. /\ watched' \subseteq Watchers /\ mailClients \subseteq mailClients'
      /\ UNCHANGED <<boot, pc, tx, table, bots, corrupted, handled, stale, overtaken>>
  BY <1>2 DEF CreateWatcher, SendResult, EndWatcher, WatcherUnchanged, IInv, TypeOK,
         ServiceTypes, Adds
<1>5. /\ \A m \in Mails : Posted(m)' => Posted(m) \/ m \in {Result(w), Over(w)}
      /\ \A s \in Requests : Due(s) => Due(s)'
      /\ handled' \subseteq received' \cap {Refresh(s)' : s \in Requests}
  BY <1>2, <1>3, <1>4, NewMails
<1>6. ServiceTypes'
  BY <1>4, <1>5 DEF IInv, TypeOK, ServiceTypes, Cookies
<1>7. Started'
  <2>1. Result(w).to # "botManager" /\ Over(w).to # "botManager"
    BY Apart DEF PostmanID
  <2>2. QED
    BY <1>4, <1>5, <2>1 DEF IInv, Started
<1>8. NotYet'
  BY <1>4, <1>5, MailKinds, Apart
     DEF IInv, NotYet, FirstSlave, Launch, Death, Share, Refresh
<1>9. (\A s \in Requests : WillBeRead(s))' /\ BotsKnown'
  BY <1>4, <1>5 DEF IInv, WillBeRead, BotsKnown
<1>10. QED
  BY <1>2, <1>3, <1>6, <1>7, <1>8, <1>9, ServiceStep DEF ServiceOK

-----------------------------------------------------------------------------
LEMMA InitHolds == Init => IInv
<1>1. SUFFICES ASSUME Init PROVE IInv
  OBVIOUS
<1>2. /\ posting = {} /\ mailBox = <<>> /\ carrying = {} /\ received = {} /\ closed = {}
      /\ InBox = {} /\ Hand = {} /\ Everywhere = {}
  BY <1>1 DEF Init, PostmanInit, InBox, Hand, Everywhere
<1>3. PostmanTypes
  <2>1. mailBox \in Seq(Letters) /\ Len(mailBox) = 0
    BY <1>2
  <2>2. QED
    BY <1>1, <2>1, PostmanAssumption DEF Init, PostmanInit, PostmanTypes
<1>4. ServiceTypes
  BY <1>1 DEF Init, ServiceTypes, Cookies
<1>5. OnePlace
  BY <1>2 DEF OnePlace
<1>6. Started /\ NotYet /\ \A r \in Requests : WillBeRead(r)
  BY <1>1, <1>2 DEF Init, PostmanInit, Started, NotYet, WillBeRead, Posted
<1>7. OnlyFirstSlaveMissed
  BY <1>2 DEF OnlyFirstSlaveMissed, Returned, Told, Lost
<1>8. BotsKnown
  BY <1>1 DEF Init, BotsKnown
<1>9. QED
  BY <1>3, <1>4, <1>5, <1>6, <1>7, <1>8 DEF IInv, TypeOK

LEMMA Step ==
  ASSUME IInv, [Next]_vars
  PROVE  IInv'
<1>1. CASE UNCHANGED vars
  <2>1. UNCHANGED <<mailClients, posting, mailBox, inHand, carrying, received, closed>>
        /\ UNCHANGED serviceVars
    BY <1>1 DEF vars, postmanVars
  <2>2. Adds({})
    BY <2>1 DEF Adds, OthersUnchanged, IInv, TypeOK, PostmanTypes
  <2>3. UNCHANGED <<boot, watched, pc, tx, table, bots, corrupted, handled, stale,
                    overtaken>>
    BY <2>1 DEF serviceVars
  <2>4. /\ \A m \in Mails : Posted(m)' <=> Posted(m)
        /\ \A r \in Requests : Due(r) => Due(r)'
        /\ handled' \subseteq received' \cap {Refresh(r)' : r \in Requests}
    BY <2>2, <2>3, NewMails
  <2>5. ServiceTypes'
    BY <2>3, <2>4 DEF IInv, TypeOK, ServiceTypes, Cookies
  <2>6. Started' /\ NotYet'
    BY <2>1, <2>3, <2>4, MailKinds
       DEF IInv, Started, NotYet, FirstSlave, Launch, Death, Share, Refresh
  <2>7. (\A r \in Requests : WillBeRead(r))' /\ BotsKnown'
    BY <2>3, <2>4 DEF IInv, WillBeRead, BotsKnown
  <2>8. QED
    BY <2>2, <2>5, <2>6, <2>7, ServiceStep DEF ServiceOK
<1>2. CASE PostmanNext /\ UNCHANGED serviceVars
  BY <1>2, PostmanStep
<1>3. CASE ServiceNext
  BY <1>3, RegisterBotManagerKeeps, StartMasterKeeps, StartSlaveKeeps, SchedulerCallsKeeps,
     BeginKeeps, RefreshBotsKeeps, EndKeeps, ReadKeeps, RenewCookiesKeeps, CorruptedKeeps,
     WatcherKeeps DEF ServiceNext
<1>4. QED
  BY <1>1, <1>2, <1>3 DEF Next

LEMMA Inductive == Spec => []IInv
BY InitHolds, Step, PTL DEF Spec

(* postman.go:20-55, submission_service.go: the types, the capacity of the *)
(* mailbox, and that a mail is in one place.                               *)
THEOREM TypeCorrect == Spec => []TypeOK
<1>1. IInv => TypeOK
  BY DEF IInv
<1>2. QED
  BY Inductive, <1>1, PTL

(* submission_service.go:83-86: of all that is posted to the master and    *)
(* the bot manager only what the scheduler says of the first slave, its    *)
(* launch and its death, can be returned, for any requests and bots.       *)
THEOREM OnlyTheFirstSlaveMisses == Spec => []OnlyFirstSlaveMissed
<1>1. IInv => OnlyFirstSlaveMissed
  BY DEF IInv
<1>2. QED
  BY Inductive, <1>1, PTL

(* submission_service.go:170, :283, :331: what the master knows of a bot.  *)
THEOREM BotsAreKnown == Spec => []BotsKnown
<1>1. IInv => BotsKnown
  BY DEF IInv
<1>2. QED
  BY Inductive, <1>1, PTL

-----------------------------------------------------------------------------
(* The refinement.  First what becomes of the mails that are safe, of a    *)
(* box q and clients C.                                                    *)
LEMMA SafeIn ==
  ASSUME NEW q, NEW C, NEW n
  PROVE  n \in SafeOf(q, C) <=> \E i \in DOMAIN q : Safe(q, C, i) /\ n = q[i]
BY DEF SafeOf

LEMMA SafeEntered ==
  ASSUME NEW q \in Seq(Letters), NEW C, PostmanID \notin C, NEW l \in Letters
  PROVE  SafeOf(Append(q, l), C) = SafeOf(q, C) \cup
           {n \in {l} \cap Mails : n.to \in C /\ \A j \in DOMAIN q : ~ Ends(q, j, n.to)}
<1> DEFINE r == Append(q, l)
           e == Len(q) + 1
<1>1. DOMAIN q = 1 .. Len(q) /\ Len(q) \in Nat
  BY LenProperties
<1>2. /\ DOMAIN r = DOMAIN q \cup {e} /\ e \notin DOMAIN q
      /\ \A i \in DOMAIN q : r[i] = q[i]
      /\ r[e] = l
  BY <1>1, AppendPositions
<1> HIDE DEF r
<1>3. ASSUME NEW i \in DOMAIN q PROVE Safe(r, C, i) <=> Safe(q, C, i)
  <2>1. 1 .. i \subseteq DOMAIN q /\ r[i] = q[i] /\ \A j \in 1 .. i : r[j] = q[j]
    BY <1>1, <1>2
  <2>2. QED
    BY <2>1 DEF Safe, Ends
<1>4. Safe(r, C, e) <=> /\ l \in Mails /\ l.to \in C
                        /\ \A j \in DOMAIN q : ~ Ends(q, j, l.to)
  <2>1. 1 .. e = DOMAIN q \cup {e}
    BY <1>1
  <2>2. QED
    BY <1>2, <2>1 DEF Safe, Ends
<1>5. ASSUME NEW n
      PROVE  n \in SafeOf(r, C) <=> n \in SafeOf(q, C) \/ (n = l /\ Safe(r, C, e))
  BY <1>2, <1>3, SafeIn
<1>6. QED
  BY <1>4, <1>5 DEF r

(* The head goes, and with it the end of a client, if it is one.           *)
LEMMA SafeTaken ==
  ASSUME NEW q \in Seq(Letters), q # <<>>, NEW C, PostmanID \notin C, NEW D,
         \A i, j \in DOMAIN q : q[i] = q[j] => i = j,
         \/ Head(q).to # PostmanID /\ D = C
         \/ Head(q).to = PostmanID /\ D = C \ {Head(q).about}
  PROVE  /\ SafeOf(Tail(q), D) = SafeOf(q, C) \ {Head(q)}
         /\ Head(q).to = PostmanID =>
              Head(q) \notin SafeOf(q, C) /\ \A n \in SafeOf(q, C) : n.to # Head(q).about
<1> DEFINE r == Tail(q)
           h == Head(q)
<1>1. /\ DOMAIN q = 1 .. Len(q) /\ Len(q) \in Nat /\ r \in Seq(Letters)
      /\ 1 \in DOMAIN q /\ h = q[1]
      /\ \A i \in DOMAIN r : i + 1 \in DOMAIN q /\ i + 1 # 1 /\ r[i] = q[i + 1]
      /\ \A j \in DOMAIN q : j # 1 => j - 1 \in DOMAIN r
  BY TailPositions, LenProperties
<1>2. DOMAIN r = 1 .. Len(r) /\ Len(r) \in Nat
  BY <1>1, LenProperties
<1> HIDE DEF r, h
<1>3. /\ (h.to # PostmanID /\ D = C) \/ (h.to = PostmanID /\ D = C \ {h.about})
      /\ \A c \in C : c \in D <=> ~ Ends(q, 1, c)
      /\ D \subseteq C
  <2>1. (h.to # PostmanID /\ D = C) \/ (h.to = PostmanID /\ D = C \ {h.about})
    BY DEF h
  <2>2. QED
    BY <1>1, <2>1 DEF Ends
<1>4. ASSUME NEW i \in DOMAIN r PROVE Safe(r, D, i) <=> Safe(q, C, i + 1)
  <2>1. 1 .. i \subseteq DOMAIN r /\ i \in Nat
    BY <1>2
  <2>2. \A j \in 1 .. i : j + 1 \in 1 .. (i + 1) /\ r[j] = q[j + 1]
    BY <1>1, <2>1
  <2>3. \A j \in 1 .. (i + 1) : j = 1 \/ (j - 1 \in 1 .. i /\ (j - 1) + 1 = j)
    BY <2>1
  <2>4. 1 \in 1 .. (i + 1)
    BY <2>1
  <2>5. \A c : (\A j \in 1 .. (i + 1) : ~ Ends(q, j, c)) <=>
               ~ Ends(q, 1, c) /\ \A j \in 1 .. i : ~ Ends(r, j, c)
    <3>1. \A c : \A j \in 1 .. i : Ends(r, j, c) <=> Ends(q, j + 1, c)
      BY <2>2 DEF Ends
    <3>2. ASSUME NEW c, ~ Ends(q, 1, c), \A j \in 1 .. i : ~ Ends(r, j, c),
                 NEW j \in 1 .. (i + 1)
          PROVE  ~ Ends(q, j, c)
      <4>1. CASE j = 1
        BY <3>2, <4>1
      <4>2. CASE j - 1 \in 1 .. i /\ (j - 1) + 1 = j
        BY <3>1, <3>2, <4>2
      <4>3. QED
        BY <2>3, <4>1, <4>2
    <3>3. ASSUME NEW c, \A j \in 1 .. (i + 1) : ~ Ends(q, j, c)
          PROVE  ~ Ends(q, 1, c) /\ \A j \in 1 .. i : ~ Ends(r, j, c)
      BY <2>2, <2>4, <3>1, <3>3
    <3>4. QED
      BY <3>2, <3>3
  <2>6. r[i] = q[i + 1]
    BY <1>1
  <2>7. QED
    BY <1>3, <2>5, <2>6 DEF Safe
<1>5. h.to = PostmanID => ~ Safe(q, C, 1)
  BY <1>1 DEF Safe
<1>6. ASSUME NEW n
      PROVE  n \in SafeOf(r, D) <=> \E j \in DOMAIN q : j # 1 /\ Safe(q, C, j) /\ n = q[j]
  <2>1. \A j \in DOMAIN q : j # 1 => j - 1 \in DOMAIN r /\ (j - 1) + 1 = j
    BY <1>1
  <2>2. QED
    BY <1>1, <1>4, <2>1, SafeIn
<1>7. SafeOf(r, D) = SafeOf(q, C) \ {h}
  <2>1. \A j \in DOMAIN q : q[j] # h <=> j # 1
    BY <1>1
  <2>2. ASSUME NEW n PROVE n \in SafeOf(q, C) <=> \E j \in DOMAIN q : Safe(q, C, j) /\ n = q[j]
    BY SafeIn
  <2>3. QED
    BY <1>6, <2>1, <2>2
<1>8. ASSUME h.to = PostmanID
      PROVE  h \notin SafeOf(q, C) /\ \A n \in SafeOf(q, C) : n.to # h.about
  <2>1. h \notin SafeOf(q, C)
    BY <1>1, <1>5, <1>8, SafeIn
  <2>2. ASSUME NEW n \in SafeOf(q, C), n.to = h.about PROVE FALSE
    <3>1. PICK i \in DOMAIN q : Safe(q, C, i) /\ n = q[i]
      BY SafeIn
    <3>2. 1 \in 1 .. i
      BY <1>1
    <3>3. Ends(q, 1, n.to)
      BY <1>1, <1>8, <2>2 DEF Ends
    <3>4. QED
      BY <3>1, <3>2, <3>3 DEF Safe
  <2>3. QED
    BY <2>1, <2>2
<1>9. QED
  BY <1>7, <1>8 DEF r, h

(* Who is registered grows.                                                *)
LEMMA SafeGrows ==
  ASSUME NEW q, NEW C, NEW D, C \subseteq D
  PROVE  /\ SafeOf(q, C) \subseteq SafeOf(q, D)
         /\ SafeOf(q, D) \subseteq {q[i] : i \in DOMAIN q} \cap Mails
BY DEF SafeOf, Safe

-----------------------------------------------------------------------------
(* What the abstract variables become in a step.                           *)
SameBounces == Returned' = Returned /\ Told' = Told /\ Lost' = Lost

LEMMA Bounces ==
  /\ Returned' = {m \in Mails : Bounce(m) \in Hand' \cup InBox'}
  /\ Told' = {m \in Mails : Bounce(m) \in carrying' \cup received'}
  /\ Lost' = {m \in Mails : Bounce(m) \in closed'}
  /\ SafeOf(mailBox, mailClients)' = SafeOf(mailBox', mailClients')
  /\ Mails' = Mails
BY DEF Returned, Told, Lost, SafeOf, Safe, Ends, Bounce, Mails, FirstSlave, Launch, Death,
   Refresh, Share, Corrupt, Result, Over, PostmanID

LEMMA PostPromise ==
  ASSUME IInv, NEW m \in Mails, ~ Posted(m), PostMail(m), OthersUnchanged,
         mailClients' = mailClients
  PROVE  Promise!Next
<1>1. /\ posting' = posting \cup {m} /\ InBox' = InBox /\ Hand' = Hand
      /\ UNCHANGED <<mailClients, mailBox, carrying, received, closed>>
  BY DEF PostMail, OthersUnchanged, InBox, Hand
<1>2. SameBounces
  BY <1>1, Bounces DEF SameBounces, Returned, Told, Lost
<1>3. m \notin posting \cup InBox \cup carrying \cup received \cup closed
      /\ m \notin Returned \cup Told \cup Lost
  BY DEF Posted, Everywhere, Returned, Told, Lost
<1>4. SafeOf(mailBox, mailClients)' = SafeOf(mailBox, mailClients)
  BY <1>1, Bounces
<1>5. Promise!Post(m)
  BY <1>1, <1>2, <1>3, <1>4, Bounces DEF Promise!Post, SameBounces
<1>6. QED
  BY <1>5 DEF Promise!Next

LEMMA RegisterPromise ==
  ASSUME IInv, NEW m \in Mails, RegisterMailClient(m.to), OthersUnchanged, posting' = posting
  PROVE  Promise!Next
<1>1. /\ mailClients' = mailClients \cup {m.to} /\ InBox' = InBox /\ Hand' = Hand
      /\ UNCHANGED <<posting, mailBox, carrying, received, closed>>
  BY DEF RegisterMailClient, OthersUnchanged, InBox, Hand
<1>2. SameBounces
  BY <1>1, Bounces DEF SameBounces, Returned, Told, Lost
<1>3. /\ SafeOf(mailBox, mailClients) \subseteq SafeOf(mailBox, mailClients)'
      /\ SafeOf(mailBox, mailClients)' \subseteq InBox \cap Mails
  BY <1>1, SafeGrows, Bounces DEF InBox
<1>4. Promise!Register(m.to)
  BY <1>1, <1>2, <1>3, Bounces DEF Promise!Register, Promise!boxes, SameBounces
<1>5. QED
  BY <1>4 DEF Promise!Next

LEMMA StillPromise ==
  ASSUME UNCHANGED postmanVars
  PROVE  UNCHANGED Promise!vars
<1>1. /\ InBox' = InBox /\ Hand' = Hand
      /\ UNCHANGED <<mailClients, posting, mailBox, carrying, received, closed>>
  BY DEF postmanVars, InBox, Hand
<1>2. SameBounces
  BY <1>1, Bounces DEF SameBounces, Returned, Told, Lost
<1>3. SafeOf(mailBox, mailClients)' = SafeOf(mailBox, mailClients)
  BY <1>1, Bounces
<1>4. QED
  BY <1>1, <1>2, <1>3, Bounces DEF Promise!vars, Promise!boxes, SameBounces

(* The mails of the box, and no client is called the postman.              *)
LEMMA BoxFacts ==
  ASSUME IInv
  PROVE  /\ PostmanOK
         /\ mailBox \in Seq(Letters)
         /\ \A i, j \in DOMAIN mailBox : mailBox[i] = mailBox[j] => i = j
         /\ PostmanID \notin mailClients
         /\ \A m \in Mails : Bounce(m) \in Everywhere => m \notin Everywhere
         /\ InBox = {mailBox[i] : i \in DOMAIN mailBox}
BY ServiceAssumption DEF IInv, TypeOK, PostmanOK, PostmanTypes, OnePlace, Names, PostmanID, InBox

LEMMA EnterPromise ==
  ASSUME IInv, NEW m \in posting, Enter(m)
  PROVE  Promise!Next
<1>1. m \in Mails /\ m \in Letters /\ m \notin InBox
  BY Bounced DEF IInv, TypeOK, PostmanTypes, OnePlace
<1>2. /\ posting' = posting \ {m} /\ mailBox' = Append(mailBox, m) /\ Hand' = Hand
      /\ UNCHANGED <<mailClients, carrying, received, closed>>
  BY DEF Enter, Hand
<1>3. InBox' = InBox \cup {m}
  BY <1>1, <1>2, BoxFacts, Entered
<1>4. SameBounces
  BY <1>1, <1>2, <1>3, Bounces, Bounced DEF SameBounces, Returned, Told, Lost
<1>5. SafeOf(mailBox, mailClients)' =
        IF m.to \in mailClients /\ ~ \E n \in InBox \cap Mails : n.to = PostmanID /\ n.about = m.to
        THEN SafeOf(mailBox, mailClients) \cup {m}
        ELSE SafeOf(mailBox, mailClients)
  <2>1. (\A j \in DOMAIN mailBox : ~ Ends(mailBox, j, m.to)) <=>
          ~ \E n \in InBox \cap Mails : n.to = PostmanID /\ n.about = m.to
    <3>1. \A j \in DOMAIN mailBox : mailBox[j] \in Letters /\ mailBox[j] \in InBox
      BY BoxFacts
    <3>2. \A n \in InBox : \E j \in DOMAIN mailBox : n = mailBox[j]
      BY BoxFacts
    <3>3. \A n \in Letters : n.to = PostmanID => n \in Mails
      BY Bounced
    <3>4. QED
      BY <3>1, <3>2, <3>3 DEF Ends
  <2>2. SafeOf(mailBox', mailClients') = SafeOf(mailBox, mailClients) \cup
          {n \in {m} \cap Mails : n.to \in mailClients
                              /\ \A j \in DOMAIN mailBox : ~ Ends(mailBox, j, n.to)}
    BY <1>1, <1>2, BoxFacts, SafeEntered
  <2>3. QED
    BY <1>1, <2>1, <2>2, Bounces
<1>6. Promise!Accept(m)
  BY <1>1, <1>2, <1>3, <1>4, <1>5, Bounces DEF Promise!Accept, Promise!Moves, Promise!Ending,
     SameBounces
<1>7. QED
  BY <1>1, <1>6 DEF Promise!Next

LEMMA EnterBouncePromise ==
  ASSUME IInv, EnterBounce
  PROVE  UNCHANGED Promise!vars
<1>1. /\ inHand \in Letters \ Mails /\ Hand' = {} /\ InBox' = InBox \cup {inHand}
      /\ Hand = {inHand}
  BY BoxFacts, EnterBounceKeeps DEF EnterBounce, Hand
<1>2. mailBox' = Append(mailBox, inHand) /\ UNCHANGED <<mailClients, posting, carrying, received, closed>>
  BY DEF EnterBounce
<1>3. SameBounces
  BY <1>1, <1>2, Bounces DEF SameBounces, Returned, Told, Lost
<1>4. SafeOf(mailBox, mailClients)' = SafeOf(mailBox, mailClients)
  <2>1. SafeOf(mailBox', mailClients') = SafeOf(mailBox, mailClients) \cup
          {n \in {inHand} \cap Mails : n.to \in mailClients
                              /\ \A j \in DOMAIN mailBox : ~ Ends(mailBox, j, n.to)}
    BY <1>1, <1>2, BoxFacts, SafeEntered
  <2>2. QED
    BY <1>1, <2>1, Bounces
<1>5. QED
  BY <1>1, <1>2, <1>3, <1>4, Bounces DEF Promise!vars, Promise!boxes, SameBounces

(* A letter that is taken for another place than a client's end.           *)
LEMMA TakenPromise ==
  ASSUME IInv, NEW m \in InBox, Take(m), m.to # PostmanID, mailClients' = mailClients
  PROVE  /\ m \in Letters /\ InBox' = InBox \ {m} /\ Hand = {}
         /\ SafeOf(mailBox, mailClients)' = SafeOf(mailBox, mailClients) \ {m}
<1>1. m \in Letters /\ InBox' = InBox \ {m} /\ Hand = {}
  BY BoxFacts, TakenLetter
<1>2. mailBox # <<>> /\ m = Head(mailBox) /\ mailBox' = Tail(mailBox)
  BY DEF Take
<1>3. SafeOf(Tail(mailBox), mailClients) = SafeOf(mailBox, mailClients) \ {Head(mailBox)}
  BY <1>2, BoxFacts, SafeTaken
<1>4. QED
  BY <1>1, <1>2, <1>3, Bounces

LEMMA UnregisterPromise ==
  ASSUME IInv, NEW m \in InBox, handlePostmanMails(m)
  PROVE  Promise!Next
<1>1. /\ Take(m) /\ m.to = PostmanID
      /\ mailClients' = mailClients \ {m.about} /\ closed' = closed \cup {m}
      /\ UNCHANGED <<posting, carrying, received>> /\ Hand' = Hand
      /\ mailBox # <<>> /\ m = Head(mailBox) /\ mailBox' = Tail(mailBox)
  BY DEF handlePostmanMails, Take, Hand
<1>2. m \in Mails /\ InBox' = InBox \ {m}
  BY <1>1, BoxFacts, TakenLetter, Bounced
<1>3. SameBounces
  BY <1>1, <1>2, Bounces, Bounced DEF SameBounces, Returned, Told, Lost
<1>4. /\ SafeOf(Tail(mailBox), mailClients') = SafeOf(mailBox, mailClients) \ {m}
      /\ m \notin SafeOf(mailBox, mailClients)
      /\ \A n \in SafeOf(mailBox, mailClients) : n.to # m.about
  BY <1>1, BoxFacts, SafeTaken
<1>5. SafeOf(mailBox, mailClients)' = SafeOf(mailBox, mailClients)
  BY <1>1, <1>4, Bounces
<1>6. Promise!Unregister(m)
  BY <1>1, <1>2, <1>3, <1>4, <1>5, Bounces DEF Promise!Unregister, Promise!Moves, SameBounces
<1>7. QED
  BY <1>2, <1>6 DEF Promise!Next

LEMMA DeliverPromise ==
  ASSUME IInv, NEW m \in InBox, Deliver(m)
  PROVE  Promise!Next
<1>1. /\ Take(m) /\ m.to \in mailClients /\ m.to # PostmanID
      /\ carrying' = carrying \cup {m}
      /\ UNCHANGED <<mailClients, posting, received, closed>> /\ Hand' = Hand
  BY BoxFacts DEF Deliver, Hand
<1>2. /\ m \in Letters /\ InBox' = InBox \ {m}
      /\ SafeOf(mailBox, mailClients)' = SafeOf(mailBox, mailClients) \ {m}
  BY <1>1, TakenPromise
<1>3. CASE m \in Mails
  <2>1. SameBounces
    BY <1>1, <1>2, <1>3, Bounces, Bounced DEF SameBounces, Returned, Told, Lost
  <2>2. Promise!HandOver(m)
    BY <1>1, <1>2, <1>3, <2>1, Bounces DEF Promise!HandOver, Promise!Moves, SameBounces
  <2>3. QED
    BY <1>3, <2>2 DEF Promise!Next
<1>4. CASE m \notin Mails
  <2>1. PICK n \in Mails : m = Bounce(n)
    BY <1>2, <1>4, Bounced
  <2>2. \A k \in Mails : Bounce(k) = m <=> k = n
    BY <2>1, Bounced
  <2>3. Bounce(n) \notin Hand \cup carrying \cup received
    BY <2>1, BoxFacts DEF PostmanOK, OnePlace
  <2>4. /\ n \in Returned /\ Returned' = Returned \ {n}
        /\ Told' = Told \cup {n} /\ Lost' = Lost
    BY <1>1, <1>2, <2>1, <2>2, <2>3, Bounces DEF Returned, Told, Lost
  <2>5. n.from \in mailClients
    BY <1>1, <2>1, Bounced
  <2>6. SafeOf(mailBox, mailClients)' = SafeOf(mailBox, mailClients)
    BY <1>2, <1>4, SafeGrows
  <2>7. Promise!Tell(n)
    BY <1>1, <1>2, <1>4, <2>4, <2>5, <2>6, Bounces DEF Promise!Tell, Promise!Moves
  <2>8. QED
    BY <2>7 DEF Promise!Next
<1>5. QED
  BY <1>3, <1>4

LEMMA SendBackPromise ==
  ASSUME IInv, NEW m \in InBox, SendBack(m)
  PROVE  Promise!Next
<1>1. /\ Take(m) /\ m.to \notin mailClients /\ m.to # PostmanID
      /\ UNCHANGED <<mailClients, posting, carrying, received, closed>>
  BY DEF SendBack
<1>2. /\ m \in Mails /\ Bounce(m) \notin Everywhere
      /\ InBox' = InBox \ {m} /\ Hand = {} /\ Hand' = {Bounce(m)}
  BY BoxFacts, SendBackKeeps
<1>3. SafeOf(mailBox, mailClients)' = SafeOf(mailBox, mailClients) \ {m}
  BY <1>1, TakenPromise
<1>4. m \notin SafeOf(mailBox, mailClients)
  BY <1>1, SafeIn DEF Safe
<1>5. Returned' = Returned \cup {m} /\ Told' = Told /\ Lost' = Lost
  <2>1. \A k \in Mails : Bounce(k) = Bounce(m) <=> k = m
    BY <1>2, Bounced
  <2>2. \A k \in Mails : Bounce(k) # m
    BY <1>2, Bounced
  <2>3. QED
    BY <1>1, <1>2, <2>1, <2>2, Bounces DEF Returned, Told, Lost
<1>6. SafeOf(mailBox, mailClients)' = SafeOf(mailBox, mailClients)
  BY <1>3, <1>4
<1>7. Promise!Return(m)
  BY <1>1, <1>2, <1>4, <1>5, <1>6, Bounces DEF Promise!Return, Promise!Moves
<1>8. QED
  BY <1>2, <1>7 DEF Promise!Next

LEMMA DropPromise ==
  ASSUME IInv, NEW m \in InBox, Drop(m)
  PROVE  Promise!Next
<1>1. /\ Take(m) /\ m.to \notin mailClients /\ m.to # PostmanID /\ m.from = PostmanID
      /\ closed' = closed \cup {m}
      /\ UNCHANGED <<mailClients, posting, carrying, received>> /\ Hand' = Hand
  BY DEF Drop, Hand
<1>2. /\ m \in Letters /\ InBox' = InBox \ {m}
      /\ SafeOf(mailBox, mailClients)' = SafeOf(mailBox, mailClients) \ {m}
  BY <1>1, TakenPromise
<1>3. m \notin Mails
  BY <1>1, Senders
<1>4. PICK n \in Mails : m = Bounce(n)
  BY <1>2, <1>3, Bounced
<1>5. \A k \in Mails : Bounce(k) = m <=> k = n
  BY <1>4, Bounced
<1>6. Bounce(n) \notin Hand \cup closed
  BY <1>4, BoxFacts DEF PostmanOK, OnePlace
<1>7. /\ n \in Returned /\ Returned' = Returned \ {n}
      /\ Told' = Told /\ Lost' = Lost \cup {n}
  BY <1>1, <1>2, <1>4, <1>5, <1>6, Bounces DEF Returned, Told, Lost
<1>8. n.from \notin mailClients
  BY <1>1, <1>4, Bounced
<1>9. SafeOf(mailBox, mailClients)' = SafeOf(mailBox, mailClients)
  BY <1>2, <1>3, SafeGrows
<1>10. Promise!Lose(n)
  BY <1>1, <1>2, <1>3, <1>7, <1>8, <1>9, Bounces DEF Promise!Lose, Promise!Moves
<1>11. QED
  BY <1>10 DEF Promise!Next

LEMMA ReceivePromise ==
  ASSUME IInv, NEW m \in carrying, recieveMail(m)
  PROVE  UNCHANGED Promise!vars
<1>1. /\ carrying' \cup received' = carrying \cup received
      /\ UNCHANGED <<mailClients, posting, mailBox, closed>>
      /\ Hand' = Hand /\ InBox' = InBox
  BY DEF recieveMail, Hand, InBox
<1>2. SameBounces
  BY <1>1, Bounces DEF SameBounces, Returned, Told, Lost
<1>3. SafeOf(mailBox, mailClients)' = SafeOf(mailBox, mailClients)
  BY <1>1, Bounces
<1>4. QED
  BY <1>1, <1>2, <1>3, Bounces DEF Promise!vars, Promise!boxes, SameBounces

LEMMA PostmanPromise ==
  ASSUME IInv, PostmanNext
  PROVE  [Promise!Next]_Promise!vars
BY EnterBouncePromise, UnregisterPromise, DeliverPromise, SendBackPromise, DropPromise,
   EnterPromise, ReceivePromise DEF PostmanNext, deliverMails

(* A step of the service posts a mail, registers a client, or does neither.*)
LEMMA ServicePromise ==
  ASSUME IInv, ServiceNext
  PROVE  [Promise!Next]_Promise!vars
<1>1. CASE UNCHANGED postmanVars
  BY <1>1, StillPromise
<1>2. CASE RegisterBotManager
  <2>1. Share(None) \in Mails /\ Share(None).to = "botManager"
    BY MailKinds, Apart
  <2>2. QED
    BY <1>2, <2>1, RegisterPromise DEF RegisterBotManager
<1>3. CASE StartMaster
  <2>1. Share(None) \in Mails /\ ~ Posted(Share(None))
    BY <1>3, MailKinds DEF StartMaster, IInv, NotYet
  <2>2. PostMail(Share(None)) \/ UNCHANGED posting
    BY <1>3 DEF StartMaster
  <2>3. OthersUnchanged /\ mailClients' = mailClients
    BY <1>3 DEF StartMaster
  <2>4. UNCHANGED posting => UNCHANGED postmanVars
    BY <2>3 DEF OthersUnchanged, postmanVars
  <2>5. QED
    BY <1>1, <2>1, <2>2, <2>3, <2>4, PostPromise
<1>4. CASE RegisterMaster
  <2>1. Launch \in Mails /\ Launch.to = "master"
    BY MailKinds, Apart DEF FirstSlave
  <2>2. QED
    BY <1>4, <2>1, RegisterPromise DEF RegisterMaster
<1>5. ASSUME NEW m \in FirstSlave, SchedulerCalls(m) PROVE Promise!Next
  <2>1. m \in Mails
    BY MailKinds
  <2>2. /\ ~ Posted(m) /\ PostMail(m) /\ OthersUnchanged
        /\ mailClients' = mailClients
    BY <1>5 DEF SchedulerCalls
  <2>3. QED
    BY <2>1, <2>2, PostPromise
<1>6. ASSUME NEW r \in Requests, RefreshBots(r) PROVE Promise!Next
  <2>1. Refresh(r) \in Mails /\ ~ Posted(Refresh(r))
    BY <1>6, MailKinds DEF RefreshBots, IInv, NotYet
  <2>2. QED
    BY <1>6, <2>1, PostPromise DEF RefreshBots
<1>7. ASSUME NEW r \in Requests, refreshBots(r) PROVE [Promise!Next]_Promise!vars
  <2>1. Share(r) \in Mails /\ ~ Posted(Share(r))
    BY <1>7, MailKinds DEF refreshBots, Handles, IInv, NotYet
  <2>2. PostMail(Share(r)) \/ UNCHANGED posting
    BY <1>7 DEF refreshBots
  <2>3. OthersUnchanged /\ mailClients' = mailClients
    BY <1>7 DEF refreshBots
  <2>4. UNCHANGED posting => UNCHANGED postmanVars
    BY <2>3 DEF OthersUnchanged, postmanVars
  <2>5. QED
    BY <1>1, <2>1, <2>2, <2>3, <2>4, PostPromise
<1>8. ASSUME NEW b \in Bots, handleCorruptedBot(b) PROVE Promise!Next
  BY <1>8, MailKinds, PostPromise DEF handleCorruptedBot
<1>9. ASSUME NEW w \in Watchers, CreateWatcher(w) PROVE Promise!Next
  <2>1. Result(w) \in Mails /\ Result(w).to = w
    BY MailKinds, Apart
  <2>2. QED
    BY <1>9, <2>1, RegisterPromise DEF CreateWatcher, WatcherUnchanged
<1>10. ASSUME NEW w \in Watchers, SendResult(w) \/ EndWatcher(w) PROVE Promise!Next
  BY <1>10, MailKinds, PostPromise DEF SendResult, EndWatcher, WatcherUnchanged
<1>11. \/ UNCHANGED postmanVars
       \/ RegisterBotManager \/ StartMaster \/ RegisterMaster
       \/ \E m \in FirstSlave : SchedulerCalls(m)
       \/ \E r \in Requests : RefreshBots(r) \/ refreshBots(r)
       \/ \E b \in Bots : handleCorruptedBot(b)
       \/ \E w \in Watchers : CreateWatcher(w) \/ SendResult(w) \/ EndWatcher(w)
  BY DEF ServiceNext, StartSlave, InsertBot, UpdateBot, DeleteBot, AskRefresh, RefreshFails,
     Commit, CommitFails, RenewCookies
<1>12. QED
  BY <1>1, <1>2, <1>3, <1>4, <1>5, <1>6, <1>7, <1>8, <1>9, <1>10, <1>11

(* postman.go:20-55: the postman keeps its promise, whoever registers,     *)
(* posts and goes meanwhile.                                               *)
THEOREM PromiseKept == Spec => MailSpec
<1>1. Init => Promise!Init
  BY DEF Init, PostmanInit, Promise!Init, InBox, Hand, SafeOf, Returned, Told, Lost
<1>2. IInv /\ [Next]_vars => [Promise!Next]_Promise!vars
  <2>1. ASSUME IInv, UNCHANGED vars PROVE UNCHANGED Promise!vars
    BY <2>1, StillPromise DEF vars
  <2>2. QED
    BY <2>1, PostmanPromise, ServicePromise DEF Next
<1>3. QED
  BY Inductive, <1>1, <1>2, PTL DEF Spec, MailSpec, Promise!Spec

-----------------------------------------------------------------------------
(* What follows from MailService for those who post.                       *)
SafeNow == SafeOf(mailBox, mailClients)
HandedNow == (carrying \cup received) \cap Mails
ReturnedNow == Returned \cup Told \cup Lost

(* A safe mail waits or is handed over, and what happened to a mail is     *)
(* never undone.                                                           *)
Arrives ==
  /\ SafeNow \subseteq SafeNow' \cup HandedNow'
  /\ HandedNow \subseteq HandedNow'
  /\ ReturnedNow \subseteq ReturnedNow'

(* postman.go:20-55: a mail posted to a client that is registered, and of  *)
(* which no end was accepted before, cannot be dropped or returned: it     *)
(* leaves the mailbox only to be handed over, whoever comes and goes.      *)
THEOREM SafeMailsArrive == Spec => [][Arrives]_Promise!vars
<1>1. Promise!Next => Arrives
  <2> USE DEF Arrives, SafeNow, HandedNow, ReturnedNow
  <2>1. ASSUME NEW c, Promise!Register(c) PROVE Arrives
    BY <2>1 DEF Promise!Register, Promise!boxes
  <2>2. ASSUME NEW m \in Mails,
               Promise!Post(m) \/ Promise!Accept(m) \/ Promise!HandOver(m)
                 \/ Promise!Unregister(m) \/ Promise!Return(m)
        PROVE  Arrives
    BY <2>2 DEF Promise!Post, Promise!Accept, Promise!HandOver, Promise!Unregister,
       Promise!Return, Promise!Moves
  <2>3. ASSUME NEW m \in Mails, Promise!Tell(m) \/ Promise!Lose(m) PROVE Arrives
    BY <2>3 DEF Promise!Tell, Promise!Lose, Promise!Moves
  <2>4. QED
    BY <2>1, <2>2, <2>3 DEF Promise!Next
<1>2. QED
  BY <1>1, PromiseKept, PTL DEF MailSpec, Promise!Spec
=============================================================================
