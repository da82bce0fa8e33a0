----------------------------- MODULE AuthProofs ------------------------------
(* Proofs about accounts for any requests, addresses and bots, and any     *)
(* capacity of the channel of mails.                                       *)
EXTENDS AuthProperties, SequenceTheorems, TLAPS

(* The steps by name: of the mailer, and of a request.                     *)
MailStep == MailerNext /\ UNCHANGED authVars

RequestStep(r) ==
  \/ \E q \in Request : Ask(r, q)
  \/ CreateToken(r) \/ NewMail(r)
  \/ Validate(r) \/ VerifyExpired(r) \/ DeleteExpired(r)
  \/ Write(r) \/ VerifyAgain(r) \/ Invalidate(r)
  \/ Fail(r) \/ Expire(r)

LEMMA StepCases ==
  Next <=> MailStep \/ \E r \in Requests : RequestStep(r)
BY Zenon DEF Next, MailStep, RequestStep

LEMMA QueueTypes ==
  ASSUME MailTypes, NEW job \in Jobs, Queue(job)
  PROVE  emailChan' \in Seq(Jobs) /\ Len(emailChan') <= EmailCapacity
BY MailerAssumption DEF MailTypes, Queue

LEMMA MailTypesKept ==
  ASSUME MailTypes, MailStep
  PROVE  MailTypes'
<1> USE MailerAssumption DEF MailTypes
<1>1. CASE StartEmailWorkers
  BY <1>1 DEF StartEmailWorkers
<1>2. CASE TakeJob
  <2>1. emailChan # <<>> /\ emailChan' = Tail(emailChan)
    BY <1>2 DEF TakeJob
  <2>2. Head(emailChan) \in Jobs /\ Tail(emailChan) \in Seq(Jobs)
        /\ Len(Tail(emailChan)) <= EmailCapacity
    BY <2>1, HeadTailProperties
  <2>3. QED
    BY <1>2, <2>1, <2>2 DEF TakeJob
<1>3. CASE Send
  BY <1>3 DEF Send
<1>4. CASE CloseIdle
  BY <1>4 DEF CloseIdle
<1>5. CASE \E b \in Bots :
             \/ ReportCorruptedBot(b) \/ MailManagers(b)
             \/ AlertQueued(b) \/ AlertCut(b)
             \/ AlertAgain(b) \/ AlertGivesUp(b) \/ Deadline(b)
  <2>1. PICK b \in Bots :
             \/ ReportCorruptedBot(b) \/ MailManagers(b)
             \/ AlertQueued(b) \/ AlertCut(b)
             \/ AlertAgain(b) \/ AlertGivesUp(b) \/ Deadline(b)
    BY <1>5
  <2>2. CASE ReportCorruptedBot(b)
    BY <2>2 DEF ReportCorruptedBot, SetAlert
  <2>3. CASE MailManagers(b)
    BY <2>3 DEF MailManagers, SetAlert
  <2>4. CASE AlertQueued(b)
    <3>1. AlertMail(b) \in Jobs
      BY DEF Jobs
    <3>2. QED
      BY <2>4, <3>1, QueueTypes DEF AlertQueued, SetAlert
  <2>5. CASE AlertCut(b)
    BY <2>5 DEF AlertCut, SetAlert
  <2>6. CASE AlertAgain(b)
    BY <2>6 DEF AlertAgain, SetAlert
  <2>7. CASE AlertGivesUp(b)
    BY <2>7 DEF AlertGivesUp, SetAlert
  <2>8. CASE Deadline(b)
    BY <2>8 DEF Deadline
  <2>9. QED
    BY <2>1, <2>2, <2>3, <2>4, <2>5, <2>6, <2>7, <2>8
<1>6. QED
  BY <1>1, <1>2, <1>3, <1>4, <1>5 DEF MailStep, MailerNext

(* Of the mailer's variables a request changes the channel only.           *)
LEMMA MailTypesRequest ==
  ASSUME MailTypes, NEW r \in Requests, RequestStep(r)
  PROVE  MailTypes' /\ sent' = sent
<1>1. CASE NewMail(r)
  <2>1. TokenMail(r) \in Jobs
    BY DEF Jobs
  <2>2. QED
    BY <1>1, <2>1, QueueTypes DEF NewMail, MailTypes
<1>2. CASE UNCHANGED mailerVars
  BY <1>2 DEF MailTypes, mailerVars
<1>3. QED
  BY <1>1, <1>2 DEF RequestStep, Ask, CreateToken, Validate, VerifyExpired,
     DeleteExpired, Write, VerifyAgain, Invalidate, Fail, Expire

-----------------------------------------------------------------------------
Types == RowTypes /\ \A r \in Requests : Consistent(r)

LEMMA RequestTypesKept ==
  ASSUME Types, NEW r \in Requests, RequestStep(r)
  PROVE  Types'
<1> USE AuthAssumption DEF Types, RowTypes, Consistent, Made, Become, Stages
<1>1. CASE \E q \in Request : Ask(r, q)
  <2>1. PICK q \in Request : Ask(r, q)
    BY <1>1
  <2>2. q.op \in {"send", "use"}
    BY DEF Request
  <2>3. QED
    BY <2>1, <2>2 DEF Ask
<1>2. CASE CreateToken(r)
  BY <1>2 DEF CreateToken
<1>3. CASE NewMail(r)
  BY <1>3 DEF NewMail
<1>4. CASE Validate(r)
  BY <1>4 DEF Validate
<1>5. CASE VerifyExpired(r)
  BY <1>5 DEF VerifyExpired
<1>6. CASE DeleteExpired(r)
  BY <1>6 DEF DeleteExpired, DeleteTokens
<1>7. CASE Write(r)
  <2>1. asked[r].mail \in Emails
    BY <1>7 DEF Write, Request
  <2>2. QED
    BY <1>7, <2>1 DEF Write
<1>8. CASE VerifyAgain(r)
  BY <1>8 DEF VerifyAgain
<1>9. CASE Invalidate(r)
  BY <1>9 DEF Invalidate, DeleteTokens
<1>10. CASE Fail(r)
  BY <1>10 DEF Fail
<1>11. CASE Expire(r)
  BY <1>11 DEF Expire
<1>12. QED
  BY <1>1, <1>2, <1>3, <1>4, <1>5, <1>6, <1>7, <1>8, <1>9, <1>10, <1>11 DEF RequestStep

LEMMA SameRows ==
  ASSUME UNCHANGED authVars
  PROVE  /\ Types => Types'
         /\ Together => Together'
         /\ AccountsProven /\ sent \subseteq sent' => AccountsProven'
         /\ \A r \in Requests : Holds(r) /\ sent \subseteq sent' => Holds(r)'
<1> USE DEF authVars
<1>1. Types => Types'
  BY DEF Types, RowTypes, Consistent, Made
<1>2. Together => Together'
  BY DEF Together, Newer, Made, Key
<1>3. AccountsProven /\ sent \subseteq sent' => AccountsProven'
  BY DEF AccountsProven, Made, Key, TokenMail
<1>4. \A r \in Requests : Holds(r) /\ sent \subseteq sent' => Holds(r)'
  BY DEF Holds, Validated, Spent, Newer, Made, Key, TokenMail
<1>5. QED
  BY <1>1, <1>2, <1>3, <1>4

LEMMA SentGrows ==
  ASSUME MailStep
  PROVE  sent \subseteq sent'
BY DEF MailStep, MailerNext, StartEmailWorkers, TakeJob, Send, CloseIdle,
   ReportCorruptedBot, MailManagers, AlertQueued, AlertCut, AlertAgain,
   AlertGivesUp, Deadline

-----------------------------------------------------------------------------
(* What a step of a request leaves as it is: what was asked, what was made *)
(* and when; the only token that comes is one that was never made.         *)
Frame(s) ==
  /\ \A r \in Requests : pc[r] # "idle" => asked'[r] = asked[r]
  /\ \A r \in Requests \ {s} : asked'[r] = asked[r] /\ pc'[r] = pc[r]
  /\ \A t \in Requests : Made(t) => created'[t] = created[t]
  /\ \A t \in tokens' : t \in tokens \/ ~ Made(t)

LEMMA StepFrame ==
  ASSUME Types, NEW s \in Requests, RequestStep(s)
  PROVE  Frame(s)
<1> USE DEF Types, RowTypes, Frame, Become
<1>1. CASE \E q \in Request : Ask(s, q)
  BY <1>1 DEF Ask
<1>2. CASE CreateToken(s)
  BY <1>2 DEF CreateToken, Consistent
<1>3. CASE DeleteExpired(s) \/ Invalidate(s)
  BY <1>3 DEF DeleteExpired, Invalidate, DeleteTokens
<1>4. CASE NewMail(s) \/ Validate(s) \/ VerifyExpired(s)
  BY <1>4 DEF NewMail, Validate, VerifyExpired
<1>5. CASE Write(s) \/ VerifyAgain(s) \/ Fail(s) \/ Expire(s)
  BY <1>5 DEF Write, VerifyAgain, Fail, Expire
<1>6. QED
  BY <1>1, <1>2, <1>3, <1>4, <1>5 DEF RequestStep

(* A token that was made keeps its key.                                    *)
LEMMA MadeKept ==
  ASSUME Types, NEW s \in Requests, Frame(s), NEW t \in Requests, Made(t)
  PROVE  /\ Made(t)' /\ Key(t)' = Key(t) /\ created'[t] = created[t]
         /\ asked[t] \in Request
BY DEF Types, RowTypes, Consistent, Frame, Made, Key

(* What holds for a request goes on to hold while another moves.           *)
LEMMA OthersHold ==
  ASSUME Types, NEW s \in Requests, Frame(s), sent' = sent,
         NEW r \in Requests \ {s}, Holds(r)
  PROVE  Holds(r)'
<1> PICK t : t = asked[r].token
  OBVIOUS
<1>1. asked'[r] = asked[r] /\ pc'[r] = pc[r]
  BY DEF Frame
<1>2. pc[r] # "idle" => asked[r] \in Request
  BY DEF Types, Consistent
<1>3. asked[r] \in Request /\ asked[r].op = "use" => t \in Requests
  BY DEF Request
<1>4. pc'[r] # "idle" /\ asked'[r].op = "use" => TokenMail(asked'[r].token) \in sent'
  BY <1>1 DEF Holds
<1>5. asked[r].op = "use" /\ pc[r] \in {"write", "verify", "delete", "done"}
        => t \in Requests /\ Validated(r)
  BY <1>2, <1>3 DEF Holds
<1>6. t \in Requests /\ Validated(r) => Validated(r)'
  BY <1>1, MadeKept DEF Validated, Key
<1>7. ASSUME t \in Requests, Validated(r), Spent(t)
      PROVE  t \notin tokens' \/ \E u \in Requests : Newer(u, t)'
  <2>1. CASE t \notin tokens
    BY <1>7, <2>1 DEF Frame, Validated
  <2>2. CASE \E u \in Requests : Newer(u, t)
    <3>1. PICK u \in Requests : Newer(u, t)
      BY <2>2
    <3>2. Newer(u, t)'
      BY <1>7, <3>1, MadeKept DEF Newer, Validated
    <3>3. QED
      BY <3>2
  <2>3. QED
    BY <1>7, <2>1, <2>2 DEF Spent
<1>8. pc'[r] = "done" /\ asked'[r].op = "use" => Spent(t)'
  BY <1>1, <1>5, <1>7 DEF Holds, Spent
<1>9. QED
  BY <1>1, <1>4, <1>5, <1>6, <1>8 DEF Holds, Spent, Newer, Made, Key

-----------------------------------------------------------------------------
(* The newest token of a key was made, for that key.                       *)
LEMMA VerifiedMade ==
  ASSUME Types, NEW r \in Requests, NEW p \in {SignUp, Reset},
         VerifyToken(r, p)
  PROVE  /\ asked[r].token \in Requests /\ Made(asked[r].token)
         /\ Key(asked[r].token) = <<asked[r].mail, p>>
BY DEF Types, RowTypes, VerifyToken, Newest

(* A token that is not the newest of its own key is spent.                 *)
LEMMA NotNewestSpent ==
  ASSUME Types, NEW r \in Requests, Validated(r),
         ~ VerifyToken(r, asked[r].purpose)
  PROVE  Spent(asked[r].token)
<1> PICK t : t = asked[r].token
  OBVIOUS
<1>1. Key(t) = <<asked[r].mail, asked[r].purpose>>
  BY DEF Validated, Key
<1>2. CASE t \in tokens
  <2>1. PICK u \in tokens : Key(u) = Key(t) /\ ~ (created[u] <= created[t])
    BY <1>1, <1>2 DEF VerifyToken, Newest
  <2>2. t \in Requests /\ u \in Requests /\ Made(u)
        /\ created[u] \in Nat /\ created[t] \in Nat
    BY <1>2 DEF Types, RowTypes
  <2>3. QED
    BY <2>1, <2>2 DEF Spent, Newer
<1>3. QED
  BY <1>2 DEF Spent

LEMMA ActorHolds ==
  ASSUME Types, Types', NEW r \in Requests, Holds(r), RequestStep(r), sent' = sent
  PROVE  Holds(r)'
<1>f. Frame(r)
  BY StepFrame
<1> USE DEF Types, RowTypes, Become
<1>1. CASE \E q \in Request : Ask(r, q)
  <2>1. PICK q \in Request : Ask(r, q)
    BY <1>1
  <2>2. pc'[r] \in {"create", "validate"} /\ asked'[r] = q
    BY <2>1 DEF Ask
  <2>3. q.op = "use" => TokenMail(q.token) \in sent
    BY <2>1 DEF Ask
  <2>4. QED
    BY <2>2, <2>3 DEF Holds
<1>2. CASE CreateToken(r) \/ NewMail(r)
  <2>1. pc[r] # "idle" /\ asked[r].op = "send" /\ asked' = asked
    BY <1>2 DEF CreateToken, NewMail, Consistent
  <2>2. QED
    BY <2>1 DEF Holds
<1>3. CASE Validate(r)
  <2>1. pc[r] # "idle" /\ asked[r] \in Request /\ UNCHANGED <<asked, created>>
        /\ pc'[r] \in {"failed", "expired", "write"}
    BY <1>3 DEF Validate, Consistent
  <2>2. asked[r].purpose \in {SignUp, Reset}
    BY <2>1 DEF Request
  <2>3. pc'[r] = "write" => VerifyToken(r, asked[r].purpose)
    BY <1>3 DEF Validate
  <2>4. pc'[r] = "write" => Validated(r)
    BY <2>2, <2>3, VerifiedMade DEF Validated, Key
  <2>5. Validated(r) => Validated(r)'
    BY <2>1 DEF Validated, Made, Key
  <2>6. QED
    BY <2>1, <2>4, <2>5 DEF Holds
<1>4. CASE VerifyExpired(r) \/ DeleteExpired(r) \/ Fail(r)
  <2>1. /\ pc[r] # "idle" /\ UNCHANGED <<asked, created>>
        /\ pc'[r] \in {"deleteExpired", "failed", "kept"}
    BY <1>4 DEF VerifyExpired, DeleteExpired, Fail
  <2>2. QED
    BY <2>1 DEF Holds
<1>5. CASE Write(r)
  <2>1. pc[r] = "write" /\ UNCHANGED <<asked, created>> /\ pc'[r] \in {"failed", "verify"}
    BY <1>5 DEF Write
  <2>2. Validated(r) => Validated(r)'
    BY <2>1 DEF Validated, Made, Key
  <2>3. QED
    BY <2>1, <2>2 DEF Holds
<1>6. CASE VerifyAgain(r)
  <2>1. /\ pc[r] = "verify" /\ UNCHANGED <<asked, tokens, created>>
        /\ pc'[r] \in {"delete", "failed", "done"}
        /\ pc'[r] = "done" => ~ VerifyToken(r, asked[r].purpose)
    BY <1>6 DEF VerifyAgain
  <2>2. asked[r].op = "use" => Validated(r)
    BY <2>1 DEF Holds
  <2>3. Validated(r) => Validated(r)'
    BY <2>1 DEF Validated, Made, Key
  <2>4. pc'[r] = "done" /\ asked[r].op = "use" => Spent(asked[r].token)
    BY <2>1, <2>2, NotNewestSpent
  <2>5. Spent(asked[r].token) => Spent(asked[r].token)'
    BY <2>1 DEF Spent, Newer, Made, Key
  <2>6. QED
    BY <2>1, <2>2, <2>3, <2>4, <2>5 DEF Holds
<1>7. CASE Invalidate(r)
  <2>1. /\ pc[r] = "delete" /\ UNCHANGED <<asked, created>> /\ pc'[r] = "done"
        /\ tokens' = {t \in tokens : Key(t) # Key(r)}
    BY <1>7 DEF Invalidate, DeleteTokens
  <2>2. asked[r].op = "use" => Validated(r)
    BY <2>1 DEF Holds
  <2>3. Validated(r) => Validated(r)'
    BY <2>1 DEF Validated, Made, Key
  <2>4. Validated(r) => asked[r].token \notin tokens'
    BY <2>1 DEF Validated
  <2>5. QED
    BY <2>1, <2>2, <2>3, <2>4 DEF Holds, Spent
<1>8. CASE Expire(r)
  <2>1. UNCHANGED <<asked, pc, tokens, created>>
    BY <1>8 DEF Expire
  <2>2. QED
    BY <2>1 DEF Holds, Validated, Spent, Newer, Made, Key
<1>9. QED
  BY <1>1, <1>2, <1>3, <1>4, <1>5, <1>6, <1>7, <1>8 DEF RequestStep

-----------------------------------------------------------------------------
LEMMA TogetherKept ==
  ASSUME Types, Types', NEW r \in Requests, Together, RequestStep(r)
  PROVE  Together'
<1>f. Frame(r)
  BY StepFrame
<1>1. ASSUME NEW t \in Requests, NEW u \in Requests, created' = created,
             Made(t), Newer(u, t)'
      PROVE  Newer(u, t) /\ Key(t)' = Key(t)
  BY <1>f, <1>1, MadeKept DEF Newer, Made
<1>2. CASE created' = created /\ tokens' = tokens
  BY <1>1, <1>2 DEF Together, Types, RowTypes
<1>3. CASE DeleteExpired(r) \/ Invalidate(r)
  <2>1. PICK key : tokens' = {t \in tokens : Key(t) # key}
    BY <1>3 DEF DeleteExpired, Invalidate, DeleteTokens
  <2>2. created' = created
    BY <1>3 DEF DeleteExpired, Invalidate
  <2>3. SUFFICES ASSUME NEW t \in tokens', NEW u \in Requests, Newer(u, t)'
                 PROVE  u \in tokens'
    BY DEF Together
  <2>4. t \in tokens /\ t \in Requests /\ Made(t) /\ Key(t) # key
    BY <2>1 DEF Types, RowTypes
  <2>5. Newer(u, t)
    BY <1>1, <2>2, <2>3, <2>4
  <2>6. u \in tokens /\ Key(u) = Key(t)
    BY <2>4, <2>5 DEF Together, Newer
  <2>7. QED
    BY <2>1, <2>4, <2>6
<1>4. CASE CreateToken(r)
  <2>1. tokens' = tokens \cup {r} /\ created' = [created EXCEPT ![r] = clock + 1]
        /\ UNCHANGED asked
    BY <1>4 DEF CreateToken
  <2>2. SUFFICES ASSUME NEW t \in tokens', NEW u \in Requests, u # r, Newer(u, t)'
                 PROVE  u \in tokens
    BY <2>1 DEF Together
  <2>3. created'[u] = created[u] /\ Made(u) /\ created[u] <= clock /\ created[u] \in Nat
    BY <2>1, <2>2 DEF Types, RowTypes, Consistent, Newer, Made
  <2>4. t # r
    BY <2>1, <2>2, <2>3 DEF Types, RowTypes, Newer
  <2>5. t \in tokens /\ created'[t] = created[t] /\ t \in Requests
    BY <2>1, <2>4 DEF Types, RowTypes
  <2>6. Newer(u, t)
    BY <2>1, <2>2, <2>3, <2>5 DEF Newer, Key
  <2>7. QED
    BY <2>5, <2>6 DEF Together
<1>5. QED
  BY <1>2, <1>3, <1>4 DEF RequestStep, Ask, NewMail, Validate, VerifyExpired,
     Write, VerifyAgain, Fail, Expire

(* The request of an account, for every address at once.                   *)
Proof(e, r) ==
  /\ pc[r] # "idle"
  /\ asked[r].op = "use" /\ asked[r].mail = e
  /\ Made(asked[r].token) /\ Key(asked[r].token) = Key(r)
  /\ TokenMail(asked[r].token) \in sent

Proofs == \A e \in Emails : users[e] \in Requests => Proof(e, users[e])

Busy == \A e \in Emails : users[e] \in Requests => pc[users[e]] # "idle"

LEMMA ProofsMeaning ==
  ASSUME Types
  PROVE  Proofs <=> AccountsProven /\ Busy
<1>1. \A e \in Emails : users[e] \in Requests <=> users[e] \notin {None, Old}
  BY AuthAssumption DEF Types, RowTypes
<1>2. QED
  BY <1>1 DEF Proofs, Proof, AccountsProven, Busy

LEMMA ProofsKept ==
  ASSUME Types, Proofs, NEW s \in Requests, Holds(s), RequestStep(s), sent' = sent
  PROVE  Proofs'
<1>f. Frame(s)
  BY StepFrame
<1>1. \A r \in Requests : pc[r] # "idle" => pc'[r] # "idle" /\ asked'[r] = asked[r]
  <2>1. pc[s] # "idle" => pc'[s] # "idle"
    BY DEF RequestStep, Ask, CreateToken, NewMail, Validate, VerifyExpired,
       DeleteExpired, Write, VerifyAgain, Invalidate, Fail, Expire, Become,
       Types, RowTypes
  <2>2. QED
    BY <1>f, <2>1 DEF Frame
<1>2. \A r \in Requests :
        asked[r] \in Request /\ asked[r].op = "use" => asked[r].token \in Requests
  BY DEF Request
<1>3. ASSUME NEW e \in Emails, NEW r \in Requests, Proof(e, r)
      PROVE  Proof(e, r)'
  <2>1. asked'[r] = asked[r] /\ pc'[r] # "idle" /\ asked[r] \in Request
    BY <1>1, <1>3 DEF Proof, Types, Consistent
  <2>2. PICK t : t = asked[r].token
    OBVIOUS
  <2>3. Made(t) /\ Key(t) = Key(r) /\ t \in Requests
    BY <1>2, <1>3, <2>1, <2>2 DEF Proof
  <2>4. Made(t)' /\ Key(t)' = Key(t) /\ Key(r)' = Key(r)
    BY <1>f, <2>1, <2>3, MadeKept DEF Key
  <2>5. QED
    BY <1>3, <2>1, <2>2, <2>3, <2>4 DEF Proof, Made, Key
<1>4. CASE users' = users
  BY <1>3, <1>4 DEF Proofs
<1>5. CASE Write(s) /\ users' = [users EXCEPT ![asked[s].mail] = s]
  <2>1. pc[s] = "write" /\ asked[s].op = "use" /\ asked[s] \in Request
    BY <1>5 DEF Write, Types, Consistent
  <2>2. Proof(asked[s].mail, s)
    BY <2>1 DEF Holds, Validated, Proof
  <2>3. asked[s].mail \in Emails
    BY <2>1 DEF Request
  <2>4. \A e \in Emails : users'[e] = IF e = asked[s].mail THEN s ELSE users[e]
    BY <1>5, <2>3 DEF Types, RowTypes
  <2>5. SUFFICES ASSUME NEW e \in Emails, NEW r \in Requests, r = users'[e]
                 PROVE  Proof(e, r)'
    BY DEF Proofs, Proof, Made, Key
  <2>6. Proof(e, r)
    BY <2>2, <2>4, <2>5 DEF Proofs
  <2>7. QED
    BY <1>3, <2>6
<1>6. QED
  BY <1>4, <1>5 DEF RequestStep, Ask, CreateToken, NewMail, Validate, VerifyExpired,
     DeleteExpired, Write, VerifyAgain, Invalidate, Fail, Expire

-----------------------------------------------------------------------------
(* IInv by what it is about.                                               *)
LEMMA Parts ==
  IInv <=> /\ MailTypes /\ Types /\ Together
           /\ \A r \in Requests : Holds(r)
           /\ Proofs
BY ProofsMeaning DEF IInv, TypeOK, Types, Busy

LEMMA PartsNext ==
  ASSUME /\ MailTypes' /\ Types' /\ Together'
         /\ (\A r \in Requests : Holds(r))'
         /\ Proofs'
  PROVE  IInv'
BY Parts, PTL

LEMMA InitInductive ==
  ASSUME Init
  PROVE  IInv
<1> USE AuthAssumption, MailerAssumption DEF Init
<1>1. MailTypes
  <2>1. <<>> \in Seq(Jobs) /\ Len(<<>>) = 0
    BY EmptySeq
  <2>2. 0 <= EmailCapacity
    OBVIOUS
  <2>3. alerts \in [Bots -> {"idle", "asking", "onNil", "queueing", "sleeping",
                           "told", "gaveUp"}]
    BY DEF MailerInit
  <2>4. QED
    BY <2>1, <2>2, <2>3 DEF MailerInit, MailTypes
<1>2. Types /\ Together /\ \A r \in Requests : Holds(r)
  BY DEF Types, RowTypes, Consistent, Made, Together, Holds, Stages
<1>3. Proofs
  BY DEF Proofs
<1>4. QED
  BY <1>1, <1>2, <1>3, Parts

LEMMA StepInductive ==
  ASSUME IInv, [Next]_vars
  PROVE  IInv'
<1>1. MailTypes /\ Types /\ Together /\ (\A r \in Requests : Holds(r)) /\ Proofs
  BY Parts
<1>2. CASE UNCHANGED authVars /\ sent \subseteq sent' /\ MailTypes'
  <2>1. Types' /\ Together' /\ (\A r \in Requests : Holds(r))'
    BY <1>1, <1>2, SameRows
  <2>2. Proofs'
    BY <1>1, <1>2 DEF Proofs, Proof, Made, Key, authVars
  <2>3. QED
    BY <1>2, <2>1, <2>2, PartsNext
<1>3. CASE MailStep
  BY <1>1, <1>2, <1>3, MailTypesKept, SentGrows DEF MailStep
<1>4. CASE UNCHANGED vars
  BY <1>1, <1>2, <1>4 DEF vars, mailerVars, MailTypes
<1>5. ASSUME NEW s \in Requests, RequestStep(s)
      PROVE  IInv'
  <2>1. MailTypes' /\ sent' = sent
    BY <1>1, <1>5, MailTypesRequest
  <2>2. Types' /\ Frame(s)
    BY <1>1, <1>5, RequestTypesKept, StepFrame
  <2>3. Together'
    BY <1>1, <1>5, <2>2, TogetherKept
  <2>4. (\A r \in Requests : Holds(r))'
    <3>1. SUFFICES ASSUME NEW r \in Requests
                   PROVE  Holds(r)'
      OBVIOUS
    <3>2. CASE r = s
      BY <1>1, <1>5, <2>1, <2>2, <3>2, ActorHolds
    <3>3. CASE r # s
      BY <1>1, <2>1, <2>2, <3>3, OthersHold
    <3>4. QED
      BY <3>2, <3>3
  <2>5. Proofs'
    BY <1>1, <1>5, <2>1, ProofsKept
  <2>6. QED
    BY <2>1, <2>2, <2>3, <2>4, <2>5, PartsNext
<1>6. QED
  BY <1>3, <1>4, <1>5, StepCases

-----------------------------------------------------------------------------
(* Tokens, requests, accounts and the channel of mails keep their types,   *)
(* and what is proved below holds inductively.                             *)
THEOREM AuthInductive == Spec => []IInv
<1>1. Init => IInv
  BY InitInductive
<1>2. IInv /\ [Next]_vars => IInv'
  BY StepInductive
<1>3. QED
  BY <1>1, <1>2, PTL DEF Spec

(* The channel of NewMail never holds more than its capacity, a row of the *)
(* tokens was made by a request that sends one.                            *)
THEOREM AuthTypes == Spec => []TypeOK
<1>1. IInv => TypeOK
  BY DEF IInv
<1>2. QED
  BY <1>1, AuthInductive, PTL

LEMMA UsableNewest ==
  ASSUME IInv, NEW t \in Requests, Usable(t), NEW u \in Requests
  PROVE  ~ Newer(u, t)
<1>1. t \in tokens /\ Newest(t, Key(t))
  BY DEF Usable
<1>2. Newer(u, t) => u \in tokens /\ Key(u) = Key(t) /\ created[u] > created[t]
  BY <1>1 DEF IInv, Together, Newer
<1>3. created[t] \in Nat /\ created[u] \in Nat
  BY DEF IInv, TypeOK, RowTypes
<1>4. QED
  BY <1>1, <1>2, <1>3 DEF Newest

(* verfiy.go:166-174: a token that was superseded or used and invalidated  *)
(* never passes again, whatever the interleaving of the requests.          *)
THEOREM TokensDie == Spec => []UsedTokensDie
<1>1. IInv => UsedTokensDie
  <2> HAVE IInv
  <2>1. ASSUME NEW t \in Requests, NEW u \in Requests, Usable(t), Made(u), Key(u) = Key(t)
        PROVE  created[u] <= created[t]
    <3>1. created[t] \in Nat /\ created[u] \in Nat
      BY DEF IInv, TypeOK, RowTypes
    <3>2. QED
      BY <2>1, <3>1, UsableNewest DEF Newer
  <2>2. ASSUME NEW r \in Requests, pc[r] = "done", asked[r].op = "use"
        PROVE  ~ Usable(asked[r].token)
    <3>1. PICK t : t = asked[r].token
      OBVIOUS
    <3>2. Spent(t)
      BY <2>2, <3>1 DEF IInv, Holds
    <3>3. asked[r] \in Request
      BY <2>2 DEF IInv, TypeOK, Consistent
    <3>4. t \in Requests
      BY <2>2, <3>1, <3>3 DEF Request
    <3>5. QED
      BY <3>1, <3>2, <3>4, UsableNewest DEF Spent, Usable
  <2>3. QED
    BY <2>1, <2>2 DEF UsedTokensDie
<1>2. QED
  BY <1>1, AuthInductive, PTL

(* signup.go:23, reset_password.go:65: nobody makes an account or sets its *)
(* password without a token that was mailed to its address for just that.  *)
THEOREM OnlyByMail == Spec => []AccountsProven
<1>1. IInv => AccountsProven
  BY DEF IInv
<1>2. QED
  BY <1>1, AuthInductive, PTL
=============================================================================
