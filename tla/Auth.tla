-------------------------------- MODULE Auth ---------------------------------
(***************************************************************************)
(* Accounts (auth_service): one-time tokens that are mailed to an address, *)
(* SignUp and ResetPassword, which validate a token, write, and invalidate *)
(* it, each a statement of the database of its own.                        *)
(*                                                                         *)
(* Requests are served concurrently, each once.  The token a request sends *)
(* is named by the request, its created_at is a number.  Every statement   *)
(* may fail, by an error of the database or because the client is gone and *)
(* its context with it.                                                    *)
(***************************************************************************)
EXTENDS Mailer

CONSTANTS Requests, Emails,
          Old      \* a password that was set before

ASSUME AuthAssumption == None \notin Requests /\ Old \notin Requests /\ Old # None

VARIABLES asked,     \* what a request is, or None
          pc,        \* what it does next
          tokens,    \* the rows of the table, by the request that made them
          created,   \* created_at of each token ever made, 0 if it was not
          clock,     \* the latest created_at
          expired,   \* the tokens that are older than 15 minutes
          users      \* of each address who set the password of its account

authVars == <<asked, pc, tokens, created, clock, expired, users>>
vars == <<mailerVars, authVars>>

SignUp == "sign_up"
Reset == "reset_password"

Request ==
  [op : {"send"}, mail : Emails, purpose : {SignUp, Reset}]
    \cup [op : {"use"}, mail : Emails, purpose : {SignUp, Reset}, token : Requests]

Key(r) == <<asked[r].mail, asked[r].purpose>>
Made(t) == created[t] > 0

Init ==
  /\ MailerInit
  /\ asked = [r \in Requests |-> None]
  /\ pc = [r \in Requests |-> "idle"]
  /\ tokens = {}
  /\ created = [r \in Requests |-> 0]
  /\ clock = 0
  /\ expired = {}
  /\ users \in [Emails -> {None, Old}]

(* GetTokenByEmailAndPurpose: the newest row.                              *)
Newest(t, key) ==
  /\ t \in tokens
  /\ Key(t) = key
  /\ \A u \in tokens : Key(u) = key => created[u] <= created[t]

(* Mutant of VerifyToken: the purpose is not asked for.                    *)
VerifyAnyPurpose(r, purpose) ==
  \E p \in {SignUp, Reset} : Newest(asked[r].token, <<asked[r].mail, p>>)

(* verifyToken: the request's token is the one in that row.                *)
VerifyToken(r, purpose) == Newest(asked[r].token, <<asked[r].mail, purpose>>)

(* Mutant of DeleteTokens: only the row that was verified is deleted.      *)
DeleteNewest(key) == tokens' = {t \in tokens : ~ Newest(t, key)}

(* DeleteByEmailAndPurpose.                                                *)
DeleteTokens(key) == tokens' = {t \in tokens : Key(t) # key}

Become(r, stage) == pc' = [pc EXCEPT ![r] = stage]

-----------------------------------------------------------------------------
(* A request arrives.  Its user knows the tokens of mails that were sent;  *)
(* a token to reset a password is for an account that exists.              *)
Ask(r, q) ==
  /\ started
  /\ pc[r] = "idle"
  /\ q.purpose = Reset => users[q.mail] # None
  /\ q.op = "use" => TokenMail(q.token) \in sent
  /\ asked' = [asked EXCEPT ![r] = q]
  /\ Become(r, IF q.op = "send" THEN "create" ELSE "validate")
  /\ UNCHANGED <<mailerVars, tokens, created, clock, expired, users>>

(* SendVerificationEmail: the row, then the mail.  A mail that cannot be   *)
(* queued leaves the row.                                                  *)
CreateToken(r) ==
  /\ pc[r] = "create"
  /\ tokens' = tokens \cup {r}
  /\ clock' = clock + 1
  /\ created' = [created EXCEPT ![r] = clock + 1]
  /\ Become(r, IF env = "noSender" THEN "failed" ELSE "mailing")
  /\ UNCHANGED <<mailerVars, asked, expired, users>>

NewMail(r) ==
  /\ pc[r] = "mailing"
  /\ Queue(TokenMail(r))
  /\ Become(r, "done")
  /\ UNCHANGED <<env, started, open, inHand, sent, alerts, late>>
  /\ UNCHANGED <<asked, tokens, created, clock, expired, users>>

(* validateVerificationToken.                                              *)
Validate(r) ==
  /\ pc[r] = "validate"
  /\ Become(r, IF ~ VerifyToken(r, asked[r].purpose) THEN "failed"
               ELSE IF asked[r].token \in expired THEN "expired"
               ELSE "write")
  /\ UNCHANGED <<mailerVars, asked, tokens, created, clock, expired, users>>

(* verfiy.go:139: what has expired is invalidated as a token to sign up,   *)
(* whatever it was for.                                                    *)
VerifyExpired(r) ==
  /\ pc[r] = "expired"
  /\ Become(r, IF VerifyToken(r, SignUp) THEN "deleteExpired" ELSE "failed")
  /\ UNCHANGED <<mailerVars, asked, tokens, created, clock, expired, users>>

DeleteExpired(r) ==
  /\ pc[r] = "deleteExpired"
  /\ DeleteTokens(<<asked[r].mail, SignUp>>)
  /\ Become(r, "failed")
  /\ UNCHANGED <<mailerVars, asked, created, clock, expired, users>>

(* createUserInDB, with the constraint that an address has one account, or *)
(* the update of the password.                                             *)
Write(r) ==
  LET e == asked[r].mail
      taken == asked[r].purpose = SignUp /\ users[e] # None
  IN  /\ pc[r] = "write"
      /\ users' = IF taken THEN users ELSE [users EXCEPT ![e] = r]
      /\ Become(r, IF taken THEN "failed" ELSE "verify")
      /\ UNCHANGED <<mailerVars, asked, tokens, created, clock, expired>>

(* invalidateVerificationToken: the token is verified again, then all of   *)
(* its address and purpose are deleted.  SignUp returns the error if it    *)
(* is not the newest any more, ResetPassword does not look at it.          *)
VerifyAgain(r) ==
  /\ pc[r] = "verify"
  /\ Become(r, IF VerifyToken(r, asked[r].purpose) THEN "delete"
               ELSE IF asked[r].purpose = SignUp THEN "failed" ELSE "done")
  /\ UNCHANGED <<mailerVars, asked, tokens, created, clock, expired, users>>

Invalidate(r) ==
  /\ pc[r] = "delete"
  /\ DeleteTokens(Key(r))
  /\ Become(r, "done")
  /\ UNCHANGED <<mailerVars, asked, created, clock, expired, users>>

(* An error or the end of the context.  A password that was reset is       *)
(* answered as such, and its token is kept.                                *)
Fail(r) ==
  /\ pc[r] \notin {"idle", "done", "failed", "kept"}
  /\ Become(r, IF pc[r] \in {"verify", "delete"} /\ asked[r].purpose = Reset
               THEN "kept" ELSE "failed")
  /\ UNCHANGED <<mailerVars, asked, tokens, created, clock, expired, users>>

(* Fifteen minutes pass, for older tokens before.                          *)
Expire(t) ==
  /\ Made(t) /\ t \notin expired
  /\ \A u \in Requests : Made(u) /\ created[u] < created[t] => u \in expired
  /\ expired' = expired \cup {t}
  /\ UNCHANGED <<mailerVars, asked, pc, tokens, created, clock, users>>

Next ==
  \/ MailerNext /\ UNCHANGED authVars
  \/ \E r \in Requests :
       \/ \E q \in Request : Ask(r, q)
       \/ CreateToken(r) \/ NewMail(r)
       \/ Validate(r) \/ VerifyExpired(r) \/ DeleteExpired(r)
       \/ Write(r) \/ VerifyAgain(r) \/ Invalidate(r)
       \/ Fail(r) \/ Expire(r)

Spec == Init /\ [][Next]_vars
=============================================================================
