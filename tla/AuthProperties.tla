--------------------------- MODULE AuthProperties ----------------------------
(* Correctness properties of accounts, their tokens and the mails.         *)
EXTENDS Auth

Jobs == {TokenMail(t) : t \in Requests} \cup {AlertMail(b) : b \in Bots}
Stages == {"idle", "create", "mailing", "validate", "expired", "deleteExpired",
           "write", "verify", "delete", "done", "failed", "kept"}

MailTypes ==
  /\ env \in {"complete", "noPassword", "noSender"}
  /\ started \in BOOLEAN
  /\ emailChan \in Seq(Jobs) /\ Len(emailChan) <= EmailCapacity
  /\ open \in BOOLEAN
  /\ inHand \in Jobs \cup {None}
  /\ sent \subseteq Jobs
  /\ alerts \in [Bots -> {"idle", "asking", "onNil", "queueing", "sleeping",
                          "told", "gaveUp"}]
  /\ late \subseteq Bots

RowTypes ==
  /\ asked \in [Requests -> Request \cup {None}]
  /\ pc \in [Requests -> Stages]
  /\ created \in [Requests -> Nat]
  /\ clock \in Nat
  /\ expired \subseteq Requests
  /\ users \in [Emails -> Requests \cup {None, Old}]
  /\ tokens \subseteq {t \in Requests : Made(t)}

(* What has arrived is what the request does, and only a request that      *)
(* sends a mail has made a token.                                          *)
Consistent(r) ==
  /\ pc[r] # "idle" => asked[r] \in Request
  /\ pc[r] \in {"create", "mailing"} => asked[r].op = "send"
  /\ pc[r] \in {"validate", "expired", "deleteExpired", "write", "verify", "delete", "kept"}
       => asked[r].op = "use"
  /\ Made(r) => /\ pc[r] \in {"mailing", "done", "failed"}
                /\ asked[r].op = "send"
                /\ created[r] <= clock

(* Every variable has its type, the channel keeps to its capacity, and a   *)
(* request, its stage and its token fit together.                          *)
TypeOK == MailTypes /\ RowTypes /\ \A r \in Requests : Consistent(r)

Usable(t) == t \in tokens /\ Newest(t, Key(t)) /\ t \notin expired

(* verfiy.go:166-174, tokens.sql: a token can be used only as long as no   *)
(* later one was made for its address and purpose, even after that one was *)
(* deleted, and never again once a request that succeeded with it has      *)
(* invalidated it, however requests with both interleave.                  *)
UsedTokensDie ==
  /\ \A t, u \in Requests :
       Usable(t) /\ Made(u) /\ Key(u) = Key(t) => created[u] <= created[t]
  /\ \A r \in Requests :
       pc[r] = "done" /\ asked[r].op = "use" => ~ Usable(asked[r].token)

(* signup.go:23, reset_password.go:65: whoever made an account or set its  *)
(* password had a token that was made for just that purpose and was mailed *)
(* to the address of the account, although it is checked in a statement    *)
(* before the one that writes.                                             *)
AccountsProven ==
  \A e \in Emails :
    users[e] \notin {None, Old} =>
      LET r == users[e]
          t == asked[r].token
      IN  /\ asked[r].op = "use" /\ asked[r].mail = e
          /\ Made(t) /\ Key(t) = Key(r)
          /\ TokenMail(t) \in sent

-----------------------------------------------------------------------------
(* The inductive form of the two.  Deletions take all tokens of a key, so  *)
(* no token outlives a later one of its key; what a request has validated  *)
(* stays made, for its key, and mailed.                                    *)
Newer(u, t) == Made(u) /\ Key(u) = Key(t) /\ created[u] > created[t]

Together == \A t \in tokens, u \in Requests : Newer(u, t) => u \in tokens

Spent(t) == t \notin tokens \/ \E u \in Requests : Newer(u, t)

Validated(r) ==
  /\ Made(asked[r].token)
  /\ Key(asked[r].token) = Key(r)

Holds(r) ==
  /\ pc[r] # "idle" /\ asked[r].op = "use" => TokenMail(asked[r].token) \in sent
  /\ pc[r] \in {"write", "verify", "delete", "done"} /\ asked[r].op = "use"
       => Validated(r)
  /\ pc[r] = "done" /\ asked[r].op = "use" => Spent(asked[r].token)

IInv ==
  /\ TypeOK
  /\ Together
  /\ \A r \in Requests : Holds(r)
  /\ AccountsProven
  /\ \A e \in Emails : users[e] \in Requests => pc[users[e]] # "idle"
=============================================================================
