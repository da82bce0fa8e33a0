------------------------- MODULE ContestProperties --------------------------
(* Correctness properties of contests, rounds, problems and their locks.   *)
EXTENDS Contests

(* Every row has its type and refers to rows that are there, and what a    *)
(* transaction deletes are rows of its parent.                             *)
TypeOK ==
  /\ now \in 0..MaxTime
  /\ locks \subseteq TimerLocks \cup ManualLocks
  /\ problems \in [Problems -> locks \cup {None, "absent"}]
  /\ contests \in [Contests -> Details \cup {None, Deleted}]
  /\ \A c \in Contests : Exists(c) => contests[c].lock \in locks \cup {None}
  /\ rounds \in Seq(1..MaxRounds) /\ Len(rounds) <= MaxRounds
  /\ members \in [Keys -> SUBSET (Problems \cup Users \cup Contests)]
  /\ \A c \in Contests : ~ Exists(c) => members[ProblemsOf(c)] = {} /\ members[UsersOf(c)] = {}
  /\ submissions \subseteq Contests \X Problems
  /\ req \in [Requests -> Asked \cup {None}]
  /\ pc \in [Requests -> {"idle", "checked", "deleting", "filled"}]
  /\ gone \in [Requests -> SUBSET (Problems \cup Users \cup Contests)]
  /\ \A r \in Requests :
       /\ pc[r] = "idle" <=> req[r] = None
       /\ gone[r] # {} => pc[r] \in {"deleting", "filled"} /\ gone[r] \subseteq members[req[r].key]

(* create_tournament_round.go:34 and :83: the number of a new round is the *)
(* number of rounds read before and one, yet rounds created at a time are  *)
(* numbered without a gap and never alike.                                 *)
RoundsNumbered == \A i \in DOMAIN rounds : rounds[i] = i

(* delete_contest.go:16-35, submit.go:28-90: whether a contest has begun   *)
(* is asked before it is deleted, whether it may be submitted to before    *)
(* the submission is inserted; still, what was submitted to a contest was  *)
(* submitted after its start, and the contest is there.                    *)
SubmissionsKept ==
  \A s \in submissions : Exists(s[1]) /\ StartTime(contests[s[1]]) <= now

(* contest_utils.go:124, register_users.go:36, "published contest cannot   *)
(* have any registered users", whoever creates it, registers users or      *)
(* deletes it meanwhile.                                                   *)
PublishedUnregistered ==
  \A c \in Contests :
    Exists(c) /\ contests[c].isPublished => members[UsersOf(c)] = {}

-----------------------------------------------------------------------------
(* What the proofs rest on: what a request has found is still true when it *)
(* writes, or the contest it is about is deleted, and requests that have   *)
(* replaced rows of one parent have replaced different ones.               *)
DetailsChecked(q) ==
  /\ q.details.lock \in locks \cup {None}
  /\ q.details.isPublished => q.users = {}

MembersChecked(q) ==
  q.key[1] # "contests" =>
    /\ contests[q.key[2]] # None
    /\ q.key[1] = "users" /\ Exists(q.key[2]) => ~ contests[q.key[2]].isPublished

SubmitChecked(q) ==
  /\ contests[q.contest] # None
  /\ Exists(q.contest) => StartTime(contests[q.contest]) <= now

StillTrue(q) ==
  /\ q.op = "create" => DetailsChecked(q)
  /\ q.op = "set" => MembersChecked(q)
  /\ q.op = "round" => q.number <= Len(rounds) + 1
  /\ q.op = "submit" => SubmitChecked(q)

Checked == \A r \in Requests : req[r] # None => StillTrue(req[r])

Replaced(r) == gone[r] \cup req[r].items

InTransaction ==
  /\ \A r \in Requests : pc[r] \in {"deleting", "filled"} => req[r].op = "set"
  /\ \A r \in Requests : pc[r] = "filled" => HasParent(req[r])
  /\ \A r, s \in Requests :
       r # s /\ pc[r] = "filled" /\ pc[s] = "filled" /\ req[r].key = req[s].key
         => Replaced(r) \cap Replaced(s) = {}

IInv ==
  /\ TypeOK /\ RoundsNumbered /\ SubmissionsKept /\ PublishedUnregistered
  /\ Checked /\ InTransaction

=============================================================================
