------------------------------- MODULE Contests -------------------------------
(***************************************************************************)
(* Contests, their problems and users, the rounds of a tournament, the     *)
(* locks that keep problems secret, and Submit as far as it asks these     *)
(* (contest_service, tournament_service, problem_service, lock_service,    *)
(* submit.go).                                                             *)
(*                                                                         *)
(* Requests are served concurrently.  Each reads and decides first, and    *)
(* writes in a transaction of its own later: Ask is the first part, with   *)
(* the conditions under which the code goes on, the other actions are the  *)
(* second.  Between the two others write and time passes.  Isolation is    *)
(* PostgreSQL's default, read committed.  Who may do what is left open.    *)
(***************************************************************************)
EXTENDS Integers, FiniteSets, Sequences

CONSTANTS TimerLocks, ManualLocks, Problems, Contests, Users,   \* ids of rows
          Requests,    \* requests served at a time
          MaxTime,     \* bound on the clock
          MaxRounds,   \* bound on the rounds of the tournament
          Timeout,     \* of a timer lock, which never changes
          Details,     \* of contests to be created
          Asked,       \* the requests that are made
          None, Deleted

ASSUME ContestAssumption ==
  /\ MaxTime \in Nat /\ MaxRounds \in Nat
  /\ Timeout \in [TimerLocks -> Nat]
  /\ \A d \in Details : /\ d.lock \in TimerLocks \cup {None}
                        /\ d.start \in Nat /\ d.end \in Nat
                        /\ d.isPublished \in BOOLEAN
  /\ {None, Deleted} \cap (TimerLocks \cup ManualLocks \cup Details) = {}
  /\ None # Deleted
  /\ TimerLocks \cap ManualLocks = {}

VARIABLES now,
          locks,         \* locks that exist
          problems,      \* of each problem its lock_id, "absent" if there is none
          contests,      \* of each contest its details, Deleted, or None
                         \* as long as its id is not used
          rounds,        \* of each round of the tournament its number
          members,       \* contest_problems, contest_registered_users and
                         \* tournament_contests: the rows of a parent
          submissions,   \* <<contest, problem>> of the submissions to contests
          req,           \* the request, or None
          pc,            \* how far it is
          gone           \* rows the DELETE of its transaction found

tables == <<locks, problems, contests, rounds, members, submissions>>
vars == <<now, tables, req, pc, gone>>

ProblemsOf(c) == <<"problems", c>>
UsersOf(c) == <<"users", c>>
ContestsOf(n) == <<"contests", n>>
Keys == ({"problems", "users"} \X Contests) \cup ({"contests"} \X (1..MaxRounds))
Exists(c) == contests[c] \in Details
IsPublic(d) == d.lock # None
StartTime(d) == IF IsPublic(d) THEN Timeout[d.lock] ELSE d.start

SetRequest ==
  [op : {"set"}, key : {"problems"} \X Contests, items : SUBSET Problems]
    \cup [op : {"set"}, key : {"users"} \X Contests, items : SUBSET Users]
    \cup [op : {"set"}, key : {"contests"} \X (1..MaxRounds), items : SUBSET Contests]
CreateRequest ==
  [op : {"create"}, contest : Contests, details : Details,
   problems : SUBSET Problems, users : SUBSET Users]
LockRequest ==
  [op : {"add", "update"}, problem : Problems,
   lock : TimerLocks \cup ManualLocks \cup {None}]
Request ==
  SetRequest \cup CreateRequest \cup LockRequest
    \cup [op : {"delete"}, contest : Contests]
    \cup [op : {"round"}, number : 1..MaxRounds]
    \cup [op : {"submit"}, contest : Contests, problem : Problems, user : Users]

ASSUME RequestAssumption == Asked \subseteq Request /\ None \notin Asked

Init ==
  /\ now = 0
  /\ locks = {} /\ rounds = <<>> /\ submissions = {}
  /\ problems = [p \in Problems |-> "absent"]
  /\ contests = [c \in Contests |-> None]
  /\ members = [k \in Keys |-> {}]
  /\ req = [r \in Requests |-> None]
  /\ pc = [r \in Requests |-> "idle"]
  /\ gone = [r \in Requests |-> {}]

-----------------------------------------------------------------------------
(* What each handler asks before it writes.                                *)

(* A public contest may be edited at any time: authorizeContestUpdate      *)
(* returns before it looks at the clock.                                   *)
authorizeContestUpdate(c) ==
  Exists(c) /\ (IsPublic(contests[c]) \/ now <= contests[c].start)

validateContestProblems(d, ps) ==
  \A p \in ps : /\ problems[p] # "absent"
                /\ IsPublic(d) => problems[p] = d.lock

validatePrivateContest(d) == now < d.start /\ d.start < d.end /\ ~ d.isPublished

validatePublicContest(d, users) ==
  /\ d.lock \in locks
  /\ now < Timeout[d.lock] /\ Timeout[d.lock] < d.end
  /\ d.isPublished => users = {}

MayCreate(q) ==
  /\ contests[q.contest] = None
  /\ IF IsPublic(q.details) THEN validatePublicContest(q.details, q.users)
                            ELSE validatePrivateContest(q.details)
  /\ validateContestProblems(q.details, q.problems)

MayDelete(q) == authorizeContestUpdate(q.contest) /\ ~ IsPublic(contests[q.contest])

LatestRounds == {i \in DOMAIN rounds : \A j \in DOMAIN rounds : rounds[j] <= rounds[i]}

(* Mutant of MaySetUsers: a published contest may have registered users.   *)
MaySetUsersAnyway(c) == authorizeContestUpdate(c)

MaySetUsers(c) == authorizeContestUpdate(c) /\ ~ contests[c].isPublished

validateTournamentContests(cs) ==
  \A c \in cs : /\ Exists(c) /\ IsPublic(contests[c])
                /\ now <= StartTime(contests[c])
                /\ ~ contests[c].isPublished

MaySet(q) ==
  CASE q.key[1] = "problems" -> /\ authorizeContestUpdate(q.key[2])
                                /\ validateContestProblems(contests[q.key[2]], q.items)
    [] q.key[1] = "users"    -> MaySetUsers(q.key[2])
    [] q.key[1] = "contests" -> /\ q.key[2] \in LatestRounds
                                /\ validateTournamentContests(q.items)

(* The round after the latest one, whose contests are over.                *)
MayCreateRound(q) ==
  /\ IF rounds = <<>> THEN q.number = 1
                      ELSE \A i \in LatestRounds : q.number = rounds[i] + 1
  /\ \A i \in LatestRounds : \A c \in members[ContestsOf(i)] : contests[c].end <= now

(* GetProblemByID returns an empty problem and no error for a problem with *)
(* a lock, expired or not, to those who may see it.                        *)
GetProblemByID(p) == [lock |-> None, evaluator |-> problems[p] = None]

IsLock(l) == l \in locks

MayAdd(q) ==
  /\ problems[q.problem] = "absent"
  /\ q.lock # None => IsLock(q.lock) /\ (q.lock \in TimerLocks => now <= Timeout[q.lock])

MayUpdate(q) ==
  LET old == GetProblemByID(q.problem)
  IN  /\ problems[q.problem] # "absent"
      /\ IF q.lock = None
           THEN old.lock \notin TimerLocks
           ELSE IsLock(q.lock) /\ (IF old.lock = None THEN q.lock \notin TimerLocks
                                                     ELSE old.lock \notin TimerLocks)

CanSubmit(q) ==
  LET d == contests[q.contest]
  IN  /\ Exists(q.contest)
      /\ StartTime(d) <= now /\ now <= d.end
      /\ q.problem \in members[ProblemsOf(q.contest)]
      /\ \/ IsPublic(d) /\ d.isPublished
         \/ q.user \in members[UsersOf(q.contest)]

(* Asked of a submission to a contest, too.                                *)
CanSubmitProblemInPractice(p) ==
  \A c \in Contests :
    Exists(c) /\ IsPublic(contests[c]) /\ p \in members[ProblemsOf(c)]
      => contests[c].end < now

MaySubmit(q) ==
  /\ problems[q.problem] # "absent"
  /\ CanSubmit(q)
  /\ CanSubmitProblemInPractice(q.problem)
  /\ GetProblemByID(q.problem).evaluator

Allowed(q) ==
  CASE q.op = "set"    -> MaySet(q)
    [] q.op = "create" -> MayCreate(q)
    [] q.op = "delete" -> MayDelete(q)
    [] q.op = "round"  -> MayCreateRound(q)
    [] q.op = "add"    -> MayAdd(q)
    [] q.op = "update" -> MayUpdate(q)
    [] q.op = "submit" -> MaySubmit(q)

Ask(r, q) ==
  /\ pc[r] = "idle"
  /\ Allowed(q)
  /\ req' = [req EXCEPT ![r] = q]
  /\ pc' = [pc EXCEPT ![r] = "checked"]
  /\ UNCHANGED <<now, tables, gone>>

-----------------------------------------------------------------------------
(* What it writes.                                                         *)
Finished(r) ==
  /\ req' = [req EXCEPT ![r] = None]
  /\ pc' = [pc EXCEPT ![r] = "idle"]

(* Any statement may fail, and a violated key makes it fail; what the      *)
(* transaction has done is rolled back.                                    *)
Abort(r) ==
  /\ pc[r] # "idle"
  /\ Finished(r)
  /\ gone' = [gone EXCEPT ![r] = {}]
  /\ UNCHANGED <<now, tables>>

Writing(r, op) == pc[r] = "checked" /\ req[r].op = op /\ Finished(r) /\ UNCHANGED <<now, gone>>

CreateContest(r) ==
  LET q == req[r]
  IN  /\ Writing(r, "create")
      /\ contests[q.contest] = None
      /\ contests' = [contests EXCEPT ![q.contest] = q.details]
      /\ members' = [members EXCEPT ![ProblemsOf(q.contest)] = q.problems,
                                    ![UsersOf(q.contest)] = q.users]
      /\ UNCHANGED <<locks, problems, rounds, submissions>>

(* Mutant of Referenced: submissions do not keep their contest.            *)
InRound(c) == \E i \in DOMAIN rounds : c \in members[ContestsOf(i)]

Referenced(c) == InRound(c) \/ \E p \in Problems : <<c, p>> \in submissions

(* Rows another transaction has deleted or inserted for the contest make   *)
(* it wait; rows that refer to it and are not its to delete make it fail.  *)
Replacing(c) ==
  \E r \in Requests : /\ pc[r] = "filled"
                      /\ req[r].key \in {ProblemsOf(c), UsersOf(c)}
                      /\ gone[r] \cup req[r].items # {}

DeleteContest(r) ==
  LET c == req[r].contest
  IN  /\ pc[r] = "checked" /\ req[r].op = "delete" /\ Finished(r)
      /\ ~ Replacing(c) /\ ~ Referenced(c)
      /\ contests' = [contests EXCEPT ![c] = Deleted]
      /\ members' = [members EXCEPT ![ProblemsOf(c)] = {}, ![UsersOf(c)] = {}]
      /\ gone' = [s \in Requests |->
                    IF pc[s] = "deleting" /\ req[s].key \in {ProblemsOf(c), UsersOf(c)}
                      THEN {} ELSE gone[s]]
      /\ UNCHANGED <<now, locks, problems, rounds, submissions>>

(* tournament_rounds has a unique key; mutant: it has none.                *)
NeverTaken(n) == FALSE
Taken(n) == \E i \in DOMAIN rounds : rounds[i] = n

CreateRound(r) ==
  /\ Writing(r, "round")
  /\ ~ Taken(req[r].number)
  /\ rounds' = Append(rounds, req[r].number)
  /\ UNCHANGED <<locks, problems, contests, members, submissions>>

(* AddStandardProblem and UpdateProblem: a lock deleted since is missed.   *)
SetLock(r, op) ==
  LET q == req[r]
  IN  /\ Writing(r, op)
      /\ q.lock = None \/ IsLock(q.lock)
      /\ problems' = [problems EXCEPT ![q.problem] = q.lock]
      /\ UNCHANGED <<locks, contests, rounds, members, submissions>>

AddStandardProblem(r) ==
  /\ SetLock(r, "add")
  /\ problems[req[r].problem] = "absent"

UpdateProblem(r) == SetLock(r, "update")

InsertSubmission(r) ==
  LET q == req[r]
  IN  /\ Writing(r, "submit")
      /\ Exists(q.contest)
      /\ submissions' = submissions \cup {<<q.contest, q.problem>>}
      /\ UNCHANGED <<locks, problems, contests, rounds, members>>

(* SetProblemsInContest, RegisterUsersToContest, ChangeTournamentContests: *)
(* all rows of a parent are deleted and the new ones inserted.  DELETE     *)
(* finds the rows there are when it starts and, once other transactions    *)
(* that delete them have ended, deletes those that are left.               *)
StartDelete(r) ==
  /\ pc[r] = "checked" /\ req[r].op = "set"
  /\ pc' = [pc EXCEPT ![r] = "deleting"]
  /\ gone' = [gone EXCEPT ![r] = members[req[r].key]]
  /\ UNCHANGED <<now, tables, req>>

(* The contest the rows belong to; mutant: they have no foreign key.       *)
ParentAssumed(q) == TRUE
HasParent(q) == q.key[1] # "contests" /\ q.items # {} => Exists(q.key[2])

(* The inserts wait for an equal key under way and fail on one that is     *)
(* there, or without the contest.                                          *)
InsertRows(r) ==
  LET q == req[r]
  IN  /\ pc[r] = "deleting"
      /\ \A s \in Requests :
           pc[s] = "filled" /\ req[s].key = q.key =>
             (gone[s] \cup req[s].items) \cap (gone[r] \cup q.items) = {}
      /\ q.items \cap (members[q.key] \ gone[r]) = {}
      /\ HasParent(q)
      /\ pc' = [pc EXCEPT ![r] = "filled"]
      /\ UNCHANGED <<now, tables, req, gone>>

Commit(r) ==
  LET q == req[r]
  IN  /\ pc[r] = "filled"
      /\ Finished(r)
      /\ members' = [members EXCEPT ![q.key] = (@ \ gone[r]) \cup q.items]
      /\ gone' = [s \in Requests |->
                    IF s = r THEN {}
                    ELSE IF pc[s] = "deleting" /\ req[s].key = q.key
                      THEN gone[s] \ gone[r] ELSE gone[s]]
      /\ UNCHANGED <<now, locks, problems, contests, rounds, submissions>>

-----------------------------------------------------------------------------
(* One statement each: nothing that CreateLock or DeleteLock reads changes.*)
CreateLock(l) ==
  /\ l \notin locks
  /\ l \in TimerLocks => now <= Timeout[l]
  /\ locks' = locks \cup {l}
  /\ UNCHANGED <<now, problems, contests, rounds, members, submissions, req, pc, gone>>

(* Problems with the lock lose it.                                         *)
DeleteLock(l) ==
  /\ l \in locks \cap ManualLocks
  /\ locks' = locks \ {l}
  /\ problems' = [p \in Problems |-> IF problems[p] = l THEN None ELSE problems[p]]
  /\ UNCHANGED <<now, contests, rounds, members, submissions, req, pc, gone>>

Tick ==
  /\ now < MaxTime
  /\ now' = now + 1
  /\ UNCHANGED <<tables, req, pc, gone>>

Next ==
  \/ \E r \in Requests :
       \/ \E q \in Asked : Ask(r, q)
       \/ CreateContest(r)
       \/ DeleteContest(r)
       \/ CreateRound(r)
       \/ AddStandardProblem(r)
       \/ UpdateProblem(r)
       \/ InsertSubmission(r)
       \/ StartDelete(r)
       \/ InsertRows(r)
       \/ Commit(r)
       \/ Abort(r)
  \/ \E l \in TimerLocks \cup ManualLocks : CreateLock(l) \/ DeleteLock(l)
  \/ Tick

Spec == Init /\ [][Next]_vars
=============================================================================
