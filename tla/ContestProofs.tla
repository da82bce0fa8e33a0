---------------------------- MODULE ContestProofs ----------------------------
(* Proofs about contests for any contests, problems, locks and requests.   *)
EXTENDS ContestProperties, SequenceTheorems, TLAPS

(* IInv by what it is about: the rows, a request, two requests.            *)
Rows ==
  /\ now \in 0..MaxTime
  /\ locks \subseteq TimerLocks \cup ManualLocks
  /\ problems \in [Problems -> locks \cup {None, "absent"}]
  /\ contests \in [Contests -> Details \cup {None, Deleted}]
  /\ \A c \in Contests : Exists(c) => contests[c].lock \in locks \cup {None}
  /\ rounds \in Seq(1..MaxRounds) /\ Len(rounds) <= MaxRounds
  /\ members \in [Keys -> SUBSET (Problems \cup Users \cup Contests)]
  /\ \A c \in Contests : ~ Exists(c) => members[ProblemsOf(c)] = {} /\ members[UsersOf(c)] = {}
  /\ submissions \subseteq Contests \X Problems
  /\ RoundsNumbered /\ SubmissionsKept /\ PublishedUnregistered

Served ==
  /\ req \in [Requests -> Asked \cup {None}]
  /\ pc \in [Requests -> {"idle", "checked", "deleting", "filled"}]
  /\ gone \in [Requests -> SUBSET (Problems \cup Users \cup Contests)]

Sound(r) ==
  /\ pc[r] = "idle" <=> req[r] = None
  /\ gone[r] # {} => pc[r] \in {"deleting", "filled"} /\ gone[r] \subseteq members[req[r].key]
  /\ req[r] # None => StillTrue(req[r])
  /\ pc[r] \in {"deleting", "filled"} => req[r].op = "set"
  /\ pc[r] = "filled" => HasParent(req[r])

Apart(r, s) ==
  r # s /\ pc[r] = "filled" /\ pc[s] = "filled" /\ req[r].key = req[s].key
    => Replaced(r) \cap Replaced(s) = {}

LEMMA Parts ==
  IInv <=> /\ Rows /\ Served
           /\ \A r \in Requests : Sound(r)
           /\ \A r, s \in Requests : Apart(r, s)
<1>1. TypeOK /\ RoundsNumbered /\ SubmissionsKept /\ PublishedUnregistered
        <=> /\ Rows /\ Served
            /\ \A r \in Requests :
                 /\ pc[r] = "idle" <=> req[r] = None
                 /\ gone[r] # {} => /\ pc[r] \in {"deleting", "filled"}
                                    /\ gone[r] \subseteq members[req[r].key]
  BY DEF TypeOK, Rows, Served
<1>2. QED
  BY <1>1 DEF IInv, Checked, InTransaction, Sound, Apart

LEMMA PartsNext ==
  ASSUME /\ Rows' /\ Served'
         /\ (\A r \in Requests : Sound(r))'
         /\ (\A r, s \in Requests : Apart(r, s))'
  PROVE  IInv'
BY Parts, PTL

(* What the fields of a request are.                                       *)
LEMMA RequestFields ==
  ASSUME NEW q \in Request
  PROVE  /\ q.op = "set" =>
              /\ q.key \in Keys
              /\ q.items \subseteq Problems \cup Users \cup Contests
              /\ q.key[1] # "contests" => /\ q.key[2] \in Contests
                                          /\ q.key \in {ProblemsOf(q.key[2]), UsersOf(q.key[2])}
              /\ q.key[1] = "users" => q.key = UsersOf(q.key[2])
              /\ q.key[1] = "problems" => q.key = ProblemsOf(q.key[2])
         /\ q.op = "create" => /\ q.contest \in Contests /\ q.details \in Details
                               /\ q.problems \subseteq Problems /\ q.users \subseteq Users
         /\ q.op \in {"add", "update"} => /\ q.problem \in Problems
                                          /\ q.lock \in TimerLocks \cup ManualLocks \cup {None}
         /\ q.op = "delete" => q.contest \in Contests
         /\ q.op = "round" => q.number \in 1..MaxRounds
         /\ q.op = "submit" => q.contest \in Contests /\ q.problem \in Problems
<1>1. CASE q \in SetRequest
  <2>1. q.op = "set" /\ q.items \subseteq Problems \cup Users \cup Contests
    BY <1>1 DEF SetRequest
  <2>2. \/ q.key \in {"problems"} \X Contests
        \/ q.key \in {"users"} \X Contests
        \/ q.key \in {"contests"} \X (1..MaxRounds)
    BY <1>1 DEF SetRequest
  <2>3. QED
    BY <2>1, <2>2 DEF Keys, ProblemsOf, UsersOf
<1>2. CASE q \in CreateRequest
  BY <1>2 DEF CreateRequest
<1>3. CASE q \in LockRequest
  BY <1>3 DEF LockRequest
<1>4. CASE q \notin SetRequest \cup CreateRequest \cup LockRequest
  BY <1>4 DEF Request
<1>5. QED
  BY <1>1, <1>2, <1>3, <1>4

(* The keys of different parents are different.                            *)
LEMMA KeysApart ==
  /\ \A c \in Contests : ProblemsOf(c) \in Keys /\ UsersOf(c) \in Keys
  /\ \A c, d : ProblemsOf(c) # UsersOf(d)
  /\ \A c, d : ProblemsOf(c) = ProblemsOf(d) \/ UsersOf(c) = UsersOf(d) => c = d
  /\ \A c : ProblemsOf(c)[1] = "problems" /\ UsersOf(c)[1] = "users"
  /\ \A c : ProblemsOf(c)[2] = c /\ UsersOf(c)[2] = c
BY DEF ProblemsOf, UsersOf, Keys

-----------------------------------------------------------------------------
(* A request that is being served, its op and what it has checked.         *)
LEMMA Serving ==
  ASSUME Served, NEW r \in Requests, Sound(r), pc[r] # "idle"
  PROVE  req[r] \in Request /\ req[r] # None /\ StillTrue(req[r])
BY RequestAssumption DEF Served, Sound

(* What others may do between the check and the write of a request: time   *)
(* passes, timer locks and rounds stay, contests are created and deleted,  *)
(* but no contest is deleted whose rows a transaction has inserted.        *)
LEMMA OthersKeep ==
  ASSUME Rows, Served, Rows', NEW s \in Requests, Sound(s),
         pc'[s] = pc[s], req'[s] = req[s], gone'[s] \subseteq gone[s],
         now <= now', locks \cap TimerLocks \subseteq locks', Len(rounds) <= Len(rounds'),
         \A c \in Contests : contests[c] # None => contests'[c] \in {contests[c], Deleted},
         gone'[s] # {} => gone'[s] \subseteq members'[req[s].key],
         pc[s] = "filled" => HasParent(req[s])'
  PROVE  Sound(s)'
<1> DEFINE q == req[s]
<1>1. CASE q = None
  BY <1>1 DEF Sound
<1>2. CASE q # None
  <2>1. q \in Request /\ StillTrue(q) /\ req'[s] = q
    BY <1>2, RequestAssumption DEF Served, Sound
  <2>2. q.op = "create" => DetailsChecked(q)'
    BY <2>1, RequestFields, ContestAssumption DEF StillTrue, DetailsChecked
  <2>3. q.op = "set" => MembersChecked(q)'
    <3>1. SUFFICES ASSUME q.op = "set", q.key[1] # "contests"
                   PROVE  /\ contests'[q.key[2]] # None
                          /\ q.key[1] = "users" /\ contests'[q.key[2]] \in Details
                               => ~ contests'[q.key[2]].isPublished
      BY DEF MembersChecked, Exists
    <3>2. q.key[2] \in Contests /\ MembersChecked(q)
      BY <3>1, <2>1, RequestFields DEF StillTrue
    <3>3. contests[q.key[2]] # None /\ Deleted # None /\ Deleted \notin Details
      BY <3>1, <3>2, ContestAssumption DEF MembersChecked
    <3>4. contests'[q.key[2]] \in {contests[q.key[2]], Deleted}
      BY <3>2, <3>3
    <3>5. QED
      BY <3>1, <3>2, <3>3, <3>4 DEF MembersChecked, Exists
  <2>4. q.op = "round" => q.number <= Len(rounds') + 1
    <3>1. Len(rounds) \in Nat /\ Len(rounds') \in Nat
      BY LenProperties DEF Rows
    <3>2. q.op = "round" => q.number \in Nat /\ q.number <= Len(rounds) + 1
      BY <2>1, RequestFields, ContestAssumption DEF StillTrue
    <3>3. QED
      BY <3>1, <3>2
  <2>5. q.op = "submit" => SubmitChecked(q)'
    <3>1. SUFFICES ASSUME q.op = "submit"
                   PROVE  /\ contests'[q.contest] # None
                          /\ contests'[q.contest] \in Details
                               => StartTime(contests'[q.contest]) <= now'
      BY DEF SubmitChecked, Exists, StartTime, IsPublic
    <3>2. q.contest \in Contests /\ SubmitChecked(q)
      BY <3>1, <2>1, RequestFields DEF StillTrue
    <3>3. contests'[q.contest] \in {contests[q.contest], Deleted}
      BY <3>2 DEF SubmitChecked
    <3>4. Deleted # None /\ Deleted \notin Details
      BY ContestAssumption
    <3>5. \A d \in Details : StartTime(d) \in Nat
      BY ContestAssumption DEF StartTime, IsPublic
    <3>6. now \in Int /\ now' \in Int
      BY ContestAssumption DEF Rows
    <3>7. QED
      BY <3>2, <3>3, <3>4, <3>5, <3>6 DEF SubmitChecked, Exists
  <2>6. StillTrue(q)'
    BY <2>2, <2>3, <2>4, <2>5 DEF StillTrue
  <2>7. (pc'[s] = "idle" <=> req'[s] = None)
        /\ (pc'[s] \in {"deleting", "filled"} => req'[s].op = "set")
    BY DEF Sound
  <2>8. gone'[s] # {} => pc'[s] \in {"deleting", "filled"} /\ gone'[s] \subseteq members'[req'[s].key]
    BY DEF Sound
  <2>9. pc'[s] = "filled" => HasParent(req[s])'
    OBVIOUS
  <2>10. QED
    BY <2>6, <2>7, <2>8, <2>9 DEF Sound
<1>3. QED
  BY <1>1, <1>2

(* A request that has been answered.                                       *)
LEMMA IdleSound ==
  ASSUME NEW r \in Requests, pc'[r] = "idle", req'[r] = None, gone'[r] = {}
  PROVE  Sound(r)'
BY DEF Sound

(* Two requests of which none replaces rows that it did not before.        *)
LEMMA ApartKeeps ==
  ASSUME NEW r \in Requests, NEW s \in Requests, Apart(r, s),
         \A u \in {r, s} : pc'[u] # "filled" \/ ( /\ pc[u] = "filled"
                                                  /\ req'[u] = req[u]
                                                  /\ gone'[u] \subseteq gone[u] )
  PROVE  Apart(r, s)'
BY DEF Apart, Replaced

(* A step after which each request is answered or stands where it stood.   *)
LEMMA StepKeeps ==
  ASSUME IInv, Rows', Served',
         now <= now', locks \cap TimerLocks \subseteq locks', Len(rounds) <= Len(rounds'),
         \A c \in Contests : contests[c] # None => contests'[c] \in {contests[c], Deleted},
         \A s \in Requests :
           \/ pc'[s] = "idle" /\ req'[s] = None /\ gone'[s] = {}
           \/ /\ pc'[s] = pc[s] /\ req'[s] = req[s] /\ gone'[s] \subseteq gone[s]
              /\ gone'[s] # {} => gone'[s] \subseteq members'[req[s].key]
              /\ pc[s] = "filled" => HasParent(req[s])'
  PROVE  IInv'
<1>1. Rows /\ Served /\ \A s \in Requests : Sound(s)
  BY Parts
<1>2. ASSUME NEW s \in Requests
      PROVE  Sound(s)'
  <2>1. CASE pc'[s] = "idle" /\ req'[s] = None /\ gone'[s] = {}
    BY <2>1, IdleSound
  <2>2. CASE /\ pc'[s] = pc[s] /\ req'[s] = req[s] /\ gone'[s] \subseteq gone[s]
             /\ gone'[s] # {} => gone'[s] \subseteq members'[req[s].key]
             /\ pc[s] = "filled" => HasParent(req[s])'
    BY <1>1, <2>2, OthersKeep
  <2>3. QED
    BY <2>1, <2>2
<1>3. ASSUME NEW r \in Requests, NEW s \in Requests
      PROVE  Apart(r, s)'
  <2>1. Apart(r, s)
    BY Parts
  <2>2. \A u \in {r, s} : pc'[u] # "filled" \/ ( /\ pc[u] = "filled"
                                                  /\ req'[u] = req[u]
                                                  /\ gone'[u] \subseteq gone[u] )
    OBVIOUS
  <2>3. QED
    BY <2>1, <2>2, ApartKeeps
<1>4. QED
  BY <1>2, <1>3, PartsNext

(* What a published contest was created with, and that a contest that may  *)
(* be deleted has neither begun nor a lock, is checked beforehand.         *)
LEMMA CreateContestKeeps ==
  ASSUME IInv, NEW r \in Requests, CreateContest(r)
  PROVE  IInv'
<1> DEFINE q == req[r]
           c == q.contest
<1>1. /\ Rows /\ Served /\ \A s \in Requests : Sound(s)
      /\ pc[r] = "checked" /\ q.op = "create" /\ contests[c] = None
      /\ contests' = [contests EXCEPT ![c] = q.details]
      /\ members' = [members EXCEPT ![ProblemsOf(c)] = q.problems, ![UsersOf(c)] = q.users]
      /\ req' = [req EXCEPT ![r] = None] /\ pc' = [pc EXCEPT ![r] = "idle"]
      /\ UNCHANGED <<now, gone, locks, problems, rounds, submissions>>
  BY Parts DEF CreateContest, Writing, Finished
<1>2. q \in Request /\ StillTrue(q) /\ gone[r] = {}
  BY <1>1, Serving DEF Sound
<1>3. /\ c \in Contests /\ q.details \in Details /\ DetailsChecked(q)
      /\ q.problems \subseteq Problems /\ q.users \subseteq Users
  BY <1>1, <1>2, RequestFields DEF StillTrue
<1>4. /\ contests' \in [Contests -> Details \cup {None, Deleted}]
      /\ contests'[c] = q.details
      /\ \A d \in Contests \ {c} : contests'[d] = contests[d]
  BY <1>1, <1>3 DEF Rows
<1>5. /\ members' \in [Keys -> SUBSET (Problems \cup Users \cup Contests)]
      /\ members'[UsersOf(c)] = q.users
      /\ \A k \in Keys \ {ProblemsOf(c), UsersOf(c)} : members'[k] = members[k]
  BY <1>1, <1>3, KeysApart DEF Rows
<1>6. None \notin Details /\ Deleted \notin Details
  BY ContestAssumption
<1>7. Rows'
  <2>1. \A d \in Contests : contests'[d] \in Details => contests'[d].lock \in locks \cup {None}
    BY <1>1, <1>3, <1>4 DEF Rows, Exists, DetailsChecked
  <2>2. \A d \in Contests : contests'[d] \notin Details
                               => members'[ProblemsOf(d)] = {} /\ members'[UsersOf(d)] = {}
    <3>1. SUFFICES ASSUME NEW d \in Contests, contests'[d] \notin Details
                   PROVE  members'[ProblemsOf(d)] = {} /\ members'[UsersOf(d)] = {}
      OBVIOUS
    <3>2. d # c /\ contests[d] \notin Details
      BY <3>1, <1>3, <1>4
    <3>3. ProblemsOf(d) \in Keys \ {ProblemsOf(c), UsersOf(c)}
          /\ UsersOf(d) \in Keys \ {ProblemsOf(c), UsersOf(c)}
      BY <3>2, <1>3, KeysApart
    <3>4. QED
      BY <3>2, <3>3, <1>1, <1>5 DEF Rows, Exists
  <2>3. \A t \in submissions : t[1] \in Contests \ {c}
    BY <1>1, <1>6 DEF Rows, SubmissionsKept, Exists
  <2>4. SubmissionsKept'
    BY <2>3, <1>1, <1>4 DEF Rows, SubmissionsKept, Exists, StartTime, IsPublic
  <2>5. PublishedUnregistered'
    <3>1. SUFFICES ASSUME NEW d \in Contests, contests'[d] \in Details, contests'[d].isPublished
                   PROVE  members'[UsersOf(d)] = {}
      BY DEF PublishedUnregistered, Exists
    <3>2. CASE d = c
      BY <3>1, <3>2, <1>3, <1>4, <1>5 DEF DetailsChecked
    <3>3. CASE d # c
      BY <3>1, <3>3, <1>1, <1>3, <1>4, <1>5, KeysApart DEF Rows, PublishedUnregistered, Exists
    <3>4. QED
      BY <3>2, <3>3
  <2>6. QED
    BY <2>1, <2>2, <2>4, <2>5, <1>1, <1>4, <1>5 DEF Rows, RoundsNumbered, Exists
<1>8. Served'
  BY <1>1 DEF Served
<1>9. ASSUME NEW s \in Requests, s # r
      PROVE  /\ pc'[s] = pc[s] /\ req'[s] = req[s] /\ gone'[s] \subseteq gone[s]
             /\ gone'[s] # {} => gone'[s] \subseteq members'[req[s].key]
             /\ pc[s] = "filled" => HasParent(req[s])'
  <2>1. pc'[s] = pc[s] /\ req'[s] = req[s] /\ gone'[s] = gone[s]
    BY <1>1, <1>9 DEF Served
  <2>2. CASE pc[s] \notin {"deleting", "filled"}
    BY <2>1, <2>2, <1>1 DEF Sound
  <2>3. CASE pc[s] \in {"deleting", "filled"}
    <3>1. req[s] \in Request /\ req[s].op = "set" /\ MembersChecked(req[s])
      BY <2>3, <1>1, Serving DEF Sound, StillTrue
    <3>2. req[s].key \in Keys \ {ProblemsOf(c), UsersOf(c)}
          /\ (req[s].key[1] # "contests" => req[s].key[2] \in Contests \ {c})
      BY <3>1, <1>1, RequestFields, KeysApart DEF MembersChecked
    <3>3. gone'[s] # {} => gone'[s] \subseteq members'[req[s].key]
      BY <2>1, <3>2, <1>1, <1>5 DEF Sound
    <3>4. pc[s] = "filled" => HasParent(req[s])'
      BY <2>1, <3>2, <1>1, <1>4 DEF Sound, HasParent, Exists
    <3>5. QED
      BY <2>1, <3>3, <3>4
  <2>4. QED
    BY <2>2, <2>3
<1>10. pc'[r] = "idle" /\ req'[r] = None /\ gone'[r] = {}
  BY <1>1, <1>2 DEF Served
<1>11. /\ now <= now' /\ locks \cap TimerLocks \subseteq locks' /\ Len(rounds) <= Len(rounds')
       /\ \A d \in Contests : contests[d] # None => contests'[d] \in {contests[d], Deleted}
  BY <1>1, <1>3, <1>4, LenProperties, ContestAssumption DEF Rows
<1>12. QED
  BY <1>7, <1>8, <1>9, <1>10, <1>11, StepKeeps

LEMMA DeleteContestKeeps ==
  ASSUME IInv, NEW r \in Requests, DeleteContest(r)
  PROVE  IInv'
<1> DEFINE c == req[r].contest
           own == {ProblemsOf(c), UsersOf(c)}
<1>1. /\ Rows /\ Served /\ \A s \in Requests : Sound(s)
      /\ pc[r] = "checked" /\ req[r].op = "delete"
      /\ ~ Replacing(c) /\ ~ Referenced(c)
      /\ contests' = [contests EXCEPT ![c] = Deleted]
      /\ members' = [members EXCEPT ![ProblemsOf(c)] = {}, ![UsersOf(c)] = {}]
      /\ gone' = [s \in Requests |-> IF pc[s] = "deleting" /\ req[s].key \in own
                                       THEN {} ELSE gone[s]]
      /\ req' = [req EXCEPT ![r] = None] /\ pc' = [pc EXCEPT ![r] = "idle"]
      /\ UNCHANGED <<now, locks, problems, rounds, submissions>>
  BY Parts DEF DeleteContest, Finished
<1>2. c \in Contests /\ gone[r] = {}
  BY <1>1, Serving, RequestFields DEF Sound
<1>3. /\ contests' \in [Contests -> Details \cup {None, Deleted}]
      /\ contests'[c] = Deleted
      /\ \A d \in Contests \ {c} : contests'[d] = contests[d]
  BY <1>1, <1>2 DEF Rows
<1>4. /\ members' \in [Keys -> SUBSET (Problems \cup Users \cup Contests)]
      /\ members'[ProblemsOf(c)] = {} /\ members'[UsersOf(c)] = {}
      /\ \A k \in Keys \ own : members'[k] = members[k]
  BY <1>1, <1>2, KeysApart DEF Rows
<1>5. Deleted \notin Details
  BY ContestAssumption
<1>6. \A d \in Contests \ {c} : ProblemsOf(d) \in Keys \ own /\ UsersOf(d) \in Keys \ own
  BY <1>2, KeysApart
<1>7. Rows'
  <2>1. \A d \in Contests : contests'[d] \in Details => contests'[d].lock \in locks \cup {None}
    BY <1>1, <1>3, <1>5 DEF Rows, Exists
  <2>2. \A d \in Contests : contests'[d] \notin Details
                               => members'[ProblemsOf(d)] = {} /\ members'[UsersOf(d)] = {}
    BY <1>1, <1>3, <1>4, <1>6 DEF Rows, Exists
  <2>3. \A t \in submissions : t[1] \in Contests \ {c}
    <3>1. SUFFICES ASSUME NEW t \in submissions PROVE t[1] \in Contests /\ t[1] # c
      OBVIOUS
    <3>2. t \in Contests \X Problems
      BY <1>1 DEF Rows
    <3>3. t = <<t[1], t[2]>> /\ t[1] \in Contests /\ t[2] \in Problems
      BY <3>2
    <3>4. QED
      BY <3>3, <1>1 DEF Referenced
  <2>4. SubmissionsKept'
    BY <2>3, <1>1, <1>3 DEF Rows, SubmissionsKept, Exists, StartTime, IsPublic
  <2>5. PublishedUnregistered'
    BY <1>1, <1>3, <1>4, <1>5, <1>6 DEF Rows, PublishedUnregistered, Exists
  <2>6. QED
    BY <2>1, <2>2, <2>4, <2>5, <1>1, <1>3, <1>4 DEF Rows, RoundsNumbered, Exists
<1>8. Served'
  BY <1>1 DEF Served
<1>9. ASSUME NEW s \in Requests, s # r
      PROVE  /\ pc'[s] = pc[s] /\ req'[s] = req[s] /\ gone'[s] \subseteq gone[s]
             /\ gone'[s] # {} => gone'[s] \subseteq members'[req[s].key]
             /\ pc[s] = "filled" => HasParent(req[s])'
  <2>1. pc'[s] = pc[s] /\ req'[s] = req[s] /\ gone'[s] \in {{}, gone[s]}
    BY <1>1, <1>9 DEF Served
  <2>2. CASE pc[s] \notin {"deleting", "filled"}
    BY <2>1, <2>2, <1>1 DEF Sound
  <2>3. CASE pc[s] \in {"deleting", "filled"}
    <3>1. req[s] \in Request /\ req[s].op = "set"
      BY <2>3, <1>1, Serving DEF Sound
    <3>2. req[s].key \in Keys
      BY <3>1, RequestFields
    <3>3. CASE req[s].key \in own
      <4>1. gone'[s] = {}
        BY <1>1, <2>3, <3>3 DEF Replacing
      <4>2. pc[s] = "filled" => req[s].items = {}
        BY <1>1, <3>3 DEF Replacing
      <4>3. QED
        BY <2>1, <4>1, <4>2 DEF HasParent
    <3>4. CASE req[s].key \notin own
      <4>1. gone'[s] # {} => gone'[s] \subseteq members'[req[s].key]
        BY <2>1, <3>2, <3>4, <1>1, <1>4 DEF Sound
      <4>2. req[s].key[1] # "contests" => req[s].key[2] \in Contests \ {c}
        BY <3>1, <3>4, RequestFields
      <4>3. pc[s] = "filled" => HasParent(req[s])'
        BY <2>1, <4>2, <1>1, <1>3 DEF Sound, HasParent, Exists
      <4>4. QED
        BY <2>1, <4>1, <4>3
    <3>5. QED
      BY <3>3, <3>4
  <2>4. QED
    BY <2>2, <2>3
<1>10. pc'[r] = "idle" /\ req'[r] = None /\ gone'[r] = {}
  BY <1>1, <1>2 DEF Served
<1>11. /\ now <= now' /\ locks \cap TimerLocks \subseteq locks' /\ Len(rounds) <= Len(rounds')
       /\ \A d \in Contests : contests[d] # None => contests'[d] \in {contests[d], Deleted}
  BY <1>1, <1>3, LenProperties, ContestAssumption DEF Rows
<1>12. QED
  BY <1>7, <1>8, <1>9, <1>10, <1>11, StepKeeps

(* A step of one request that leaves contests and members as they are.     *)
LEMMA WritingKeeps ==
  ASSUME IInv, NEW r \in Requests, Rows', Finished(r),
         gone' = [gone EXCEPT ![r] = {}], UNCHANGED <<now, locks, contests, members>>,
         Len(rounds) <= Len(rounds')
  PROVE  IInv'
<1>1. Rows /\ Served /\ \A s \in Requests : Sound(s)
  BY Parts
<1>2. Served'
  BY <1>1 DEF Served, Finished
<1>3. ASSUME NEW s \in Requests, s # r
      PROVE  /\ pc'[s] = pc[s] /\ req'[s] = req[s] /\ gone'[s] \subseteq gone[s]
             /\ gone'[s] # {} => gone'[s] \subseteq members'[req[s].key]
             /\ pc[s] = "filled" => HasParent(req[s])'
  BY <1>1, <1>3 DEF Served, Finished, Sound, HasParent, Exists
<1>4. pc'[r] = "idle" /\ req'[r] = None /\ gone'[r] = {}
  BY <1>1 DEF Served, Finished
<1>5. now <= now' /\ locks \cap TimerLocks \subseteq locks'
      /\ \A d \in Contests : contests[d] # None => contests'[d] \in {contests[d], Deleted}
  BY <1>1, ContestAssumption DEF Rows
<1>6. QED
  BY <1>2, <1>3, <1>4, <1>5, StepKeeps

(* A request that has not begun its transaction has deleted nothing.       *)
LEMMA NothingGone ==
  ASSUME IInv, NEW r \in Requests, pc[r] = "checked", UNCHANGED gone
  PROVE  gone' = [gone EXCEPT ![r] = {}]
<1>1. gone[r] = {} /\ DOMAIN gone = Requests /\ gone = [s \in Requests |-> gone[s]]
  BY Parts DEF Served, Sound
<1>2. QED
  BY <1>1

LEMMA CreateRoundKeeps ==
  ASSUME IInv, NEW r \in Requests, CreateRound(r)
  PROVE  IInv'
<1> DEFINE n == req[r].number
<1>1. /\ Rows /\ Served /\ Sound(r)
      /\ pc[r] = "checked" /\ req[r].op = "round" /\ ~ Taken(n) /\ Finished(r)
      /\ rounds' = Append(rounds, n)
      /\ UNCHANGED <<now, gone, locks, problems, contests, members, submissions>>
  BY Parts DEF CreateRound, Writing
<1>2. n \in 1..MaxRounds /\ n <= Len(rounds) + 1
  BY <1>1, Serving, RequestFields DEF StillTrue
<1>3. /\ rounds \in Seq(1..MaxRounds) /\ Len(rounds) \in Nat
      /\ DOMAIN rounds = 1..Len(rounds) /\ \A i \in 1..Len(rounds) : rounds[i] = i
  BY <1>1, LenProperties DEF Rows, RoundsNumbered
<1>4. n = Len(rounds) + 1
  BY <1>1, <1>2, <1>3, ContestAssumption DEF Taken
<1>5. /\ rounds' \in Seq(1..MaxRounds) /\ Len(rounds') = Len(rounds) + 1
      /\ DOMAIN rounds' = 1..(Len(rounds) + 1)
      /\ \A i \in 1..(Len(rounds) + 1) : rounds'[i] = i
  BY <1>1, <1>2, <1>3, <1>4, AppendProperties
<1>6. Rows'
  BY <1>1, <1>2, <1>3, <1>4, <1>5, ContestAssumption
     DEF Rows, RoundsNumbered, SubmissionsKept, PublishedUnregistered, Exists, StartTime, IsPublic
<1>7. QED
  BY <1>1, <1>3, <1>5, <1>6, NothingGone, WritingKeeps

LEMMA SetLockKeeps ==
  ASSUME IInv, NEW r \in Requests, NEW op \in {"add", "update"}, SetLock(r, op)
  PROVE  IInv'
<1> DEFINE q == req[r]
<1>1. /\ Rows /\ Served /\ Sound(r)
      /\ pc[r] = "checked" /\ q.op = op /\ Finished(r)
      /\ q.lock = None \/ q.lock \in locks
      /\ problems' = [problems EXCEPT ![q.problem] = q.lock]
      /\ UNCHANGED <<now, gone, locks, contests, rounds, members, submissions>>
  BY Parts DEF SetLock, Writing, IsLock
<1>2. problems' \in [Problems -> locks \cup {None, "absent"}]
  BY <1>1 DEF Rows
<1>3. Rows'
  BY <1>1, <1>2
     DEF Rows, RoundsNumbered, SubmissionsKept, PublishedUnregistered, Exists, StartTime, IsPublic
<1>4. Len(rounds) <= Len(rounds')
  BY <1>1, LenProperties DEF Rows
<1>5. QED
  BY <1>1, <1>3, <1>4, NothingGone, WritingKeeps

LEMMA InsertSubmissionKeeps ==
  ASSUME IInv, NEW r \in Requests, InsertSubmission(r)
  PROVE  IInv'
<1> DEFINE q == req[r]
<1>1. /\ Rows /\ Served /\ Sound(r)
      /\ pc[r] = "checked" /\ q.op = "submit" /\ Finished(r)
      /\ Exists(q.contest)
      /\ submissions' = submissions \cup {<<q.contest, q.problem>>}
      /\ UNCHANGED <<now, gone, locks, problems, contests, rounds, members>>
  BY Parts DEF InsertSubmission, Writing
<1>2. q \in Request /\ SubmitChecked(q)
  BY <1>1, Serving DEF StillTrue
<1>3. q.contest \in Contests /\ q.problem \in Problems /\ StartTime(contests[q.contest]) <= now
  BY <1>1, <1>2, RequestFields DEF SubmitChecked
<1>4. \A s \in submissions' : Exists(s[1]) /\ StartTime(contests[s[1]]) <= now
  BY <1>1, <1>3 DEF Rows, SubmissionsKept
<1>5. SubmissionsKept'
  BY <1>1, <1>4 DEF SubmissionsKept, Exists, StartTime, IsPublic
<1>6. Rows'
  BY <1>1, <1>3, <1>5 DEF Rows, RoundsNumbered, PublishedUnregistered, Exists
<1>7. Len(rounds) <= Len(rounds')
  BY <1>1, LenProperties DEF Rows
<1>8. QED
  BY <1>1, <1>6, <1>7, NothingGone, WritingKeeps

LEMMA AbortKeeps ==
  ASSUME IInv, NEW r \in Requests, Abort(r)
  PROVE  IInv'
<1>1. /\ Rows /\ Finished(r) /\ gone' = [gone EXCEPT ![r] = {}]
      /\ UNCHANGED <<now, locks, problems, contests, rounds, members, submissions>>
  BY Parts DEF Abort, tables
<1>2. Rows'
  BY <1>1
     DEF Rows, RoundsNumbered, SubmissionsKept, PublishedUnregistered, Exists, StartTime, IsPublic
<1>3. Len(rounds) <= Len(rounds')
  BY <1>1, LenProperties DEF Rows
<1>4. QED
  BY <1>1, <1>2, <1>3, WritingKeeps

(* What a request has deleted is still there when it commits, unless its   *)
(* contest was deleted, and then it has inserted nothing.                  *)
LEMMA CommitKeeps ==
  ASSUME IInv, NEW r \in Requests, Commit(r)
  PROVE  IInv'
<1> DEFINE q == req[r]
<1>1. /\ Rows /\ Served /\ \A s \in Requests : Sound(s)
      /\ pc[r] = "filled"
      /\ members' = [members EXCEPT ![q.key] = (@ \ gone[r]) \cup q.items]
      /\ gone' = [s \in Requests |->
                    IF s = r THEN {}
                    ELSE IF pc[s] = "deleting" /\ req[s].key = q.key
                      THEN gone[s] \ gone[r] ELSE gone[s]]
      /\ req' = [req EXCEPT ![r] = None] /\ pc' = [pc EXCEPT ![r] = "idle"]
      /\ UNCHANGED <<now, locks, problems, contests, rounds, submissions>>
  BY Parts DEF Commit, Finished
<1>2. q \in Request /\ q.op = "set" /\ MembersChecked(q) /\ HasParent(q)
  BY <1>1, Serving DEF Sound, StillTrue
<1>3. q.key \in Keys /\ q.items \subseteq Problems \cup Users \cup Contests
  BY <1>2, RequestFields
<1>4. /\ members' \in [Keys -> SUBSET (Problems \cup Users \cup Contests)]
      /\ members'[q.key] = (members[q.key] \ gone[r]) \cup q.items
      /\ \A k \in Keys \ {q.key} : members'[k] = members[k]
  BY <1>1, <1>3 DEF Rows
<1>5. ASSUME NEW c \in Contests, q.key \in {ProblemsOf(c), UsersOf(c)}
      PROVE  /\ q.key[1] # "contests" /\ q.key[2] = c
             /\ q.key = UsersOf(c) => q.key[1] = "users"
  BY <1>5, KeysApart
<1>6. Rows'
  <2>1. ASSUME NEW c \in Contests, ~ Exists(c)
        PROVE  members'[ProblemsOf(c)] = {} /\ members'[UsersOf(c)] = {}
    <3>1. members[ProblemsOf(c)] = {} /\ members[UsersOf(c)] = {}
      BY <1>1, <2>1 DEF Rows
    <3>2. q.key \in {ProblemsOf(c), UsersOf(c)} => q.items = {}
      BY <1>2, <1>5, <2>1 DEF HasParent
    <3>3. \A k \in {ProblemsOf(c), UsersOf(c)} : k \in Keys /\ members[k] = {}
      BY <3>1, KeysApart
    <3>4. \A k \in {ProblemsOf(c), UsersOf(c)} : members'[k] = {}
      BY <3>2, <3>3, <1>4
    <3>5. QED
      BY <3>4
  <2>2. ASSUME NEW c \in Contests, Exists(c), contests[c].isPublished
        PROVE  members'[UsersOf(c)] = {}
    <3>1. q.key # UsersOf(c)
      BY <1>2, <1>5, <2>2 DEF MembersChecked
    <3>2. QED
      BY <3>1, <2>2, <1>1, <1>4, KeysApart DEF Rows, PublishedUnregistered
  <2>3. PublishedUnregistered'
    BY <2>2, <1>1 DEF PublishedUnregistered, Exists
  <2>4. SubmissionsKept' /\ RoundsNumbered'
    BY <1>1 DEF Rows, RoundsNumbered, SubmissionsKept, Exists, StartTime, IsPublic
  <2>5. \A c \in Contests : Exists(c)' <=> Exists(c)
    BY <1>1 DEF Exists
  <2>6. QED
    BY <2>1, <2>3, <2>4, <2>5, <1>1, <1>4 DEF Rows
<1>7. Served'
  <2>1. gone' \in [Requests -> SUBSET (Problems \cup Users \cup Contests)]
    BY <1>1 DEF Served
  <2>2. QED
    BY <2>1, <1>1 DEF Served
<1>8. ASSUME NEW s \in Requests, s # r
      PROVE  /\ pc'[s] = pc[s] /\ req'[s] = req[s] /\ gone'[s] \subseteq gone[s]
             /\ gone'[s] # {} => gone'[s] \subseteq members'[req[s].key]
             /\ pc[s] = "filled" => HasParent(req[s])'
  <2>1. /\ pc'[s] = pc[s] /\ req'[s] = req[s] /\ gone'[s] \subseteq gone[s]
        /\ pc[s] = "deleting" /\ req[s].key = q.key => gone'[s] \subseteq gone[s] \ gone[r]
    BY <1>1, <1>8 DEF Served
  <2>2. pc[s] = "filled" => HasParent(req[s])'
    BY <2>1, <1>1 DEF Sound, HasParent, Exists
  <2>3. ASSUME gone'[s] # {}
        PROVE  gone'[s] \subseteq members'[req[s].key]
    <3>1. pc[s] \in {"deleting", "filled"} /\ gone[s] \subseteq members[req[s].key]
      BY <2>1, <2>3, <1>1 DEF Sound
    <3>2. req[s].key \in Keys
      BY <3>1, <1>1, Serving, RequestFields DEF Sound
    <3>3. CASE req[s].key = q.key
      <4>1. pc[s] = "filled" => gone[s] \cap gone[r] = {}
        BY <1>1, <1>8, <3>3, Parts DEF Apart, Replaced
      <4>2. gone'[s] \subseteq gone[s] \ gone[r]
        BY <2>1, <3>1, <3>3, <4>1
      <4>3. QED
        BY <4>2, <3>1, <3>3, <1>4
    <3>4. CASE req[s].key # q.key
      BY <2>1, <3>1, <3>2, <3>4, <1>4
    <3>5. QED
      BY <3>3, <3>4
  <2>4. QED
    BY <2>1, <2>2, <2>3
<1>9. pc'[r] = "idle" /\ req'[r] = None /\ gone'[r] = {}
  BY <1>1 DEF Served
<1>10. /\ now <= now' /\ locks \cap TimerLocks \subseteq locks' /\ Len(rounds) <= Len(rounds')
       /\ \A d \in Contests : contests[d] # None => contests'[d] \in {contests[d], Deleted}
  BY <1>1, LenProperties, ContestAssumption DEF Rows
<1>11. QED
  BY <1>6, <1>7, <1>8, <1>9, <1>10, StepKeeps

(* A step of one request, after which it is not answered, on no table.     *)
LEMMA GoingOn ==
  ASSUME IInv, NEW r \in Requests, UNCHANGED <<now, tables>>, Served', Sound(r)',
         \A s \in Requests \ {r} : pc'[s] = pc[s] /\ req'[s] = req[s] /\ gone'[s] = gone[s],
         \A s \in Requests : Apart(r, s)' /\ Apart(s, r)'
  PROVE  IInv'
<1>1. /\ Rows /\ Served /\ \A s \in Requests : Sound(s)
      /\ \A s, u \in Requests : Apart(s, u)
  BY Parts
<1>2. UNCHANGED <<now, locks, problems, contests, rounds, members, submissions>>
  BY DEF tables
<1>3. Rows'
  BY <1>1, <1>2
     DEF Rows, RoundsNumbered, SubmissionsKept, PublishedUnregistered, Exists, StartTime, IsPublic
<1>4. /\ now <= now' /\ locks \cap TimerLocks \subseteq locks' /\ Len(rounds) <= Len(rounds')
      /\ \A d \in Contests : contests[d] # None => contests'[d] \in {contests[d], Deleted}
  BY <1>1, <1>2, LenProperties, ContestAssumption DEF Rows
<1>5. ASSUME NEW s \in Requests, s # r
      PROVE  Sound(s)'
  <2>1. /\ gone'[s] # {} => gone'[s] \subseteq members'[req[s].key]
        /\ pc[s] = "filled" => HasParent(req[s])'
    BY <1>1, <1>2, <1>5 DEF Sound, HasParent, Exists
  <2>2. QED
    BY <2>1, <1>1, <1>3, <1>4, <1>5, OthersKeep
<1>6. (\A s \in Requests : Sound(s))'
  BY <1>5
<1>7. (\A s, u \in Requests : Apart(s, u))'
  BY <1>1 DEF Apart, Replaced
<1>8. QED
  BY <1>3, <1>6, <1>7, PartsNext

LEMMA StartDeleteKeeps ==
  ASSUME IInv, NEW r \in Requests, StartDelete(r)
  PROVE  IInv'
<1>1. /\ Rows /\ Served /\ Sound(r)
      /\ pc[r] = "checked" /\ req[r].op = "set"
      /\ pc' = [pc EXCEPT ![r] = "deleting"]
      /\ gone' = [gone EXCEPT ![r] = members[req[r].key]]
      /\ UNCHANGED <<now, tables, req>>
  BY Parts DEF StartDelete
<1>2. /\ UNCHANGED <<locks, problems, contests, rounds, members, submissions>>
      /\ req[r].key \in Keys /\ req[r] # None /\ StillTrue(req[r])
  BY <1>1, Serving, RequestFields DEF tables
<1>3. members[req[r].key] \subseteq Problems \cup Users \cup Contests
  BY <1>1, <1>2 DEF Rows
<1>4. Served'
  BY <1>1, <1>3 DEF Served
<1>5. pc'[r] = "deleting" /\ gone'[r] = members'[req'[r].key] /\ req'[r] = req[r]
  BY <1>1, <1>2 DEF Served
<1>6. StillTrue(req[r])'
  BY <1>1, <1>2
     DEF StillTrue, DetailsChecked, MembersChecked, SubmitChecked, Exists, StartTime, IsPublic
<1>7. Sound(r)'
  BY <1>1, <1>2, <1>5, <1>6 DEF Sound
<1>8. \A s \in Requests \ {r} : pc'[s] = pc[s] /\ req'[s] = req[s] /\ gone'[s] = gone[s]
  BY <1>1 DEF Served
<1>9. \A s \in Requests : Apart(r, s)' /\ Apart(s, r)'
  BY <1>5 DEF Apart
<1>10. QED
  BY <1>1, <1>4, <1>7, <1>8, <1>9, GoingOn

LEMMA InsertRowsKeeps ==
  ASSUME IInv, NEW r \in Requests, InsertRows(r)
  PROVE  IInv'
<1> DEFINE q == req[r]
<1>1. /\ Rows /\ Served /\ Sound(r)
      /\ pc[r] = "deleting"
      /\ \A s \in Requests :
           pc[s] = "filled" /\ req[s].key = q.key =>
             (gone[s] \cup req[s].items) \cap (gone[r] \cup q.items) = {}
      /\ HasParent(q)
      /\ pc' = [pc EXCEPT ![r] = "filled"]
      /\ UNCHANGED <<now, tables, req, gone>>
  BY Parts DEF InsertRows
<1>2. UNCHANGED <<locks, problems, contests, rounds, members, submissions>>
  BY <1>1 DEF tables
<1>3. Served'
  BY <1>1 DEF Served
<1>4. pc'[r] = "filled"
  BY <1>1 DEF Served
<1>5. StillTrue(q) /\ q # None
  BY <1>1, Serving
<1>6. StillTrue(q)' /\ HasParent(q)'
  BY <1>1, <1>2, <1>5
     DEF StillTrue, DetailsChecked, MembersChecked, SubmitChecked, Exists, StartTime, IsPublic, HasParent
<1>7. Sound(r)'
  BY <1>1, <1>2, <1>4, <1>5, <1>6 DEF Sound
<1>8. \A s \in Requests \ {r} : pc'[s] = pc[s] /\ req'[s] = req[s] /\ gone'[s] = gone[s]
  BY <1>1 DEF Served
<1>9. \A s \in Requests : Apart(r, s)' /\ Apart(s, r)'
  BY <1>1, <1>8 DEF Apart, Replaced
<1>10. QED
  BY <1>1, <1>3, <1>7, <1>8, <1>9, GoingOn

(* What a request finds is true when it finds it.                          *)
LEMMA AskKeeps ==
  ASSUME IInv, NEW r \in Requests, NEW q \in Asked, Ask(r, q)
  PROVE  IInv'
<1>1. /\ Rows /\ Served /\ Sound(r) /\ pc[r] = "idle" /\ Allowed(q)
      /\ req' = [req EXCEPT ![r] = q] /\ pc' = [pc EXCEPT ![r] = "checked"]
      /\ UNCHANGED <<now, tables, gone>>
  BY Parts DEF Ask
<1>2. q \in Request /\ q # None
  BY RequestAssumption
<1>3. q.op = "create" => DetailsChecked(q)
  <2>1. SUFFICES ASSUME q.op = "create" PROVE DetailsChecked(q)
    OBVIOUS
  <2>2. q.details \in Details /\ MayCreate(q)
    BY <2>1, <1>1, <1>2, RequestFields DEF Allowed
  <2>3. CASE IsPublic(q.details)
    BY <2>2, <2>3 DEF MayCreate, validatePublicContest, DetailsChecked
  <2>4. CASE ~ IsPublic(q.details)
    BY <2>2, <2>4 DEF MayCreate, validatePrivateContest, IsPublic, DetailsChecked
  <2>5. QED
    BY <2>3, <2>4
<1>4. q.op = "set" => MembersChecked(q)
  <2>1. SUFFICES ASSUME q.op = "set", q.key[1] # "contests"
                 PROVE  /\ contests[q.key[2]] # None
                        /\ q.key[1] = "users" => ~ contests[q.key[2]].isPublished
    BY DEF MembersChecked
  <2>2. MaySet(q)
    BY <2>1, <1>1 DEF Allowed
  <2>3. q.key[1] \in {"problems", "users"}
    BY <2>1, <1>2, RequestFields, KeysApart
  <2>4. Exists(q.key[2]) /\ (q.key[1] = "users" => ~ contests[q.key[2]].isPublished)
    BY <2>2, <2>3 DEF MaySet, MaySetUsers, authorizeContestUpdate
  <2>5. QED
    BY <2>4, ContestAssumption DEF Exists
<1>5. q.op = "round" => q.number <= Len(rounds) + 1
  <2>1. SUFFICES ASSUME q.op = "round" PROVE q.number <= Len(rounds) + 1
    OBVIOUS
  <2>2. MayCreateRound(q)
    BY <2>1, <1>1 DEF Allowed
  <2>3. /\ Len(rounds) \in Nat /\ DOMAIN rounds = 1..Len(rounds)
        /\ \A i \in 1..Len(rounds) : rounds[i] = i
        /\ Len(rounds) = 0 => rounds = <<>>
    BY <1>1, LenProperties, EmptySeq DEF Rows, RoundsNumbered
  <2>4. CASE rounds = <<>>
    BY <2>2, <2>3, <2>4 DEF MayCreateRound
  <2>5. CASE rounds # <<>>
    <3>1. Len(rounds) \in LatestRounds /\ rounds[Len(rounds)] = Len(rounds)
      BY <2>3, <2>5 DEF LatestRounds
    <3>2. q.number = Len(rounds) + 1
      BY <2>2, <2>5, <3>1 DEF MayCreateRound
    <3>3. QED
      BY <2>3, <3>2
  <2>6. QED
    BY <2>4, <2>5
<1>6. q.op = "submit" => SubmitChecked(q)
  BY <1>1, ContestAssumption DEF Allowed, MaySubmit, CanSubmit, SubmitChecked, Exists
<1>7. StillTrue(q)
  BY <1>3, <1>4, <1>5, <1>6 DEF StillTrue
<1>8. UNCHANGED <<locks, problems, contests, rounds, members, submissions>>
  BY <1>1 DEF tables
<1>9. Served'
  BY <1>1 DEF Served
<1>10. pc'[r] = "checked" /\ req'[r] = q /\ gone'[r] = {}
  BY <1>1 DEF Served, Sound
<1>11. StillTrue(req[r])'
  BY <1>1, <1>7, <1>8, <1>10
     DEF StillTrue, DetailsChecked, MembersChecked, SubmitChecked, Exists, StartTime, IsPublic
<1>12. Sound(r)'
  BY <1>2, <1>10, <1>11 DEF Sound
<1>13. \A s \in Requests \ {r} : pc'[s] = pc[s] /\ req'[s] = req[s] /\ gone'[s] = gone[s]
  BY <1>1 DEF Served
<1>14. \A s \in Requests : Apart(r, s)' /\ Apart(s, r)'
  BY <1>10 DEF Apart
<1>15. QED
  BY <1>1, <1>9, <1>12, <1>13, <1>14, GoingOn

(* A step of no request.                                                   *)
LEMMA NobodysStep ==
  ASSUME IInv, Rows', UNCHANGED <<contests, rounds, members, req, pc, gone>>,
         now <= now', locks \cap TimerLocks \subseteq locks'
  PROVE  IInv'
<1>1. Rows /\ Served /\ \A s \in Requests : Sound(s)
  BY Parts
<1>2. Served'
  BY <1>1 DEF Served
<1>3. Len(rounds) <= Len(rounds')
      /\ \A d \in Contests : contests[d] # None => contests'[d] \in {contests[d], Deleted}
  BY <1>1, LenProperties DEF Rows
<1>4. ASSUME NEW s \in Requests
      PROVE  /\ pc'[s] = pc[s] /\ req'[s] = req[s] /\ gone'[s] \subseteq gone[s]
             /\ gone'[s] # {} => gone'[s] \subseteq members'[req[s].key]
             /\ pc[s] = "filled" => HasParent(req[s])'
  BY <1>1 DEF Sound, HasParent, Exists
<1>5. QED
  BY <1>2, <1>3, <1>4, StepKeeps

LEMMA CreateLockKeeps ==
  ASSUME IInv, NEW l \in TimerLocks \cup ManualLocks, CreateLock(l)
  PROVE  IInv'
<1>1. /\ Rows /\ locks' = locks \cup {l}
      /\ UNCHANGED <<now, problems, contests, rounds, members, submissions, req, pc, gone>>
  BY Parts DEF CreateLock
<1>2. Rows'
  BY <1>1
     DEF Rows, RoundsNumbered, SubmissionsKept, PublishedUnregistered, Exists, StartTime, IsPublic
<1>3. now <= now'
  BY <1>1, ContestAssumption DEF Rows
<1>4. QED
  BY <1>1, <1>2, <1>3, NobodysStep

(* Only manual locks are deleted; contests have timer locks.               *)
LEMMA DeleteLockKeeps ==
  ASSUME IInv, NEW l \in TimerLocks \cup ManualLocks, DeleteLock(l)
  PROVE  IInv'
<1>1. /\ Rows /\ l \in ManualLocks /\ locks' = locks \ {l}
      /\ problems' = [p \in Problems |-> IF problems[p] = l THEN None ELSE problems[p]]
      /\ UNCHANGED <<now, contests, rounds, members, submissions, req, pc, gone>>
  BY Parts DEF DeleteLock
<1>2. \A d \in Details : d.lock # l
  BY <1>1, ContestAssumption
<1>3. problems' \in [Problems -> locks' \cup {None, "absent"}]
  BY <1>1 DEF Rows
<1>4. \A c \in Contests : contests[c] \in Details => contests[c].lock \in locks' \cup {None}
  BY <1>1, <1>2 DEF Rows, Exists
<1>5. Rows'
  BY <1>1, <1>3, <1>4
     DEF Rows, RoundsNumbered, SubmissionsKept, PublishedUnregistered, Exists, StartTime, IsPublic
<1>6. now <= now' /\ locks \cap TimerLocks \subseteq locks'
  BY <1>1, ContestAssumption DEF Rows
<1>7. QED
  BY <1>1, <1>5, <1>6, NobodysStep

LEMMA TickKeeps ==
  ASSUME IInv, Tick
  PROVE  IInv'
<1>1. /\ Rows /\ now < MaxTime /\ now' = now + 1
      /\ UNCHANGED <<locks, problems, contests, rounds, members, submissions, req, pc, gone>>
  BY Parts DEF Tick, tables
<1>2. \A d \in Details : StartTime(d) \in Nat
  BY ContestAssumption DEF StartTime, IsPublic
<1>3. \A s \in submissions : Exists(s[1]) /\ StartTime(contests[s[1]]) <= now'
  BY <1>1, <1>2, ContestAssumption DEF Rows, SubmissionsKept, Exists
<1>4. SubmissionsKept'
  BY <1>1, <1>3 DEF SubmissionsKept, Exists, StartTime, IsPublic
<1>5. now' \in 0..MaxTime /\ now <= now' /\ locks \cap TimerLocks \subseteq locks'
  BY <1>1, ContestAssumption DEF Rows
<1>6. Rows'
  BY <1>1, <1>4, <1>5 DEF Rows, RoundsNumbered, PublishedUnregistered, Exists
<1>7. QED
  BY <1>1, <1>5, <1>6, NobodysStep

-----------------------------------------------------------------------------
LEMMA InitEstablishes == Init => IInv
<1>1. SUFFICES ASSUME Init PROVE IInv
  OBVIOUS
<1>2. None \notin Details
  BY ContestAssumption
<1>3. Rows
  <2>1. rounds \in Seq(1..MaxRounds) /\ Len(rounds) <= MaxRounds /\ RoundsNumbered
    BY <1>1, EmptySeq, ContestAssumption DEF Init, RoundsNumbered
  <2>2. now \in 0..MaxTime /\ members \in [Keys -> SUBSET (Problems \cup Users \cup Contests)]
    BY <1>1, ContestAssumption DEF Init
  <2>3. \A c \in Contests : members[ProblemsOf(c)] = {} /\ members[UsersOf(c)] = {}
    BY <1>1, KeysApart DEF Init
  <2>4. QED
    BY <2>1, <2>2, <2>3, <1>1, <1>2
       DEF Init, Rows, SubmissionsKept, PublishedUnregistered, Exists
<1>4. Served /\ (\A r \in Requests : Sound(r)) /\ (\A r, s \in Requests : Apart(r, s))
  BY <1>1 DEF Init, Served, Sound, Apart
<1>5. QED
  BY <1>3, <1>4, Parts

LEMMA StepPreserves == IInv /\ [Next]_vars => IInv'
<1>1. SUFFICES ASSUME IInv, [Next]_vars PROVE IInv'
  OBVIOUS
<1>2. ASSUME NEW r \in Requests, \E q \in Asked : Ask(r, q)
      PROVE  IInv'
  BY <1>1, <1>2, AskKeeps
<1>3. ASSUME NEW r \in Requests, CreateContest(r) \/ DeleteContest(r) \/ CreateRound(r)
      PROVE  IInv'
  BY <1>1, <1>3, CreateContestKeeps, DeleteContestKeeps, CreateRoundKeeps
<1>4. ASSUME NEW r \in Requests, AddStandardProblem(r) \/ UpdateProblem(r) \/ InsertSubmission(r)
      PROVE  IInv'
  BY <1>1, <1>4, SetLockKeeps, InsertSubmissionKeeps DEF AddStandardProblem, UpdateProblem
<1>5. ASSUME NEW r \in Requests, StartDelete(r) \/ InsertRows(r) \/ Commit(r) \/ Abort(r)
      PROVE  IInv'
  BY <1>1, <1>5, StartDeleteKeeps, InsertRowsKeeps, CommitKeeps, AbortKeeps
<1>6. ASSUME NEW l \in TimerLocks \cup ManualLocks, CreateLock(l) \/ DeleteLock(l)
      PROVE  IInv'
  BY <1>1, <1>6, CreateLockKeeps, DeleteLockKeeps
<1>7. CASE Tick
  BY <1>1, <1>7, TickKeeps
<1>8. CASE UNCHANGED vars
  <2>1. /\ Rows
        /\ UNCHANGED <<now, locks, problems, contests, rounds, members, submissions, req, pc, gone>>
    BY <1>1, <1>8, Parts DEF vars, tables
  <2>2. Rows'
    BY <2>1
       DEF Rows, RoundsNumbered, SubmissionsKept, PublishedUnregistered, Exists, StartTime, IsPublic
  <2>3. now <= now' /\ locks \cap TimerLocks \subseteq locks'
    BY <2>1, ContestAssumption DEF Rows
  <2>4. QED
    BY <1>1, <2>1, <2>2, <2>3, NobodysStep
<1>9. QED
  BY <1>1, <1>2, <1>3, <1>4, <1>5, <1>6, <1>7, <1>8 DEF Next

THEOREM InductiveInvariant == Spec => []IInv
<1>1. QED
  BY InitEstablishes, StepPreserves, PTL DEF Spec

(* Every row has its type and refers to rows that are there: requests      *)
(* write what they checked earlier, and the keys of the tables hold.       *)
THEOREM TypeCorrect == Spec => []TypeOK
<1>1. IInv => TypeOK
  BY DEF IInv
<1>2. QED
  BY <1>1, InductiveInvariant, PTL

(* Rounds are numbered one after the other, however many are created at a  *)
(* time: the number was at most the next one when it was computed, still   *)
(* is, and the smaller ones are taken.                                     *)
THEOREM RoundsConsecutive == Spec => []RoundsNumbered
<1>1. IInv => RoundsNumbered
  BY DEF IInv
<1>2. QED
  BY <1>1, InductiveInvariant, PTL

(* What was submitted to a contest was submitted after its start, and its  *)
(* contest is never deleted.                                               *)
THEOREM SubmissionsStay == Spec => []SubmissionsKept
<1>1. IInv => SubmissionsKept
  BY DEF IInv
<1>2. QED
  BY <1>1, InductiveInvariant, PTL

(* Nobody is registered for a published contest.                           *)
THEOREM NobodyRegistered == Spec => []PublishedUnregistered
<1>1. IInv => PublishedUnregistered
  BY DEF IInv
<1>2. QED
  BY <1>1, InductiveInvariant, PTL
=============================================================================
