----------------------------- MODULE MC_Contests -----------------------------
(* An instance of the contests for TLC: a private contest and one or two   *)
(* public ones, of which one may be published.                             *)
EXTENDS ContestProperties, TLC

CONSTANTS t1, m1, p1, p2, a, b, u1

Symmetry == Permutations(Requests)

TimeoutDef == [l \in TimerLocks |-> 1]

Private == [lock |-> None, start |-> 1, end |-> 2, isPublished |-> FALSE]
Public == [lock |-> t1, start |-> 0, end |-> 2, isPublished |-> FALSE]
Published == [Public EXCEPT !.isPublished = TRUE]
DetailsDef == {Private, Public, Published}

Set(key, items) == [op |-> "set", key |-> key, items |-> items]
CreateReq(c, d, ps, us) ==
  [op |-> "create", contest |-> c, details |-> d, problems |-> ps, users |-> us]
Lock(op, p, l) == [op |-> op, problem |-> p, lock |-> l]

AskedDef ==
  {Set(ProblemsOf(a), {p1}), Set(ProblemsOf(a), {p2}), Set(ProblemsOf(b), {p1}),
   Set(UsersOf(a), {}), Set(UsersOf(a), {u1}), Set(UsersOf(b), {u1}),
   Set(ContestsOf(1), {b}), Set(ContestsOf(2), {b}),
   CreateReq(a, Private, {}, {}), CreateReq(a, Private, {p1}, {u1}),
   CreateReq(b, Public, {}, {u1}), CreateReq(b, Published, {p1}, {}),
   Lock("add", p1, t1), Lock("add", p1, None), Lock("add", p2, m1),
   Lock("update", p1, None), Lock("update", p2, m1),
   [op |-> "delete", contest |-> a], [op |-> "delete", contest |-> b],
   [op |-> "round", number |-> 1], [op |-> "round", number |-> 2],
   [op |-> "submit", contest |-> a, problem |-> p1, user |-> u1],
   [op |-> "submit", contest |-> b, problem |-> p1, user |-> u1]}
=============================================================================
