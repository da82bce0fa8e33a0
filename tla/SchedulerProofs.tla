--------------------------- MODULE SchedulerProofs ---------------------------
(* Proofs about the scheduler for all tasks, requests and capacities.      *)
EXTENDS SchedulerProperties, FiniteSetTheorems, SequenceTheorems,
        WellFoundedInduction, TLAPS

-----------------------------------------------------------------------------
(* Channels as sequences, by their positions.                              *)

(* A send adds one position, the last.                                     *)
LEMMA AppendPositions ==
  ASSUME NEW S, NEW q \in Seq(S), NEW e \in S
  PROVE  /\ Append(q, e) \in Seq(S)
         /\ Len(Append(q, e)) = Len(q) + 1
         /\ DOMAIN Append(q, e) = DOMAIN q \cup {Len(q) + 1}
         /\ Len(q) + 1 \notin DOMAIN q
         /\ \A i \in DOMAIN q : Append(q, e)[i] = q[i]
         /\ Append(q, e)[Len(q) + 1] = e
<1>1. DOMAIN q = 1 .. Len(q) /\ Len(q) \in Nat
  BY LenProperties
<1>2. DOMAIN Append(q, e) = 1 .. Len(Append(q, e))
  BY AppendProperties, LenProperties
<1>3. QED
  BY <1>1, <1>2, AppendProperties

(* A receive takes the first position; the others move down by one.        *)
LEMMA TailPositions ==
  ASSUME NEW S, NEW q \in Seq(S), q # <<>>
  PROVE  /\ Tail(q) \in Seq(S)
         /\ Head(q) \in S
         /\ Len(Tail(q)) = Len(q) - 1
         /\ 1 \in DOMAIN q /\ Head(q) = q[1]
         /\ \A i \in DOMAIN Tail(q) :
              /\ i + 1 \in DOMAIN q /\ i + 1 # 1
              /\ Tail(q)[i] = q[i + 1]
              /\ i = (i + 1) - 1
         /\ \A j \in DOMAIN q :
              j # 1 => j - 1 \in DOMAIN Tail(q) /\ Tail(q)[j - 1] = q[j]
<1>1. /\ DOMAIN q = 1 .. Len(q)
      /\ Len(q) \in Nat \ {0}
      /\ DOMAIN Tail(q) = 1 .. Len(Tail(q))
  BY HeadTailProperties, LenProperties, EmptySeq
<1>2. Head(q) = q[1]
  OBVIOUS
<1>3. \A i \in DOMAIN Tail(q) : i + 1 \in DOMAIN q /\ i + 1 # 1 /\ i = (i + 1) - 1
  BY <1>1, HeadTailProperties
<1>4. ASSUME NEW j \in DOMAIN q, j # 1
      PROVE  j - 1 \in DOMAIN Tail(q) /\ Tail(q)[j - 1] = q[j]
  <2>1. j - 1 \in 1 .. Len(Tail(q)) /\ (j - 1) + 1 = j
    BY <1>1, <1>4, HeadTailProperties
  <2>2. QED
    BY <1>1, <2>1, HeadTailProperties
<1>5. QED
  BY <1>1, <1>2, <1>3, <1>4, HeadTailProperties

(* A queue without duplicates is no longer than the set of its elements,   *)
(* and a finite set bounds it.                                             *)
LEMMA DistinctLength ==
  ASSUME NEW S, IsFiniteSet(S), NEW q \in Seq(S),
         \A i, j \in DOMAIN q : q[i] = q[j] => i = j
  PROVE  Len(q) \in Nat /\ Len(q) <= Cardinality(S)
<1>1. DOMAIN q = 1 .. Len(q) /\ Len(q) \in Nat
  BY LenProperties
<1>2. q \in Injection(1 .. Len(q), S)
  BY <1>1 DEF Injection, IsInjective
<1>3. Cardinality(1 .. Len(q)) = Len(q)
  BY <1>1, FS_Interval
<1>4. QED
  BY <1>1, <1>2, <1>3, FS_Injection

-----------------------------------------------------------------------------
(* Sums over finite sets.                                                  *)

Pick(s) == CHOOSE x \in s : TRUE
Unfolds(g, f, s) ==
  g[s] = IF s = {} THEN 0 ELSE f[Pick(s)] + g[s \ {Pick(s)}]
IsFold(g, f, S) ==
  g = [s \in SUBSET S |-> IF s = {} THEN 0 ELSE f[Pick(s)] + g[s \ {Pick(s)}]]

LEMMA PickIn == \A s : s # {} => Pick(s) \in s
BY DEF Pick

(* The least of a set of natural numbers.                                  *)
LEMMA LeastNumber ==
  ASSUME NEW N \in SUBSET Nat, N # {}
  PROVE  \E n \in N : \A m \in N : n <= m
<1>1. PICK n \in N : \A m \in N : <<m, n>> \notin OpToRel(<, Nat)
  BY NatLessThanWellFounded, WFMin
<1>2. \A m \in N : ~ (m < n)
  BY <1>1 DEF OpToRel
<1>3. QED
  BY <1>2

(* A smallest one among some subsets of a finite set.                      *)
LEMMA LeastSubset ==
  ASSUME NEW S, IsFiniteSet(S), NEW B, B \subseteq SUBSET S, B # {}
  PROVE  \E s \in B : \A t \in B : t \subseteq s => t = s
<1>1. FiniteSubsetsOf(S) = SUBSET S
  BY FS_FiniteSubsetsOfFinite
<1>2. IsWellFoundedOn(StrictSubsetOrdering(S), SUBSET S)
  BY <1>1, FS_StrictSubsetOrderingWellFounded
<1>3. PICK s \in B : \A t \in B : <<t, s>> \notin StrictSubsetOrdering(S)
  BY <1>2, WFMin
<1>4. QED
  BY <1>3 DEF StrictSubsetOrdering

(* SumFunctionOnSet is defined by a recursion over the subsets of S.  That *)
(* a function with those equations exists is proved by taking the least    *)
(* size of subsets for which there is none.                                *)
LEMMA FoldExists ==
  ASSUME NEW S, IsFiniteSet(S), NEW f, \A x \in S : f[x] \in Int
  PROVE  \E g : IsFold(g, f, S)
<1> DEFINE Good(n, g) == \A s \in SUBSET S : Cardinality(s) <= n => Unfolds(g, f, s)
           Bad == {n \in Nat : ~ \E g \in [SUBSET S -> Int] : Good(n, g)}
<1>0. \A s \in SUBSET S : IsFiniteSet(s) /\ Cardinality(s) \in Nat
                          /\ Cardinality(s) <= Cardinality(S) /\ Cardinality(S) \in Nat
  BY FS_Subset, FS_CardinalityType
<1>1. Bad = {}
  <2> SUFFICES ASSUME Bad # {} PROVE FALSE
    OBVIOUS
  <2>1. PICK n \in Bad : \A m \in Bad : n <= m
    BY LeastNumber
  <2>2. CASE n = 0
    <3> DEFINE g == [s \in SUBSET S |-> 0]
    <3>1. \A s \in SUBSET S : Cardinality(s) <= 0 => s = {}
      BY <1>0, FS_EmptySet
    <3>2. Good(0, g)
      BY <3>1 DEF Unfolds
    <3>3. g \in [SUBSET S -> Int]
      OBVIOUS
    <3>4. QED
      BY <2>1, <2>2, <3>2, <3>3
  <2>3. CASE n # 0
    <3>1. n \in Nat /\ n - 1 \in Nat /\ n - 1 \notin Bad
      <4>1. n \in Nat
        OBVIOUS
      <4>2. n - 1 \in Nat /\ ~ (n <= n - 1)
        BY <2>3, <4>1
      <4> HIDE DEF Bad
      <4>3. QED
        BY <2>1, <4>1, <4>2
    <3>2. PICK h \in [SUBSET S -> Int] : Good(n - 1, h)
      BY <3>1
    <3> DEFINE g == [s \in SUBSET S |->
                       IF s = {} THEN 0 ELSE f[Pick(s)] + h[s \ {Pick(s)}]]
    <3>3. g \in [SUBSET S -> Int]
      <4>1. \A s \in SUBSET S : s # {} => /\ f[Pick(s)] \in Int
                                          /\ h[s \ {Pick(s)}] \in Int
        BY PickIn
      <4>2. QED
        BY <4>1
    <3>4. ASSUME NEW s \in SUBSET S, Cardinality(s) <= n PROVE Unfolds(g, f, s)
      <4>1. CASE s = {}
        BY <4>1 DEF Unfolds
      <4>2. CASE s # {}
        <5> DEFINE r == s \ {Pick(s)}
        <5>1. Pick(s) \in s
          BY <4>2, PickIn
        <5>2. r \in SUBSET S /\ Cardinality(r) <= n - 1
          <6>1. Cardinality(r) = Cardinality(s) - 1
            BY <1>0, <5>1, FS_RemoveElement
          <6>2. r \in SUBSET S
            OBVIOUS
          <6> HIDE DEF r
          <6>3. QED
            BY <1>0, <3>1, <3>4, <6>1, <6>2
        <5>3. h[r] = IF r = {} THEN 0 ELSE f[Pick(r)] + h[r \ {Pick(r)}]
          BY <3>2, <5>2 DEF Unfolds
        <5>4. g[r] = h[r]
          BY <5>2, <5>3
        <5>5. g[s] = f[Pick(s)] + h[r]
          BY <4>2
        <5> HIDE DEF g, r
        <5>6. QED
          BY <4>2, <5>4, <5>5 DEF Unfolds, r
      <4>3. QED
        BY <4>1, <4>2
    <3>5. Good(n, g)
      BY <3>4
    <3> HIDE DEF g
    <3>6. QED
      BY <2>1, <3>3, <3>5
  <2>4. QED
    BY <2>2, <2>3
<1>2. Cardinality(S) \in Nat
  BY FS_CardinalityType
<1>3. PICK g \in [SUBSET S -> Int] : Good(Cardinality(S), g)
  BY <1>1, <1>2
<1>4. \A s \in SUBSET S : Unfolds(g, f, s)
  BY <1>0, <1>3
<1>5. QED
  BY <1>3, <1>4 DEF IsFold, Unfolds

(* The sum is the value of such a function at S.                           *)
LEMMA SumIsFold ==
  ASSUME NEW S, IsFiniteSet(S), NEW f, \A x \in S : f[x] \in Int
  PROVE  \E g : IsFold(g, f, S) /\ SumFunctionOnSet(f, S) = g[S]
<1> DEFINE G == CHOOSE g : IsFold(g, f, S)
<1>1. IsFold(G, f, S)
  BY FoldExists
<1>2. SumFunctionOnSet(f, S) = G[S]
  BY DEF SumFunctionOnSet, FoldFunctionOnSet, MapThenFoldSet, IsFold, Pick
<1>3. QED
  BY <1>1, <1>2

(* Functions that agree on S have the same sums over its subsets.          *)
LEMMA FoldsAgree ==
  ASSUME NEW S, IsFiniteSet(S), NEW T, S \subseteq T,
         NEW f, NEW e, \A x \in S : f[x] = e[x],
         NEW g, IsFold(g, f, S), NEW h, IsFold(h, e, T)
  PROVE  \A s \in SUBSET S : g[s] = h[s]
<1> DEFINE Bad == {s \in SUBSET S : g[s] # h[s]}
<1>1. SUFFICES ASSUME Bad # {} PROVE FALSE
  OBVIOUS
<1>2. PICK s \in Bad : \A t \in Bad : t \subseteq s => t = s
  <2>1. Bad \subseteq SUBSET S
    OBVIOUS
  <2> HIDE DEF Bad
  <2>2. QED
    BY <1>1, <2>1, LeastSubset
<1>3. s \in SUBSET S /\ s \in SUBSET T /\ g[s] # h[s]
  OBVIOUS
<1>4. CASE s = {}
  BY <1>3, <1>4 DEF IsFold
<1>5. CASE s # {}
  <2> DEFINE r == s \ {Pick(s)}
  <2>1. Pick(s) \in s
    BY <1>5, PickIn
  <2>2. r \in SUBSET S /\ r \subseteq s /\ r # s
    BY <2>1
  <2>3. g[r] = h[r]
    <3> HIDE DEF r
    <3>1. r \notin Bad
      <4> HIDE DEF Bad
      <4>1. QED
        BY <1>2, <2>2
    <3>2. QED
      BY <2>2, <3>1
  <2>4. g[s] = f[Pick(s)] + g[r] /\ h[s] = e[Pick(s)] + h[r]
    BY <1>3, <1>5 DEF IsFold
  <2>5. f[Pick(s)] = e[Pick(s)]
    BY <1>3, <2>1
  <2> HIDE DEF r, Bad
  <2>6. QED
    BY <1>3, <2>3, <2>4, <2>5
<1>6. QED
  BY <1>4, <1>5

(* Sums are integers, and may be started with any element.                 *)
LEMMA FoldProps ==
  ASSUME NEW S, IsFiniteSet(S), NEW f, \A x \in S : f[x] \in Int,
         NEW g, IsFold(g, f, S)
  PROVE  \A s \in SUBSET S : /\ g[s] \in Int
                             /\ \A x \in s : g[s] = f[x] + g[s \ {x}]
<1> DEFINE Good(s) == g[s] \in Int /\ \A x \in s : g[s] = f[x] + g[s \ {x}]
           Bad == {s \in SUBSET S : ~ Good(s)}
<1>1. SUFFICES ASSUME Bad # {} PROVE FALSE
  OBVIOUS
<1>2. PICK s \in Bad : \A t \in Bad : t \subseteq s => t = s
  <2>1. Bad \subseteq SUBSET S
    OBVIOUS
  <2> HIDE DEF Bad
  <2>2. QED
    BY <1>1, <2>1, LeastSubset
<1>3. s \in SUBSET S /\ ~ Good(s)
  OBVIOUS
<1>4. \A x \in s : Good(s \ {x})
  <2> SUFFICES ASSUME NEW x \in s PROVE Good(s \ {x})
    OBVIOUS
  <2>1. s \ {x} \in SUBSET S /\ s \ {x} \subseteq s /\ s \ {x} # s
    BY <1>3
  <2> HIDE DEF Good
  <2>2. QED
    BY <1>2, <2>1
<1>5. CASE s = {}
  BY <1>3, <1>5 DEF IsFold
<1>6. CASE s # {}
  <2> DEFINE p == Pick(s)
  <2>1. p \in s
    BY <1>6, PickIn
  <2>2. g[s] = f[p] + g[s \ {p}]
    BY <1>3, <1>6 DEF IsFold
  <2> HIDE DEF p
  <2>3. g[s] \in Int
    <3>1. f[p] \in Int
      BY <1>3, <2>1
    <3>2. g[s \ {p}] \in Int
      BY <1>4, <2>1
    <3>3. QED
      BY <2>2, <3>1, <3>2
  <2>4. ASSUME NEW x \in s PROVE g[s] = f[x] + g[s \ {x}]
    <3>1. CASE x = p
      BY <2>2, <3>1
    <3>2. CASE x # p
      <4>1. g[s \ {p}] = f[x] + g[(s \ {p}) \ {x}]
        BY <1>4, <2>1, <3>2
      <4>2. g[s \ {x}] = f[p] + g[(s \ {x}) \ {p}]
        BY <1>4, <2>1, <3>2
      <4>3. (s \ {x}) \ {p} = (s \ {p}) \ {x}
        OBVIOUS
      <4>4. g[(s \ {p}) \ {x}] \in Int
        <5>1. Good(s \ {p})
          BY <1>4, <2>1
        <5>2. g[s \ {p}] \in Int
          BY <5>1
        <5>3. (s \ {p}) \ {x} \in SUBSET S /\ (s \ {p}) \ {x} \subseteq s /\ (s \ {p}) \ {x} # s
          BY <1>3, <2>1
        <5>4. Good((s \ {p}) \ {x})
          <6> HIDE DEF Good
          <6>1. QED
            BY <1>2, <5>3
        <5>5. QED
          BY <5>4
      <4>5. f[x] \in Int /\ f[p] \in Int
        BY <1>3, <2>1
      <4>6. g[s] = f[p] + (f[x] + g[(s \ {p}) \ {x}])
        BY <2>2, <4>1
      <4>7. f[x] + g[s \ {x}] = f[x] + (f[p] + g[(s \ {p}) \ {x}])
        BY <4>2, <4>3
      <4> DEFINE v == g[(s \ {p}) \ {x}]
      <4>8. g[s] = f[p] + (f[x] + v) /\ f[x] + g[s \ {x}] = f[x] + (f[p] + v) /\ v \in Int
        BY <4>4, <4>6, <4>7
      <4> HIDE DEF v
      <4>9. QED
        BY <4>5, <4>8
    <3>3. QED
      BY <3>1, <3>2
  <2>5. QED
    BY <1>3, <2>3, <2>4
<1>7. QED
  BY <1>5, <1>6

(* What the sums of the scheduler are computed with: nothing is 0, ...     *)
LEMMA SumEmpty == ASSUME NEW f PROVE SumFunctionOnSet(f, {}) = 0
<1>1. \E g : IsFold(g, f, {}) /\ SumFunctionOnSet(f, {}) = g[{}]
  BY SumIsFold, FS_EmptySet
<1>2. QED
  BY <1>1 DEF IsFold

(* ... a sum of integers is one, ...                                       *)
LEMMA SumIsInt ==
  ASSUME NEW S, IsFiniteSet(S), NEW f, \A x \in S : f[x] \in Int
  PROVE  SumFunctionOnSet(f, S) \in Int
BY SumIsFold, FoldProps

(* ... any element can be taken out, ...                                   *)
LEMMA SumRemove ==
  ASSUME NEW S, IsFiniteSet(S), NEW f, \A x \in S : f[x] \in Int, NEW x \in S
  PROVE  SumFunctionOnSet(f, S) = f[x] + SumFunctionOnSet(f, S \ {x})
<1> DEFINE R == S \ {x}
<1>1. PICK g : IsFold(g, f, S) /\ SumFunctionOnSet(f, S) = g[S]
  BY SumIsFold
<1>2. IsFiniteSet(R) /\ R \subseteq S /\ R \in SUBSET R
  BY FS_Subset
<1>3. PICK h : IsFold(h, f, R) /\ SumFunctionOnSet(f, R) = h[R]
  BY <1>2, SumIsFold
<1>4. h[R] = g[R]
  <2> HIDE DEF R
  <2>1. \A y \in R : f[y] = f[y]
    OBVIOUS
  <2>2. \A s \in SUBSET R : h[s] = g[s]
    BY <1>1, <1>2, <1>3, <2>1, FoldsAgree
  <2>3. QED
    BY <1>2, <2>2
<1>5. g[S] = f[x] + g[R]
  BY <1>1, FoldProps
<1>6. QED
  BY <1>1, <1>3, <1>4, <1>5

(* ... and only the values on the set count.                               *)
LEMMA SumAgree ==
  ASSUME NEW S, IsFiniteSet(S), NEW f, NEW e,
         \A x \in S : f[x] \in Int /\ f[x] = e[x]
  PROVE  SumFunctionOnSet(f, S) = SumFunctionOnSet(e, S)
<1>1. PICK g : IsFold(g, f, S) /\ SumFunctionOnSet(f, S) = g[S]
  BY SumIsFold
<1>2. PICK h : IsFold(h, e, S) /\ SumFunctionOnSet(e, S) = h[S]
  BY SumIsFold
<1>3. S \subseteq S /\ S \in SUBSET S
  OBVIOUS
<1>4. QED
  BY <1>1, <1>2, <1>3, FoldsAgree

(* A sum is at least its smallest summand, times the number of summands.   *)
LEMMA SumAtLeast ==
  ASSUME NEW S, IsFiniteSet(S), NEW c \in Nat,
         NEW f, \A x \in S : f[x] \in Int /\ f[x] >= c
  PROVE  SumFunctionOnSet(f, S) >= c * Cardinality(S)
<1>1. PICK g : IsFold(g, f, S) /\ SumFunctionOnSet(f, S) = g[S]
  BY SumIsFold
<1> DEFINE Bad == {s \in SUBSET S : ~ (g[s] >= c * Cardinality(s))}
<1>2. SUFFICES ASSUME Bad # {} PROVE FALSE
  BY <1>1
<1>3. PICK s \in Bad : \A t \in Bad : t \subseteq s => t = s
  <2>1. Bad \subseteq SUBSET S
    OBVIOUS
  <2> HIDE DEF Bad
  <2>2. QED
    BY <1>2, <2>1, LeastSubset
<1>4. s \in SUBSET S /\ ~ (g[s] >= c * Cardinality(s)) /\ IsFiniteSet(s)
  BY FS_Subset
<1>5. CASE s = {}
  <2>1. g[s] = 0 /\ Cardinality(s) = 0 /\ c * 0 = 0
    BY <1>1, <1>4, <1>5, FS_EmptySet DEF IsFold
  <2>2. QED
    BY <1>4, <2>1
<1>6. CASE s # {}
  <2>1. PICK x \in s : TRUE
    BY <1>6
  <2> DEFINE r == s \ {x}
  <2>2. r \in SUBSET S /\ r \subseteq s /\ r # s
    BY <1>4, <2>1
  <2>3. g[s] = f[x] + g[r] /\ g[r] \in Int
    <3>1. \A t \in SUBSET S : g[t] \in Int /\ \A y \in t : g[t] = f[y] + g[t \ {y}]
      BY <1>1, FoldProps
    <3> HIDE DEF Bad
    <3>2. QED
      BY <1>4, <2>1, <2>2, <3>1
  <2>4. g[r] >= c * Cardinality(r)
    <3> HIDE DEF r
    <3>1. r \notin Bad
      <4> HIDE DEF Bad
      <4>1. QED
        BY <1>3, <2>2
    <3>2. QED
      BY <2>2, <3>1
  <2>5. Cardinality(r) = Cardinality(s) - 1 /\ Cardinality(r) \in Nat
    BY <1>4, <2>1, FS_RemoveElement, FS_CardinalityType, FS_Subset
  <2>6. Cardinality(s) \in Nat /\ Cardinality(s) = Cardinality(r) + 1
    BY <1>4, <2>5, FS_CardinalityType
  <2>7. f[x] \in Int /\ f[x] >= c
    BY <1>4
  <2> HIDE DEF r
  <2>8. c * Cardinality(s) = c * Cardinality(r) + c
    BY <2>5, <2>6
  <2>9. c * Cardinality(r) \in Int
    BY <2>5
  <2>10. QED
    BY <1>4, <2>3, <2>4, <2>7, <2>8, <2>9
<1>7. QED
  BY <1>5, <1>6

(* A total order on a finite set has a least element in every part of it. *)
LEMMA LeastOfOrder ==
  ASSUME NEW L, IsFiniteSet(L), NEW R, NEW E \in SUBSET L, E # {},
         \A u, v \in L : <<u, v>> \in R \/ <<v, u>> \in R,
         \A u, v, w \in L : <<u, v>> \in R /\ <<v, w>> \in R => <<u, w>> \in R
  PROVE  \E l \in E : \A v \in E : <<l, v>> \in R
<1> DEFINE Down(v) == {u \in L : <<u, v>> \in R}
           Downs == {Down(v) : v \in E}
<1>1. Downs \subseteq SUBSET L /\ Downs # {}
  <2>1. \A v \in E : Down(v) \in SUBSET L
    OBVIOUS
  <2> HIDE DEF Down
  <2>2. QED
    BY <2>1
<1>2. PICK s \in Downs : \A t \in Downs : t \subseteq s => t = s
  <2> HIDE DEF Downs
  <2>1. QED
    BY <1>1, LeastSubset
<1>3. PICK l \in E : s = Down(l)
  OBVIOUS
<1>4. ASSUME NEW v \in E, <<v, l>> \in R PROVE <<l, v>> \in R
  <2>1. Down(v) \subseteq Down(l)
    BY <1>4
  <2>2. Down(v) \in Downs
    OBVIOUS
  <2>3. Down(v) = Down(l)
    <3> HIDE DEF Downs, Down
    <3>1. QED
      BY <1>2, <1>3, <2>1, <2>2
  <2>4. <<l, l>> \in R
    OBVIOUS
  <2>5. l \in Down(l)
    BY <2>4
  <2>6. QED
    BY <2>3, <2>5
<1>5. QED
  BY <1>4

-----------------------------------------------------------------------------
(* The types.                                                              *)

(* Whatever handles a task's id handles an accepted task: what makes the   *)
(* types inductive, since it gives every request that is looked up a value.*)
Known ==
  /\ cur # None => request[cur] # None
  /\ sending # None => request[sending] # None
  /\ \A i \in DOMAIN taskQueue : request[taskQueue[i]] # None
  /\ \A t \in waitQueue : request[t] # None
  /\ \A t \in Tasks : gor[t] # "none" => request[t] # None
  /\ \A i \in DOMAIN resourceRelease : request[resourceRelease[i]] # None

(* The rank given to a launch is a natural number.                         *)
LEMMA RankIsNat == Cardinality({t \in Tasks : gor[t] # "none"}) \in Nat
<1>1. IsFiniteSet({t \in Tasks : gor[t] # "none"})
  BY SchedulerAssumption, FS_Subset
<1>2. QED
  BY <1>1, FS_CardinalityType

(* The request of an accepted task has numbers in its fields.              *)
LEMMA RequestType ==
  ASSUME TypeOK, NEW t \in Tasks, request[t] # None
  PROVE /\ request[t] \in Requests
        /\ request[t].cpu \in Int /\ request[t].memory \in Int
        /\ request[t].priority \in Int /\ request[t].retries \in Int
<1>1. request[t] \in Requests
  BY DEF TypeOK
<1>2. request[t] \in TaskRequest
  BY <1>1, SchedulerAssumption
<1>3. QED
  BY <1>1, <1>2 DEF TaskRequest

(* The task in the launcher's hand is an accepted one.                     *)
LEMMA CurKnown ==
  ASSUME TypeOK, Known, lpc # "recv"
  PROVE  /\ cur \in Tasks /\ request[cur] # None
         /\ request[cur].cpu \in Int /\ request[cur].memory \in Int
<1>1. cur \in Tasks
  BY DEF TypeOK
<1>2. request[cur] # None
  BY <1>1, SchedulerAssumption DEF Known
<1>3. QED
  BY <1>1, <1>2, RequestType

(* A launch and a rejection keep the types.                                *)
LEMMA LaunchType ==
  ASSUME TypeOK, Known, lpc # "recv", Launch PROVE TypeOK' /\ Known'
<1>1. cur \in Tasks /\ request[cur] # None
  BY CurKnown
<1>2. launchTime' \in [Tasks -> Nat]
  <2> DEFINE n == Cardinality({t \in Tasks : gor[t] # "none"})
  <2>1. n \in Nat
    BY RankIsNat
  <2>2. launchTime' = [launchTime EXCEPT ![cur] = 1 + n]
    BY DEF Launch
  <2> HIDE DEF n
  <2>3. QED
    BY <2>1, <2>2 DEF TypeOK
<1>3. free' \in [cpu : Int, memory : Int]
  <2>1. free.cpu \in Int /\ free.memory \in Int
    BY DEF TypeOK
  <2>2. QED
    BY <2>1, CurKnown DEF Launch
<1>4. gor' \in [Tasks -> {"none", "exec", "stillborn", "run", "exited",
                          "released", "done"}]
  BY DEF TypeOK, Launch
<1>5. TypeOK'
  BY <1>2, <1>3, <1>4 DEF TypeOK, Launch
<1>6. Known'
  BY <1>1 DEF TypeOK, Known, Launch
<1>7. QED
  BY <1>5, <1>6

LEMMA RejectType ==
  ASSUME TypeOK, Known, lpc # "recv", Reject PROVE TypeOK' /\ Known'
<1>1. cur \in Tasks /\ request[cur] # None
  BY CurKnown
<1>2. priority' \in [Tasks -> Int]
  BY <1>1 DEF TypeOK, Reject
<1>3. state' \in [Tasks -> TaskState]
  BY <1>1 DEF TypeOK, Reject, TaskState, Terminal
<1>4. launchAnswers' \in [Tasks -> Nat]
  <2>1. \/ launchAnswers' = [launchAnswers EXCEPT ![cur] = @ + 1]
        \/ launchAnswers' = launchAnswers
    BY DEF Reject
  <2>2. launchAnswers \in [Tasks -> Nat]
    BY DEF TypeOK
  <2>3. QED
    BY <1>1, <2>1, <2>2
<1>5. waitQueue' \in SUBSET Tasks
  BY <1>1 DEF TypeOK, Reject
<1>6. TypeOK'
  BY <1>2, <1>3, <1>4, <1>5 DEF TypeOK, Reject
<1>7. Known'
  BY <1>1 DEF TypeOK, Known, Reject
<1>8. QED
  BY <1>6, <1>7

(* Every other step keeps them too.                                        *)
LEMMA TypeStep == TypeOK /\ Known /\ [Next]_vars => TypeOK' /\ Known'
<1> SUFFICES ASSUME TypeOK, Known, [Next]_vars PROVE TypeOK' /\ Known'
  OBVIOUS
<1> DEFINE KillType == [Callers -> [Tasks -> {"idle", "start", "term"}]]
           SignalType == [Tasks -> {"none", "term", "kill"}]
           GorType == [Tasks -> {"none", "exec", "stillborn", "run", "exited",
                                 "released", "done"}]
<1>1. ASSUME NEW t \in Tasks, NEW r \in Requests, ScheduleTask(t, r)
      PROVE  TypeOK' /\ Known'
  <2>1. r.priority \in Int /\ r # None
    BY SchedulerAssumption DEF TaskRequest
  <2>2. /\ request' \in [Tasks -> Requests \cup {None}]
        /\ priority' \in [Tasks -> Int]
    BY <1>1, <2>1 DEF TypeOK, ScheduleTask
  <2>3. \A u \in Tasks : request[u] # None => request'[u] # None
    BY <1>1, <2>1 DEF TypeOK, ScheduleTask
  <2>4. request'[sending'] # None
    BY <1>1, <2>1 DEF TypeOK, ScheduleTask
  <2>5. TypeOK'
    BY <1>1, <2>2 DEF TypeOK, ScheduleTask
  <2>6. Known'
    BY <1>1, <2>3, <2>4 DEF TypeOK, Known, ScheduleTask
  <2>7. QED
    BY <2>5, <2>6
<1>2. ASSUME NEW t \in Tasks, ScheduleSend(t) PROVE TypeOK' /\ Known'
  <2>1. taskQueue \in Seq(Tasks) /\ taskQueue' = Append(taskQueue, t)
    BY <1>2 DEF TypeOK, ScheduleSend
  <2>2. /\ taskQueue' \in Seq(Tasks)
        /\ \A i \in DOMAIN taskQueue' : i \in DOMAIN taskQueue \/ taskQueue'[i] = t
        /\ \A i \in DOMAIN taskQueue : taskQueue'[i] = taskQueue[i]
    BY <2>1, AppendPositions
  <2>3. request[t] # None
    BY <1>2, SchedulerAssumption DEF ScheduleSend, Known
  <2>4. TypeOK'
    BY <1>2, <2>2 DEF TypeOK, ScheduleSend, taskVars
  <2>5. Known'
    BY <1>2, <2>2, <2>3 DEF Known, ScheduleSend, taskVars
  <2>6. QED
    BY <2>4, <2>5
<1>3. ASSUME NEW t \in Tasks, QueueWaitingTask(t) PROVE TypeOK' /\ Known'
  <2>1. taskQueue \in Seq(Tasks) /\ taskQueue' = Append(taskQueue, t)
    BY <1>3 DEF TypeOK, QueueWaitingTask
  <2>2. /\ taskQueue' \in Seq(Tasks)
        /\ \A i \in DOMAIN taskQueue' : i \in DOMAIN taskQueue \/ taskQueue'[i] = t
        /\ \A i \in DOMAIN taskQueue : taskQueue'[i] = taskQueue[i]
    BY <2>1, AppendPositions
  <2>3. request[t] # None
    BY <1>3 DEF QueueWaitingTask, Known
  <2>4. TypeOK'
    BY <1>3, <2>2 DEF TypeOK, QueueWaitingTask, taskVars
  <2>5. Known'
    BY <1>3, <2>2, <2>3 DEF Known, QueueWaitingTask, taskVars
  <2>6. QED
    BY <2>4, <2>5
<1>4. ASSUME NEW t \in Tasks, SendRelease(t) PROVE TypeOK' /\ Known'
  <2>1. /\ resourceRelease \in Seq(Tasks)
        /\ resourceRelease' = Append(resourceRelease, t)
    BY <1>4 DEF TypeOK, SendRelease
  <2>2. /\ resourceRelease' \in Seq(Tasks)
        /\ \A i \in DOMAIN resourceRelease' :
             i \in DOMAIN resourceRelease \/ resourceRelease'[i] = t
        /\ \A i \in DOMAIN resourceRelease : resourceRelease'[i] = resourceRelease[i]
    BY <2>1, AppendPositions
  <2>3. request[t] # None /\ gor' \in GorType
    BY <1>4 DEF SendRelease, Known, TypeOK
  <2>4. TypeOK'
    BY <1>4, <2>2, <2>3 DEF TypeOK, SendRelease, taskVars
  <2>5. \A u \in Tasks : gor'[u] # "none" => request[u] # None
    BY <1>4, <2>3 DEF TypeOK, Known, SendRelease
  <2>6. \A i \in DOMAIN resourceRelease' : request[resourceRelease'[i]] # None
    BY <2>2, <2>3 DEF Known
  <2>7. Known'
    BY <1>4, <2>5, <2>6 DEF Known, SendRelease, taskVars
  <2>8. QED
    BY <2>4, <2>7
<1>5. ASSUME NEW t \in Tasks, TaskStep(t), ~ SendRelease(t) PROVE TypeOK' /\ Known'
  <2>1. CASE ExecuteShort(t)
    BY <2>1 DEF TypeOK, Known, ExecuteShort, taskVars
  <2>2. CASE ExecuteLong(t)
    <3>1. gor' \in GorType /\ state' \in [Tasks -> TaskState]
      BY <2>2 DEF TypeOK, ExecuteLong, TaskState
    <3>2. launchAnswers' \in [Tasks -> Nat]
      <4>1. launchAnswers' = [launchAnswers EXCEPT ![t] = @ + 1]
        BY <2>2 DEF ExecuteLong
      <4>2. launchAnswers \in [Tasks -> Nat]
        BY DEF TypeOK
      <4>3. QED
        BY <4>1, <4>2
    <3>3. TypeOK'
      BY <2>2, <3>1, <3>2 DEF TypeOK, ExecuteLong
    <3>4. Known'
      BY <2>2 DEF TypeOK, Known, ExecuteLong
    <3>5. QED
      BY <3>3, <3>4
  <2>3. CASE UpdateShort(t)
    <3>1. gor' \in GorType /\ state' \in [Tasks -> TaskState]
      BY <2>3 DEF TypeOK, UpdateShort, TaskState, Outcomes, Terminal
    <3>2. launchAnswers' \in [Tasks -> Nat]
      <4>1. launchAnswers' = [launchAnswers EXCEPT ![t] = @ + 1]
        BY <2>3 DEF UpdateShort
      <4>2. launchAnswers \in [Tasks -> Nat]
        BY DEF TypeOK
      <4>3. QED
        BY <4>1, <4>2
    <3>3. TypeOK'
      BY <2>3, <3>1, <3>2 DEF TypeOK, UpdateShort
    <3>4. Known'
      BY <2>3 DEF TypeOK, Known, UpdateShort
    <3>5. QED
      BY <3>3, <3>4
  <2>4. CASE UpdateLong(t)
    <3>1. gor' \in GorType /\ state' \in [Tasks -> TaskState]
      BY <2>4 DEF TypeOK, UpdateLong, TaskState, Outcomes, Terminal
    <3>2. completeAnswers' \in [Tasks -> Nat]
      <4>1. completeAnswers' = [completeAnswers EXCEPT ![t] = @ + 1]
        BY <2>4 DEF UpdateLong
      <4>2. completeAnswers \in [Tasks -> Nat]
        BY DEF TypeOK
      <4>3. QED
        BY <4>1, <4>2
    <3>3. TypeOK'
      BY <2>4, <3>1, <3>2 DEF TypeOK, UpdateLong
    <3>4. Known'
      BY <2>4 DEF TypeOK, Known, UpdateLong
    <3>5. QED
      BY <3>3, <3>4
  <2>5. QED
    BY <1>5, <2>1, <2>2, <2>3, <2>4 DEF TaskStep
<1>6. ASSUME NEW t \in Tasks, Exit(t) PROVE TypeOK' /\ Known'
  BY <1>6 DEF TypeOK, Known, Exit, taskVars
<1>7. ASSUME NEW t \in Tasks, KillTask(t) PROVE TypeOK' /\ Known'
  <2>1. kill' \in KillType
    BY <1>7 DEF TypeOK, KillTask, Callers
  <2>2. TypeOK'
    BY <1>7, <2>1 DEF TypeOK, KillTask, taskVars
  <2>3. Known'
    BY <1>7 DEF Known, KillTask, taskVars
  <2>4. QED
    BY <2>2, <2>3
<1>8. ASSUME NEW t \in Tasks, NEW c \in Callers, KillTerm(c, t) PROVE TypeOK' /\ Known'
  <2>1. kill' \in KillType
    <3>1. \/ kill' = [kill EXCEPT ![c][t] = "term"]
          \/ kill' = [kill EXCEPT ![c][t] = "idle"]
      BY <1>8 DEF KillTerm
    <3>2. kill \in KillType
      BY DEF TypeOK
    <3>3. QED
      BY <3>1, <3>2
  <2>2. signal' \in SignalType
    <3>1. \/ signal' = [signal EXCEPT ![t] = IF @ = "none" THEN "term" ELSE @]
          \/ signal' = signal
      BY <1>8 DEF KillTerm
    <3>2. signal \in SignalType
      BY DEF TypeOK
    <3>3. QED
      BY <3>1, <3>2
  <2>3. TypeOK'
    BY <1>8, <2>1, <2>2 DEF TypeOK, KillTerm, taskVars
  <2>4. Known'
    BY <1>8 DEF Known, KillTerm, taskVars
  <2>5. QED
    BY <2>3, <2>4
<1>9. ASSUME NEW t \in Tasks, NEW c \in Callers, KillEnd(c, t) PROVE TypeOK' /\ Known'
  <2>1. kill' \in KillType
    BY <1>9 DEF TypeOK, KillEnd
  <2>2. signal' \in SignalType
    BY <1>9 DEF TypeOK, KillEnd
  <2>3. TypeOK'
    BY <1>9, <2>1, <2>2 DEF TypeOK, KillEnd, taskVars
  <2>4. Known'
    BY <1>9 DEF Known, KillEnd, taskVars
  <2>5. QED
    BY <2>3, <2>4
<1>10. CASE LaunchReceive
  <2>1. taskQueue \in Seq(Tasks) /\ taskQueue # <<>>
    BY <1>10 DEF TypeOK, LaunchReceive
  <2>2. /\ taskQueue' \in Seq(Tasks)
        /\ cur' \in Tasks
        /\ \E j \in DOMAIN taskQueue : cur' = taskQueue[j]
        /\ \A i \in DOMAIN taskQueue' : \E j \in DOMAIN taskQueue : taskQueue'[i] = taskQueue[j]
    BY <1>10, <2>1, TailPositions DEF LaunchReceive
  <2>3. TypeOK'
    BY <1>10, <2>2 DEF TypeOK, LaunchReceive, taskVars
  <2>4. Known'
    BY <1>10, <2>2 DEF Known, LaunchReceive, taskVars
  <2>5. QED
    BY <2>3, <2>4
<1>11. CASE LaunchLock
  <2>1. tries' \in [Tasks -> Nat]
    BY <1>11 DEF TypeOK, LaunchLock
  <2>2. QED
    BY <1>11, <2>1 DEF TypeOK, Known, LaunchLock
<1>12. CASE Clean
  <2>1. resourceRelease \in Seq(Tasks) /\ resourceRelease # <<>>
    BY <1>12 DEF TypeOK, Clean
  <2>2. /\ resourceRelease' \in Seq(Tasks)
        /\ Head(resourceRelease) \in Tasks
        /\ \E j \in DOMAIN resourceRelease : Head(resourceRelease) = resourceRelease[j]
        /\ \A i \in DOMAIN resourceRelease' :
             \E j \in DOMAIN resourceRelease : resourceRelease'[i] = resourceRelease[j]
    BY <1>12, <2>1, TailPositions DEF Clean
  <2>3. request[Head(resourceRelease)] # None
    BY <2>2 DEF Known
  <2>4. free' \in [cpu : Int, memory : Int]
    <3>1. /\ request[Head(resourceRelease)].cpu \in Int
          /\ request[Head(resourceRelease)].memory \in Int
      BY <2>2, <2>3, RequestType
    <3>2. free.cpu \in Int /\ free.memory \in Int
      BY DEF TypeOK
    <3>3. QED
      BY <1>12, <3>1, <3>2 DEF Clean
  <2>5. TypeOK'
    BY <1>12, <2>2, <2>4 DEF TypeOK, Clean, taskVars
  <2>6. Known'
    BY <1>12, <2>2 DEF Known, Clean, taskVars
  <2>7. QED
    BY <2>5, <2>6
<1>13. CASE CleanTimeout
  BY <1>13 DEF TypeOK, Known, CleanTimeout, taskVars
<1>14. CASE PlanReserve \/ CheckReserve
  BY <1>14, LaunchType DEF PlanReserve, CheckReserve
<1>15. CASE PlanReject \/ CheckReject
  BY <1>15, RejectType DEF PlanReject, CheckReject
<1>16. CASE PlanKill
  <2>1. kill' \in KillType
    BY <1>16 DEF TypeOK, PlanKill, Callers
  <2>2. TypeOK'
    BY <1>16, <2>1 DEF TypeOK, PlanKill, taskVars
  <2>3. Known'
    BY <1>16 DEF Known, PlanKill, taskVars
  <2>4. QED
    BY <2>2, <2>3
<1>17. CASE KillsDone
  BY <1>17 DEF TypeOK, Known, KillsDone, taskVars
<1>18. CASE UNCHANGED vars
  BY <1>18 DEF TypeOK, Known, vars
<1>19. QED
  BY <1>1, <1>2, <1>3, <1>4, <1>5, <1>6, <1>7, <1>8, <1>9, <1>10, <1>11, <1>12,
     <1>13, <1>14, <1>15, <1>16, <1>17, <1>18 DEF Next, Launcher, Killer

(* Types and known ids together, for the theorems below.                   *)
LEMMA TypeAndKnown == Spec => [](TypeOK /\ Known)
<1>1. Init => TypeOK /\ Known
  BY SchedulerAssumption DEF Init, TypeOK, Known, TaskState, Terminal, Callers
<1>2. QED
  BY <1>1, TypeStep, PTL DEF Spec

(* Type correctness of scheduler_service: see TypeOK.                      *)
THEOREM TypeCorrect == Spec => []TypeOK
BY TypeAndKnown, PTL

-----------------------------------------------------------------------------
(* plan.go: with requests that ask for nothing negative, the scheduler     *)
(* never gives the last unit of CPU or memory away, for any tasks, kills   *)
(* and timings.  (schedule.go:50 does not ensure the assumption: it        *)
(* refuses only requests with both components negative.)                   *)
THEOREM FreeStaysPositive ==
  ASSUME \A r \in Requests : r.cpu >= 0 /\ r.memory >= 0
  PROVE  Spec => []FreePositive
<1>1. Init => FreePositive
  BY SchedulerAssumption DEF Init, FreePositive
<1>2. TypeOK /\ Known /\ FreePositive /\ [Next]_vars => FreePositive'
  <2> SUFFICES ASSUME TypeOK, Known, FreePositive, [Next]_vars PROVE FreePositive'
    OBVIOUS
  <2>1. free.cpu \in Int /\ free.memory \in Int
    BY DEF TypeOK
  <2>2. CASE Clean
    <3>1. resourceRelease \in Seq(Tasks) /\ resourceRelease # <<>>
      BY <2>2 DEF TypeOK, Clean
    <3>2. /\ Head(resourceRelease) \in Tasks
          /\ \E j \in DOMAIN resourceRelease : Head(resourceRelease) = resourceRelease[j]
      BY <3>1, TailPositions
    <3>3. request[Head(resourceRelease)] # None
      BY <3>2 DEF Known
    <3> DEFINE r == request[Head(resourceRelease)]
    <3>4. r \in Requests /\ r.cpu \in Int /\ r.memory \in Int
      BY <3>2, <3>3, RequestType
    <3>5. r.cpu >= 0 /\ r.memory >= 0
      BY <3>4
    <3>6. free'.cpu = free.cpu + r.cpu /\ free'.memory = free.memory + r.memory
      BY <2>2 DEF Clean
    <3> HIDE DEF r
    <3>7. QED
      BY <2>1, <3>4, <3>5, <3>6 DEF FreePositive
  <2>3. CASE PlanReserve \/ CheckReserve
    <3>1. /\ request[cur].cpu \in Int /\ request[cur].memory \in Int
      BY <2>3, CurKnown DEF PlanReserve, CheckReserve
    <3>2. /\ free.cpu > request[cur].cpu
          /\ free.memory > request[cur].memory
          /\ free'.cpu = free.cpu - request[cur].cpu
          /\ free'.memory = free.memory - request[cur].memory
      BY <2>3 DEF PlanReserve, CheckReserve, Launch, Greater
    <3>3. QED
      BY <2>1, <3>1, <3>2 DEF FreePositive
  <2>4. CASE ~ Clean /\ ~ PlanReserve /\ ~ CheckReserve
    <3>1. free' = free
      BY <2>4 DEF Next, vars, ScheduleTask, ScheduleSend, QueueWaitingTask,
         LaunchReceive, LaunchLock, CleanTimeout, PlanKill, PlanReject,
         KillsDone, CheckReject, Reject, ExecuteShort, ExecuteLong, Exit,
         SendRelease, UpdateShort, UpdateLong, KillTask, KillTerm, KillEnd,
         Launcher, TaskStep, Killer
    <3>2. QED
      BY <3>1 DEF FreePositive
  <2>5. QED
    BY <2>2, <2>3, <2>4
<1>3. QED
  BY <1>1, <1>2, TypeAndKnown, PTL DEF Spec

-----------------------------------------------------------------------------
(* The places of waiting ids are not disturbed by a step that moves no id  *)
(* and changes no task that waits.                                         *)
LEMMA HomesFrame ==
  ASSUME TypeOK, Homes,
         UNCHANGED <<taskQueue, sending, waitQueue, cur>>,
         lpc' = "recv" <=> lpc = "recv",
         \A u \in Tasks : Waiting(u)' <=> Waiting(u)
  PROVE  Homes'
<1>1. \A i \in DOMAIN taskQueue : taskQueue[i] \in Tasks
  BY ElementOfSeq, LenProperties DEF TypeOK
<1>2. waitQueue \subseteq Tasks /\ cur \in Tasks \cup {None} /\ sending \in Tasks \cup {None}
  BY DEF TypeOK
<1>3. QED
  BY <1>1, <1>2 DEF Homes, InQueue

LEMMA HomesStep ==
  TypeOK /\ Known /\ Homes /\ StatesAgree /\ [Next]_vars => Homes'
<1> SUFFICES ASSUME TypeOK, Known, Homes, StatesAgree, [Next]_vars PROVE Homes'
  OBVIOUS
<1>a. /\ taskQueue \in Seq(Tasks)
      /\ \A i \in DOMAIN taskQueue : taskQueue[i] \in Tasks
  BY ElementOfSeq, LenProperties DEF TypeOK
<1>b. /\ waitQueue \subseteq Tasks
      /\ cur \in Tasks \cup {None}
      /\ sending \in Tasks \cup {None}
      /\ None \notin Tasks
  BY SchedulerAssumption DEF TypeOK
<1>1. ASSUME NEW t \in Tasks, NEW r \in Requests, ScheduleTask(t, r) PROVE Homes'
  <2>1. r # None
    BY SchedulerAssumption
  <2>2. \A u \in Tasks : Waiting(u)' <=> u = t \/ Waiting(u)
    BY <1>1, <2>1 DEF Waiting, ScheduleTask, TypeOK, StatesAgree
  <2>3. ~ Waiting(t)
    BY <1>1 DEF Waiting, ScheduleTask
  <2>4. UNCHANGED <<taskQueue, waitQueue, cur, lpc>> /\ sending' = t
    BY <1>1 DEF ScheduleTask
  <2>5. sending = None
    BY <1>1 DEF ScheduleTask, MapLockFree
  <2>6. QED
    BY <1>a, <1>b, <2>2, <2>3, <2>4, <2>5 DEF Homes, InQueue
<1>2. ASSUME NEW t \in Tasks, ScheduleSend(t) \/ QueueWaitingTask(t) PROVE Homes'
  <2>1. /\ taskQueue' = Append(taskQueue, t)
        /\ \/ sending = t /\ sending' = None /\ waitQueue' = waitQueue
           \/ sending' = sending /\ t \in waitQueue /\ waitQueue' = waitQueue \ {t}
        /\ UNCHANGED <<cur, lpc>>
    BY <1>2 DEF ScheduleSend, QueueWaitingTask
  <2>2. \A u \in Tasks : Waiting(u)' <=> Waiting(u)
    BY <1>2 DEF Waiting, ScheduleSend, QueueWaitingTask, taskVars
  <2> DEFINE n == Len(taskQueue) + 1
  <2>3. /\ DOMAIN taskQueue' = DOMAIN taskQueue \cup {n}
        /\ n \notin DOMAIN taskQueue
        /\ \A i \in DOMAIN taskQueue : taskQueue'[i] = taskQueue[i]
        /\ taskQueue'[n] = t
    BY <1>a, <2>1, AppendPositions
  <2> HIDE DEF n
  <2>4. Waiting(t) /\ t # cur /\ \A i \in DOMAIN taskQueue : taskQueue[i] # t
    BY <1>a, <1>b, <2>1 DEF Homes
  <2>5. \A i, j \in DOMAIN taskQueue' : taskQueue'[i] = taskQueue'[j] => i = j
    BY <2>3, <2>4 DEF Homes
  <2>6. \A i \in DOMAIN taskQueue' :
          /\ Waiting(taskQueue[i])'
          /\ taskQueue'[i] \notin waitQueue'
          /\ taskQueue'[i] # cur' /\ taskQueue'[i] # sending'
    BY <1>a, <1>b, <2>1, <2>2, <2>3, <2>4 DEF Homes
  <2>7. \A u \in Tasks :
          Waiting(u)' => sending' = u \/ cur' = u \/ u \in waitQueue' \/ InQueue(u)'
    BY <1>a, <1>b, <2>1, <2>2, <2>3 DEF Homes, InQueue
  <2>8. /\ cur' = None <=> lpc' = "recv"
        /\ sending' # None => Waiting(sending)' /\ sending' # cur' /\ sending' \notin waitQueue'
        /\ cur' # None => Waiting(cur)' /\ cur' \notin waitQueue'
        /\ \A u \in waitQueue' : Waiting(u)'
    BY <1>b, <2>1, <2>2 DEF Homes
  <2>9. QED
    BY <2>5, <2>6, <2>7, <2>8 DEF Homes
<1>3. CASE LaunchReceive
  <2>1. taskQueue # <<>> /\ lpc = "recv" /\ cur = None
    BY <1>3 DEF LaunchReceive, Homes
  <2>2. /\ taskQueue' = Tail(taskQueue) /\ cur' = Head(taskQueue) /\ lpc' = "lock"
        /\ UNCHANGED <<sending, waitQueue>>
    BY <1>3 DEF LaunchReceive
  <2>3. \A u \in Tasks : Waiting(u)' <=> Waiting(u)
    BY <1>3 DEF Waiting, LaunchReceive, taskVars
  <2>4. /\ 1 \in DOMAIN taskQueue /\ cur' = taskQueue[1] /\ cur' \in Tasks
        /\ \A i \in DOMAIN taskQueue' :
             /\ i + 1 \in DOMAIN taskQueue /\ i + 1 # 1 /\ i = (i + 1) - 1
             /\ taskQueue'[i] = taskQueue[i + 1]
        /\ \A j \in DOMAIN taskQueue :
             j # 1 => j - 1 \in DOMAIN taskQueue' /\ taskQueue'[j - 1] = taskQueue[j]
    BY <1>a, <2>1, <2>2, TailPositions
  <2>5. \A i, j \in DOMAIN taskQueue' : taskQueue'[i] = taskQueue'[j] => i = j
    <3> SUFFICES ASSUME NEW i \in DOMAIN taskQueue', NEW j \in DOMAIN taskQueue',
                        taskQueue'[i] = taskQueue'[j]
                 PROVE  i = j
      OBVIOUS
    <3>1. i + 1 = j + 1
      BY <2>4 DEF Homes
    <3>2. QED
      BY <2>4, <3>1
  <2>6. \A i \in DOMAIN taskQueue' :
          /\ Waiting(taskQueue[i])'
          /\ taskQueue'[i] \notin waitQueue'
          /\ taskQueue'[i] # cur' /\ taskQueue'[i] # sending'
    <3> SUFFICES ASSUME NEW i \in DOMAIN taskQueue'
                 PROVE  /\ Waiting(taskQueue[i])'
                        /\ taskQueue'[i] \notin waitQueue'
                        /\ taskQueue'[i] # cur' /\ taskQueue'[i] # sending'
      OBVIOUS
    <3>1. /\ i + 1 \in DOMAIN taskQueue /\ i + 1 # 1
          /\ taskQueue'[i] = taskQueue[i + 1]
      BY <2>4
    <3>2. taskQueue[i + 1] # taskQueue[1]
      BY <2>4, <3>1 DEF Homes
    <3>3. QED
      BY <1>a, <2>2, <2>3, <2>4, <3>1, <3>2 DEF Homes
  <2>7. \A u \in Tasks :
          Waiting(u)' => sending' = u \/ cur' = u \/ u \in waitQueue' \/ InQueue(u)'
    <3> SUFFICES ASSUME NEW u \in Tasks, Waiting(u), InQueue(u), cur' # u
                 PROVE  InQueue(u)'
      BY <2>1, <2>2, <2>3, <1>b DEF Homes
    <3>1. PICK j \in DOMAIN taskQueue : taskQueue[j] = u
      BY DEF InQueue
    <3>2. j - 1 \in DOMAIN taskQueue' /\ taskQueue'[j - 1] = u
      BY <2>4, <3>1
    <3>3. QED
      BY <3>2 DEF InQueue
  <2>8. Waiting(cur)' /\ cur' \notin waitQueue' /\ cur' # sending'
    BY <1>a, <2>2, <2>3, <2>4 DEF Homes
  <2>9. /\ cur' = None <=> lpc' = "recv"
        /\ sending' # None => Waiting(sending)' /\ sending' # cur' /\ sending' \notin waitQueue'
        /\ cur' # None => Waiting(cur)' /\ cur' \notin waitQueue'
        /\ \A u \in waitQueue' : Waiting(u)'
    BY <1>b, <2>2, <2>3, <2>4, <2>8 DEF Homes
  <2>10. QED
    BY <2>5, <2>6, <2>7, <2>9 DEF Homes
<1>4. CASE PlanReserve \/ CheckReserve
  <2>1. lpc # "recv" /\ cur \in Tasks
    BY <1>4 DEF PlanReserve, CheckReserve, TypeOK
  <2>2. /\ gor' = [gor EXCEPT ![cur] = "exec"]
        /\ lpc' = "recv" /\ cur' = None
        /\ UNCHANGED <<request, state, taskQueue, sending, waitQueue>>
    BY <1>4 DEF PlanReserve, CheckReserve, Launch
  <2>3. \A u \in Tasks : Waiting(u)' <=> Waiting(u) /\ u # cur
    BY <2>1, <2>2 DEF Waiting, TypeOK
  <2>4. QED
    BY <1>a, <1>b, <2>1, <2>2, <2>3 DEF Homes, InQueue
<1>5. CASE PlanReject \/ CheckReject
  <2>1. lpc # "recv" /\ cur \in Tasks /\ Waiting(cur)
    BY <1>5, <1>b DEF PlanReject, CheckReject, TypeOK, Homes
  <2>2. /\ lpc' = "recv" /\ cur' = None
        /\ UNCHANGED <<request, gor, taskQueue, sending>>
        /\ \/ state' = [state EXCEPT ![cur] = "Failed"] /\ waitQueue' = waitQueue
           \/ state' = state /\ waitQueue' = waitQueue \cup {cur}
    BY <1>5 DEF PlanReject, CheckReject, Reject
  <2>3. CASE waitQueue' = waitQueue /\ state' = [state EXCEPT ![cur] = "Failed"]
    <3>1. \A u \in Tasks : Waiting(u)' <=> Waiting(u) /\ u # cur
      BY <2>1, <2>2, <2>3 DEF Waiting, TypeOK
    <3>2. QED
      BY <1>a, <1>b, <2>1, <2>2, <2>3, <3>1 DEF Homes, InQueue
  <2>4. CASE state' = state /\ waitQueue' = waitQueue \cup {cur}
    <3>1. \A u \in Tasks : Waiting(u)' <=> Waiting(u)
      BY <2>2, <2>4 DEF Waiting
    <3>2. QED
      BY <1>a, <1>b, <2>1, <2>2, <2>4, <3>1 DEF Homes, InQueue
  <2>5. QED
    BY <2>2, <2>3, <2>4
<1>6. CASE LaunchLock \/ Clean \/ CleanTimeout \/ PlanKill \/ KillsDone
  <2>1. /\ UNCHANGED <<taskQueue, sending, waitQueue, cur, request, gor, state>>
        /\ lpc' # "recv" /\ lpc # "recv"
    BY <1>6 DEF LaunchLock, Clean, CleanTimeout, PlanKill, KillsDone, taskVars
  <2>2. QED
    BY <2>1, HomesFrame DEF Waiting
<1>7. ASSUME NEW t \in Tasks, TaskStep(t) \/ Exit(t) PROVE Homes'
  <2>1. /\ UNCHANGED <<taskQueue, sending, waitQueue, cur, lpc, request>>
        /\ gor[t] # "none" /\ gor'[t] # "none"
        /\ \A u \in Tasks : u # t => gor'[u] = gor[u] /\ state'[u] = state[u]
    BY <1>7 DEF TypeOK, TaskStep, ExecuteShort, ExecuteLong, SendRelease,
       UpdateShort, UpdateLong, Exit, taskVars
  <2>2. QED
    BY <2>1, HomesFrame DEF Waiting
<1>8. ASSUME NEW t \in Tasks, KillTask(t) \/ Killer(t) PROVE Homes'
  <2>1. UNCHANGED <<taskQueue, sending, waitQueue, cur, lpc, request, gor, state>>
    BY <1>8 DEF KillTask, Killer, KillTerm, KillEnd, taskVars
  <2>2. QED
    BY <2>1, HomesFrame DEF Waiting
<1>9. CASE UNCHANGED vars
  BY <1>9, HomesFrame DEF vars, Waiting
<1>10. QED
  BY <1>1, <1>2, <1>3, <1>4, <1>5, <1>6, <1>7, <1>8, <1>9 DEF Next, Launcher

-----------------------------------------------------------------------------
(* A task's state follows its goroutine.                                   *)
LEMMA StatesStep ==
  TypeOK /\ Known /\ Homes /\ StatesAgree /\ [Next]_vars => StatesAgree'
<1> SUFFICES ASSUME TypeOK, Known, Homes, StatesAgree, [Next]_vars
             PROVE  StatesAgree'
  OBVIOUS
<1> DEFINE Follows(u) ==
             /\ request[u] = None => gor[u] = "none" /\ state[u] = "Queued"
             /\ gor[u] = "none" => state[u] \in {"Queued", "Failed"}
             /\ gor[u] \in {"exec", "stillborn"} => state[u] = "Queued"
             /\ gor[u] \in {"run", "exited", "released"} =>
                  state[u] = IF request[u].long THEN "Running" ELSE "Queued"
             /\ gor[u] = "done" => state[u] \in Terminal
             /\ gor[u] = "stillborn" => request[u].long
           Distinct ==
             /\ \A i \in DOMAIN resourceRelease :
                  gor[resourceRelease[i]] \in {"released", "done"}
             /\ \A i, j \in DOMAIN resourceRelease :
                  resourceRelease[i] = resourceRelease[j] => i = j
<1>a. /\ resourceRelease \in Seq(Tasks)
      /\ \A i \in DOMAIN resourceRelease : resourceRelease[i] \in Tasks
  BY ElementOfSeq, LenProperties DEF TypeOK
<1>b. (\A u \in Tasks : Follows(u)) /\ Distinct
  BY DEF StatesAgree
<1>c. ASSUME \A u \in Tasks : Follows(u)', Distinct' PROVE StatesAgree'
  BY <1>c DEF StatesAgree
<1>d. ASSUME UNCHANGED resourceRelease,
             \A u \in Tasks : gor[u] \in {"released", "done"}
                                => gor'[u] \in {"released", "done"}
      PROVE  Distinct'
  BY <1>a, <1>b, <1>d
<1>e. ASSUME UNCHANGED <<request, gor, state, resourceRelease>> PROVE StatesAgree'
  BY <1>b, <1>e DEF StatesAgree
<1> HIDE DEF Follows, Distinct
<1>1. ASSUME NEW t \in Tasks, NEW r \in Requests, ScheduleTask(t, r)
      PROVE  StatesAgree'
  <2>1. /\ UNCHANGED <<gor, state, resourceRelease>>
        /\ r # None /\ request'[t] = r
        /\ \A u \in Tasks : u # t => request'[u] = request[u]
    BY <1>1, SchedulerAssumption DEF ScheduleTask, TypeOK
  <2>2. gor[t] = "none" /\ state[t] = "Queued"
    BY <1>1, <1>b DEF Follows, ScheduleTask
  <2>3. \A u \in Tasks : Follows(u)'
    BY <1>b, <2>1, <2>2 DEF Follows
  <2>4. QED
    BY <1>c, <1>d, <2>1, <2>3
<1>2. CASE PlanReserve \/ CheckReserve
  <2>1. /\ UNCHANGED <<request, state, resourceRelease>>
        /\ gor' = [gor EXCEPT ![cur] = "exec"]
        /\ cur \in Tasks
        /\ request[cur] # None
    BY <1>2, CurKnown DEF PlanReserve, CheckReserve, Launch
  <2>2. Waiting(cur)
    BY <2>1, SchedulerAssumption DEF Homes
  <2>3. /\ gor'[cur] = "exec" /\ gor[cur] = "none" /\ state[cur] = "Queued"
        /\ \A u \in Tasks : u # cur => gor'[u] = gor[u]
    BY <2>1, <2>2 DEF TypeOK, Waiting
  <2>4. \A u \in Tasks : Follows(u)'
    BY <1>b, <2>1, <2>3 DEF Follows
  <2>5. QED
    BY <1>c, <1>d, <2>1, <2>3, <2>4
<1>3. CASE PlanReject \/ CheckReject
  <2>1. /\ UNCHANGED <<request, gor, resourceRelease>>
        /\ state' = [state EXCEPT ![cur] = "Failed"] \/ state' = state
        /\ cur \in Tasks
        /\ request[cur] # None
    BY <1>3, CurKnown DEF PlanReject, CheckReject, Reject
  <2>2. gor[cur] = "none"
    BY <2>1, SchedulerAssumption DEF Homes, Waiting
  <2>3. /\ \A u \in Tasks : u # cur => state'[u] = state[u]
        /\ state'[cur] \in {"Failed", state[cur]}
    BY <2>1 DEF TypeOK
  <2>4. \A u \in Tasks : Follows(u)'
    BY <1>b, <2>1, <2>2, <2>3 DEF Follows
  <2>5. QED
    BY <1>c, <1>d, <2>1, <2>4
<1>4. ASSUME NEW t \in Tasks, SendRelease(t) PROVE StatesAgree'
  <2>1. /\ UNCHANGED <<request, state>>
        /\ gor[t] = "exited"
        /\ gor' = [gor EXCEPT ![t] = "released"]
        /\ resourceRelease' = Append(resourceRelease, t)
    BY <1>4 DEF SendRelease, taskVars
  <2>2. /\ gor'[t] = "released"
        /\ \A u \in Tasks : u # t => gor'[u] = gor[u]
    BY <2>1 DEF TypeOK
  <2>3. \A u \in Tasks : Follows(u)'
    BY <1>b, <2>1, <2>2 DEF Follows
  <2> DEFINE n == Len(resourceRelease) + 1
  <2>4. /\ DOMAIN resourceRelease' = DOMAIN resourceRelease \cup {n}
        /\ \A i \in DOMAIN resourceRelease : resourceRelease'[i] = resourceRelease[i]
        /\ resourceRelease'[n] = t
    BY <1>a, <2>1, AppendPositions
  <2> HIDE DEF n
  <2>5. \A i \in DOMAIN resourceRelease : resourceRelease[i] # t
    BY <1>b, <2>1 DEF Distinct
  <2>6. Distinct'
    BY <1>a, <1>b, <2>2, <2>4, <2>5 DEF Distinct
  <2>7. QED
    BY <1>c, <2>3, <2>6
<1>5. CASE Clean
  <2>1. /\ UNCHANGED <<request, gor, state>>
        /\ resourceRelease # <<>> /\ resourceRelease' = Tail(resourceRelease)
    BY <1>5 DEF Clean, taskVars
  <2>2. \A i \in DOMAIN resourceRelease' :
          /\ i + 1 \in DOMAIN resourceRelease /\ i = (i + 1) - 1
          /\ resourceRelease'[i] = resourceRelease[i + 1]
    BY <1>a, <2>1, TailPositions
  <2>3. \A i \in DOMAIN resourceRelease' :
          gor'[resourceRelease'[i]] \in {"released", "done"}
    BY <1>b, <2>1, <2>2 DEF Distinct
  <2>4. ASSUME NEW i \in DOMAIN resourceRelease', NEW j \in DOMAIN resourceRelease',
               resourceRelease'[i] = resourceRelease'[j]
        PROVE  i = j
    <3>1. i + 1 = j + 1
      BY <1>b, <2>2, <2>4 DEF Distinct
    <3>2. QED
      BY <2>2, <3>1
  <2>5. QED
    BY <1>b, <1>c, <2>1, <2>3, <2>4 DEF Follows, Distinct
<1>6. ASSUME NEW t \in Tasks, TaskStep(t) \/ Exit(t), ~ SendRelease(t)
      PROVE  StatesAgree'
  <2>1. /\ UNCHANGED <<request, resourceRelease>>
        /\ request[t] # None
        /\ \A u \in Tasks : u # t => gor'[u] = gor[u] /\ state'[u] = state[u]
    BY <1>6 DEF TypeOK, Known, TaskStep, ExecuteShort, ExecuteLong,
       UpdateShort, UpdateLong, Exit, taskVars
  <2>2. CASE ExecuteShort(t)
    <3>1. ~ request[t].long /\ gor[t] = "exec" /\ gor'[t] = "run" /\ state'[t] = state[t]
      BY <2>2 DEF ExecuteShort, TypeOK, taskVars
    <3>2. QED
      BY <1>b, <1>c, <1>d, <2>1, <3>1 DEF Follows
  <2>3. CASE ExecuteLong(t)
    <3>1. /\ request[t].long /\ gor[t] = "exec"
          /\ \/ gor'[t] = "run" /\ state'[t] = "Running"
             \/ gor'[t] = "stillborn" /\ state'[t] = state[t]
      BY <2>3 DEF ExecuteLong, TypeOK
    <3>2. QED
      BY <1>b, <1>c, <1>d, <2>1, <3>1 DEF Follows
  <2>4. CASE UpdateShort(t) \/ UpdateLong(t)
    <3>1. gor[t] = "released" /\ gor'[t] = "done" /\ state'[t] \in Terminal
      BY <2>4 DEF UpdateShort, UpdateLong, Outcomes, Terminal, TypeOK
    <3>2. QED
      BY <1>b, <1>c, <1>d, <2>1, <3>1 DEF Follows
  <2>5. CASE Exit(t)
    <3>1. gor[t] = "run" /\ gor'[t] = "exited" /\ state'[t] = state[t]
      BY <2>5 DEF Exit, TypeOK, taskVars
    <3>2. QED
      BY <1>b, <1>c, <1>d, <2>1, <3>1 DEF Follows
  <2>6. QED
    BY <1>6, <2>2, <2>3, <2>4, <2>5 DEF TaskStep
<1>7. ASSUME NEW t \in Tasks, \/ ScheduleSend(t) \/ QueueWaitingTask(t)
                              \/ KillTask(t) \/ Killer(t)
      PROVE  StatesAgree'
  BY <1>e, <1>7 DEF ScheduleSend, QueueWaitingTask, KillTask, Killer, KillTerm,
     KillEnd, taskVars
<1>8. CASE LaunchReceive \/ LaunchLock \/ CleanTimeout \/ PlanKill \/ KillsDone
  BY <1>e, <1>8 DEF LaunchReceive, LaunchLock, CleanTimeout, PlanKill, KillsDone,
     taskVars
<1>9. CASE UNCHANGED vars
  BY <1>e, <1>9 DEF vars
<1>10. QED
  BY <1>1, <1>2, <1>3, <1>4, <1>5, <1>6, <1>7, <1>8, <1>9 DEF Next, Launcher

LEMMA InitIInv == Init => IInv
BY SchedulerAssumption DEF Init, IInv, Homes, StatesAgree, Waiting

(* Types, known ids and the inductive invariant hold together.             *)
LEMMA Everything == Spec => [](TypeOK /\ Known /\ IInv)
<1>1. TypeOK /\ Known /\ IInv /\ [Next]_vars => IInv'
  BY HomesStep, StatesStep DEF IInv
<1>2. QED
  BY <1>1, InitIInv, TypeAndKnown, PTL DEF Spec

(* The inductive invariant: a waiting task's id is in exactly one place    *)
(* and a task's state follows its goroutine.                               *)
THEOREM InductiveInvariant == Spec => []IInv
BY Everything, PTL

-----------------------------------------------------------------------------
(* schedule.go:42: the launcher and a ScheduleTask call can only wait for  *)
(* each other when two more tasks than the queue has room for are waiting  *)
(* to be launched: the one in the launcher's hand, the one being sent and  *)
(* those in the queue, which are different tasks.                          *)
LEMMA WedgeNeedsBacklog == TypeOK /\ Homes => WedgedOnlyByBacklog
<1> SUFFICES ASSUME TypeOK, Homes, Wedged
             PROVE  Cardinality({t \in Tasks : Waiting(t)}) > QueueBuffer + 1
  BY DEF WedgedOnlyByBacklog
<1> DEFINE W == {t \in Tasks : Waiting(t)}
           Rest == (W \ {cur}) \ {sending}
<1>1. /\ taskQueue \in Seq(Tasks) /\ QueueBuffer \in Nat
      /\ IsFiniteSet(W)
      /\ cur \in W /\ sending \in W /\ sending # cur
  BY SchedulerAssumption, FS_Subset DEF TypeOK, Homes, Wedged
<1>2. Len(taskQueue) = QueueBuffer /\ DOMAIN taskQueue = 1 .. Len(taskQueue)
  BY <1>1, LenProperties DEF Wedged
<1>3. \A i \in DOMAIN taskQueue : taskQueue[i] \in Rest
  BY <1>1, <1>2, ElementOfSeq DEF Homes
<1>4. taskQueue \in Seq(Rest)
  BY <1>1, <1>2, <1>3, IsASeq
<1> HIDE DEF W
<1>5. /\ IsFiniteSet(Rest)
      /\ Cardinality(Rest) = Cardinality(W) - 2
      /\ Cardinality(W) \in Nat
  <2>1. IsFiniteSet(W \ {cur}) /\ Cardinality(W \ {cur}) = Cardinality(W) - 1
    BY <1>1, FS_RemoveElement
  <2>2. IsFiniteSet(Rest) /\ Cardinality(Rest) = Cardinality(W \ {cur}) - 1
    BY <1>1, <2>1, FS_RemoveElement
  <2>3. QED
    BY <1>1, <2>1, <2>2, FS_CardinalityType
<1>6. \A i, j \in DOMAIN taskQueue : taskQueue[i] = taskQueue[j] => i = j
  BY DEF Homes
<1> HIDE DEF Rest
<1>7. Len(taskQueue) <= Cardinality(Rest)
  BY <1>4, <1>5, <1>6, DistinctLength
<1>8. Cardinality(W) > QueueBuffer + 1
  BY <1>1, <1>2, <1>5, <1>7
<1>9. QED
  BY <1>8 DEF W

(* schedule.go:42, launch.go:22: the scheduler wedges only under a backlog *)
(* of more than QueueBuffer + 1 tasks, for any tasks, requests and sizes.  *)
THEOREM WedgeIsABacklog == Spec => []WedgedOnlyByBacklog
<1>1. TypeOK /\ IInv => WedgedOnlyByBacklog
  BY WedgeNeedsBacklog DEF IInv
<1>2. QED
  BY <1>1, Everything, PTL

(* schedule.go:42, launch.go:22: a wedge is for good.  No step of a task,  *)
(* of a timer or of a killTask makes room in the queue or lets go of the   *)
(* map lock, so nothing is launched any more.                              *)
THEOREM WedgeIsForGood == Spec => [][Wedged => Wedged' /\ UNCHANGED <<sending, cur>>]_vars
<1>1. TypeOK /\ [Next]_vars => [Wedged => Wedged' /\ UNCHANGED <<sending, cur>>]_vars
  <2> SUFFICES ASSUME TypeOK, Next, Wedged
               PROVE  Wedged' /\ UNCHANGED <<sending, cur>>
    BY DEF vars, Wedged
  <2>1. /\ lpc = "lock" /\ sending # None /\ ~ (Len(taskQueue) < QueueBuffer)
        /\ ~ MapLockFree
    BY SchedulerAssumption DEF Wedged, MapLockFree
  <2>2. UNCHANGED <<lpc, sending, taskQueue, cur>>
    BY <2>1 DEF Next, taskVars, ScheduleTask, ScheduleSend, QueueWaitingTask,
       LaunchReceive, LaunchLock, Clean, CleanTimeout, PlanReserve, PlanKill,
       PlanReject, KillsDone, CheckReserve, CheckReject, ExecuteShort,
       ExecuteLong, Exit, SendRelease, UpdateShort, UpdateLong, KillTask,
       KillTerm, KillEnd, Launcher, TaskStep, Killer
  <2>3. QED
    BY <2>2 DEF Wedged
<1>2. QED
  BY <1>1, TypeCorrect, PTL DEF Spec

(* scheduler_utils.go:193, launch.go:62: a final state stays, because only *)
(* a waiting task is given up and only a task whose release was sent gets  *)
(* its outcome.                                                            *)
THEOREM FinalStatesStay == Spec => TerminalIsFinal
<1>1. TypeOK /\ Known /\ IInv /\ [Next]_vars
        => [\A t \in Tasks : state[t] \in Terminal => state'[t] = state[t]]_state
  <2> SUFFICES ASSUME TypeOK, Known, Homes, StatesAgree, [Next]_vars,
                      NEW t \in Tasks, state[t] \in Terminal
               PROVE  state'[t] = state[t]
    BY DEF IInv
  <2>1. state[t] \notin {"Queued", "Running"}
    BY DEF Terminal
  <2>2. CASE PlanReject \/ CheckReject
    <3>1. cur \in Tasks /\ request[cur] # None
      BY <2>2, CurKnown DEF PlanReject, CheckReject
    <3>2. cur # t
      BY <2>1, <3>1, SchedulerAssumption DEF Homes, Waiting
    <3>3. QED
      BY <2>2, <3>1, <3>2 DEF PlanReject, CheckReject, Reject, TypeOK
  <2>3. ASSUME NEW u \in Tasks, ExecuteLong(u) \/ UpdateShort(u) \/ UpdateLong(u)
        PROVE  state'[t] = state[t]
    <3>1. gor[u] \in {"exec", "released"}
      BY <2>3 DEF ExecuteLong, UpdateShort, UpdateLong
    <3>2. u # t
      BY <2>1, <3>1 DEF StatesAgree
    <3>3. QED
      BY <2>3, <3>2 DEF ExecuteLong, UpdateShort, UpdateLong, TypeOK
  <2>4. CASE /\ ~ PlanReject /\ ~ CheckReject
             /\ ~ \E u \in Tasks : ExecuteLong(u) \/ UpdateShort(u) \/ UpdateLong(u)
    BY <2>4 DEF Next, vars, taskVars, ScheduleTask, ScheduleSend, QueueWaitingTask,
       LaunchReceive, LaunchLock, Clean, CleanTimeout, PlanKill, PlanReserve,
       CheckReserve, Launch, KillsDone, ExecuteShort, Exit, SendRelease,
       KillTask, KillTerm, KillEnd, Launcher, TaskStep, Killer
  <2>5. QED
    BY <2>2, <2>3, <2>4
<1>2. QED
  BY <1>1, Everything, PTL DEF Spec, TerminalIsFinal

(* schedule.go, launch.go, service.go:99: no accepted task's id is lost or *)
(* in two places, so no task is launched twice.                            *)
THEOREM NoTaskLostOrDoubled == Spec => []InOnePlace
<1>1. TypeOK /\ Known /\ IInv => InOnePlace
  <2> SUFFICES ASSUME TypeOK, Known, Homes, StatesAgree PROVE InOnePlace
    BY DEF IInv
  <2>1. \A t \in Tasks : InQueue(t) => /\ Waiting(t) /\ t \notin waitQueue
                                       /\ t # cur /\ t # sending
    BY DEF Homes, InQueue
  <2>2. \A t \in Tasks : t # None
    BY SchedulerAssumption
  <2>3. ASSUME NEW t \in Tasks, request[t] = None PROVE Places(t) = {}
    BY <2>1, <2>2, <2>3 DEF Places, Homes, StatesAgree, Waiting, Started, GaveUp
  <2>4. ASSUME NEW t \in Tasks, request[t] # None PROVE Cardinality(Places(t)) = 1
    <3>1. CASE Waiting(t)
      <4>1. \/ sending = t /\ cur # t /\ t \notin waitQueue /\ ~ InQueue(t)
            \/ sending # t /\ cur = t /\ t \notin waitQueue /\ ~ InQueue(t)
            \/ sending # t /\ cur # t /\ t \in waitQueue /\ ~ InQueue(t)
            \/ sending # t /\ cur # t /\ t \notin waitQueue /\ InQueue(t)
        BY <2>1, <2>2, <3>1 DEF Homes
      <4>2. ~ Started(t) /\ ~ GaveUp(t)
        BY <3>1 DEF Waiting, Started, GaveUp
      <4>3. \E p : Places(t) = {p}
        BY <4>1, <4>2 DEF Places
      <4>4. QED
        BY <4>3, FS_Singleton
    <3>2. CASE ~ Waiting(t)
      <4>1. sending # t /\ cur # t /\ t \notin waitQueue /\ ~ InQueue(t)
        BY <2>1, <2>2, <3>2 DEF Homes
      <4>2. \/ Started(t) /\ ~ GaveUp(t)
            \/ ~ Started(t) /\ GaveUp(t)
        BY <2>4, <3>2 DEF Started, GaveUp, Waiting, StatesAgree
      <4>3. \E p : Places(t) = {p}
        BY <4>1, <4>2 DEF Places
      <4>4. QED
        BY <4>3, FS_Singleton
    <3>3. QED
      BY <3>1, <3>2
  <2>5. QED
    BY <2>3, <2>4 DEF InOnePlace, Accepted, Homes
<1>2. QED
  BY <1>1, Everything, PTL

(* launch.go:63, execute.go: each callback is made once and for the reason *)
(* AnsweredOnce gives.                                                     *)
LEMMA AnsweredFrame ==
  ASSUME AnsweredOnce, UNCHANGED <<launchAnswers, completeAnswers>>,
         \A u \in Tasks :
           /\ GaveUp(u)' <=> GaveUp(u)
           /\ \/ gor'[u] = gor[u] /\ request'[u] = request[u]
              \/ {gor[u], gor'[u]} \subseteq {"run", "exited", "released"}
                 /\ request'[u] = request[u]
              \/ gor[u] = "none" /\ gor'[u] \in {"none", "exec"}
              \/ gor[u] = "exec" /\ gor'[u] = "run" /\ ~ request[u].long
                 /\ request'[u] = request[u]
  PROVE  AnsweredOnce'
BY DEF AnsweredOnce, Started, GaveUp

LEMMA AnsweredStep ==
  TypeOK /\ Known /\ IInv /\ AnsweredOnce /\ [Next]_vars => AnsweredOnce'
<1> SUFFICES ASSUME TypeOK, Known, Homes, StatesAgree, AnsweredOnce, [Next]_vars
             PROVE  AnsweredOnce'
  BY DEF IInv
<1>1. ASSUME NEW t \in Tasks, NEW r \in Requests, ScheduleTask(t, r)
      PROVE  AnsweredOnce'
  <2>1. /\ UNCHANGED <<gor, state, launchAnswers, completeAnswers>>
        /\ \A u \in Tasks : u # t => request'[u] = request[u]
        /\ gor[t] = "none"
    BY <1>1 DEF ScheduleTask, TypeOK, StatesAgree
  <2>2. QED
    BY <2>1, AnsweredFrame DEF GaveUp
<1>2. CASE PlanReserve \/ CheckReserve
  <2>1. cur \in Tasks /\ request[cur] # None
    BY <1>2, CurKnown DEF PlanReserve, CheckReserve
  <2>2. gor[cur] = "none" /\ state[cur] = "Queued"
    BY <2>1, SchedulerAssumption DEF Homes, Waiting
  <2>3. /\ UNCHANGED <<request, state, launchAnswers, completeAnswers>>
        /\ gor'[cur] = "exec" /\ \A u \in Tasks : u # cur => gor'[u] = gor[u]
    BY <1>2, <2>1 DEF PlanReserve, CheckReserve, Launch, TypeOK
  <2>4. QED
    BY <2>2, <2>3, AnsweredFrame DEF GaveUp
<1>3. CASE PlanReject \/ CheckReject
  <2>1. cur \in Tasks /\ request[cur] # None
    BY <1>3, CurKnown DEF PlanReject, CheckReject
  <2>2. gor[cur] = "none" /\ state[cur] = "Queued"
    BY <2>1, SchedulerAssumption DEF Homes, Waiting
  <2>3. launchAnswers[cur] = 0
    BY <2>1, <2>2 DEF AnsweredOnce, Started, GaveUp
  <2>4. /\ UNCHANGED <<request, gor, completeAnswers>>
        /\ \/ UNCHANGED <<state, launchAnswers>>
           \/ /\ state' = [state EXCEPT ![cur] = "Failed"]
              /\ launchAnswers' = [launchAnswers EXCEPT ![cur] = @ + 1]
    BY <1>3 DEF PlanReject, CheckReject, Reject
  <2>5. \/ UNCHANGED <<state, launchAnswers>>
        \/ /\ state'[cur] = "Failed" /\ launchAnswers'[cur] = 1
           /\ \A u \in Tasks : u # cur => /\ state'[u] = state[u]
                                          /\ launchAnswers'[u] = launchAnswers[u]
    <3>1. state \in [Tasks -> TaskState] /\ launchAnswers \in [Tasks -> Nat]
      BY DEF TypeOK
    <3>2. QED
      BY <2>1, <2>3, <2>4, <3>1
  <2>6. QED
    BY <2>2, <2>4, <2>5 DEF AnsweredOnce, Started, GaveUp
<1>4. ASSUME NEW t \in Tasks, ExecuteLong(t) PROVE AnsweredOnce'
  <2>1. gor[t] = "exec" /\ request[t].long /\ ~ GaveUp(t)
    BY <1>4 DEF ExecuteLong, GaveUp
  <2>2. launchAnswers[t] = 0 /\ completeAnswers[t] = 0
    BY <2>1 DEF AnsweredOnce, Started
  <2>3. /\ UNCHANGED <<request, completeAnswers>>
        /\ gor'[t] \in {"run", "stillborn"} /\ launchAnswers'[t] = 1
        /\ \A u \in Tasks : u # t => /\ gor'[u] = gor[u] /\ state'[u] = state[u]
                                     /\ launchAnswers'[u] = launchAnswers[u]
    <3>1. /\ state \in [Tasks -> TaskState] /\ launchAnswers \in [Tasks -> Nat]
          /\ gor \in [Tasks -> {"none", "exec", "stillborn", "run", "exited",
                                "released", "done"}]
      BY DEF TypeOK
    <3>2. QED
      BY <1>4, <2>2, <3>1 DEF ExecuteLong
  <2>4. QED
    BY <2>1, <2>2, <2>3 DEF AnsweredOnce, Started, GaveUp
<1>5. ASSUME NEW t \in Tasks, UpdateShort(t) PROVE AnsweredOnce'
  <2>1. gor[t] = "released" /\ ~ request[t].long /\ ~ GaveUp(t)
    BY <1>5 DEF UpdateShort, GaveUp
  <2>2. launchAnswers[t] = 0 /\ completeAnswers[t] = 0
    BY <2>1 DEF AnsweredOnce, Started
  <2>3. /\ UNCHANGED <<request, completeAnswers>>
        /\ gor'[t] = "done" /\ launchAnswers'[t] = 1
        /\ \A u \in Tasks : u # t => /\ gor'[u] = gor[u] /\ state'[u] = state[u]
                                     /\ launchAnswers'[u] = launchAnswers[u]
    <3>1. /\ state \in [Tasks -> TaskState] /\ launchAnswers \in [Tasks -> Nat]
          /\ gor \in [Tasks -> {"none", "exec", "stillborn", "run", "exited",
                                "released", "done"}]
      BY DEF TypeOK
    <3>2. QED
      BY <1>5, <2>2, <3>1 DEF UpdateShort
  <2>4. QED
    BY <2>1, <2>2, <2>3 DEF AnsweredOnce, Started, GaveUp
<1>6. ASSUME NEW t \in Tasks, UpdateLong(t) PROVE AnsweredOnce'
  <2>1. gor[t] = "released" /\ request[t].long /\ ~ GaveUp(t)
    BY <1>6 DEF UpdateLong, GaveUp
  <2>2. launchAnswers[t] = 1 /\ completeAnswers[t] = 0
    BY <2>1 DEF AnsweredOnce, Started
  <2>3. /\ UNCHANGED <<request, launchAnswers>>
        /\ gor'[t] = "done" /\ completeAnswers'[t] = 1
        /\ \A u \in Tasks : u # t => /\ gor'[u] = gor[u] /\ state'[u] = state[u]
                                     /\ completeAnswers'[u] = completeAnswers[u]
    <3>1. /\ state \in [Tasks -> TaskState] /\ completeAnswers \in [Tasks -> Nat]
          /\ gor \in [Tasks -> {"none", "exec", "stillborn", "run", "exited",
                                "released", "done"}]
      BY DEF TypeOK
    <3>2. QED
      BY <1>6, <2>2, <3>1 DEF UpdateLong
  <2>4. QED
    BY <2>1, <2>2, <2>3 DEF AnsweredOnce, Started, GaveUp
<1>7. ASSUME NEW t \in Tasks, ExecuteShort(t) \/ Exit(t) \/ SendRelease(t)
      PROVE  AnsweredOnce'
  <2>1. /\ UNCHANGED <<request, state, launchAnswers, completeAnswers>>
        /\ \A u \in Tasks : u # t => gor'[u] = gor[u]
        /\ \/ gor[t] = "exec" /\ gor'[t] = "run" /\ ~ request[t].long
           \/ gor[t] = "run" /\ gor'[t] = "exited"
           \/ gor[t] = "exited" /\ gor'[t] = "released"
    BY <1>7 DEF ExecuteShort, Exit, SendRelease, TypeOK, taskVars
  <2>2. QED
    BY <2>1, AnsweredFrame DEF GaveUp
<1>8. CASE /\ ~ \E t \in Tasks : \/ \E r \in Requests : ScheduleTask(t, r)
                                 \/ TaskStep(t) \/ Exit(t)
           /\ ~ PlanReserve /\ ~ CheckReserve /\ ~ PlanReject /\ ~ CheckReject
  <2>1. UNCHANGED <<request, state, gor, launchAnswers, completeAnswers>>
    BY <1>8 DEF Next, vars, taskVars, ScheduleSend, QueueWaitingTask,
       LaunchReceive, LaunchLock, Clean, CleanTimeout, PlanKill, KillsDone,
       KillTask, KillTerm, KillEnd, Launcher, Killer
  <2>2. QED
    BY <2>1, AnsweredFrame DEF GaveUp
<1>9. QED
  BY <1>1, <1>2, <1>3, <1>4, <1>5, <1>6, <1>7, <1>8 DEF TaskStep

THEOREM CallbacksOnce == Spec => []AnsweredOnce
<1>1. Init => AnsweredOnce
  BY DEF Init, AnsweredOnce, Started, GaveUp
<1>2. QED
  BY <1>1, AnsweredStep, Everything, PTL DEF Spec

(* launch.go, execute.go, schedule.go: an accepted task is in one place    *)
(* and its callers are told once, for any tasks, requests and capacities.  *)
THEOREM TasksHandledOnce == Spec => []HandledOnce
<1>1. InOnePlace /\ AnsweredOnce => HandledOnce
  BY DEF HandledOnce
<1>2. QED
  BY <1>1, NoTaskLostOrDoubled, CallbacksOnce, PTL

-----------------------------------------------------------------------------
(* The ledger: what is free and what is held, as sums.                     *)

Cpu == [t \in Accepted |-> request[t].cpu]
Mem == [t \in Accepted |-> request[t].memory]

(* Only accepted tasks hold something, and their requests are numbers.     *)
LEMMA HoldersKnown ==
  ASSUME TypeOK, Known
  PROVE  /\ Holders \subseteq Accepted /\ IsFiniteSet(Accepted) /\ IsFiniteSet(Holders)
         /\ \A t \in Accepted : Cpu[t] = request[t].cpu /\ Mem[t] = request[t].memory
         /\ \A t \in Accepted : Cpu[t] \in Int /\ Mem[t] \in Int
<1>1. Holders \subseteq Accepted
  BY DEF Holders, Holding, Known, Accepted
<1>2. IsFiniteSet(Accepted)
  BY SchedulerAssumption, FS_Subset DEF Accepted
<1>3. IsFiniteSet(Holders)
  BY <1>1, <1>2, FS_Subset
<1>4. \A t \in Accepted : Cpu[t] = request[t].cpu /\ Mem[t] = request[t].memory
  BY DEF Cpu, Mem
<1>5. \A t \in Accepted : Cpu[t] \in Int /\ Mem[t] \in Int
  <2> SUFFICES ASSUME NEW t \in Accepted PROVE Cpu[t] \in Int /\ Mem[t] \in Int
    OBVIOUS
  <2>1. t \in Tasks /\ request[t] # None
    BY DEF Accepted
  <2>2. QED
    BY <1>4, <2>1, RequestType
<1>6. QED
  BY <1>1, <1>2, <1>3, <1>4, <1>5

LEMMA LedgerAsSums ==
  LedgerBalances <=> /\ free.cpu + SumFunctionOnSet(Cpu, Holders) = TotalCPU
                     /\ free.memory + SumFunctionOnSet(Mem, Holders) = TotalMemory
BY DEF LedgerBalances, SumCPU, SumMemory, Cpu, Mem

(* The ledger does not change with who asked, only with who holds.         *)
LEMMA LedgerFrame ==
  ASSUME TypeOK, Known, LedgerBalances, free' = free, Holders' = Holders,
         \A t \in Holders : request'[t] = request[t] 
  PROVE  LedgerBalances'
<1>1. \A t \in Holders : /\ Cpu[t] \in Int /\ Cpu[t] = Cpu'[t]
                         /\ Mem[t] \in Int /\ Mem[t] = Mem'[t]
  <2> SUFFICES ASSUME NEW t \in Holders
               PROVE  /\ Cpu[t] \in Int /\ Cpu[t] = Cpu'[t]
                      /\ Mem[t] \in Int /\ Mem[t] = Mem'[t]
    OBVIOUS
  <2>1. t \in Accepted
    BY HoldersKnown
  <2>2. t \in Accepted'
    BY <2>1 DEF Accepted
  <2>3. Cpu'[t] = request[t].cpu /\ Mem'[t] = request[t].memory
    BY <2>2 DEF Cpu, Mem
  <2>4. QED
    BY <2>1, <2>3, HoldersKnown
<1>2. /\ SumFunctionOnSet(Cpu, Holders) = SumFunctionOnSet(Cpu', Holders)
      /\ SumFunctionOnSet(Mem, Holders) = SumFunctionOnSet(Mem', Holders)
  BY <1>1, HoldersKnown, SumAgree
<1>3. QED
  BY <1>2, LedgerAsSums DEF LedgerBalances, SumCPU, SumMemory, Cpu, Mem

(* Draining the release channel takes the share of the task at its head,   *)
(* which has no other release there.                                       *)
LEMMA HeadHolds ==
  ASSUME TypeOK, Known, StatesAgree, Clean
  PROVE  /\ Head(resourceRelease) \in Holders
         /\ Holders' = Holders \ {Head(resourceRelease)}
         /\ gor[Head(resourceRelease)] \in {"released", "done"}
<1>1. /\ resourceRelease \in Seq(Tasks) /\ resourceRelease # <<>>
      /\ resourceRelease' = Tail(resourceRelease)
      /\ UNCHANGED <<request, gor>>
  BY DEF TypeOK, Clean, taskVars
<1>h. PICK h \in Tasks : h = Head(resourceRelease)
  BY <1>1, TailPositions
<1>2. /\ 1 \in DOMAIN resourceRelease /\ h = resourceRelease[1]
      /\ \A i \in DOMAIN resourceRelease' :
           /\ i + 1 \in DOMAIN resourceRelease /\ i + 1 # 1
           /\ resourceRelease'[i] = resourceRelease[i + 1]
      /\ \A j \in DOMAIN resourceRelease :
           j # 1 => j - 1 \in DOMAIN resourceRelease' /\ resourceRelease'[j - 1] = resourceRelease[j]
  BY <1>1, <1>h, TailPositions
<1>3. gor[h] \in {"released", "done"}
  BY <1>2 DEF StatesAgree
<1>4. h \in Holders
  BY <1>2 DEF Holders, Holding
<1>5. ~ Holding(h)'
  <2>1. \A i \in DOMAIN resourceRelease' : resourceRelease'[i] # h
    BY <1>2 DEF StatesAgree
  <2>2. gor'[h] \notin {"exec", "stillborn", "run", "exited"}
    BY <1>1, <1>3
  <2>3. QED
    BY <2>1, <2>2 DEF Holding
<1>6. ASSUME NEW t \in Tasks, t # h PROVE Holding(t)' <=> Holding(t)
  <2>1. (\E i \in DOMAIN resourceRelease' : resourceRelease'[i] = t)
          <=> (\E i \in DOMAIN resourceRelease : resourceRelease[i] = t)
    BY <1>2, <1>6
  <2>2. QED
    BY <1>1, <2>1 DEF Holding
<1>7. Holders' = Holders \ {h}
  BY <1>5, <1>6 DEF Holders
<1>8. QED
  BY <1>h, <1>3, <1>4, <1>7

(* A launch adds the task in hand, which held nothing.                     *)
LEMMA LaunchHolds ==
  ASSUME TypeOK, Known, Homes, StatesAgree, lpc # "recv", Launch
  PROVE  /\ cur \in Accepted /\ cur \notin Holders /\ ~ Started(cur)
         /\ Holders' = Holders \cup {cur}
<1>1. cur \in Tasks /\ request[cur] # None
  BY CurKnown
<1>2. gor[cur] = "none"
  BY <1>1, SchedulerAssumption DEF Homes, Waiting
<1>3. gor' = [gor EXCEPT ![cur] = "exec"] /\ UNCHANGED resourceRelease
  BY DEF Launch
<1>4. gor'[cur] = "exec" /\ \A t \in Tasks : t # cur => gor'[t] = gor[t]
  BY <1>1, <1>3 DEF TypeOK
<1>5. ~ Holding(cur)
  BY <1>2 DEF Holding, StatesAgree
<1>6. \A t \in Tasks : Holding(t)' <=> Holding(t) \/ t = cur
  BY <1>1, <1>3, <1>4 DEF Holding
<1>7. QED
  BY <1>1, <1>2, <1>5, <1>6 DEF Holders, Accepted, Started

(* Every other step leaves the shares as they are.                         *)
LEMMA OthersHold ==
  ASSUME TypeOK, Known, Homes, StatesAgree, [Next]_vars,
         ~ Clean, ~ PlanReserve, ~ CheckReserve
  PROVE  /\ Holders' = Holders /\ free' = free
         /\ \A t \in Tasks : Started(t)' <=> Started(t)
<1> SUFFICES /\ \A t \in Tasks : Holding(t)' <=> Holding(t)
             /\ free' = free
             /\ \A t \in Tasks : Started(t)' <=> Started(t)
  BY DEF Holders
<1>1. ASSUME NEW t \in Tasks, SendRelease(t)
      PROVE  /\ \A u \in Tasks : Holding(u)' <=> Holding(u)
             /\ free' = free
             /\ \A u \in Tasks : Started(u)' <=> Started(u)
  <2>1. /\ gor[t] = "exited" /\ gor'[t] = "released" /\ free' = free
        /\ \A u \in Tasks : u # t => gor'[u] = gor[u]
        /\ resourceRelease' = Append(resourceRelease, t)
        /\ resourceRelease \in Seq(Tasks)
    BY <1>1 DEF SendRelease, TypeOK
  <2> DEFINE n == Len(resourceRelease) + 1
  <2>2. /\ DOMAIN resourceRelease' = DOMAIN resourceRelease \cup {n}
        /\ \A i \in DOMAIN resourceRelease : resourceRelease'[i] = resourceRelease[i]
        /\ resourceRelease'[n] = t
    BY <2>1, AppendPositions
  <2> HIDE DEF n
  <2>3. ASSUME NEW u \in Tasks, u # t PROVE Holding(u)' <=> Holding(u)
    <3>1. (\E i \in DOMAIN resourceRelease' : resourceRelease'[i] = u)
            <=> (\E i \in DOMAIN resourceRelease : resourceRelease[i] = u)
      BY <2>2, <2>3
    <3>2. QED
      BY <2>1, <2>3, <3>1 DEF Holding
  <2>4. Holding(t) /\ Holding(t)'
    BY <2>1, <2>2 DEF Holding
  <2>5. QED
    BY <2>1, <2>3, <2>4 DEF Started
<1>2. ASSUME NEW t \in Tasks, TaskStep(t) \/ Exit(t), ~ SendRelease(t)
      PROVE  /\ \A u \in Tasks : Holding(u)' <=> Holding(u)
             /\ free' = free
             /\ \A u \in Tasks : Started(u)' <=> Started(u)
  <2>1. /\ free' = free /\ resourceRelease' = resourceRelease
        /\ \A u \in Tasks : u # t => gor'[u] = gor[u]
        /\ \/ {gor[t], gor'[t]} \subseteq {"exec", "stillborn", "run", "exited"}
           \/ {gor[t], gor'[t]} \subseteq {"released", "done"}
    BY <1>2 DEF TaskStep, ExecuteShort, ExecuteLong, UpdateShort, UpdateLong, Exit,
       TypeOK
  <2>2. QED
    BY <2>1 DEF Holding, Started
<1>3. CASE ~ \E t \in Tasks : TaskStep(t) \/ Exit(t)
  <2>1. UNCHANGED <<free, gor, resourceRelease>>
    BY <1>3 DEF Next, vars, ScheduleTask, ScheduleSend, QueueWaitingTask,
       LaunchReceive, LaunchLock, CleanTimeout, PlanKill, PlanReject,
       KillsDone, CheckReject, Reject, KillTask, KillTerm, KillEnd,
       Launcher, Killer
  <2>2. QED
    BY <2>1 DEF Holding, Started
<1>4. QED
  BY <1>1, <1>2, <1>3

(* The request of an accepted task never changes.                          *)
LEMMA RequestsStay ==
  ASSUME TypeOK, [Next]_vars
  PROVE  \A t \in Accepted : request'[t] = request[t]
<1>1. CASE \E t \in Tasks, r \in Requests : ScheduleTask(t, r)
  BY <1>1 DEF ScheduleTask, Accepted, TypeOK
<1>2. CASE ~ \E t \in Tasks, r \in Requests : ScheduleTask(t, r)
  <2>1. request' = request
    BY <1>2 DEF Next, vars, taskVars, ScheduleSend, QueueWaitingTask,
       LaunchReceive, LaunchLock, Clean, CleanTimeout, PlanKill, PlanReserve,
       PlanReject, KillsDone, CheckReserve, CheckReject, Launch, Reject,
       TaskStep, ExecuteShort, ExecuteLong, SendRelease, UpdateShort, UpdateLong,
       Exit, KillTask, KillTerm, KillEnd, Launcher, Killer
  <2>2. QED
    BY <2>1
<1>3. QED
  BY <1>1, <1>2

LEMMA LedgerStep ==
  TypeOK /\ Known /\ IInv /\ LedgerBalances /\ [Next]_vars => LedgerBalances'
<1> SUFFICES ASSUME TypeOK, Known, Homes, StatesAgree, LedgerBalances, [Next]_vars
             PROVE  LedgerBalances'
  BY DEF IInv
<1>0. free.cpu \in Int /\ free.memory \in Int
  BY DEF TypeOK
<1>1. CASE Clean
  <2> DEFINE h == Head(resourceRelease)
  <2>1. h \in Holders /\ Holders' = Holders \ {h}
    BY <1>1, HeadHolds
  <2>2. /\ h \in Accepted
        /\ Cpu[h] = request[h].cpu /\ Mem[h] = request[h].memory
        /\ Cpu[h] \in Int /\ Mem[h] \in Int
        /\ free'.cpu = free.cpu + request[h].cpu
        /\ free'.memory = free.memory + request[h].memory
        /\ request' = request
    BY <1>1, <2>1, HoldersKnown DEF Clean, taskVars
  <2> HIDE DEF h
  <2>3. /\ SumFunctionOnSet(Cpu, Holders) = Cpu[h] + SumFunctionOnSet(Cpu, Holders \ {h})
        /\ SumFunctionOnSet(Mem, Holders) = Mem[h] + SumFunctionOnSet(Mem, Holders \ {h})
        /\ SumFunctionOnSet(Cpu, Holders \ {h}) \in Int
        /\ SumFunctionOnSet(Mem, Holders \ {h}) \in Int
    <3>1. IsFiniteSet(Holders \ {h})
      BY HoldersKnown, FS_Subset
    <3>2. \A t \in Holders : Cpu[t] \in Int /\ Mem[t] \in Int
      BY HoldersKnown
    <3>3. QED
      BY <2>1, <3>1, <3>2, HoldersKnown, SumRemove, SumIsInt
  <2>4. /\ free'.cpu + SumFunctionOnSet(Cpu, Holders') = TotalCPU
        /\ free'.memory + SumFunctionOnSet(Mem, Holders') = TotalMemory
    BY <1>0, <2>1, <2>2, <2>3, LedgerAsSums
  <2>5. QED
    BY <2>2, <2>4 DEF LedgerBalances, SumCPU, SumMemory, Cpu, Mem, Accepted
<1>2. CASE PlanReserve \/ CheckReserve
  <2>1. Launch /\ lpc # "recv"
    BY <1>2 DEF PlanReserve, CheckReserve
  <2>2. cur \in Accepted /\ cur \notin Holders /\ Holders' = Holders \cup {cur}
    BY <2>1, LaunchHolds
  <2>3. /\ Cpu[cur] = request[cur].cpu /\ Mem[cur] = request[cur].memory
        /\ Cpu[cur] \in Int /\ Mem[cur] \in Int
        /\ free'.cpu = free.cpu - request[cur].cpu
        /\ free'.memory = free.memory - request[cur].memory
        /\ request' = request
    BY <2>1, <2>2, HoldersKnown DEF Launch
  <2> DEFINE H == Holders \cup {cur}
  <2>4. /\ SumFunctionOnSet(Cpu, H) = Cpu[cur] + SumFunctionOnSet(Cpu, Holders)
        /\ SumFunctionOnSet(Mem, H) = Mem[cur] + SumFunctionOnSet(Mem, Holders)
        /\ SumFunctionOnSet(Cpu, Holders) \in Int
        /\ SumFunctionOnSet(Mem, Holders) \in Int
    <3>1. H \subseteq Accepted /\ cur \in H /\ H \ {cur} = Holders
      BY <2>2, HoldersKnown
    <3>2. IsFiniteSet(H) /\ IsFiniteSet(Holders)
      BY <3>1, HoldersKnown, FS_Subset
    <3>3. \A t \in H : Cpu[t] \in Int /\ Mem[t] \in Int
      BY <3>1, HoldersKnown
    <3>4. \A t \in Holders : Cpu[t] \in Int /\ Mem[t] \in Int
      BY HoldersKnown
    <3> HIDE DEF H
    <3>5. /\ SumFunctionOnSet(Cpu, H) = Cpu[cur] + SumFunctionOnSet(Cpu, H \ {cur})
          /\ SumFunctionOnSet(Mem, H) = Mem[cur] + SumFunctionOnSet(Mem, H \ {cur})
      BY <3>1, <3>2, <3>3, SumRemove
    <3>6. QED
      BY <3>1, <3>2, <3>4, <3>5, SumIsInt
  <2>5. /\ free'.cpu + SumFunctionOnSet(Cpu, Holders') = TotalCPU
        /\ free'.memory + SumFunctionOnSet(Mem, Holders') = TotalMemory
    BY <1>0, <2>2, <2>3, <2>4, LedgerAsSums
  <2>6. QED
    BY <2>3, <2>5 DEF LedgerBalances, SumCPU, SumMemory, Cpu, Mem, Accepted
<1>3. CASE ~ Clean /\ ~ PlanReserve /\ ~ CheckReserve
  <2>1. \A t \in Holders : request'[t] = request[t]
    BY RequestsStay, HoldersKnown
  <2>2. QED
    BY <1>3, <2>1, OthersHold, LedgerFrame
<1>4. QED
  BY <1>1, <1>2, <1>3

(* plan.go, execute.go: what is not free is exactly what launched tasks    *)
(* hold or have put in the release channel, for any tasks and requests.    *)
THEOREM LedgerAlwaysBalances == Spec => []LedgerBalances
<1>1. Init => LedgerBalances
  <2> SUFFICES ASSUME Init PROVE LedgerBalances
    OBVIOUS
  <2>1. Holders = {}
    BY DEF Init, Holders, Holding
  <2>2. QED
    BY <2>1, SumEmpty, LedgerAsSums, SchedulerAssumption DEF Init
<1>2. QED
  BY <1>1, LedgerStep, Everything, PTL DEF Spec

(* scheduler_service.go:21: the send on resourceRelease never blocks when  *)
(* every request asks for at least c units of CPU and the pool is too      *)
(* small to hold ReleaseBuffer + 1 of them, however many tasks there are   *)
(* and whatever was killed: only a holder has a release to send.  In       *)
(* nyx_master.go:992 c is 180, of a pool of 600, and the channel takes 500.*)
THEOREM ReleasesNeverBlock ==
  ASSUME NEW c \in Nat,
         \A r \in Requests : r.cpu >= c /\ r.memory >= 0,
         TotalCPU <= c * (ReleaseBuffer + 1)
  PROVE  Spec => []ReleaseNeverBlocks
<1>1. TypeOK /\ Known /\ IInv /\ LedgerBalances /\ FreePositive => ReleaseNeverBlocks
  <2> SUFFICES ASSUME TypeOK, Known, IInv, LedgerBalances, FreePositive,
                      NEW t \in Tasks, gor[t] = "exited",
                      ~ (Len(resourceRelease) < ReleaseBuffer)
               PROVE  FALSE
    BY DEF ReleaseNeverBlocks
  <2> DEFINE Rest == Holders \ {t}
  <2>1. /\ resourceRelease \in Seq(Tasks) /\ Len(resourceRelease) \in Nat
        /\ DOMAIN resourceRelease = 1 .. Len(resourceRelease)
    BY LenProperties DEF TypeOK
  <2>2. \A i \in DOMAIN resourceRelease : resourceRelease[i] \in Rest
    BY <2>1, ElementOfSeq DEF IInv, StatesAgree, Holders, Holding
  <2>3. resourceRelease \in Seq(Rest)
    BY <2>1, <2>2, IsASeq
  <2>4. t \in Holders /\ IsFiniteSet(Holders)
    BY HoldersKnown DEF Holders, Holding
  <2>5. /\ IsFiniteSet(Rest)
        /\ Cardinality(Rest) = Cardinality(Holders) - 1
        /\ Cardinality(Holders) \in Nat
    BY <2>4, FS_RemoveElement, FS_CardinalityType
  <2>6. \A i, j \in DOMAIN resourceRelease :
          resourceRelease[i] = resourceRelease[j] => i = j
    BY DEF IInv, StatesAgree
  <2> HIDE DEF Rest
  <2>7. Len(resourceRelease) <= Cardinality(Rest)
    BY <2>3, <2>5, <2>6, DistinctLength
  <2>8. Cardinality(Holders) >= ReleaseBuffer + 1 /\ ReleaseBuffer \in Nat
    BY <2>1, <2>5, <2>7, SchedulerAssumption
  <2>9. SumFunctionOnSet(Cpu, Holders) >= c * Cardinality(Holders)
    <3>1. ASSUME NEW u \in Holders PROVE Cpu[u] \in Int /\ Cpu[u] >= c
      <4>1. u \in Accepted /\ Cpu[u] = request[u].cpu
        BY HoldersKnown
      <4>2. u \in Tasks /\ request[u] # None
        BY <4>1 DEF Accepted
      <4>3. request[u] \in Requests /\ request[u].cpu \in Int
        BY <4>2, RequestType
      <4>4. QED
        BY <4>1, <4>3
    <3>2. QED
      BY <2>4, <3>1, SumAtLeast
  <2>10. c * Cardinality(Holders) >= c * (ReleaseBuffer + 1)
    <3> DEFINE k == Cardinality(Holders) - (ReleaseBuffer + 1)
    <3>1. k \in Nat /\ Cardinality(Holders) = (ReleaseBuffer + 1) + k
      BY <2>5, <2>8
    <3>2. c * k \in Nat
      BY <3>1
    <3> HIDE DEF k
    <3>3. c * Cardinality(Holders) = c * (ReleaseBuffer + 1) + c * k
      BY <2>8, <3>1
    <3>4. c * (ReleaseBuffer + 1) \in Int
      BY <2>8
    <3>5. QED
      BY <3>2, <3>3, <3>4
  <2>11. /\ free.cpu + SumFunctionOnSet(Cpu, Holders) = TotalCPU
         /\ free.cpu \in Int /\ free.cpu > 0 /\ TotalCPU \in Int
    BY LedgerAsSums, SchedulerAssumption DEF TypeOK, FreePositive
  <2>12. SumFunctionOnSet(Cpu, Holders) \in Int
    <3>1. \A u \in Holders : Cpu[u] \in Int
      BY HoldersKnown
    <3>2. QED
      BY <2>4, <3>1, SumIsInt
  <2>13. c * Cardinality(Holders) \in Int /\ c * (ReleaseBuffer + 1) \in Int
    BY <2>5, <2>8
  <2>14. QED
    BY <2>9, <2>10, <2>11, <2>12, <2>13
<1>2. \A r \in Requests : r.cpu >= 0 /\ r.memory >= 0
  BY SchedulerAssumption DEF TaskRequest
<1>3. Spec => []FreePositive
  BY <1>2, FreeStaysPositive
<1>4. QED
  BY <1>1, <1>3, Everything, LedgerAlwaysBalances, PTL

(* schedule.go:42, scheduler_service.go:17, 21: neither channel stops the  *)
(* scheduler without that backlog.                                         *)
THEOREM ChannelsAlwaysSuffice ==
  ASSUME NEW c \in Nat,
         \A r \in Requests : r.cpu >= c /\ r.memory >= 0,
         TotalCPU <= c * (ReleaseBuffer + 1)
  PROVE  Spec => []ChannelsSuffice
<1>1. WedgedOnlyByBacklog /\ ReleaseNeverBlocks => ChannelsSuffice
  BY DEF ChannelsSuffice
<1>2. Spec => []ReleaseNeverBlocks
  BY ReleasesNeverBlock
<1>3. QED
  BY <1>1, <1>2, WedgeIsABacklog, PTL

-----------------------------------------------------------------------------
(* The resource pool.                                                      *)

Share == [t \in Tasks |-> IF ~ Started(t) THEN "none"
                          ELSE IF Holding(t) THEN "held" ELSE "returned"]

(* What fits in the pool, in the scheduler's sums.                         *)
LEMMA FitsAsSums ==
  ASSUME NEW S, \A t \in S : request[t].cpu \in Int /\ request[t].memory \in Int,
         IsFiniteSet(S), S \subseteq Accepted,
         SumFunctionOnSet(Cpu, S) < TotalCPU, SumFunctionOnSet(Mem, S) < TotalMemory
  PROVE  Pool!Fits(S)
<1> DEFINE c == [t \in S |-> request[t].cpu]
           m == [t \in S |-> request[t].memory]
<1>1. Pool!Fits(S) <=> /\ SumFunctionOnSet(c, S) < TotalCPU
                       /\ SumFunctionOnSet(m, S) < TotalMemory
  BY DEF Pool!Fits, SumFunctionOnSet, FoldFunctionOnSet, MapThenFoldSet,
     Pool!SumFunctionOnSet, Pool!FoldFunctionOnSet, Pool!MapThenFoldSet
<1>2. \A t \in S : c[t] \in Int /\ c[t] = Cpu[t] /\ m[t] \in Int /\ m[t] = Mem[t]
  BY DEF Cpu, Mem
<1> HIDE DEF c, m
<1>3. /\ SumFunctionOnSet(c, S) = SumFunctionOnSet(Cpu, S)
      /\ SumFunctionOnSet(m, S) = SumFunctionOnSet(Mem, S)
  BY <1>2, SumAgree
<1>4. QED
  BY <1>1, <1>3

(* A launch takes a share, draining a release gives one back, accepting a  *)
(* task asks for one, and nothing else concerns the pool.                  *)
LEMMA PoolStep ==
  TypeOK /\ Known /\ IInv /\ LedgerBalances /\ LedgerBalances' /\ [Next]_vars
    => [Pool!Next]_Pool!vars
<1> SUFFICES ASSUME TypeOK, Known, Homes, StatesAgree, LedgerBalances,
                    LedgerBalances', [Next]_vars
             PROVE  [Pool!Next]_<<request, Share>>
  BY DEF IInv, Pool!vars, Share
<1>0. free.cpu \in Int /\ free.memory \in Int
  BY DEF TypeOK
<1>1. CASE Clean
  <2>h. PICK h \in Tasks : h = Head(resourceRelease)
    BY <1>1, HeadHolds DEF Holders
  <2>1. /\ h \in Holders /\ Holders' = Holders \ {h} /\ Started(h)
        /\ UNCHANGED <<request, gor>>
    BY <1>1, <2>h, HeadHolds DEF Started, Clean, taskVars
  <2>2. Share' = [Share EXCEPT ![h] = "returned"] /\ Share[h] = "held"
    <3>1. \A t \in Tasks : Holding(t)' <=> Holding(t) /\ t # h
      BY <2>1 DEF Holders
    <3>2. \A t \in Tasks : Started(t)' <=> Started(t)
      BY <2>1 DEF Started
    <3>3. Share[h] = "held"
      BY <2>1 DEF Share, Holders
    <3>4. \A t \in Tasks : Share'[t] = IF t = h THEN "returned" ELSE Share[t]
      BY <2>1, <3>1, <3>2 DEF Share
    <3>5. Share' = [t \in Tasks |-> Share'[t]] /\ Share = [t \in Tasks |-> Share[t]]
      BY DEF Share
    <3> QED
      BY <3>3, <3>4, <3>5
  <2>3. Pool!GiveBack(h)
    BY <2>1, <2>2 DEF Pool!GiveBack, Share
  <2>4. QED
    BY <2>3 DEF Pool!Next
<1>2. CASE PlanReserve \/ CheckReserve
  <2>1. Launch /\ lpc # "recv" /\ Greater(free, request[cur])
    BY <1>2 DEF PlanReserve, CheckReserve
  <2>c. PICK c \in Tasks : c = cur
    BY <2>1, CurKnown
  <2>2. /\ c \in Accepted /\ c \notin Holders /\ ~ Started(c)
        /\ Holders' = Holders \cup {c}
        /\ request' = request
    BY <2>1, <2>c, LaunchHolds DEF Launch
  <2>3. gor'[c] = "exec" /\ \A t \in Tasks : t # c => gor'[t] = gor[t]
    BY <2>1, <2>c DEF Launch, TypeOK
  <2>4. Share' = [Share EXCEPT ![c] = "held"] /\ Share[c] = "none"
    <3>1. \A t \in Tasks : Holding(t)' <=> Holding(t) \/ t = c
      BY <2>2 DEF Holders
    <3>2. \A t \in Tasks : Started(t)' <=> Started(t) \/ t = c
      BY <2>3 DEF Started
    <3>3. Share[c] = "none"
      BY <2>2 DEF Share
    <3>4. \A t \in Tasks : Share'[t] = IF t = c THEN "held" ELSE Share[t]
      BY <2>2, <3>1, <3>2 DEF Share
    <3>5. Share' = [t \in Tasks |-> Share'[t]] /\ Share = [t \in Tasks |-> Share[t]]
      BY DEF Share
    <3> QED
      BY <3>3, <3>4, <3>5
  <2> DEFINE H == Holders \cup {c}
  <2>5. Pool!Held = Holders
    BY DEF Pool!Held, Holders, Started, Holding, StatesAgree
  <2>6. /\ H \subseteq Accepted /\ IsFiniteSet(H)
        /\ \A t \in H : /\ request[t].cpu \in Int /\ request[t].memory \in Int
                        /\ Cpu[t] \in Int /\ Mem[t] \in Int
    <3>1. H \subseteq Accepted
      BY <2>2, HoldersKnown
    <3> HIDE DEF H
    <3>2. IsFiniteSet(H)
      BY <3>1, HoldersKnown, FS_Subset
    <3>3. QED
      BY <3>1, <3>2, HoldersKnown
  <2>7. /\ free'.cpu > 0 /\ free'.memory > 0
        /\ free'.cpu \in Int /\ free'.memory \in Int
    BY <1>0, <2>1, CurKnown DEF Greater, Launch
  <2>8. /\ free'.cpu + SumFunctionOnSet(Cpu, H) = TotalCPU
        /\ free'.memory + SumFunctionOnSet(Mem, H) = TotalMemory
    BY <2>2 DEF LedgerBalances, SumCPU, SumMemory, Cpu, Mem, Accepted
  <2> HIDE DEF H
  <2>9. SumFunctionOnSet(Cpu, H) \in Int /\ SumFunctionOnSet(Mem, H) \in Int
    BY <2>6, SumIsInt
  <2>10. SumFunctionOnSet(Cpu, H) < TotalCPU /\ SumFunctionOnSet(Mem, H) < TotalMemory
    BY <2>7, <2>8, <2>9, SchedulerAssumption
  <2>11. Pool!Fits(H)
    BY <2>6, <2>10, FitsAsSums
  <2>12. Pool!Take(c)
    BY <2>2, <2>4, <2>5, <2>11 DEF Pool!Take, Accepted, Share, H
  <2>13. QED
    BY <2>12 DEF Pool!Next
<1>3. CASE ~ Clean /\ ~ PlanReserve /\ ~ CheckReserve
  <2>1. Share' = Share
    <3>1. \A t \in Tasks : (Holding(t)' <=> Holding(t)) /\ (Started(t)' <=> Started(t))
      BY <1>3, OthersHold DEF Holders
    <3>2. QED
      BY <3>1 DEF Share
  <2>2. ASSUME NEW t \in Tasks, NEW r \in Requests, ScheduleTask(t, r)
        PROVE  Pool!Ask(t, r)
    BY <2>1, <2>2 DEF ScheduleTask, Pool!Ask, Share
  <2>3. CASE ~ \E t \in Tasks, r \in Requests : ScheduleTask(t, r)
    <3>1. request' = request
      BY <1>3, <2>3 DEF Next, vars, taskVars, ScheduleSend, QueueWaitingTask,
         LaunchReceive, LaunchLock, CleanTimeout, PlanKill,
         PlanReject, KillsDone, CheckReject, Reject,
         TaskStep, ExecuteShort, ExecuteLong, SendRelease, UpdateShort, UpdateLong,
         Exit, KillTask, KillTerm, KillEnd, Launcher, Killer
    <3>2. QED
      BY <2>1, <3>1
  <2>4. QED
    BY <2>2, <2>3 DEF Pool!Next
<1>4. QED
  BY <1>1, <1>2, <1>3

(* plan.go, execute.go: the scheduler implements the resource pool: a      *)
(* share is taken once, only when all shares together stay below the total *)
(* of CPU and of memory, and given back once.                              *)
THEOREM SchedulerIsAPool == Spec => PoolSpec
<1>1. Init => Pool!Init
  BY DEF Init, Pool!Init, Started
<1>2. QED
  BY <1>1, PoolStep, LedgerAlwaysBalances, Everything, PTL DEF Spec, PoolSpec, Pool!Spec

-----------------------------------------------------------------------------
(* The life of a task, as its callers are told.                            *)

LifeOf(t) == IF request[t] = None THEN "unknown"
             ELSE IF launchAnswers[t] = 0 THEN "scheduled"
             ELSE IF GaveUp(t) \/ gor[t] = "stillborn" THEN "refused"
             ELSE IF completeAnswers[t] = 0 THEN "launched"
             ELSE "ended"
Lives == [t \in Tasks |-> LifeOf(t)]

(* A step that only moves the life of one task.                            *)
LEMMA OneLifeMoves ==
  ASSUME NEW t \in Tasks, NEW v, LifeOf(t)' = v,
         \A u \in Tasks : u # t => LifeOf(u)' = LifeOf(u)
  PROVE  Lives' = [Lives EXCEPT ![t] = v]
BY DEF Lives

(* Every step moves at most one life, by one step of TaskLife.             *)
LEMMA LifeStep ==
  TypeOK /\ Known /\ IInv /\ AnsweredOnce /\ [Next]_vars => [Life!LifeNext]_Lives
<1> SUFFICES ASSUME TypeOK, Known, Homes, StatesAgree, AnsweredOnce, [Next]_vars
             PROVE  Life!LifeNext \/ UNCHANGED Lives
  BY DEF IInv
<1>a. ASSUME NEW t \in Tasks, LifeOf(t) = "scheduled",
             LifeOf(t)' \in {"scheduled", "launched", "refused"},
             \A u \in Tasks : u # t => LifeOf(u)' = LifeOf(u)
      PROVE  Life!LifeNext \/ UNCHANGED Lives
  <2>1. Lives[t] = "scheduled"
    BY <1>a DEF Lives
  <2>2. Lives' = [Lives EXCEPT ![t] = LifeOf(t)']
    BY <1>a, OneLifeMoves
  <2>3. CASE LifeOf(t)' = "scheduled"
    BY <1>a, <2>3 DEF Lives
  <2>4. CASE LifeOf(t)' = "launched"
    BY <2>1, <2>2, <2>4 DEF Life!LifeNext, Life!Launched, Lives, LifeOf
  <2>5. CASE LifeOf(t)' = "refused"
    BY <2>1, <2>2, <2>5 DEF Life!LifeNext, Life!Refused, Lives, LifeOf
  <2>6. QED
    BY <1>a, <2>3, <2>4, <2>5
<1>b. ASSUME UNCHANGED <<request, launchAnswers, completeAnswers>>,
             \A t \in Tasks : /\ GaveUp(t)' <=> GaveUp(t)
                              /\ gor'[t] = "stillborn" <=> gor[t] = "stillborn"
      PROVE  UNCHANGED Lives
  <2>1. \A t \in Tasks : LifeOf(t)' = LifeOf(t)
    BY <1>b DEF LifeOf
  <2>2. QED
    BY <2>1 DEF Lives
<1>1. ASSUME NEW t \in Tasks, NEW r \in Requests, ScheduleTask(t, r)
      PROVE  Life!LifeNext
  <2>1. /\ request[t] = None /\ request'[t] # None
        /\ \A u \in Tasks : u # t => request'[u] = request[u]
        /\ UNCHANGED <<gor, state, launchAnswers, completeAnswers>>
    BY <1>1, SchedulerAssumption DEF ScheduleTask, TypeOK
  <2>2. launchAnswers[t] = 0
    BY <2>1 DEF AnsweredOnce, StatesAgree, GaveUp, Started
  <2>3. LifeOf(t) = "unknown" /\ LifeOf(t)' = "scheduled"
    BY <2>1, <2>2 DEF LifeOf
  <2>4. \A u \in Tasks : u # t => LifeOf(u)' = LifeOf(u)
    BY <2>1 DEF LifeOf, GaveUp
  <2>5. Lives' = [u \in Tasks |-> IF u \in {t} THEN "scheduled" ELSE Lives[u]]
    BY <2>3, <2>4 DEF Lives
  <2>6. \A u \in {t} : Lives[u] = "unknown"
    BY <2>3 DEF Lives
  <2>7. {t} \in SUBSET Tasks
    OBVIOUS
  <2>8. Life!Schedule({t})
    BY <2>5, <2>6 DEF Life!Schedule, Lives, LifeOf
  <2>9. QED
    BY <2>7, <2>8 DEF Life!LifeNext
<1>2. CASE PlanReserve \/ CheckReserve
  <2>1. cur \in Tasks /\ request[cur] # None
    BY <1>2, CurKnown DEF PlanReserve, CheckReserve
  <2>2. gor[cur] = "none" /\ state[cur] = "Queued"
    BY <2>1, SchedulerAssumption DEF Homes, Waiting
  <2>3. /\ UNCHANGED <<request, state, launchAnswers, completeAnswers>>
        /\ gor'[cur] = "exec" /\ \A u \in Tasks : u # cur => gor'[u] = gor[u]
    BY <1>2, <2>1 DEF PlanReserve, CheckReserve, Launch, TypeOK
  <2>4. QED
    BY <1>b, <2>2, <2>3 DEF GaveUp
<1>3. CASE PlanReject \/ CheckReject
  <2>1. PICK c \in Tasks : c = cur /\ request[c] # None
    BY <1>3, CurKnown DEF PlanReject, CheckReject
  <2>2. gor[c] = "none" /\ state[c] = "Queued"
    BY <2>1, SchedulerAssumption DEF Homes, Waiting
  <2>3. launchAnswers[c] = 0
    BY <2>1, <2>2 DEF AnsweredOnce, Started, GaveUp
  <2>4. /\ UNCHANGED <<request, gor, completeAnswers>>
        /\ \/ UNCHANGED <<state, launchAnswers>>
           \/ /\ state' = [state EXCEPT ![c] = "Failed"]
              /\ launchAnswers' = [launchAnswers EXCEPT ![c] = @ + 1]
    BY <1>3, <2>1 DEF PlanReject, CheckReject, Reject
  <2>5. CASE UNCHANGED <<state, launchAnswers>>
    BY <1>b, <2>4, <2>5 DEF GaveUp
  <2>6. CASE /\ state' = [state EXCEPT ![c] = "Failed"]
             /\ launchAnswers' = [launchAnswers EXCEPT ![c] = @ + 1]
    <3>1. /\ state'[c] = "Failed" /\ launchAnswers'[c] # 0
          /\ \A u \in Tasks : u # c => /\ state'[u] = state[u]
                                       /\ launchAnswers'[u] = launchAnswers[u]
      BY <2>3, <2>6 DEF TypeOK
    <3>2. LifeOf(c) = "scheduled" /\ LifeOf(c)' = "refused"
      BY <2>1, <2>2, <2>3, <2>4, <3>1 DEF LifeOf, GaveUp
    <3>3. \A u \in Tasks : u # c => LifeOf(u)' = LifeOf(u)
      BY <2>4, <3>1 DEF LifeOf, GaveUp
    <3>4. QED
      BY <1>a, <3>2, <3>3
  <2>7. QED
    BY <2>4, <2>5, <2>6
<1>4. ASSUME NEW t \in Tasks, ExecuteLong(t) \/ UpdateShort(t)
      PROVE  Life!LifeNext \/ UNCHANGED Lives
  <2>1. /\ gor[t] \in {"exec", "released"} /\ request[t] # None
        /\ launchAnswers[t] = 0 /\ completeAnswers[t] = 0
    BY <1>4 DEF ExecuteLong, UpdateShort, AnsweredOnce, Started, GaveUp, Known
  <2>2. /\ UNCHANGED <<request, completeAnswers>>
        /\ gor'[t] # "none" /\ launchAnswers'[t] # 0
        /\ \A u \in Tasks : u # t => /\ gor'[u] = gor[u] /\ state'[u] = state[u]
                                     /\ launchAnswers'[u] = launchAnswers[u]
    <3>1. /\ state \in [Tasks -> TaskState] /\ launchAnswers \in [Tasks -> Nat]
          /\ gor \in [Tasks -> {"none", "exec", "stillborn", "run", "exited",
                                "released", "done"}]
      BY DEF TypeOK
    <3>2. CASE ExecuteLong(t)
      BY <2>1, <3>1, <3>2 DEF ExecuteLong
    <3>3. CASE UpdateShort(t)
      BY <2>1, <3>1, <3>3 DEF UpdateShort
    <3>4. QED
      BY <1>4, <3>2, <3>3
  <2>3. LifeOf(t) = "scheduled" /\ LifeOf(t)' \in {"launched", "refused"}
    BY <2>1, <2>2 DEF LifeOf, GaveUp
  <2>4. \A u \in Tasks : u # t => LifeOf(u)' = LifeOf(u)
    BY <2>2 DEF LifeOf, GaveUp
  <2>5. QED
    BY <1>a, <2>3, <2>4
<1>5. ASSUME NEW t \in Tasks, UpdateLong(t) PROVE Life!LifeNext
  <2>1. gor[t] = "released" /\ request[t].long /\ request[t] # None
    BY <1>5 DEF UpdateLong, Known
  <2>2. launchAnswers[t] = 1 /\ completeAnswers[t] = 0
    BY <2>1 DEF AnsweredOnce, Started, GaveUp
  <2>3. /\ UNCHANGED <<request, launchAnswers>>
        /\ gor'[t] = "done" /\ completeAnswers'[t] # 0
        /\ \A u \in Tasks : u # t => /\ gor'[u] = gor[u] /\ state'[u] = state[u]
                                     /\ completeAnswers'[u] = completeAnswers[u]
    BY <1>5, <2>2 DEF UpdateLong, TypeOK
  <2>4. LifeOf(t) = "launched" /\ LifeOf(t)' = "ended"
    BY <2>1, <2>2, <2>3 DEF LifeOf, GaveUp
  <2>5. Lives' = [Lives EXCEPT ![t] = "ended"]
    <3>1. \A u \in Tasks : u # t => LifeOf(u)' = LifeOf(u)
      BY <2>3 DEF LifeOf, GaveUp
    <3>2. QED
      BY <2>4, <3>1, OneLifeMoves
  <2>6. Lives[t] = "launched"
    BY <2>4 DEF Lives
  <2>7. Life!Ended(t)
    BY <2>5, <2>6 DEF Life!Ended, Lives, LifeOf
  <2>8. QED
    BY <2>7 DEF Life!LifeNext
<1>6. ASSUME NEW t \in Tasks, ExecuteShort(t) \/ Exit(t) \/ SendRelease(t)
      PROVE  UNCHANGED Lives
  <2>1. /\ UNCHANGED <<request, state, launchAnswers, completeAnswers>>
        /\ {gor[t], gor'[t]} \subseteq {"exec", "run", "exited", "released"}
        /\ \A u \in Tasks : u # t => gor'[u] = gor[u]
    BY <1>6 DEF ExecuteShort, Exit, SendRelease, TypeOK, taskVars
  <2>2. QED
    BY <1>b, <2>1 DEF GaveUp
<1>7. CASE /\ ~ \E t \in Tasks : \/ \E r \in Requests : ScheduleTask(t, r)
                                 \/ TaskStep(t) \/ Exit(t)
           /\ ~ PlanReserve /\ ~ CheckReserve /\ ~ PlanReject /\ ~ CheckReject
  <2>1. UNCHANGED <<request, state, gor, launchAnswers, completeAnswers>>
    BY <1>7 DEF Next, vars, taskVars, ScheduleSend, QueueWaitingTask,
       LaunchReceive, LaunchLock, Clean, CleanTimeout, PlanKill, KillsDone,
       KillTask, KillTerm, KillEnd, Launcher, Killer
  <2>2. QED
    BY <1>b, <2>1 DEF GaveUp
<1>8. QED
  BY <1>1, <1>2, <1>3, <1>4, <1>5, <1>6, <1>7 DEF TaskStep

(* launch.go:50-64, execute.go:73-150: the callbacks of the scheduler tell  *)
(* the life of a task: refused or launched, and ended only after launched. *)
THEOREM CallbacksTellALife == Spec => LifeSpec
<1>1. Init => Life!LifeInit
  BY DEF Init, Life!LifeInit
<1>2. TypeOK /\ Known /\ IInv /\ AnsweredOnce /\ [Next]_vars
        => [Life!LifeNext]_[t \in Tasks |->
                     IF request[t] = None THEN "unknown"
                     ELSE IF launchAnswers[t] = 0 THEN "scheduled"
                     ELSE IF GaveUp(t) \/ gor[t] = "stillborn" THEN "refused"
                     ELSE IF completeAnswers[t] = 0 THEN "launched"
                     ELSE "ended"]
  BY LifeStep DEF Lives, LifeOf
<1>3. QED
  BY <1>1, <1>2, CallbacksOnce, Everything, PTL DEF Spec, LifeSpec, Life!LifeSpec

-----------------------------------------------------------------------------
(* The victims of a plan.                                                  *)

(* Launched tasks have different launch times, none later than now: this   *)
(* makes DiesBefore a total order of the running tasks.                    *)
Begun == {t \in Tasks : Started(t)}
RanksOK ==
  /\ \A t \in Begun : launchTime[t] <= Cardinality(Begun)
  /\ \A t, u \in Begun : launchTime[t] = launchTime[u] => t = u

(* A launch is given the next rank, and no other step touches a rank.      *)
LEMMA RanksStep ==
  TypeOK /\ Known /\ IInv /\ RanksOK /\ [Next]_vars => RanksOK'
<1> SUFFICES ASSUME TypeOK, Known, Homes, StatesAgree, RanksOK, [Next]_vars
             PROVE  RanksOK'
  BY DEF IInv
<1>1. CASE PlanReserve \/ CheckReserve
  <2>1. PICK c \in Tasks : c = cur
    BY <1>1, CurKnown DEF PlanReserve, CheckReserve
  <2> DEFINE n == Cardinality(Begun)
  <2>2. IsFiniteSet(Begun) /\ n \in Nat
    BY SchedulerAssumption, FS_Subset, FS_CardinalityType DEF Begun
  <2>3. gor[c] = "none" /\ gor' = [gor EXCEPT ![c] = "exec"]
    BY <1>1, <2>1, SchedulerAssumption DEF PlanReserve, CheckReserve, Launch, Homes, Waiting
  <2>4. c \notin Begun /\ Begun' = Begun \cup {c}
    BY <2>3 DEF Begun, Started, TypeOK
  <2>5. Cardinality(Begun') = n + 1
    BY <2>2, <2>4, FS_AddElement
  <2>6. launchTime' = [launchTime EXCEPT ![c] = 1 + n]
    BY <1>1, <2>1 DEF PlanReserve, CheckReserve, Launch, Begun, Started
  <2>7. launchTime \in [Tasks -> Nat] /\ Begun \subseteq Tasks
    BY DEF TypeOK, Begun
  <2> HIDE DEF n
  <2>8. launchTime'[c] = n + 1 /\ \A t \in Begun : launchTime'[t] = launchTime[t]
    BY <2>2, <2>4, <2>6, <2>7
  <2>9. \A t \in Begun : launchTime[t] \in Nat /\ launchTime[t] <= n
    BY <2>7 DEF RanksOK, n
  <2>10. \A t, u \in Begun : launchTime[t] = launchTime[u] => t = u
    BY DEF RanksOK
  <2>11. \A t \in Begun' : launchTime'[t] <= n + 1
    BY <2>2, <2>4, <2>8, <2>9
  <2>12. \A t, u \in Begun' : launchTime'[t] = launchTime'[u] => t = u
    BY <2>2, <2>4, <2>8, <2>9, <2>10
  <2>13. QED
    BY <2>5, <2>11, <2>12 DEF RanksOK
<1>2. CASE ~ PlanReserve /\ ~ CheckReserve
  <2>1. launchTime' = launchTime
    BY <1>2 DEF Next, vars, taskVars, ScheduleTask, ScheduleSend, QueueWaitingTask,
       LaunchReceive, LaunchLock, Clean, CleanTimeout, PlanKill,
       PlanReject, KillsDone, CheckReject, Reject,
       TaskStep, ExecuteShort, ExecuteLong, SendRelease, UpdateShort, UpdateLong,
       Exit, KillTask, KillTerm, KillEnd, Launcher, Killer
  <2>2. \A t \in Tasks : Started(t)' <=> Started(t)
    <3>1. CASE Clean
      BY <3>1 DEF Clean, Started
    <3>2. CASE ~ Clean
      BY <1>2, <3>2, OthersHold
    <3>3. QED
      BY <3>1, <3>2
  <2>3. Begun' = Begun
    BY <2>2 DEF Begun
  <2>4. QED
    BY <2>1, <2>3 DEF RanksOK
<1>3. QED
  BY <1>1, <1>2

LEMMA RanksAlwaysOK == Spec => []RanksOK
<1>1. Init => RanksOK
  BY DEF Init, RanksOK, Begun, Started
<1>2. QED
  BY <1>1, RanksStep, Everything, PTL DEF Spec

(* The first candidate whose prefix is enough ends the list of victims; the *)
(* candidate before it was not enough.                                     *)
LEMMA PreemptionStep ==
  ASSUME TypeOK, Known, StatesAgree, RanksOK, PlanKill
  PROVE  LET V == {t \in Tasks : kill'["plan"][t] = "start"}
             Candidates == {u \in Accepted : /\ request[u].long
                                             /\ state[u] = "Running"
                                             /\ priority[u] < priority[cur]}
             Key(u) == <<priority[u], 0 - launchTime[u]>>
             Earlier(u, v) == \/ Key(u)[1] < Key(v)[1]
                              \/ Key(u)[1] = Key(v)[1] /\ Key(u)[2] < Key(v)[2]
         IN  /\ V \subseteq Candidates
             /\ Enough(cur, V)
             /\ \A v \in V, u \in Candidates \ V : Earlier(v, u)
             /\ \E last \in V : /\ \A v \in V \ {last} : Earlier(v, last)
                                /\ ~ Enough(cur, V \ {last})
<1> DEFINE V == {t \in Tasks : kill'["plan"][t] = "start"}
           Candidates == {u \in Accepted : /\ request[u].long
                                           /\ state[u] = "Running"
                                           /\ priority[u] < priority[cur]}
           Key(u) == <<priority[u], 0 - launchTime[u]>>
           Earlier(u, v) == \/ Key(u)[1] < Key(v)[1]
                            \/ Key(u)[1] = Key(v)[1] /\ Key(u)[2] < Key(v)[2]
           L == LowPriority(cur)
           R == {p \in L \X L : DiesBefore(p[1], p[2])}
           Rev == {p \in L \X L : DiesBefore(p[2], p[1])}
           E == {v \in L : Enough(cur, UpTo(cur, v))}
<1>1. Candidates = L /\ IsFiniteSet(L)
  <2>1. Candidates = L
    BY DEF LowPriority
  <2>2. L \in SUBSET Accepted
    BY DEF LowPriority
  <2>3. QED
    BY <2>1, <2>2, FS_Subset, HoldersKnown
<1>2. \A u \in L : /\ priority[u] \in Int /\ launchTime[u] \in Nat
                   /\ u \in Begun
  BY DEF LowPriority, Accepted, TypeOK, Begun, Started, StatesAgree
<1>3. \A u, v \in L : launchTime[u] = launchTime[v] => u = v
  BY <1>2 DEF RanksOK
<1>4. \A u, v \in L : DiesBefore(u, v) \/ DiesBefore(v, u)
  BY <1>2 DEF DiesBefore
<1>5. \A u, v, w \in L : DiesBefore(u, v) /\ DiesBefore(v, w) => DiesBefore(u, w)
  BY <1>2 DEF DiesBefore
<1>6. \A u, v \in L : DiesBefore(u, v) /\ DiesBefore(v, u) => u = v
  BY <1>2, <1>3 DEF DiesBefore
<1>7. \A u, v \in L : DiesBefore(u, v) /\ u # v => Earlier(u, v)
  BY <1>2, <1>3 DEF DiesBefore
<1>8. E # {} /\ E \in SUBSET L
  BY DEF PlanKill, CanPreempt
<1>9. V = TasksToKill(cur)
  <2>1. kill'["plan"] = [t \in Tasks |-> IF t \in TasksToKill(cur) THEN "start" ELSE "idle"]
    BY DEF PlanKill, TypeOK, Callers
  <2>2. TasksToKill(cur) \subseteq Tasks
    BY DEF TasksToKill, LowPriority, Accepted
  <2>3. QED
    BY <2>1, <2>2
<1>10. \A v \in L : UpTo(cur, v) = {u \in L : DiesBefore(u, v)}
  BY DEF UpTo
<1> HIDE DEF L, V, Candidates, Earlier, Key
<1>11. PICK l \in E : \A v \in E : DiesBefore(l, v)
  <2>1. /\ \A u, v \in L : <<u, v>> \in R \/ <<v, u>> \in R
        /\ \A u, v, w \in L : <<u, v>> \in R /\ <<v, w>> \in R => <<u, w>> \in R
    BY <1>4, <1>5
  <2>2. PICK l \in E : \A v \in E : <<l, v>> \in R
    <3> HIDE DEF R, E
    <3>1. QED
      BY <1>1, <1>8, <2>1, LeastOfOrder
  <2>3. QED
    BY <2>2
<1>12. l \in L /\ Enough(cur, UpTo(cur, l))
  OBVIOUS
<1>13. V = UpTo(cur, l)
  <2>1. \A u : u \in V <=> u \in L /\ \A v \in E : DiesBefore(u, v)
    BY <1>9 DEF TasksToKill, L
  <2>2. \A u \in L : (\A v \in E : DiesBefore(u, v)) <=> DiesBefore(u, l)
    BY <1>5, <1>11
  <2>3. QED
    BY <1>10, <1>12, <2>1, <2>2
<1>14. \A u : u \in V <=> u \in L /\ DiesBefore(u, l)
  BY <1>10, <1>12, <1>13
<1>15. ASSUME NEW v \in V, NEW u \in L \ V PROVE Earlier(v, u)
  <2>1. DiesBefore(l, u) /\ DiesBefore(v, l) /\ v \in L
    BY <1>4, <1>12, <1>14
  <2>2. DiesBefore(v, u) /\ u # v
    BY <1>5, <1>12, <2>1
  <2>3. QED
    BY <1>7, <2>1, <2>2
<1>16. l \in V /\ \A v \in V \ {l} : Earlier(v, l)
  BY <1>4, <1>7, <1>12, <1>14
<1>17. ~ Enough(cur, V \ {l})
  <2> SUFFICES ASSUME Enough(cur, V \ {l}) PROVE FALSE
    OBVIOUS
  <2> DEFINE W == V \ {l}
  <2>1. CASE W = {}
    <3>1. SumCPU({}) = 0 /\ SumMemory({}) = 0
      BY SumEmpty DEF SumCPU, SumMemory
    <3>2. Greater([cpu |-> free.cpu + 0, memory |-> free.memory + 0], request[cur])
      BY <2>1, <3>1 DEF Enough
    <3>3. free.cpu \in Int /\ free.memory \in Int
      BY DEF TypeOK
    <3>4. QED
      BY <3>2, <3>3 DEF Greater, PlanKill
  <2>2. CASE W # {}
    <3>1. W \in SUBSET L
      BY <1>14
    <3>2. PICK p \in W : \A v \in W : DiesBefore(v, p)
      <4>1. /\ \A u, v \in L : <<u, v>> \in Rev \/ <<v, u>> \in Rev
            /\ \A u, v, w \in L : <<u, v>> \in Rev /\ <<v, w>> \in Rev => <<u, w>> \in Rev
        BY <1>4, <1>5
      <4>2. PICK p \in W : \A v \in W : <<p, v>> \in Rev
        <5> HIDE DEF Rev, W
        <5>1. QED
          BY <1>1, <2>2, <3>1, <4>1, LeastOfOrder
      <4>3. QED
        BY <4>2
    <3>3. p \in L /\ DiesBefore(p, l) /\ p # l
      BY <1>14
    <3>4. UpTo(cur, p) = W
      <4>1. \A u \in L : DiesBefore(u, p) => u \in W
        BY <1>5, <1>6, <1>12, <1>14, <3>3
      <4>2. QED
        BY <1>10, <3>1, <3>2, <3>3, <4>1
    <3>5. p \in E
      BY <3>3, <3>4
    <3>6. QED
      BY <1>6, <1>11, <1>12, <3>3, <3>5
  <2>3. QED
    BY <2>1, <2>2
<1>18. /\ V \subseteq Candidates
       /\ Enough(cur, V)
       /\ \A v \in V, u \in Candidates \ V : Earlier(v, u)
       /\ \E last \in V : /\ \A v \in V \ {last} : Earlier(v, last)
                          /\ ~ Enough(cur, V \ {last})
  BY <1>1, <1>12, <1>13, <1>14, <1>15, <1>16, <1>17
<1>19. QED
  BY <1>18 DEF V, Candidates, Earlier, Key

(* plan.go:8-12: the victims of a plan are running long-running tasks of   *)
(* lower priority, taken in order, enough, and not without the last.       *)
THEOREM PreemptionAlwaysMinimal == Spec => PreemptionIsMinimal
<1> DEFINE Minimal ==
      LET V == {t \in Tasks : kill'["plan"][t] = "start"}
          Candidates == {u \in Accepted : /\ request[u].long
                                          /\ state[u] = "Running"
                                          /\ priority[u] < priority[cur]}
          Key(u) == <<priority[u], 0 - launchTime[u]>>
          Earlier(u, v) == \/ Key(u)[1] < Key(v)[1]
                           \/ Key(u)[1] = Key(v)[1] /\ Key(u)[2] < Key(v)[2]
      IN  /\ V \subseteq Candidates
          /\ Enough(cur, V)
          /\ \A v \in V, u \in Candidates \ V : Earlier(v, u)
          /\ \E last \in V : /\ \A v \in V \ {last} : Earlier(v, last)
                             /\ ~ Enough(cur, V \ {last})
<1>1. TypeOK /\ Known /\ IInv /\ RanksOK /\ [Next]_vars
        => [lpc = "plan" /\ lpc' = "kill" => Minimal]_vars
  <2> SUFFICES ASSUME TypeOK, Known, StatesAgree, RanksOK, [Next]_vars,
                      lpc = "plan", lpc' = "kill"
               PROVE  Minimal
    BY DEF IInv
  <2>1. PlanKill
    BY DEF Next, vars, taskVars, ScheduleTask, ScheduleSend, QueueWaitingTask,
       LaunchReceive, LaunchLock, Clean, CleanTimeout, PlanReserve, Launch,
       PlanReject, KillsDone, CheckReserve, CheckReject, Reject,
       TaskStep, ExecuteShort, ExecuteLong, SendRelease, UpdateShort, UpdateLong,
       Exit, KillTask, KillTerm, KillEnd, Launcher, Killer
  <2> HIDE DEF Minimal
  <2>2. QED
    BY <2>1, PreemptionStep DEF Minimal
<1>2. Spec => [][lpc = "plan" /\ lpc' = "kill" => Minimal]_vars
  <2> HIDE DEF Minimal
  <2>1. QED
    BY <1>1, RanksAlwaysOK, Everything, PTL DEF Spec
<1>3. QED
  BY <1>2, PTL DEF PreemptionIsMinimal
=============================================================================
