------------------------------ MODULE BotProofs ------------------------------
(* Proofs about the bot manager for any bots and slaves.                   *)
EXTENDS BotProperties, SequenceTheorems, FiniteSetTheorems, TLAPS

(* A sum of naturals divided by a positive number is a natural number.     *)
LEMMA CeilDivType ==
  ASSUME NEW m \in Nat, NEW n \in Nat \ {0}
  PROVE  CeilDiv(m, n) \in Nat
<1> DEFINE a == m + n - 1
<1>1. a \in Nat
  OBVIOUS
<1>2. a \div n \in Nat
  BY <1>1
<1>3. QED
  BY <1>2 DEF CeilDiv

(* Positions in the slices of two slaves are different positions.          *)
LEMMA SlicesDisjoint ==
  ASSUME NEW n \in Nat, NEW k \in Nat, NEW j \in Nat,
         NEW i \in 1..n, NEW h \in 1..n,
         (k - 1) * n + i = (j - 1) * n + h
  PROVE  k = j /\ i = h
<1>1. ASSUME NEW x \in Nat, NEW y \in Nat, NEW u \in 1..n, NEW v \in 1..n, x < y
      PROVE  (x - 1) * n + u # (y - 1) * n + v
  <2>1. PICK d \in Nat : y = x + 1 + d
    <3>1. y - x - 1 \in Nat /\ y = x + 1 + (y - x - 1)
      BY <1>1
    <3>2. QED
      BY <3>1
  <2>2. (y - 1) * n = (x - 1) * n + n + d * n
    BY <2>1
  <2>3. d * n >= 0
    OBVIOUS
  <2>4. (x - 1) * n \in Int /\ d * n \in Int
    OBVIOUS
  <2>5. QED
    BY <2>2, <2>3, <2>4
<1>2. k = j
  BY <1>1
<1>3. (k - 1) * n \in Int
  OBVIOUS
<1>4. QED
  BY <1>2, <1>3

(* What the k-th slave is given stands in its slice of the remaining bots. *)
LEMMA FillPositions ==
  ASSUME NEW S, NEW rem \in Seq(S), NEW k \in Nat \ {0}, NEW n \in Nat
  PROVE  /\ Fill(rem, k, n) \in Seq(S)
         /\ \A i \in DOMAIN Fill(rem, k, n) :
              /\ i \in 1..n
              /\ (k - 1) * n + i \in DOMAIN rem
              /\ Fill(rem, k, n)[i] = rem[(k - 1) * n + i]
<1> DEFINE a == (k - 1) * n
           z == IF k * n < Len(rem) THEN k * n ELSE Len(rem)
           f == SubSeq(rem, a + 1, z)
<1>1. a \in Nat /\ k * n = a + n /\ k * n \in Nat
  <2>1. a \in Nat
    <3>1. k - 1 \in Nat
      OBVIOUS
    <3>2. QED
      BY <3>1
  <2>2. k * n = a + n
    OBVIOUS
  <2>3. QED
    BY <2>1, <2>2
<1>2. Len(rem) \in Nat /\ DOMAIN rem = 1..Len(rem) /\ \A i \in 1..Len(rem) : rem[i] \in S
  BY LenProperties
<1>3. z \in Nat /\ z <= Len(rem) /\ z <= a + n
  BY <1>1, <1>2
<1> HIDE DEF a, z
<1>4. \A i \in (a + 1)..z : rem[i] \in S
  BY <1>1, <1>2, <1>3
<1>5. /\ f \in Seq(S)
      /\ Len(f) = IF a + 1 <= z THEN z - (a + 1) + 1 ELSE 0
      /\ \A i \in 1..(z - (a + 1) + 1) : f[i] = rem[(a + 1) + i - 1]
  BY <1>1, <1>3, <1>4, SubSeqProperties
<1>6. DOMAIN f = 1..Len(f)
  BY <1>5, LenProperties
<1>7. ASSUME NEW i \in DOMAIN f
      PROVE  i \in 1..n /\ a + i \in DOMAIN rem /\ f[i] = rem[a + i]
  <2>1. i \in 1..(z - (a + 1) + 1)
    BY <1>1, <1>3, <1>5, <1>6
  <2>2. i \in 1..n /\ a + i \in 1..Len(rem) /\ (a + 1) + i - 1 = a + i
    BY <2>1, <1>1, <1>2, <1>3
  <2>3. QED
    BY <2>1, <2>2, <1>2, <1>5
<1>8. Fill(rem, k, n) = f
  BY DEF Fill, a, z
<1>9. QED
  BY <1>5, <1>7, <1>8 DEF a

(* What any share in a distribution dist is, and that no two overlap.      *)
Shares(dist, R) ==
  \A s \in Slaves : dist[s] # None =>
    /\ dist[s].bots \in Seq(Bots)
    /\ \A i \in DOMAIN dist[s].bots : dist[s].bots[i] \in R
Disjoint(dist) ==
  \A s, t \in Slaves : dist[s] # None /\ dist[t] # None =>
    \A i \in DOMAIN dist[s].bots, j \in DOMAIN dist[t].bots :
      dist[s].bots[i] = dist[t].bots[j] => s = t /\ i = j

(* Dealing out bots of R gives disjoint shares of bots of R.               *)
LEMMA DealtShares ==
  ASSUME NEW S \in SUBSET Slaves, NEW R \in SUBSET Bots, NEW n \in Nat,
         NEW order \in Orders(S), NEW rem \in Orders(R)
  PROVE  /\ Deal(order, rem, n) \in [Slaves -> Share \cup {None}]
         /\ \A s \in Slaves : Deal(order, rem, n)[s] # None
                                => Deal(order, rem, n)[s].last = -1
         /\ Shares(Deal(order, rem, n), R)
         /\ Disjoint(Deal(order, rem, n))
<1> DEFINE d == Deal(order, rem, n)
<1>1. IsFiniteSet(S) /\ IsFiniteSet(R)
  BY BotAssumption, FS_Subset
<1>2. Cardinality(S) \in Nat /\ Cardinality(R) \in Nat
  BY <1>1, FS_CardinalityType
<1>3. /\ order \in [1..Cardinality(S) -> S]
      /\ rem \in [1..Cardinality(R) -> R]
      /\ \A i, j \in DOMAIN rem : rem[i] = rem[j] => i = j
  BY DEF Orders
<1>4. rem \in Seq(R) /\ rem \in Seq(Bots)
  BY <1>2, <1>3, SeqDef
<1>5. ASSUME NEW s \in Slaves, d[s] # None
      PROVE  \E k \in Nat \ {0} :
               order[k] = s /\ d[s] = [bots |-> Fill(rem, k, n), last |-> -1]
  <2> DEFINE k == CHOOSE k \in DOMAIN order : order[k] = s
  <2>1. \E j \in DOMAIN order : order[j] = s
    BY <1>5 DEF Deal
  <2>2. k \in DOMAIN order /\ order[k] = s
    BY <2>1
  <2>3. d[s] = [bots |-> Fill(rem, k, n), last |-> -1]
    BY <2>1 DEF Deal
  <2>4. k \in Nat \ {0}
    BY <1>2, <1>3, <2>2
  <2> HIDE DEF k, d
  <2>5. QED
    BY <2>2, <2>3, <2>4
<1>6. ASSUME NEW k \in Nat \ {0}
      PROVE  /\ Fill(rem, k, n) \in Seq(Bots)
             /\ \A i \in DOMAIN Fill(rem, k, n) :
                  /\ i \in 1..n
                  /\ (k - 1) * n + i \in DOMAIN rem
                  /\ Fill(rem, k, n)[i] = rem[(k - 1) * n + i]
                  /\ Fill(rem, k, n)[i] \in R
  <2>1. /\ Fill(rem, k, n) \in Seq(Bots)
        /\ \A i \in DOMAIN Fill(rem, k, n) :
             /\ i \in 1..n
             /\ (k - 1) * n + i \in DOMAIN rem
             /\ Fill(rem, k, n)[i] = rem[(k - 1) * n + i]
    BY <1>4, FillPositions
  <2>2. \A j \in DOMAIN rem : rem[j] \in R
    BY <1>3
  <2>3. QED
    BY <2>1, <2>2
<1>7. d \in [Slaves -> {d[s] : s \in Slaves}]
  BY DEF Deal
<1> HIDE DEF d
<1>8. ASSUME NEW s \in Slaves, d[s] # None
      PROVE  /\ d[s] \in Share /\ d[s].last = -1
             /\ d[s].bots \in Seq(Bots)
             /\ \A i \in DOMAIN d[s].bots : d[s].bots[i] \in R
  <2>1. PICK k \in Nat \ {0} : d[s] = [bots |-> Fill(rem, k, n), last |-> -1]
    BY <1>5, <1>8
  <2>2. d[s].bots = Fill(rem, k, n) /\ d[s].last = -1
    BY <2>1
  <2>3. Fill(rem, k, n) \in Seq(Bots)
    BY <1>6
  <2>4. d[s] \in Share
    BY <2>1, <2>3 DEF Share
  <2>5. QED
    BY <1>6, <2>2, <2>4
<1>9. d \in [Slaves -> Share \cup {None}]
  BY <1>7, <1>8
<1>10. ASSUME NEW s \in Slaves, NEW t \in Slaves, d[s] # None, d[t] # None,
              NEW i \in DOMAIN d[s].bots, NEW j \in DOMAIN d[t].bots,
              d[s].bots[i] = d[t].bots[j]
       PROVE  s = t /\ i = j
  <2>1. PICK k \in Nat \ {0} :
          order[k] = s /\ d[s] = [bots |-> Fill(rem, k, n), last |-> -1]
    BY <1>5, <1>10
  <2>2. PICK h \in Nat \ {0} :
          order[h] = t /\ d[t] = [bots |-> Fill(rem, h, n), last |-> -1]
    BY <1>5, <1>10
  <2>3. d[s].bots = Fill(rem, k, n) /\ d[t].bots = Fill(rem, h, n)
    BY <2>1, <2>2
  <2>4. /\ i \in 1..n /\ (k - 1) * n + i \in DOMAIN rem
        /\ d[s].bots[i] = rem[(k - 1) * n + i]
    BY <1>6, <2>3
  <2>5. /\ j \in 1..n /\ (h - 1) * n + j \in DOMAIN rem
        /\ d[t].bots[j] = rem[(h - 1) * n + j]
    BY <1>6, <2>3
  <2>6. (k - 1) * n + i = (h - 1) * n + j
    BY <1>3, <1>10, <2>4, <2>5
  <2>7. k = h /\ i = j
    BY <2>4, <2>5, <2>6, SlicesDisjoint
  <2>8. QED
    BY <2>1, <2>2, <2>7
<1>11. Shares(d, R)
  BY <1>8 DEF Shares
<1>12. Disjoint(d)
  BY <1>10 DEF Disjoint
<1>13. QED
  BY <1>8, <1>9, <1>11, <1>12 DEF d

(* Deleting a bot from a list leaves some of its positions, in order.      *)
LEMMA WithoutPositions ==
  ASSUME NEW S, NEW q \in Seq(S), NEW n
  PROVE  /\ Without(q, n) \in Seq(S)
         /\ \E f \in [DOMAIN Without(q, n) -> DOMAIN q] :
              /\ \A i \in DOMAIN Without(q, n) : Without(q, n)[i] = q[f[i]]
              /\ \A i, j \in DOMAIN Without(q, n) : f[i] = f[j] => i = j
<1>1. Len(q) \in Nat /\ DOMAIN q = 1..Len(q) /\ \A i \in 1..Len(q) : q[i] \in S
  BY LenProperties
<1>2. CASE ~ \E i \in DOMAIN q : q[i] = n
  <2>1. Without(q, n) = q
    BY <1>2 DEF Without
  <2> DEFINE f == [i \in DOMAIN q |-> i]
  <2>2. f \in [DOMAIN q -> DOMAIN q]
    OBVIOUS
  <2>3. \A i \in DOMAIN q : f[i] = i
    OBVIOUS
  <2> HIDE DEF f
  <2>4. QED
    BY <2>1, <2>2, <2>3
<1>3. CASE \E i \in DOMAIN q : q[i] = n
  <2> DEFINE p == CHOOSE k \in DOMAIN q : q[k] = n
             l == SubSeq(q, 1, p - 1)
             r == SubSeq(q, p + 1, Len(q))
             w == Without(q, n)
  <2>1. p \in 1..Len(q)
    BY <1>1, <1>3
  <2>2. w = l \o r
    BY <1>3 DEF Without
  <2> HIDE DEF p, w
  <2>3. /\ l \in Seq(S) /\ Len(l) = p - 1
        /\ \A i \in 1..(p - 1) : l[i] = q[i]
    <3>1. /\ l \in Seq(S)
          /\ Len(l) = IF 1 <= p - 1 THEN (p - 1) - 1 + 1 ELSE 0
          /\ \A i \in 1..((p - 1) - 1 + 1) : l[i] = q[1 + i - 1]
      BY <1>1, <2>1, SubSeqProperties
    <3>2. \A i \in 1..(p - 1) : 1 + i - 1 = i
      BY <2>1
    <3>3. QED
      BY <3>1, <3>2, <2>1
  <2>4. /\ r \in Seq(S) /\ Len(r) = Len(q) - p
        /\ \A i \in 1..(Len(q) - p) : r[i] = q[p + i]
    <3>1. /\ r \in Seq(S)
          /\ Len(r) = IF p + 1 <= Len(q) THEN Len(q) - (p + 1) + 1 ELSE 0
          /\ \A i \in 1..(Len(q) - (p + 1) + 1) : r[i] = q[(p + 1) + i - 1]
      BY <1>1, <2>1, SubSeqProperties
    <3>2. \A i \in 1..(Len(q) - p) :
            (p + 1) + i - 1 = p + i /\ i \in 1..(Len(q) - (p + 1) + 1)
      BY <1>1, <2>1
    <3>3. Len(r) = Len(q) - p
      <4>1. p \in Int /\ Len(q) \in Int /\ p <= Len(q)
        BY <1>1, <2>1
      <4>2. CASE p + 1 <= Len(q)
        BY <3>1, <4>1, <4>2
      <4>3. CASE ~ (p + 1 <= Len(q))
        <5>1. Len(q) = p
          BY <4>1, <4>3
        <5>2. QED
          BY <3>1, <4>1, <4>3, <5>1
      <4>4. QED
        BY <4>2, <4>3
    <3>4. QED
      BY <3>1, <3>2, <3>3
  <2> HIDE DEF l, r
  <2>5. /\ w \in Seq(S) /\ Len(w) = Len(q) - 1 /\ DOMAIN w = 1..(Len(q) - 1)
        /\ \A i \in 1..(Len(q) - 1) : w[i] = IF i <= p - 1 THEN l[i] ELSE r[i - (p - 1)]
    <3>1. /\ w \in Seq(S) /\ Len(w) = Len(l) + Len(r)
          /\ \A i \in 1..(Len(l) + Len(r)) :
               w[i] = IF i <= Len(l) THEN l[i] ELSE r[i - Len(l)]
      BY <2>2, <2>3, <2>4, ConcatProperties
    <3>2. Len(l) + Len(r) = Len(q) - 1
      BY <1>1, <2>1, <2>3, <2>4
    <3>3. DOMAIN w = 1..Len(w)
      BY <3>1, LenProperties
    <3>4. QED
      BY <3>1, <3>2, <3>3, <2>3
  <2> DEFINE f == [i \in 1..(Len(q) - 1) |-> IF i <= p - 1 THEN i ELSE i + 1]
  <2>6. f \in [DOMAIN w -> DOMAIN q]
    BY <1>1, <2>1, <2>5
  <2>7. ASSUME NEW i \in 1..(Len(q) - 1) PROVE w[i] = q[f[i]]
    <3>1. CASE i <= p - 1
      BY <3>1, <2>1, <2>3, <2>5, <1>1
    <3>2. CASE ~ (i <= p - 1)
      <4>1. i - (p - 1) \in 1..(Len(q) - p) /\ p + (i - (p - 1)) = i + 1
        BY <3>2, <2>1, <1>1
      <4>2. w[i] = r[i - (p - 1)] /\ f[i] = i + 1
        BY <3>2, <2>5
      <4>3. r[i - (p - 1)] = q[p + (i - (p - 1))]
        BY <4>1, <2>4
      <4>4. QED
        BY <4>1, <4>2, <4>3
    <3>3. QED
      BY <3>1, <3>2
  <2>8. \A i, j \in 1..(Len(q) - 1) : f[i] = f[j] => i = j
    BY <1>1, <2>1
  <2> HIDE DEF f
  <2>9. /\ \A i \in DOMAIN w : w[i] = q[f[i]]
        /\ \A i, j \in DOMAIN w : f[i] = f[j] => i = j
    BY <2>5, <2>7, <2>8
  <2>10. /\ w \in Seq(S)
         /\ \E g \in [DOMAIN w -> DOMAIN q] :
              /\ \A i \in DOMAIN w : w[i] = q[g[i]]
              /\ \A i, j \in DOMAIN w : g[i] = g[j] => i = j
    BY <2>5, <2>6, <2>9, Zenon
  <2>11. QED
    BY <2>10, Zenon DEF w
<1>4. QED
  BY <1>2, <1>3

-----------------------------------------------------------------------------
(* A share is no longer than there are bots.                               *)
LEMMA ShareSize ==
  ASSUME TypeOK, SharesDisjoint, NEW s \in Slaves, distribution[s] # None
  PROVE  /\ distribution[s] \in Share
         /\ Len(distribution[s].bots) \in Nat
         /\ Len(distribution[s].bots) <= Cardinality(Bots)
<1>1. distribution[s] \in Share
  BY DEF TypeOK
<1>2. distribution[s].bots \in Seq(Bots)
  BY <1>1 DEF Share
<1>3. \A i, j \in DOMAIN distribution[s].bots :
        distribution[s].bots[i] = distribution[s].bots[j] => i = j
  BY DEF SharesDisjoint
<1>4. IsFiniteSet(Bots)
  BY BotAssumption
<1> DEFINE n == Len(distribution[s].bots)
<1>5. DOMAIN distribution[s].bots = 1 .. n /\ n \in Nat
  BY <1>2, LenProperties
<1>6. distribution[s].bots \in Injection(1 .. n, Bots)
  BY <1>2, <1>3, <1>5 DEF Injection, IsInjective
<1>7. Cardinality(1 .. n) = n
  BY <1>5, FS_Interval
<1> HIDE DEF n
<1>8. n <= Cardinality(Bots)
  BY <1>4, <1>5, <1>6, <1>7, FS_Injection
<1>9. QED
  BY <1>1, <1>5, <1>8 DEF n

LEMMA BotCount == Cardinality(Bots) \in Nat \ {0}
  BY BotAssumption, FS_CardinalityType, FS_EmptySet

(* What a new distribution has to be, given the bots it may hand out.      *)
Sound(dist, R) ==
  /\ dist \in [Slaves -> Share \cup {None}]
  /\ \A s \in Slaves : dist[s] # None => dist[s].last \in -1..(Cardinality(Bots) - 1)
  /\ Shares(dist, R)
  /\ Disjoint(dist)

LEMMA RefreshSound ==
  ASSUME TypeOK, NEW B \in SUBSET Bots, NEW S \in SUBSET Slaves, HandleRefresh(B, S)
  PROVE  Sound(distribution', B)
<1>1. CASE S = {}
  <2>1. distribution' = [s \in Slaves |-> None]
    BY <1>1 DEF HandleRefresh
  <2>2. QED
    BY <2>1 DEF Sound, Shares, Disjoint
<1>2. CASE S # {} /\ B = {}
  <2> DEFINE empty == [bots |-> <<>>, last |-> 0]
  <2>1. distribution' = [s \in Slaves |-> IF s \in S THEN empty ELSE None]
    BY <1>2 DEF HandleRefresh, Distribute
  <2>2. empty \in Share /\ empty.bots = <<>> /\ empty.last = 0 /\ <<>> \in Seq(Bots)
    BY EmptySeq DEF Share
  <2>3. empty.last \in -1..(Cardinality(Bots) - 1)
    BY BotCount
  <2>4. DOMAIN empty.bots = {}
    OBVIOUS
  <2> HIDE DEF empty
  <2>5. QED
    BY <2>1, <2>2, <2>3, <2>4 DEF Sound, Shares, Disjoint
<1>3. CASE S # {} /\ B # {}
  <2> DEFINE n == CeilDiv(Cardinality(B), Cardinality(S))
             R == B \ Retained(B, S)
  <2>1. PICK order \in Orders(S), rem \in Orders(R) :
          distribution' = Deal(order, rem, n)
    BY <1>3 DEF HandleRefresh, Distribute
  <2>2. IsFiniteSet(B) /\ IsFiniteSet(S)
    BY BotAssumption, FS_Subset
  <2>3. Cardinality(B) \in Nat /\ Cardinality(S) \in Nat \ {0}
    BY <2>2, <1>3, FS_CardinalityType, FS_EmptySet
  <2>4. n \in Nat
    BY <2>3, CeilDivType
  <2>5. R \in SUBSET Bots /\ R \subseteq B
    OBVIOUS
  <2> HIDE DEF n, R
  <2>6. /\ distribution' \in [Slaves -> Share \cup {None}]
        /\ \A s \in Slaves : distribution'[s] # None => distribution'[s].last = -1
        /\ Shares(distribution', R)
        /\ Disjoint(distribution')
    BY <2>1, <2>4, <2>5, DealtShares
  <2>7. -1 \in -1..(Cardinality(Bots) - 1)
    BY BotCount
  <2>8. Shares(distribution', B)
    BY <2>5, <2>6 DEF Shares
  <2>9. QED
    BY <2>6, <2>7, <2>8 DEF Sound
<1>4. QED
  BY <1>1, <1>2, <1>3

(* The bots of all shares.                                                 *)
Dealt == {b \in Bots : \E s \in Slaves :
            /\ distribution[s] # None
            /\ \E i \in DOMAIN distribution[s].bots : distribution[s].bots[i] = b}

LEMMA DeleteSound ==
  ASSUME TypeOK, SharesDisjoint, NEW n, DeleteBotFromDist(n)
  PROVE  Sound(distribution', Dealt)
<1> DEFINE d == distribution
           e == distribution'
<1>1. /\ d \in [Slaves -> Share \cup {None}]
      /\ \A s \in Slaves : d[s] # None => d[s].last \in -1..(Cardinality(Bots) - 1)
  BY DEF TypeOK
<1>2. \A s \in Slaves :
        e[s] = IF d[s] = None THEN None
               ELSE [bots |-> Without(d[s].bots, n), last |-> d[s].last]
  BY DEF DeleteBotFromDist
<1>3. e \in [Slaves -> {e[s] : s \in Slaves}]
  BY DEF DeleteBotFromDist
<1>4. Disjoint(d)
  BY DEF SharesDisjoint, Disjoint
<1>5. \A s \in Slaves : d[s] # None =>
        /\ d[s].bots \in Seq(Bots) /\ d[s].last \in Int
        /\ \A i \in DOMAIN d[s].bots : d[s].bots[i] \in Dealt
  <2>1. ASSUME NEW s \in Slaves, d[s] # None
        PROVE  d[s].bots \in Seq(Bots) /\ d[s].last \in Int
    BY <1>1, <2>1 DEF Share
  <2>2. ASSUME NEW s \in Slaves, d[s] # None, NEW i \in DOMAIN d[s].bots
        PROVE  d[s].bots[i] \in Dealt
    <3>1. d[s].bots[i] \in Bots
      BY <2>1, <2>2, LenProperties
    <3>2. QED
      BY <2>2, <3>1 DEF Dealt
  <2>3. QED
    BY <2>1, <2>2
<1> HIDE DEF d, e
<1>6. ASSUME NEW s \in Slaves, e[s] # None
      PROVE  /\ d[s] # None
             /\ e[s] \in Share /\ e[s].last = d[s].last
             /\ e[s].bots \in Seq(Bots)
             /\ \E f \in [DOMAIN e[s].bots -> DOMAIN d[s].bots] :
                  /\ \A i \in DOMAIN e[s].bots : e[s].bots[i] = d[s].bots[f[i]]
                  /\ \A i, j \in DOMAIN e[s].bots : f[i] = f[j] => i = j
  <2>1. d[s] # None /\ e[s] = [bots |-> Without(d[s].bots, n), last |-> d[s].last]
    BY <1>2, <1>6
  <2>2. e[s].bots = Without(d[s].bots, n) /\ e[s].last = d[s].last
    BY <2>1
  <2>3. d[s].bots \in Seq(Bots) /\ d[s].last \in Int
    BY <1>5, <2>1
  <2>4. /\ Without(d[s].bots, n) \in Seq(Bots)
        /\ \E f \in [DOMAIN Without(d[s].bots, n) -> DOMAIN d[s].bots] :
             /\ \A i \in DOMAIN Without(d[s].bots, n) :
                  Without(d[s].bots, n)[i] = d[s].bots[f[i]]
             /\ \A i, j \in DOMAIN Without(d[s].bots, n) : f[i] = f[j] => i = j
    BY <2>3, WithoutPositions
  <2>5. e[s] \in Share
    BY <2>1, <2>3, <2>4 DEF Share
  <2>6. QED
    BY <2>1, <2>2, <2>4, <2>5
<1>7. Shares(e, Dealt)
  BY <1>5, <1>6 DEF Shares
<1>8. ASSUME NEW s \in Slaves, NEW t \in Slaves, e[s] # None, e[t] # None,
             NEW i \in DOMAIN e[s].bots, NEW j \in DOMAIN e[t].bots,
             e[s].bots[i] = e[t].bots[j]
      PROVE  s = t /\ i = j
  <2>1. d[s] # None /\ d[t] # None
    BY <1>6, <1>8
  <2>2. PICK f \in [DOMAIN e[s].bots -> DOMAIN d[s].bots] :
          /\ \A k \in DOMAIN e[s].bots : e[s].bots[k] = d[s].bots[f[k]]
          /\ \A k, l \in DOMAIN e[s].bots : f[k] = f[l] => k = l
    BY <1>6, <1>8
  <2>3. PICK g \in [DOMAIN e[t].bots -> DOMAIN d[t].bots] :
          \A k \in DOMAIN e[t].bots : e[t].bots[k] = d[t].bots[g[k]]
    BY <1>6, <1>8
  <2>4. d[s].bots[f[i]] = d[t].bots[g[j]] /\ f[i] \in DOMAIN d[s].bots /\ g[j] \in DOMAIN d[t].bots
    BY <2>2, <2>3, <1>8
  <2>5. s = t /\ f[i] = g[j]
    BY <2>1, <2>4, <1>4 DEF Disjoint
  <2>6. f[j] \in DOMAIN d[s].bots /\ d[s].bots[f[j]] = d[s].bots[f[i]]
    BY <2>2, <2>5, <1>8
  <2>7. f[i] = f[j]
    BY <2>1, <2>4, <2>6, <1>4 DEF Disjoint
  <2>8. QED
    BY <2>2, <2>5, <2>7, <1>8
<1>9. e \in [Slaves -> Share \cup {None}]
  BY <1>3, <1>6
<1>10. \A s \in Slaves : e[s] # None => e[s].last \in -1..(Cardinality(Bots) - 1)
  BY <1>1, <1>6
<1>11. Disjoint(e)
  BY <1>8 DEF Disjoint
<1>12. QED
  BY <1>7, <1>9, <1>10, <1>11 DEF Sound, e

LEMMA GetBotSound ==
  ASSUME TypeOK, SharesDisjoint, NEW s \in Slaves, GetBot(s)
  PROVE  Sound(distribution', Dealt)
<1> DEFINE old == distribution[s]
           new == [bots |-> old.bots, last |-> (old.last + 1) % Len(old.bots)]
<1>1. distribution' = [distribution EXCEPT ![s] = new]
  BY DEF GetBot
<1>2. old # None /\ old.bots # <<>>
  BY DEF GetBot
<1>3. /\ old \in Share /\ Len(old.bots) \in Nat
      /\ Len(old.bots) <= Cardinality(Bots)
  BY <1>2, ShareSize
<1>4. old.bots \in Seq(Bots) /\ old.last \in Int
  BY <1>3 DEF Share
<1>5. Len(old.bots) # 0
  BY <1>2, <1>4, EmptySeq
<1>6. (old.last + 1) % Len(old.bots) \in 0..(Len(old.bots) - 1)
  BY <1>3, <1>4, <1>5
<1>7. /\ new \in Share /\ new.bots = old.bots
      /\ new.last \in -1..(Cardinality(Bots) - 1)
  <2>1. new \in Share
    BY <1>4, <1>6 DEF Share
  <2>2. new.last \in -1..(Cardinality(Bots) - 1)
    BY <1>3, <1>6, BotCount
  <2>3. QED
    BY <2>1, <2>2
<1>8. distribution \in [Slaves -> Share \cup {None}]
  BY DEF TypeOK
<1> HIDE DEF new
<1>9. \A t \in Slaves : distribution'[t] = IF t = s THEN new ELSE distribution[t]
  BY <1>1, <1>8
<1>10. \A t \in Slaves : distribution'[t] # None =>
         /\ distribution[t] # None
         /\ distribution'[t].bots = distribution[t].bots
  BY <1>2, <1>7, <1>9
<1>11. \A t \in Slaves : distribution'[t] # None =>
         distribution'[t].last \in -1..(Cardinality(Bots) - 1)
  BY <1>7, <1>9 DEF TypeOK
<1>12. distribution' \in [Slaves -> Share \cup {None}]
  BY <1>1, <1>7, <1>8
<1>13. Disjoint(distribution')
  BY <1>10 DEF SharesDisjoint, Disjoint
<1>14. Shares(distribution', Dealt)
  <2>1. ASSUME NEW t \in Slaves, distribution[t] # None
        PROVE  /\ distribution[t].bots \in Seq(Bots)
               /\ \A i \in DOMAIN distribution[t].bots : distribution[t].bots[i] \in Dealt
    <3>1. distribution[t] \in Share
      BY <1>8, <2>1
    <3>2. distribution[t].bots \in Seq(Bots)
      BY <3>1 DEF Share
    <3>3. \A i \in DOMAIN distribution[t].bots : distribution[t].bots[i] \in Bots
      BY <3>2, LenProperties
    <3>4. QED
      BY <2>1, <3>2, <3>3 DEF Dealt
  <2>2. QED
    BY <1>10, <2>1 DEF Shares
<1>15. QED
  BY <1>11, <1>12, <1>13, <1>14 DEF Sound

-----------------------------------------------------------------------------
(* What a bag holds after a mail has been added to it or taken from it.    *)
LEMMA PostedMail ==
  ASSUME NEW bag, NEW m
  PROVE  BagToSet(bag (+) SetToBag({m})) = BagToSet(bag) \cup {m}
  BY DEF BagToSet, SetToBag, (+)

LEMMA TakenMail ==
  ASSUME NEW m
  PROVE  BagToSet(Taken(m)) \subseteq BagToSet(mails)
  BY DEF BagToSet, SetToBag, (-), Taken

(* The monitors, their signals and what is wanted of them keep their types.*)
Watch ==
  /\ monitors \in [Bots -> Monitor \cup {None}]
  /\ signals \in [Bots -> SUBSET Signal]
  /\ clock \in Nat
  /\ wanted \in [Bots -> {"none", "live", "end"}]

LEMMA AskedType ==
  ASSUME clock \in Nat, NEW B, NEW b
  PROVE  Asked(B, b) \in Signal /\ Asked(B, b).at = clock + 1
         /\ (Asked(B, b).kind = "stop" <=> b \notin B)
  BY DEF Asked, Signal

LEMMA FreshType ==
  ASSUME clock \in Nat
  PROVE  Fresh \in Monitor /\ Fresh # None
         /\ Fresh.phase = "running" /\ Fresh.ltsSignal = clock + 1
<1>1. Fresh \in Monitor
  BY DEF Fresh, Monitor
<1>2. QED
  BY <1>1, BotAssumption DEF Fresh

LEMMA ObeyedType ==
  ASSUME NEW m \in Signal
  PROVE  Obeyed(m) \in Monitor /\ Obeyed(m) # None
         /\ Obeyed(m).ltsSignal = m.at
         /\ Obeyed(m).phase = IF m.kind = "stop" THEN "ending" ELSE "running"
<1>1. m.at \in Nat
  BY DEF Signal
<1>2. Obeyed(m) \in Monitor
  BY <1>1 DEF Obeyed, Monitor
<1>3. QED
  BY <1>2, BotAssumption DEF Obeyed

LEMMA EnlistWatch ==
  ASSUME Watch, NEW B \in SUBSET Bots, NEW S, Enlist(B, S), clock' = clock + 1
  PROVE  Watch' /\ \A b \in Bots : monitors[b] # None \/ b \in B => monitors'[b] # None
<1>1. clock \in Nat
  BY DEF Watch
<1>2. \A b \in Bots : Asked(B, b) \in Signal
  BY <1>1, AskedType
<1>3. Fresh \in Monitor /\ Fresh # None
  BY <1>1, FreshType
<1>4. signals' \in [Bots -> SUBSET Signal]
  <2>1. signals' = [b \in Bots |-> IF monitors[b] = None THEN signals[b]
                                   ELSE signals[b] \cup {Asked(B, b)}]
    BY DEF Enlist
  <2>2. \A b \in Bots : signals'[b] \subseteq Signal
    BY <1>2, <2>1 DEF Watch
  <2>3. QED
    BY <2>1, <2>2
<1>5. /\ monitors' \in [Bots -> Monitor \cup {None}]
      /\ \A b \in Bots : monitors[b] # None \/ b \in B => monitors'[b] # None
  <2>1. monitors' = [b \in Bots |-> IF b \in B /\ monitors[b] = None
                                    THEN Fresh ELSE monitors[b]]
    BY DEF Enlist
  <2>2. QED
    BY <1>3, <2>1 DEF Watch
<1>6. wanted' \in [Bots -> {"none", "live", "end"}]
  BY DEF Enlist, Watch
<1>7. clock' \in Nat
  BY <1>1
<1>8. QED
  BY <1>4, <1>5, <1>6, <1>7 DEF Watch

(* A monitor that there is stays, in another phase.                        *)
LEMMA InPhaseWatch ==
  ASSUME Watch, NEW b \in Bots, monitors[b] # None,
         NEW phase \in {"running", "ending", "expired", "dead"},
         InPhase(b, phase), UNCHANGED <<signals, clock, wanted>>
  PROVE  /\ Watch'
         /\ \A c \in Bots : monitors[c] # None => monitors'[c] # None
         /\ monitors'[b].phase = phase /\ monitors'[b].ltsSignal = monitors[b].ltsSignal
         /\ \A c \in Bots \ {b} : monitors'[c] = monitors[c]
<1> DEFINE next == [phase |-> phase, ltsSignal |-> monitors[b].ltsSignal]
<1>1. monitors' = [monitors EXCEPT ![b] = next]
  BY DEF InPhase
<1>2. monitors[b] \in Monitor
  BY DEF Watch
<1>3. next \in Monitor /\ next # None
  BY <1>2, BotAssumption DEF Monitor
<1>4. next.phase = phase /\ next.ltsSignal = monitors[b].ltsSignal
  OBVIOUS
<1> HIDE DEF next
<1>5. monitors \in [Bots -> Monitor \cup {None}]
  BY DEF Watch
<1>6. /\ monitors' \in [Bots -> Monitor \cup {None}]
      /\ \A c \in Bots : monitors[c] # None => monitors'[c] # None
      /\ monitors'[b] = next
      /\ \A c \in Bots \ {b} : monitors'[c] = monitors[c]
  BY <1>1, <1>3, <1>5
<1>7. QED
  BY <1>4, <1>6 DEF Watch

(* A share may only name bots that have a monitor.                         *)
LEMMA DealtMonitored == TypeOK /\ SharesMonitored => \A b \in Dealt : monitors[b] # None
  BY DEF SharesMonitored, Dealt

Inv == TypeOK /\ SharesDisjoint /\ SharesMonitored

LEMMA InvFromParts ==
  ASSUME NEW R \in SUBSET Bots, Sound(distribution', R), Watch',
         \A b \in R : monitors'[b] # None, BagToSet(mails') \subseteq Mail
  PROVE  Inv'
<1>1. TypeOK'
  BY DEF Sound, Watch, TypeOK
<1>2. SharesDisjoint'
  BY DEF Sound, Disjoint, SharesDisjoint
<1>3. SharesMonitored'
  BY DEF Sound, Shares, SharesMonitored
<1>4. QED
  BY <1>1, <1>2, <1>3 DEF Inv

LEMMA InvFrame ==
  ASSUME Inv, distribution' = distribution, Watch',
         \A b \in Bots : monitors[b] # None => monitors'[b] # None,
         BagToSet(mails') \subseteq Mail
  PROVE  Inv'
<1>1. TypeOK'
  BY DEF Inv, Watch, TypeOK
<1>2. SharesDisjoint'
  BY DEF Inv, SharesDisjoint
<1>3. ASSUME NEW s \in Slaves, distribution[s] # None,
             NEW i \in DOMAIN distribution[s].bots
      PROVE  distribution[s].bots[i] \in Bots
  <2>1. distribution[s] \in Share
    BY <1>3 DEF Inv, TypeOK
  <2>2. distribution[s].bots \in Seq(Bots)
    BY <2>1 DEF Share
  <2>3. QED
    BY <1>3, <2>2, LenProperties
<1>4. SharesMonitored'
  BY <1>3 DEF Inv, SharesMonitored
<1>5. QED
  BY <1>1, <1>2, <1>4 DEF Inv

LEMMA InvStep == Inv /\ [Next]_vars => Inv'
<1> SUFFICES ASSUME Inv, [Next]_vars PROVE Inv'
  OBVIOUS
<1>1. TypeOK /\ SharesDisjoint /\ SharesMonitored /\ Watch /\ BagToSet(mails) \subseteq Mail
  BY DEF Inv, TypeOK, Watch
<1>2. \A b \in Dealt : monitors[b] # None
  BY <1>1, DealtMonitored
<1>3. Dealt \in SUBSET Bots
  BY DEF Dealt
<1>4. ASSUME NEW m \in Mail, Post(m) PROVE Inv'
  <2>1. BagToSet(mails') \subseteq Mail
    <3>1. mails' = mails (+) SetToBag({m})
      BY <1>4 DEF Post
    <3>2. BagToSet(mails') = BagToSet(mails) \cup {m}
      BY <3>1, PostedMail
    <3>3. QED
      BY <1>1, <3>2
  <2>2. UNCHANGED <<distribution, monitors, signals, clock, wanted>>
    BY <1>4 DEF Post
  <2>3. QED
    BY <1>1, <2>1, <2>2, InvFrame DEF Watch
<1>5. CASE PostRefresh
  BY <1>4, <1>5 DEF PostRefresh, Mail
<1>6. CASE PostCorrupted
  BY <1>4, <1>6 DEF PostCorrupted, Mail
<1>7. ASSUME NEW B \in SUBSET Bots, NEW S \in SUBSET Slaves, HandleRefresh(B, S)
      PROVE  Inv'
  <2>1. Sound(distribution', B)
    BY <1>1, <1>7, RefreshSound
  <2>2. Watch' /\ \A b \in Bots : monitors[b] # None \/ b \in B => monitors'[b] # None
    BY <1>1, <1>7, EnlistWatch DEF HandleRefresh
  <2>3. BagToSet(mails') \subseteq Mail
    BY <1>1, <1>7, TakenMail DEF HandleRefresh
  <2>4. QED
    BY <2>1, <2>2, <2>3, InvFromParts
<1>8. ASSUME NEW b \in Bots, HandleCorrupted(b) PROVE Inv'
  <2>1. Sound(distribution', Dealt)
    BY <1>1, <1>8, DeleteSound DEF HandleCorrupted
  <2>2. clock' = clock + 1 /\ clock \in Nat /\ monitors' = monitors
    BY <1>1, <1>8 DEF HandleCorrupted, Watch
  <2>3. signals' \in [Bots -> SUBSET Signal] /\ wanted' \in [Bots -> {"none", "live", "end"}]
    <3>1. Asked({}, b) \in Signal
      BY <2>2, AskedType
    <3>2. CASE monitors[b] = None
      BY <1>1, <1>8, <3>2 DEF HandleCorrupted, Watch
    <3>3. CASE monitors[b] # None
      <4>1. /\ signals' = [signals EXCEPT ![b] = @ \cup {Asked({}, b)}]
            /\ wanted' = [wanted EXCEPT ![b] = "end"]
        BY <1>8, <3>3 DEF HandleCorrupted
      <4>2. QED
        BY <1>1, <3>1, <4>1 DEF Watch
    <3>4. QED
      BY <3>2, <3>3
  <2>4. Watch'
    BY <1>1, <2>2, <2>3 DEF Watch
  <2>5. BagToSet(mails') \subseteq Mail
    BY <1>1, <1>8, TakenMail DEF HandleCorrupted
  <2>6. QED
    BY <1>2, <1>3, <2>1, <2>2, <2>4, <2>5, InvFromParts
<1>9. ASSUME NEW b \in Bots, HandleStopped(MailID(b)) PROVE Inv'
  <2>1. Sound(distribution', Dealt)
    BY <1>1, <1>9, DeleteSound DEF HandleStopped
  <2>2. MailID(b) \notin Bots
    BY BotAssumption DEF MailID
  <2>3. \A c \in Bots : monitors'[c] = monitors[c]
    BY <1>9, <2>2 DEF HandleStopped
  <2>4. monitors' \in [Bots -> Monitor \cup {None}]
    BY <1>1, <2>3, <1>9 DEF HandleStopped, Watch
  <2>5. Watch'
    BY <1>1, <1>9, <2>4 DEF HandleStopped, Watch
  <2>6. BagToSet(mails') \subseteq Mail
    BY <1>1, <1>9, TakenMail DEF HandleStopped
  <2>7. QED
    BY <1>2, <1>3, <2>1, <2>3, <2>5, <2>6, InvFromParts
<1>10. ASSUME NEW s \in Slaves, GetBot(s) PROVE Inv'
  <2>1. Sound(distribution', Dealt)
    BY <1>1, <1>10, GetBotSound
  <2>2. UNCHANGED <<mails, monitors, signals, clock, wanted>>
    BY <1>10 DEF GetBot
  <2>3. QED
    BY <1>1, <1>2, <1>3, <2>1, <2>2, InvFromParts DEF Watch
<1>11. ASSUME NEW b \in Bots, MonitorStep(b) PROVE Inv'
  <2>1. PICK m \in signals[b] : MonitorReceive(b, m)
    BY <1>11 DEF MonitorStep
  <2>2. m \in Signal
    BY <1>1 DEF Watch
  <2>3. Obeyed(m) \in Monitor /\ Obeyed(m) # None
    BY <2>2, ObeyedType
  <2>4. monitors' = [monitors EXCEPT ![b] = IF m.at > @.ltsSignal THEN Obeyed(m) ELSE @]
    BY <2>1 DEF MonitorReceive
  <2>5. /\ monitors' \in [Bots -> Monitor \cup {None}]
        /\ \A c \in Bots : monitors[c] # None => monitors'[c] # None
    BY <1>1, <2>3, <2>4 DEF Watch
  <2>6. signals' \in [Bots -> SUBSET Signal]
    BY <1>1, <2>1 DEF MonitorReceive, Watch
  <2>7. UNCHANGED <<mails, distribution, clock, wanted>>
    BY <2>1 DEF MonitorReceive
  <2>8. Watch'
    BY <1>1, <2>5, <2>6, <2>7 DEF Watch
  <2>9. QED
    BY <1>1, <2>5, <2>7, <2>8, InvFrame
<1>12. ASSUME NEW b \in Bots, FiveMinutes(b) PROVE Inv'
  <2>1. /\ monitors[b] # None /\ InPhase(b, "expired")
        /\ UNCHANGED <<mails, distribution, signals, clock, wanted>>
    BY <1>12 DEF FiveMinutes
  <2>2. /\ Watch'
        /\ \A c \in Bots : monitors[c] # None => monitors'[c] # None
    BY <1>1, <2>1, InPhaseWatch
  <2>3. QED
    BY <1>1, <2>1, <2>2, InvFrame
<1>13. ASSUME NEW b \in Bots, PutOff(b) PROVE Inv'
  <2>1. /\ monitors[b] # None /\ InPhase(b, "ending")
        /\ UNCHANGED <<mails, distribution, signals, clock, wanted>>
    BY <1>13 DEF PutOff
  <2>2. /\ Watch'
        /\ \A c \in Bots : monitors[c] # None => monitors'[c] # None
    BY <1>1, <2>1, InPhaseWatch
  <2>3. QED
    BY <1>1, <2>1, <2>2, InvFrame
<1>14. ASSUME NEW b \in Bots, MonitorStop(b) PROVE Inv'
  <2>1. /\ monitors[b] # None /\ InPhase(b, "dead")
        /\ mails' = mails (+) SetToBag({Stopped(MailID(b))})
        /\ UNCHANGED <<distribution, signals, clock, wanted>>
    BY <1>14 DEF MonitorStop
  <2>2. /\ Watch'
        /\ \A c \in Bots : monitors[c] # None => monitors'[c] # None
    BY <1>1, <2>1, InPhaseWatch
  <2>3. Stopped(MailID(b)) \in Mail
    BY DEF Mail
  <2>4. BagToSet(mails') = BagToSet(mails) \cup {Stopped(MailID(b))}
    BY <2>1, PostedMail
  <2>5. QED
    BY <1>1, <2>1, <2>2, <2>3, <2>4, InvFrame
<1>15. CASE UNCHANGED vars
  BY <1>1, <1>15, InvFrame DEF vars, Watch
<1>16. QED
  BY <1>5, <1>6, <1>7, <1>8, <1>9, <1>10, <1>11, <1>12, <1>13, <1>14, <1>15
     DEF Next, Handle

LEMMA InitInv == Init => Inv
<1> SUFFICES ASSUME Init PROVE Inv
  OBVIOUS
<1>1. BagToSet(mails) = {}
  BY DEF Init, BagToSet, EmptyBag, SetToBag
<1>2. TypeOK
  BY <1>1 DEF Init, TypeOK
<1>3. SharesDisjoint /\ SharesMonitored
  BY DEF Init, SharesDisjoint, SharesMonitored
<1>4. QED
  BY <1>2, <1>3 DEF Inv

LEMMA BotInvariant == Spec => []Inv
  BY InitInv, InvStep, PTL DEF Spec

(* The types of the manager's and the monitors' state, of the mails in     *)
(* transit and of the index of the bot used last.                          *)
THEOREM BotTypes == Spec => []TypeOK
<1>1. Inv => TypeOK
  BY DEF Inv
<1>2. QED
  BY <1>1, BotInvariant, PTL

(* refreshBots, deleteBotFromDist: no bot is ever in two shares or twice   *)
(* in one, whatever the order of mails, the bots and the slaves.           *)
THEOREM NoBotShared == Spec => []SharesDisjoint
<1>1. Inv => SharesDisjoint
  BY DEF Inv
<1>2. QED
  BY <1>1, BotInvariant, PTL

(* getLatestBotSubmission: a slave finds the monitor of any bot it may be  *)
(* given in the map, be it one that has ended.                             *)
THEOREM EveryShareMonitored == Spec => []SharesMonitored
<1>1. Inv => SharesMonitored
  BY DEF Inv
<1>2. QED
  BY <1>1, BotInvariant, PTL

-----------------------------------------------------------------------------
(* A new signal is the latest.                                             *)
LEMMA SignalAdded ==
  ASSUME Watch, Watch', NEW B, NEW b \in Bots, Ordered(b), monitors[b] # None,
         signals'[b] = signals[b] \cup {Asked(B, b)},
         monitors'[b] = monitors[b], clock' = clock + 1,
         wanted'[b] = IF b \in B THEN "live" ELSE "end"
  PROVE  Ordered(b)'
<1> DEFINE a == Asked(B, b)
           lts == monitors[b].ltsSignal
<1>1. clock \in Nat /\ \A m \in signals[b] : m.at \in Nat /\ m.at <= clock
  BY DEF Watch, Ordered, Signal
<1>2. a.at = clock + 1 /\ (a.kind = "stop" <=> b \notin B)
  BY <1>1, AskedType
<1> HIDE DEF a
<1>3. /\ \A m, k \in signals'[b] : m.at = k.at => m = k
      /\ \A m \in signals'[b] : m.at <= clock'
  <2>1. signals'[b] = signals[b] \cup {a}
    BY DEF a
  <2>2. \A m \in signals[b] : m.at # a.at /\ m.at <= clock + 1
    BY <1>1, <1>2
  <2>3. \A m, k \in signals[b] : m.at = k.at => m = k
    BY DEF Ordered
  <2>4. a.at <= clock + 1
    BY <1>1, <1>2
  <2>5. QED
    BY <2>1, <2>2, <2>3, <2>4
<1>4. ASSUME Alive(b)'
      PROVE  /\ monitors'[b].ltsSignal <= clock'
             /\ wanted'[b] \in {"live", "end"}
             /\ Newer(b)' # {}
             /\ \A m \in Newer(b)' : (\A k \in Newer(b)' : k.at <= m.at)
                                       => (m.kind = "stop" <=> wanted'[b] = "end")
  <2>1. Alive(b)
    BY <1>4 DEF Alive
  <2>2. lts \in Nat /\ lts <= clock
    BY <2>1 DEF Watch, Ordered, Monitor, Alive
  <2>3. Newer(b)' = {m \in signals[b] \cup {a} : m.at > lts}
    BY DEF Newer, a
  <2>4. a \in Newer(b)'
    BY <1>1, <1>2, <2>2, <2>3
  <2>5. \A m \in Newer(b)' : m # a => m.at < a.at
    BY <1>1, <1>2, <2>3
  <2>6. \A m \in Newer(b)' : m.at \in Nat /\ a.at \in Nat
    BY <1>1, <1>2, <2>3
  <2>7. \A m \in Newer(b)' : (\A k \in Newer(b)' : k.at <= m.at) => m = a
    BY <2>4, <2>5, <2>6
  <2>8. a.kind = "stop" <=> wanted'[b] = "end"
    BY <1>2
  <2>9. monitors'[b].ltsSignal <= clock'
    BY <1>1, <2>2
  <2>10. QED
    BY <2>4, <2>7, <2>8, <2>9
<1>5. QED
  BY <1>3, <1>4 DEF Ordered

(* Nothing about a bot changes, or only the signals to a dead monitor.     *)
LEMMA OrderedFrame ==
  ASSUME Watch, Watch', NEW b \in Bots, Ordered(b),
         monitors'[b] = monitors[b], signals'[b] = signals[b],
         wanted'[b] = wanted[b], clock' = clock \/ clock' = clock + 1
  PROVE  Ordered(b)'
<1>1. clock \in Nat /\ clock <= clock'
  BY DEF Watch
<1>2. \A m \in signals[b] : m.at \in Nat
  BY DEF Watch, Signal
<1>3. \A m \in signals'[b] : m.at <= clock'
  BY <1>1, <1>2 DEF Ordered, Watch
<1>4. Newer(b)' = Newer(b) /\ (Alive(b)' <=> Alive(b)) /\ (EndLife(b)' <=> EndLife(b))
  BY DEF Newer, Alive, EndLife
<1>5. Alive(b) => monitors[b].ltsSignal \in Nat
  BY DEF Alive, Watch, Monitor
<1>6. Alive(b)' => monitors'[b].ltsSignal <= clock'
  BY <1>1, <1>4, <1>5 DEF Ordered, Watch
<1>7. \A m, k \in signals'[b] : m.at = k.at => m = k
  BY DEF Ordered
<1>8. QED
  BY <1>3, <1>4, <1>6, <1>7 DEF Ordered

(* A monitor that takes a signal out of the mailbox does what the latest   *)
(* of the ones left in transit, or else the latest it has taken, says.     *)
LEMMA SignalReceived ==
  ASSUME Watch, Watch', NEW b \in Bots, NEW m \in signals[b], Ordered(b),
         MonitorReceive(b, m)
  PROVE  Ordered(b)'
<1> DEFINE lts == monitors[b].ltsSignal
<1>1. /\ Alive(b) /\ monitors[b] \in Monitor
      /\ lts \in Nat /\ clock \in Nat /\ lts <= clock
  BY DEF MonitorReceive, Alive, Watch, Monitor, Ordered
<1>2. signals'[b] = signals[b] \ {m} /\ wanted'[b] = wanted[b] /\ clock' = clock
  BY DEF MonitorReceive, Watch
<1>3. monitors'[b] = IF m.at > lts THEN Obeyed(m) ELSE monitors[b]
  BY DEF MonitorReceive, Watch
<1>4. /\ \A k \in signals[b] : k \in Signal /\ k.at \in Nat /\ k.at <= clock
      /\ \A k, l \in signals[b] : k.at = l.at => k = l
  BY DEF Watch, Signal, Ordered
<1>5. /\ \A k, l \in signals'[b] : k.at = l.at => k = l
      /\ \A k \in signals'[b] : k.at <= clock'
  BY <1>2, <1>4
<1>6. /\ Newer(b) = {} => (EndLife(b) <=> wanted[b] = "end")
      /\ \A n \in Newer(b) : (\A k \in Newer(b) : k.at <= n.at)
                               => (n.kind = "stop" <=> wanted[b] = "end")
      /\ wanted[b] \in {"live", "end"}
  BY <1>1 DEF Ordered
<1>7. CASE m.at > lts
  <2>1. /\ monitors'[b].ltsSignal = m.at
        /\ monitors'[b].phase = IF m.kind = "stop" THEN "ending" ELSE "running"
    BY <1>3, <1>4, <1>7, ObeyedType
  <2>2. Newer(b)' = {k \in signals[b] : k.at > m.at}
    BY <1>2, <1>4, <2>1 DEF Newer
  <2>3. m \in Newer(b) /\ \A k \in Newer(b)' : k \in Newer(b) /\ k.at > m.at
    BY <1>1, <1>4, <1>7, <2>2 DEF Newer
  <2>4. \A k \in Newer(b) : k \in Newer(b)' \/ k.at <= m.at
    BY <1>4, <2>2 DEF Newer
  <2>5. Newer(b)' = {} => (EndLife(b)' <=> wanted'[b] = "end")
    BY <1>2, <1>6, <2>1, <2>3, <2>4 DEF EndLife
  <2>6. \A n \in Newer(b)' : (\A k \in Newer(b)' : k.at <= n.at)
                               => (n.kind = "stop" <=> wanted'[b] = "end")
    <3>1. ASSUME NEW n \in Newer(b)', \A k \in Newer(b)' : k.at <= n.at
          PROVE  n.kind = "stop" <=> wanted[b] = "end"
      <4>1. n \in Newer(b) /\ n.at > m.at /\ n.at \in Nat /\ m.at \in Nat
        BY <2>2, <2>3, <1>4
      <4>2. ASSUME NEW k \in Newer(b) PROVE k.at <= n.at
        <5>1. k.at \in Nat
          BY <1>4 DEF Newer
        <5>2. CASE k \in Newer(b)'
          BY <3>1, <5>2
        <5>3. CASE k.at <= m.at
          BY <4>1, <5>1, <5>3
        <5>4. QED
          BY <2>4, <5>2, <5>3
      <4>3. QED
        BY <1>6, <4>1, <4>2
    <3>2. QED
      BY <3>1, <1>2
  <2>7. monitors'[b].ltsSignal <= clock'
    BY <1>2, <1>4, <2>1
  <2>8. QED
    BY <1>2, <1>5, <1>6, <2>5, <2>6, <2>7 DEF Ordered
<1>8. CASE ~ (m.at > lts)
  <2>1. monitors'[b] = monitors[b]
    BY <1>3, <1>8
  <2>2. Newer(b)' = Newer(b)
    BY <1>2, <1>8, <2>1 DEF Newer
  <2>3. monitors'[b].ltsSignal <= clock'
    BY <1>1, <1>2, <2>1
  <2>4. EndLife(b)' <=> EndLife(b)
    BY <2>1 DEF EndLife
  <2>5. QED
    BY <1>2, <1>5, <1>6, <2>2, <2>3, <2>4 DEF Ordered
<1>9. QED
  BY <1>7, <1>8

LEMMA SignalsStep == Inv /\ Inv' /\ SignalsOrdered /\ [Next]_vars => SignalsOrdered'
<1> SUFFICES ASSUME Inv, Inv', SignalsOrdered, [Next]_vars, NEW b \in Bots
             PROVE  Ordered(b)'
  BY DEF SignalsOrdered
<1>1. Watch /\ Watch' /\ Ordered(b)
  BY DEF Inv, TypeOK, Watch, SignalsOrdered
<1>2. clock \in Nat
  BY <1>1 DEF Watch
<1>3. CASE UNCHANGED <<monitors, signals, clock, wanted>>
  BY <1>1, <1>3, OrderedFrame
<1>4. ASSUME NEW B \in SUBSET Bots, NEW S \in SUBSET Slaves, HandleRefresh(B, S)
      PROVE  Ordered(b)'
  <2>1. Enlist(B, S) /\ clock' = clock + 1
    BY <1>4 DEF HandleRefresh
  <2>2. signals'[b] = IF monitors[b] = None THEN signals[b]
                      ELSE signals[b] \cup {Asked(B, b)}
    BY <2>1 DEF Enlist
  <2>3. monitors'[b] = IF b \in B /\ monitors[b] = None THEN Fresh ELSE monitors[b]
    BY <2>1 DEF Enlist
  <2>4. wanted'[b] = IF b \in B THEN "live"
                     ELSE IF monitors[b] # None THEN "end" ELSE wanted[b]
    BY <2>1 DEF Enlist
  <2>5. CASE monitors[b] # None
    BY <1>1, <2>1, <2>2, <2>3, <2>4, <2>5, SignalAdded
  <2>6. CASE monitors[b] = None /\ b \notin B
    BY <1>1, <2>1, <2>2, <2>3, <2>4, <2>6, OrderedFrame
  <2>7. CASE monitors[b] = None /\ b \in B
    <3>1. monitors'[b] = Fresh /\ signals'[b] = signals[b] /\ wanted'[b] = "live"
      BY <2>2, <2>3, <2>4, <2>7
    <3>2. Fresh.phase = "running" /\ Fresh.ltsSignal = clock + 1
      BY <1>2, FreshType
    <3>3. /\ \A m \in signals[b] : m.at \in Nat /\ m.at <= clock
          /\ \A m, k \in signals[b] : m.at = k.at => m = k
      BY <1>1 DEF Watch, Signal, Ordered
    <3>4. \A m \in signals[b] : m.at <= clock + 1 /\ ~ (m.at > clock + 1)
      BY <1>2, <3>3
    <3>5. Newer(b)' = {}
      BY <3>1, <3>2, <3>4 DEF Newer
    <3>6. clock' = clock + 1 /\ clock + 1 <= clock'
      BY <1>2, <2>1
    <3>7. ~ EndLife(b)'
      BY <3>1, <3>2 DEF EndLife
    <3>8. QED
      BY <3>1, <3>2, <3>3, <3>4, <3>5, <3>6, <3>7 DEF Ordered
  <2>8. QED
    BY <2>5, <2>6, <2>7
<1>5. ASSUME NEW c \in Bots, HandleCorrupted(c) PROVE Ordered(b)'
  <2>1. monitors' = monitors /\ clock' = clock + 1
    BY <1>5 DEF HandleCorrupted
  <2>2. CASE b = c /\ monitors[b] # None
    <3>1. signals'[b] = signals[b] \cup {Asked({}, b)} /\ wanted'[b] = "end"
      BY <1>1, <1>5, <2>2 DEF HandleCorrupted, Watch
    <3>2. QED
      BY <1>1, <2>1, <2>2, <3>1, SignalAdded
  <2>3. CASE b # c \/ monitors[b] = None
    <3>1. signals'[b] = signals[b] /\ wanted'[b] = wanted[b]
      BY <1>1, <1>5, <2>3 DEF HandleCorrupted, Watch
    <3>2. QED
      BY <1>1, <2>1, <3>1, OrderedFrame
  <2>4. QED
    BY <2>2, <2>3
<1>6. ASSUME NEW c \in Bots, HandleStopped(MailID(c)) PROVE Ordered(b)'
  <2>1. b # MailID(c)
    BY BotAssumption DEF MailID
  <2>2. monitors'[b] = monitors[b] /\ UNCHANGED <<signals, clock, wanted>>
    BY <1>6, <2>1 DEF HandleStopped
  <2>3. QED
    BY <1>1, <2>2, OrderedFrame
<1>7. ASSUME NEW c \in Bots, MonitorStep(c) PROVE Ordered(b)'
  <2>1. PICK m \in signals[c] : MonitorReceive(c, m)
    BY <1>7 DEF MonitorStep
  <2>2. CASE b = c
    BY <1>1, <2>1, <2>2, SignalReceived
  <2>3. CASE b # c
    <3>1. /\ signals'[b] = signals[b] /\ monitors'[b] = monitors[b]
          /\ wanted'[b] = wanted[b] /\ clock' = clock
      BY <1>1, <2>1, <2>3 DEF MonitorReceive, Watch
    <3>2. QED
      BY <1>1, <3>1, OrderedFrame
  <2>4. QED
    BY <2>2, <2>3
<1>8. ASSUME NEW c \in Bots, NEW phase \in {"ending", "expired", "dead"},
             monitors[c] # None, monitors[c].phase \in {"ending", "expired"},
             InPhase(c, phase), UNCHANGED <<signals, clock, wanted>>
      PROVE  Ordered(b)'
  <2>1. /\ monitors'[c].phase = phase /\ monitors'[c].ltsSignal = monitors[c].ltsSignal
        /\ monitors'[c] # None
        /\ \A d \in Bots \ {c} : monitors'[d] = monitors[d]
    BY <1>1, <1>8, InPhaseWatch
  <2>2. CASE b = c
    <3>1. Alive(b) /\ EndLife(b) /\ Newer(b)' = Newer(b)
      BY <1>8, <2>1, <2>2 DEF Alive, EndLife, Newer
    <3>2. Alive(b)' => EndLife(b)'
      BY <2>1, <2>2 DEF Alive, EndLife
    <3>3. monitors'[b].ltsSignal <= clock'
      BY <1>1, <1>8, <2>1, <2>2, <3>1 DEF Ordered
    <3>4. QED
      BY <1>1, <1>8, <3>1, <3>2, <3>3 DEF Ordered
  <2>3. CASE b # c
    BY <1>1, <1>8, <2>1, <2>3, OrderedFrame
  <2>4. QED
    BY <2>2, <2>3
<1>9. CASE \E c \in Bots : FiveMinutes(c) \/ PutOff(c) \/ MonitorStop(c)
  BY <1>8, <1>9 DEF FiveMinutes, PutOff, MonitorStop
<1>10. CASE PostRefresh \/ PostCorrupted
  BY <1>3, <1>10 DEF PostRefresh, PostCorrupted, Post
<1>11. CASE \E s \in Slaves : GetBot(s)
  BY <1>3, <1>11 DEF GetBot
<1>12. CASE UNCHANGED vars
  BY <1>3, <1>12 DEF vars
<1>13. QED
  BY <1>4, <1>5, <1>6, <1>7, <1>9, <1>10, <1>11, <1>12 DEF Next, Handle

(* processMails of cf_bot_monitor.go: comparing time stamps makes up for   *)
(* the postman's lack of order.  A monitor that has taken every signal out *)
(* of its mailbox does what the manager asked for last.                    *)
THEOREM LatestAskedIsDone == Spec => []LatestSignalWins
<1>1. Init => SignalsOrdered
  BY DEF Init, SignalsOrdered, Ordered, Alive
<1>2. Inv /\ SignalsOrdered => LatestSignalWins
  <2>1. ASSUME SignalsOrdered, NEW b \in Bots, Alive(b), signals[b] = {}
        PROVE  EndLife(b) <=> wanted[b] = "end"
    <3>1. Newer(b) = {}
      BY <2>1 DEF Newer
    <3>2. QED
      BY <2>1, <3>1 DEF SignalsOrdered, Ordered
  <2>2. QED
    BY <2>1 DEF LatestSignalWins
<1>3. QED
  BY <1>1, <1>2, SignalsStep, BotInvariant, PTL DEF Spec
=============================================================================
