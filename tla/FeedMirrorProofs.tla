-------------------------- MODULE FeedMirrorProofs --------------------------
(***************************************************************************)
(* The book and the exchange it follows, for any number of packets, prices *)
(* and levels: the connector's ladders are the exchange's, and its count   *)
(* of gaps is the number of losses it could see.                           *)
(***************************************************************************)
EXTENDS FeedMirror, StageProofs

-----------------------------------------------------------------------------
(* Prices in order *)

LEMMA BetterIsAnOrder ==
  ASSUME NEW side \in BookSides, NEW p \in Int, NEW q \in Int, NEW r \in Int
  PROVE  /\ ~ Better(side, p, p)
         /\ Better(side, p, q) => ~ Better(side, q, p)
         /\ Better(side, p, q) /\ Better(side, q, r) => Better(side, p, r)
         /\ p = q \/ Better(side, p, q) \/ Better(side, q, p)
BY DEF Better

Above(side, S, p) == {q \in S : Better(side, q, p)}

LEMMA RankType ==
  ASSUME NEW S \in SUBSET Int, IsFiniteSet(S), NEW side, NEW p
  PROVE  /\ Above(side, S, p) \in SUBSET S /\ IsFiniteSet(Above(side, S, p))
         /\ Cardinality(Above(side, S, p)) \in Nat /\ Cardinality(S) \in Nat
         /\ Rank(side, S, p) = 1 + Cardinality(Above(side, S, p))
         /\ Rank(side, S, p) \in 1 .. Cardinality(S) + 1
<1>1. Above(side, S, p) \in SUBSET S
  BY DEF Above
<1>2. /\ IsFiniteSet(Above(side, S, p)) /\ Cardinality(Above(side, S, p)) \in Nat
      /\ Cardinality(S) \in Nat /\ Cardinality(Above(side, S, p)) <= Cardinality(S)
  BY <1>1, FS_Subset, FS_CardinalityType
<1>3. Rank(side, S, p) = 1 + Cardinality(Above(side, S, p))
  BY DEF Rank, Above
<1> QED BY <1>1, <1>2, <1>3

(* A better price that is there has a lower rank. *)
LEMMA RankFollowsOrder ==
  ASSUME NEW S \in SUBSET Int, IsFiniteSet(S), NEW side \in BookSides,
         NEW p \in S, NEW q \in Int, Better(side, p, q)
  PROVE  Rank(side, S, p) < Rank(side, S, q)
<1> DEFINE A == Above(side, S, p)
           B == Above(side, S, q)
<1>1. p \notin A /\ A \cup {p} \in SUBSET B
  BY BetterIsAnOrder DEF Above
<1>2. /\ IsFiniteSet(A) /\ Cardinality(A) \in Nat /\ IsFiniteSet(B) /\ Cardinality(B) \in Nat
      /\ Rank(side, S, p) = 1 + Cardinality(A) /\ Rank(side, S, q) = 1 + Cardinality(B)
  BY RankType
<1> HIDE DEF A, B
<1>3. Cardinality(A \cup {p}) = Cardinality(A) + 1
  BY <1>1, <1>2, FS_AddElement
<1>4. Cardinality(A \cup {p}) <= Cardinality(B)
  BY <1>1, <1>2, FS_Subset
<1> QED BY <1>2, <1>3, <1>4

LEMMA RankOfMember ==
  ASSUME NEW S \in SUBSET Int, IsFiniteSet(S), NEW side \in BookSides, NEW p \in S
  PROVE  /\ Rank(side, S, p) \in 1 .. Cardinality(S)
         /\ \A q \in S : Rank(side, S, p) = Rank(side, S, q) => p = q
         /\ \A q \in S : Better(side, p, q) <=> Rank(side, S, p) < Rank(side, S, q)
<1> DEFINE A == Above(side, S, p)
<1>1. p \notin A /\ A \cup {p} \in SUBSET S
  BY BetterIsAnOrder DEF Above
<1>2. /\ IsFiniteSet(A) /\ Cardinality(A) \in Nat /\ Cardinality(S) \in Nat
      /\ Rank(side, S, p) = 1 + Cardinality(A)
  BY RankType
<1> HIDE DEF A
<1>3. Cardinality(A \cup {p}) = Cardinality(A) + 1
  BY <1>1, <1>2, FS_AddElement
<1>4. Cardinality(A \cup {p}) <= Cardinality(S)
  BY <1>1, FS_Subset
<1>5. ASSUME NEW q \in S
      PROVE  /\ Rank(side, S, p) = Rank(side, S, q) => p = q
             /\ Better(side, p, q) <=> Rank(side, S, p) < Rank(side, S, q)
  <2>1. Rank(side, S, p) \in Int /\ Rank(side, S, q) \in Int
    BY RankType
  <2>2. p = q \/ Better(side, p, q) \/ Better(side, q, p)
    BY BetterIsAnOrder
  <2>3. Better(side, p, q) => Rank(side, S, p) < Rank(side, S, q)
    BY RankFollowsOrder
  <2>4. Better(side, q, p) => Rank(side, S, q) < Rank(side, S, p)
    BY RankFollowsOrder
  <2> QED BY <2>1, <2>2, <2>3, <2>4
<1> QED BY <1>2, <1>3, <1>4, <1>5

(* Every rank up to the number of prices is some price's. *)
LEMMA RanksAreFilled ==
  ASSUME NEW S \in SUBSET Int, IsFiniteSet(S), NEW side \in BookSides,
         NEW k \in 1 .. Cardinality(S)
  PROVE  /\ AtRank(side, S, k) \in S
         /\ Rank(side, S, AtRank(side, S, k)) = k
<1> DEFINE n == Cardinality(S)
           f == [p \in S |-> Rank(side, S, p)]
<1>1. n \in Nat
  BY FS_CardinalityType
<1>2. IsFiniteSet(1 .. n) /\ Cardinality(1 .. n) = n
  BY <1>1, FS_Interval
<1>3. f \in Injection(S, 1 .. n)
  BY RankOfMember DEF Injection, IsInjective
<1>4. f \in Surjection(S, 1 .. n)
  <2> HIDE DEF f, n
  <2> QED BY <1>2, <1>3, FS_Injection DEF n
<1>5. \E p \in S : Rank(side, S, p) = k
  BY <1>4 DEF Surjection
<1> QED BY <1>5 DEF AtRank

(* The ladder of a side is the one sequence of its best prices, each at    *)
(* its rank.                                                               *)
Depth(S) == IF Cardinality(S) <= FeedDepth THEN Cardinality(S) ELSE FeedDepth
Shows(L, side, S) ==
    /\ L \in Seq(Int)
    /\ Len(L) = Depth(S)
    /\ \A k \in 1 .. Depth(S) : L[k] \in S /\ Rank(side, S, L[k]) = k

LEMMA DepthType ==
  ASSUME NEW S, IsFiniteSet(S)
  PROVE  /\ Depth(S) \in Nat /\ Cardinality(S) \in Nat /\ Depth(S) = Min({Cardinality(S), FeedDepth})
         /\ Depth(S) <= Cardinality(S) /\ Depth(S) <= FeedDepth
<1>1. Cardinality(S) \in Nat /\ FeedDepth \in Nat
  BY FS_CardinalityType, FeedAssumption
<1>2. Min({Cardinality(S), FeedDepth}) = Depth(S)
  <2> DEFINE m == Min({Cardinality(S), FeedDepth})
  <2>1. {Cardinality(S), FeedDepth} \in SUBSET Nat
    BY <1>1
  <2>2. m \in {Cardinality(S), FeedDepth} /\ \A y \in {Cardinality(S), FeedDepth} : m <= y
    BY <2>1, MinOfNats
  <2> HIDE DEF m
  <2>3. m = Depth(S)
    BY <1>1, <2>2 DEF Depth
  <2> QED BY <2>3 DEF m
<1> QED BY <1>1, <1>2 DEF Depth

LEMMA VisibleShows ==
  ASSUME NEW S \in SUBSET Int, IsFiniteSet(S), NEW side \in BookSides
  PROVE  Shows(Visible(side, S), side, S)
<1> DEFINE d == Depth(S)
           L == Visible(side, S)
<1>1. d \in Nat /\ d <= Cardinality(S) /\ Cardinality(S) \in Nat
  BY DepthType
<1>2. L = [k \in 1 .. d |-> AtRank(side, S, k)]
  BY DepthType DEF Visible
<1>3. \A k \in 1 .. d : AtRank(side, S, k) \in S /\ Rank(side, S, AtRank(side, S, k)) = k
  BY <1>1, RanksAreFilled
<1> HIDE DEF d, L
<1>4. L \in Seq(Int) /\ Len(L) = d
  <2>1. \A k \in 1 .. d : AtRank(side, S, k) \in Int
    BY <1>3
  <2>2. L \in Seq(Int)
    BY <1>1, <1>2, <2>1, IsASeq
  <2>3. DOMAIN L = 1 .. d /\ DOMAIN L = 1 .. Len(L) /\ Len(L) \in Nat
    BY <1>2, <2>2, LenProperties
  <2> QED BY <1>1, <2>2, <2>3
<1> QED BY <1>2, <1>3, <1>4 DEF Shows, d, L

LEMMA ShowsIsVisible ==
  ASSUME NEW S \in SUBSET Int, IsFiniteSet(S), NEW side \in BookSides,
         NEW L, Shows(L, side, S)
  PROVE  L = Visible(side, S)
<1> DEFINE V == Visible(side, S)
           d == Depth(S)
<1>1. Shows(V, side, S) /\ d \in Nat
  BY VisibleShows, DepthType
<1>2. /\ L \in Seq(Int) /\ V \in Seq(Int) /\ Len(L) = d /\ Len(V) = d
      /\ \A k \in 1 .. d : L[k] \in S /\ V[k] \in S /\ Rank(side, S, L[k]) = Rank(side, S, V[k])
  BY <1>1 DEF Shows
<1> HIDE DEF V, d
<1>3. \A k \in 1 .. d : L[k] = V[k]
  BY <1>2, RankOfMember
<1>4. L = V
  BY <1>1, <1>2, <1>3, SeqEqual
<1> QED BY <1>4 DEF V

-----------------------------------------------------------------------------
(* How ranks follow the exchange's book *)

LEMMA RankIsMonotone ==
  ASSUME NEW S \in SUBSET Int, IsFiniteSet(S), NEW side \in BookSides,
         NEW p \in Int, NEW q \in Int, Better(side, p, q)
  PROVE  Rank(side, S, p) <= Rank(side, S, q)
<1>1. Above(side, S, p) \in SUBSET Above(side, S, q)
  BY BetterIsAnOrder DEF Above
<1>2. Cardinality(Above(side, S, p)) <= Cardinality(Above(side, S, q))
  BY <1>1, RankType, FS_Subset
<1> QED BY <1>2, RankType

LEMMA RankAfterAppear ==
  ASSUME NEW S \in SUBSET Int, IsFiniteSet(S), NEW side \in BookSides,
         NEW p \in Int, p \notin S, NEW q \in Int
  PROVE  Rank(side, S \cup {p}, q)
           = Rank(side, S, q) + (IF Better(side, p, q) THEN 1 ELSE 0)
<1> DEFINE A == Above(side, S, q)
           B == Above(side, S \cup {p}, q)
<1>1. IsFiniteSet(S \cup {p}) /\ S \cup {p} \in SUBSET Int
  BY FS_AddElement
<1>2. /\ IsFiniteSet(A) /\ Cardinality(A) \in Nat /\ Rank(side, S, q) = 1 + Cardinality(A)
      /\ Rank(side, S \cup {p}, q) = 1 + Cardinality(B)
  BY <1>1, RankType
<1>3. p \notin A /\ B = IF Better(side, p, q) THEN A \cup {p} ELSE A
  BY DEF Above
<1> HIDE DEF A, B
<1>4. Cardinality(A \cup {p}) = Cardinality(A) + 1
  BY <1>2, <1>3, FS_AddElement
<1> QED BY <1>2, <1>3, <1>4

LEMMA RankAfterVanish ==
  ASSUME NEW S \in SUBSET Int, IsFiniteSet(S), NEW side \in BookSides,
         NEW p \in S, NEW q \in Int
  PROVE  /\ IsFiniteSet(S \ {p}) /\ Cardinality(S \ {p}) = Cardinality(S) - 1
         /\ Rank(side, S \ {p}, q)
              = Rank(side, S, q) - (IF Better(side, p, q) THEN 1 ELSE 0)
<1> DEFINE T == S \ {p}
<1>1. IsFiniteSet(T) /\ T \in SUBSET Int /\ p \notin T /\ T \cup {p} = S
      /\ Cardinality(T) = Cardinality(S) - 1
  BY FS_RemoveElement
<1> HIDE DEF T
<1>2. Rank(side, T \cup {p}, q) = Rank(side, T, q) + (IF Better(side, p, q) THEN 1 ELSE 0)
  BY <1>1, RankAfterAppear
<1>3. Rank(side, T, q) \in Int
  BY <1>1, RankType
<1> QED BY <1>1, <1>2, <1>3 DEF T

(* A new price at its level. *)
LEMMA InsertShows ==
  ASSUME NEW S \in SUBSET Int, IsFiniteSet(S), NEW side \in BookSides,
         NEW p \in Int, p \notin S, Rank(side, S, p) <= FeedDepth,
         FeedDepth = MaxDepth, NEW L, Shows(L, side, S)
  PROVE  Shows(Insert(L, Rank(side, S, p), p), side, S \cup {p})
<1> DEFINE level == Rank(side, S, p)
           d == Depth(S)
           T == S \cup {p}
           e == Depth(T)
           room == IF d = MaxDepth THEN Front(L) ELSE L
           N == InsertAt(room, level, p)
<1>1. /\ T \in SUBSET Int /\ IsFiniteSet(T) /\ Cardinality(T) = Cardinality(S) + 1
      /\ Cardinality(S) \in Nat /\ FeedDepth \in Nat \ {0}
  BY FS_AddElement, FS_CardinalityType, FeedAssumption
<1>2. level \in 1 .. Cardinality(S) + 1 /\ level \in Nat
  BY RankType
<1>3. /\ d \in Nat /\ e \in Nat /\ level <= d + 1 /\ level <= e
      /\ e = IF d = MaxDepth THEN d ELSE d + 1
      /\ d <= MaxDepth
  BY <1>1, <1>2 DEF Depth
<1>4. /\ L \in Seq(Int) /\ Len(L) = d
      /\ \A k \in 1 .. d : L[k] \in S /\ Rank(side, S, L[k]) = k
  BY DEF Shows
<1>5. /\ room \in Seq(Int) /\ Len(room) = e - 1
      /\ \A k \in 1 .. e - 1 : room[k] = L[k]
  <2>1. CASE d = MaxDepth
    <3>1. d # 0
      BY <1>1, <2>1
    <3>2. L # <<>>
      BY <1>4, <3>1, EmptySeq
    <3> QED BY <1>3, <1>4, <2>1, <3>2, FrontFacts
  <2>2. CASE d # MaxDepth
    BY <1>3, <1>4, <2>2
  <2> QED BY <2>1, <2>2
<1>6. Insert(L, level, p) = N
  <2> HIDE DEF d, e, level
  <2>1. ~ (level > Len(L) + 1) /\ level <= Len(room) + 1
    BY <1>2, <1>3, <1>4, <1>5
  <2> QED BY <1>4, <2>1 DEF Insert
<1> HIDE DEF room, d, e
<1>7. /\ N \in Seq(Int) /\ Len(N) = e
      /\ \A k \in 1 .. e : N[k] = IF k < level THEN L[k] ELSE IF k = level THEN p ELSE L[k - 1]
  <2> HIDE DEF level
  <2>1. level \in 1 .. Len(room) + 1
    BY <1>2, <1>3, <1>5
  <2>2. /\ N \in Seq(Int) /\ Len(N) = Len(room) + 1
        /\ \A k \in 1 .. Len(room) + 1 :
              N[k] = IF k < level THEN room[k] ELSE IF k = level THEN p ELSE room[k - 1]
    <3>1. room \in Seq(Int) /\ p \in Int /\ N = InsertAt(room, level, p)
      BY <1>5
    <3> HIDE DEF N, room
    <3>2. Inserted(N, room, level, p)
      BY <2>1, <3>1, InsertAtFacts
    <3> QED BY <3>2 DEF Inserted
  <2> HIDE DEF N
  <2>3. ASSUME NEW k \in 1 .. e
        PROVE  N[k] = IF k < level THEN L[k] ELSE IF k = level THEN p ELSE L[k - 1]
    <3>1. CASE k < level
      BY <1>2, <1>3, <1>5, <2>2, <3>1
    <3>2. CASE k = level
      BY <1>2, <1>3, <1>5, <2>2, <3>2
    <3>3. CASE k > level
      <4>1. k - 1 \in 1 .. e - 1 /\ k \in 1 .. Len(room) + 1
        BY <1>2, <1>3, <1>5, <3>3
      <4> QED BY <1>2, <1>5, <2>2, <3>3, <4>1
    <3> QED BY <1>2, <1>3, <3>1, <3>2, <3>3
  <2> QED BY <1>3, <1>5, <2>2, <2>3
<1> HIDE DEF N
<1>8. ASSUME NEW k \in 1 .. e PROVE N[k] \in T /\ Rank(side, T, N[k]) = k
  <2>1. CASE k < level
    <3> DEFINE q == L[k]
    <3>1. N[k] = q /\ q \in S /\ Rank(side, S, q) = k
      BY <1>2, <1>3, <1>4, <1>7, <2>1
    <3> HIDE DEF q
    <3>2. ~ Better(side, p, q)
      BY <1>2, <2>1, <3>1, RankIsMonotone
    <3> QED BY <3>1, <3>2, RankAfterAppear
  <2>2. CASE k = level
    <3>1. N[k] = p
      BY <1>7, <2>2
    <3>2. Rank(side, T, p) = level
      BY <1>2, BetterIsAnOrder, RankAfterAppear
    <3> QED BY <2>2, <3>1, <3>2
  <2>3. CASE k > level
    <3> DEFINE q == L[k - 1]
    <3>1. N[k] = q /\ k - 1 \in 1 .. d
      BY <1>2, <1>3, <1>7, <2>3
    <3>2. q \in S /\ Rank(side, S, q) = k - 1
      BY <1>4, <3>1
    <3> HIDE DEF q
    <3>3. ~ Better(side, q, p)
      BY <1>2, <2>3, <3>2, RankFollowsOrder
    <3>4. Better(side, p, q)
      BY <3>2, <3>3, BetterIsAnOrder
    <3> QED BY <3>1, <3>2, <3>4, RankAfterAppear
  <2> QED BY <1>2, <1>3, <2>1, <2>2, <2>3
<1> QED BY <1>6, <1>7, <1>8 DEF Shows, e

(* N's first n prices are the n best of T, in order. *)
Ranked(N, side, T, n) == \A k \in 1 .. n : N[k] \in T /\ Rank(side, T, N[k]) = k

(* A price leaves the ladder: those below it move up, *)
LEMMA RemovalRanks ==
  ASSUME NEW S \in SUBSET Int, IsFiniteSet(S), NEW side \in BookSides,
         NEW p \in S, Rank(side, S, p) <= FeedDepth, NEW L, Shows(L, side, S)
  PROVE  LET N == Drop(L, Rank(side, S, p))
         IN  /\ N \in Seq(Int) /\ Depth(S) \in Nat \ {0} /\ Len(N) = Depth(S) - 1
             /\ Ranked(N, side, S \ {p}, Depth(S) - 1)
<1> DEFINE level == Rank(side, S, p)
           d == Depth(S)
           T == S \ {p}
           N == Drop(L, level)
<1>1. level \in 1 .. Cardinality(S) /\ Cardinality(S) \in Nat /\ FeedDepth \in Nat \ {0}
  BY RankOfMember, FS_CardinalityType, FeedAssumption
<1>2. d \in Nat \ {0} /\ level \in 1 .. d
  BY <1>1 DEF Depth
<1>3. /\ L \in Seq(Int) /\ Len(L) = d
      /\ \A k \in 1 .. d : L[k] \in S /\ Rank(side, S, L[k]) = k
  BY DEF Shows
<1>4. /\ N \in Seq(Int) /\ Len(N) = d - 1
      /\ \A k \in 1 .. d - 1 : N[k] = IF k < level THEN L[k] ELSE L[k + 1]
  <2> HIDE DEF level, d
  <2>1. N = RemoveAt(L, level)
    BY <1>2, <1>3 DEF Drop
  <2> HIDE DEF N
  <2>2. Removed(N, L, level)
    BY <1>2, <1>3, <2>1, RemoveAtFacts
  <2> QED BY <1>3, <2>2 DEF Removed
<1> HIDE DEF d, N
<1>5. ASSUME NEW k \in 1 .. d - 1 PROVE N[k] \in T /\ Rank(side, T, N[k]) = k
  <2>1. CASE k < level
    <3> DEFINE q == L[k]
    <3>1. N[k] = q /\ q \in S /\ Rank(side, S, q) = k
      BY <1>2, <1>3, <1>4, <2>1
    <3> HIDE DEF q
    <3>2. ~ Better(side, p, q) /\ p # q
      <4>1. q \in Int /\ level = Rank(side, S, p) /\ ~ (level < k) /\ level # k
        BY <1>1, <2>1, <3>1
      <4>2. ASSUME Better(side, p, q) PROVE FALSE
        <5>1. Rank(side, S, p) < Rank(side, S, q)
          BY <4>1, <4>2, RankFollowsOrder, Zenon
        <5> QED BY <3>1, <4>1, <5>1
      <4> QED BY <3>1, <4>1, <4>2
    <3> QED BY <1>1, <3>1, <3>2, RankAfterVanish
  <2>2. CASE k >= level
    <3> DEFINE q == L[k + 1]
    <3>1. N[k] = q /\ k + 1 \in 1 .. d
      BY <1>2, <1>4, <2>2
    <3>2. q \in S /\ Rank(side, S, q) = k + 1
      BY <1>3, <3>1
    <3> HIDE DEF q
    <3>3. Better(side, p, q) /\ p # q
      BY <1>1, <2>2, <3>2, RankOfMember
    <3>4. Rank(side, T, q) = (k + 1) - 1
      BY <3>2, <3>3, RankAfterVanish
    <3> QED BY <3>1, <3>2, <3>3, <3>4
  <2> QED BY <1>1, <2>1, <2>2
<1> QED BY <1>2, <1>4, <1>5 DEF Ranked, N, d

LEMMA InsertAtEnd ==
  ASSUME NEW s \in Seq(Int), NEW n, n = Len(s) + 1, NEW e \in Int
  PROVE  /\ InsertAt(s, n, e) \in Seq(Int) /\ Len(InsertAt(s, n, e)) = n
         /\ \A k \in 1 .. n : InsertAt(s, n, e)[k] = IF k < n THEN s[k] ELSE e
<1>1. n \in 1 .. Len(s) + 1 /\ n \in Nat
  BY LenProperties
<1>2. /\ InsertAt(s, n, e) \in Seq(Int) /\ Len(InsertAt(s, n, e)) = Len(s) + 1
      /\ \A k \in 1 .. Len(s) + 1 :
            InsertAt(s, n, e)[k] = IF k < n THEN s[k] ELSE IF k = n THEN e ELSE s[k - 1]
  <2>1. Inserted(InsertAt(s, n, e), s, n, e)
    BY <1>1, InsertAtFacts
  <2> QED BY <2>1 DEF Inserted
<1>3. ASSUME NEW k \in 1 .. n PROVE InsertAt(s, n, e)[k] = IF k < n THEN s[k] ELSE e
  <2>1. InsertAt(s, n, e)[k] = IF k < n THEN s[k] ELSE IF k = n THEN e ELSE s[k - 1]
    BY <1>2
  <2>2. k < n \/ k = n
    BY <1>1
  <2> QED BY <2>1, <2>2
<1> QED BY <1>2, <1>3

(* and if there was one below the feed's depth it comes into it. *)
LEMMA RefillShows ==
  ASSUME NEW S \in SUBSET Int, IsFiniteSet(S), NEW side \in BookSides,
         NEW p \in S, Rank(side, S, p) <= FeedDepth, FeedDepth = MaxDepth,
         NEW L, Shows(L, side, S)
  PROVE  LET N == Drop(L, Rank(side, S, p))
         IN  /\ Cardinality(S) <= FeedDepth => Shows(N, side, S \ {p})
             /\ Cardinality(S) > FeedDepth
                  => /\ AtRank(side, S, FeedDepth + 1) \in Int
                     /\ Shows(Insert(N, FeedDepth, AtRank(side, S, FeedDepth + 1)),
                              side, S \ {p})
<1> DEFINE N == Drop(L, Rank(side, S, p))
           T == S \ {p}
           b == AtRank(side, S, FeedDepth + 1)
           M == InsertAt(N, FeedDepth, b)
<1>1. /\ N \in Seq(Int) /\ Depth(S) \in Nat \ {0} /\ Len(N) = Depth(S) - 1
      /\ \A k \in 1 .. Depth(S) - 1 : N[k] \in T /\ Rank(side, T, N[k]) = k
  <2>1. /\ N \in Seq(Int) /\ Depth(S) \in Nat \ {0} /\ Len(N) = Depth(S) - 1
        /\ Ranked(N, side, T, Depth(S) - 1)
    BY RemovalRanks
  <2> HIDE DEF N, T
  <2> QED BY <2>1 DEF Ranked
<1> HIDE DEF N
<1>2. /\ IsFiniteSet(T) /\ Cardinality(T) = Cardinality(S) - 1 /\ Cardinality(S) \in Nat
      /\ FeedDepth \in Nat \ {0}
  BY RankAfterVanish, FS_CardinalityType, FeedAssumption
<1>3. ASSUME Cardinality(S) <= FeedDepth PROVE Shows(N, side, T)
  <2>1. Depth(T) = Depth(S) - 1
    BY <1>2, <1>3 DEF Depth
  <2> QED BY <1>1, <2>1 DEF Shows
<1>4. ASSUME Cardinality(S) > FeedDepth
      PROVE  b \in Int /\ Shows(Insert(N, FeedDepth, b), side, T)
  <2>1. Depth(S) = FeedDepth /\ Depth(T) = FeedDepth
    BY <1>2, <1>4 DEF Depth
  <2>2. b \in S /\ Rank(side, S, b) = FeedDepth + 1
    <3>1. FeedDepth + 1 \in 1 .. Cardinality(S)
      BY <1>2, <1>4
    <3> QED BY <3>1, RanksAreFilled
  <2> HIDE DEF b
  <2>3. Better(side, p, b) /\ b \in T
    <3>1. Rank(side, S, p) < Rank(side, S, b)
      BY <1>2, <2>2, RankType
    <3> QED BY <2>2, <3>1, RankOfMember
  <2>4. Rank(side, T, b) = FeedDepth
    BY <1>2, <2>2, <2>3, RankAfterVanish
  <2>5. Insert(N, FeedDepth, b) = M
    BY <1>1, <1>2, <2>1 DEF Insert
  <2>6. FeedDepth \in 1 .. Len(N) + 1 /\ b \in Int /\ Len(N) + 1 = FeedDepth
    BY <1>1, <1>2, <2>1, <2>2
  <2>7. /\ M \in Seq(Int) /\ Len(M) = FeedDepth
        /\ \A k \in 1 .. FeedDepth : M[k] = IF k < FeedDepth THEN N[k] ELSE b
    <3>1. FeedDepth = Len(N) + 1 /\ N \in Seq(Int) /\ b \in Int
      BY <1>1, <2>6
    <3> QED BY <3>1, InsertAtEnd, Zenon
  <2> HIDE DEF M
  <2>8. \A k \in 1 .. FeedDepth : M[k] \in T /\ Rank(side, T, M[k]) = k
    <3> SUFFICES ASSUME NEW k \in 1 .. FeedDepth
                 PROVE  M[k] \in T /\ Rank(side, T, M[k]) = k
      OBVIOUS
    <3>1. CASE k = FeedDepth
      BY <2>3, <2>4, <2>7, <3>1
    <3>2. CASE k # FeedDepth
      <4>1. k \in 1 .. FeedDepth - 1 /\ k < FeedDepth
        BY <1>2, <3>2
      <4>2. M[k] = N[k]
        BY <2>7, <4>1
      <4> QED BY <1>1, <2>1, <4>1, <4>2
    <3> QED BY <3>1, <3>2
  <2> QED BY <2>1, <2>5, <2>6, <2>7, <2>8 DEF Shows
<1> QED BY <1>3, <1>4 DEF N

(* A price that moves without passing another one keeps its level. *)
LEMMA ReplaceShows ==
  ASSUME NEW S \in SUBSET Int, IsFiniteSet(S), NEW side \in BookSides,
         NEW p \in S, NEW q \in Int, q \notin S, Rank(side, S, p) <= FeedDepth,
         Rank(side, S \ {p}, q) = Rank(side, S, p),
         NEW L, Shows(L, side, S)
  PROVE  Shows(Replace(L, Rank(side, S, p), q), side, (S \ {p}) \cup {q})
<1> DEFINE level == Rank(side, S, p)
           d == Depth(S)
           N == Replace(L, level, q)
           T == S \ {p}
           U == T \cup {q}
<1>1. /\ level \in 1 .. Cardinality(S) /\ Cardinality(S) \in Nat /\ FeedDepth \in Nat \ {0}
      /\ IsFiniteSet(T) /\ T \in SUBSET Int /\ q \notin T
  BY RankOfMember, FS_CardinalityType, FS_RemoveElement, FeedAssumption
<1>2. d \in Nat \ {0} /\ level \in 1 .. d
  BY <1>1 DEF Depth
<1>3. Depth(U) = d
  <2>1. Cardinality(T) = Cardinality(S) - 1 /\ Cardinality(U) = Cardinality(T) + 1
    BY <1>1, FS_RemoveElement, FS_AddElement
  <2>2. Cardinality(U) = Cardinality(S)
    BY <1>1, <2>1
  <2> QED BY <2>2 DEF Depth
<1>4. /\ L \in Seq(Int) /\ Len(L) = d
      /\ \A k \in 1 .. d : L[k] \in S /\ Rank(side, S, L[k]) = k
  BY DEF Shows
<1>5. /\ N \in Seq(Int) /\ Len(N) = d
      /\ \A k \in 1 .. d : N[k] = IF k = level THEN q ELSE L[k]
  <2> HIDE DEF level, d
  <2>1. N = [L EXCEPT ![level] = q]
    BY <1>2, <1>4 DEF Replace
  <2> QED BY <1>2, <1>4, <2>1, ExceptSeq
<1> HIDE DEF N, d
<1>6. ASSUME NEW k \in 1 .. d PROVE N[k] \in U /\ Rank(side, U, N[k]) = k
  <2> DEFINE r == L[k]
  <2>1. r \in S /\ Rank(side, S, r) = k
    BY <1>4
  <2> HIDE DEF r
  <2>2. CASE k = level
    <3>1. N[k] = q /\ ~ Better(side, q, q)
      BY <1>5, <2>2, BetterIsAnOrder
    <3>2. Rank(side, U, q) = Rank(side, T, q) /\ Rank(side, T, q) = level
      BY <1>1, <3>1, RankAfterAppear
    <3> QED BY <2>2, <3>1, <3>2
  <2>3. CASE k < level
    <3>1. N[k] = r /\ r # p /\ ~ Better(side, p, r)
      BY <1>1, <1>5, <2>1, <2>3, RankOfMember DEF r
    <3>2. r \in T /\ Rank(side, T, r) = k
      BY <2>1, <3>1, RankAfterVanish
    <3>3. ~ Better(side, q, r)
      BY <1>1, <2>1, <2>3, <3>2, RankIsMonotone
    <3> QED BY <1>1, <3>1, <3>2, <3>3, RankAfterAppear
  <2>4. CASE k > level
    <3>1. N[k] = r /\ r # p /\ Better(side, p, r)
      BY <1>1, <1>5, <2>1, <2>4, RankOfMember DEF r
    <3>2. r \in T /\ Rank(side, T, r) = k - 1
      BY <2>1, <3>1, RankAfterVanish
    <3>3. ~ Better(side, r, q)
      BY <1>1, <2>1, <2>4, <3>2, RankFollowsOrder
    <3>4. Better(side, q, r)
      BY <1>1, <3>2, <3>3, BetterIsAnOrder
    <3> QED BY <1>1, <3>1, <3>2, <3>4, RankAfterAppear
  <2> QED BY <1>1, <2>2, <2>3, <2>4
<1> QED BY <1>3, <1>5, <1>6 DEF Shows, N

(* The prices from a level on disappear. *)
LEMMA TruncateShows ==
  ASSUME NEW S \in SUBSET Int, IsFiniteSet(S), NEW side \in BookSides,
         NEW p \in S, Rank(side, S, p) <= FeedDepth, NEW L, Shows(L, side, S)
  PROVE  Shows(Truncate(L, Rank(side, S, p)), side, Above(side, S, p))
<1> DEFINE level == Rank(side, S, p)
           d == Depth(S)
           N == Truncate(L, level)
           A == Above(side, S, p)
<1>1. /\ level \in 1 .. Cardinality(S) /\ Cardinality(S) \in Nat /\ FeedDepth \in Nat \ {0}
      /\ A \in SUBSET S /\ IsFiniteSet(A) /\ Cardinality(A) = level - 1
  <2>1. level \in 1 .. Cardinality(S)
    BY RankOfMember
  <2>2. /\ A \in SUBSET S /\ IsFiniteSet(A) /\ Cardinality(A) \in Nat /\ Cardinality(S) \in Nat
        /\ level = 1 + Cardinality(A)
    BY RankType
  <2> HIDE DEF A, level
  <2> QED BY <2>1, <2>2, FeedAssumption
<1>2. d \in Nat /\ level \in 1 .. d /\ Depth(A) = level - 1
  BY <1>1 DEF Depth
<1>3. /\ L \in Seq(Int) /\ Len(L) = d
      /\ \A k \in 1 .. d : L[k] \in S /\ Rank(side, S, L[k]) = k
  BY DEF Shows
<1>4. /\ N \in Seq(Int) /\ Len(N) = level - 1
      /\ \A k \in 1 .. level - 1 : N[k] = L[k]
  <2> HIDE DEF level, d
  <2>1. N = SubSeq(L, 1, level - 1) /\ level - 1 \in 0 .. Len(L)
    BY <1>2, <1>3 DEF Truncate
  <2> QED BY <1>3, <2>1, PrefixFacts
<1> HIDE DEF N, d
<1>5. ASSUME NEW k \in 1 .. level - 1 PROVE N[k] \in A /\ Rank(side, A, N[k]) = k
  <2> DEFINE r == L[k]
  <2>1. N[k] = r /\ r \in S /\ Rank(side, S, r) = k
    BY <1>1, <1>2, <1>3, <1>4
  <2> HIDE DEF r
  <2>2. Better(side, r, p)
    BY <1>1, <2>1, RankOfMember
  <2>3. Above(side, A, r) = Above(side, S, r)
    BY <2>1, <2>2, BetterIsAnOrder DEF Above
  <2>4. r \in A
    BY <2>1, <2>2 DEF Above
  <2>5. Rank(side, A, r) = Rank(side, S, r)
    BY <2>3 DEF Rank, Above
  <2> QED BY <2>1, <2>4, <2>5
<1> QED BY <1>2, <1>4, <1>5 DEF Shows, N
-----------------------------------------------------------------------------
(* A packet is applied entry by entry *)

LEMMA MaxOfInterval ==
  ASSUME NEW n \in Nat, NEW s \in SUBSET (1 .. n), s # {}
  PROVE  /\ Max(s) \in s /\ \A y \in s : Max(s) >= y
<1> DEFINE R == {n - x : x \in s}
           m == Min(R)
<1>1. R \in SUBSET Nat /\ R # {}
  <2>1. ASSUME NEW x \in s PROVE n - x \in Nat
    OBVIOUS
  <2>2. PICK x \in s : TRUE
    OBVIOUS
  <2>3. n - x \in R
    OBVIOUS
  <2> QED BY <2>1, <2>3
<1>2. m \in R /\ \A y \in R : m <= y
  <2> HIDE DEF R
  <2> QED BY <1>1, MinOfNats
<1> HIDE DEF m
<1>3. PICK x \in s : m = n - x
  BY <1>2
<1>4. ASSUME NEW y \in s PROVE x >= y
  <2>1. n - y \in R
    OBVIOUS
  <2>2. m <= n - y /\ x \in Int /\ y \in Int
    BY <1>2, <2>1
  <2> QED BY <1>3, <2>2
<1>5. \E z \in s : \A y \in s : z >= y
  BY <1>4
<1> QED BY <1>5 DEF Max

LEMMA MaxIsLast ==
  ASSUME NEW n \in Nat, NEW k \in 1 .. n
  PROVE  Max(1 .. k) = k /\ (1 .. k) \ {Max(1 .. k)} = 1 .. k - 1
<1>1. (1 .. k) \in SUBSET (1 .. n) /\ k \in 1 .. k
  OBVIOUS
<1>2. Max(1 .. k) \in 1 .. k /\ Max(1 .. k) >= k
  BY <1>1, MaxOfInterval
<1>3. Max(1 .. k) = k
  BY <1>2
<1> QED BY <1>3

Played(b, packet) == FoldLeft(ApplyEntry, b, packet)

(* The books P[0], P[1], ..., P[n] on the way through the entries s. *)
Passes(P, b, s, n) ==
    /\ P[0] = b
    /\ \A k \in 1 .. n : P[k - 1] \in InstrumentBook /\ P[k] = ApplyEntry(P[k - 1], s[k])
    /\ P[n] \in InstrumentBook

Folding(g, b, D, s) ==
    g = [r \in SUBSET D |-> IF r = {} THEN b ELSE ApplyEntry(g[r \ {Max(r)}], s[Max(r)])]

LEMMA PlayedUnfolds ==
  ASSUME NEW b \in InstrumentBook, NEW n \in Nat, NEW s, DOMAIN s = 1 .. n,
         \A k \in 1 .. n : WellFormedEntry(s[k])
  PROVE  \E P : Passes(P, b, s, n) /\ Played(b, s) = P[n]
<1> DEFINE D == 1 .. n
           pick == [r \in SUBSET D |-> Max(r)]
           F == [k \in D |-> [v \in InstrumentBook |-> ApplyEntry(v, s[k])]]
<1>1. IsFiniteSet(D)
  BY FS_Interval
<1>2. Picks(pick, D)
  BY MaxOfInterval DEF Picks
<1>3. Keeps(F, D, InstrumentBook)
  BY ApplyKeepsBook DEF Keeps
<1>4. PICK g \in [SUBSET D -> InstrumentBook] : Recurses(g, D, b, pick, F)
  <2> HIDE DEF D, F, pick
  <2> QED BY <1>1, <1>2, <1>3, SubsetRecursion, Zenon
<1>5. ASSUME NEW r \in SUBSET D, r # {}
      PROVE  g[r] = ApplyEntry(g[r \ {Max(r)}], s[Max(r)])
  <2> HIDE DEF pick
  <2>1. pick[r] = Max(r) /\ Max(r) \in D /\ g[r \ {Max(r)}] \in InstrumentBook
    BY <1>5, MaxOfInterval DEF pick
  <2>2. g[r] = F[Max(r)][g[r \ {Max(r)}]]
    BY <1>4, <1>5, <2>1 DEF Recurses
  <2> QED BY <2>1, <2>2
<1>6. g[{}] = b
  BY <1>4 DEF Recurses
<1>7. Folding(g, b, D, s)
  <2> HIDE DEF D
  <2> QED BY <1>5, <1>6 DEF Folding
<1>8. Played(b, s) = (CHOOSE h : Folding(h, b, D, s))[D]
  BY DEF Played, FoldLeft, MapThenFoldSet, Folding
<1>9. PICK h : Played(b, s) = h[D] /\ Folding(h, b, D, s)
  BY <1>7, <1>8
<1>10. \A r \in SUBSET D :
          h[r] = IF r = {} THEN b ELSE ApplyEntry(h[r \ {Max(r)}], s[Max(r)])
  <2> HIDE DEF D
  <2> QED BY <1>9 DEF Folding
<1> DEFINE P == [k \in 0 .. n |-> h[1 .. k]]
<1>11. P[0] = b /\ P[n] = h[D]
  <2>1. 1 .. 0 = {} /\ {} \in SUBSET D /\ 0 \in 0 .. n /\ n \in 0 .. n
    OBVIOUS
  <2>2. h[{}] = b
    BY <1>10, <2>1
  <2>3. P[0] = h[1 .. 0] /\ P[n] = h[1 .. n]
    BY <2>1
  <2> QED BY <2>1, <2>2, <2>3
<1>12. ASSUME NEW k \in 1 .. n PROVE P[k] = ApplyEntry(P[k - 1], s[k])
  <2>1. (1 .. k) \in SUBSET D /\ (1 .. k) # {} /\ k \in 0 .. n /\ k - 1 \in 0 .. n
    <3>1. k \in 1 .. k /\ k \in 0 .. n /\ k - 1 \in 0 .. n
      OBVIOUS
    <3>2. \A j \in 1 .. k : j \in 1 .. n
      OBVIOUS
    <3> QED BY <3>1, <3>2
  <2>2. Max(1 .. k) = k /\ (1 .. k) \ {Max(1 .. k)} = 1 .. k - 1
    BY MaxIsLast
  <2>3. h[1 .. k] = ApplyEntry(h[(1 .. k) \ {Max(1 .. k)}], s[Max(1 .. k)])
    <3> HIDE DEF D
    <3> QED BY <1>10, <2>1
  <2>4. P[k] = h[1 .. k] /\ P[k - 1] = h[1 .. k - 1]
    BY <2>1
  <2> QED BY <2>2, <2>3, <2>4
<1> HIDE DEF P
<1>13. \A k \in 0 .. n : P[k] \in InstrumentBook
  <2> DEFINE T == {k \in Nat : k \in 0 .. n => P[k] \in InstrumentBook}
  <2>1. 0 \in T
    BY <1>11
  <2>2. ASSUME NEW k \in Nat, k \in T PROVE k + 1 \in T
    <3> SUFFICES ASSUME k + 1 \in 0 .. n PROVE P[k + 1] \in InstrumentBook
      OBVIOUS
    <3>1. k \in 0 .. n /\ k + 1 \in 1 .. n /\ (k + 1) - 1 = k
      OBVIOUS
    <3>2. P[k] \in InstrumentBook /\ P[k + 1] = ApplyEntry(P[k], s[k + 1])
      BY <1>12, <2>2, <3>1
    <3> QED BY <3>1, <3>2, ApplyKeepsBook
  <2>3. T \in SUBSET Nat /\ \A k \in T : k + 1 \in T
    BY <2>2
  <2> HIDE DEF T
  <2>4. T = Nat
    BY <2>1, <2>3, NatSetInduction
  <2>5. ASSUME NEW k \in 0 .. n PROVE P[k] \in InstrumentBook
    <3>1. k \in T /\ k \in 0 .. n
      BY <2>4
    <3> QED BY <3>1 DEF T
  <2> QED BY <2>5
<1> QED BY <1>9, <1>11, <1>12, <1>13 DEF Passes
-----------------------------------------------------------------------------
(* What an entry does to what a book shows, whatever its number. *)
Look(b) == [side \in BookSides |-> IF side = Bid THEN b.bids ELSE b.offers]
Face(r) == [side \in BookSides |-> Visible(side, r[side])]
NoPrices == [side \in BookSides |-> <<>>]

Turned(v, e) ==
    [side \in BookSides |->
        IF e.entry_type = "BookReset" THEN <<>>
        ELSE IF e.entry_type = side THEN UpdateLadder(v[side], e)
        ELSE v[side]]
Turns(v, entries) ==
    IF Len(entries) = 1 THEN Turned(v, entries[1])
    ELSE Turned(Turned(v, entries[1]), entries[2])

FeedEntry ==
    [update_action : UpdateActions, entry_type : EntryTypes,
     price_level : Nat, px_raw : Int, rpt_seq : 0 .. RptRange - 1]
Packet == {s \in Seq(FeedEntry) : Len(s) \in 1 .. 2}

(* Entries that take the face of one book to the face of another. *)
Carries(entries, v, w) ==
    /\ FeedDepth = MaxDepth => Turns(v, entries) = w
    /\ entries[1].entry_type = "BookReset" => Len(entries) = 1 /\ w = NoPrices

(* Its first number follows base, and so does its last or comes after it. *)
NumberedFrom(packet, base) ==
    /\ packet[1].rpt_seq = base + 1
    /\ packet[Len(packet)].rpt_seq \in base + 1 .. base + Len(packet)
Final(packet) == packet[Len(packet)].rpt_seq

Restings == [BookSides -> {S \in SUBSET Int : IsFiniteSet(S)}]
Payload == [packet : Packet, copies : 1 .. 2, resting : Restings]

-----------------------------------------------------------------------------
(* The invariant.                                                          *)
(* The payload whose packet was published or replayed last. *)
Recent == IF replayed = 0 THEN Len(payloads) ELSE ((replayed - 1) % Len(payloads)) + 1

(* Before payload k *)
FaceBefore(k) == IF k = 1 THEN NoPrices ELSE Face(payloads[k - 1].resting)
SentBefore(k) == IF k = 1 THEN 0 ELSE Final(payloads[k - 1].packet)

Shape ==
    /\ TypeOK
    /\ resting \in Restings
    /\ payloads \in Seq(Payload)
    /\ source = "exchange" => Len(payloads) = IF packets <= MaxCapture THEN packets ELSE 0
    /\ source = "generator" => payloads = <<>> /\ replayed = 0

CaptureMirrors ==
    /\ packets = 0 => Face(resting) = NoPrices
    /\ \A k \in 1 .. Len(payloads) :
          Carries(payloads[k].packet, FaceBefore(k), Face(payloads[k].resting))
    /\ payloads # <<>> => Face(resting) = Face(payloads[Recent].resting)

InStep ==
    /\ FeedDepth = MaxDepth /\ ~ stale => Look(book) = Face(resting)
    /\ source = "generator" => Len(book.bids) <= 1 /\ Len(book.offers) <= 1

Sent == IF payloads = <<>> THEN seq ELSE Final(payloads[Recent].packet)

Numbered ==
    /\ seq <= 2 * packets
    /\ payloads # <<>> => seq = Final(payloads[Len(payloads)].packet)
    /\ \A k \in 1 .. Len(payloads) :
          /\ NumberedFrom(payloads[k].packet, SentBefore(k))
          /\ Final(payloads[k].packet) <= 2 * MaxPackets

Counted ==
    /\ book.last_rpt_seq # None => book.last_rpt_seq[1] <= 2 * MaxPackets
    /\ ~ torn =>
          /\ book.gaps = misses
          /\ book.last_rpt_seq # None =>
                IF losing THEN book.last_rpt_seq[1] < Sent ELSE book.last_rpt_seq[1] = Sent

-----------------------------------------------------------------------------
(* Delivering a packet *)

LEMMA EntryTurnsLook ==
  ASSUME NEW b \in InstrumentBook, NEW e, WellFormedEntry(e)
  PROVE  /\ Look(ApplyEntry(b, e)) = Turned(Look(b), e)
         /\ ApplyEntry(b, e).last_rpt_seq = Some(e.rpt_seq)
         /\ ApplyEntry(b, e).gaps = IF Skips(b, e) THEN b.gaps + 1 ELSE b.gaps
<1> DEFINE c == Sequence(b, e)
           d == UpdateSides(c, e)
<1>1. DOMAIN b = {"bids", "offers", "last_rpt_seq", "gaps"}
  BY DEF InstrumentBook
<1>2. /\ DOMAIN c = DOMAIN b /\ c.bids = b.bids /\ c.offers = b.offers
      /\ c.last_rpt_seq = Some(e.rpt_seq)
      /\ c.gaps = IF Skips(b, e) THEN b.gaps + 1 ELSE b.gaps
  BY <1>1 DEF Sequence
<1> HIDE DEF c
<1>3. e.entry_type \in {"Bid", "Offer", "Implied", "BookReset"}
  BY DEF WellFormedEntry, EntryTypes, BookSides, Bid, Offer
<1>4. /\ d.last_rpt_seq = c.last_rpt_seq /\ d.gaps = c.gaps
      /\ d.bids = IF e.entry_type = "BookReset" THEN <<>>
                  ELSE IF e.entry_type = "Bid" THEN UpdateLadder(c.bids, e) ELSE c.bids
      /\ d.offers = IF e.entry_type = "BookReset" THEN <<>>
                    ELSE IF e.entry_type = "Offer" THEN UpdateLadder(c.offers, e) ELSE c.offers
  <2>1. CASE e.entry_type = "BookReset"
    BY <1>1, <1>2, <2>1 DEF UpdateSides, Bid, Offer
  <2>2. CASE e.entry_type = "Bid"
    BY <1>1, <1>2, <2>2 DEF UpdateSides, Bid, Offer
  <2>3. CASE e.entry_type = "Offer"
    BY <1>1, <1>2, <2>3 DEF UpdateSides, Bid, Offer
  <2>4. CASE e.entry_type = "Implied"
    BY <1>1, <1>2, <2>4 DEF UpdateSides, Bid, Offer
  <2> QED BY <1>3, <2>1, <2>2, <2>3, <2>4
<1>5. ApplyEntry(b, e) = d
  BY DEF ApplyEntry, c
<1> HIDE DEF d
<1>6. Look(d) = Turned(Look(b), e)
  BY <1>2, <1>4 DEF Look, Turned, BookSides, Bid, Offer
<1> QED BY <1>2, <1>4, <1>5, <1>6

LEMMA PacketType ==
  ASSUME NEW packet \in Packet
  PROVE  /\ packet \in Seq(FeedEntry) /\ Len(packet) \in 1 .. 2
         /\ DOMAIN packet = 1 .. Len(packet)
         /\ \A k \in 1 .. Len(packet) : packet[k] \in FeedEntry /\ WellFormedEntry(packet[k])
<1>1. /\ packet \in Seq(FeedEntry) /\ Len(packet) \in 1 .. 2
      /\ DOMAIN packet = 1 .. Len(packet)
      /\ \A k \in 1 .. Len(packet) : packet[k] \in FeedEntry
  BY LenProperties DEF Packet
<1>2. \A e \in FeedEntry : WellFormedEntry(e)
  BY DEF FeedEntry, WellFormedEntry
<1> QED BY <1>1, <1>2

LEMMA PlayedOnce ==
  ASSUME NEW b \in InstrumentBook, NEW packet \in Packet
  PROVE  /\ Played(b, packet) \in InstrumentBook
         /\ ApplyEntry(b, packet[1]) \in InstrumentBook
         /\ Played(b, packet) = IF Len(packet) = 1 THEN ApplyEntry(b, packet[1])
                                ELSE ApplyEntry(ApplyEntry(b, packet[1]), packet[2])
<1> DEFINE n == Len(packet)
<1>1. /\ n \in Nat /\ n \in 1 .. 2 /\ DOMAIN packet = 1 .. n
      /\ \A k \in 1 .. n : WellFormedEntry(packet[k])
  BY PacketType
<1>2. PICK P : Passes(P, b, packet, n) /\ Played(b, packet) = P[n]
  <2> HIDE DEF n
  <2> QED BY <1>1, PlayedUnfolds
<1> HIDE DEF n
<1>3. /\ P[0] = b /\ P[n] \in InstrumentBook
      /\ P[1] = ApplyEntry(P[0], packet[1])
      /\ n = 2 => P[2] = ApplyEntry(P[1], packet[2]) /\ P[1] \in InstrumentBook
  <2>1. 1 \in 1 .. n /\ (n = 2 => 2 \in 1 .. n) /\ 1 - 1 = 0 /\ 2 - 1 = 1
    BY <1>1
  <2> QED BY <1>2, <2>1 DEF Passes
<1> QED BY <1>1, <1>2, <1>3 DEF n

LEMMA PlayedTwice ==
  ASSUME NEW b \in InstrumentBook, NEW packet \in Packet
  PROVE  Played(b, packet \o packet) = Played(Played(b, packet), packet)
<1> DEFINE n == Len(packet)
           s == packet \o packet
           c == Played(b, packet)
<1>1. /\ n \in Nat /\ n \in 1 .. 2 /\ DOMAIN packet = 1 .. n
      /\ \A k \in 1 .. n : WellFormedEntry(packet[k])
      /\ packet \in Seq(FeedEntry)
  BY PacketType
<1>2. /\ DOMAIN s = 1 .. 2 * n
      /\ \A k \in 1 .. 2 * n : s[k] = IF k <= n THEN packet[k] ELSE packet[k - n]
  <2>1. /\ s \in Seq(FeedEntry) /\ Len(s) = n + n
        /\ \A k \in 1 .. n + n : s[k] = IF k <= n THEN packet[k] ELSE packet[k - n]
    BY <1>1, ConcatProperties
  <2> HIDE DEF s, n
  <2>2. DOMAIN s = 1 .. Len(s)
    BY <2>1, LenProperties
  <2> QED BY <1>1, <2>1, <2>2
<1> HIDE DEF s
<1>3. /\ c \in InstrumentBook
      /\ c = IF n = 1 THEN ApplyEntry(b, packet[1])
             ELSE ApplyEntry(ApplyEntry(b, packet[1]), packet[2])
      /\ Played(c, packet) = IF n = 1 THEN ApplyEntry(c, packet[1])
                             ELSE ApplyEntry(ApplyEntry(c, packet[1]), packet[2])
  <2>1. c \in InstrumentBook
    BY PlayedOnce
  <2> QED BY <2>1, PlayedOnce
<1> HIDE DEF n, c
<1>4. PICK P : Passes(P, b, s, 2 * n) /\ Played(b, s) = P[2 * n]
  <2>1. 2 * n \in Nat /\ \A k \in 1 .. 2 * n : WellFormedEntry(s[k])
    BY <1>1, <1>2
  <2> QED BY <1>2, <2>1, PlayedUnfolds
<1>5. CASE n = 1
  <2>1. /\ P[0] = b /\ P[1] = ApplyEntry(P[0], s[1]) /\ P[2] = ApplyEntry(P[1], s[2])
        /\ Played(b, s) = P[2] /\ s[1] = packet[1] /\ s[2] = packet[1]
    <3>1. 2 * n = 2 /\ 1 \in 1 .. 2 /\ 2 \in 1 .. 2 /\ 1 - 1 = 0 /\ 2 - 1 = 1
      BY <1>5
    <3> QED BY <1>2, <1>4, <1>5, <3>1 DEF Passes
  <2> QED BY <1>3, <1>5, <2>1 DEF s, c
<1>6. CASE n = 2
  <2>1. /\ P[0] = b /\ P[1] = ApplyEntry(P[0], s[1]) /\ P[2] = ApplyEntry(P[1], s[2])
        /\ P[3] = ApplyEntry(P[2], s[3]) /\ P[4] = ApplyEntry(P[3], s[4])
        /\ Played(b, s) = P[4] /\ s[1] = packet[1] /\ s[2] = packet[2]
        /\ s[3] = packet[1] /\ s[4] = packet[2]
    <3>1. /\ 2 * n = 4 /\ 1 \in 1 .. 4 /\ 2 \in 1 .. 4 /\ 3 \in 1 .. 4 /\ 4 \in 1 .. 4
          /\ 1 - 1 = 0 /\ 2 - 1 = 1 /\ 3 - 1 = 2 /\ 4 - 1 = 3
      BY <1>6
    <3> QED BY <1>2, <1>4, <1>6, <3>1 DEF Passes
  <2> QED BY <1>3, <1>6, <2>1 DEF s, c
<1> QED BY <1>1, <1>5, <1>6

LEMMA PlayedLook ==
  ASSUME NEW b \in InstrumentBook, NEW packet \in Packet
  PROVE  Look(Played(b, packet)) = Turns(Look(b), packet)
<1> DEFINE c == ApplyEntry(b, packet[1])
<1>1. /\ Len(packet) \in 1 .. 2 /\ WellFormedEntry(packet[1])
      /\ Len(packet) # 1 => WellFormedEntry(packet[2])
  BY PacketType
<1>2. c \in InstrumentBook /\ Look(c) = Turned(Look(b), packet[1])
  BY <1>1, PlayedOnce, EntryTurnsLook
<1> HIDE DEF c
<1>3. CASE Len(packet) = 1
  BY <1>2, <1>3, PlayedOnce DEF Turns, c
<1>4. CASE Len(packet) # 1
  <2>1. Look(ApplyEntry(c, packet[2])) = Turned(Look(c), packet[2])
    BY <1>1, <1>2, <1>4, EntryTurnsLook
  <2> QED BY <1>2, <1>4, <2>1, PlayedOnce DEF Turns, c
<1> QED BY <1>3, <1>4

(* A packet numbered from base is a gap exactly when the book's last       *)
(* number is below base, as long as the numbers do not wrap.               *)
LEMMA PlayedCounts ==
  ASSUME NEW b \in InstrumentBook, NEW packet \in Packet, NEW base \in Nat,
         NumberedFrom(packet, base), base + 2 < RptRange,
         b.last_rpt_seq # None => b.last_rpt_seq[1] + 1 < RptRange
  PROVE  /\ Played(b, packet).last_rpt_seq = Some(Final(packet))
         /\ Final(packet) \in Nat /\ base < Final(packet) /\ Final(packet) <= base + 2
         /\ Played(b, packet).gaps
              = b.gaps + (IF b.last_rpt_seq # None /\ b.last_rpt_seq[1] < base THEN 1 ELSE 0)
<1> DEFINE c == ApplyEntry(b, packet[1])
           last == b.last_rpt_seq
           d == ApplyEntry(c, packet[2])
<1>1. /\ Len(packet) \in 1 .. 2 /\ WellFormedEntry(packet[1])
      /\ Len(packet) # 1 => WellFormedEntry(packet[2])
  BY PacketType
<1>2. /\ packet[1].rpt_seq = base + 1
      /\ Final(packet) \in Nat /\ base < Final(packet) /\ Final(packet) <= base + 2
      /\ Len(packet) = 1 => Final(packet) = packet[1].rpt_seq
      /\ Len(packet) # 1 => Final(packet) = packet[2].rpt_seq
  <2>1. packet[1].rpt_seq = base + 1 /\ Final(packet) \in base + 1 .. base + Len(packet)
    BY DEF NumberedFrom, Final
  <2>2. Len(packet) = 1 \/ Len(packet) = 2
    BY <1>1
  <2>3. CASE Len(packet) = 1
    BY <2>1, <2>3 DEF Final
  <2>4. CASE Len(packet) = 2
    BY <2>1, <2>4 DEF Final
  <2> QED BY <2>2, <2>3, <2>4
<1>3. /\ last # None => last[1] \in Nat
      /\ b.gaps \in Nat /\ RptRange \in Nat \ {0}
  BY BookAssumption, OptionValue DEF InstrumentBook
<1>4. Skips(b, packet[1]) <=> last # None /\ last[1] < base
  <2>1. CASE last = None
    BY <2>1 DEF Skips
  <2>2. CASE last # None
    <3>1. (last[1] + 1) % RptRange = last[1] + 1
      BY <1>3, <2>2
    <3> QED BY <1>2, <1>3, <2>2, <3>1 DEF Skips
  <2> QED BY <2>1, <2>2
<1>5. /\ c \in InstrumentBook /\ c.last_rpt_seq = Some(base + 1)
      /\ c.gaps = b.gaps + (IF last # None /\ last[1] < base THEN 1 ELSE 0)
  BY <1>1, <1>2, <1>3, <1>4, PlayedOnce, EntryTurnsLook
<1> HIDE DEF c, last
<1>6. CASE Len(packet) = 1
  BY <1>1, <1>2, <1>5, <1>6, PlayedOnce DEF c, last
<1>7. CASE Len(packet) # 1
  <2>1. /\ d.last_rpt_seq = Some(packet[2].rpt_seq)
        /\ d.gaps = IF Skips(c, packet[2]) THEN c.gaps + 1 ELSE c.gaps
    BY <1>1, <1>5, <1>7, EntryTurnsLook
  <2>2. ~ Skips(c, packet[2])
    <3>1. c.last_rpt_seq[1] = base + 1 /\ (base + 2) % RptRange = base + 2
      BY <1>3, <1>5 DEF Some
    <3>2. packet[2].rpt_seq \in Nat /\ packet[2].rpt_seq <= base + 2
      BY <1>1, <1>2, <1>7
    <3>3. (c.last_rpt_seq[1] + 1) % RptRange = base + 2
      BY <3>1
    <3> QED BY <3>2, <3>3 DEF Skips
  <2> HIDE DEF d
  <2>3. Played(b, packet) = d
    BY <1>7, PlayedOnce DEF c, d
  <2>4. d.last_rpt_seq = Some(Final(packet)) /\ d.gaps = c.gaps
    BY <1>2, <1>7, <2>1, <2>2
  <2> QED BY <1>2, <1>5, <2>3, <2>4 DEF last
<1> QED BY <1>6, <1>7

LEMMA DeliverFacts ==
  ASSUME book \in InstrumentBook, misses \in Nat, losing \in BOOLEAN, stale \in BOOLEAN,
         NEW packet \in Packet, NEW copies, NEW out \in BOOLEAN,
         Deliver(packet, copies, out)
  PROVE  /\ book' \in InstrumentBook /\ misses' \in Nat
         /\ losing' = FALSE /\ stale' \in BOOLEAN
         /\ misses' = IF losing /\ book.last_rpt_seq # None THEN misses + 1 ELSE misses
         /\ \/ /\ book' = Played(book, packet)
               /\ stale' = ((stale \/ out) /\ ~ TellsAll(packet))
            \/ /\ book' = Played(Played(book, packet), packet)
               /\ stale' = ~ TellsAll(packet)
<1> DEFINE count == IF losing /\ book.last_rpt_seq # None THEN misses + 1 ELSE misses
<1>1. TellsAll(packet) \in BOOLEAN /\ count \in Nat
  BY DEF TellsAll
<1>2. /\ Played(book, packet) \in InstrumentBook
      /\ Played(Played(book, packet), packet) \in InstrumentBook
  BY PlayedOnce
<1>3. CASE Apply(packet) /\ stale' = ((stale \/ out) /\ ~ TellsAll(packet))
  BY <1>1, <1>2, <1>3 DEF Apply, Played
<1>4. CASE Apply(packet \o packet) /\ stale' = ~ TellsAll(packet)
  BY <1>1, <1>2, <1>4, PlayedTwice DEF Apply, Played
<1> QED BY <1>3, <1>4 DEF Deliver

LEMMA DeliverCounts ==
  ASSUME book \in InstrumentBook, misses \in Nat, losing \in BOOLEAN, stale \in BOOLEAN,
         NEW packet \in Packet, NEW copies, NEW out \in BOOLEAN,
         NEW base \in Nat, NumberedFrom(packet, base),
         base + 2 < RptRange, Final(packet) + 1 < RptRange,
         book.last_rpt_seq # None => book.last_rpt_seq[1] + 1 < RptRange,
         Deliver(packet, copies, out)
  PROVE  /\ book'.last_rpt_seq = Some(Final(packet))
         /\ book'.gaps = book.gaps
              + (IF book.last_rpt_seq # None /\ book.last_rpt_seq[1] < base THEN 1 ELSE 0)
<1> DEFINE c == Played(book, packet)
           last == book.last_rpt_seq
<1>1. /\ c \in InstrumentBook /\ c.last_rpt_seq = Some(Final(packet))
      /\ Final(packet) \in Nat /\ base < Final(packet) /\ Final(packet) <= base + 2
      /\ c.gaps = book.gaps + (IF last # None /\ last[1] < base THEN 1 ELSE 0)
  <2>1. c \in InstrumentBook
    BY PlayedOnce
  <2> QED BY <2>1, PlayedCounts
<1> HIDE DEF c
<1>2. Played(c, packet).last_rpt_seq = Some(Final(packet)) /\ Played(c, packet).gaps = c.gaps
  <2>1. /\ c.last_rpt_seq[1] = Final(packet) /\ ~ (Final(packet) < base)
        /\ Final(packet) + 1 < RptRange
    BY <1>1, BookAssumption DEF Some
  <2>2. /\ Played(c, packet).last_rpt_seq = Some(Final(packet))
        /\ Played(c, packet).gaps
             = c.gaps + (IF c.last_rpt_seq # None /\ c.last_rpt_seq[1] < base THEN 1 ELSE 0)
    BY <1>1, <2>1, PlayedCounts
  <2>3. c.gaps \in Nat
    BY <1>1 DEF InstrumentBook
  <2> QED BY <2>1, <2>2, <2>3
<1>3. book' = c \/ book' = Played(c, packet)
  BY DeliverFacts DEF c
<1> QED BY <1>1, <1>2, <1>3

LEMMA ResetEmpties ==
  ASSUME NEW v, NEW packet, Len(packet) = 1, packet[1].entry_type = "BookReset"
  PROVE  Turns(v, packet) = NoPrices
BY DEF Turns, Turned, NoPrices

(* A delivery that leaves the book in step has brought it where the        *)
(* packet was meant to, or reset it.                                       *)
LEMMA DeliverLooks ==
  ASSUME book \in InstrumentBook, misses \in Nat, losing \in BOOLEAN, stale \in BOOLEAN,
         source = "exchange", FeedDepth = MaxDepth,
         NEW packet \in Packet, NEW copies, NEW out \in BOOLEAN,
         NEW v, NEW w, Carries(packet, v, w),
         ~ stale /\ ~ out => Look(book) = v,
         Deliver(packet, copies, out), ~ stale'
  PROVE  Look(book') = w
<1> DEFINE c == Played(book, packet)
<1>1. /\ \/ book' = c /\ stale' = ((stale \/ out) /\ ~ TellsAll(packet))
         \/ book' = Played(c, packet) /\ stale' = ~ TellsAll(packet)
      /\ c \in InstrumentBook
  BY DeliverFacts, PlayedOnce
<1>2. Look(c) = Turns(Look(book), packet) /\ Look(Played(c, packet)) = Turns(Look(c), packet)
  <2>1. Look(c) = Turns(Look(book), packet)
    BY PlayedLook
  <2> HIDE DEF c
  <2> QED BY <1>1, <2>1, PlayedLook
<1> HIDE DEF c
<1>3. CASE packet[1].entry_type = "BookReset"
  <2>1. Len(packet) = 1 /\ w = NoPrices
    BY <1>3 DEF Carries
  <2>2. Turns(Look(book), packet) = NoPrices /\ Turns(Look(c), packet) = NoPrices
    BY <1>3, <2>1, ResetEmpties
  <2> QED BY <1>1, <1>2, <2>1, <2>2
<1>4. CASE packet[1].entry_type # "BookReset"
  <2>1. ~ TellsAll(packet)
    BY <1>4 DEF TellsAll
  <2> QED BY <1>1, <1>2, <2>1 DEF Carries
<1> QED BY <1>3, <1>4

LEMMA NumberFacts ==
  ASSUME seq \in Nat, NEW entries \in Packet, NEW shared \in BOOLEAN
  PROVE  LET packet == Number(entries, shared)
         IN  /\ packet \in Packet /\ Len(packet) = Len(entries)
             /\ seq + 2 < RptRange => NumberedFrom(packet, seq)
             /\ shared => Final(packet) = packet[1].rpt_seq
             /\ packet[1].entry_type = entries[1].entry_type
             /\ \A v : Turns(v, packet) = Turns(v, entries)
<1> DEFINE packet == Number(entries, shared)
           n == Len(entries)
           rpt(k) == (seq + (IF shared THEN 1 ELSE k)) % RptRange
<1>1. /\ n \in 1 .. 2 /\ \A k \in 1 .. n : entries[k] \in FeedEntry
      /\ RptRange \in Nat \ {0}
  BY PacketType, BookAssumption
<1>2. \A k \in 1 .. n : rpt(k) \in 0 .. RptRange - 1
  BY <1>1
<1>3. packet = [k \in 1 .. n |-> [entries[k] EXCEPT !.rpt_seq = rpt(k)]]
  BY DEF Number
<1>4. ASSUME NEW k \in 1 .. n
      PROVE  /\ packet[k] \in FeedEntry /\ packet[k].rpt_seq = rpt(k)
             /\ packet[k].entry_type = entries[k].entry_type
             /\ packet[k].update_action = entries[k].update_action
             /\ packet[k].price_level = entries[k].price_level
             /\ packet[k].px_raw = entries[k].px_raw
  <2>1. packet[k] = [entries[k] EXCEPT !.rpt_seq = rpt(k)]
    BY <1>3
  <2>2. rpt(k) \in 0 .. RptRange - 1 /\ entries[k] \in FeedEntry
    BY <1>1, <1>2
  <2> HIDE DEF packet, rpt
  <2> QED BY <2>1, <2>2 DEF FeedEntry
<1>5. packet \in Seq(FeedEntry) /\ Len(packet) = n
  <2>1. packet \in Seq(FeedEntry)
    <3> HIDE DEF packet
    <3>1. packet = [k \in 1 .. n |-> packet[k]]
      BY <1>3
    <3> QED BY <1>1, <1>4, <3>1, IsASeq
  <2>2. DOMAIN packet = 1 .. n
    BY <1>3
  <2> HIDE DEF packet
  <2> QED BY <1>1, <2>1, <2>2, LenProperties
<1> HIDE DEF packet
<1>6. packet \in Packet
  BY <1>1, <1>5 DEF Packet
<1>7. ASSUME seq + 2 < RptRange PROVE NumberedFrom(packet, seq)
  <2>1. packet[1].rpt_seq = seq + 1
    <3>1. 1 \in 1 .. n /\ (seq + 1) % RptRange = seq + 1
      BY <1>1, <1>7
    <3>2. packet[1].rpt_seq = rpt(1) /\ rpt(1) = (seq + 1) % RptRange
      BY <1>4, <3>1
    <3> QED BY <3>1, <3>2
  <2>2. packet[n].rpt_seq \in seq + 1 .. seq + n
    <3>1. n \in 1 .. n /\ n \in Nat \ {0}
      <4> HIDE DEF n
      <4> QED BY <1>1
    <3> HIDE DEF n
    <3>2. packet[n].rpt_seq = rpt(n)
      BY <1>4, <3>1
    <3>3. rpt(n) = seq + 1 \/ rpt(n) = seq + n
      BY <1>1, <1>7, <3>1
    <3> QED BY <3>1, <3>2, <3>3
  <2> QED BY <1>5, <2>1, <2>2 DEF NumberedFrom
<1>8. ASSUME NEW v, NEW k \in 1 .. n PROVE Turned(v, packet[k]) = Turned(v, entries[k])
  <2>1. \A l : UpdateLadder(l, packet[k]) = UpdateLadder(l, entries[k])
    BY <1>4 DEF UpdateLadder, LevelOf
  <2> QED BY <1>4, <2>1 DEF Turned
<1>9. ASSUME NEW v PROVE Turns(v, packet) = Turns(v, entries)
  <2>1. CASE n = 1
    BY <1>1, <1>5, <1>8, <2>1 DEF Turns
  <2>2. CASE n = 2
    <3>1. 1 \in 1 .. n /\ 2 \in 1 .. n
      BY <2>2
    <3> QED BY <1>5, <1>8, <2>2, <3>1 DEF Turns
  <2> QED BY <1>1, <2>1, <2>2
<1>10. shared => Final(packet) = packet[1].rpt_seq
  BY <1>1, <1>4, <1>5 DEF Final
<1> QED BY <1>1, <1>4, <1>5, <1>6, <1>7, <1>9, <1>10 DEF packet

-----------------------------------------------------------------------------
(* What the exchange publishes carries the face of its book. *)

LEMMA LadderOfSide ==
  ASSUME NEW S \in SUBSET Int, IsFiniteSet(S), NEW side \in BookSides,
         NEW p \in S, Rank(side, S, p) <= FeedDepth, FeedDepth = MaxDepth
  PROVE  LET L == Visible(side, S)
             level == Rank(side, S, p)
         IN  /\ level \in Nat \ {0}
             /\ Truncate(L, level) = Visible(side, Above(side, S, p))
             /\ Cardinality(S) <= FeedDepth => Drop(L, level) = Visible(side, S \ {p})
             /\ Cardinality(S) > FeedDepth
                  => /\ AtRank(side, S, FeedDepth + 1) \in Int
                     /\ Insert(Drop(L, level), FeedDepth, AtRank(side, S, FeedDepth + 1))
                          = Visible(side, S \ {p})
<1> DEFINE L == Visible(side, S)
           level == Rank(side, S, p)
           b == AtRank(side, S, FeedDepth + 1)
           A == Above(side, S, p)
           T == S \ {p}
<1>1. Shows(L, side, S)
  BY VisibleShows
<1>2. level \in Nat \ {0}
  BY RankType
<1>3. /\ A \in SUBSET Int /\ IsFiniteSet(A) /\ T \in SUBSET Int /\ IsFiniteSet(T)
  BY RankType, FS_RemoveElement
<1>4. Shows(Truncate(L, level), side, A)
  BY <1>1, TruncateShows
<1>5. /\ Cardinality(S) <= FeedDepth => Shows(Drop(L, level), side, T)
      /\ Cardinality(S) > FeedDepth
           => b \in Int /\ Shows(Insert(Drop(L, level), FeedDepth, b), side, T)
  BY <1>1, RefillShows
<1> HIDE DEF L, level, b, A, T
<1>6. Truncate(L, level) = Visible(side, A)
  BY <1>3, <1>4, ShowsIsVisible
<1>7. Shows(Drop(L, level), side, T) => Drop(L, level) = Visible(side, T)
  BY <1>3, ShowsIsVisible
<1>8. Shows(Insert(Drop(L, level), FeedDepth, b), side, T)
        => Insert(Drop(L, level), FeedDepth, b) = Visible(side, T)
  BY <1>3, ShowsIsVisible
<1> QED BY <1>2, <1>5, <1>6, <1>7, <1>8 DEF L, level, b, A, T

LEMMA LadderAfterInsert ==
  ASSUME NEW S \in SUBSET Int, IsFiniteSet(S), NEW side \in BookSides,
         NEW p \in Int, p \notin S, Rank(side, S, p) <= FeedDepth, FeedDepth = MaxDepth
  PROVE  Insert(Visible(side, S), Rank(side, S, p), p) = Visible(side, S \cup {p})
<1> DEFINE N == Insert(Visible(side, S), Rank(side, S, p), p)
<1>1. S \cup {p} \in SUBSET Int /\ IsFiniteSet(S \cup {p})
  BY FS_AddElement
<1>2. Shows(N, side, S \cup {p})
  BY VisibleShows, InsertShows
<1> HIDE DEF N
<1>3. N = Visible(side, S \cup {p})
  BY <1>1, <1>2, ShowsIsVisible
<1> QED BY <1>3 DEF N

LEMMA LadderAfterReplace ==
  ASSUME NEW S \in SUBSET Int, IsFiniteSet(S), NEW side \in BookSides,
         NEW p \in S, NEW q \in Int, q \notin S, Rank(side, S, p) <= FeedDepth,
         Rank(side, S \ {p}, q) = Rank(side, S, p)
  PROVE  Replace(Visible(side, S), Rank(side, S, p), q) = Visible(side, (S \ {p}) \cup {q})
<1> DEFINE N == Replace(Visible(side, S), Rank(side, S, p), q)
           U == (S \ {p}) \cup {q}
<1>1. U \in SUBSET Int /\ IsFiniteSet(U)
  BY FS_AddElement, FS_RemoveElement
<1>2. Shows(N, side, U)
  BY VisibleShows, ReplaceShows
<1> HIDE DEF N, U
<1>3. N = Visible(side, U)
  BY <1>1, <1>2, ShowsIsVisible
<1> QED BY <1>3 DEF N, U

(* Changes below the feed's depth do not show. *)
LEMMA HiddenAppear ==
  ASSUME NEW S \in SUBSET Int, IsFiniteSet(S), NEW side \in BookSides,
         NEW p \in Int, p \notin S, Rank(side, S, p) > FeedDepth
  PROVE  Visible(side, S \cup {p}) = Visible(side, S)
<1> DEFINE L == Visible(side, S)
           T == S \cup {p}
<1>1. /\ T \in SUBSET Int /\ IsFiniteSet(T) /\ Cardinality(T) = Cardinality(S) + 1
      /\ Cardinality(S) \in Nat /\ FeedDepth \in Nat \ {0}
  BY FS_AddElement, FS_CardinalityType, FeedAssumption
<1>2. Rank(side, S, p) \in 1 .. Cardinality(S) + 1
  BY RankType
<1>3. Depth(S) = FeedDepth /\ Depth(T) = FeedDepth
  BY <1>1, <1>2 DEF Depth
<1>4. Shows(L, side, S)
  BY VisibleShows
<1> HIDE DEF L
<1>5. ASSUME NEW k \in 1 .. FeedDepth PROVE L[k] \in T /\ Rank(side, T, L[k]) = k
  <2> DEFINE q == L[k]
  <2>1. q \in S /\ Rank(side, S, q) = k
    BY <1>3, <1>4 DEF Shows
  <2> HIDE DEF q
  <2>2. ~ Better(side, p, q)
    BY <1>1, <1>2, <2>1, RankIsMonotone
  <2>3. Rank(side, T, q) = k
    BY <2>1, <2>2, RankAfterAppear
  <2> QED BY <2>1, <2>3 DEF q
<1>6. Shows(L, side, T)
  BY <1>3, <1>4, <1>5 DEF Shows
<1> HIDE DEF T
<1>7. L = Visible(side, T)
  BY <1>1, <1>6, ShowsIsVisible
<1> QED BY <1>7 DEF L, T

LEMMA HiddenVanish ==
  ASSUME NEW S \in SUBSET Int, IsFiniteSet(S), NEW side \in BookSides,
         NEW p \in S, Rank(side, S, p) > FeedDepth
  PROVE  Visible(side, S \ {p}) = Visible(side, S)
<1> DEFINE T == S \ {p}
<1>1. T \in SUBSET Int /\ IsFiniteSet(T) /\ p \in Int /\ p \notin T /\ T \cup {p} = S
  BY FS_RemoveElement
<1>2. Rank(side, T, p) = Rank(side, S, p)
  <2>1. Rank(side, T, p) = Rank(side, S, p) - (IF Better(side, p, p) THEN 1 ELSE 0)
    BY <1>1, RankAfterVanish
  <2> QED BY <1>1, <2>1, BetterIsAnOrder, RankType
<1> HIDE DEF T
<1>3. Visible(side, T \cup {p}) = Visible(side, T)
  BY <1>1, <1>2, HiddenAppear
<1> QED BY <1>1, <1>3 DEF T

LEMMA EntryType ==
  ASSUME NEW action \in UpdateActions, NEW kind \in EntryTypes,
         NEW level \in Nat, NEW px \in Int
  PROVE  /\ Entry(action, kind, level, px) \in FeedEntry
         /\ Entry(action, kind, level, px).entry_type = kind
         /\ <<Entry(action, kind, level, px)>> \in Packet
<1> DEFINE e == Entry(action, kind, level, px)
<1>1. e \in FeedEntry /\ e.entry_type = kind
  BY BookAssumption DEF Entry, FeedEntry
<1> HIDE DEF e
<1>2. <<e>> \in Packet
  BY <1>1 DEF Packet
<1> QED BY <1>1, <1>2 DEF e

LEMMA EntryUpdates ==
  ASSUME NEW kind, NEW level \in Nat \ {0}, NEW px, NEW L
  PROVE  /\ UpdateLadder(L, Entry("New", kind, level, px)) = Insert(L, level, px)
         /\ UpdateLadder(L, Entry("Change", kind, level, px)) = Replace(L, level, px)
         /\ UpdateLadder(L, Entry("Overlay", kind, level, px)) = Replace(L, level, px)
         /\ UpdateLadder(L, Entry("Delete", kind, level, px)) = Drop(L, level)
         /\ UpdateLadder(L, Entry("DeleteThru", kind, level, px)) = <<>>
         /\ UpdateLadder(L, Entry("DeleteFrom", kind, level, px)) = Truncate(L, level)
BY DEF UpdateLadder, LevelOf, Entry

WithSide(v, side, L) == [s \in BookSides |-> IF s = side THEN L ELSE v[s]]

LEMMA FaceOfSide ==
  ASSUME NEW r \in Restings, NEW side \in BookSides, NEW T, NEW t,
         t = [r EXCEPT ![side] = T]
  PROVE  Face(t) = WithSide(Face(r), side, Visible(side, T))
BY DEF Face, Restings, WithSide

LEMMA TurnedSide ==
  ASSUME NEW r, NEW side \in BookSides, NEW L, NEW e, e.entry_type = side
  PROVE  /\ Turned(WithSide(Face(r), side, L), e)
              = WithSide(Face(r), side, UpdateLadder(L, e))
         /\ Turned(Face(r), e)
              = WithSide(Face(r), side, UpdateLadder(Visible(side, r[side]), e))
<1>1. side # "BookReset"
  BY DEF BookSides, Bid, Offer
<1> QED BY <1>1 DEF Face, Turned, WithSide

Told ==
    \/ Unpublished /\ Face(resting') = Face(resting)
    \/ \E entries \in Packet :
          Publish(entries) /\ Carries(entries, Face(resting), Face(resting'))

LEMMA SideFacts ==
  ASSUME resting \in Restings, NEW side \in BookSides, NEW p
  PROVE  /\ resting[side] \in SUBSET Int /\ IsFiniteSet(resting[side])
         /\ Rank(side, resting[side], p) \in Nat \ {0}
         /\ \A T : T \in SUBSET Int /\ IsFiniteSet(T)
                     => [resting EXCEPT ![side] = T] \in Restings
         /\ side \in EntryTypes /\ side # "BookReset"
<1>1. resting[side] \in SUBSET Int /\ IsFiniteSet(resting[side])
  BY DEF Restings
<1>2. Rank(side, resting[side], p) \in Nat \ {0}
  BY <1>1, RankType
<1> QED BY <1>1, <1>2 DEF Restings, EntryTypes, BookSides, Bid, Offer

(* A packet of one entry for one side. *)
LEMMA ToldOfOne ==
  ASSUME resting \in Restings, NEW side \in BookSides, NEW T,
         resting' = [resting EXCEPT ![side] = T],
         NEW action \in UpdateActions, NEW level \in Nat, NEW px \in Int,
         Publish(<<Entry(action, side, level, px)>>),
         FeedDepth = MaxDepth
           => UpdateLadder(Visible(side, resting[side]), Entry(action, side, level, px))
                = Visible(side, T)
  PROVE  Told
<1> DEFINE e == Entry(action, side, level, px)
           s == <<e>>
<1>1. side \in EntryTypes /\ side # "BookReset"
  BY SideFacts
<1>2. e.entry_type = side /\ s \in Packet /\ Len(s) = 1 /\ s[1] = e
  BY <1>1, EntryType
<1> HIDE DEF e
<1>3. Turns(Face(resting), s) = Turned(Face(resting), e)
  BY <1>2 DEF Turns
<1>4. FeedDepth = MaxDepth => Turns(Face(resting), s) = Face(resting')
  <2>1. Turned(Face(resting), e)
          = WithSide(Face(resting), side, UpdateLadder(Visible(side, resting[side]), e))
    <3>1. e.entry_type = side
      BY <1>2
    <3> QED BY <3>1, TurnedSide
  <2>2. Face(resting') = WithSide(Face(resting), side, Visible(side, T))
    BY FaceOfSide
  <2> QED BY <1>3, <2>1, <2>2 DEF e
<1>5. Carries(s, Face(resting), Face(resting'))
  BY <1>1, <1>2, <1>4 DEF Carries
<1>6. Publish(s)
  BY DEF e
<1> QED BY <1>2, <1>5, <1>6 DEF Told

LEMMA AppearTold ==
  ASSUME resting \in Restings, NEW side \in BookSides, NEW p \in Int, Appear(side, p)
  PROVE  resting' \in Restings /\ Told
<1> DEFINE S == resting[side]
           T == S \cup {p}
           level == Rank(side, S, p)
<1>1. /\ p \notin S /\ resting' = [resting EXCEPT ![side] = T]
      /\ IF level <= FeedDepth THEN Publish(<<Entry("New", side, level, p)>>) ELSE Unpublished
  BY DEF Appear
<1>2. S \in SUBSET Int /\ IsFiniteSet(S) /\ level \in Nat \ {0}
  BY SideFacts
<1>3. T \in SUBSET Int /\ IsFiniteSet(T)
  BY <1>2, FS_AddElement
<1>4. resting' \in Restings
  BY <1>1, <1>3, SideFacts
<1>5. CASE level <= FeedDepth
  <2>1. "New" \in UpdateActions /\ side \in EntryTypes
    BY SideFacts DEF UpdateActions
  <2>2. UpdateLadder(Visible(side, S), Entry("New", side, level, p))
          = Insert(Visible(side, S), level, p)
    <3> HIDE DEF level
    <3> QED BY <1>2, EntryUpdates
  <2>3. FeedDepth = MaxDepth => Insert(Visible(side, S), level, p) = Visible(side, T)
    BY <1>1, <1>2, <1>5, LadderAfterInsert
  <2>4. Publish(<<Entry("New", side, level, p)>>)
    BY <1>1, <1>5
  <2> HIDE DEF level, T
  <2> QED BY <1>1, <1>2, <1>4, <2>1, <2>2, <2>3, <2>4, ToldOfOne
<1>6. CASE ~ (level <= FeedDepth)
  <2>1. Visible(side, T) = Visible(side, S)
    BY <1>1, <1>2, <1>6, HiddenAppear, FeedAssumption
  <2>2. Face(resting') = Face(resting)
    BY <1>1, <2>1 DEF Face, Restings
  <2> QED BY <1>1, <1>4, <1>6, <2>2 DEF Told
<1> QED BY <1>5, <1>6

LEMMA VanishTold ==
  ASSUME resting \in Restings, NEW side \in BookSides, NEW p \in Int, Vanish(side, p)
  PROVE  resting' \in Restings /\ Told
<1> DEFINE S == resting[side]
           T == S \ {p}
           level == Rank(side, S, p)
           below == AtRank(side, S, FeedDepth + 1)
           gone == Entry("Delete", side, level, p)
           refill == Entry("New", side, FeedDepth, below)
<1>1. /\ p \in S /\ resting' = [resting EXCEPT ![side] = T]
      /\ IF level > FeedDepth THEN Unpublished
         ELSE Publish(<<gone>> \o IF Cardinality(S) > FeedDepth THEN <<refill>> ELSE <<>>)
  BY DEF Vanish
<1>2. S \in SUBSET Int /\ IsFiniteSet(S) /\ level \in Nat \ {0} /\ side \in EntryTypes
      /\ side # "BookReset"
  BY SideFacts
<1>3. T \in SUBSET Int /\ IsFiniteSet(T)
  BY <1>2, FS_RemoveElement
<1>4. resting' \in Restings
  BY <1>1, <1>3, SideFacts
<1>5. CASE level > FeedDepth
  <2>1. Visible(side, T) = Visible(side, S)
    BY <1>1, <1>2, <1>5, HiddenVanish
  <2>2. Face(resting') = Face(resting)
    BY <1>1, <2>1 DEF Face, Restings
  <2> QED BY <1>1, <1>4, <1>5, <2>2 DEF Told
<1>6. CASE ~ (level > FeedDepth)
  <2>1. level <= FeedDepth /\ FeedDepth \in Nat \ {0}
    BY <1>2, <1>6, FeedAssumption
  <2>2. /\ gone \in FeedEntry /\ gone.entry_type = side
        /\ UpdateLadder(Visible(side, S), gone) = Drop(Visible(side, S), level)
    <3> HIDE DEF level
    <3>1. "Delete" \in UpdateActions
      BY DEF UpdateActions
    <3>2. gone \in FeedEntry /\ gone.entry_type = side
      BY <1>2, <3>1, EntryType
    <3> QED BY <1>2, <3>2, EntryUpdates
  <2>3. CASE Cardinality(S) > FeedDepth
    <3>1. below \in Int
      <4>1. FeedDepth + 1 \in 1 .. Cardinality(S)
        BY <1>2, <2>1, <2>3, FS_CardinalityType
      <4>2. AtRank(side, S, FeedDepth + 1) \in S
        <5> DEFINE n == FeedDepth + 1
        <5>1. n \in 1 .. Cardinality(S)
          BY <4>1
        <5> HIDE DEF n
        <5>2. AtRank(side, S, n) \in S
          <6>1. S \in SUBSET Int /\ IsFiniteSet(S) /\ side \in BookSides
            BY <1>2
          <6> HIDE DEF S
          <6> QED BY <5>1, <6>1, RanksAreFilled, Zenon
        <5> QED BY <5>2 DEF n
      <4> QED BY <1>2, <4>2
    <3>2. /\ refill \in FeedEntry /\ refill.entry_type = side
          /\ UpdateLadder(Drop(Visible(side, S), level), refill)
               = Insert(Drop(Visible(side, S), level), FeedDepth, below)
      <4> HIDE DEF below
      <4>1. "New" \in UpdateActions /\ FeedDepth \in Nat
        BY <2>1 DEF UpdateActions
      <4>2. refill \in FeedEntry /\ refill.entry_type = side
        <5>1. side \in EntryTypes
          BY <1>2
        <5> HIDE DEF S, level, gone
        <5> QED BY <3>1, <4>1, <5>1, EntryType
      <4> QED BY <2>1, <4>2, EntryUpdates
    <3>3. FeedDepth = MaxDepth => Insert(Drop(Visible(side, S), level), FeedDepth, below)
                                    = Visible(side, T)
      BY <1>1, <1>2, <2>1, <2>3, LadderOfSide
    <3> DEFINE s == <<gone>> \o <<refill>>
    <3>4. Publish(s)
      BY <1>1, <1>6, <2>3
    <3> HIDE DEF gone, refill
    <3>5. s \in Packet /\ Len(s) = 2 /\ s[1] = gone /\ s[2] = refill
      BY <2>2, <3>2 DEF Packet
    <3>6. FeedDepth = MaxDepth => Turns(Face(resting), s) = Face(resting')
      <4> DEFINE D == Drop(Visible(side, S), level)
                 M == Insert(D, FeedDepth, below)
      <4> HIDE DEF s, T, D, M
      <4>1. Turned(Face(resting), gone) = WithSide(Face(resting), side, D)
        <5>1. gone.entry_type = side /\ UpdateLadder(Visible(side, S), gone) = D
          BY <2>2 DEF D
        <5>2. Turned(Face(resting), gone)
                = WithSide(Face(resting), side, UpdateLadder(Visible(side, S), gone))
          BY <5>1, TurnedSide
        <5> QED BY <5>1, <5>2
      <4>2. Turned(WithSide(Face(resting), side, D), refill)
              = WithSide(Face(resting), side, M)
        <5>1. refill.entry_type = side /\ UpdateLadder(D, refill) = M
          BY <3>2 DEF D, M
        <5>2. Turned(WithSide(Face(resting), side, D), refill)
                = WithSide(Face(resting), side, UpdateLadder(D, refill))
          BY <5>1, TurnedSide
        <5> QED BY <5>1, <5>2
      <4>3. Face(resting') = WithSide(Face(resting), side, Visible(side, T))
        BY <1>1, FaceOfSide
      <4>4. Turns(Face(resting), s) = WithSide(Face(resting), side, M)
        BY <3>5, <4>1, <4>2 DEF Turns
      <4> QED BY <3>3, <4>3, <4>4 DEF D, M
    <3>7. Carries(s, Face(resting), Face(resting'))
      BY <1>2, <2>2, <3>5, <3>6 DEF Carries
    <3> QED BY <1>4, <3>4, <3>5, <3>7 DEF Told
  <2>4. CASE ~ (Cardinality(S) > FeedDepth)
    <3>1. Publish(<<gone>>)
      <4>1. Publish(<<gone>> \o <<>>)
        BY <1>1, <1>6, <2>4
      <4> HIDE DEF gone
      <4>2. <<gone>> \in Seq(FeedEntry)
        BY <2>2
      <4>3. <<gone>> \o <<>> = <<gone>>
        BY <4>2
      <4> QED BY <4>1, <4>3
    <3>2. Cardinality(S) <= FeedDepth
      BY <1>2, <2>1, <2>4, FS_CardinalityType
    <3>3. FeedDepth = MaxDepth => Drop(Visible(side, S), level) = Visible(side, T)
      BY <1>1, <1>2, <2>1, <3>2, LadderOfSide
    <3>4. FeedDepth = MaxDepth => UpdateLadder(Visible(side, S), gone) = Visible(side, T)
      BY <2>2, <3>3
    <3>5. "Delete" \in UpdateActions
      BY DEF UpdateActions
    <3> HIDE DEF level, T
    <3> QED BY <1>1, <1>2, <1>4, <3>1, <3>4, <3>5, ToldOfOne
  <2> QED BY <2>3, <2>4
<1> QED BY <1>5, <1>6

LEMMA RepriceTold ==
  ASSUME resting \in Restings, NEW side \in BookSides, NEW p \in Int, NEW q \in Int,
         Reprice(side, p, q)
  PROVE  resting' \in Restings /\ Told
<1> DEFINE S == resting[side]
           T == (S \ {p}) \cup {q}
           level == Rank(side, S, p)
<1>1. /\ p \in S /\ q \notin S /\ level <= FeedDepth /\ Rank(side, S \ {p}, q) = level
      /\ resting' = [resting EXCEPT ![side] = T]
  BY DEF Reprice
<1>2. PICK action \in {"Change", "Overlay"} : Publish(<<Entry(action, side, level, q)>>)
  BY DEF Reprice
<1>3. S \in SUBSET Int /\ IsFiniteSet(S) /\ level \in Nat \ {0}
  BY SideFacts
<1>4. T \in SUBSET Int /\ IsFiniteSet(T)
  BY <1>3, FS_AddElement, FS_RemoveElement
<1>5. resting' \in Restings
  BY <1>1, <1>4, SideFacts
<1>6. Replace(Visible(side, S), level, q) = Visible(side, T)
  BY <1>1, <1>3, LadderAfterReplace
<1>7. UpdateLadder(Visible(side, S), Entry(action, side, level, q))
        = Replace(Visible(side, S), level, q)
  <2> HIDE DEF level
  <2>1. action = "Change" \/ action = "Overlay"
    OBVIOUS
  <2> QED BY <1>3, <2>1, EntryUpdates
<1>8. action \in UpdateActions
  BY DEF UpdateActions
<1> HIDE DEF level, T
<1> QED BY <1>1, <1>2, <1>3, <1>5, <1>6, <1>7, <1>8, ToldOfOne

LEMMA SweepTold ==
  ASSUME resting \in Restings, NEW side \in BookSides, NEW p \in Int, Sweep(side, p)
  PROVE  resting' \in Restings /\ Told
<1> DEFINE S == resting[side]
           T == Above(side, S, p)
           level == Rank(side, S, p)
<1>1. /\ p \in S /\ level <= FeedDepth /\ resting' = [resting EXCEPT ![side] = T]
      /\ \/ Publish(<<Entry("DeleteFrom", side, level, p)>>)
         \/ level = 1 /\ Publish(<<Entry("DeleteThru", side, 1, p)>>)
  BY DEF Sweep, Above
<1>2. S \in SUBSET Int /\ IsFiniteSet(S) /\ level \in Nat \ {0}
  BY SideFacts
<1>3. T \in SUBSET Int /\ IsFiniteSet(T) /\ Cardinality(T) = level - 1
  <2>1. /\ T \in SUBSET S /\ IsFiniteSet(T) /\ Cardinality(T) \in Nat
        /\ level = 1 + Cardinality(T)
    BY <1>2, RankType
  <2> HIDE DEF T, level
  <2> QED BY <1>2, <2>1
<1>4. resting' \in Restings
  BY <1>1, <1>3, SideFacts
<1>5. FeedDepth = MaxDepth => Truncate(Visible(side, S), level) = Visible(side, T)
  BY <1>1, <1>2, LadderOfSide
<1>6. CASE Publish(<<Entry("DeleteFrom", side, level, p)>>)
  <2>1. "DeleteFrom" \in UpdateActions
    BY DEF UpdateActions
  <2> HIDE DEF level, T
  <2>2. UpdateLadder(Visible(side, S), Entry("DeleteFrom", side, level, p))
          = Truncate(Visible(side, S), level)
    BY <1>2, EntryUpdates
  <2> QED BY <1>1, <1>2, <1>4, <1>5, <1>6, <2>1, <2>2, ToldOfOne
<1>7. CASE level = 1 /\ Publish(<<Entry("DeleteThru", side, 1, p)>>)
  <2>1. "DeleteThru" \in UpdateActions
    BY DEF UpdateActions
  <2>2. UpdateLadder(Visible(side, S), Entry("DeleteThru", side, 1, p)) = <<>>
    BY EntryUpdates
  <2>3. Visible(side, T) = <<>>
    <3> DEFINE V == Visible(side, T)
    <3>1. Shows(V, side, T) /\ Depth(T) = 0
      <4>1. Cardinality(T) = 0 /\ FeedDepth \in Nat
        BY <1>3, <1>7, FeedAssumption
      <4> HIDE DEF T
      <4>2. Depth(T) = 0
        BY <4>1 DEF Depth
      <4> QED BY <1>3, <4>2, VisibleShows
    <3> HIDE DEF V
    <3>2. V \in Seq(Int) /\ Len(V) = 0
      BY <3>1 DEF Shows
    <3>3. V = <<>>
      BY <3>2, EmptySeq
    <3> QED BY <3>3 DEF V
  <2> HIDE DEF level, T
  <2> QED BY <1>1, <1>2, <1>4, <1>7, <2>1, <2>2, <2>3, ToldOfOne
<1> QED BY <1>1, <1>6, <1>7

LEMMA EmptyFace ==
  /\ [side \in BookSides |-> {}] \in Restings
  /\ Face([side \in BookSides |-> {}]) = NoPrices
<1>1. IsFiniteSet({}) /\ Cardinality({}) = 0
  BY FS_EmptySet
<1>2. ASSUME NEW side \in BookSides PROVE Visible(side, {}) = <<>>
  <2> DEFINE V == Visible(side, {})
  <2>1. Shows(V, side, {}) /\ Depth({}) = 0
    BY <1>1, VisibleShows, FeedAssumption DEF Depth
  <2> HIDE DEF V
  <2>2. V \in Seq(Int) /\ Len(V) = 0
    BY <2>1 DEF Shows
  <2>3. V = <<>>
    BY <2>2, EmptySeq
  <2> QED BY <2>3 DEF V
<1> QED BY <1>1, <1>2 DEF Restings, Face, NoPrices

LEMMA ResetTold ==
  ASSUME Reset
  PROVE  resting' \in Restings /\ Told
<1> DEFINE e == Entry("New", "BookReset", 0, 0)
           s == <<e>>
<1>1. e.entry_type = "BookReset" /\ s \in Packet /\ Len(s) = 1 /\ s[1] = e
  <2>1. "New" \in UpdateActions /\ "BookReset" \in EntryTypes
    BY DEF UpdateActions, EntryTypes
  <2>2. e.entry_type = "BookReset" /\ s \in Packet
    BY <2>1, EntryType
  <2> QED BY <2>2
<1>2. Publish(s) /\ resting' = [side \in BookSides |-> {}]
  BY DEF Reset
<1> HIDE DEF e, s
<1>3. resting' \in Restings /\ Face(resting') = NoPrices
  BY <1>2, EmptyFace
<1>4. Turns(Face(resting), s) = NoPrices
  BY <1>1, ResetEmpties
<1>5. Carries(s, Face(resting), Face(resting'))
  BY <1>1, <1>3, <1>4 DEF Carries
<1> QED BY <1>1, <1>2, <1>3, <1>5 DEF Told

LEMMA ImpliedUpdateTold ==
  ASSUME resting \in Restings, ImpliedUpdate
  PROVE  resting' \in Restings /\ Told
<1>1. PICK p \in Prices : Publish(<<Entry("New", "Implied", 1, p)>>)
  BY DEF ImpliedUpdate
<1> DEFINE e == Entry("New", "Implied", 1, p)
           s == <<e>>
<1>2. e.entry_type = "Implied" /\ s \in Packet /\ Len(s) = 1 /\ s[1] = e
  <2>1. "New" \in UpdateActions /\ "Implied" \in EntryTypes /\ p \in Int
    BY FeedAssumption DEF UpdateActions, EntryTypes
  <2>2. e.entry_type = "Implied" /\ s \in Packet
    BY <2>1, EntryType
  <2> QED BY <2>2
<1>3. Publish(s) /\ resting' = resting
  BY <1>1 DEF ImpliedUpdate
<1> HIDE DEF e, s
<1>4. Turns(Face(resting), s) = Face(resting)
  BY <1>2 DEF Turns, Turned, Face, BookSides, Bid, Offer
<1>5. Carries(s, Face(resting), Face(resting'))
  BY <1>2, <1>3, <1>4 DEF Carries
<1> QED BY <1>2, <1>3, <1>5 DEF Told

-----------------------------------------------------------------------------
(* The steps *)

LEMMA PredecessorInPass ==
  ASSUME NEW n \in Nat \ {0}, NEW i \in Nat
  PROVE  /\ (i % n) + 1 \in 1 .. n
         /\ i % n # 0 => i # 0 /\ i - 1 \in Nat /\ ((i - 1) % n) + 1 = i % n
<1> DEFINE s == i % n
           t == (i - 1) % n
           k == (i \div n) - ((i - 1) \div n)
<1>1. /\ i = n * (i \div n) + s /\ s \in 0 .. n - 1 /\ i \div n \in Int
      /\ i - 1 = n * ((i - 1) \div n) + t /\ t \in 0 .. n - 1 /\ (i - 1) \div n \in Int
  OBVIOUS
<1>2. k \in Int /\ n * k = t - s + 1
  BY <1>1
<1>3. i = 0 => s = 0
  OBVIOUS
<1> HIDE DEF s, t, k
<1>4. ASSUME s # 0 PROVE t + 1 = s
  <2>1. t - s + 1 < n /\ t - s + 1 > - n
    BY <1>1, <1>4
  <2>2. CASE k >= 1
    <3>1. n * k >= n BY <1>2, <2>2
    <3> QED BY <1>1, <1>2, <2>1, <3>1
  <2>3. CASE k <= -1
    <3>1. n * k <= - n BY <1>2, <2>3
    <3> QED BY <1>1, <1>2, <2>1, <3>1
  <2>4. CASE k = 0
    BY <1>1, <1>2, <2>4
  <2> QED BY <1>2, <2>2, <2>3, <2>4
<1> QED BY <1>1, <1>3, <1>4 DEF s, t

(* A packet of the exchange, delivered or lost, with what it carries. *)
Sends(packet, copies) ==
    /\ Carries(packet, Face(resting), Face(resting'))
    /\ seq + 2 < RptRange => NumberedFrom(packet, seq)
    /\ seq' = Final(packet)
    /\ Captured(packet, copies)
    /\ Deliver(packet, copies, FALSE) \/ Lose
    /\ source = "exchange" /\ replayed = 0
    /\ packets < MaxPackets /\ packets' = packets + 1
    /\ UNCHANGED <<source, replayed, torn>>

LEMMA PublishSends ==
  ASSUME seq \in Nat, NEW entries \in Packet, Publish(entries),
         Carries(entries, Face(resting), Face(resting'))
  PROVE  \E packet \in Packet, copies \in 1 .. 2 : Sends(packet, copies)
<1>1. PICK shared \in BOOLEAN, copies \in 1 .. 2 :
          LET packet == Number(entries, shared)
          IN  /\ seq' = packet[Len(packet)].rpt_seq
              /\ Captured(packet, copies)
              /\ Deliver(packet, copies, FALSE) \/ Lose
  BY DEF Publish
<1>2. /\ source = "exchange" /\ replayed = 0
      /\ packets < MaxPackets /\ packets' = packets + 1
      /\ UNCHANGED <<source, replayed, torn>>
  BY DEF Publish
<1> DEFINE packet == Number(entries, shared)
<1>3. /\ packet \in Packet /\ Len(packet) = Len(entries)
      /\ seq + 2 < RptRange => NumberedFrom(packet, seq)
      /\ packet[1].entry_type = entries[1].entry_type
      /\ \A v : Turns(v, packet) = Turns(v, entries)
  BY NumberFacts
<1>4. /\ seq' = Final(packet) /\ Captured(packet, copies)
      /\ Deliver(packet, copies, FALSE) \/ Lose
  BY <1>1 DEF Final
<1> HIDE DEF packet
<1>5. Carries(packet, Face(resting), Face(resting'))
  BY <1>3 DEF Carries
<1>6. Sends(packet, copies)
  BY <1>2, <1>3, <1>4, <1>5 DEF Sends
<1> QED BY <1>3, <1>6

LEMMA CapturedFacts ==
  ASSUME Shape, source = "exchange", packets' = packets + 1,
         NEW packet \in Packet, NEW copies \in 1 .. 2, resting' \in Restings,
         Captured(packet, copies)
  PROVE  /\ payloads' \in Seq(Payload)
         /\ Len(payloads') = IF packets' <= MaxCapture THEN packets' ELSE 0
         /\ Len(payloads') <= MaxCapture
         /\ payloads' # <<>> =>
               /\ Len(payloads') = Len(payloads) + 1
               /\ packets = Len(payloads)
               /\ \A k \in 1 .. Len(payloads) : payloads'[k] = payloads[k]
               /\ payloads'[Len(payloads')].packet = packet
               /\ payloads'[Len(payloads')].resting = resting'
<1> DEFINE x == [packet |-> packet, copies |-> copies, resting |-> resting']
<1>1. /\ packets \in Nat /\ MaxCapture \in Nat /\ payloads \in Seq(Payload)
      /\ Len(payloads) = IF packets <= MaxCapture THEN packets ELSE 0
  BY FeedAssumption DEF Shape, TypeOK
<1>2. x \in Payload /\ x.packet = packet /\ x.resting = resting'
  BY DEF Payload
<1>3. payloads' = IF packets < MaxCapture THEN Append(payloads, x) ELSE <<>>
  BY DEF Captured
<1> HIDE DEF x
<1>4. CASE packets < MaxCapture
  <2>1. /\ payloads' \in Seq(Payload) /\ Len(payloads') = Len(payloads) + 1
        /\ \A k \in 1 .. Len(payloads) : payloads'[k] = payloads[k]
        /\ payloads'[Len(payloads) + 1] = x
    BY <1>1, <1>2, <1>3, <1>4, AppendProperties
  <2>2. Len(payloads) = packets
    BY <1>1, <1>4
  <2> QED BY <1>1, <1>2, <1>4, <2>1, <2>2
<1>5. CASE ~ (packets < MaxCapture)
  <2>1. payloads' = <<>> /\ Len(<<>>) = 0 /\ <<>> \in Seq(Payload)
    BY <1>3, <1>5
  <2> QED BY <1>1, <1>5, <2>1
<1> QED BY <1>4, <1>5

LEMMA SendsShape ==
  ASSUME Shape, NEW packet \in Packet, NEW copies \in 1 .. 2, Sends(packet, copies),
         resting' \in Restings
  PROVE  Shape'
<1>1. /\ packets \in 0 .. MaxPackets /\ MaxPackets \in Nat /\ packets < MaxPackets
      /\ packets' = packets + 1
  BY FeedAssumption DEF Shape, TypeOK, Sends
<1>2. packets' \in 0 .. MaxPackets
  BY <1>1
<1>3. seq' \in 0 .. RptRange - 1
  <2>1. Len(packet) \in 1 .. Len(packet)
    <3>1. Len(packet) \in 1 .. 2
      BY PacketType
    <3> QED BY <3>1
  <2>2. packet[Len(packet)] \in FeedEntry
    BY <2>1, PacketType
  <2> QED BY <2>2 DEF Sends, Final, FeedEntry
<1>4. /\ payloads' \in Seq(Payload)
      /\ Len(payloads') = IF packets' <= MaxCapture THEN packets' ELSE 0
      /\ Len(payloads') <= MaxCapture
  BY CapturedFacts DEF Sends
<1>5. /\ book' \in InstrumentBook /\ misses' \in Nat
      /\ losing' \in BOOLEAN /\ stale' \in BOOLEAN
  <2>1. CASE Deliver(packet, copies, FALSE)
    BY <2>1, DeliverFacts DEF Shape, TypeOK
  <2>2. CASE Lose
    BY <2>2 DEF Lose, Shape, TypeOK
  <2> QED BY <2>1, <2>2 DEF Sends
<1>6. resting' \in [BookSides -> SUBSET Int]
  BY DEF Restings
<1>7. TypeOK'
  BY <1>2, <1>3, <1>4, <1>5, <1>6 DEF Sends, Shape, TypeOK
<1> QED BY <1>4, <1>7 DEF Sends, Shape

LEMMA RecentType ==
  ASSUME Shape, payloads # <<>>
  PROVE  /\ Recent \in 1 .. Len(payloads) /\ Len(payloads) \in Nat \ {0}
         /\ source = "exchange" /\ packets # 0
         /\ \A k \in 1 .. Len(payloads) : payloads[k] \in Payload
<1>1. /\ payloads \in Seq(Payload) /\ Len(payloads) \in Nat \ {0} /\ replayed \in Nat
      /\ \A k \in 1 .. Len(payloads) : payloads[k] \in Payload
  BY EmptySeq, LenProperties, FeedAssumption DEF Shape, TypeOK
<1>2. source = "exchange"
  BY DEF Shape, TypeOK
<1>3. packets # 0
  BY <1>1, <1>2, FeedAssumption DEF Shape
<1>4. Recent \in 1 .. Len(payloads)
  <2>1. CASE replayed = 0
    BY <1>1, <2>1 DEF Recent
  <2>2. CASE replayed # 0
    <3>1. replayed - 1 \in Nat
      BY <1>1, <2>2
    <3> QED BY <1>1, <2>2, <3>1, PredecessorInPass DEF Recent
  <2> QED BY <2>1, <2>2
<1> QED BY <1>1, <1>2, <1>3, <1>4

LEMMA SendsMirrors ==
  ASSUME Shape, CaptureMirrors, InStep, resting' \in Restings,
         NEW packet \in Packet, NEW copies \in 1 .. 2, Sends(packet, copies)
  PROVE  CaptureMirrors' /\ InStep'
<1>1. /\ book \in InstrumentBook /\ misses \in Nat /\ losing \in BOOLEAN /\ stale \in BOOLEAN
      /\ packets \in Nat /\ packets' # 0 /\ Len(payloads) \in Nat
      /\ source = "exchange" /\ source' = "exchange" /\ replayed = 0 /\ replayed' = 0
      /\ Carries(packet, Face(resting), Face(resting'))
  BY FeedAssumption, LenProperties DEF Shape, TypeOK, Sends
<1>2. payloads' # <<>> =>
         /\ Len(payloads') = Len(payloads) + 1
         /\ packets = Len(payloads)
         /\ \A k \in 1 .. Len(payloads) : payloads'[k] = payloads[k]
         /\ payloads'[Len(payloads')].packet = packet
         /\ payloads'[Len(payloads')].resting = resting'
  BY CapturedFacts DEF Sends
<1>3. ASSUME NEW k \in 1 .. Len(payloads')
      PROVE  Carries(payloads'[k].packet, FaceBefore(k)', Face(payloads'[k].resting))
  <2>1. payloads' # <<>>
    BY EmptySeq
  <2>2. CASE k \in 1 .. Len(payloads)
    <3>1. FaceBefore(k)' = FaceBefore(k)
      <4>1. k = 1 \/ k - 1 \in 1 .. Len(payloads)
        BY <1>1, <2>2
      <4>2. k # 1 => payloads'[k - 1] = payloads[k - 1]
        BY <1>2, <2>1, <4>1
      <4> QED BY <4>2 DEF FaceBefore, NoPrices
    <3>2. Carries(payloads[k].packet, FaceBefore(k), Face(payloads[k].resting))
      BY <2>2 DEF CaptureMirrors
    <3> QED BY <1>2, <2>1, <2>2, <3>1, <3>2
  <2>3. CASE k = Len(payloads) + 1
    <3>1. FaceBefore(k)' = Face(resting)
      <4>1. CASE Len(payloads) = 0
        BY <1>2, <2>1, <2>3, <4>1 DEF CaptureMirrors, FaceBefore, NoPrices
      <4>2. CASE Len(payloads) # 0
        <5>1. k # 1 /\ k - 1 = Len(payloads) /\ k - 1 \in 1 .. Len(payloads)
          BY <1>1, <2>3, <4>2
        <5>2. payloads # <<>> /\ Recent = k - 1
          BY <1>1, <4>2, <5>1, EmptySeq DEF Recent
        <5>3. Face(resting) = Face(payloads[k - 1].resting)
          BY <5>2 DEF CaptureMirrors
        <5>4. payloads'[k - 1] = payloads[k - 1]
          BY <1>2, <2>1, <5>1
        <5> QED BY <5>1, <5>3, <5>4 DEF FaceBefore
      <4> QED BY <4>1, <4>2
    <3>2. payloads'[k].packet = packet /\ payloads'[k].resting = resting'
      BY <1>2, <2>1, <2>3
    <3> QED BY <1>1, <3>1, <3>2
  <2> QED BY <1>1, <1>2, <2>1, <2>2, <2>3
<1>4. payloads' # <<>> => Face(resting') = Face(payloads'[Recent'].resting)
  BY <1>1, <1>2 DEF Recent
<1>5. CaptureMirrors'
  BY <1>1, <1>3, <1>4 DEF CaptureMirrors
<1>6. ASSUME FeedDepth = MaxDepth, ~ stale' PROVE Look(book') = Face(resting')
  <2>1. Deliver(packet, copies, FALSE)
    BY <1>6 DEF Sends, Lose
  <2>2. ~ stale /\ ~ FALSE => Look(book) = Face(resting)
    BY <1>6 DEF InStep
  <2> QED BY <1>1, <1>6, <2>1, <2>2, DeliverLooks
<1>7. InStep'
  BY <1>1, <1>6 DEF InStep
<1> QED BY <1>5, <1>7

LEMMA ReplayFacts ==
  ASSUME Shape, Replay
  PROVE  \E k \in 1 .. Len(payloads) :
            LET p == payloads[k]
            IN  /\ payloads # <<>> /\ source = "exchange" /\ packets # 0 /\ p \in Payload
                /\ Recent' = k /\ replayed' \in 0 .. MaxReplayed /\ replayed' # 0
                /\ k # 1 => Recent = k - 1 /\ k - 1 \in 1 .. Len(payloads)
                /\ resting' = p.resting
                /\ \/ /\ Deliver(p.packet, p.copies, k = 1)
                      /\ torn' = (torn \/ (k = 1 /\ losing))
                   \/ /\ Lose
                      /\ torn' = (torn \/ k = 1)
                /\ UNCHANGED <<source, seq, packets, payloads>>
<1> DEFINE n == Len(payloads)
           k == (replayed % n) + 1
           p == payloads[k]
<1>1. payloads # <<>> /\ replayed < MaxReplayed /\ replayed' = replayed + 1
  BY DEF Replay
<1>2. /\ n \in Nat \ {0} /\ replayed \in Nat /\ MaxReplayed \in Nat
      /\ source = "exchange" /\ packets # 0
  BY <1>1, RecentType, FeedAssumption DEF Shape, TypeOK
<1>3. k \in 1 .. n /\ (replayed % n = 0 <=> k = 1)
      /\ (k # 1 => replayed # 0 /\ ((replayed - 1) % n) + 1 = k - 1)
  <2> HIDE DEF n
  <2>1. /\ (replayed % n) + 1 \in 1 .. n
        /\ replayed % n # 0 => replayed # 0 /\ ((replayed - 1) % n) + 1 = replayed % n
    BY <1>2, PredecessorInPass
  <2>2. replayed % n \in Int
    BY <1>2
  <2> QED BY <2>1, <2>2
<1>4. /\ resting' = p.resting
      /\ \/ /\ Deliver(p.packet, p.copies, replayed % n = 0)
            /\ torn' = (torn \/ (replayed % n = 0 /\ losing))
         \/ /\ Lose
            /\ torn' = (torn \/ replayed % n = 0)
      /\ UNCHANGED <<source, seq, packets, payloads>>
  BY DEF Replay, PayloadAt
<1>5. p \in Payload
  BY <1>1, <1>3, RecentType
<1> HIDE DEF p
<1>6. replayed' \in 0 .. MaxReplayed /\ replayed' # 0 /\ replayed' - 1 = replayed
  BY <1>1, <1>2
<1>7. Recent' = k
  BY <1>4, <1>6 DEF Recent
<1>8. k # 1 => Recent = k - 1 /\ k - 1 \in 1 .. n
  <2>1. k # 1 => Recent = k - 1
    BY <1>3 DEF Recent
  <2> HIDE DEF k, n
  <2> QED BY <1>2, <1>3, <2>1
<1>9. /\ \/ /\ Deliver(p.packet, p.copies, k = 1)
            /\ torn' = (torn \/ (k = 1 /\ losing))
         \/ /\ Lose
            /\ torn' = (torn \/ k = 1)
  <2>1. (replayed % n = 0) = (k = 1)
    BY <1>3
  <2> HIDE DEF k
  <2> QED BY <1>4, <2>1
<1> HIDE DEF k
<1> QED BY <1>1, <1>2, <1>3, <1>4, <1>5, <1>6, <1>7, <1>8, <1>9 DEF p

LEMMA ReplaySteps ==
  ASSUME Shape, Replay
  PROVE  /\ Shape'
         /\ CaptureMirrors /\ InStep => CaptureMirrors' /\ InStep'
<1>1. PICK k \in 1 .. Len(payloads) :
            LET p == payloads[k]
            IN  /\ payloads # <<>> /\ source = "exchange" /\ packets # 0 /\ p \in Payload
                /\ Recent' = k /\ replayed' \in 0 .. MaxReplayed /\ replayed' # 0
                /\ k # 1 => Recent = k - 1 /\ k - 1 \in 1 .. Len(payloads)
                /\ resting' = p.resting
                /\ \/ /\ Deliver(p.packet, p.copies, k = 1)
                      /\ torn' = (torn \/ (k = 1 /\ losing))
                   \/ /\ Lose
                      /\ torn' = (torn \/ k = 1)
                /\ UNCHANGED <<source, seq, packets, payloads>>
  BY ReplayFacts
<1> DEFINE p == payloads[k]
           again == k = 1
<1>2. /\ p.packet \in Packet /\ p.resting \in Restings /\ again \in BOOLEAN
      /\ book \in InstrumentBook /\ misses \in Nat /\ losing \in BOOLEAN /\ stale \in BOOLEAN
  BY <1>1 DEF Payload, Shape, TypeOK
<1>3. Deliver(p.packet, p.copies, again) \/ Lose
  BY <1>1
<1> HIDE DEF p
<1>4. Shape'
  <2>1. /\ book' \in InstrumentBook /\ misses' \in Nat
        /\ losing' \in BOOLEAN /\ stale' \in BOOLEAN
    <3>1. CASE Deliver(p.packet, p.copies, again)
      <4> HIDE DEF again
      <4> QED BY <1>2, <3>1, DeliverFacts
    <3>2. CASE Lose
      BY <1>2, <3>2 DEF Lose
    <3> QED BY <1>3, <3>1, <3>2
  <2>2. torn' \in BOOLEAN
    BY <1>1, <1>2 DEF Shape, TypeOK
  <2>3. resting' \in Restings /\ resting' \in [BookSides -> SUBSET Int]
    BY <1>1, <1>2 DEF Restings, p
  <2>4. /\ source' = source /\ seq' = seq /\ packets' = packets /\ payloads' = payloads
        /\ replayed' \in 0 .. MaxReplayed /\ source = "exchange"
    BY <1>1
  <2> QED BY <2>1, <2>2, <2>3, <2>4 DEF Shape, TypeOK
<1>5. ASSUME CaptureMirrors, InStep PROVE CaptureMirrors' /\ InStep'
  <2>1. CaptureMirrors'
    <3>1. \A j \in 1 .. Len(payloads) : FaceBefore(j)' = FaceBefore(j)
      BY <1>1 DEF FaceBefore, NoPrices
    <3>2. Face(resting') = Face(payloads'[Recent'].resting)
      BY <1>1 DEF p
    <3>3. payloads' = payloads /\ packets' # 0
      BY <1>1
    <3> QED BY <1>5, <3>1, <3>2, <3>3 DEF CaptureMirrors
  <2>2. ASSUME FeedDepth = MaxDepth, ~ stale' PROVE Look(book') = Face(resting')
    <3>1. Deliver(p.packet, p.copies, again)
      BY <1>3, <2>2 DEF Lose
    <3>2. Carries(p.packet, FaceBefore(k), Face(p.resting))
      BY <1>5 DEF CaptureMirrors, p
    <3>3. ~ stale /\ ~ again => Look(book) = FaceBefore(k)
      <4>1. k # 1 => Face(resting) = FaceBefore(k)
        BY <1>1, <1>5 DEF CaptureMirrors, FaceBefore
      <4>2. ~ stale => Look(book) = Face(resting)
        BY <1>5, <2>2 DEF InStep
      <4> QED BY <4>1, <4>2
    <3>4. resting' = p.resting /\ source = "exchange"
      BY <1>1 DEF p
    <3> HIDE DEF again
    <3> QED BY <1>2, <2>2, <3>1, <3>2, <3>3, <3>4, DeliverLooks
  <2>3. source' = "exchange"
    BY <1>1
  <2> QED BY <2>1, <2>2, <2>3 DEF InStep
<1> QED BY <1>4, <1>5

LEMMA UnpublishedSteps ==
  ASSUME Shape, Unpublished, resting' \in Restings, Face(resting') = Face(resting)
  PROVE  /\ Shape'
         /\ CaptureMirrors /\ InStep => CaptureMirrors' /\ InStep'
         /\ Numbered /\ Counted => Numbered' /\ Counted'
<1>1. /\ UNCHANGED <<source, seq, packets, book, losing, misses, stale>>
      /\ UNCHANGED <<payloads, replayed, torn>>
  BY DEF Unpublished, connector
<1>2. resting' \in [BookSides -> SUBSET Int]
  BY DEF Restings
<1>3. Shape'
  BY <1>1, <1>2 DEF Shape, TypeOK
<1>4. Recent' = Recent /\ Sent' = Sent
      /\ \A k \in 1 .. Len(payloads) : FaceBefore(k)' = FaceBefore(k)
                                       /\ SentBefore(k)' = SentBefore(k)
  BY <1>1 DEF Recent, Sent, FaceBefore, SentBefore, NoPrices
<1>5. CaptureMirrors /\ InStep => CaptureMirrors' /\ InStep'
  BY <1>1, <1>4 DEF CaptureMirrors, InStep
<1>6. Numbered /\ Counted => Numbered' /\ Counted'
  BY <1>1, <1>4 DEF Numbered, Counted
<1> QED BY <1>3, <1>5, <1>6

(* The generator's packet: whatever a side of at most one level showed, it *)
(* shows the quote. *)
LEMMA QuoteReplaces ==
  ASSUME NEW L \in Seq(Int), Len(L) <= 1, NEW px \in Int
  PROVE  Replace(L, 1, px) = <<px>>
<1>1. (Len(L) = 0 \/ Len(L) = 1) /\ MaxDepth \in Nat \ {0}
  <2> DEFINE n == Len(L)
  <2>1. n \in Nat /\ n <= 1
    BY LenProperties
  <2> HIDE DEF n
  <2>2. n = 0 \/ n = 1
    BY <2>1
  <2> QED BY <2>2, BookAssumption DEF n
<1>2. CASE Len(L) = 0
  <2>1. L = <<>>
    BY <1>2, EmptySeq
  <2> QED BY <1>1, <2>1 DEF Replace
<1>3. CASE Len(L) = 1
  <2> DEFINE N == [L EXCEPT ![1] = px]
             M == <<px>>
  <2>1. N \in Seq(Int) /\ Len(N) = 1 /\ N[1] = px
    BY <1>3, ExceptSeq
  <2>2. M \in Seq(Int) /\ Len(M) = 1 /\ M[1] = px
    OBVIOUS
  <2>3. Replace(L, 1, px) = N
    BY <1>3 DEF Replace
  <2> HIDE DEF N, M
  <2>4. \A k \in 1 .. 1 : N[k] = M[k]
    BY <2>1, <2>2
  <2>5. N = M
    BY <2>1, <2>2, <2>4, SeqEqual
  <2> QED BY <2>3, <2>5 DEF M
<1> QED BY <1>1, <1>2, <1>3

LEMMA OnePriceShows ==
  ASSUME NEW side \in BookSides, NEW px \in Int
  PROVE  Visible(side, {px}) = <<px>>
<1>1. IsFiniteSet({px}) /\ Cardinality({px}) = 1 /\ {px} \in SUBSET Int
  BY FS_Singleton
<1>2. Depth({px}) = 1
  BY <1>1, FeedAssumption DEF Depth
<1>3. Rank(side, {px}, px) = 1
  BY <1>1, RankOfMember
<1>4. Shows(<<px>>, side, {px})
  BY <1>2, <1>3 DEF Shows
<1> QED BY <1>1, <1>4, ShowsIsVisible

OneDeep(b) == Len(b.bids) <= 1 /\ Len(b.offers) <= 1

Quote(mid) ==
    [side \in BookSides |-> IF side = Bid THEN mid - HalfSpread ELSE mid + HalfSpread]
Quotes(mid) ==
    <<Entry("Overlay", Bid, 1, Quote(mid)[Bid]), Entry("Overlay", Offer, 1, Quote(mid)[Offer])>>

LEMMA QuotesShow ==
  ASSUME NEW mid \in Int, NEW b \in InstrumentBook, OneDeep(b),
         NEW packet \in Packet, \A v : Turns(v, packet) = Turns(v, Quotes(mid))
  PROVE  /\ Look(Played(b, packet)) = Face([side \in BookSides |-> {Quote(mid)[side]}])
         /\ OneDeep(Played(b, packet))
<1> DEFINE q == Quote(mid)
           e == Entry("Overlay", Bid, 1, q[Bid])
           o == Entry("Overlay", Offer, 1, q[Offer])
           c == Played(b, packet)
           w == [side \in BookSides |-> <<q[side]>>]
<1>1. \A side \in BookSides : q[side] \in Int
  BY FeedAssumption DEF Quote
<1>2. b.bids \in Seq(Int) /\ b.offers \in Seq(Int) /\ Len(b.bids) <= 1 /\ Len(b.offers) <= 1
  BY DEF OneDeep, InstrumentBook, Ladder
<1>3. Look(c) = Turns(Look(b), packet)
  BY PlayedLook
<1>4. /\ e.entry_type = Bid /\ o.entry_type = Offer
      /\ UpdateLadder(b.bids, e) = <<q[Bid]>> /\ UpdateLadder(b.offers, o) = <<q[Offer]>>
  <2>1. Bid \in BookSides /\ Offer \in BookSides
    BY DEF BookSides
  <2>2. Replace(b.bids, 1, q[Bid]) = <<q[Bid]>> /\ Replace(b.offers, 1, q[Offer]) = <<q[Offer]>>
    <3> HIDE DEF q
    <3> QED BY <1>1, <1>2, <2>1, QuoteReplaces
  <2> HIDE DEF q
  <2>3. /\ UpdateLadder(b.bids, e) = Replace(b.bids, 1, q[Bid])
        /\ UpdateLadder(b.offers, o) = Replace(b.offers, 1, q[Offer])
    BY EntryUpdates
  <2>4. e.entry_type = Bid /\ o.entry_type = Offer
    BY DEF Entry
  <2> QED BY <2>2, <2>3, <2>4
<1>5. Turns(Look(b), packet) = Turned(Turned(Look(b), e), o)
  <2>1. Quotes(mid) = <<e, o>>
    BY DEF Quotes
  <2> HIDE DEF e, o
  <2> QED BY <2>1 DEF Turns
<1> HIDE DEF q, e, o, c
<1>6. Turned(Turned(Look(b), e), o) = w
  BY <1>4 DEF Turned, Look, BookSides, Bid, Offer
<1>7. Face([side \in BookSides |-> {q[side]}]) = w
  BY <1>1, OnePriceShows DEF Face
<1>8. c.bids = <<q[Bid]>> /\ c.offers = <<q[Offer]>>
  <2>1. Look(c)[Bid] = <<q[Bid]>> /\ Look(c)[Offer] = <<q[Offer]>>
    BY <1>3, <1>5, <1>6 DEF BookSides
  <2> QED BY <2>1 DEF Look, BookSides, Bid, Offer
<1>9. OneDeep(c)
  BY <1>8 DEF OneDeep
<1> QED BY <1>3, <1>5, <1>6, <1>7, <1>9 DEF q, c

LEMMA NextPacketFacts ==
  ASSUME Shape, NextPacket
  PROVE  \E mid \in Mids, packet \in Packet :
            /\ mid \in Int /\ source = "generator"
            /\ packets < MaxPackets /\ packets' = packets + 1
            /\ \A v : Turns(v, packet) = Turns(v, Quotes(mid))
            /\ seq + 2 < RptRange => NumberedFrom(packet, seq)
            /\ seq' = Final(packet)
            /\ resting' = [side \in BookSides |-> {Quote(mid)[side]}]
            /\ Deliver(packet, 1, FALSE) \/ Lose
            /\ UNCHANGED <<source, payloads, replayed, torn>>
<1>1. PICK mid \in Mids :
          LET packet == Number(Quotes(mid), TRUE)
          IN  /\ resting' = [side \in BookSides |-> {Quote(mid)[side]}]
              /\ seq' = packet[1].rpt_seq
              /\ Deliver(packet, 1, FALSE) \/ Lose
  BY DEF NextPacket, Quote, Quotes
<1>2. /\ source = "generator" /\ packets < MaxPackets /\ packets' = packets + 1
      /\ UNCHANGED <<source, payloads, replayed, torn>>
  BY DEF NextPacket
<1>3. mid \in Int
  BY FeedAssumption
<1>4. Quotes(mid) \in Packet
  <2> DEFINE e == Entry("Overlay", Bid, 1, Quote(mid)[Bid])
             o == Entry("Overlay", Offer, 1, Quote(mid)[Offer])
  <2>1. Quote(mid)[Bid] \in Int /\ Quote(mid)[Offer] \in Int
    BY <1>3, FeedAssumption DEF Quote, BookSides
  <2>2. "Overlay" \in UpdateActions /\ Bid \in EntryTypes /\ Offer \in EntryTypes
    BY DEF UpdateActions, EntryTypes, BookSides
  <2>3. e \in FeedEntry /\ o \in FeedEntry
    BY <2>1, <2>2, EntryType
  <2>4. Quotes(mid) = <<e, o>>
    BY DEF Quotes
  <2> HIDE DEF e, o
  <2> QED BY <2>3, <2>4 DEF Packet
<1> DEFINE packet == Number(Quotes(mid), TRUE)
<1>5. /\ packet \in Packet
      /\ seq + 2 < RptRange => NumberedFrom(packet, seq)
      /\ Final(packet) = packet[1].rpt_seq
      /\ \A v : Turns(v, packet) = Turns(v, Quotes(mid))
  <2>1. seq \in Nat
    BY DEF Shape, TypeOK
  <2>2. PICK shared \in BOOLEAN : shared
    OBVIOUS
  <2>3. LET numbered == Number(Quotes(mid), shared)
        IN  /\ numbered \in Packet
            /\ seq + 2 < RptRange => NumberedFrom(numbered, seq)
            /\ Final(numbered) = numbered[1].rpt_seq
            /\ \A v : Turns(v, numbered) = Turns(v, Quotes(mid))
    BY <1>4, <2>1, <2>2, NumberFacts
  <2>4. packet = Number(Quotes(mid), shared)
    BY <2>2 DEF Number
  <2> QED BY <2>3, <2>4
<1>6. /\ resting' = [side \in BookSides |-> {Quote(mid)[side]}]
      /\ seq' = packet[1].rpt_seq
      /\ Deliver(packet, 1, FALSE) \/ Lose
  BY <1>1
<1> HIDE DEF packet
<1> QED BY <1>2, <1>3, <1>5, <1>6

LEMMA NextPacketSteps ==
  ASSUME Shape, NextPacket
  PROVE  /\ Shape'
         /\ CaptureMirrors /\ InStep => CaptureMirrors' /\ InStep'
<1>1. PICK mid \in Mids, packet \in Packet :
            /\ mid \in Int /\ source = "generator"
            /\ packets < MaxPackets /\ packets' = packets + 1
            /\ \A v : Turns(v, packet) = Turns(v, Quotes(mid))
            /\ seq' = Final(packet)
            /\ resting' = [side \in BookSides |-> {Quote(mid)[side]}]
            /\ Deliver(packet, 1, FALSE) \/ Lose
            /\ UNCHANGED <<source, payloads, replayed, torn>>
  BY NextPacketFacts
<1>2. /\ packets \in 0 .. MaxPackets /\ MaxPackets \in Nat
      /\ book \in InstrumentBook /\ misses \in Nat /\ losing \in BOOLEAN /\ stale \in BOOLEAN
      /\ payloads = <<>> /\ replayed = 0
  BY <1>1, FeedAssumption DEF Shape, TypeOK
<1>3. resting' \in Restings
  <2>1. \A side \in BookSides : Quote(mid)[side] \in Int
    BY <1>1, FeedAssumption DEF Quote
  <2>2. \A side \in BookSides : {Quote(mid)[side]} \in SUBSET Int /\ IsFiniteSet({Quote(mid)[side]})
    BY <2>1, FS_Singleton
  <2> QED BY <1>1, <2>2 DEF Restings
<1>4. Shape'
  <2>1. packets' \in 0 .. MaxPackets
    BY <1>1, <1>2
  <2>2. seq' \in 0 .. RptRange - 1
    <3>1. Len(packet) \in 1 .. Len(packet)
      <4>1. Len(packet) \in 1 .. 2
        BY PacketType
      <4> QED BY <4>1
    <3>2. packet[Len(packet)] \in FeedEntry
      BY <3>1, PacketType
    <3> QED BY <1>1, <3>2 DEF Final, FeedEntry
  <2>3. /\ book' \in InstrumentBook /\ misses' \in Nat
        /\ losing' \in BOOLEAN /\ stale' \in BOOLEAN
    <3>1. CASE Deliver(packet, 1, FALSE)
      BY <1>2, <3>1, DeliverFacts
    <3>2. CASE Lose
      BY <1>2, <3>2 DEF Lose
    <3> QED BY <1>1, <3>1, <3>2
  <2>4. resting' \in [BookSides -> SUBSET Int]
    BY <1>3 DEF Restings
  <2> QED BY <1>1, <1>3, <2>1, <2>2, <2>3, <2>4 DEF Shape, TypeOK
<1>5. ASSUME CaptureMirrors, InStep PROVE CaptureMirrors' /\ InStep'
  <2>1. CaptureMirrors'
    <3>1. payloads' = <<>> /\ packets' # 0 /\ Len(payloads') = 0
      BY <1>1, <1>2
    <3> QED BY <3>1 DEF CaptureMirrors
  <2>2. OneDeep(book)
    BY <1>1, <1>5 DEF InStep, OneDeep
  <2>3. CASE Lose
    BY <2>1, <2>2, <2>3 DEF Lose, InStep, OneDeep
  <2>4. CASE Deliver(packet, 1, FALSE)
    <3> DEFINE c == Played(book, packet)
    <3>1. Look(c) = Face(resting') /\ OneDeep(c) /\ c \in InstrumentBook
      BY <1>1, <1>2, <2>2, QuotesShow, PlayedOnce
    <3>2. Look(Played(c, packet)) = Face(resting') /\ OneDeep(Played(c, packet))
      <4> HIDE DEF c
      <4> QED BY <1>1, <3>1, QuotesShow
    <3>3. book' = c \/ book' = Played(c, packet)
      BY <1>2, <2>4, DeliverFacts
    <3> HIDE DEF c
    <3>4. Look(book') = Face(resting') /\ OneDeep(book')
      BY <3>1, <3>2, <3>3
    <3> QED BY <2>1, <3>4 DEF InStep, OneDeep
  <2> QED BY <1>1, <2>1, <2>3, <2>4
<1> QED BY <1>4, <1>5

(* Every step is a packet sent, a hidden change, a replay or the           *)
(* generator's.                                                            *)
LEMMA StepKinds ==
  ASSUME Shape, Next
  PROVE  \/ /\ resting' \in Restings
            /\ \E packet \in Packet, copies \in 1 .. 2 : Sends(packet, copies)
         \/ Unpublished /\ resting' \in Restings /\ Face(resting') = Face(resting)
         \/ Replay
         \/ NextPacket
<1>1. resting \in Restings /\ seq \in Nat /\ Prices \in SUBSET Int
  BY FeedAssumption DEF Shape, TypeOK
<1>2. ASSUME resting' \in Restings, Told
      PROVE  \/ \E packet \in Packet, copies \in 1 .. 2 : Sends(packet, copies)
             \/ Unpublished /\ Face(resting') = Face(resting)
  <2>1. CASE Unpublished /\ Face(resting') = Face(resting)
    BY <2>1
  <2>2. ASSUME NEW entries \in Packet, Publish(entries),
               Carries(entries, Face(resting), Face(resting'))
        PROVE  \E packet \in Packet, copies \in 1 .. 2 : Sends(packet, copies)
    BY <1>1, <2>2, PublishSends
  <2> QED BY <1>2, <2>1, <2>2 DEF Told
<1>3. CASE \E side \in BookSides, p \in Prices :
              \/ Appear(side, p) \/ Vanish(side, p) \/ Sweep(side, p)
              \/ \E q \in Prices : Reprice(side, p, q)
  <2>1. PICK side \in BookSides, p \in Prices :
              \/ Appear(side, p) \/ Vanish(side, p) \/ Sweep(side, p)
              \/ \E q \in Prices : Reprice(side, p, q)
    BY <1>3
  <2>2. p \in Int
    BY <1>1
  <2>3. CASE Appear(side, p)
    BY <1>1, <1>2, <2>2, <2>3, AppearTold
  <2>4. CASE Vanish(side, p)
    BY <1>1, <1>2, <2>2, <2>4, VanishTold
  <2>5. CASE Sweep(side, p)
    BY <1>1, <1>2, <2>2, <2>5, SweepTold
  <2>6. CASE \E q \in Prices : Reprice(side, p, q)
    <3>1. PICK q \in Prices : Reprice(side, p, q)
      BY <2>6
    <3>2. q \in Int
      BY <1>1
    <3>3. resting' \in Restings /\ Told
      BY <1>1, <2>2, <3>1, <3>2, RepriceTold
    <3> QED BY <1>2, <3>3
  <2> QED BY <2>1, <2>3, <2>4, <2>5, <2>6
<1>4. CASE Reset
  BY <1>2, <1>4, ResetTold
<1>5. CASE ImpliedUpdate
  BY <1>1, <1>2, <1>5, ImpliedUpdateTold
<1> QED BY <1>3, <1>4, <1>5 DEF Next

Mirrors == Shape /\ CaptureMirrors /\ InStep

LEMMA MirrorsStart == Init => Mirrors
<1> SUFFICES ASSUME Init PROVE Mirrors
  OBVIOUS
<1>1. /\ book = EmptyBook /\ EmptyBook \in InstrumentBook
  <2>1. <<>> \in Ladder
    BY BookAssumption, EmptySeq DEF Ladder
  <2>2. None \in Option(0 .. RptRange - 1)
    BY EmptySeq DEF None, Option
  <2> QED BY <2>1, <2>2 DEF Init, EmptyBook, InstrumentBook
<1>2. /\ resting = [side \in BookSides |-> {}] /\ resting \in Restings
      /\ Face(resting) = NoPrices
  BY EmptyFace DEF Init
<1>3. payloads = <<>> /\ Len(payloads) = 0 /\ payloads \in Seq(Payload)
  BY DEF Init
<1>4. Look(book) = NoPrices /\ OneDeep(book)
  BY <1>1 DEF Look, NoPrices, EmptyBook, OneDeep
<1>5. resting \in [BookSides -> SUBSET Int]
  BY <1>2 DEF Restings
<1>6. Shape
  <2>1. /\ MaxPackets \in Nat /\ MaxCapture \in Nat /\ MaxReplayed \in Nat
        /\ RptRange \in Nat \ {0}
    BY BookAssumption, FeedAssumption
  <2>2. TypeOK
    <3>1. /\ 0 \in 0 .. MaxPackets /\ 0 \in 0 .. MaxReplayed /\ 0 <= MaxCapture
          /\ 0 \in 0 .. RptRange - 1 /\ 0 \in Nat
      BY <2>1
    <3>2. book \in InstrumentBook /\ Len(payloads) <= MaxCapture
      BY <1>1, <1>3, <3>1
    <3> QED BY <1>5, <3>1, <3>2 DEF Init, TypeOK
  <2> QED BY <1>2, <1>3, <2>1, <2>2 DEF Init, Shape
<1>7. CaptureMirrors /\ InStep
  BY <1>2, <1>3, <1>4 DEF CaptureMirrors, InStep, OneDeep
<1> QED BY <1>6, <1>7 DEF Mirrors

LEMMA ShapeStep == Shape /\ [Next]_vars => Shape'
<1> SUFFICES ASSUME Shape, [Next]_vars PROVE Shape'
  OBVIOUS
<1>1. CASE UNCHANGED vars
  BY <1>1 DEF vars, connector, Shape, TypeOK
<1>2. CASE Next
  BY <1>2, StepKinds, SendsShape, UnpublishedSteps, ReplaySteps, NextPacketSteps
<1> QED BY <1>1, <1>2

LEMMA MirrorsStep == Mirrors /\ [Next]_vars => Mirrors'
<1> SUFFICES ASSUME Mirrors, [Next]_vars PROVE Mirrors'
  OBVIOUS
<1>1. CASE UNCHANGED vars
  <2>1. Recent' = Recent /\ \A k \in 1 .. Len(payloads) : FaceBefore(k)' = FaceBefore(k)
    BY <1>1 DEF vars, Recent, FaceBefore, NoPrices
  <2>2. CaptureMirrors' /\ InStep'
    BY <1>1, <2>1 DEF vars, connector, Mirrors, CaptureMirrors, InStep
  <2> QED BY <2>2, ShapeStep DEF Mirrors
<1>2. CASE Next
  <2>1. CaptureMirrors' /\ InStep'
    BY <1>2, StepKinds, SendsMirrors, UnpublishedSteps, ReplaySteps, NextPacketSteps
       DEF Mirrors
  <2> QED BY <2>1, ShapeStep DEF Mirrors
<1> QED BY <1>1, <1>2

(* Every value the exchange, the book and a capture can take is one of the *)
(* declared ones: ladders stay within MaxDepth whatever the feed's depth   *)
(* and whatever is lost, repeated or replayed (orderbook.rs).              *)
THEOREM FeedTypeCorrect == Spec => []TypeOK
<1>1. Init => Shape
  BY MirrorsStart DEF Mirrors
<1>2. Shape => TypeOK
  BY DEF Shape
<1> QED BY <1>1, <1>2, ShapeStep, PTL DEF Spec

(* A book that no update was lost for, or that was reset since, equals the *)
(* exchange's, when the feed is as deep as the book: for any prices, any   *)
(* depth and any number of packets, and on every pass over a capture that  *)
(* begins with a reset (InstrumentBook::apply and the ladder operations).  *)
THEOREM FeedMirrorsExchange ==
  ASSUME FeedDepth = MaxDepth
  PROVE  Spec => []MirrorsExchange
<1>1. Mirrors => MirrorsExchange
  BY DEF Mirrors, InStep, MirrorsExchange, Look, Face, BookSides, Bid, Offer
<1> QED BY <1>1, MirrorsStart, MirrorsStep, PTL DEF Spec

-----------------------------------------------------------------------------
(* The numbers *)

Counts == Shape /\ Numbered /\ Counted

NumbersDoNotWrap == 2 * MaxPackets + 1 < RptRange

LEMMA SendingType ==
  ASSUME Counts, NumbersDoNotWrap
  PROVE  /\ seq \in Nat /\ packets \in Nat /\ packets <= MaxPackets /\ MaxPackets \in Nat
         /\ RptRange \in Nat /\ seq <= 2 * packets
         /\ book \in InstrumentBook /\ book.gaps \in Nat /\ misses \in Nat
         /\ losing \in BOOLEAN /\ stale \in BOOLEAN /\ torn \in BOOLEAN
         /\ book.last_rpt_seq # None =>
               /\ book.last_rpt_seq[1] \in Nat /\ book.last_rpt_seq[1] + 1 < RptRange
<1>1. /\ seq \in Nat /\ packets \in Nat /\ packets <= MaxPackets /\ MaxPackets \in Nat
      /\ RptRange \in Nat
      /\ book \in InstrumentBook /\ misses \in Nat
      /\ losing \in BOOLEAN /\ stale \in BOOLEAN /\ torn \in BOOLEAN
  BY BookAssumption, FeedAssumption DEF Counts, Shape, TypeOK
<1>2. seq <= 2 * packets
  BY DEF Counts, Numbered
<1>3. book.gaps \in Nat /\ book.last_rpt_seq \in Option(0 .. RptRange - 1)
  BY <1>1 DEF InstrumentBook
<1>4. ASSUME book.last_rpt_seq # None
      PROVE  book.last_rpt_seq[1] \in Nat /\ book.last_rpt_seq[1] + 1 < RptRange
  <2>1. book.last_rpt_seq[1] \in 0 .. RptRange - 1
    BY <1>3, <1>4, OptionValue
  <2>2. book.last_rpt_seq[1] <= 2 * MaxPackets
    BY <1>4 DEF Counts, Counted
  <2> QED BY <1>1, <2>1, <2>2 DEF NumbersDoNotWrap
<1> QED BY <1>1, <1>2, <1>3, <1>4

LEMMA NumberedBounds ==
  ASSUME NEW packet \in Packet, NEW base \in Nat, NumberedFrom(packet, base)
  PROVE  Final(packet) \in Nat /\ base < Final(packet) /\ Final(packet) <= base + 2
<1>1. Len(packet) = 1 \/ Len(packet) = 2
  <2>1. Len(packet) \in 1 .. 2
    BY PacketType
  <2> QED BY <2>1
<1> QED BY <1>1 DEF NumberedFrom, Final

(* What every delivery and every loss does to the numbers, whoever sends. *)
LEMMA Tally ==
  ASSUME Counts, NumbersDoNotWrap, NEW packet \in Packet, NEW copies, NEW out \in BOOLEAN,
         NEW base \in Nat, NumberedFrom(packet, base), Final(packet) <= 2 * MaxPackets,
         out \/ base = Sent,
         out => base = 0,
         Sent' = Final(packet),
         \/ Deliver(packet, copies, out) /\ torn' = (torn \/ (out /\ losing))
         \/ Lose /\ torn' = (torn \/ out)
  PROVE  Counted'
<1> DEFINE last == book.last_rpt_seq
           f == Final(packet)
           Missed == IF last # None /\ last[1] < base THEN 1 ELSE 0
           Follows == IF losing /\ last # None THEN misses + 1 ELSE misses
<1>1. /\ MaxPackets \in Nat /\ RptRange \in Nat
      /\ book \in InstrumentBook /\ book.gaps \in Nat /\ misses \in Nat
      /\ losing \in BOOLEAN /\ stale \in BOOLEAN /\ torn \in BOOLEAN
      /\ last # None => last[1] \in Nat /\ last[1] + 1 < RptRange
  BY SendingType
<1>2. /\ f \in Nat /\ base < f /\ f <= base + 2 /\ f <= 2 * MaxPackets
  BY NumberedBounds
<1>3. base + 2 < RptRange /\ f + 1 < RptRange
  BY <1>1, <1>2 DEF NumbersDoNotWrap
<1>4. ~ torn =>
          /\ book.gaps = misses
          /\ last # None => IF losing THEN last[1] < Sent ELSE last[1] = Sent
  BY DEF Counts, Counted
<1>5. CASE Deliver(packet, copies, out) /\ torn' = (torn \/ (out /\ losing))
  <2>1. book'.last_rpt_seq = Some(f) /\ book'.gaps = book.gaps + Missed
    <3> HIDE DEF f
    <3>1. Final(packet) + 1 < RptRange
      BY <1>3 DEF f
    <3> QED BY <1>1, <1>3, <1>5, <3>1, DeliverCounts DEF f
  <2>2. losing' = FALSE /\ misses' = Follows
    BY <1>1, <1>5, DeliverFacts
  <2>3. Some(f) # None /\ Some(f)[1] = f
    BY DEF Some, None
  <2> HIDE DEF f
  <2>4. ASSUME ~ torn' PROVE book'.gaps = misses'
    <3>1. ~ torn /\ ~ (out /\ losing)
      BY <1>1, <1>5, <2>4
    <3>2. CASE out
      BY <1>1, <1>4, <2>1, <2>2, <3>1, <3>2
    <3>3. CASE ~ out
      BY <1>1, <1>4, <2>1, <2>2, <3>1, <3>3
    <3> QED BY <3>2, <3>3
  <2>5. book'.last_rpt_seq[1] = f /\ Sent' = f
    BY <2>1, <2>3 DEF f
  <2> QED BY <1>2, <2>2, <2>4, <2>5 DEF Counted
<1>6. CASE Lose /\ torn' = (torn \/ out)
  <2>1. book' = book /\ misses' = misses /\ losing' = TRUE
    BY <1>6 DEF Lose
  <2>2. last # None => last[1] <= 2 * MaxPackets
    BY DEF Counts, Counted
  <2>3. ASSUME ~ torn', last # None PROVE last[1] < Sent'
    <3>1. ~ torn /\ ~ out /\ base = Sent
      BY <1>1, <1>6, <2>3
    <3>2. last[1] <= base
      BY <1>1, <1>4, <2>3, <3>1
    <3> HIDE DEF last
    <3> QED BY <1>1, <1>2, <2>3, <3>2
  <2>4. ~ torn' => book.gaps = misses
    BY <1>1, <1>4, <1>6
  <2> QED BY <2>1, <2>2, <2>3, <2>4 DEF Counted
<1> QED BY <1>5, <1>6

LEMMA SendsCounts ==
  ASSUME Counts, NumbersDoNotWrap, resting' \in Restings,
         NEW packet \in Packet, NEW copies \in 1 .. 2, Sends(packet, copies)
  PROVE  Numbered' /\ Counted'
<1>1. /\ seq \in Nat /\ packets \in Nat /\ packets < MaxPackets /\ MaxPackets \in Nat
      /\ seq <= 2 * packets /\ RptRange \in Nat /\ packets' = packets + 1
      /\ source = "exchange" /\ replayed = 0 /\ replayed' = 0
      /\ Len(payloads) \in Nat /\ Shape
  BY SendingType, LenProperties DEF Sends, Counts, Shape
<1>2. seq + 2 < RptRange
  BY <1>1 DEF NumbersDoNotWrap
<1>3. /\ NumberedFrom(packet, seq) /\ seq' = Final(packet)
      /\ Deliver(packet, copies, FALSE) \/ Lose
      /\ torn' = torn
  BY <1>2 DEF Sends
<1>4. Final(packet) \in Nat /\ seq < Final(packet) /\ Final(packet) <= seq + 2
  BY <1>1, <1>3, NumberedBounds
<1>5. /\ Final(packet) <= 2 * packets' /\ Final(packet) <= 2 * MaxPackets
  BY <1>1, <1>4
<1>6. payloads' # <<>> =>
         /\ Len(payloads') = Len(payloads) + 1
         /\ packets = Len(payloads)
         /\ \A k \in 1 .. Len(payloads) : payloads'[k] = payloads[k]
         /\ payloads'[Len(payloads')].packet = packet
  BY <1>1, CapturedFacts DEF Sends
<1>7. Numbered'
  <2>1. ASSUME NEW k \in 1 .. Len(payloads')
        PROVE  /\ NumberedFrom(payloads'[k].packet, SentBefore(k)')
               /\ Final(payloads'[k].packet) <= 2 * MaxPackets
    <3>1. payloads' # <<>>
      BY EmptySeq
    <3>2. CASE k \in 1 .. Len(payloads)
      <4>1. SentBefore(k)' = SentBefore(k)
        <5>1. k = 1 \/ k - 1 \in 1 .. Len(payloads)
          BY <1>1, <3>2
        <5>2. k # 1 => payloads'[k - 1] = payloads[k - 1]
          BY <1>6, <3>1, <5>1
        <5> QED BY <5>2 DEF SentBefore
      <4>2. /\ NumberedFrom(payloads[k].packet, SentBefore(k))
            /\ Final(payloads[k].packet) <= 2 * MaxPackets
        BY <3>2 DEF Counts, Numbered
      <4> QED BY <1>6, <3>1, <3>2, <4>1, <4>2
    <3>3. CASE k = Len(payloads) + 1
      <4>1. SentBefore(k)' = seq
        <5>1. CASE Len(payloads) = 0
          <6>1. packets = 0 /\ seq = 0
            BY <1>1, <1>6, <3>1, <5>1
          <6> QED BY <3>3, <5>1, <6>1 DEF SentBefore
        <5>2. CASE Len(payloads) # 0
          <6>1. k # 1 /\ k - 1 = Len(payloads) /\ k - 1 \in 1 .. Len(payloads)
            BY <1>1, <3>3, <5>2
          <6>2. payloads # <<>> /\ payloads'[k - 1] = payloads[k - 1]
            BY <1>1, <1>6, <3>1, <5>2, <6>1, EmptySeq
          <6>3. seq = Final(payloads[k - 1].packet)
            BY <6>1, <6>2 DEF Counts, Numbered
          <6> QED BY <6>1, <6>2, <6>3 DEF SentBefore
        <5> QED BY <5>1, <5>2
      <4>2. payloads'[k].packet = packet
        BY <1>6, <3>1, <3>3
      <4> QED BY <1>3, <1>5, <4>1, <4>2
    <3> QED BY <1>1, <1>6, <3>1, <3>2, <3>3
  <2>2. payloads' # <<>> => seq' = Final(payloads'[Len(payloads')].packet)
    BY <1>3, <1>6
  <2>3. seq' <= 2 * packets'
    BY <1>3, <1>5
  <2> QED BY <2>1, <2>2, <2>3 DEF Numbered
<1>8. Sent = seq
  BY <1>1 DEF Sent, Recent, Counts, Numbered
<1>9. Sent' = Final(packet)
  BY <1>1, <1>3, <1>6 DEF Sent, Recent
<1>10. Counted'
  <2>1. \/ Deliver(packet, copies, FALSE) /\ torn' = (torn \/ (FALSE /\ losing))
        \/ Lose /\ torn' = (torn \/ FALSE)
    BY <1>3, SendingType
  <2> QED BY <1>1, <1>3, <1>5, <1>8, <1>9, <2>1, Tally
<1> QED BY <1>7, <1>10

LEMMA ReplayCounts ==
  ASSUME Counts, NumbersDoNotWrap, Replay
  PROVE  Numbered' /\ Counted'
<1>1. PICK k \in 1 .. Len(payloads) :
            LET p == payloads[k]
            IN  /\ payloads # <<>> /\ source = "exchange" /\ packets # 0 /\ p \in Payload
                /\ Recent' = k /\ replayed' \in 0 .. MaxReplayed /\ replayed' # 0
                /\ k # 1 => Recent = k - 1 /\ k - 1 \in 1 .. Len(payloads)
                /\ resting' = p.resting
                /\ \/ /\ Deliver(p.packet, p.copies, k = 1)
                      /\ torn' = (torn \/ (k = 1 /\ losing))
                   \/ /\ Lose
                      /\ torn' = (torn \/ k = 1)
                /\ UNCHANGED <<source, seq, packets, payloads>>
  BY ReplayFacts DEF Counts
<1> DEFINE p == payloads[k]
           base == SentBefore(k)
           again == k = 1
<1>2. /\ p.packet \in Packet /\ again \in BOOLEAN
      /\ NumberedFrom(p.packet, base) /\ Final(p.packet) <= 2 * MaxPackets
  BY <1>1 DEF Payload, Counts, Numbered
<1>3. Numbered'
  <2>1. \A j \in 1 .. Len(payloads) : SentBefore(j)' = SentBefore(j)
    BY <1>1 DEF SentBefore
  <2> QED BY <1>1, <2>1 DEF Counts, Numbered
<1>4. Sent' = Final(p.packet)
  BY <1>1 DEF Sent
<1>5. (again \/ base = Sent) /\ (again => base = 0)
  BY <1>1 DEF Sent, SentBefore
<1>6. base \in Nat
  <2>1. CASE k = 1
    BY <2>1 DEF SentBefore
  <2>2. CASE k # 1
    <3> DEFINE before == payloads[k - 1].packet
    <3>1. k - 1 \in 1 .. Len(payloads) /\ base = Final(before)
      BY <1>1, <2>2 DEF SentBefore
    <3>2. before \in Packet
      BY <1>1, <3>1, RecentType DEF Counts, Payload
    <3> HIDE DEF before
    <3>3. Len(before) \in 1 .. Len(before)
      <4>1. Len(before) \in 1 .. 2
        BY <3>2, PacketType
      <4> QED BY <4>1
    <3>4. before[Len(before)] \in FeedEntry
      BY <3>2, <3>3, PacketType
    <3> QED BY <3>1, <3>4, BookAssumption DEF Final, FeedEntry
  <2> QED BY <2>1, <2>2
<1>7. \/ Deliver(p.packet, p.copies, again) /\ torn' = (torn \/ (again /\ losing))
      \/ Lose /\ torn' = (torn \/ again)
  BY <1>1
<1> HIDE DEF p, base, again
<1>8. Counted'
  BY <1>2, <1>4, <1>5, <1>6, <1>7, Tally
<1> QED BY <1>3, <1>8

LEMMA NextPacketCounts ==
  ASSUME Counts, NumbersDoNotWrap, NextPacket
  PROVE  Numbered' /\ Counted'
<1>1. PICK mid \in Mids, packet \in Packet :
            /\ source = "generator"
            /\ packets < MaxPackets /\ packets' = packets + 1
            /\ seq + 2 < RptRange => NumberedFrom(packet, seq)
            /\ seq' = Final(packet)
            /\ Deliver(packet, 1, FALSE) \/ Lose
            /\ UNCHANGED <<source, payloads, replayed, torn>>
  BY NextPacketFacts DEF Counts
<1>2. /\ seq \in Nat /\ packets \in Nat /\ MaxPackets \in Nat
      /\ seq <= 2 * packets /\ RptRange \in Nat /\ torn \in BOOLEAN
      /\ payloads = <<>> /\ payloads' = <<>>
  BY <1>1, SendingType DEF Counts, Shape
<1>3. seq + 2 < RptRange
  BY <1>1, <1>2 DEF NumbersDoNotWrap
<1>4. /\ NumberedFrom(packet, seq)
      /\ Final(packet) \in Nat /\ seq < Final(packet) /\ Final(packet) <= seq + 2
  BY <1>1, <1>2, <1>3, NumberedBounds
<1>5. Final(packet) <= 2 * packets' /\ Final(packet) <= 2 * MaxPackets
  BY <1>1, <1>2, <1>4
<1>6. Numbered'
  <2>1. Len(payloads') = 0
    BY <1>2
  <2>2. seq' <= 2 * packets'
    BY <1>1, <1>5
  <2> QED BY <1>2, <2>1, <2>2 DEF Numbered
<1>7. Sent = seq /\ Sent' = Final(packet)
  BY <1>1, <1>2 DEF Sent
<1>8. \/ Deliver(packet, 1, FALSE) /\ torn' = (torn \/ (FALSE /\ losing))
      \/ Lose /\ torn' = (torn \/ FALSE)
  BY <1>1, <1>2
<1>9. Counted'
  BY <1>2, <1>4, <1>5, <1>7, <1>8, Tally
<1> QED BY <1>6, <1>9

LEMMA CountsStart == Init => Counts
<1> SUFFICES ASSUME Init PROVE Counts
  OBVIOUS
<1>1. Shape
  BY MirrorsStart DEF Mirrors
<1>2. payloads = <<>> /\ Len(payloads) = 0 /\ seq = 0 /\ packets = 0
  BY DEF Init
<1>3. book.last_rpt_seq = None /\ book.gaps = 0 /\ misses = 0
  BY DEF Init, EmptyBook
<1> QED BY <1>1, <1>2, <1>3 DEF Counts, Numbered, Counted

LEMMA CountsStep ==
  ASSUME NumbersDoNotWrap
  PROVE  Counts /\ [Next]_vars => Counts'
<1> SUFFICES ASSUME Counts, [Next]_vars PROVE Counts'
  OBVIOUS
<1>1. Shape'
  BY ShapeStep DEF Counts
<1>2. CASE UNCHANGED vars
  <2>1. Sent' = Sent /\ \A k \in 1 .. Len(payloads) : SentBefore(k)' = SentBefore(k)
    BY <1>2 DEF vars, Sent, Recent, SentBefore
  <2>2. Numbered' /\ Counted'
    BY <1>2, <2>1 DEF vars, connector, Counts, Numbered, Counted
  <2> QED BY <1>1, <2>2 DEF Counts
<1>3. CASE Next
  <2>1. Numbered' /\ Counted'
    BY <1>3, StepKinds, SendsCounts, UnpublishedSteps, ReplayCounts, NextPacketCounts
       DEF Counts
  <2> QED BY <1>1, <2>1 DEF Counts
<1> QED BY <1>2, <1>3

(* As long as the 32-bit numbers do not wrap, gaps is the number of        *)
(* deliveries that followed a loss: no loss the book could see goes        *)
(* uncounted, and packets that come twice, numbers entries share, a        *)
(* reset and a capture that starts over add none (InstrumentBook::apply).  *)
THEOREM FeedGapsAreExact ==
  ASSUME NumbersDoNotWrap
  PROVE  Spec => []GapsAreExact
<1>1. Counts => GapsAreExact
  BY DEF Counts, Counted, GapsAreExact
<1> QED BY <1>1, CountsStart, CountsStep, PTL DEF Spec
=============================================================================
