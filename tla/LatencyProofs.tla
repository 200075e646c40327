--------------------------- MODULE LatencyProofs ---------------------------
(***************************************************************************)
(* Theorems about Latency, for every clock, rate, histogram bound and      *)
(* pair of stage durations.                                                *)
(***************************************************************************)
EXTENDS Latency, StageProofs

-----------------------------------------------------------------------------
(* Sums over finite sets.                                                  *)

LEMMA SumOverUnfolds ==
  ASSUME NEW D, IsFiniteSet(D), NEW f, \A d \in D : f[d] \in Int
  PROVE  \E g : SumOver(f, D) = g[D] /\ SumRecursion(g, D, f)
<1> DEFINE F == [d \in D |-> [v \in Int |-> f[d] + v]]
           pick == AnyOf(D)
<1>1. Keeps(F, D, Int) /\ Picks(pick, D)
  BY AnyPicks DEF Keeps
<1>2. PICK g \in [SUBSET D -> Int] : Recurses(g, D, 0, pick, F)
  <2> HIDE DEF F, pick
  <2>1. 0 \in Int
    OBVIOUS
  <2> QED BY <1>1, <2>1, SubsetRecursion, Zenon
<1>3. ASSUME NEW s \in SUBSET D, s # {} PROVE g[s] = f[AnyIn(s)] + g[s \ {AnyIn(s)}]
  <2> HIDE DEF pick
  <2>1. pick[s] = AnyIn(s) /\ AnyIn(s) \in D /\ g[s \ {AnyIn(s)}] \in Int
    BY <1>3, AnyPicks DEF pick
  <2>2. g[s] = F[AnyIn(s)][g[s \ {AnyIn(s)}]]
    BY <1>2, <1>3, <2>1 DEF Recurses
  <2> QED BY <2>1, <2>2
<1>4. g[{}] = 0
  BY <1>2 DEF Recurses
<1>5. SumRecursion(g, D, f)
  BY <1>3, <1>4 DEF SumRecursion
<1>6. SumOver(f, D) = (CHOOSE h : SumRecursion(h, D, f))[D]
  BY DEF SumOver, MapThenSumSet, MapThenFoldSet, AnyIn, SumRecursion
<1> QED BY <1>5, <1>6

(* Two such recursive functions agree where both are defined.              *)
LEMMA SumsAgree ==
  ASSUME NEW D, NEW s \in SUBSET D, IsFiniteSet(s), NEW f, NEW g, NEW h,
         SumRecursion(g, D, f), SumRecursion(h, s, f)
  PROVE  h[s] = g[s]
<1> DEFINE H == {u \in SUBSET s : h[u] = g[u]}
           p == AnyOf(s)
<1>1. {} \in H
  <2>1. {} \in SUBSET s /\ {} \in SUBSET D
    OBVIOUS
  <2>2. h[{}] = 0 /\ g[{}] = 0
    BY <2>1 DEF SumRecursion
  <2> QED BY <2>1, <2>2
<1>2. ASSUME NEW u \in SUBSET s, u # {}, u \ {p[u]} \in H PROVE u \in H
  <2>1. p[u] = AnyIn(u) /\ u \in SUBSET D
    BY <1>2, AnyPicks
  <2>2. g[u] = f[AnyIn(u)] + g[u \ {AnyIn(u)}]
    BY <1>2, <2>1 DEF SumRecursion
  <2>3. h[u] = f[AnyIn(u)] + h[u \ {AnyIn(u)}]
    BY <1>2, <2>1 DEF SumRecursion
  <2> QED BY <1>2, <2>1, <2>2, <2>3
<1>3. Picks(p, s) /\ Grows(H, s, p)
  BY <1>1, <1>2, AnyPicks DEF Grows
<1>4. s \in H
  <2> HIDE DEF H, p
  <2> QED BY <1>3, SubsetInduction, Zenon
<1> QED BY <1>4

(* The same, as equations between sums: of nothing, and less one member.   *)
LEMMA SumOverRecurs ==
  ASSUME NEW D, IsFiniteSet(D), NEW f, \A d \in D : f[d] \in Int
  PROVE  /\ SumOver(f, {}) = 0
         /\ SumOver(f, D) \in Int
         /\ D # {} => SumOver(f, D) = f[AnyIn(D)] + SumOver(f, D \ {AnyIn(D)})
<1> DEFINE pick == AnyOf(D)
<1>1. PICK g : SumOver(f, D) = g[D] /\ SumRecursion(g, D, f)
  BY SumOverUnfolds
<1>2. ASSUME NEW s \in SUBSET D PROVE SumOver(f, s) = g[s]
  <2>1. IsFiniteSet(s) /\ \A d \in s : f[d] \in Int
    BY FS_Subset
  <2>2. PICK h : SumOver(f, s) = h[s] /\ SumRecursion(h, s, f)
    BY <2>1, SumOverUnfolds
  <2> QED BY <1>1, <2>1, <2>2, SumsAgree
<1>3. {} \in SUBSET D /\ D \in SUBSET D /\ D \ {AnyIn(D)} \in SUBSET D
  OBVIOUS
<1>4. g[{}] = 0
  BY <1>1, <1>3 DEF SumRecursion
<1>5. D # {} => g[D] = f[AnyIn(D)] + g[D \ {AnyIn(D)}]
  BY <1>1, <1>3 DEF SumRecursion
<1> DEFINE G == {s \in SUBSET D : g[s] \in Int}
<1>6. {} \in G
  BY <1>4
<1>7. ASSUME NEW s \in SUBSET D, s # {}, s \ {pick[s]} \in G PROVE s \in G
  <2>1. pick[s] = AnyIn(s) /\ AnyIn(s) \in D
    BY <1>7, AnyPicks
  <2>2. g[s] = f[AnyIn(s)] + g[s \ {AnyIn(s)}]
    BY <1>1, <1>7 DEF SumRecursion
  <2>3. f[AnyIn(s)] \in Int /\ g[s \ {AnyIn(s)}] \in Int
    BY <1>7, <2>1
  <2> QED BY <2>2, <2>3
<1>8. Picks(pick, D) /\ Grows(G, D, pick)
  BY <1>6, <1>7, AnyPicks DEF Grows
<1>9. D \in G
  <2> HIDE DEF G, pick
  <2> QED BY <1>8, SubsetInduction, Zenon
<1>10. g[D] \in Int
  BY <1>9
<1> QED BY <1>2, <1>3, <1>4, <1>5, <1>10

(* The order does not matter: any member may come first.                   *)
LEMMA SumOverLess ==
  ASSUME NEW D, IsFiniteSet(D), NEW f, \A d \in D : f[d] \in Int, NEW x \in D
  PROVE  SumOver(f, D) = f[x] + SumOver(f, D \ {x})
<1> DEFINE P(s) == \A y \in s : SumOver(f, s) = f[y] + SumOver(f, s \ {y})
           T == {n \in Nat : \A s \in SUBSET D : Cardinality(s) <= n => P(s)}
<1>1. \A s \in SUBSET D : /\ IsFiniteSet(s) /\ Cardinality(s) \in Nat
                          /\ \A d \in s : f[d] \in Int
  BY FS_Subset, FS_CardinalityType
<1>2. 0 \in T
  <2> SUFFICES ASSUME NEW s \in SUBSET D, Cardinality(s) <= 0 PROVE P(s)
    OBVIOUS
  <2>1. Cardinality(s) = 0 /\ IsFiniteSet(s)
    BY <1>1
  <2> QED BY <2>1, FS_EmptySet
<1>3. ASSUME NEW n \in T PROVE n + 1 \in T
  <2> SUFFICES ASSUME NEW s \in SUBSET D, Cardinality(s) <= n + 1, NEW y \in s
               PROVE  SumOver(f, s) = f[y] + SumOver(f, s \ {y})
    OBVIOUS
  <2> DEFINE c == AnyIn(s)
             r == s \ {y, c}
  <2>1. c \in s /\ SumOver(f, s) = f[c] + SumOver(f, s \ {c})
    BY <1>1, AnyPicks, SumOverRecurs
  <2>2. CASE c = y
    BY <2>1, <2>2
  <2>3. CASE c # y
    <3> HIDE DEF c
    <3>1. s \ {c} \in SUBSET D /\ s \ {y} \in SUBSET D /\ r \in SUBSET D
      OBVIOUS
    <3>2. Cardinality(s \ {c}) = Cardinality(s) - 1 /\ Cardinality(s \ {y}) = Cardinality(s) - 1
      BY <1>1, <2>1, FS_RemoveElement
    <3>3. Cardinality(s \ {c}) <= n /\ Cardinality(s \ {y}) <= n
      BY <1>1, <1>3, <3>2
    <3>4. P(s \ {c}) /\ P(s \ {y})
      BY <1>3, <3>1, <3>3
    <3>5. (s \ {c}) \ {y} = r /\ (s \ {y}) \ {c} = r
      OBVIOUS
    <3>6. SumOver(f, s \ {c}) = f[y] + SumOver(f, r)
      BY <2>3, <3>4, <3>5
    <3>7. SumOver(f, s \ {y}) = f[c] + SumOver(f, r)
      BY <2>1, <2>3, <3>4, <3>5
    <3>8. f[c] \in Int /\ f[y] \in Int /\ SumOver(f, r) \in Int
      BY <1>1, <2>1, <3>1, SumOverRecurs
    <3> QED BY <2>1, <3>6, <3>7, <3>8
  <2> QED BY <2>2, <2>3
<1>4. Cardinality(D) \in T
  <2> HIDE DEF T
  <2>1. T \in SUBSET Nat
    BY DEF T
  <2> QED BY <1>1, <1>2, <1>3, <2>1, NatSetInduction
<1> QED BY <1>1, <1>4

(* Every member of a bag counts once at least.                             *)
LEMMA SumOverBag ==
  ASSUME NEW b, IsABag(b), NEW S \in SUBSET DOMAIN b, IsFiniteSet(S)
  PROVE  /\ SumOver(b, S) \in Nat
         /\ S # {} => SumOver(b, S) >= 1
         /\ SumOver(b, {}) = 0
<1> DEFINE pick == AnyOf(S)
           G == {s \in SUBSET S : SumOver(b, s) \in Nat /\ (s # {} => SumOver(b, s) >= 1)}
<1>1. \A d \in DOMAIN b : b[d] \in Nat /\ b[d] >= 1 /\ b[d] \in Int
  BY DEF IsABag
<1>2. SumOver(b, {}) = 0
  BY FS_EmptySet, SumOverRecurs
<1>3. {} \in G
  BY <1>2
<1>4. ASSUME NEW s \in SUBSET S, s # {}, s \ {pick[s]} \in G PROVE s \in G
  <2>1. pick[s] = AnyIn(s) /\ AnyIn(s) \in S /\ IsFiniteSet(s) /\ \A d \in s : b[d] \in Int
    BY <1>1, <1>4, AnyPicks, FS_Subset
  <2>2. SumOver(b, s) = b[AnyIn(s)] + SumOver(b, s \ {AnyIn(s)})
    BY <1>4, <2>1, SumOverRecurs
  <2> QED BY <1>1, <1>4, <2>1, <2>2
<1>5. Picks(pick, S) /\ Grows(G, S, pick)
  BY <1>3, <1>4, AnyPicks DEF Grows
<1>6. S \in G
  <2> HIDE DEF G, pick
  <2> QED BY <1>5, SubsetInduction, Zenon
<1> QED BY <1>2, <1>6

(* More members of a bag count for more.                                   *)
LEMMA SumOverGrows ==
  ASSUME NEW b, IsABag(b), NEW S \in SUBSET DOMAIN b, IsFiniteSet(S), NEW R \in SUBSET S
  PROVE  SumOver(b, R) <= SumOver(b, S)
<1> DEFINE C == S \ R
           pick == AnyOf(C)
           G == {s \in SUBSET C : SumOver(b, R) <= SumOver(b, R \cup s)}
<1>1. \A s \in SUBSET S : IsFiniteSet(s) /\ SumOver(b, s) \in Nat /\ \A d \in s : b[d] \in Nat
  BY FS_Subset, SumOverBag DEF IsABag
<1>2. {} \in G
  <2>1. R \cup {} = R
    OBVIOUS
  <2> QED BY <1>1, <2>1
<1>3. ASSUME NEW s \in SUBSET C, s # {}, s \ {pick[s]} \in G PROVE s \in G
  <2> DEFINE x == AnyIn(s)
             U == R \cup s
             V == R \cup (s \ {x})
  <2>1. pick[s] = x /\ x \in s
    BY <1>3, AnyPicks
  <2> HIDE DEF x, pick
  <2>2. U \in SUBSET S /\ V \in SUBSET S /\ x \in U /\ U \ {x} = V
    BY <1>3, <2>1
  <2>3. SumOver(b, U) = b[x] + SumOver(b, V)
    <3> HIDE DEF U, V
    <3> QED BY <1>1, <2>2, SumOverLess
  <2>4. SumOver(b, R) <= SumOver(b, V)
    BY <1>3, <2>1
  <2>5. SumOver(b, R) \in Nat /\ SumOver(b, V) \in Nat /\ b[x] \in Nat
    BY <1>1, <2>2
  <2>6. SumOver(b, R) <= SumOver(b, U)
    BY <2>3, <2>4, <2>5
  <2> QED BY <1>3, <2>6
<1>4. Picks(pick, C) /\ Grows(G, C, pick) /\ IsFiniteSet(C)
  BY <1>2, <1>3, AnyPicks, FS_Subset DEF Grows
<1>5. C \in G
  <2> HIDE DEF G, pick
  <2> QED BY <1>4, SubsetInduction, Zenon
<1>6. R \cup C = S
  OBVIOUS
<1> QED BY <1>5, <1>6

(* The members of two bags poured together are those of each.              *)
LEMMA SumOverUnion ==
  ASSUME NEW a, IsABag(a), NEW b, IsABag(b),
         NEW S \in SUBSET (DOMAIN a \cup DOMAIN b), IsFiniteSet(S)
  PROVE  SumOver(a (+) b, S) = SumOver(a, S \cap DOMAIN a) + SumOver(b, S \cap DOMAIN b)
<1> DEFINE c == a (+) b
           A(s) == s \cap DOMAIN a
           B(s) == s \cap DOMAIN b
           pick == AnyOf(S)
           G == {s \in SUBSET S : SumOver(c, s) = SumOver(a, A(s)) + SumOver(b, B(s))}
<1>1. /\ \A d \in DOMAIN a : a[d] \in Nat
      /\ \A d \in DOMAIN b : b[d] \in Nat
      /\ \A d \in S : c[d] = (IF d \in DOMAIN a THEN a[d] ELSE 0)
                           + (IF d \in DOMAIN b THEN b[d] ELSE 0)
  BY DEF IsABag, (+)
<1> HIDE DEF c
<1>2. \A s \in SUBSET S : /\ IsFiniteSet(s) /\ IsFiniteSet(A(s)) /\ IsFiniteSet(B(s))
                          /\ SumOver(a, A(s)) \in Nat /\ SumOver(b, B(s)) \in Nat
                          /\ \A d \in s : c[d] \in Int
  <2> SUFFICES ASSUME NEW s \in SUBSET S
               PROVE  /\ IsFiniteSet(s) /\ IsFiniteSet(A(s)) /\ IsFiniteSet(B(s))
                      /\ SumOver(a, A(s)) \in Nat /\ SumOver(b, B(s)) \in Nat
                      /\ \A d \in s : c[d] \in Int
    OBVIOUS
  <2>1. IsFiniteSet(s) /\ IsFiniteSet(A(s)) /\ IsFiniteSet(B(s))
    <3>1. A(s) \in SUBSET s /\ B(s) \in SUBSET s
      OBVIOUS
    <3> HIDE DEF A, B
    <3> QED BY <3>1, FS_Subset
  <2>2. A(s) \in SUBSET DOMAIN a /\ B(s) \in SUBSET DOMAIN b
    OBVIOUS
  <2>3. SumOver(a, A(s)) \in Nat /\ SumOver(b, B(s)) \in Nat
    <3> HIDE DEF A, B
    <3> QED BY <2>1, <2>2, SumOverBag
  <2> QED BY <1>1, <2>1, <2>3
<1>3. {} \in G
  <2>1. A({}) = {} /\ B({}) = {}
    OBVIOUS
  <2>2. SumOver(c, {}) = 0 /\ SumOver(a, {}) = 0 /\ SumOver(b, {}) = 0
    BY FS_EmptySet, SumOverRecurs
  <2> QED BY <2>1, <2>2
<1>4. ASSUME NEW s \in SUBSET S, s # {}, s \ {pick[s]} \in G PROVE s \in G
  <2> DEFINE x == AnyIn(s)
             t == s \ {x}
  <2>1. pick[s] = x /\ x \in s
    BY <1>4, AnyPicks
  <2> HIDE DEF x, pick
  <2>2. SumOver(c, s) = c[x] + SumOver(c, t)
    <3>1. s \in SUBSET S /\ IsFiniteSet(s) /\ \A d \in s : c[d] \in Int
      BY <1>2, <1>4
    <3> HIDE DEF t
    <3>2. SumOver(c, s) = c[x] + SumOver(c, s \ {x})
      BY <2>1, <3>1, SumOverLess, Zenon
    <3> QED BY <3>2 DEF t
  <2>3. SumOver(c, t) = SumOver(a, A(t)) + SumOver(b, B(t))
    BY <1>4, <2>1
  <2>4. SumOver(a, A(s)) = (IF x \in DOMAIN a THEN a[x] ELSE 0) + SumOver(a, A(t))
    <3>1. CASE x \in DOMAIN a
      <4>1. A(s) \ {x} = A(t) /\ x \in A(s)
        BY <2>1, <3>1
      <4>2. \A d \in A(s) : a[d] \in Int
        BY <1>1
      <4> HIDE DEF A, t
      <4>3. IsFiniteSet(A(s))
        BY <1>2
      <4> QED BY <3>1, <4>1, <4>2, <4>3, SumOverLess
    <3>2. CASE x \notin DOMAIN a
      <4>1. A(s) = A(t)
        BY <2>1, <3>2
      <4>2. SumOver(a, A(s)) \in Nat
        BY <1>2
      <4> HIDE DEF A, t
      <4> QED BY <3>2, <4>1, <4>2
    <3> QED BY <3>1, <3>2
  <2>5. SumOver(b, B(s)) = (IF x \in DOMAIN b THEN b[x] ELSE 0) + SumOver(b, B(t))
    <3>1. CASE x \in DOMAIN b
      <4>1. B(s) \ {x} = B(t) /\ x \in B(s)
        BY <2>1, <3>1
      <4>2. \A d \in B(s) : b[d] \in Int
        BY <1>1
      <4> HIDE DEF B, t
      <4>3. IsFiniteSet(B(s))
        BY <1>2
      <4> QED BY <3>1, <4>1, <4>2, <4>3, SumOverLess
    <3>2. CASE x \notin DOMAIN b
      <4>1. B(s) = B(t)
        BY <2>1, <3>2
      <4>2. SumOver(b, B(s)) \in Nat
        BY <1>2
      <4> HIDE DEF B, t
      <4> QED BY <3>2, <4>1, <4>2
    <3> QED BY <3>1, <3>2
  <2>6. SumOver(a, A(t)) \in Nat /\ SumOver(b, B(t)) \in Nat
    BY <1>2, <2>1
  <2>7. c[x] = (IF x \in DOMAIN a THEN a[x] ELSE 0) + (IF x \in DOMAIN b THEN b[x] ELSE 0)
    BY <1>1, <2>1
  <2> DEFINE u == IF x \in DOMAIN a THEN a[x] ELSE 0
             v == IF x \in DOMAIN b THEN b[x] ELSE 0
  <2>8. u \in Nat /\ v \in Nat
    BY <1>1
  <2> HIDE DEF u, v
  <2>9. SumOver(c, s) = SumOver(a, A(s)) + SumOver(b, B(s))
    <3>1. c[x] = u + v /\ SumOver(a, A(s)) = u + SumOver(a, A(t))
                       /\ SumOver(b, B(s)) = v + SumOver(b, B(t))
      BY <2>4, <2>5, <2>7 DEF u, v
    <3> HIDE DEF A, B, t
    <3> QED BY <2>2, <2>3, <2>6, <2>8, <3>1
  <2> QED BY <1>4, <2>9
<1>5. Picks(pick, S) /\ Grows(G, S, pick)
  BY <1>3, <1>4, AnyPicks DEF Grows
<1>6. S \in G
  <2> HIDE DEF G, pick
  <2> QED BY <1>5, SubsetInduction, Zenon
<1> QED BY <1>6 DEF c

-----------------------------------------------------------------------------
(* Bags and histograms.                                                    *)

LEMMA BagsPour ==
  ASSUME NEW a, IsABag(a), NEW b, IsABag(b)
  PROVE  /\ IsABag(a (+) b) /\ DOMAIN (a (+) b) = DOMAIN a \cup DOMAIN b
         /\ a (+) b = b (+) a
         /\ a (+) EmptyBag = a /\ EmptyBag (+) a = a
BY DEF IsABag, (+), EmptyBag, SetToBag

LEMMA BagsAssociate ==
  ASSUME NEW a, IsABag(a), NEW b, IsABag(b), NEW c, IsABag(c)
  PROVE  a (+) b (+) c = a (+) (b (+) c)
BY DEF IsABag, (+)

LEMMA SetsAreBags ==
  ASSUME NEW S
  PROVE  IsABag(SetToBag(S)) /\ DOMAIN SetToBag(S) = S
BY DEF IsABag, SetToBag

LEMMA EmptyIsABag == IsABag(EmptyBag) /\ DOMAIN EmptyBag = {} /\ EmptyBag = SetToBag({})
BY SetsAreBags DEF EmptyBag

LEMMA CountsAdd ==
  ASSUME NEW a, IsABag(a), IsFiniteSet(DOMAIN a), NEW b, IsABag(b), IsFiniteSet(DOMAIN b)
  PROVE  Count(a (+) b) = Count(a) + Count(b)
<1> DEFINE S == DOMAIN a \cup DOMAIN b
<1>1. IsFiniteSet(S)
  BY FS_Union
<1>2. S \cap DOMAIN a = DOMAIN a /\ S \cap DOMAIN b = DOMAIN b
  OBVIOUS
<1>3. DOMAIN (a (+) b) = S /\ S \in SUBSET (DOMAIN a \cup DOMAIN b)
  BY BagsPour
<1> HIDE DEF S
<1>4. SumOver(a (+) b, S) = SumOver(a, S \cap DOMAIN a) + SumOver(b, S \cap DOMAIN b)
  BY <1>1, <1>3, BagsPour, SumOverUnion
<1> QED BY <1>2, <1>3, <1>4 DEF Count

LEMMA CountIsNat ==
  ASSUME NEW b, IsABag(b), IsFiniteSet(DOMAIN b)
  PROVE  Count(b) \in Nat /\ (DOMAIN b # {} => Count(b) >= 1)
BY SumOverBag DEF Count

LEMMA CountOfOne ==
  ASSUME NEW v
  PROVE  Count(One(v)) = 1 /\ Count(EmptyBag) = 0
<1>1. DOMAIN One(v) = {v} /\ One(v)[v] = 1 /\ IsABag(One(v)) /\ IsFiniteSet({v})
  BY SetsAreBags, FS_Singleton DEF One, SetToBag
<1>2. SumOver(One(v), {v}) = 1
  <2>1. {v} \ {v} = {} /\ v \in {v}
    OBVIOUS
  <2>2. SumOver(One(v), {v}) = One(v)[v] + SumOver(One(v), {v} \ {v})
    BY <1>1, SumOverLess
  <2>3. SumOver(One(v), {}) = 0
    BY <1>1, SumOverBag
  <2> QED BY <1>1, <2>1, <2>2, <2>3
<1>3. SumOver(EmptyBag, {}) = 0
  BY EmptyIsABag, FS_EmptySet, SumOverBag
<1> QED BY <1>1, <1>2, <1>3, EmptyIsABag DEF Count

LEMMA HistogramFacts ==
  /\ \A h : IsHistogram(h) => IsABag(h) /\ IsFiniteSet(DOMAIN h)
                              /\ DOMAIN h \subseteq 1 .. HistHigh
  /\ \A g, h : IsHistogram(g) /\ IsHistogram(h) => IsHistogram(g (+) h)
  /\ \A S \in SUBSET (1 .. HistHigh) : IsHistogram(SetToBag(S))
  /\ IsHistogram(EmptyBag)
<1>1. IsFiniteSet(1 .. HistHigh)
  BY LatencyAssumption, FS_Interval
<1>2. ASSUME NEW h, IsHistogram(h) PROVE IsFiniteSet(DOMAIN h)
  BY <1>1, <1>2, FS_Subset DEF IsHistogram
<1>3. \A g, h : IsHistogram(g) /\ IsHistogram(h) => IsHistogram(g (+) h)
  BY BagsPour DEF IsHistogram
<1>4. \A S \in SUBSET (1 .. HistHigh) : IsHistogram(SetToBag(S))
  BY SetsAreBags DEF IsHistogram
<1>5. IsHistogram(EmptyBag)
  BY EmptyIsABag DEF IsHistogram
<1> QED BY <1>2, <1>3, <1>4, <1>5 DEF IsHistogram

(* The greater and the smaller of two numbers.                             *)
LEMMA MaxOfTwo ==
  ASSUME NEW a \in Int, NEW b \in Int
  PROVE  /\ Max({a, b}) = IF a >= b THEN a ELSE b
         /\ Min({a, b}) = IF a <= b THEN a ELSE b
BY DEF Max, Min

LEMMA ClampFacts ==
  ASSUME NEW v \in Int
  PROVE  /\ Clamp(v) \in 1 .. HistHigh
         /\ \A w \in Int : v <= w => Clamp(v) <= Clamp(w)
<1>1. HistHigh \in Nat \ {0}
  BY LatencyAssumption
<1>2. \A x \in Int : Clamp(x) = IF x <= HistHigh THEN (IF 1 >= x THEN 1 ELSE x) ELSE HistHigh
  <2> SUFFICES ASSUME NEW x \in Int
               PROVE  Clamp(x) = IF x <= HistHigh THEN (IF 1 >= x THEN 1 ELSE x) ELSE HistHigh
    OBVIOUS
  <2> DEFINE m == Min({x, HistHigh})
  <2>1. m = IF x <= HistHigh THEN x ELSE HistHigh
    BY <1>1, MaxOfTwo
  <2>2. m \in Int
    BY <1>1, <2>1
  <2>3. Clamp(x) = Max({1, m})
    BY DEF Clamp
  <2> HIDE DEF m
  <2>4. Max({1, m}) = IF 1 >= m THEN 1 ELSE m
    BY <2>2, MaxOfTwo
  <2> QED BY <1>1, <2>1, <2>3, <2>4
<1> QED BY <1>1, <1>2

-----------------------------------------------------------------------------
(* The values record_correct adds: the value and the waits before it.      *)
Steps(m, interval) == {w \in interval .. m : (m - w) % interval = 0}

LEMMA LessOneDivisor ==
  ASSUME NEW n \in Int, NEW d \in Nat \ {0}
  PROVE  (n - d) % d = n % d
<1> DEFINE q == n \div d
           p == (n - d) \div d
           r == n % d
           s == (n - d) % d
           k == q - 1 - p
<1>1. q \in Int /\ p \in Int /\ r \in 0 .. d - 1 /\ s \in 0 .. d - 1 /\ k \in Int
  OBVIOUS
<1>2. n = d * q + r /\ n - d = d * p + s
  OBVIOUS
<1> HIDE DEF q, p, r, s
<1>3. d * k = d * q - d - d * p
  BY <1>1
<1>4. d * k = s - r
  BY <1>1, <1>2, <1>3
<1> HIDE DEF k
<1>5. k = 0
  <2>1. k >= 1 => d * k >= d
    BY <1>1
  <2>2. k <= -1 => d * k <= -d
    BY <1>1
  <2> QED BY <1>1, <1>4, <2>1, <2>2
<1>6. s = r
  BY <1>1, <1>4, <1>5
<1> QED BY <1>6 DEF r, s

LEMMA StepsUnfold ==
  ASSUME NEW interval \in Nat \ {0}, NEW m \in Int
  PROVE  /\ m < interval => Steps(m, interval) = {}
         /\ m >= interval => Steps(m, interval) = {m} \cup Steps(m - interval, interval)
         /\ m \notin Steps(m - interval, interval)
<1>1. m < interval => Steps(m, interval) = {}
  BY DEF Steps
<1>2. m \notin Steps(m - interval, interval)
  BY DEF Steps
<1>3. ASSUME m >= interval, NEW w \in Int
      PROVE  w \in Steps(m, interval) <=> w = m \/ w \in Steps(m - interval, interval)
  <2> DEFINE d == m - w
  <2>1. d \in Int
    OBVIOUS
  <2>2. 0 % interval = 0
    OBVIOUS
  <2>3. d \in 1 .. interval - 1 => d % interval # 0
    <3> HIDE DEF d
    <3> QED BY <2>1
  <2>4. (d - interval) % interval = d % interval
    <3> HIDE DEF d
    <3> QED BY <2>1, LessOneDivisor
  <2>5. (m - interval) - w = d - interval
    OBVIOUS
  <2> HIDE DEF d
  <2>6. w \in Steps(m, interval) <=> w >= interval /\ w <= m /\ d % interval = 0
    BY DEF Steps, d
  <2>7. w \in Steps(m - interval, interval)
        <=> w >= interval /\ w <= m - interval /\ d % interval = 0
    BY <2>4, <2>5 DEF Steps
  <2>8. CASE w = m
    BY <1>3, <2>2, <2>6, <2>8 DEF d
  <2>9. CASE w # m
    <3>1. w <= m /\ d % interval = 0 => w <= m - interval
      BY <2>1, <2>3, <2>9 DEF d
    <3> QED BY <2>6, <2>7, <2>9, <3>1
  <2> QED BY <2>8, <2>9
<1>4. ASSUME m >= interval PROVE Steps(m, interval) = {m} \cup Steps(m - interval, interval)
  <2>1. Steps(m, interval) \in SUBSET Int /\ Steps(m - interval, interval) \in SUBSET Int
    BY DEF Steps
  <2> QED BY <1>3, <1>4, <2>1
<1> QED BY <1>1, <1>2, <1>4

LEMMA OneMore ==
  ASSUME NEW m, NEW S, m \notin S
  PROVE  One(m) (+) SetToBag(S) = SetToBag({m} \cup S)
BY DEF One, SetToBag, (+)

(* The recursive function inside RecordCorrect exists, and is the bag of   *)
(* the steps.                                                              *)
Backfills(f, interval) ==
    f = [m \in Int |-> IF m < interval THEN EmptyBag ELSE One(m) (+) f[m - interval]]

LEMMA StepsBackfill ==
  ASSUME NEW interval \in Nat \ {0}
  PROVE  Backfills([m \in Int |-> SetToBag(Steps(m, interval))], interval)
<1> DEFINE c == [m \in Int |-> SetToBag(Steps(m, interval))]
<1>1. ASSUME NEW m \in Int, m < interval PROVE c[m] = EmptyBag
  BY <1>1, StepsUnfold DEF EmptyBag
<1>2. ASSUME NEW m \in Int, m >= interval PROVE c[m] = One(m) (+) c[m - interval]
  <2>1. m - interval \in Int
    OBVIOUS
  <2>2. c[m - interval] = SetToBag(Steps(m - interval, interval))
    BY <2>1
  <2>3. c[m] = SetToBag({m} \cup Steps(m - interval, interval))
    BY <1>2, StepsUnfold
  <2>4. m \notin Steps(m - interval, interval)
    BY StepsUnfold
  <2> HIDE DEF c
  <2> QED BY <2>2, <2>3, <2>4, OneMore
<1>3. \A m \in Int : c[m] = IF m < interval THEN EmptyBag ELSE One(m) (+) c[m - interval]
  <2> HIDE DEF c
  <2> QED BY <1>1, <1>2
<1> QED BY <1>3, Zenon DEF Backfills

LEMMA BackfillIsSteps ==
  ASSUME NEW interval \in Nat \ {0}, NEW f, Backfills(f, interval), NEW v \in Int
  PROVE  f[v] = SetToBag(Steps(v, interval))
<1> DEFINE c == [m \in Int |-> SetToBag(Steps(m, interval))]
           T == {n \in Nat : \A m \in Int : m <= n => f[m] = c[m]}
<1>1. \A m \in Int : m < interval => f[m] = EmptyBag /\ c[m] = EmptyBag
  BY StepsBackfill, Zenon DEF Backfills
<1>2. \A m \in Int : m >= interval =>
         f[m] = One(m) (+) f[m - interval] /\ c[m] = One(m) (+) c[m - interval]
  <2> SUFFICES ASSUME NEW m \in Int, m >= interval
               PROVE  /\ f[m] = One(m) (+) f[m - interval]
                      /\ c[m] = One(m) (+) c[m - interval]
    OBVIOUS
  <2>1. ~ (m < interval)
    OBVIOUS
  <2>2. Backfills(c, interval)
    BY StepsBackfill
  <2> HIDE DEF c
  <2> QED BY <2>1, <2>2, Zenon DEF Backfills
<1> HIDE DEF c
<1>3. 0 \in T
  BY <1>1
<1>4. ASSUME NEW n \in T PROVE n + 1 \in T
  <2> SUFFICES ASSUME NEW m \in Int, m <= n + 1 PROVE f[m] = c[m]
    OBVIOUS
  <2>1. CASE m < interval
    BY <1>1, <2>1
  <2>2. CASE m >= interval
    <3>1. m - interval \in Int /\ m - interval <= n
      BY <2>2
    <3>2. f[m - interval] = c[m - interval]
      BY <3>1
    <3> QED BY <1>2, <2>2, <3>2
  <2> QED BY <2>1, <2>2
<1>5. T = Nat
  <2>1. T \in SUBSET Nat
    OBVIOUS
  <2> HIDE DEF T
  <2> QED BY <1>3, <1>4, <2>1, NatSetInduction
<1>6. f[v] = c[v]
  <2> DEFINE n == IF v >= 0 THEN v ELSE 0
  <2>1. n \in Nat /\ v <= n
    OBVIOUS
  <2> HIDE DEF n
  <2>2. n \in T
    BY <1>5, <2>1
  <2> QED BY <2>1, <2>2
<1> QED BY <1>6 DEF c

(* record_correct adds the value and the waits before it, each once.       *)
LEMMA RecordCorrectAdds ==
  ASSUME NEW h, IsABag(h), NEW v \in Int, NEW interval \in Nat \ {0}
  PROVE  RecordCorrect(h, v, interval)
           = h (+) SetToBag({v} \cup Steps(v - interval, interval))
<1> DEFINE f == CHOOSE g : Backfills(g, interval)
           s == Steps(v - interval, interval)
<1>1. Backfills(f, interval)
  BY StepsBackfill, Zenon
<1>2. RecordCorrect(h, v, interval) = h (+) One(v) (+) f[v - interval]
  BY DEF RecordCorrect, Backfills
<1> HIDE DEF f
<1>3. f[v - interval] = SetToBag(s)
  BY <1>1, BackfillIsSteps
<1>4. h (+) One(v) (+) SetToBag(s) = h (+) (One(v) (+) SetToBag(s))
  BY SetsAreBags, BagsAssociate DEF One
<1>5. v \notin s
  BY StepsUnfold
<1> HIDE DEF s
<1>6. One(v) (+) SetToBag(s) = SetToBag({v} \cup s)
  BY <1>5, OneMore
<1> QED BY <1>2, <1>3, <1>4, <1>6 DEF s

-----------------------------------------------------------------------------
(* What Histos::record does to each row.                                   *)
Interval == Max({ExpectedInterval, 1})

LEMMA IntervalFacts ==
  /\ ExpectedInterval \in Nat /\ Interval \in Nat \ {0}
  /\ ExpectedInterval > 0 => Interval = ExpectedInterval
<1>1. Rate \in Nat
  BY LatencyAssumption
<1>2. ExpectedInterval \in Nat
  <2>1. CASE Rate > 0
    <3>1. 1000000000 \div Rate \in Nat
      BY <1>1, <2>1
    <3> QED BY <2>1, <3>1 DEF ExpectedInterval
  <2>2. CASE ~ (Rate > 0)
    BY <2>2 DEF ExpectedInterval
  <2> QED BY <2>1, <2>2
<1>3. Interval = IF ExpectedInterval >= 1 THEN ExpectedInterval ELSE 1
  BY <1>2, MaxOfTwo DEF Interval
<1> QED BY <1>2, <1>3

IsSample(x) == \A s \in StageNames : x[s] = {} \/ \E d \in Nat : x[s] = {d}

Kept(s, x) ==
    UNION {{Clamp(d)} \cup IF s \in EndToEnd THEN Steps(Clamp(d) - Interval, Interval) ELSE {}
           : d \in x[s]}

LEMMA KeptFacts ==
  ASSUME NEW x, IsSample(x), NEW s \in StageNames
  PROVE  /\ Kept(s, x) \in SUBSET (1 .. HistHigh)
         /\ \A d \in x[s] : d \in Nat /\ Clamp(d) \in Kept(s, x)
         /\ x[s] = {} => Kept(s, x) = {}
         /\ s \notin EndToEnd => Kept(s, x) = {Clamp(d) : d \in x[s]}
<1>1. \A d \in x[s] : d \in Nat
  BY DEF IsSample
<1>2. ASSUME NEW d \in x[s]
      PROVE  Clamp(d) \in 1 .. HistHigh /\ Steps(Clamp(d) - Interval, Interval) \in SUBSET (1 .. HistHigh)
  <2>1. Clamp(d) \in 1 .. HistHigh
    BY <1>1, ClampFacts
  <2>2. HistHigh \in Nat /\ Interval \in Nat \ {0}
    BY LatencyAssumption, IntervalFacts
  <2> HIDE DEF Interval
  <2> QED BY <2>1, <2>2 DEF Steps
<1> HIDE DEF Interval
<1> QED BY <1>1, <1>2 DEF Kept

LEMMA RecordAdds ==
  ASSUME NEW h, \A s \in StageNames : IsABag(h[s]), NEW x, IsSample(x)
  PROVE  Record(h, x) = [s \in StageNames |-> h[s] (+) SetToBag(Kept(s, x))]
<1> SUFFICES ASSUME NEW s \in StageNames
             PROVE  Record(h, x)[s] = h[s] (+) SetToBag(Kept(s, x))
  BY DEF Record
<1> DEFINE values == {Clamp(d) : d \in x[s]}
<1>1. Record(h, x)[s] = IF s \in EndToEnd /\ values # {}
                        THEN RecordCorrect(h[s], Max(values), Interval)
                        ELSE h[s] (+) SetToBag(values)
  BY DEF Record, Interval
<1>2. Interval \in Nat \ {0}
  BY IntervalFacts
<1>3. CASE x[s] = {}
  <2>1. values = {} /\ Kept(s, x) = {}
    BY <1>3, KeptFacts
  <2> QED BY <1>1, <2>1
<1>4. CASE x[s] # {}
  <2>1. PICK d \in Nat : x[s] = {d}
    BY <1>4 DEF IsSample
  <2> DEFINE v == Clamp(d)
  <2>2. values = {v} /\ v \in Int
    <3>1. v \in Int
      BY ClampFacts
    <3> QED BY <2>1, <3>1
  <2>3. Kept(s, x) = {v} \cup IF s \in EndToEnd THEN Steps(v - Interval, Interval) ELSE {}
    BY <2>1 DEF Kept
  <2>4. Max({v}) = v
    <3> HIDE DEF v
    <3> QED BY <2>2 DEF Max
  <2> HIDE DEF values, v
  <2>5. CASE s \in EndToEnd
    <3>1. Record(h, x)[s] = RecordCorrect(h[s], v, Interval)
      BY <1>1, <2>2, <2>4, <2>5
    <3>2. RecordCorrect(h[s], v, Interval) = h[s] (+) SetToBag({v} \cup Steps(v - Interval, Interval))
      BY <1>2, <2>2, RecordCorrectAdds
    <3> QED BY <2>3, <2>5, <3>1, <3>2
  <2>6. CASE s \notin EndToEnd
    <3>1. Kept(s, x) = {v}
      BY <2>3, <2>6
    <3> QED BY <1>1, <2>2, <2>6, <3>1
  <2> QED BY <2>5, <2>6
<1> QED BY <1>3, <1>4

(* The waits SamplesConserved asks for are the values kept, as long as     *)
(* there is an interval to correct against.                                *)
LEMMA KeptAreWaits ==
  ASSUME ExpectedInterval > 0, NEW x, IsSample(x), NEW s \in StageNames
  PROVE  Kept(s, x) = UNION {Waits(s, Clamp(d)) : d \in x[s]}
<1> DEFINE adds(d) == {Clamp(d)} \cup IF s \in EndToEnd THEN Steps(Clamp(d) - Interval, Interval)
                                                       ELSE {}
<1> SUFFICES ASSUME NEW d \in x[s], s \in EndToEnd
             PROVE  Waits(s, Clamp(d)) = {Clamp(d)} \cup Steps(Clamp(d) - Interval, Interval)
  <2>1. ASSUME NEW d \in x[s] PROVE Waits(s, Clamp(d)) = adds(d)
    BY DEF Waits
  <2>2. Kept(s, x) = UNION {adds(d) : d \in x[s]}
    BY DEF Kept
  <2> HIDE DEF adds
  <2> QED BY <2>1, <2>2
<1> DEFINE v == Clamp(d)
<1>1. v \in Int /\ Interval \in Nat \ {0} /\ Interval = ExpectedInterval
  BY KeptFacts, ClampFacts, IntervalFacts
<1>2. Waits(s, v) = {v} \cup Steps(v, Interval)
  BY <1>1 DEF Waits, Steps
<1> HIDE DEF v
<1>3. {v} \cup Steps(v, Interval) = {v} \cup Steps(v - Interval, Interval)
  <2>1. CASE v < Interval
    <3>1. v - Interval \in Int /\ v - Interval < Interval
      BY <1>1, <2>1
    <3>2. Steps(v, Interval) = {} /\ Steps(v - Interval, Interval) = {}
      BY <1>1, <2>1, <3>1, StepsUnfold
    <3> QED BY <3>2
  <2>2. CASE v >= Interval
    BY <1>1, <2>2, StepsUnfold
  <2> QED BY <1>1, <2>1, <2>2
<1> QED BY <1>2, <1>3 DEF v

-----------------------------------------------------------------------------
(* What process measures of one tick.                                      *)
Outcomes == {"NoUpdate", "Quiet", "Reject", "Order"}
Shared == {"decode", "book", "signal"}

(* Every tick has one duration in each shared row and one total, and the   *)
(* total covers each; an order's total covers the gateway.                 *)
Covers(x) ==
    /\ \A s \in Shared : \E d \in Nat, e \in Nat :
          x[s] = {d} /\ x["tick_to_signal"] = {e} /\ d <= e
    /\ x["gateway"] = {} \/ \E d \in Nat, e \in Nat :
          x["gateway"] = {d} /\ x["tick_to_order"] = {e} /\ d <= e /\ x["risk"] # {}

LEMMA QuotientsGrow ==
  ASSUME NEW x \in Nat, NEW y \in Nat, x <= y, NEW d \in Nat \ {0}
  PROVE  x \div d \in Nat /\ x \div d <= y \div d
<1> DEFINE p == x \div d
           q == y \div d
           r == x % d
           s == y % d
           k == p - q
<1>1. p \in Int /\ q \in Int /\ r \in 0 .. d - 1 /\ s \in 0 .. d - 1 /\ k \in Int
  OBVIOUS
<1>2. x = d * p + r /\ y = d * q + s
  OBVIOUS
<1>3. p \in Nat
  OBVIOUS
<1> HIDE DEF p, q, r, s
<1>4. d * k = d * p - d * q
  BY <1>1
<1>5. d * k <= s - r
  BY <1>1, <1>2, <1>4
<1> HIDE DEF k
<1>6. k <= 0
  <2>1. k >= 1 => d * k >= d
    BY <1>1
  <2> QED BY <1>1, <1>5, <2>1
<1>7. p <= q
  BY <1>1, <1>6 DEF k
<1> QED BY <1>3, <1>7 DEF p, q

LEMMA LongerDelta ==
  ASSUME NEW a \in Nat, NEW b \in Nat, NEW c \in Nat, NEW d \in Nat,
         a <= b, b <= c, c <= d
  PROVE  DeltaNs(b, c) \in Nat /\ DeltaNs(b, c) <= DeltaNs(a, d)
<1>1. Numer \in Nat \ {0} /\ Denom \in Nat \ {0}
  BY LatencyAssumption
<1> DEFINE x == (c - b) * Numer
           y == (d - a) * Numer
<1>2. x \in Nat /\ y \in Nat /\ x <= y
  <2> DEFINE u == c - b
             v == (d - a) - u
  <2>1. u \in Nat /\ v \in Nat /\ d - a = u + v
    OBVIOUS
  <2> HIDE DEF u, v
  <2>2. (u + v) * Numer = u * Numer + v * Numer
    BY <1>1, <2>1
  <2>3. u * Numer \in Nat /\ v * Numer \in Nat
    BY <1>1, <2>1
  <2> QED BY <2>1, <2>2, <2>3 DEF u
<1>3. x \div Denom \in Nat /\ y \div Denom \in Nat /\ x \div Denom <= y \div Denom
  <2> HIDE DEF x, y
  <2> QED BY <1>1, <1>2, QuotientsGrow
<1>4. DeltaNs(b, c) = IF c <= b THEN 0 ELSE x \div Denom
  BY DEF DeltaNs
<1>5. DeltaNs(a, d) = IF d <= a THEN 0 ELSE y \div Denom
  BY DEF DeltaNs
<1> HIDE DEF x, y
<1> QED BY <1>3, <1>4, <1>5

LEMMA StampsGrow ==
  ASSUME NEW n \in Nat, NEW gaps \in [1 .. n -> Nat]
  PROVE  /\ \A k \in 0 .. n : Stamps(gaps)[k] \in Nat
         /\ \A k \in 0 .. n - 1 : Stamps(gaps)[k] <= Stamps(gaps)[k + 1]
<1>1. Len(gaps) = n
  BY LenProperties
<1>2. \A k \in 0 .. n : Stamps(gaps)[k] = SumOver(gaps, 1 .. k)
  BY <1>1 DEF Stamps
<1>3. \A k \in 0 .. n : IsFiniteSet(1 .. k) /\ \A d \in 1 .. k : gaps[d] \in Nat
  <2> SUFFICES ASSUME NEW k \in 0 .. n
               PROVE  IsFiniteSet(1 .. k) /\ \A d \in 1 .. k : gaps[d] \in Nat
    OBVIOUS
  <2>1. IsFiniteSet(1 .. k)
    BY FS_Interval
  <2>2. \A d \in 1 .. k : d \in 1 .. n
    OBVIOUS
  <2> QED BY <2>1, <2>2
<1>4. ASSUME NEW k \in 0 .. n - 1
      PROVE  SumOver(gaps, 1 .. k + 1) = gaps[k + 1] + SumOver(gaps, 1 .. k)
  <2>1. k + 1 \in 0 .. n /\ k + 1 \in 1 .. k + 1 /\ (1 .. k + 1) \ {k + 1} = 1 .. k
    OBVIOUS
  <2>2. IsFiniteSet(1 .. k + 1) /\ \A d \in 1 .. k + 1 : gaps[d] \in Int
    BY <1>3, <2>1
  <2>3. SumOver(gaps, 1 .. k + 1) = gaps[k + 1] + SumOver(gaps, (1 .. k + 1) \ {k + 1})
    BY <2>1, <2>2, SumOverLess
  <2> QED BY <2>1, <2>3
<1> DEFINE T == {k \in Nat : k <= n => SumOver(gaps, 1 .. k) \in Nat}
<1>5. 0 \in T
  <2>1. 1 .. 0 = {} /\ SumOver(gaps, {}) = 0
    BY FS_EmptySet, SumOverRecurs
  <2> QED BY <2>1
<1>6. ASSUME NEW k \in T PROVE k + 1 \in T
  <2> SUFFICES ASSUME k + 1 <= n PROVE SumOver(gaps, 1 .. k + 1) \in Nat
    OBVIOUS
  <2>1. k \in 0 .. n - 1 /\ SumOver(gaps, 1 .. k) \in Nat /\ gaps[k + 1] \in Nat
    OBVIOUS
  <2> QED BY <1>4, <2>1
<1>7. T = Nat
  <2>1. T \in SUBSET Nat
    OBVIOUS
  <2> HIDE DEF T
  <2> QED BY <1>5, <1>6, <2>1, NatSetInduction
<1>8. \A k \in 0 .. n : SumOver(gaps, 1 .. k) \in Nat
  BY <1>7
<1>9. \A k \in 0 .. n - 1 : k \in 0 .. n /\ k + 1 \in 0 .. n /\ gaps[k + 1] \in Nat
  OBVIOUS
<1> HIDE DEF T
<1>10. ASSUME NEW k \in 0 .. n PROVE Stamps(gaps)[k] \in Nat
  BY <1>2, <1>8
<1>11. ASSUME NEW k \in 0 .. n - 1 PROVE Stamps(gaps)[k] <= Stamps(gaps)[k + 1]
  <2> DEFINE u == SumOver(gaps, 1 .. k)
             v == SumOver(gaps, 1 .. k + 1)
  <2>1. Stamps(gaps)[k] = u /\ Stamps(gaps)[k + 1] = v /\ u \in Nat
    BY <1>2, <1>8, <1>9
  <2>2. v = gaps[k + 1] + u /\ gaps[k + 1] \in Nat
    BY <1>4, <1>9
  <2> HIDE DEF u, v
  <2>3. u <= v
    BY <2>1, <2>2
  <2> QED BY <2>1, <2>3
<1> QED BY <1>10, <1>11

LEMMA SampleFacts ==
  ASSUME NEW outcome \in Outcomes, NEW gaps \in [1 .. StampsOf(outcome) -> Nat]
  PROVE  /\ IsSample(Sample(outcome, Stamps(gaps)))
         /\ Covers(Sample(outcome, Stamps(gaps)))
<1> DEFINE n == StampsOf(outcome)
           t == Stamps(gaps)
           x == Sample(outcome, t)
<1>1. n \in 3 .. 5 /\ (outcome \in {"Reject", "Order"} => n \in 4 .. 5)
                   /\ (outcome = "Order" => n = 5)
  BY DEF StampsOf, Outcomes
<1>2. /\ \A k \in 0 .. n : t[k] \in Nat
      /\ \A k \in 0 .. n - 1 : t[k] <= t[k + 1]
  BY <1>1, StampsGrow
<1> HIDE DEF t
<1>3. /\ t[0] \in Nat /\ t[1] \in Nat /\ t[2] \in Nat /\ t[3] \in Nat
      /\ t[0] <= t[1] /\ t[1] <= t[2] /\ t[2] <= t[3]
  <2> HIDE DEF n
  <2>1. /\ 0 \in 0 .. n - 1 /\ 1 \in 0 .. n - 1 /\ 2 \in 0 .. n - 1
        /\ 0 \in 0 .. n /\ 1 \in 0 .. n /\ 2 \in 0 .. n /\ 3 \in 0 .. n
    BY <1>1
  <2>2. t[0] \in Nat /\ t[1] \in Nat /\ t[2] \in Nat /\ t[3] \in Nat
    BY <1>2, <2>1
  <2>3. t[0] <= t[0 + 1] /\ t[1] <= t[1 + 1] /\ t[2] <= t[2 + 1]
    BY <1>2, <2>1
  <2> QED BY <2>2, <2>3
<1>4. outcome \in {"Reject", "Order"} => t[4] \in Nat /\ t[3] <= t[4]
  <2> HIDE DEF n
  <2>1. outcome \in {"Reject", "Order"} => 3 \in 0 .. n - 1 /\ 4 \in 0 .. n
    BY <1>1
  <2> QED BY <1>2, <2>1
<1>5. outcome = "Order" => t[5] \in Nat /\ t[4] <= t[5]
  <2> HIDE DEF n
  <2>1. outcome = "Order" => 4 \in 0 .. n - 1 /\ 5 \in 0 .. n
    BY <1>1
  <2> QED BY <1>2, <2>1
<1> DEFINE total == DeltaNs(t[0], t[3])
<1>6. /\ DeltaNs(t[0], t[1]) \in Nat /\ DeltaNs(t[0], t[1]) <= total
      /\ DeltaNs(t[1], t[2]) \in Nat /\ DeltaNs(t[1], t[2]) <= total
      /\ DeltaNs(t[2], t[3]) \in Nat /\ DeltaNs(t[2], t[3]) <= total
      /\ total \in Nat /\ 0 <= total
  <2>1. t[0] <= t[2] /\ t[1] <= t[3] /\ t[0] <= t[3] /\ t[0] <= t[0] /\ t[3] <= t[3]
    BY <1>3
  <2>2. total \in Nat
    BY <1>3, <2>1, LongerDelta
  <2>3. DeltaNs(t[0], t[1]) \in Nat /\ DeltaNs(t[0], t[1]) <= total
    BY <1>3, <2>1, LongerDelta
  <2>4. DeltaNs(t[1], t[2]) \in Nat /\ DeltaNs(t[1], t[2]) <= total
    BY <1>3, LongerDelta
  <2>5. DeltaNs(t[2], t[3]) \in Nat /\ DeltaNs(t[2], t[3]) <= total
    BY <1>3, <2>1, LongerDelta
  <2> HIDE DEF total
  <2> QED BY <2>2, <2>3, <2>4, <2>5
<1>7. outcome \in {"Reject", "Order"} => DeltaNs(t[3], t[4]) \in Nat
  <2> SUFFICES ASSUME outcome \in {"Reject", "Order"} PROVE DeltaNs(t[3], t[4]) \in Nat
    OBVIOUS
  <2>1. t[4] \in Nat /\ t[3] <= t[4] /\ t[3] <= t[3] /\ t[4] <= t[4]
    BY <1>3, <1>4
  <2> QED BY <1>3, <2>1, LongerDelta
<1>8. outcome = "Order" => /\ DeltaNs(t[4], t[5]) \in Nat /\ DeltaNs(t[0], t[5]) \in Nat
                           /\ DeltaNs(t[4], t[5]) <= DeltaNs(t[0], t[5])
  <2> SUFFICES ASSUME outcome = "Order"
               PROVE  /\ DeltaNs(t[4], t[5]) \in Nat /\ DeltaNs(t[0], t[5]) \in Nat
                      /\ DeltaNs(t[4], t[5]) <= DeltaNs(t[0], t[5])
    OBVIOUS
  <2>1. t[4] \in Nat /\ t[5] \in Nat /\ t[0] <= t[4] /\ t[4] <= t[5] /\ t[0] <= t[0]
        /\ t[5] <= t[5] /\ t[0] <= t[5]
    BY <1>3, <1>4, <1>5
  <2> QED BY <1>3, <2>1, LongerDelta
<1>9. /\ x["decode"] = {DeltaNs(t[0], t[1])}
      /\ x["book"] = {DeltaNs(t[1], t[2])}
      /\ x["signal"] = {IF outcome = "NoUpdate" THEN 0 ELSE DeltaNs(t[2], t[3])}
      /\ x["tick_to_signal"] = {total}
      /\ x["risk"] = IF outcome \in {"Reject", "Order"} THEN {DeltaNs(t[3], t[4])} ELSE {}
      /\ x["gateway"] = IF outcome = "Order" THEN {DeltaNs(t[4], t[5])} ELSE {}
      /\ x["tick_to_order"] = IF outcome = "Order" THEN {DeltaNs(t[0], t[5])} ELSE {}
  BY DEF Sample
<1> HIDE DEF x, total
<1>10. IsSample(x)
  BY <1>6, <1>7, <1>8, <1>9 DEF IsSample, StageNames
<1>11. Covers(x)
  <2>1. \A s \in Shared : \E d \in Nat, e \in Nat :
           x[s] = {d} /\ x["tick_to_signal"] = {e} /\ d <= e
    BY <1>6, <1>9 DEF Shared
  <2>2. x["gateway"] = {} \/ \E d \in Nat, e \in Nat :
           x["gateway"] = {d} /\ x["tick_to_order"] = {e} /\ d <= e /\ x["risk"] # {}
    BY <1>8, <1>9
  <2> QED BY <2>1, <2>2 DEF Covers
<1> QED BY <1>10, <1>11 DEF x, t

-----------------------------------------------------------------------------
(* The statistics of a row.                                                *)
Values == 0 .. HistHigh
StatRows == [p50 : Values, p95 : Values, p99 : Values, max : Values, count : Nat]
Percents == {50, 95, 99}
Rank(percent, n) == Max({1, (percent * n + 99) \div 100})
Covered(h, v) == SumOver(h, {w \in DOMAIN h : w <= v})

LEMMA MaxOfNats ==
  ASSUME NEW S \in SUBSET Nat, S # {}, NEW b \in Nat, \A x \in S : x <= b
  PROVE  Max(S) \in S /\ \A y \in S : y <= Max(S)
<1> DEFINE R == {b - x : x \in S}
<1>1. R \in SUBSET Nat /\ R # {}
  <2>1. \A x \in S : b - x \in Nat
    OBVIOUS
  <2>2. R # {}
    OBVIOUS
  <2> QED BY <2>1, <2>2
<1> HIDE DEF R
<1>2. Min(R) \in R /\ \A y \in R : Min(R) <= y
  BY <1>1, MinOfNats
<1>3. PICK x \in S : Min(R) = b - x
  BY <1>2 DEF R
<1>4. \A y \in S : y <= x
  <2> SUFFICES ASSUME NEW y \in S PROVE y <= x
    OBVIOUS
  <2>1. b - y \in R
    BY DEF R
  <2>2. b - x <= b - y
    BY <1>2, <1>3, <2>1
  <2> QED BY <2>2
<1>5. \A y \in S : x >= y
  BY <1>4
<1> QED BY <1>5 DEF Max

LEMMA RankFacts ==
  ASSUME NEW percent \in Percents, NEW m \in Nat, NEW n \in Nat, m >= 1, n >= 1
  PROVE  /\ Rank(percent, m) \in 1 .. m
         /\ Rank(percent, m + n) <= Rank(percent, m) + Rank(percent, n)
         /\ Rank(percent, m) + Rank(percent, n) - 2 < Rank(percent, m + n)
<1> DEFINE F(k) == (percent * k + 99) \div 100
<1>1. \A k \in Nat : F(k) \in Int
  BY DEF Percents
<1>2. ASSUME NEW k \in Nat PROVE Rank(percent, k) = IF 1 >= F(k) THEN 1 ELSE F(k)
  <2>1. F(k) \in Int
    BY <1>1
  <2> HIDE DEF F
  <2>2. Max({1, F(k)}) = IF 1 >= F(k) THEN 1 ELSE F(k)
    BY <2>1, MaxOfTwo
  <2> QED BY <2>2 DEF Rank, F
<1>3. CASE percent = 50
  BY <1>2, <1>3
<1>4. CASE percent = 95
  BY <1>2, <1>4
<1>5. CASE percent = 99
  BY <1>2, <1>5
<1> QED BY <1>3, <1>4, <1>5 DEF Percents

(* The quantile is a value of the row, at least as many samples as asked   *)
(* for do not exceed it, and it is the least number of which that is true. *)
LEMMA QuantileFacts ==
  ASSUME NEW h, IsHistogram(h), DOMAIN h # {}, NEW percent \in Percents
  PROVE  /\ ValueAt(h, percent) \in DOMAIN h
         /\ Covered(h, ValueAt(h, percent)) >= Rank(percent, Count(h))
         /\ \A v \in Int : Covered(h, v) >= Rank(percent, Count(h)) => ValueAt(h, percent) <= v
<1> DEFINE D == DOMAIN h
           rank == Rank(percent, Count(h))
           enough == {v \in D : Covered(h, v) >= rank}
           below(v) == {w \in D : w <= v}
<1>1. IsABag(h) /\ IsFiniteSet(D) /\ D \in SUBSET Nat /\ \A v \in D : v <= HistHigh
  BY HistogramFacts, LatencyAssumption
<1>2. HistHigh \in Nat
  BY LatencyAssumption
<1>3. Count(h) \in Nat /\ Count(h) >= 1 /\ rank \in 1 .. Count(h)
  <2>1. Count(h) \in Nat /\ Count(h) >= 1
    BY <1>1, CountIsNat
  <2> QED BY <2>1, RankFacts
<1>4. ASSUME NEW v \in Int PROVE below(v) \in SUBSET D /\ IsFiniteSet(below(v))
                                 /\ Covered(h, v) = SumOver(h, below(v))
                                 /\ Covered(h, v) \in Nat
  <2>1. below(v) \in SUBSET D /\ Covered(h, v) = SumOver(h, below(v))
    BY DEF Covered
  <2> HIDE DEF below
  <2>2. IsFiniteSet(below(v))
    BY <1>1, <2>1, FS_Subset
  <2> QED BY <1>1, <2>1, <2>2, SumOverBag
<1>5. enough # {}
  <2> DEFINE m == Max(D)
  <2>1. m \in D /\ \A y \in D : y <= m
    BY <1>1, <1>2, MaxOfNats
  <2> HIDE DEF m
  <2>2. below(m) = D
    BY <2>1
  <2>3. Covered(h, m) = Count(h)
    BY <1>1, <1>4, <2>1, <2>2 DEF Count
  <2> QED BY <1>3, <2>1, <2>3
<1>6. ValueAt(h, percent) = Min(enough)
  <2>1. h # EmptyBag
    BY EmptyIsABag
  <2> QED BY <2>1 DEF ValueAt, Covered, Rank
<1>7. enough \in SUBSET Nat
  BY <1>1
<1> HIDE DEF rank
<1>8. Min(enough) \in enough /\ \A y \in enough : Min(enough) <= y
  <2> HIDE DEF enough
  <2> QED BY <1>5, <1>7, MinOfNats
<1>9. ASSUME NEW v \in Int, Covered(h, v) >= rank PROVE Min(enough) <= v
  <2>1. below(v) # {}
    <3>1. CASE below(v) = {}
      <4>1. Covered(h, v) = 0
        BY <1>1, <1>4, <3>1, SumOverBag
      <4> QED BY <1>3, <1>9, <4>1
    <3> QED BY <3>1
  <2> DEFINE u == Max(below(v))
  <2>2. u \in below(v) /\ \A y \in below(v) : y <= u
    <3>1. below(v) \in SUBSET Nat /\ \A x \in below(v) : x <= HistHigh
      BY <1>1
    <3> HIDE DEF below
    <3> QED BY <1>2, <2>1, <3>1, MaxOfNats
  <2> HIDE DEF u
  <2>3. u \in D /\ u <= v /\ below(u) = below(v)
    BY <1>1, <2>2
  <2>4. Covered(h, u) = Covered(h, v) /\ u \in Int
    <3>1. u \in Int
      BY <1>1, <2>3
    <3>2. Covered(h, u) = SumOver(h, below(u)) /\ Covered(h, v) = SumOver(h, below(v))
      BY <1>4, <3>1
    <3> QED BY <2>3, <3>1, <3>2
  <2>5. u \in enough
    BY <1>9, <2>3, <2>4
  <2>6. Min(enough) <= u /\ Min(enough) \in Nat
    BY <1>7, <1>8, <2>5
  <2> QED BY <2>3, <2>4, <2>6
<1> QED BY <1>6, <1>8, <1>9 DEF rank

LEMMA StatFacts ==
  ASSUME NEW h, IsHistogram(h)
  PROVE  /\ Stat(h) \in StatRows
         /\ Stat(h).max = Max({0} \cup DOMAIN h) /\ Stat(h).max <= HistHigh
         /\ DOMAIN h # {} => Stat(h).max \in DOMAIN h
         /\ \A v \in DOMAIN h : v <= Stat(h).max
         /\ Stat(h).count = Count(h) /\ (Stat(h).count > 0 <=> DOMAIN h # {})
         /\ Stat(h).p50 = ValueAt(h, 50) /\ Stat(h).p95 = ValueAt(h, 95)
         /\ Stat(h).p99 = ValueAt(h, 99)
<1>1. HistHigh \in Nat /\ DOMAIN h \in SUBSET (1 .. HistHigh) /\ IsABag(h) /\ IsFiniteSet(DOMAIN h)
  BY HistogramFacts, LatencyAssumption
<1> DEFINE S == {0} \cup DOMAIN h
<1>2. S \in SUBSET Nat /\ S # {} /\ \A x \in S : x <= HistHigh
  BY <1>1
<1>3. Max(S) \in S /\ \A y \in S : y <= Max(S)
  <2> HIDE DEF S
  <2> QED BY <1>1, <1>2, MaxOfNats
<1>4. \A percent \in Percents : ValueAt(h, percent) \in Values
  <2> SUFFICES ASSUME NEW percent \in Percents PROVE ValueAt(h, percent) \in Values
    OBVIOUS
  <2>1. CASE DOMAIN h = {}
    <3>1. h = EmptyBag
      BY <1>1, <2>1 DEF IsABag, EmptyBag, SetToBag
    <3> QED BY <1>1, <3>1 DEF ValueAt, Values
  <2>2. CASE DOMAIN h # {}
    BY <1>1, <2>2, QuantileFacts DEF Values
  <2> QED BY <2>1, <2>2
<1>5. Count(h) \in Nat /\ (Count(h) > 0 <=> DOMAIN h # {})
  <2>1. DOMAIN h = {} => Count(h) = 0
    BY <1>1, SumOverBag DEF Count
  <2> QED BY <1>1, <2>1, CountIsNat
<1>6. Max(S) \in Values /\ (DOMAIN h # {} => Max(S) \in DOMAIN h) /\ Max(S) <= HistHigh
  BY <1>1, <1>2, <1>3 DEF Values
<1>7. Stat(h) \in StatRows
  BY <1>4, <1>5, <1>6 DEF Stat, StatRows, Percents
<1>8. Stat(h).max = Max(S) /\ Stat(h).count = Count(h)
  BY DEF Stat
<1> QED BY <1>3, <1>5, <1>6, <1>7, <1>8 DEF Stat

-----------------------------------------------------------------------------
(* Type correctness: every row is a histogram within its bounds.           *)
Snapshots == [interval : [StageNames -> StatRows], cumulative : [StageNames -> StatRows]]
Histograms(hs) == \A s \in StageNames : IsHistogram(hs[s])
Typed ==
    /\ TypeOK
    /\ snapshots \in Seq(Snapshots)
    /\ reporting => Len(snapshots) < MaxSnapshots
    /\ ~ reporting => taken = Empty

(* The gaps a step of Process may choose.                                  *)
Gaps(outcome, slow) ==
    [k \in 1 .. StampsOf(outcome) |-> IF k = slow THEN Stalled ELSE Quick]

LEMMA ProcessRecords ==
  ASSUME NEW outcome \in Outcomes, Process(outcome), Histograms(histos)
  PROVE  \E x : /\ IsSample(x) /\ Covers(x)
                /\ histos' = [s \in StageNames |-> histos[s] (+) SetToBag(Kept(s, x))]
                /\ measured' = measured (+) One(x)
                /\ UNCHANGED <<taken, cumulative, reporting, snapshots>>
<1>1. PICK slow \in 0 .. StampsOf(outcome) :
         /\ histos' = Record(histos, Sample(outcome, Stamps(Gaps(outcome, slow))))
         /\ measured' = measured (+) One(Sample(outcome, Stamps(Gaps(outcome, slow))))
  BY DEF Process, Gaps
<1> DEFINE x == Sample(outcome, Stamps(Gaps(outcome, slow)))
<1>2. Gaps(outcome, slow) \in [1 .. StampsOf(outcome) -> Nat]
  BY LatencyAssumption DEF Gaps
<1>3. IsSample(x) /\ Covers(x)
  BY <1>2, SampleFacts
<1>4. histos' = Record(histos, x) /\ measured' = measured (+) One(x)
  BY <1>1
<1> HIDE DEF x
<1>5. \A s \in StageNames : IsABag(histos[s])
  BY HistogramFacts DEF Histograms
<1>6. histos' = [s \in StageNames |-> histos[s] (+) SetToBag(Kept(s, x))]
  BY <1>3, <1>4, <1>5, RecordAdds
<1>7. UNCHANGED <<taken, cumulative, reporting, snapshots>>
  BY DEF Process
<1> QED BY <1>3, <1>4, <1>6, <1>7

LEMMA StatsType ==
  ASSUME NEW hs, Histograms(hs)
  PROVE  Stats(hs) \in [StageNames -> StatRows]
<1> SUFFICES ASSUME NEW s \in StageNames PROVE Stat(hs[s]) \in StatRows
  BY DEF Stats
<1>1. IsHistogram(hs[s])
  BY DEF Histograms
<1> QED BY <1>1, StatFacts, Zenon

LEMMA AddRowsType ==
  ASSUME NEW g, Histograms(g), NEW h, Histograms(h)
  PROVE  Histograms(AddRows(g, h))
<1> SUFFICES ASSUME NEW s \in StageNames PROVE IsHistogram(AddRows(g, h)[s])
  BY DEF Histograms
<1>1. AddRows(g, h)[s] = g[s] (+) h[s]
  BY DEF AddRows
<1> QED BY <1>1, HistogramFacts DEF Histograms

LEMMA EmptyType == Histograms(Empty)
BY HistogramFacts DEF Empty, Histograms

LEMMA TypedRows == TypeOK <=> /\ Histograms(histos) /\ Histograms(taken) /\ Histograms(cumulative)
                              /\ reporting \in BOOLEAN
                              /\ IsABag(measured)
                              /\ Len(snapshots) <= MaxSnapshots
BY DEF TypeOK, Histograms

LEMMA TypedInit == Init => Typed
<1> SUFFICES ASSUME Init PROVE Typed
  OBVIOUS
<1>1. Histograms(histos) /\ Histograms(taken) /\ Histograms(cumulative)
  BY EmptyType DEF Init
<1>2. IsABag(measured)
  BY EmptyIsABag DEF Init
<1>3. Len(snapshots) <= MaxSnapshots /\ snapshots \in Seq(Snapshots)
  <2>1. snapshots = <<>> /\ MaxSnapshots \in Nat
    BY LatencyAssumption DEF Init
  <2> QED BY <2>1
<1>4. reporting = FALSE /\ taken = Empty
  BY DEF Init
<1> QED BY <1>1, <1>2, <1>3, <1>4, TypedRows DEF Typed

LEMMA TypedStep == Typed /\ [Next]_vars => Typed'
<1> SUFFICES ASSUME Typed, [Next]_vars PROVE Typed'
  OBVIOUS
<1>0. /\ Histograms(histos) /\ Histograms(taken) /\ Histograms(cumulative)
      /\ reporting \in BOOLEAN /\ IsABag(measured) /\ Len(snapshots) <= MaxSnapshots
      /\ snapshots \in Seq(Snapshots) /\ (reporting => Len(snapshots) < MaxSnapshots)
      /\ (~ reporting => taken = Empty)
  BY TypedRows DEF Typed
<1>1. ASSUME NEW outcome \in Outcomes, Process(outcome) PROVE Typed'
  <2>1. PICK x : /\ IsSample(x)
                 /\ histos' = [s \in StageNames |-> histos[s] (+) SetToBag(Kept(s, x))]
                 /\ measured' = measured (+) One(x)
                 /\ UNCHANGED <<taken, cumulative, reporting, snapshots>>
    BY <1>0, <1>1, ProcessRecords
  <2>2. Histograms(histos')
    <3> SUFFICES ASSUME NEW s \in StageNames PROVE IsHistogram(histos'[s])
      BY DEF Histograms
    <3>1. histos'[s] = histos[s] (+) SetToBag(Kept(s, x))
      BY <2>1
    <3>2. IsHistogram(SetToBag(Kept(s, x)))
      BY <2>1, KeptFacts, HistogramFacts
    <3>3. IsHistogram(histos[s])
      BY <1>0 DEF Histograms
    <3> QED BY <3>1, <3>2, <3>3, HistogramFacts
  <2>3. IsABag(measured')
    BY <1>0, <2>1, SetsAreBags, BagsPour DEF One
  <2>4. Histograms(taken') /\ Histograms(cumulative') /\ reporting' \in BOOLEAN
        /\ Len(snapshots') <= MaxSnapshots /\ snapshots' \in Seq(Snapshots)
        /\ (reporting' => Len(snapshots') < MaxSnapshots) /\ (~ reporting' => taken' = Empty)
    BY <1>0, <2>1
  <2> QED BY <2>2, <2>3, <2>4 DEF Typed, TypeOK, Histograms
<1>2. ASSUME Swap PROVE Typed'
  <2>1. Histograms(histos') /\ Histograms(taken') /\ Histograms(cumulative')
    BY <1>0, <1>2, EmptyType DEF Swap
  <2>2. IsABag(measured') /\ Len(snapshots') <= MaxSnapshots /\ snapshots' \in Seq(Snapshots)
        /\ reporting' = TRUE /\ Len(snapshots') < MaxSnapshots
    BY <1>0, <1>2 DEF Swap
  <2> QED BY <2>1, <2>2 DEF Typed, TypeOK, Histograms
<1>3. ASSUME Report PROVE Typed'
  <2>1. Histograms(histos') /\ Histograms(taken') /\ Histograms(cumulative')
    BY <1>0, <1>3, EmptyType, AddRowsType DEF Report
  <2>2. IsABag(measured') /\ reporting' = FALSE /\ taken' = Empty /\ Len(snapshots) < MaxSnapshots
    BY <1>0, <1>3 DEF Report
  <2>3. Len(snapshots') <= MaxSnapshots /\ snapshots' \in Seq(Snapshots)
    <3> DEFINE e == [interval |-> Stats(taken), cumulative |-> Stats(cumulative')]
    <3>1. e \in Snapshots
      BY <1>0, <2>1, StatsType DEF Snapshots
    <3>2. snapshots' = Append(snapshots, e)
      BY <1>3 DEF Report
    <3> HIDE DEF e
    <3> QED BY <1>0, <2>2, <3>1, <3>2, LatencyAssumption
  <2> QED BY <2>1, <2>2, <2>3 DEF Typed, TypeOK, Histograms
<1>4. ASSUME UNCHANGED vars PROVE Typed'
  BY <1>4 DEF Typed, TypeOK, vars
<1> QED BY <1>1, <1>2, <1>3, <1>4 DEF Next, Outcomes

(* Every value recorded, the backfill included, is one its histogram can   *)
(* hold, so the errors of record that the code discards cannot occur:      *)
(* Clamp bounds the value, record_correct goes down from it to one         *)
(* interval, and an interval is at least 1.                                *)
THEOREM LatencyTypeCorrect == Spec => []TypeOK
<1>1. Init => Typed
  BY TypedInit
<1>2. Typed /\ [Next]_vars => Typed'
  BY TypedStep
<1>3. Typed => TypeOK
  BY DEF Typed
<1> QED BY <1>1, <1>2, <1>3, PTL DEF Spec

LEMMA AlwaysTyped == Spec => []Typed
BY TypedInit, TypedStep, PTL DEF Spec

-----------------------------------------------------------------------------
(* Conservation: the rows hold what the ticks owe them.                    *)
OwedBy(m, s) ==
    LET waits(x) == UNION {Waits(s, Clamp(v)) : v \in x[s]}
    IN  [w \in UNION {waits(x) : x \in DOMAIN m} |->
            SumOver(m, {x \in DOMAIN m : w \in waits(x)})]

Measured == IsABag(measured) /\ IsFiniteSet(DOMAIN measured)
                             /\ \A x \in DOMAIN measured : IsSample(x)
Conserved ==
    /\ Measured
    /\ \A s \in StageNames : histos[s] (+) taken[s] (+) cumulative[s] = OwedBy(measured, s)

(* One more tick owes its own waits more.                                  *)
LEMMA OwedGrows ==
  ASSUME ExpectedInterval > 0, NEW m, IsABag(m), IsFiniteSet(DOMAIN m),
         NEW x, IsSample(x), NEW s \in StageNames
  PROVE  OwedBy(m (+) One(x), s) = OwedBy(m, s) (+) SetToBag(Kept(s, x))
<1> DEFINE waits(y) == UNION {Waits(s, Clamp(v)) : v \in y[s]}
           n == m (+) One(x)
           U(k) == UNION {waits(y) : y \in DOMAIN k}
           W(k, w) == {y \in DOMAIN k : w \in waits(y)}
           old == OwedBy(m, s)
           more == SetToBag(Kept(s, x))
<1>1. Kept(s, x) = waits(x)
  BY KeptAreWaits
<1> HIDE DEF waits
<1>2. DOMAIN One(x) = {x} /\ IsABag(One(x)) /\ One(x)[x] = 1 /\ DOMAIN n = DOMAIN m \cup {x}
      /\ IsFiniteSet(DOMAIN n) /\ IsABag(n)
  <2>1. DOMAIN One(x) = {x} /\ IsABag(One(x)) /\ One(x)[x] = 1
    BY SetsAreBags DEF One, SetToBag
  <2>2. DOMAIN n = DOMAIN m \cup {x} /\ IsABag(n)
    BY <2>1, BagsPour
  <2>3. IsFiniteSet(DOMAIN n)
    BY <2>2, FS_AddElement
  <2> QED BY <2>1, <2>2, <2>3
<1> HIDE DEF n
<1>3. OwedBy(n, s) = [w \in U(n) |-> SumOver(n, W(n, w))]
  BY DEF OwedBy, waits
<1>4. old = [w \in U(m) |-> SumOver(m, W(m, w))]
  BY DEF OwedBy, waits
<1>5. U(n) = U(m) \cup waits(x)
  BY <1>2
<1>6. DOMAIN more = waits(x) /\ \A w \in waits(x) : more[w] = 1
  BY <1>1 DEF SetToBag
<1>7. ASSUME NEW w \in U(n)
      PROVE  SumOver(n, W(n, w)) = (IF w \in U(m) THEN SumOver(m, W(m, w)) ELSE 0)
                                 + (IF w \in waits(x) THEN 1 ELSE 0)
  <2> DEFINE S == W(n, w)
  <2>1. S \in SUBSET (DOMAIN m \cup DOMAIN One(x)) /\ S \in SUBSET DOMAIN n
    BY <1>2
  <2>2. S \cap DOMAIN m = W(m, w) /\ S \cap DOMAIN One(x) = IF w \in waits(x) THEN {x} ELSE {}
    BY <1>2
  <2> HIDE DEF S, W, U
  <2>3. IsFiniteSet(S)
    BY <1>2, <2>1, FS_Subset
  <2>4. SumOver(n, S) = SumOver(m, S \cap DOMAIN m) + SumOver(One(x), S \cap DOMAIN One(x))
    BY <1>2, <2>1, <2>3, SumOverUnion DEF n
  <2>5. SumOver(One(x), {x}) = 1 /\ SumOver(One(x), {}) = 0
    BY <1>2, CountOfOne, FS_EmptySet, SumOverRecurs DEF Count
  <2>6. w \notin U(m) => SumOver(m, W(m, w)) = 0
    <3>1. w \notin U(m) => W(m, w) = {}
      BY DEF U, W
    <3>2. SumOver(m, {}) = 0
      BY FS_EmptySet, SumOverRecurs
    <3> QED BY <3>1, <3>2
  <2>7. SumOver(m, W(m, w)) \in Nat
    <3>1. W(m, w) \in SUBSET DOMAIN m
      BY DEF W
    <3>2. IsFiniteSet(W(m, w))
      BY <3>1, FS_Subset
    <3> QED BY <3>1, <3>2, SumOverBag
  <2>8. SumOver(n, S) = SumOver(m, W(m, w)) + (IF w \in waits(x) THEN 1 ELSE 0)
    BY <2>2, <2>4, <2>5
  <2> QED BY <2>6, <2>7, <2>8 DEF S
<1> HIDE DEF U, W, old, more
<1>8. old (+) more = [w \in U(n) |-> (IF w \in U(m) THEN old[w] ELSE 0)
                                   + (IF w \in waits(x) THEN more[w] ELSE 0)]
  BY <1>4, <1>5, <1>6 DEF (+)
<1>9. \A w \in U(n) : SumOver(n, W(n, w)) = (IF w \in U(m) THEN old[w] ELSE 0)
                                          + (IF w \in waits(x) THEN more[w] ELSE 0)
  BY <1>4, <1>6, <1>7
<1> QED BY <1>3, <1>8, <1>9 DEF old, more, n

LEMMA OwedIsABag ==
  ASSUME NEW m, IsABag(m), IsFiniteSet(DOMAIN m), NEW s
  PROVE  IsABag(OwedBy(m, s))
<1> DEFINE waits(y) == UNION {Waits(s, Clamp(v)) : v \in y[s]}
           U == UNION {waits(y) : y \in DOMAIN m}
           W(w) == {y \in DOMAIN m : w \in waits(y)}
<1> HIDE DEF waits
<1>1. OwedBy(m, s) = [w \in U |-> SumOver(m, W(w))]
  BY DEF OwedBy, waits
<1>2. ASSUME NEW w \in U PROVE SumOver(m, W(w)) \in Nat /\ SumOver(m, W(w)) > 0
  <2>1. W(w) # {} /\ W(w) \in SUBSET DOMAIN m
    OBVIOUS
  <2> HIDE DEF W
  <2>2. IsFiniteSet(W(w))
    BY <2>1, FS_Subset
  <2> QED BY <2>1, <2>2, SumOverBag
<1> HIDE DEF U, W
<1> QED BY <1>1, <1>2 DEF IsABag

LEMMA ConservedInit == Init => Conserved
<1> SUFFICES ASSUME Init PROVE Conserved
  OBVIOUS
<1>1. measured = EmptyBag /\ DOMAIN measured = {}
  BY EmptyIsABag DEF Init
<1>2. Measured
  BY <1>1, EmptyIsABag, FS_EmptySet DEF Measured
<1>3. ASSUME NEW s \in StageNames
      PROVE  histos[s] (+) taken[s] (+) cumulative[s] = OwedBy(measured, s)
  <2>1. histos[s] = EmptyBag /\ taken[s] = EmptyBag /\ cumulative[s] = EmptyBag
    BY DEF Init, Empty
  <2>2. EmptyBag (+) EmptyBag (+) EmptyBag = EmptyBag
    BY EmptyIsABag, BagsPour
  <2>3. OwedBy(measured, s) = EmptyBag
    <3> DEFINE waits(y) == UNION {Waits(s, Clamp(v)) : v \in y[s]}
    <3>1. OwedBy(measured, s) = [w \in UNION {waits(y) : y \in DOMAIN measured} |->
                                   SumOver(measured, {y \in DOMAIN measured : w \in waits(y)})]
      BY DEF OwedBy
    <3> HIDE DEF waits
    <3>2. UNION {waits(y) : y \in DOMAIN measured} = {}
      BY <1>1
    <3> QED BY <3>1, <3>2 DEF EmptyBag, SetToBag
  <2> QED BY <2>1, <2>2, <2>3
<1> QED BY <1>2, <1>3 DEF Conserved

LEMMA PourLast ==
  ASSUME NEW h, IsABag(h), NEW k, IsABag(k), NEW t, IsABag(t), NEW c, IsABag(c)
  PROVE  h (+) k (+) t (+) c = h (+) t (+) c (+) k
<1>1. h (+) k (+) t = h (+) t (+) k
  BY DEF IsABag, (+)
<1>2. IsABag(h (+) t)
  BY BagsPour
<1> DEFINE u == h (+) t
<1> HIDE DEF u
<1>3. IsABag(u) => u (+) k (+) c = u (+) c (+) k
  BY DEF IsABag, (+)
<1> QED BY <1>1, <1>2, <1>3 DEF u

LEMMA ConservedStep ==
  ASSUME ExpectedInterval > 0
  PROVE  Typed /\ Conserved /\ [Next]_vars => Conserved'
<1> SUFFICES ASSUME Typed, Conserved, [Next]_vars PROVE Conserved'
  OBVIOUS
<1>0. \A s \in StageNames : IsABag(histos[s]) /\ IsABag(taken[s]) /\ IsABag(cumulative[s])
  BY HistogramFacts DEF Typed, TypeOK
<1>1. ASSUME NEW outcome \in Outcomes, Process(outcome) PROVE Conserved'
  <2>1. PICK x : /\ IsSample(x)
                 /\ histos' = [s \in StageNames |-> histos[s] (+) SetToBag(Kept(s, x))]
                 /\ measured' = measured (+) One(x)
                 /\ UNCHANGED <<taken, cumulative, reporting, snapshots>>
    BY <1>1, ProcessRecords, TypedRows DEF Typed
  <2>2. Measured'
    <3>1. IsABag(measured') /\ DOMAIN measured' = DOMAIN measured \cup {x}
      <4>1. IsABag(measured) /\ IsABag(One(x)) /\ DOMAIN One(x) = {x}
        BY SetsAreBags DEF One, Conserved, Measured
      <4> QED BY <2>1, <4>1, BagsPour
    <3>2. IsFiniteSet(DOMAIN measured')
      BY <3>1, FS_AddElement DEF Conserved, Measured
    <3> QED BY <2>1, <3>1, <3>2 DEF Conserved, Measured
  <2>3. ASSUME NEW s \in StageNames
        PROVE  histos'[s] (+) taken'[s] (+) cumulative'[s] = OwedBy(measured', s)
    <3> DEFINE h == histos[s]
               t == taken[s]
               c == cumulative[s]
               k == SetToBag(Kept(s, x))
    <3>1. histos'[s] = h (+) k /\ taken'[s] = t /\ cumulative'[s] = c
      BY <2>1
    <3>2. OwedBy(measured', s) = h (+) t (+) c (+) k
      BY <2>1, OwedGrows DEF Conserved, Measured
    <3>3. IsABag(h) /\ IsABag(t) /\ IsABag(c) /\ IsABag(k)
      BY <1>0, SetsAreBags
    <3> HIDE DEF h, t, c, k
    <3>4. h (+) k (+) t (+) c = h (+) t (+) c (+) k
      BY <3>3, PourLast
    <3> QED BY <3>1, <3>2, <3>4
  <2> QED BY <2>2, <2>3 DEF Conserved
<1>2. ASSUME Swap PROVE Conserved'
  <2>1. taken' = histos /\ histos' = Empty /\ cumulative' = cumulative /\ measured' = measured
    BY <1>2 DEF Swap
  <2>2. ASSUME NEW s \in StageNames
        PROVE  histos'[s] (+) taken'[s] (+) cumulative'[s] = OwedBy(measured', s)
    <3>1. taken[s] = EmptyBag /\ histos'[s] = EmptyBag
      BY <1>2, <2>1 DEF Swap, Typed, Empty
    <3>2. EmptyBag (+) histos[s] = histos[s] (+) EmptyBag
      BY <1>0, BagsPour
    <3> QED BY <2>1, <3>1, <3>2 DEF Conserved
  <2> QED BY <2>1, <2>2 DEF Conserved, Measured
<1>3. ASSUME Report PROVE Conserved'
  <2>1. taken' = Empty /\ histos' = histos /\ measured' = measured
        /\ cumulative' = AddRows(cumulative, taken)
    BY <1>3 DEF Report
  <2>2. ASSUME NEW s \in StageNames
        PROVE  histos'[s] (+) taken'[s] (+) cumulative'[s] = OwedBy(measured', s)
    <3>1. taken'[s] = EmptyBag /\ cumulative'[s] = cumulative[s] (+) taken[s]
      BY <2>1 DEF Empty, AddRows
    <3>2. histos[s] (+) EmptyBag = histos[s]
      BY <1>0, BagsPour
    <3>3. histos[s] (+) (cumulative[s] (+) taken[s]) = histos[s] (+) taken[s] (+) cumulative[s]
      <4>1. cumulative[s] (+) taken[s] = taken[s] (+) cumulative[s]
        BY <1>0, BagsPour
      <4> QED BY <1>0, <4>1, BagsAssociate
    <3> QED BY <2>1, <3>1, <3>2, <3>3 DEF Conserved
  <2> QED BY <2>1, <2>2 DEF Conserved, Measured
<1>4. ASSUME UNCHANGED vars PROVE Conserved'
  BY <1>4 DEF Conserved, Measured, vars
<1> QED BY <1>1, <1>2, <1>3, <1>4 DEF Next, Outcomes

(* Whatever the reporter swaps out and while whichever tick is recorded,   *)
(* no sample is lost, duplicated or invented, at any rate that leaves an   *)
(* interval of a nanosecond or more.  Without one, record corrects against *)
(* a nanosecond nobody asked for (UnthrottledUncorrected).                 *)
THEOREM LatencyConservesSamples ==
  ASSUME ExpectedInterval > 0
  PROVE  Spec => []SamplesConserved
<1>1. Init => Typed /\ Conserved
  BY TypedInit, ConservedInit
<1>2. Typed /\ Conserved /\ [Next]_vars => Typed' /\ Conserved'
  BY TypedStep, ConservedStep
<1>3. Conserved => SamplesConserved
  <2>1. \A s \in StageNames : Owed(s) = OwedBy(measured, s)
    BY DEF Owed, OwedBy
  <2> QED BY <2>1 DEF Conserved, SamplesConserved
<1> QED BY <1>1, <1>2, <1>3, PTL DEF Spec

-----------------------------------------------------------------------------
(* Totals cover their stages: in the histograms first, then in their       *)
(* statistics.                                                             *)
RowsCover(hs) ==
    /\ \A s \in Shared : \A v \in DOMAIN hs[s] : \E w \in DOMAIN hs["tick_to_signal"] : v <= w
    /\ \A v \in DOMAIN hs["gateway"] : \E w \in DOMAIN hs["tick_to_order"] : v <= w
    /\ Count(hs["decode"]) = Count(hs["book"])
    /\ Count(hs["decode"]) = Count(hs["signal"])
    /\ Count(hs["gateway"]) <= Count(hs["risk"])
    /\ Count(hs["risk"]) <= Count(hs["signal"])

StatsCover(rows) ==
    /\ \A s \in Shared : rows[s].max <= rows.tick_to_signal.max
    /\ rows.gateway.count > 0 => rows.gateway.max <= rows.tick_to_order.max
    /\ rows.decode.count = rows.book.count
    /\ rows.decode.count = rows.signal.count
    /\ rows.gateway.count <= rows.risk.count
    /\ rows.risk.count <= rows.signal.count

KeptRows(x) == [s \in StageNames |-> SetToBag(Kept(s, x))]

LEMMA KeptRowsCover ==
  ASSUME NEW x, IsSample(x), Covers(x)
  PROVE  Histograms(KeptRows(x)) /\ RowsCover(KeptRows(x))
<1> DEFINE k == KeptRows(x)
<1>1. \A s \in StageNames : k[s] = SetToBag(Kept(s, x)) /\ DOMAIN k[s] = Kept(s, x)
  BY SetsAreBags DEF KeptRows
<1> HIDE DEF k
<1>2. Histograms(k)
  BY <1>1, KeptFacts, HistogramFacts DEF Histograms
<1>3. Count(SetToBag({})) = 0 /\ \A v : Count(SetToBag({v})) = 1
  BY CountOfOne, EmptyIsABag DEF One
<1>4. \A s \in StageNames \ EndToEnd : Kept(s, x) = {Clamp(d) : d \in x[s]}
  BY KeptFacts
<1>5. ASSUME NEW s \in Shared
      PROVE  /\ \A v \in DOMAIN k[s] : \E w \in DOMAIN k["tick_to_signal"] : v <= w
             /\ Count(k[s]) = 1
  <2>1. PICK d \in Nat, e \in Nat : x[s] = {d} /\ x["tick_to_signal"] = {e} /\ d <= e
    BY DEF Covers
  <2>2. s \in StageNames \ EndToEnd /\ "tick_to_signal" \in StageNames
    BY DEF Shared, StageNames, EndToEnd
  <2>3. Kept(s, x) = {Clamp(d)} /\ Clamp(e) \in Kept("tick_to_signal", x)
    BY <1>4, <2>1, <2>2, KeptFacts
  <2>4. Clamp(d) <= Clamp(e)
    BY <2>1, ClampFacts
  <2> QED BY <1>1, <1>3, <2>2, <2>3, <2>4
<1>6. /\ \A v \in DOMAIN k["gateway"] : \E w \in DOMAIN k["tick_to_order"] : v <= w
      /\ Count(k["gateway"]) \in 0 .. 1 /\ Count(k["risk"]) \in 0 .. 1
      /\ Count(k["gateway"]) <= Count(k["risk"])
  <2>1. "gateway" \in StageNames \ EndToEnd /\ "risk" \in StageNames \ EndToEnd
        /\ "tick_to_order" \in StageNames
    BY DEF StageNames, EndToEnd
  <2>2. x["risk"] = {} => Count(k["risk"]) = 0
    BY <1>1, <1>3, <1>4, <2>1
  <2>3. x["risk"] # {} => Count(k["risk"]) = 1
    <3> SUFFICES ASSUME x["risk"] # {} PROVE Count(k["risk"]) = 1
      OBVIOUS
    <3>1. PICK d \in Nat : x["risk"] = {d}
      BY <2>1 DEF IsSample
    <3>2. Kept("risk", x) = {Clamp(d)}
      BY <1>4, <2>1, <3>1
    <3> QED BY <1>1, <1>3, <2>1, <3>2
  <2>4. CASE x["gateway"] = {}
    <3>1. Kept("gateway", x) = {}
      BY <1>4, <2>1, <2>4
    <3>2. DOMAIN k["gateway"] = {} /\ Count(k["gateway"]) = 0
      BY <1>1, <1>3, <2>1, <3>1
    <3> QED BY <2>2, <2>3, <3>2
  <2>5. CASE x["gateway"] # {}
    <3>1. PICK d \in Nat, e \in Nat : /\ x["gateway"] = {d} /\ x["tick_to_order"] = {e}
                                      /\ d <= e /\ x["risk"] # {}
      BY <2>5 DEF Covers
    <3>2. Kept("gateway", x) = {Clamp(d)} /\ Clamp(e) \in Kept("tick_to_order", x)
      BY <1>4, <2>1, <3>1, KeptFacts
    <3>3. Clamp(d) <= Clamp(e)
      BY <3>1, ClampFacts
    <3>4. Count(k["gateway"]) = 1 /\ DOMAIN k["gateway"] = {Clamp(d)}
      BY <1>1, <1>3, <2>1, <3>2
    <3>5. DOMAIN k["tick_to_order"] = Kept("tick_to_order", x)
      BY <1>1, <2>1
    <3> QED BY <2>3, <3>1, <3>2, <3>3, <3>4, <3>5
  <2> QED BY <2>4, <2>5
<1>7. Count(k["decode"]) = 1 /\ Count(k["book"]) = 1 /\ Count(k["signal"]) = 1
  BY <1>5 DEF Shared
<1>8. RowsCover(k)
  BY <1>5, <1>6, <1>7 DEF RowsCover
<1> QED BY <1>2, <1>8 DEF k

LEMMA AddedRowsCover ==
  ASSUME NEW g, Histograms(g), RowsCover(g), NEW h, Histograms(h), RowsCover(h)
  PROVE  RowsCover(AddRows(g, h))
<1> DEFINE a == AddRows(g, h)
<1>1. ASSUME NEW s \in StageNames
      PROVE  /\ DOMAIN a[s] = DOMAIN g[s] \cup DOMAIN h[s]
             /\ Count(a[s]) = Count(g[s]) + Count(h[s])
             /\ Count(g[s]) \in Nat /\ Count(h[s]) \in Nat
  <2>1. a[s] = g[s] (+) h[s]
    BY DEF AddRows
  <2>2. IsABag(g[s]) /\ IsFiniteSet(DOMAIN g[s]) /\ IsABag(h[s]) /\ IsFiniteSet(DOMAIN h[s])
    BY HistogramFacts DEF Histograms
  <2> HIDE DEF a
  <2>3. DOMAIN a[s] = DOMAIN g[s] \cup DOMAIN h[s]
    BY <2>1, <2>2, BagsPour
  <2>4. Count(a[s]) = Count(g[s]) + Count(h[s])
    BY <2>1, <2>2, CountsAdd
  <2>5. Count(g[s]) \in Nat /\ Count(h[s]) \in Nat
    BY <2>2, CountIsNat
  <2> QED BY <2>3, <2>4, <2>5
<1> HIDE DEF a
<1>2. /\ Shared \in SUBSET StageNames
      /\ {"decode", "book", "signal", "risk", "gateway", "tick_to_signal", "tick_to_order"}
           = StageNames
  BY DEF Shared, StageNames
<1>3. \A s \in Shared : \A v \in DOMAIN a[s] : \E w \in DOMAIN a["tick_to_signal"] : v <= w
  BY <1>1, <1>2 DEF RowsCover
<1>4. \A v \in DOMAIN a["gateway"] : \E w \in DOMAIN a["tick_to_order"] : v <= w
  BY <1>1, <1>2 DEF RowsCover
<1>5. /\ Count(a["decode"]) = Count(a["book"])
      /\ Count(a["decode"]) = Count(a["signal"])
      /\ Count(a["gateway"]) <= Count(a["risk"])
      /\ Count(a["risk"]) <= Count(a["signal"])
  <2>1. \A s \in StageNames : Count(a[s]) = Count(g[s]) + Count(h[s])
                            /\ Count(g[s]) \in Nat /\ Count(h[s]) \in Nat
    BY <1>1
  <2>2. {"decode", "book", "signal", "risk", "gateway"} \in SUBSET StageNames
    BY <1>2
  <2>3. /\ Count(a["decode"]) = Count(g["decode"]) + Count(h["decode"])
        /\ Count(a["book"]) = Count(g["book"]) + Count(h["book"])
        /\ Count(a["signal"]) = Count(g["signal"]) + Count(h["signal"])
        /\ Count(a["risk"]) = Count(g["risk"]) + Count(h["risk"])
        /\ Count(a["gateway"]) = Count(g["gateway"]) + Count(h["gateway"])
    BY <2>1, <2>2
  <2>5. \A s \in {"gateway", "risk", "signal"} : Count(g[s]) \in Nat /\ Count(h[s]) \in Nat
    BY <2>1, <2>2
  <2>4. /\ Count(g["decode"]) = Count(g["book"]) /\ Count(h["decode"]) = Count(h["book"])
        /\ Count(g["decode"]) = Count(g["signal"]) /\ Count(h["decode"]) = Count(h["signal"])
        /\ Count(g["gateway"]) <= Count(g["risk"]) /\ Count(h["gateway"]) <= Count(h["risk"])
        /\ Count(g["risk"]) <= Count(g["signal"]) /\ Count(h["risk"]) <= Count(h["signal"])
    BY DEF RowsCover
  <2>6. Count(a["gateway"]) <= Count(a["risk"]) /\ Count(a["risk"]) <= Count(a["signal"])
    BY <2>3, <2>4, <2>5
  <2> QED BY <2>3, <2>4, <2>6
<1> QED BY <1>3, <1>4, <1>5 DEF RowsCover, a

LEMMA EmptyRowsCover == RowsCover(Empty)
<1>1. \A s \in StageNames : DOMAIN Empty[s] = {} /\ Count(Empty[s]) = 0
  BY EmptyIsABag, CountOfOne DEF Empty
<1>2. /\ Shared \in SUBSET StageNames
      /\ {"decode", "book", "signal", "risk", "gateway", "tick_to_signal", "tick_to_order"}
           = StageNames
  BY DEF Shared, StageNames
<1> QED BY <1>1, <1>2 DEF RowsCover

LEMMA StatsOfCover ==
  ASSUME NEW hs, Histograms(hs), RowsCover(hs)
  PROVE  StatsCover(Stats(hs))
<1> DEFINE rows == Stats(hs)
<1>1. ASSUME NEW s \in StageNames
      PROVE  /\ rows[s].max \in Nat /\ rows[s].count = Count(hs[s])
             /\ (DOMAIN hs[s] # {} => rows[s].max \in DOMAIN hs[s])
             /\ (DOMAIN hs[s] = {} => rows[s].max = 0)
             /\ \A v \in DOMAIN hs[s] : v <= rows[s].max /\ v \in Nat
  <2>1. rows[s] = Stat(hs[s]) /\ IsHistogram(hs[s])
    BY DEF Stats, Histograms
  <2>2. Max({0} \cup {}) = 0
    BY DEF Max
  <2>3. rows[s].max \in Nat
    <3>1. rows[s] \in StatRows
      <4>1. Stat(hs[s]) \in StatRows
        BY <2>1, StatFacts, Zenon
      <4> HIDE DEF rows
      <4> QED BY <2>1, <4>1
    <3>2. Values \in SUBSET Nat
      BY DEF Values
    <3> HIDE DEF rows
    <3> QED BY <3>1, <3>2 DEF StatRows
  <2> HIDE DEF rows
  <2>4. DOMAIN hs[s] = {} => rows[s].max = 0
    BY <2>1, <2>2, StatFacts
  <2>5. \A v \in DOMAIN hs[s] : v \in Nat
    BY <2>1, HistogramFacts
  <2> DEFINE h == hs[s]
             row == Stat(h)
  <2>6. /\ row.count = Count(h) /\ (DOMAIN h # {} => row.max \in DOMAIN h)
        /\ \A v \in DOMAIN h : v <= row.max
    <3>1. IsHistogram(h)
      BY <2>1
    <3> HIDE DEF h
    <3> QED BY <3>1, StatFacts
  <2> HIDE DEF row
  <2>7. rows[s].count = Count(hs[s]) /\ (DOMAIN hs[s] # {} => rows[s].max \in DOMAIN hs[s])
    BY <2>1, <2>6 DEF row
  <2>8. \A v \in DOMAIN hs[s] : v <= rows[s].max
    BY <2>1, <2>6 DEF row
  <2> QED BY <2>3, <2>4, <2>5, <2>6, <2>7, <2>8
<1> HIDE DEF rows
<1>2. /\ Shared \in SUBSET StageNames
      /\ {"decode", "book", "signal", "risk", "gateway", "tick_to_signal", "tick_to_order"}
           = StageNames
  BY DEF Shared, StageNames
<1>3. ASSUME NEW s \in StageNames, NEW r \in StageNames,
             \A v \in DOMAIN hs[s] : \E w \in DOMAIN hs[r] : v <= w
      PROVE  rows[s].max <= rows[r].max
  <2>1. CASE DOMAIN hs[s] = {}
    BY <1>1, <2>1
  <2>2. CASE DOMAIN hs[s] # {}
    <3>1. PICK w \in DOMAIN hs[r] : rows[s].max <= w
      BY <1>1, <1>3, <2>2
    <3>2. w \in Nat /\ w <= rows[r].max /\ rows[s].max \in Nat /\ rows[r].max \in Nat
      BY <1>1
    <3> QED BY <3>1, <3>2
  <2> QED BY <2>1, <2>2
<1>4. \A s \in Shared : rows[s].max <= rows["tick_to_signal"].max
  BY <1>2, <1>3 DEF RowsCover
<1>5. rows["gateway"].max <= rows["tick_to_order"].max
  BY <1>2, <1>3 DEF RowsCover
<1>6. /\ rows["decode"].count = rows["book"].count
      /\ rows["decode"].count = rows["signal"].count
      /\ rows["gateway"].count <= rows["risk"].count
      /\ rows["risk"].count <= rows["signal"].count
  BY <1>1, <1>2 DEF RowsCover
<1> QED BY <1>4, <1>5, <1>6 DEF StatsCover, rows

Totals ==
    /\ RowsCover(histos) /\ RowsCover(taken) /\ RowsCover(cumulative)
    /\ \A n \in DOMAIN snapshots : /\ StatsCover(snapshots[n].interval)
                                   /\ StatsCover(snapshots[n].cumulative)

LEMMA TotalsInit == Init => Totals
<1>1. Init => DOMAIN snapshots = {}
  BY DEF Init
<1> QED BY <1>1, EmptyRowsCover DEF Init, Totals

LEMMA TotalsStep == Typed /\ Totals /\ [Next]_vars => Totals'
<1> SUFFICES ASSUME Typed, Totals, [Next]_vars PROVE Totals'
  OBVIOUS
<1>0. Histograms(histos) /\ Histograms(taken) /\ Histograms(cumulative)
      /\ snapshots \in Seq(Snapshots)
  BY TypedRows DEF Typed
<1>1. ASSUME NEW outcome \in Outcomes, Process(outcome) PROVE Totals'
  <2>1. PICK x : /\ IsSample(x) /\ Covers(x)
                 /\ histos' = [s \in StageNames |-> histos[s] (+) SetToBag(Kept(s, x))]
                 /\ UNCHANGED <<taken, cumulative, reporting, snapshots>>
    BY <1>0, <1>1, ProcessRecords
  <2>2. histos' = AddRows(histos, KeptRows(x))
    BY <2>1 DEF AddRows, KeptRows
  <2>3. RowsCover(histos')
    BY <1>0, <2>1, <2>2, KeptRowsCover, AddedRowsCover DEF Totals
  <2> QED BY <2>1, <2>3 DEF Totals
<1>2. ASSUME Swap PROVE Totals'
  BY <1>2, EmptyRowsCover DEF Swap, Totals
<1>3. ASSUME Report PROVE Totals'
  <2> DEFINE e == [interval |-> Stats(taken), cumulative |-> Stats(cumulative')]
  <2>1. taken' = Empty /\ histos' = histos /\ cumulative' = AddRows(cumulative, taken)
        /\ snapshots' = Append(snapshots, e)
    BY <1>3 DEF Report
  <2>2. RowsCover(cumulative') /\ Histograms(cumulative')
    BY <1>0, <2>1, AddedRowsCover, AddRowsType DEF Totals
  <2>3. StatsCover(e.interval) /\ StatsCover(e.cumulative)
    BY <1>0, <2>2, StatsOfCover DEF Totals
  <2> HIDE DEF e
  <2>4. \A n \in DOMAIN snapshots' :
           \/ n \in DOMAIN snapshots /\ snapshots'[n] = snapshots[n]
           \/ snapshots'[n] = e
    BY <1>0, <2>1
  <2> QED BY <2>1, <2>2, <2>3, <2>4, EmptyRowsCover DEF Totals
<1>4. ASSUME UNCHANGED vars PROVE Totals'
  BY <1>4 DEF Totals, vars
<1> QED BY <1>1, <1>2, <1>3, <1>4 DEF Next, Outcomes

(* In no snapshot is a row of totals below a row it sums, and the rows     *)
(* that count ticks agree: record adds a whole tick under the mutex, the   *)
(* swap takes whole ticks, and the division, the clamp and the backfill    *)
(* keep the order of two durations.                                        *)
THEOREM LatencyTotalsCover == Spec => []TotalsCoverStages
<1>1. Init => Typed /\ Totals
  BY TypedInit, TotalsInit
<1>2. Typed /\ Totals /\ [Next]_vars => Typed' /\ Totals'
  BY TypedStep, TotalsStep
<1>3. Totals => TotalsCoverStages
  BY DEF Totals, TotalsCoverStages, StatsCover, Shared
<1> QED BY <1>1, <1>2, <1>3, PTL DEF Spec

-----------------------------------------------------------------------------
(* The statistics of the whole run lie between those of its intervals.     *)
LEMMA CoveredAdds ==
  ASSUME NEW a, IsHistogram(a), NEW b, IsHistogram(b), NEW v \in Int
  PROVE  /\ Covered(a (+) b, v) = Covered(a, v) + Covered(b, v)
         /\ Covered(a, v) \in Nat
         /\ \A w \in Int : v <= w => Covered(a, v) <= Covered(a, w)
<1> DEFINE D == DOMAIN a \cup DOMAIN b
           S == {w \in D : w <= v}
           A(u) == {w \in DOMAIN a : w <= u}
           B == {w \in DOMAIN b : w <= v}
<1>1. IsABag(a) /\ IsFiniteSet(DOMAIN a) /\ IsABag(b) /\ IsFiniteSet(DOMAIN b)
      /\ DOMAIN a \subseteq 1 .. HistHigh
  BY HistogramFacts
<1>2. DOMAIN (a (+) b) = D
  BY <1>1, BagsPour
<1>3. S \in SUBSET D /\ S \cap DOMAIN a = A(v) /\ S \cap DOMAIN b = B
  OBVIOUS
<1>4. Covered(a (+) b, v) = SumOver(a (+) b, S) /\ Covered(b, v) = SumOver(b, B)
  BY <1>2 DEF Covered
<1>5. \A u \in Int : Covered(a, u) = SumOver(a, A(u)) /\ A(u) \in SUBSET DOMAIN a
  BY DEF Covered
<1>6. \A w \in Int : v <= w => A(v) \in SUBSET A(w)
  BY <1>1
<1> HIDE DEF S, A, B
<1>7. IsFiniteSet(S)
  <2>1. IsFiniteSet(D)
    BY <1>1, FS_Union
  <2> QED BY <1>3, <2>1, FS_Subset
<1>8. SumOver(a (+) b, S) = SumOver(a, A(v)) + SumOver(b, B)
  BY <1>1, <1>3, <1>7, SumOverUnion
<1>9. \A u \in Int : IsFiniteSet(A(u)) /\ SumOver(a, A(u)) \in Nat
  BY <1>1, <1>5, FS_Subset, SumOverBag
<1>10. \A w \in Int : v <= w => SumOver(a, A(v)) <= SumOver(a, A(w))
  BY <1>1, <1>5, <1>6, <1>9, SumOverGrows
<1> QED BY <1>4, <1>5, <1>8, <1>9, <1>10

LEMMA QuantileBetween ==
  ASSUME NEW a, IsHistogram(a), DOMAIN a # {}, NEW b, IsHistogram(b), DOMAIN b # {},
         NEW percent \in Percents
  PROVE  LET q == ValueAt(a (+) b, percent)
         IN  /\ q <= ValueAt(a, percent) \/ q <= ValueAt(b, percent)
             /\ ValueAt(a, percent) <= q \/ ValueAt(b, percent) <= q
<1> DEFINE c == a (+) b
           x == ValueAt(a, percent)
           y == ValueAt(b, percent)
           q == ValueAt(c, percent)
           rank(h) == Rank(percent, Count(h))
<1>1. IsABag(a) /\ IsFiniteSet(DOMAIN a) /\ IsABag(b) /\ IsFiniteSet(DOMAIN b)
      /\ DOMAIN a \subseteq 1 .. HistHigh /\ DOMAIN b \subseteq 1 .. HistHigh
  BY HistogramFacts
<1>2. IsHistogram(c) /\ DOMAIN c # {} /\ DOMAIN c \subseteq 1 .. HistHigh
  <2>1. IsHistogram(c)
    BY HistogramFacts
  <2>2. DOMAIN c = DOMAIN a \cup DOMAIN b
    BY <1>1, BagsPour
  <2> HIDE DEF c
  <2> QED BY <1>1, <2>1, <2>2
<1>3. \A v \in Int : /\ Covered(c, v) = Covered(a, v) + Covered(b, v)
                     /\ Covered(a, v) \in Nat /\ Covered(b, v) \in Nat
  <2> SUFFICES ASSUME NEW v \in Int
               PROVE  /\ Covered(c, v) = Covered(a, v) + Covered(b, v)
                      /\ Covered(a, v) \in Nat /\ Covered(b, v) \in Nat
    OBVIOUS
  <2>1. Covered(c, v) = Covered(a, v) + Covered(b, v) /\ Covered(a, v) \in Nat
    BY CoveredAdds, Zenon
  <2>2. Covered(b, v) \in Nat
    BY CoveredAdds, Zenon
  <2> QED BY <2>1, <2>2
<1>4. /\ \A v \in Int, w \in Int : v <= w => Covered(a, v) <= Covered(a, w)
      /\ \A v \in Int, w \in Int : v <= w => Covered(b, v) <= Covered(b, w)
  BY CoveredAdds
<1>5. /\ x \in DOMAIN a /\ Covered(a, x) >= rank(a)
      /\ \A v \in Int : Covered(a, v) >= rank(a) => x <= v
  BY QuantileFacts
<1>6. /\ y \in DOMAIN b /\ Covered(b, y) >= rank(b)
      /\ \A v \in Int : Covered(b, v) >= rank(b) => y <= v
  BY QuantileFacts
<1>7. /\ q \in DOMAIN c /\ Covered(c, q) >= rank(c)
      /\ \A v \in Int : Covered(c, v) >= rank(c) => q <= v
  BY <1>2, QuantileFacts
<1>8. rank(a) \in Nat /\ rank(b) \in Nat /\ rank(c) \in Nat
      /\ rank(c) <= rank(a) + rank(b) /\ rank(a) + rank(b) - 2 < rank(c)
  <2>1. Count(c) = Count(a) + Count(b)
    BY <1>1, CountsAdd
  <2>2. Count(a) \in Nat /\ Count(a) >= 1 /\ Count(b) \in Nat /\ Count(b) >= 1
    BY <1>1, CountIsNat
  <2>3. Count(a) + Count(b) \in Nat /\ Count(a) + Count(b) >= 1
    BY <2>2
  <2>4. /\ Rank(percent, Count(a)) \in Nat /\ Rank(percent, Count(b)) \in Nat
        /\ Rank(percent, Count(a) + Count(b)) \in Nat
    <3>1. \A n \in Nat : n >= 1 => Rank(percent, n) \in 1 .. n
      BY RankFacts
    <3> QED BY <2>2, <2>3, <3>1
  <2> QED BY <2>1, <2>2, <2>4, RankFacts
<1>9. x \in Int /\ y \in Int /\ q \in Int
  BY <1>1, <1>2, <1>5, <1>6, <1>7
<1> HIDE DEF c, x, y, q, rank
<1>10. q <= x \/ q <= y
  <2> DEFINE m == IF x <= y THEN y ELSE x
  <2>1. m \in Int /\ x <= m /\ y <= m
    BY <1>9
  <2>2. m = x \/ m = y
    OBVIOUS
  <2> HIDE DEF m
  <2>3. Covered(a, m) >= rank(a) /\ Covered(b, m) >= rank(b)
    <3>1. Covered(a, x) <= Covered(a, m) /\ Covered(b, y) <= Covered(b, m)
      BY <1>4, <1>9, <2>1
    <3>2. Covered(a, x) \in Nat /\ Covered(b, y) \in Nat
          /\ Covered(a, m) \in Nat /\ Covered(b, m) \in Nat
      BY <1>3, <1>9, <2>1
    <3> QED BY <1>5, <1>6, <1>8, <3>1, <3>2
  <2>4. Covered(c, m) >= rank(c)
    BY <1>3, <1>8, <2>1, <2>3
  <2> QED BY <1>7, <2>1, <2>2, <2>4
<1>11. x <= q \/ y <= q
  <2> SUFFICES ASSUME ~ (x <= q), ~ (y <= q) PROVE FALSE
    OBVIOUS
  <2>1. ~ (Covered(a, q) >= rank(a)) /\ ~ (Covered(b, q) >= rank(b))
    BY <1>5, <1>6, <1>9
  <2>2. Covered(c, q) = Covered(a, q) + Covered(b, q)
        /\ Covered(a, q) \in Nat /\ Covered(b, q) \in Nat
    BY <1>3, <1>9
  <2> QED BY <1>7, <1>8, <2>1, <2>2
<1> QED BY <1>10, <1>11 DEF c, x, y, q

Fields == {"p50", "p95", "p99"}
Live(rows) == {row \in rows : row.count > 0}

(* What the rows shown so far say of a histogram of all their samples.     *)
Between(rows, h) ==
    IF Live(rows) = {} THEN DOMAIN h = {}
    ELSE /\ DOMAIN h # {}
         /\ \A q \in Fields : \E lo \in Live(rows), hi \in Live(rows) :
               lo[q] <= Stat(h)[q] /\ Stat(h)[q] <= hi[q]
         /\ \E row \in Live(rows) : row.max = Stat(h).max
         /\ \A row \in Live(rows) : row.max <= Stat(h).max

LEMMA RowFields ==
  ASSUME NEW row \in StatRows
  PROVE  /\ row.max \in Nat /\ row.max <= HistHigh /\ row.count \in Nat
         /\ \A q \in Fields : row[q] \in Nat /\ row[q] <= HistHigh
<1>1. HistHigh \in Nat /\ \A v \in Values : v \in Nat /\ v <= HistHigh
  BY LatencyAssumption DEF Values
<1>2. /\ row.max \in Values /\ row.count \in Nat
      /\ row["p50"] \in Values /\ row["p95"] \in Values /\ row["p99"] \in Values
  BY DEF StatRows
<1> QED BY <1>1, <1>2 DEF Fields

LEMMA StatFields ==
  ASSUME NEW h, IsHistogram(h)
  PROVE  \A q \in Fields : /\ \E percent \in Percents : \A g : Stat(g)[q] = ValueAt(g, percent)
                           /\ Stat(h)[q] \in Int
<1>1. \A g : /\ Stat(g)["p50"] = ValueAt(g, 50) /\ Stat(g)["p95"] = ValueAt(g, 95)
             /\ Stat(g)["p99"] = ValueAt(g, 99)
  BY DEF Stat
<1>2. \A q \in Fields : \E percent \in Percents : \A g : Stat(g)[q] = ValueAt(g, percent)
  <2>1. 50 \in Percents /\ 95 \in Percents /\ 99 \in Percents
    BY DEF Percents
  <2> SUFFICES ASSUME NEW q \in Fields
               PROVE  \E percent \in Percents : \A g : Stat(g)[q] = ValueAt(g, percent)
    OBVIOUS
  <2>2. CASE q = "p50"
    <3>1. \A g : Stat(g)["p50"] = ValueAt(g, 50)
      BY <1>1
    <3> QED BY <2>1, <2>2, <3>1, Zenon
  <2>3. CASE q = "p95"
    <3>1. \A g : Stat(g)["p95"] = ValueAt(g, 95)
      BY <1>1
    <3> QED BY <2>1, <2>3, <3>1, Zenon
  <2>4. CASE q = "p99"
    <3>1. \A g : Stat(g)["p99"] = ValueAt(g, 99)
      BY <1>1
    <3> QED BY <2>1, <2>4, <3>1, Zenon
  <2> QED BY <2>2, <2>3, <2>4 DEF Fields
<1>3. \A q \in Fields : Stat(h)[q] \in Int
  <2>1. Stat(h) \in StatRows
    BY StatFacts
  <2>2. \A q \in Fields : Stat(h)[q] \in Nat
    BY <2>1, RowFields
  <2> QED BY <2>2
<1> QED BY <1>2, <1>3

LEMMA BetweenGrows ==
  ASSUME NEW rows \in SUBSET StatRows, NEW h, IsHistogram(h), Between(rows, h),
         NEW t, IsHistogram(t)
  PROVE  Between(rows \cup {Stat(t)}, h (+) t)
<1> DEFINE new == Stat(t)
           all == rows \cup {new}
           c == h (+) t
<1>1. IsABag(h) /\ IsABag(t) /\ IsHistogram(c) /\ DOMAIN c = DOMAIN h \cup DOMAIN t
  BY HistogramFacts, BagsPour
<1>2. new.count > 0 <=> DOMAIN t # {}
  BY StatFacts
<1>3. CASE DOMAIN t = {}
  <2>1. Live(all) = Live(rows)
    BY <1>2, <1>3 DEF Live
  <2>2. t = EmptyBag
    BY <1>1, <1>3 DEF IsABag, EmptyBag, SetToBag
  <2>3. c = h
    BY <1>1, <2>2, BagsPour
  <2> HIDE DEF all, c
  <2> QED BY <2>1, <2>3 DEF Between, all, c
<1>4. CASE DOMAIN t # {} /\ Live(rows) = {}
  <2>1. Live(all) = {new}
    BY <1>2, <1>4 DEF Live
  <2>2. DOMAIN h = {}
    BY <1>4 DEF Between
  <2>3. c = t
    <3>1. h = EmptyBag
      BY <1>1, <2>2 DEF IsABag, EmptyBag, SetToBag
    <3> QED BY <1>1, <3>1, BagsPour
  <2>4. Stat(c) = new /\ DOMAIN c # {}
    BY <1>4, <2>3
  <2>5. new.max \in Nat /\ \A q \in Fields : new[q] \in Nat
    BY StatFacts, RowFields
  <2> HIDE DEF all, c, new
  <2>6. new.max <= new.max /\ \A q \in Fields : new[q] <= new[q]
    BY <2>5
  <2>7. Between(all, c)
    BY <2>1, <2>4, <2>6 DEF Between
  <2> QED BY <2>7 DEF all, c, new
<1>5. CASE DOMAIN t # {} /\ Live(rows) # {}
  <2>1. Live(all) = Live(rows) \cup {new}
    BY <1>2, <1>5 DEF Live
  <2>2. /\ DOMAIN h # {}
        /\ \A q \in Fields : \E lo \in Live(rows), hi \in Live(rows) :
              lo[q] <= Stat(h)[q] /\ Stat(h)[q] <= hi[q]
        /\ \E row \in Live(rows) : row.max = Stat(h).max
        /\ \A row \in Live(rows) : row.max <= Stat(h).max
    BY <1>5 DEF Between
  <2> HIDE DEF all, new
  <2>3. ASSUME NEW q \in Fields
        PROVE  \E lo \in Live(all), hi \in Live(all) : lo[q] <= Stat(c)[q] /\ Stat(c)[q] <= hi[q]
    <3>1. PICK lo \in Live(rows), hi \in Live(rows) :
             lo[q] <= Stat(h)[q] /\ Stat(h)[q] <= hi[q]
      BY <2>2
    <3>2. lo[q] \in Int /\ hi[q] \in Int
      <4>1. lo \in StatRows /\ hi \in StatRows
        BY DEF Live
      <4> QED BY <4>1, RowFields
    <3>3. PICK percent \in Percents : \A g : Stat(g)[q] = ValueAt(g, percent)
      BY StatFields
    <3>4. /\ Stat(c)[q] <= Stat(h)[q] \/ Stat(c)[q] <= Stat(t)[q]
          /\ Stat(h)[q] <= Stat(c)[q] \/ Stat(t)[q] <= Stat(c)[q]
      BY <1>5, <2>2, <3>3, QuantileBetween
    <3>5. Stat(c)[q] \in Int /\ Stat(h)[q] \in Int /\ Stat(t)[q] \in Int
      BY <1>1, StatFields
    <3> HIDE DEF c
    <3>6. lo \in Live(all) /\ hi \in Live(all) /\ new \in Live(all) /\ new[q] = Stat(t)[q]
      BY <2>1 DEF new
    <3>7. \E x \in Live(all) : x[q] <= Stat(c)[q]
      BY <3>1, <3>2, <3>4, <3>5, <3>6
    <3>8. \E x \in Live(all) : Stat(c)[q] <= x[q]
      BY <3>1, <3>2, <3>4, <3>5, <3>6
    <3> QED BY <3>7, <3>8
  <2>4. /\ Stat(c).max \in Int /\ Stat(h).max \in Int /\ new.max \in Int
        /\ Stat(c).max = IF Stat(h).max >= new.max THEN Stat(h).max ELSE new.max
    <3>1. /\ Stat(c).max \in Int /\ Stat(h).max \in Int /\ Stat(t).max \in Int
      <4>1. Stat(c) \in StatRows /\ Stat(h) \in StatRows /\ Stat(t) \in StatRows
        BY <1>1, StatFacts
      <4>2. Stat(c).max \in Nat /\ Stat(h).max \in Nat /\ Stat(t).max \in Nat
        BY <4>1, RowFields
      <4> QED BY <4>2
    <3>2. /\ Stat(c).max \in DOMAIN h \cup DOMAIN t
          /\ \A v \in DOMAIN h \cup DOMAIN t : v <= Stat(c).max
      <4>1. DOMAIN c # {}
        BY <1>1, <1>5
      <4> HIDE DEF c
      <4> QED BY <1>1, <4>1, StatFacts
    <3>3. /\ Stat(h).max \in DOMAIN h /\ \A v \in DOMAIN h : v <= Stat(h).max
          /\ Stat(t).max \in DOMAIN t /\ \A v \in DOMAIN t : v <= Stat(t).max
      BY <1>5, <2>2, StatFacts
    <3> HIDE DEF c
    <3>4. Stat(h).max <= Stat(c).max /\ Stat(t).max <= Stat(c).max
          /\ (Stat(c).max <= Stat(h).max \/ Stat(c).max <= Stat(t).max)
      BY <3>2, <3>3
    <3> QED BY <3>1, <3>4 DEF new
  <2>5. \E row \in Live(all) : row.max = Stat(c).max
    <3> HIDE DEF c
    <3> QED BY <2>1, <2>2, <2>4
  <2>6. \A row \in Live(all) : row.max <= Stat(c).max
    <3> SUFFICES ASSUME NEW row \in Live(all) PROVE row.max <= Stat(c).max
      OBVIOUS
    <3> HIDE DEF c
    <3>1. CASE row = new
      BY <2>4, <3>1
    <3>2. CASE row \in Live(rows)
      <4>1. row.max <= Stat(h).max
        BY <2>2, <3>2
      <4>2. row.max \in Int
        <5>1. row \in StatRows
          BY <3>2 DEF Live
        <5> QED BY <5>1, RowFields
      <4> QED BY <2>4, <4>1, <4>2
    <3> QED BY <2>1, <3>1, <3>2
  <2>7. DOMAIN c # {} /\ Live(all) # {}
    BY <1>1, <1>5, <2>1
  <2> HIDE DEF c
  <2> QED BY <2>3, <2>5, <2>6, <2>7 DEF Between, c, all, new
<1> QED BY <1>3, <1>4, <1>5

(* In the property's words: least and greatest of the live rows.           *)
LEMMA BetweenMeans ==
  ASSUME NEW rows \in SUBSET StatRows, NEW h, IsHistogram(h), Between(rows, h),
         Live(rows) # {}
  PROVE  /\ \A q \in Fields : /\ Min({row[q] : row \in Live(rows)}) <= Stat(h)[q]
                              /\ Stat(h)[q] <= Max({row[q] : row \in Live(rows)})
         /\ Stat(h).max = Max({row.max : row \in Live(rows)})
<1>1. \A row \in Live(rows) : /\ row.max \in Nat /\ row.max <= HistHigh
                              /\ \A q \in Fields : row[q] \in Nat /\ row[q] <= HistHigh
  BY RowFields DEF Live
<1>2. HistHigh \in Nat
  BY LatencyAssumption
<1>3. /\ \A q \in Fields : \E lo \in Live(rows), hi \in Live(rows) :
            lo[q] <= Stat(h)[q] /\ Stat(h)[q] <= hi[q]
      /\ \E row \in Live(rows) : row.max = Stat(h).max
      /\ \A row \in Live(rows) : row.max <= Stat(h).max
  BY DEF Between
<1>4. ASSUME NEW q \in Fields
      PROVE  /\ Min({row[q] : row \in Live(rows)}) <= Stat(h)[q]
             /\ Stat(h)[q] <= Max({row[q] : row \in Live(rows)})
  <2> DEFINE S == {row[q] : row \in Live(rows)}
  <2>1. S \in SUBSET Nat /\ S # {} /\ \A x \in S : x <= HistHigh
    BY <1>1
  <2>2. PICK lo \in Live(rows), hi \in Live(rows) : lo[q] <= Stat(h)[q] /\ Stat(h)[q] <= hi[q]
    BY <1>3
  <2>3. lo[q] \in S /\ hi[q] \in S
    OBVIOUS
  <2> HIDE DEF S
  <2>4. Min(S) \in Nat /\ Min(S) <= lo[q]
    BY <2>1, <2>3, MinOfNats
  <2>5. Max(S) \in Nat /\ hi[q] <= Max(S)
    BY <1>2, <2>1, <2>3, MaxOfNats
  <2>6. Stat(h)[q] \in Int /\ lo[q] \in Nat /\ hi[q] \in Nat
    BY <2>1, <2>3, StatFields
  <2>7. Min(S) <= Stat(h)[q] /\ Stat(h)[q] <= Max(S)
    BY <2>2, <2>4, <2>5, <2>6
  <2> QED BY <2>7 DEF S
<1>5. Stat(h).max = Max({row.max : row \in Live(rows)})
  <2> DEFINE S == {row.max : row \in Live(rows)}
  <2>1. S \in SUBSET Nat /\ S # {} /\ \A x \in S : x <= HistHigh
    BY <1>1
  <2>2. Stat(h).max \in S /\ \A x \in S : x <= Stat(h).max
    BY <1>3
  <2> HIDE DEF S
  <2>3. Max(S) \in S /\ \A x \in S : x <= Max(S)
    BY <1>2, <2>1, MaxOfNats
  <2>4. Max(S) <= Stat(h).max /\ Stat(h).max <= Max(S) /\ Max(S) \in Nat /\ Stat(h).max \in Nat
    BY <2>1, <2>2, <2>3
  <2>5. Stat(h).max = Max(S)
    BY <2>4
  <2> QED BY <2>5 DEF S
<1> QED BY <1>4, <1>5

Shown(n, s) == {snapshots[k].interval[s] : k \in 1 .. n}
Accumulates ==
    /\ \A s \in StageNames : Between(Shown(Len(snapshots), s), cumulative[s])
    /\ CumulativeBetweenIntervals

LEMMA AccumulatesInit == Init => Accumulates
<1> SUFFICES ASSUME Init PROVE Accumulates
  OBVIOUS
<1>1. Len(snapshots) = 0 /\ DOMAIN snapshots = {}
  BY DEF Init
<1>2. ASSUME NEW s \in StageNames PROVE Between(Shown(Len(snapshots), s), cumulative[s])
  <2>1. Shown(Len(snapshots), s) = {}
    BY <1>1 DEF Shown
  <2>2. Live({}) = {}
    BY DEF Live
  <2>3. DOMAIN cumulative[s] = {}
    BY EmptyIsABag DEF Init, Empty
  <2> QED BY <2>1, <2>2, <2>3 DEF Between
<1>3. CumulativeBetweenIntervals
  BY <1>1 DEF CumulativeBetweenIntervals
<1> QED BY <1>2, <1>3 DEF Accumulates

LEMMA AccumulatesStep == Typed /\ Accumulates /\ [Next]_vars => Accumulates'
<1> SUFFICES ASSUME Typed, Accumulates, [Next]_vars PROVE Accumulates'
  OBVIOUS
<1>0. Histograms(histos) /\ Histograms(taken) /\ Histograms(cumulative)
      /\ snapshots \in Seq(Snapshots)
  BY TypedRows DEF Typed
<1>1. ASSUME UNCHANGED <<cumulative, snapshots>> PROVE Accumulates'
  <2>1. CumulativeBetweenIntervals' = CumulativeBetweenIntervals
    BY <1>1 DEF CumulativeBetweenIntervals
  <2>2. \A s \in StageNames : Between(Shown(Len(snapshots), s)', cumulative'[s])
    BY <1>1 DEF Accumulates, Shown
  <2> QED BY <2>1, <2>2 DEF Accumulates
<1>2. ASSUME Report PROVE Accumulates'
  <2> DEFINE e == [interval |-> Stats(taken), cumulative |-> Stats(cumulative')]
             n == Len(snapshots)
  <2>1. cumulative' = AddRows(cumulative, taken) /\ snapshots' = Append(snapshots, e)
    BY <1>2 DEF Report
  <2>2. Histograms(cumulative')
    BY <1>0, <2>1, AddRowsType
  <2>3. e \in Snapshots
    BY <1>0, <2>2, StatsType DEF Snapshots
  <2>4. \A s \in StageNames : e.interval[s] = Stat(taken[s]) /\ e.cumulative[s] = Stat(cumulative'[s])
    BY DEF Stats
  <2> HIDE DEF e
  <2>5. /\ n \in Nat /\ Len(snapshots') = n + 1 /\ snapshots'[n + 1] = e
        /\ DOMAIN snapshots' = 1 .. n + 1 /\ DOMAIN snapshots = 1 .. n
        /\ \A k \in 1 .. n : snapshots'[k] = snapshots[k] /\ snapshots[k] \in Snapshots
    BY <1>0, <2>1, <2>3
  <2> DEFINE new(m, s) == {snapshots'[k].interval[s] : k \in 1 .. m}
  <2>6. \A m \in 1 .. n, s \in StageNames : new(m, s) = Shown(m, s)
    BY <2>5 DEF Shown
  <2>7. ASSUME NEW s \in StageNames
        PROVE  /\ new(n + 1, s) = Shown(n, s) \cup {Stat(taken[s])}
               /\ Shown(n, s) \in SUBSET StatRows /\ new(n + 1, s) \in SUBSET StatRows
    <3>1. 1 .. n + 1 = (1 .. n) \cup {n + 1}
      BY <2>5
    <3>2. snapshots'[n + 1].interval[s] = Stat(taken[s])
      BY <2>4, <2>5
    <3>3. new(n + 1, s) = Shown(n, s) \cup {Stat(taken[s])}
      BY <2>5, <3>1, <3>2 DEF Shown
    <3>4. Shown(n, s) \in SUBSET StatRows
      BY <2>5 DEF Shown, Snapshots
    <3>5. Stat(taken[s]) \in StatRows
      BY <1>0, StatFacts DEF Histograms
    <3> QED BY <3>3, <3>4, <3>5
  <2>8. ASSUME NEW s \in StageNames PROVE Between(new(n + 1, s), cumulative'[s])
    <3>1. cumulative'[s] = cumulative[s] (+) taken[s]
      BY <2>1 DEF AddRows
    <3>2. Between(Shown(n, s), cumulative[s]) /\ IsHistogram(cumulative[s]) /\ IsHistogram(taken[s])
      BY <1>0 DEF Accumulates, Histograms
    <3> HIDE DEF new, n
    <3> QED BY <2>7, <3>1, <3>2, BetweenGrows
  <2>9. CumulativeBetweenIntervals'
    <3> SUFFICES ASSUME NEW m \in DOMAIN snapshots', NEW s \in StageNames, Live(new(m, s)) # {}
                 PROVE  LET whole == snapshots'[m].cumulative[s]
                        IN  /\ \A q \in Fields :
                                  /\ Min({row[q] : row \in Live(new(m, s))}) <= whole[q]
                                  /\ whole[q] <= Max({row[q] : row \in Live(new(m, s))})
                            /\ whole.max = Max({row.max : row \in Live(new(m, s))})
      BY DEF CumulativeBetweenIntervals, Live, Fields
    <3>1. CASE m \in 1 .. n
      <4>1. new(m, s) = Shown(m, s) /\ snapshots'[m] = snapshots[m] /\ m \in DOMAIN snapshots
        BY <2>5, <2>6, <3>1
      <4>2. Live(Shown(m, s)) # {}
        BY <4>1
      <4> QED BY <4>1, <4>2 DEF Accumulates, CumulativeBetweenIntervals, Shown, Live, Fields
    <3>2. CASE m = n + 1
      <4>1. snapshots'[m].cumulative[s] = Stat(cumulative'[s]) /\ IsHistogram(cumulative'[s])
        BY <2>2, <2>4, <2>5, <3>2 DEF Histograms
      <4> HIDE DEF new, n
      <4> QED BY <2>7, <2>8, <3>2, <4>1, BetweenMeans
    <3>3. m \in 1 .. n \/ m = n + 1
      BY <2>5
    <3> QED BY <3>1, <3>2, <3>3
  <2>10. \A s \in StageNames : Between(Shown(Len(snapshots), s)', cumulative'[s])
    BY <2>5, <2>8 DEF Shown
  <2> QED BY <2>9, <2>10 DEF Accumulates
<1>3. ASSUME NEW outcome \in Outcomes, Process(outcome) PROVE Accumulates'
  BY <1>1, <1>3 DEF Process
<1>4. ASSUME Swap PROVE Accumulates'
  BY <1>1, <1>4 DEF Swap
<1>5. ASSUME UNCHANGED vars PROVE Accumulates'
  BY <1>1, <1>5 DEF vars
<1> QED BY <1>2, <1>3, <1>4, <1>5 DEF Next, Outcomes

(* A quantile of the whole run lies between the least and the greatest the *)
(* intervals showed, and its maximum is the greatest of theirs: the        *)
(* cumulative histogram holds the samples of each interval and no others,  *)
(* and the quantile of two histograms added lies between theirs.           *)
THEOREM LatencyAccumulates == Spec => []CumulativeBetweenIntervals
<1>1. Init => Typed /\ Accumulates
  BY TypedInit, AccumulatesInit
<1>2. Typed /\ Accumulates /\ [Next]_vars => Typed' /\ Accumulates'
  BY TypedStep, AccumulatesStep
<1>3. Accumulates => CumulativeBetweenIntervals
  BY DEF Accumulates
<1> QED BY <1>1, <1>2, <1>3, PTL DEF Spec
=============================================================================
