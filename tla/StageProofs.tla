---------------------------- MODULE StageProofs ----------------------------
(***************************************************************************)
(* What the operators of the stages of the hot path guarantee, for any     *)
(* argument: the lemmas about numbers, sums and folds first, then exact    *)
(* rationals and the risk manager, the signal engine and the order book.   *)
(* The proofs about the specifications built from the stages extend this   *)
(* module.                                                                 *)
(***************************************************************************)
EXTENDS RiskManager, SignalEngine, OrderBook, FiniteSetTheorems,
        SequenceTheorems, WellFoundedInduction, TLAPS


(* A nonempty set of natural numbers has a least member, and Min is one.   *)
LEMMA MinOfNats ==
  ASSUME NEW S \in SUBSET Nat, S # {}
  PROVE  Min(S) \in S /\ \A y \in S : Min(S) <= y
<1>1. PICK x \in S : \A y \in S : ~ (<<y, x>> \in OpToRel(<, Nat))
  BY NatLessThanWellFounded, WFMin
<1>2. \A y \in S : x <= y
  <2> SUFFICES ASSUME NEW y \in S, y < x PROVE FALSE
    OBVIOUS
  <2> QED BY <1>1 DEF OpToRel
<1> QED BY <1>2 DEF Min

(* Induction, for a property that is a set of numbers: the provers cannot  *)
(* instantiate the library's, which take it as an operator.                *)
LEMMA NatSetInduction ==
  ASSUME NEW T \in SUBSET Nat, 0 \in T, \A n \in T : n + 1 \in T
  PROVE  T = Nat
<1> SUFFICES ASSUME Nat \ T # {} PROVE FALSE
  OBVIOUS
<1> DEFINE m == Min(Nat \ T)
<1>1. m \in Nat \ T /\ \A y \in Nat \ T : m <= y
  BY MinOfNats
<1> HIDE DEF m
<1>2. m - 1 \in Nat
  BY <1>1
<1>3. m - 1 \in T
  BY <1>1, <1>2
<1> QED BY <1>1, <1>2, <1>3

(* What is behind every fold: a recursion over the subsets of a finite set *)
(* that takes one element off at a time.  It has a solution, and induction *)
(* along it reaches the whole set.                                         *)
Picks(pick, D) == \A s \in SUBSET D : s # {} => pick[s] \in s
Keeps(F, D, V) == \A d \in D, v \in V : F[d][v] \in V
Recurses(g, D, base, pick, F) ==
    \A s \in SUBSET D :
        g[s] = IF s = {} THEN base ELSE F[pick[s]][g[s \ {pick[s]}]]
Grows(G, D, pick) ==
    {} \in G /\ \A s \in SUBSET D : s # {} /\ s \ {pick[s]} \in G => s \in G

LEMMA SubsetRecursion ==
  ASSUME NEW D, IsFiniteSet(D), NEW V, NEW base \in V,
         NEW pick, Picks(pick, D), NEW F, Keeps(F, D, V)
  PROVE  \E g \in [SUBSET D -> V] : Recurses(g, D, base, pick, F)
<1> DEFINE Unfolded(g, s) == IF s = {} THEN base ELSE F[pick[s]][g[s \ {pick[s]}]]
           Solves(g, n) == \A s \in SUBSET D : Cardinality(s) <= n => g[s] = Unfolded(g, s)
           T == {n \in Nat : \E g \in [SUBSET D -> V] : Solves(g, n)}
<1> USE DEF Picks, Keeps
<1>1. \A s \in SUBSET D : IsFiniteSet(s) /\ Cardinality(s) \in Nat
  BY FS_Subset, FS_CardinalityType
<1>2. 0 \in T
  <2> DEFINE g == [s \in SUBSET D |-> base]
  <2>1. Solves(g, 0)
    <3> SUFFICES ASSUME NEW s \in SUBSET D, Cardinality(s) <= 0 PROVE g[s] = Unfolded(g, s)
      OBVIOUS
    <3>1. Cardinality(s) = 0 /\ IsFiniteSet(s)
      BY <1>1
    <3>2. s = {}
      BY <3>1, FS_EmptySet
    <3> QED BY <3>2
  <2>2. g \in [SUBSET D -> V]
    OBVIOUS
  <2> QED BY <2>1, <2>2
<1>3. ASSUME NEW n \in T PROVE n + 1 \in T
  <2>0. n + 1 \in Nat
    OBVIOUS
  <2>1. PICK g \in [SUBSET D -> V] : Solves(g, n)
    OBVIOUS
  <2> DEFINE h == [s \in SUBSET D |-> Unfolded(g, s)]
  <2>2. h \in [SUBSET D -> V]
    <3> SUFFICES ASSUME NEW s \in SUBSET D, s # {} PROVE F[pick[s]][g[s \ {pick[s]}]] \in V
      OBVIOUS
    <3>1. pick[s] \in D /\ g[s \ {pick[s]}] \in V
      OBVIOUS
    <3> QED BY <3>1
  <2>3. ASSUME NEW s \in SUBSET D, Cardinality(s) <= n + 1 PROVE h[s] = Unfolded(h, s)
    <3>1. CASE s = {}
      BY <3>1
    <3>2. CASE s # {}
      <4> DEFINE r == s \ {pick[s]}
      <4>1. pick[s] \in s /\ r \in SUBSET D
        BY <3>2
      <4>2. Cardinality(r) = Cardinality(s) - 1
        <5> DEFINE e == pick[s]
        <5>1. IsFiniteSet(s) /\ e \in s
          BY <1>1, <4>1
        <5> HIDE DEF e
        <5>2. Cardinality(s \ {e}) = Cardinality(s) - 1
          BY <5>1, FS_RemoveElement, Zenon
        <5> QED BY <5>2 DEF e
      <4>3. Cardinality(r) <= n
        <5>1. Cardinality(s) \in Nat /\ n \in Nat
          BY <1>1
        <5> QED BY <2>3, <4>2, <5>1
      <4>4. g[r] = Unfolded(g, r)
        BY <2>1, <4>1, <4>3
      <4>5. h[r] = g[r]
        BY <4>1, <4>4
      <4>6. h[s] = F[pick[s]][g[r]]
        BY <3>2
      <4>7. Unfolded(h, s) = F[pick[s]][h[r]]
        BY <3>2
      <4> QED BY <4>5, <4>6, <4>7
    <3> QED BY <3>1, <3>2
  <2>4. Solves(h, n + 1)
    BY <2>3
  <2> HIDE DEF Solves, h
  <2> QED BY <2>0, <2>2, <2>4
<1>4. T = Nat
  <2> HIDE DEF T
  <2>1. T \in SUBSET Nat
    BY DEF T
  <2> QED BY <1>2, <1>3, <2>1, NatSetInduction
<1>5. Cardinality(D) \in T
  BY <1>1, <1>4
<1>6. PICK g \in [SUBSET D -> V] : Solves(g, Cardinality(D))
  BY <1>5
<1>7. \A s \in SUBSET D : Cardinality(s) <= Cardinality(D)
  BY FS_Subset
<1> QED BY <1>6, <1>7 DEF Recurses

LEMMA SubsetInduction ==
  ASSUME NEW D, IsFiniteSet(D), NEW pick, Picks(pick, D), NEW G, Grows(G, D, pick)
  PROVE  D \in G
<1> DEFINE T == {n \in Nat : \A s \in SUBSET D : Cardinality(s) <= n => s \in G}
<1> USE DEF Picks, Grows
<1>1. \A s \in SUBSET D : IsFiniteSet(s) /\ Cardinality(s) \in Nat
  BY FS_Subset, FS_CardinalityType
<1>2. 0 \in T
  <2> SUFFICES ASSUME NEW s \in SUBSET D, Cardinality(s) <= 0 PROVE s \in G
    OBVIOUS
  <2>1. Cardinality(s) = 0 /\ IsFiniteSet(s)
    BY <1>1
  <2> QED BY <2>1, FS_EmptySet
<1>3. ASSUME NEW n \in T PROVE n + 1 \in T
  <2>1. n \in Nat /\ n + 1 \in Nat
    OBVIOUS
  <2>2. ASSUME NEW s \in SUBSET D, Cardinality(s) <= n + 1, s # {} PROVE s \in G
    <3>1. pick[s] \in s /\ s \ {pick[s]} \in SUBSET D
      BY <2>2
    <3>2. IsFiniteSet(s) /\ Cardinality(s) \in Nat
      BY <1>1
    <3>3. Cardinality(s \ {pick[s]}) = Cardinality(s) - 1
      BY <3>1, <3>2, FS_RemoveElement
    <3>4. Cardinality(s \ {pick[s]}) <= n
      BY <2>1, <2>2, <3>2, <3>3
    <3> QED BY <2>2, <3>1, <3>4
  <2> QED BY <2>1, <2>2
<1>4. T = Nat
  <2> HIDE DEF T
  <2>1. T \in SUBSET Nat
    BY DEF T
  <2> QED BY <1>2, <1>3, <2>1, NatSetInduction
<1>5. Cardinality(D) \in T
  BY <1>1, <1>4
<1> QED BY <1>5, <1>1

LEMMA MultipleHasNoRemainder ==
  ASSUME NEW n \in Int, NEW d \in Nat \ {0}
  PROVE  (n * d) % d = 0
<1> DEFINE q == (n * d) \div d
           k == n - q
<1>1. n * d \in Int /\ q \in Int /\ k \in Int
  OBVIOUS
<1>2. n * d = d * q + ((n * d) % d) /\ (n * d) % d \in 0 .. d - 1
  OBVIOUS
<1>3. (n * d) % d = d * k
  BY <1>1, <1>2
<1>4. d * k \in 0 .. d - 1
  BY <1>2, <1>3
<1> HIDE DEF k
<1>5. k = 0
  <2>1. CASE k >= 1
    <3>1. d * k >= d BY <1>1, <2>1
    <3> QED BY <1>4, <3>1
  <2>2. CASE k <= -1
    <3>1. d * k <= -d BY <1>1, <2>2
    <3> QED BY <1>4, <3>1
  <2> QED BY <1>1, <2>1, <2>2
<1> QED BY <1>3, <1>5

(* Reduce keeps the value of a rational: the code's f64 arithmetic never   *)
(* normalises, and the model's normal form must not change an amount.      *)
THEOREM ReduceIsExact ==
  ASSUME NEW r \in Rat
  PROVE  /\ Reduce(r) \in Rat
         /\ Reduce(r)[1] * r[2] = r[1] * Reduce(r)[2]
<1> DEFINE n == r[1]
           d == r[2]
           S == Denominators(r)
           m == Min(S)
<1>1. n \in Int /\ d \in Nat \ {0}
  BY DEF Rat
<1>2. S \in SUBSET Nat
  BY DEF Denominators
<1>3. (n * d) % d = 0
  BY <1>1, MultipleHasNoRemainder
<1>4. S # {}
  <2>1. d \in S
    BY <1>1, <1>3 DEF Denominators
  <2> QED BY <2>1
<1>5. m \in S
  BY <1>2, <1>4, MinOfNats
<1>6. m \in Nat \ {0} /\ (n * m) % d = 0
  <2>1. m \in {k \in 1 .. d : (n * k) % d = 0}
    BY <1>5 DEF Denominators
  <2> HIDE DEF m
  <2> QED BY <2>1, <1>1
<1>7. ((n * m) \div d) \in Int /\ ((n * m) \div d) * d = n * m
  <2> DEFINE p == n * m
  <2>1. p \in Int
    BY <1>1, <1>6
  <2> HIDE DEF p
  <2>2. (p \div d) \in Int
    BY <2>1, <1>1
  <2>3. p % d = 0
    BY <1>6 DEF p
  <2>4. p = d * (p \div d) + (p % d)
    BY <2>1, <1>1
  <2>5. (p \div d) * d = p
    BY <2>1, <2>2, <2>3, <2>4, <1>1
  <2> QED BY <2>2, <2>5 DEF p
<1>8. Reduce(r) = <<(n * m) \div d, m>>
  BY DEF Reduce
<1> QED BY <1>6, <1>7, <1>8 DEF Rat

LEMMA ProductOfPositives ==
  ASSUME NEW m \in Nat \ {0}, NEW n \in Nat \ {0}
  PROVE  m * n \in Nat \ {0}
OBVIOUS

(* The operations stay within the rationals. *)
LEMMA RationalsAreClosed ==
  ASSUME NEW r \in Rat, NEW s \in Rat, NEW n \in Int
  PROVE  /\ FromInt(n) \in Rat
         /\ Zero \in Rat
         /\ Add(r, s) \in Rat
         /\ Sub(r, s) \in Rat
         /\ Scale(r, n) \in Rat
         /\ n > 0 => Quotient(r, n) \in Rat
<1>1. FromInt(n) \in Rat /\ Zero \in Rat
  BY DEF FromInt, Zero, Rat
<1>2. \A q, t \in Rat : Add(q, t) \in Rat
  <2> SUFFICES ASSUME NEW q \in Rat, NEW t \in Rat PROVE Add(q, t) \in Rat
    OBVIOUS
  <2>1. q[1] * t[2] + t[1] * q[2] \in Int
    BY DEF Rat
  <2>2. q[2] * t[2] \in Nat \ {0}
    BY ProductOfPositives DEF Rat
  <2>3. <<q[1] * t[2] + t[1] * q[2], q[2] * t[2]>> \in Rat
    BY <2>1, <2>2 DEF Rat
  <2> QED BY <2>3, ReduceIsExact DEF Add
<1>3. Neg(s) \in Rat
  BY DEF Neg, Rat
<1>4. Scale(r, n) \in Rat
  <2>1. <<r[1] * n, r[2]>> \in Rat
    BY DEF Rat
  <2> QED BY <2>1, ReduceIsExact DEF Scale
<1>5. ASSUME n > 0 PROVE Quotient(r, n) \in Rat
  <2>1. <<r[1], r[2] * n>> \in Rat
    BY <1>5, ProductOfPositives DEF Rat
  <2> QED BY <2>1, ReduceIsExact DEF Quotient
<1> QED BY <1>1, <1>2, <1>3, <1>4, <1>5 DEF Sub

LEMMA Cancel ==
  ASSUME NEW x \in Int, NEW y \in Int, NEW k \in Int, k # 0, x * k = y * k
  PROVE  x = y
<1>1. (x - y) * k = 0
  OBVIOUS
<1> DEFINE d == x - y
<1>2. d \in Int /\ d * k = 0
  BY <1>1
<1> HIDE DEF d
<1>3. d = 0
  <2>1. CASE d >= 1 /\ k >= 1
    <3>1. d * k >= 1 BY <1>2, <2>1
    <3> QED BY <1>2, <3>1
  <2>2. CASE d >= 1 /\ k <= -1
    <3>1. d * k <= -1 BY <1>2, <2>2
    <3> QED BY <1>2, <3>1
  <2>3. CASE d <= -1 /\ k >= 1
    <3>1. d * k <= -1 BY <1>2, <2>3
    <3> QED BY <1>2, <3>1
  <2>4. CASE d <= -1 /\ k <= -1
    <3>1. d * k >= 1 BY <1>2, <2>4
    <3> QED BY <1>2, <3>1
  <2> QED BY <1>2, <2>1, <2>2, <2>3, <2>4
<1> QED BY <1>3 DEF d

(* The value of a sum, a product and a quotient, whatever their form. *)
LEMMA ValuesAreExact ==
  ASSUME NEW r \in Rat, NEW s \in Rat, NEW n \in Int
  PROVE  /\ Add(r, s)[1] * (r[2] * s[2]) = (r[1] * s[2] + s[1] * r[2]) * Add(r, s)[2]
         /\ Sub(r, s)[1] * (r[2] * s[2]) = (r[1] * s[2] - s[1] * r[2]) * Sub(r, s)[2]
         /\ Scale(r, n)[1] * r[2] = (r[1] * n) * Scale(r, n)[2]
         /\ n > 0 => Quotient(r, n)[1] * (r[2] * n) = r[1] * Quotient(r, n)[2]
<1>1. ASSUME NEW q \in Rat, NEW t \in Rat
      PROVE  Add(q, t)[1] * (q[2] * t[2]) = (q[1] * t[2] + t[1] * q[2]) * Add(q, t)[2]
  <2> DEFINE x == <<q[1] * t[2] + t[1] * q[2], q[2] * t[2]>>
  <2>1. q[1] * t[2] + t[1] * q[2] \in Int
    BY DEF Rat
  <2>2. q[2] * t[2] \in Nat \ {0}
    BY ProductOfPositives DEF Rat
  <2>3. x \in Rat
    BY <2>1, <2>2 DEF Rat
  <2>4. Reduce(x)[1] * x[2] = x[1] * Reduce(x)[2]
    BY <2>3, ReduceIsExact
  <2> QED BY <2>4 DEF Add
<1>2. Neg(s) \in Rat /\ Neg(s)[1] = -s[1] /\ Neg(s)[2] = s[2]
  BY DEF Neg, Rat
<1>3. Sub(r, s)[1] * (r[2] * s[2]) = (r[1] * s[2] - s[1] * r[2]) * Sub(r, s)[2]
  <2>1. Sub(r, s)[1] * (r[2] * s[2]) = (r[1] * s[2] + (-s[1]) * r[2]) * Sub(r, s)[2]
    BY <1>1, <1>2 DEF Sub
  <2>2. r[1] * s[2] + (-s[1]) * r[2] = r[1] * s[2] - s[1] * r[2]
    BY DEF Rat
  <2> QED BY <2>1, <2>2
<1>4. Scale(r, n)[1] * r[2] = (r[1] * n) * Scale(r, n)[2]
  <2>1. <<r[1] * n, r[2]>> \in Rat
    BY DEF Rat
  <2> QED BY <2>1, ReduceIsExact DEF Scale
<1>5. ASSUME n > 0 PROVE Quotient(r, n)[1] * (r[2] * n) = r[1] * Quotient(r, n)[2]
  <2>1. <<r[1], r[2] * n>> \in Rat
    BY <1>5, ProductOfPositives DEF Rat
  <2> QED BY <2>1, ReduceIsExact DEF Quotient
<1> QED BY <1>1, <1>3, <1>4, <1>5

LEMMA NonZeroProduct ==
  ASSUME NEW x \in Int, NEW y \in Int, x # 0, y # 0
  PROVE  x * y # 0
<1> SUFFICES ASSUME x * y = 0 * y PROVE FALSE
  OBVIOUS
<1>1. x = 0 BY Cancel
<1> QED BY <1>1

(* The average an addition leaves, of m units at r and what k bought. *)
LEMMA AverageIsExact ==
  ASSUME NEW r \in Rat, NEW m \in Int, NEW k \in Int, NEW m2 \in Nat \ {0}
  PROVE  LET w == Quotient(Add(Scale(r, m), FromInt(k)), m2)
         IN  /\ w \in Rat
             /\ (w[1] * m2) * r[2] = (r[1] * m + k * r[2]) * w[2]
<1> DEFINE u == Scale(r, m)
           i == FromInt(k)
           v == Add(u, i)
           w == Quotient(v, m2)
<1>1. u \in Rat /\ i \in Rat
  BY RationalsAreClosed
<1>2. v \in Rat /\ w \in Rat
  <2> HIDE DEF u, i
  <2>1. v \in Rat
    BY <1>1, RationalsAreClosed
  <2> HIDE DEF v
  <2> QED BY <2>1, RationalsAreClosed
<1>3. u[1] * r[2] = (r[1] * m) * u[2]
  BY ValuesAreExact
<1>4. v[1] * u[2] = (u[1] + k * u[2]) * v[2]
  <2>1. i[1] = k /\ i[2] = 1
    BY DEF FromInt
  <2> HIDE DEF u, i
  <2>2. v[1] * (u[2] * i[2]) = (u[1] * i[2] + i[1] * u[2]) * v[2]
    BY <1>1, ValuesAreExact
  <2> HIDE DEF v
  <2> QED BY <1>1, <1>2, <2>1, <2>2 DEF Rat
<1> HIDE DEF u, i, v
<1>5. w[1] * (v[2] * m2) = v[1] * w[2]
  BY <1>2, ValuesAreExact
<1> HIDE DEF w
<1> DEFINE a == r[1]
           b == r[2]
           u1 == u[1]
           u2 == u[2]
           v1 == v[1]
           v2 == v[2]
           w1 == w[1]
           w2 == w[2]
<1>6. /\ a \in Int /\ b \in Int /\ u1 \in Int /\ u2 \in Int /\ u2 # 0
      /\ v1 \in Int /\ v2 \in Int /\ v2 # 0 /\ w1 \in Int /\ w2 \in Int
  BY <1>1, <1>2 DEF Rat
<1>7. u1 * b = (a * m) * u2 /\ v1 * u2 = (u1 + k * u2) * v2 /\ w1 * (v2 * m2) = v1 * w2
  BY <1>3, <1>4, <1>5
<1> HIDE DEF a, b, u1, u2, v1, v2, w1, w2
<1> DEFINE x == (w1 * m2) * b
           y == (a * m + k * b) * w2
           c == v2 * u2
<1>8. x * c = y * c
  <2>1. (w1 * (v2 * m2)) * (u2 * b) = (v1 * w2) * (u2 * b)
    BY <1>7
  <2>2. (v1 * u2) * (w2 * b) = ((u1 + k * u2) * v2) * (w2 * b)
    BY <1>7
  <2>3. (u1 * b) * (v2 * w2) = ((a * m) * u2) * (v2 * w2)
    BY <1>7
  <2> QED BY <1>6, <2>1, <2>2, <2>3
<1>9. x \in Int /\ y \in Int /\ c \in Int /\ c # 0
  BY <1>6, NonZeroProduct
<1>10. x = y
  <2> HIDE DEF x, y, c
  <2> QED BY <1>8, <1>9, Cancel
<1> QED BY <1>2, <1>10 DEF a, b, w1, w2, i, u, v, w

(* What realizing k units at px, of a position held at avg, adds. *)
LEMMA GainIsExact ==
  ASSUME NEW r \in Rat, NEW avg \in Rat, NEW px \in Int, NEW k \in Int
  PROVE  LET g == Add(r, Scale(Sub(FromInt(px), avg), k))
         IN  /\ g \in Rat
             /\ g[1] * (r[2] * avg[2])
                  = (r[1] * avg[2] + ((px * avg[2] - avg[1]) * k) * r[2]) * g[2]
<1> DEFINE i == FromInt(px)
           d == Sub(i, avg)
           s == Scale(d, k)
           g == Add(r, s)
<1>1. i \in Rat /\ i[1] = px /\ i[2] = 1
  BY DEF FromInt, Rat
<1> HIDE DEF i
<1>2. d \in Rat /\ d[1] * (i[2] * avg[2]) = (i[1] * avg[2] - avg[1] * i[2]) * d[2]
  BY <1>1, RationalsAreClosed, ValuesAreExact
<1> HIDE DEF d
<1>3. s \in Rat /\ s[1] * d[2] = (d[1] * k) * s[2]
  BY <1>2, RationalsAreClosed, ValuesAreExact
<1> HIDE DEF s
<1>4. g \in Rat /\ g[1] * (r[2] * s[2]) = (r[1] * s[2] + s[1] * r[2]) * g[2]
  BY <1>3, RationalsAreClosed, ValuesAreExact
<1> HIDE DEF g
<1> DEFINE a == avg[1]
           b == avg[2]
           t1 == r[1]
           t == r[2]
           d1 == d[1]
           d2 == d[2]
           s1 == s[1]
           s2 == s[2]
           g1 == g[1]
           g2 == g[2]
<1>5. /\ a \in Int /\ b \in Int /\ t1 \in Int /\ t \in Int /\ d1 \in Int /\ d2 \in Int
      /\ d2 # 0 /\ s1 \in Int /\ s2 \in Int /\ s2 # 0 /\ g1 \in Int /\ g2 \in Int
  BY <1>2, <1>3, <1>4 DEF Rat
<1>6. d1 * b = (px * b - a) * d2
  <2>1. d1 * (1 * b) = (px * b - a * 1) * d2
    BY <1>1, <1>2
  <2> HIDE DEF a, b, d1, d2
  <2> QED BY <1>5, <2>1
<1>7. s1 * d2 = (d1 * k) * s2 /\ g1 * (t * s2) = (t1 * s2 + s1 * t) * g2
  BY <1>3, <1>4
<1> HIDE DEF a, b, t1, t, d1, d2, s1, s2, g1, g2
<1> DEFINE x == g1 * (t * b)
           y == (t1 * b + ((px * b - a) * k) * t) * g2
           c == d2 * s2
<1>8. x * c = y * c
  <2>1. (g1 * (t * s2)) * (b * d2) = ((t1 * s2 + s1 * t) * g2) * (b * d2)
    BY <1>7
  <2>2. (s1 * d2) * (t * g2 * b) = ((d1 * k) * s2) * (t * g2 * b)
    BY <1>7
  <2>3. (d1 * b) * (k * s2 * t * g2) = ((px * b - a) * d2) * (k * s2 * t * g2)
    BY <1>6
  <2> QED BY <1>5, <2>1, <2>2, <2>3
<1>9. x \in Int /\ y \in Int /\ c \in Int /\ c # 0
  BY <1>5, NonZeroProduct
<1>10. x = y
  <2> HIDE DEF x, y, c
  <2> QED BY <1>8, <1>9, Cancel
<1> QED BY <1>4, <1>10 DEF a, b, t1, t, g1, g2, i, d, s, g

AnyIn(s) == CHOOSE x \in s : TRUE
AnyOf(D) == [s \in SUBSET D |-> AnyIn(s)]

LEMMA AnyPicks ==
  ASSUME NEW D
  PROVE  /\ Picks(AnyOf(D), D)
         /\ \A s \in SUBSET D : s # {} => AnyOf(D)[s] = AnyIn(s) /\ AnyIn(s) \in s
BY DEF Picks, AnyOf, AnyIn

(* What the community modules' sum of a function and fold over a function  *)
(* compute: the recursive functions they are defined by exist.             *)
SumRecursion(g, D, f) ==
    g = [s \in SUBSET D |-> IF s = {} THEN 0 ELSE f[AnyIn(s)] + g[s \ {AnyIn(s)}]]

LEMMA SumUnfolds ==
  ASSUME NEW D, IsFiniteSet(D), NEW f \in [D -> Int]
  PROVE  \E g : SumFunction(f) = g[D] /\ SumRecursion(g, D, f)
<1> DEFINE F == [d \in D |-> [v \in Int |-> f[d] + v]]
           pick == AnyOf(D)
<1>1. Keeps(F, D, Int) /\ Picks(pick, D)
  BY AnyPicks DEF Keeps
<1>2. PICK g \in [SUBSET D -> Int] : Recurses(g, D, 0, pick, F)
  <2> HIDE DEF F, pick
  <2>1. 0 \in Int
    OBVIOUS
  <2> QED BY <1>1, <2>1, SubsetRecursion, Zenon
<1>3. ASSUME NEW s \in SUBSET D, s # {} PROVE g[s] = f[AnyIn(s)] + g[s \ {AnyIn(s)}]
  <2> HIDE DEF pick
  <2>1. pick[s] = AnyIn(s) /\ AnyIn(s) \in D /\ g[s \ {AnyIn(s)}] \in Int
    BY <1>3, AnyPicks DEF pick
  <2>2. g[s] = F[AnyIn(s)][g[s \ {AnyIn(s)}]]
    BY <1>2, <1>3, <2>1 DEF Recurses
  <2> QED BY <2>1, <2>2
<1>4. g[{}] = 0
  BY <1>2 DEF Recurses
<1>5. SumRecursion(g, D, f)
  BY <1>3, <1>4 DEF SumRecursion
<1>6. SumFunction(f) = (CHOOSE h : SumRecursion(h, D, f))[D]
  BY DEF SumFunction, SumFunctionOnSet, FoldFunctionOnSet, MapThenFoldSet, AnyIn,
         SumRecursion
<1> QED BY <1>5, <1>6

TotalRecursion(g, D, f) ==
    g = [s \in SUBSET D |-> IF s = {} THEN Zero ELSE Add(f[AnyIn(s)], g[s \ {AnyIn(s)}])]

LEMMA TotalUnfolds ==
  ASSUME NEW D, IsFiniteSet(D), NEW f \in [D -> Rat]
  PROVE  \E g : FoldFunction(Add, Zero, f) = g[D] /\ TotalRecursion(g, D, f)
<1> DEFINE F == [d \in D |-> [v \in Rat |-> Add(f[d], v)]]
           pick == AnyOf(D)
<1>1. Keeps(F, D, Rat) /\ Picks(pick, D)
  <2>1. \A r, s \in Rat : Add(r, s) \in Rat
    BY RationalsAreClosed
  <2> QED BY <2>1, AnyPicks DEF Keeps
<1>2. PICK g \in [SUBSET D -> Rat] : Recurses(g, D, Zero, pick, F)
  <2> HIDE DEF F, pick
  <2>1. Zero \in Rat
    BY DEF Zero, Rat
  <2> QED BY <1>1, <2>1, SubsetRecursion, Zenon
<1>3. ASSUME NEW s \in SUBSET D, s # {} PROVE g[s] = Add(f[AnyIn(s)], g[s \ {AnyIn(s)}])
  <2> HIDE DEF pick
  <2>1. pick[s] = AnyIn(s) /\ AnyIn(s) \in D /\ g[s \ {AnyIn(s)}] \in Rat
    BY <1>3, AnyPicks DEF pick
  <2>2. g[s] = F[AnyIn(s)][g[s \ {AnyIn(s)}]]
    BY <1>2, <1>3, <2>1 DEF Recurses
  <2> QED BY <2>1, <2>2
<1>4. g[{}] = Zero
  BY <1>2 DEF Recurses
<1>5. TotalRecursion(g, D, f)
  BY <1>3, <1>4 DEF TotalRecursion
<1>6. FoldFunction(Add, Zero, f) = (CHOOSE h : TotalRecursion(h, D, f))[D]
  BY DEF FoldFunction, FoldFunctionOnSet, MapThenFoldSet, AnyIn, TotalRecursion
<1> QED BY <1>5, <1>6

(* A whole number has denominator one. *)
LEMMA ReduceToInt ==
  ASSUME NEW n \in Int, NEW d \in Nat \ {0}
  PROVE  Reduce(<<n * d, d>>) = FromInt(n)
<1> DEFINE r == <<n * d, d>>
           S == Denominators(r)
<1>1. (n * d) % d = 0
  BY MultipleHasNoRemainder
<1>2. ((n * d) * 1) % d = 0
  BY <1>1
<1>3. 1 \in S
  BY <1>2 DEF Denominators
<1>4. S \in SUBSET Nat /\ \A m \in S : m >= 1
  BY DEF Denominators
<1> HIDE DEF S
<1>5. Min(S) \in S /\ Min(S) <= 1
  BY <1>3, <1>4, MinOfNats
<1>6. Min(S) = 1
  <2> DEFINE m == Min(S)
  <2>1. m \in Nat /\ m >= 1 /\ m <= 1
    BY <1>4, <1>5
  <2> HIDE DEF m
  <2>2. m = 1
    BY <2>1
  <2> QED BY <2>2 DEF m
<1>7. Reduce(r) = <<((n * d) * 1) \div d, 1>>
  BY <1>6 DEF Reduce, S
<1>8. ((n * d) * 1) \div d = n
  <2> DEFINE p == n * d
             q == p \div d
  <2>1. p \in Int
    OBVIOUS
  <2>2. p % d = 0
    BY <1>1
  <2>3. p = d * q + (p % d) /\ q \in Int
    <3> HIDE DEF p
    <3> QED BY <2>1
  <2>4. d * q = d * n
    BY <2>2, <2>3
  <2> HIDE DEF q
  <2>5. q = n
    BY <2>3, <2>4
  <2> QED BY <2>5 DEF q
<1> QED BY <1>7, <1>8 DEF FromInt

(* A sum whose value is a whole number is that number. *)
LEMMA WholeSum ==
  ASSUME NEW r \in Rat, NEW s \in Rat, NEW n \in Int,
         Add(r, s)[1] = n * Add(r, s)[2]
  PROVE  Add(r, s) = FromInt(n)
<1> DEFINE g == Add(r, s)
           x == r[1] * s[2] + s[1] * r[2]
           d == r[2] * s[2]
           e == g[2]
<1>1. x \in Int /\ d \in Nat \ {0}
  BY ProductOfPositives DEF Rat
<1>2. e \in Int /\ e # 0 /\ g[1] * d = x * e
  <2>1. g \in Rat
    BY RationalsAreClosed
  <2> QED BY <2>1, ValuesAreExact DEF Rat
<1>3. g = Reduce(<<x, d>>) /\ g[1] = n * e
  BY DEF Add
<1> HIDE DEF g, x, d, e
<1>4. x = n * d
  <2> DEFINE y == n * d
  <2>1. y \in Int /\ y * e = x * e
    BY <1>1, <1>2, <1>3
  <2> HIDE DEF y
  <2>2. y = x
    BY <1>1, <1>2, <2>1, Cancel
  <2> QED BY <2>2 DEF y
<1>5. g = FromInt(n)
  BY <1>1, <1>3, <1>4, ReduceToInt
<1> QED BY <1>5 DEF g

(* The total of whole amounts is the sum of the numbers. *)
LEMMA TotalOfInts ==
  ASSUME NEW D, IsFiniteSet(D), NEW f \in [D -> Int]
  PROVE  /\ SumFunction(f) \in Int
         /\ FoldFunction(Add, Zero, [d \in D |-> FromInt(f[d])]) = FromInt(SumFunction(f))
<1> DEFINE r == [d \in D |-> FromInt(f[d])]
           pick == AnyOf(D)
<1>1. r \in [D -> Rat]
  BY DEF FromInt, Rat
<1>2. PICK g : SumFunction(f) = g[D] /\ SumRecursion(g, D, f)
  BY SumUnfolds
<1>3. PICK h : FoldFunction(Add, Zero, r) = h[D] /\ TotalRecursion(h, D, r)
  BY <1>1, TotalUnfolds
<1> DEFINE G == {s \in SUBSET D : g[s] \in Int /\ h[s] = FromInt(g[s])}
<1>4. {} \in G
  <2>1. g[{}] = 0 /\ h[{}] = Zero
    BY <1>2, <1>3 DEF SumRecursion, TotalRecursion
  <2> QED BY <2>1 DEF Zero, FromInt
<1>5. ASSUME NEW s \in SUBSET D, s # {}, s \ {pick[s]} \in G PROVE s \in G
  <2> DEFINE x == AnyIn(s)
             t == s \ {x}
  <2>1. pick[s] = x /\ x \in D
    BY <1>5, AnyPicks
  <2>2. g[t] \in Int /\ h[t] = FromInt(g[t])
    BY <1>5, <2>1
  <2>3. g[s] = f[x] + g[t]
    BY <1>2, <1>5 DEF SumRecursion
  <2>4. h[s] = Add(FromInt(f[x]), FromInt(g[t]))
    BY <1>3, <1>5, <2>1, <2>2 DEF TotalRecursion
  <2> HIDE DEF t, x
  <2>5. f[x] \in Int /\ f[x] + g[t] \in Int
    BY <2>1, <2>2
  <2>6. Add(FromInt(f[x]), FromInt(g[t])) = Reduce(<<(f[x] + g[t]) * 1, 1>>)
    BY <2>2, <2>5 DEF Add, FromInt
  <2>7. h[s] = FromInt(f[x] + g[t])
    BY <2>4, <2>5, <2>6, ReduceToInt
  <2> QED BY <2>3, <2>5, <2>7
<1>6. Picks(pick, D) /\ Grows(G, D, pick)
  BY <1>4, <1>5, AnyPicks DEF Grows
<1>7. D \in G
  <2> HIDE DEF G, pick
  <2> QED BY <1>6, SubsetInduction, Zenon
<1> QED BY <1>2, <1>3, <1>7

LEMMA SumOfZeros ==
  ASSUME NEW D, IsFiniteSet(D)
  PROVE  SumFunction([d \in D |-> 0]) = 0
<1> DEFINE f == [d \in D |-> 0]
           pick == AnyOf(D)
<1>1. f \in [D -> Int]
  OBVIOUS
<1>2. PICK g : SumFunction(f) = g[D] /\ SumRecursion(g, D, f)
  BY <1>1, SumUnfolds
<1> DEFINE G == {s \in SUBSET D : g[s] = 0}
<1>3. {} \in G
  BY <1>2 DEF SumRecursion
<1>4. ASSUME NEW s \in SUBSET D, s # {}, s \ {pick[s]} \in G PROVE s \in G
  <2>1. pick[s] = AnyIn(s) /\ AnyIn(s) \in D
    BY <1>4, AnyPicks
  <2>2. g[s] = f[AnyIn(s)] + g[s \ {AnyIn(s)}]
    BY <1>2, <1>4 DEF SumRecursion
  <2> QED BY <1>4, <2>1, <2>2
<1>5. Picks(pick, D) /\ Grows(G, D, pick)
  BY <1>3, <1>4, AnyPicks DEF Grows
<1>6. D \in G
  <2> HIDE DEF G, pick
  <2> QED BY <1>5, SubsetInduction, Zenon
<1> QED BY <1>2, <1>6

-----------------------------------------------------------------------------

LEMMA RiskNewType == RiskNew \in Risk
BY DEF RiskNew, Risk, Position, Rat, Zero

(* refresh_kill touches nothing but the switch, which it sets exactly when *)
(* the total PnL is at or past the limit, and never releases.              *)
LEMMA RefreshKillFacts ==
  ASSUME NEW risk \in Risk
  PROVE  /\ RefreshKill(risk) \in Risk
         /\ RefreshKill(risk).positions = risk.positions
         /\ RefreshKill(risk).killed
               <=> \/ risk.killed
                   \/ Leq(TotalPnl(RefreshKill(risk)), FromInt(-DailyLossLimit))
<1>1. RefreshKill(risk).positions = risk.positions
  BY DEF RefreshKill, Risk
<1>2. TotalPnl(RefreshKill(risk)) = TotalPnl(risk)
  BY <1>1 DEF TotalPnl
<1> QED BY <1>1, <1>2 DEF RefreshKill, Risk, Leq

(* Marking moves no position and no average, and realizes nothing. *)
LEMMA MarkFacts ==
  ASSUME NEW risk \in Risk, NEW i \in Instruments, NEW mid \in Int
  PROVE  /\ Mark(risk, i, mid) \in Risk
         /\ \A j \in Instruments :
               /\ Mark(risk, i, mid).positions[j].net = risk.positions[j].net
               /\ Mark(risk, i, mid).positions[j].avg_px = risk.positions[j].avg_px
               /\ Mark(risk, i, mid).positions[j].realized = risk.positions[j].realized
         /\ Mark(risk, i, mid).positions[i].mark = mid
         /\ \A j \in Instruments \ {i} :
               Mark(risk, i, mid).positions[j] = risk.positions[j]
         /\ Mark(risk, i, mid).killed
               <=> \/ risk.killed
                   \/ Leq(TotalPnl(Mark(risk, i, mid)), FromInt(-DailyLossLimit))
<1> DEFINE marked == [risk EXCEPT !.positions[i].mark = mid]
<1>1. risk.positions[i] \in Position
  BY DEF Risk
<1>2. [risk.positions[i] EXCEPT !.mark = mid] \in Position
  BY <1>1 DEF Position
<1>3. marked.positions = [risk.positions EXCEPT ![i] = [@ EXCEPT !.mark = mid]]
  BY DEF Risk
<1>4. marked \in Risk
  BY <1>2 DEF Risk
<1>5. /\ \A j \in Instruments :
            /\ marked.positions[j].net = risk.positions[j].net
            /\ marked.positions[j].avg_px = risk.positions[j].avg_px
            /\ marked.positions[j].realized = risk.positions[j].realized
      /\ marked.positions[i].mark = mid
      /\ \A j \in Instruments \ {i} : marked.positions[j] = risk.positions[j]
  BY <1>1, <1>3 DEF Risk, Position
<1>6. marked.killed = risk.killed
  BY DEF Risk
<1>7. Mark(risk, i, mid) = RefreshKill(marked)
  BY DEF Mark
<1> HIDE DEF marked
<1> QED BY <1>4, <1>5, <1>6, <1>7, RefreshKillFacts

(* A fill keeps a position well formed and moves its net by the signed     *)
(* quantity, whichever branch of the accounting it takes.                  *)
LEMMA ApplyFillFacts ==
  ASSUME NEW p \in Position, NEW side \in OrderSides, NEW qty \in Nat \ {0},
         NEW fill_px \in Int, NEW mult \in Nat \ {0}
  PROVE  /\ ApplyFill(p, side, qty, fill_px, mult) \in Position
         /\ ApplyFill(p, side, qty, fill_px, mult).net = p.net + Sign(side) * qty
         /\ ApplyFill(p, side, qty, fill_px, mult).mark = p.mark
<1> DEFINE new_net == p.net + Sign(side) * qty
<1>1. /\ p.net \in Int /\ p.avg_px \in Rat /\ p.realized \in Rat /\ p.mark \in Int
      /\ p.net = 0 => p.avg_px = Zero
  BY DEF Position
<1>2. new_net \in Int
  BY <1>1 DEF Sign
<1>3. /\ Extend(p, qty, new_net, fill_px) \in Position
      /\ Extend(p, qty, new_net, fill_px).net = new_net
      /\ Extend(p, qty, new_net, fill_px).mark = p.mark
  <2> DEFINE avg == IF new_net = 0 THEN Zero
                    ELSE Quotient(Add(Scale(p.avg_px, Abs(p.net)),
                                      FromInt(fill_px * qty)),
                                  Abs(new_net))
  <2>1. ASSUME new_net # 0 PROVE avg \in Rat
    <3>1. Abs(p.net) \in Int /\ Abs(new_net) \in Int /\ Abs(new_net) > 0
      BY <1>1, <1>2, <2>1 DEF Abs
    <3>2. Scale(p.avg_px, Abs(p.net)) \in Rat /\ FromInt(fill_px * qty) \in Rat
      <4>1. fill_px * qty \in Int
        OBVIOUS
      <4>2. FromInt(fill_px * qty) \in Rat
        BY <4>1 DEF FromInt, Rat
      <4> QED BY <1>1, <3>1, <4>2, RationalsAreClosed
    <3>3. Add(Scale(p.avg_px, Abs(p.net)), FromInt(fill_px * qty)) \in Rat
      BY <3>2, RationalsAreClosed
    <3> QED BY <2>1, <3>1, <3>3, RationalsAreClosed
  <2>2. avg \in Rat /\ (new_net = 0 => avg = Zero)
    BY <2>1, RationalsAreClosed, <1>1
  <2>3. Extend(p, qty, new_net, fill_px) = [p EXCEPT !.net = new_net, !.avg_px = avg]
    BY <1>1 DEF Extend, Position
  <2> HIDE DEF avg, new_net
  <2> QED BY <1>2, <2>2, <2>3 DEF Position
<1>4. ASSUME p.net # 0
      PROVE  /\ Offset(p, qty, new_net, fill_px, mult) \in Position
             /\ Offset(p, qty, new_net, fill_px, mult).net = new_net
             /\ Offset(p, qty, new_net, fill_px, mult).mark = p.mark
  <2> DEFINE closed == Min({qty, Abs(p.net)})
             dir == IF p.net > 0 THEN 1 ELSE -1
             gain == Scale(Sub(FromInt(fill_px), p.avg_px), closed * dir * mult)
             avg == IF qty > Abs(p.net) THEN FromInt(fill_px)
                    ELSE IF new_net = 0 THEN Zero ELSE p.avg_px
  <2>1. closed * dir * mult \in Int
    <3>1. {qty, Abs(p.net)} \in SUBSET Nat
      BY <1>1 DEF Abs
    <3>2. closed \in Nat
      BY <3>1, MinOfNats
    <3> HIDE DEF closed
    <3>3. closed * dir \in Int
      BY <3>2
    <3> QED BY <3>3
  <2>2. gain \in Rat
    <3>1. Sub(FromInt(fill_px), p.avg_px) \in Rat
      BY <1>1, RationalsAreClosed
    <3> QED BY <2>1, <3>1, RationalsAreClosed
  <2>3. Add(p.realized, gain) \in Rat
    BY <1>1, <2>2, RationalsAreClosed
  <2>4. avg \in Rat /\ (new_net = 0 => avg = Zero)
    <3>1. avg \in Rat
      BY <1>1, RationalsAreClosed
    <3>2. ASSUME new_net = 0 PROVE ~ (qty > Abs(p.net))
      BY <1>1, <3>2 DEF Abs, Sign
    <3> QED BY <3>1, <3>2
  <2>5. Offset(p, qty, new_net, fill_px, mult)
          = [p EXCEPT !.net = new_net, !.realized = Add(p.realized, gain), !.avg_px = avg]
    BY <1>1 DEF Offset, Position
  <2> HIDE DEF avg, gain, new_net
  <2> QED BY <1>1, <1>2, <2>3, <2>4, <2>5 DEF Position
<1>5. ApplyFill(p, side, qty, fill_px, mult)
        = IF p.net = 0 \/ (p.net > 0) = (side = Buy)
          THEN Extend(p, qty, new_net, fill_px)
          ELSE Offset(p, qty, new_net, fill_px, mult)
  BY DEF ApplyFill
<1> HIDE DEF new_net
<1>6. CASE p.net = 0 \/ (p.net > 0) = (side = Buy)
  BY <1>3, <1>5, <1>6 DEF new_net
<1>7. CASE ~ (p.net = 0 \/ (p.net > 0) = (side = Buy))
  BY <1>4, <1>5, <1>7 DEF new_net
<1> QED BY <1>6, <1>7

(* The books of one instrument balance with the cash its fills exchanged:  *)
(* realized = cash * mult + avg_px * net * mult, over common denominators. *)
Balanced(p, mult, c) ==
    p.realized[1] * p.avg_px[2]
      = (c * mult) * (p.realized[2] * p.avg_px[2])
        + ((p.avg_px[1] * p.net) * mult) * p.realized[2]


LEMMA ExtendBalances ==
  ASSUME NEW p \in Position, NEW side \in OrderSides, NEW qty \in Nat \ {0},
         NEW fill_px \in Int, NEW mult \in Nat \ {0}, NEW cash \in Int,
         Balanced(p, mult, cash),
         p.net = 0 \/ (p.net > 0) = (side = Buy)
  PROVE  Balanced(Extend(p, qty, p.net + Sign(side) * qty, fill_px), mult,
                  cash - Sign(side) * qty * fill_px)
<1> DEFINE n == p.net
           sq == Sign(side) * qty
           nn == n + sq
           m == Abs(n)
           m2 == Abs(nn)
           i == fill_px * qty
           k == sq * fill_px
           w == Quotient(Add(Scale(p.avg_px, m), FromInt(i)), m2)
           a == p.avg_px[1]
           b == p.avg_px[2]
           t1 == p.realized[1]
           t == p.realized[2]
           w1 == w[1]
           w2 == w[2]
<1>1. /\ n \in Int /\ p.avg_px \in Rat /\ a \in Int /\ b \in Int /\ b # 0
      /\ t1 \in Int /\ t \in Int
  BY DEF Position, Rat
<1>2. sq \in Int /\ nn \in Int /\ nn # 0 /\ i \in Int /\ m \in Int /\ m2 \in Nat \ {0}
  <2>1. sq \in Int /\ nn \in Int /\ nn # 0
    BY <1>1 DEF Sign, OrderSides, Buy, Sell
  <2>2. m \in Int /\ m2 \in Nat \ {0}
    <3> HIDE DEF nn, n
    <3> QED BY <1>1, <2>1 DEF Abs
  <2>3. i \in Int
    OBVIOUS
  <2> QED BY <2>1, <2>2, <2>3
<1>3. k \in Int
  <2> HIDE DEF sq
  <2> QED BY <1>2
<1>4. w \in Rat /\ (w1 * m2) * b = (a * m + i * b) * w2
  <2> DEFINE r == p.avg_px
  <2>1. r \in Rat
    BY <1>1
  <2> HIDE DEF m, m2, i, n, nn, sq
  <2>2. w \in Rat /\ (w[1] * m2) * r[2] = (r[1] * m + i * r[2]) * w[2]
    BY <1>2, <2>1, AverageIsExact
  <2> QED BY <2>2
<1>5. Extend(p, qty, nn, fill_px) = [p EXCEPT !.net = nn, !.avg_px = w]
  BY <1>2 DEF Extend, Position
<1> HIDE DEF w
<1>6. w1 \in Int /\ w2 \in Int
  BY <1>4 DEF Rat
<1>7. t1 * b = (cash * mult) * (t * b) + ((a * n) * mult) * t
  BY DEF Balanced
<1>8. \/ sq = qty /\ m = n /\ m2 = nn /\ k = i
      \/ sq = -qty /\ m = -n /\ m2 = -nn /\ k = -i
  <2>1. CASE side = Buy
    <3>1. sq = qty
      BY <2>1 DEF Sign
    <3>2. m = n /\ m2 = nn
      BY <1>1, <2>1, <3>1 DEF Abs
    <3> HIDE DEF sq
    <3> QED BY <3>1, <3>2
  <2>2. CASE side = Sell
    <3>1. sq = -qty
      BY <2>2 DEF Sign, Buy, Sell
    <3>2. m = -n /\ m2 = -nn
      BY <1>1, <2>2, <3>1 DEF Abs, Buy, Sell
    <3> HIDE DEF sq
    <3> QED BY <3>1, <3>2
  <2> QED BY <2>1, <2>2 DEF OrderSides
<1> HIDE DEF a, b, t1, t, w1, w2, k, i, m, m2, n, sq, nn
<1>9. (w1 * nn) * b = (a * n + k * b) * w2
  BY <1>1, <1>2, <1>3, <1>4, <1>6, <1>8
<1> DEFINE x == t1 * w2
           y == ((cash - k) * mult) * (t * w2) + ((w1 * nn) * mult) * t
<1>10. x * b = y * b
  <2>1. (t1 * b) * w2 = ((cash * mult) * (t * b) + ((a * n) * mult) * t) * w2
    BY <1>7
  <2>2. ((w1 * nn) * b) * (mult * t) = ((a * n + k * b) * w2) * (mult * t)
    BY <1>9
  <2> QED BY <1>1, <1>2, <1>3, <1>6, <2>1, <2>2
<1>11. x = y
  <2>1. x \in Int /\ y \in Int
    BY <1>1, <1>2, <1>3, <1>6
  <2> HIDE DEF x, y
  <2> QED BY <1>1, <1>10, <2>1, Cancel
<1> DEFINE q == Extend(p, qty, nn, fill_px)
<1>12. q.net = nn /\ q.avg_px = w /\ q.realized = p.realized
  BY <1>5 DEF Position
<1> QED BY <1>11, <1>12 DEF Balanced, t1, t, w1, w2, k, sq, nn, n

LEMMA OffsetBalances ==
  ASSUME NEW p \in Position, NEW side \in OrderSides, NEW qty \in Nat \ {0},
         NEW fill_px \in Int, NEW mult \in Nat \ {0}, NEW cash \in Int,
         Balanced(p, mult, cash),
         ~ (p.net = 0 \/ (p.net > 0) = (side = Buy))
  PROVE  Balanced(Offset(p, qty, p.net + Sign(side) * qty, fill_px, mult), mult,
                  cash - Sign(side) * qty * fill_px)
<1> DEFINE n == p.net
           sq == Sign(side) * qty
           nn == n + sq
           k == sq * fill_px
           closed == Min({qty, Abs(n)})
           j == closed * (IF n > 0 THEN 1 ELSE -1)
           g == Add(p.realized, Scale(Sub(FromInt(fill_px), p.avg_px), j * mult))
           avg == IF qty > Abs(n) THEN FromInt(fill_px)
                  ELSE IF nn = 0 THEN Zero ELSE p.avg_px
           q == Offset(p, qty, nn, fill_px, mult)
           a == p.avg_px[1]
           b == p.avg_px[2]
           t1 == p.realized[1]
           t == p.realized[2]
           g1 == g[1]
           g2 == g[2]
<1>1. /\ n \in Int /\ p.avg_px \in Rat /\ p.realized \in Rat
      /\ a \in Int /\ b \in Int /\ b # 0 /\ t1 \in Int /\ t \in Int /\ t # 0
  BY DEF Position, Rat
<1>2. sq \in Int /\ nn \in Int
  BY <1>1 DEF Sign
<1>3. k \in Int
  <2> HIDE DEF sq
  <2> QED BY <1>2
<1>4. closed = IF qty > Abs(n) THEN Abs(n) ELSE qty
  <2>1. Abs(n) \in Nat /\ {qty, Abs(n)} \in SUBSET Nat
    BY <1>1 DEF Abs
  <2>2. closed \in {qty, Abs(n)} /\ \A y \in {qty, Abs(n)} : closed <= y
    BY <2>1, MinOfNats
  <2> HIDE DEF closed, n
  <2> QED BY <2>1, <2>2
<1>5. IF qty > Abs(n) THEN j = n ELSE j = -sq
  BY <1>1, <1>4 DEF Abs, Sign, OrderSides, Buy, Sell
<1>6. j \in Int
  <2> HIDE DEF j, sq, n
  <2> QED BY <1>1, <1>2, <1>5
<1>7. q = [p EXCEPT !.net = nn, !.realized = g, !.avg_px = avg]
  BY DEF Offset, Position
<1> HIDE DEF j
<1>8. g \in Rat /\ g1 * (t * b) = (t1 * b + ((fill_px * b - a) * (j * mult)) * t) * g2
  <2>1. j * mult \in Int
    BY <1>6
  <2> DEFINE r == p.realized
             v == p.avg_px
             h == j * mult
  <2>2. r \in Rat /\ v \in Rat
    BY <1>1
  <2> DEFINE gain == Add(r, Scale(Sub(FromInt(fill_px), v), h))
  <2> HIDE DEF r, v, h
  <2>3. /\ gain \in Rat
        /\ gain[1] * (r[2] * v[2])
             = (r[1] * v[2] + ((fill_px * v[2] - v[1]) * h) * r[2]) * gain[2]
    <3>1. h \in Int /\ r \in Rat /\ v \in Rat
      BY <2>1, <2>2 DEF h
    <3> QED BY <3>1, GainIsExact
  <2>4. gain = g
    BY Zenon DEF h, r, v
  <2> HIDE DEF gain, g
  <2> QED BY <2>3, <2>4, Zenon DEF h, r, v
<1> HIDE DEF g
<1>9. g1 \in Int /\ g2 \in Int
  BY <1>8 DEF Rat
<1>10. q.net = nn /\ q.avg_px = avg /\ q.realized = g
  <2> HIDE DEF avg, nn, q
  <2> QED BY <1>7 DEF Position
<1>11. t1 * b = (cash * mult) * (t * b) + ((a * n) * mult) * t
  BY DEF Balanced
<1>12. CASE qty > Abs(n) \/ nn = 0
  <2> DEFINE x == g1
             y == ((cash - k) * mult) * g2 + ((fill_px * nn) * mult) * g2
             d == t * b
  <2>1. j = n
    BY <1>1, <1>2, <1>5, <1>12
  <2>2. n = nn - sq
    BY <1>1, <1>2
  <2>3. x * d = y * d
    <3> HIDE DEF a, b, t1, t, g1, g2, n, nn, sq
    <3>1. g1 * (t * b) = (((cash * mult) * (t * b) + ((a * n) * mult) * t)
                           + ((fill_px * b - a) * (n * mult)) * t) * g2
      BY <1>8, <1>11, <2>1
    <3>2. g1 * (t * b) = ((cash * mult) * (t * b)
                           + ((fill_px * b) * (n * mult)) * t) * g2
      BY <1>1, <1>9, <3>1
    <3>3. fill_px * n = fill_px * nn - k
      BY <1>1, <1>2, <2>2 DEF k
    <3>4. ((fill_px * b) * (n * mult)) * t = ((fill_px * n) * mult) * (t * b)
      BY <1>1
    <3> HIDE DEF k
    <3>5. g1 * (t * b) = ((cash * mult) * (t * b)
                           + ((fill_px * nn - k) * mult) * (t * b)) * g2
      BY <3>2, <3>3, <3>4
    <3> QED BY <1>1, <1>2, <1>3, <1>9, <3>5
  <2>4. x \in Int /\ y \in Int /\ d \in Int /\ d # 0
    <3>1. x \in Int /\ y \in Int
      <4> HIDE DEF g1, g2, k, nn
      <4> QED BY <1>2, <1>3, <1>9
    <3> QED BY <1>1, <3>1, NonZeroProduct
  <2>5. x = y
    <3> HIDE DEF x, y, d
    <3> QED BY <2>3, <2>4, Cancel
  <2>6. avg[2] = 1 /\ avg[1] * nn = fill_px * nn
    <3>1. CASE qty > Abs(n)
      BY <3>1 DEF FromInt
    <3>2. CASE ~ (qty > Abs(n)) /\ nn = 0
      BY <3>2 DEF Zero
    <3> QED BY <1>12, <3>1, <3>2
  <2> HIDE DEF avg, nn, k, g1, g2
  <2>7. g1 * avg[2] = ((cash - k) * mult) * (g2 * avg[2]) + ((avg[1] * nn) * mult) * g2
    BY <1>9, <2>5, <2>6
  <2> QED BY <1>10, <2>7 DEF Balanced, g1, g2, k, nn, n, sq
<1>13. CASE ~ (qty > Abs(n)) /\ nn # 0
  <2> DEFINE x == g1 * b
             y == ((cash - k) * mult) * (g2 * b) + ((a * nn) * mult) * g2
  <2>1. avg = p.avg_px
    BY <1>13
  <2>2. j = -sq
    BY <1>5, <1>13
  <2>3. x * t = y * t
    <3>1. k = -(j * fill_px) /\ nn = n - j
      <4> HIDE DEF sq, n
      <4> QED BY <1>1, <1>2, <2>2
    <3> HIDE DEF a, b, t1, t, g1, g2, n, nn, sq, k
    <3>2. g1 * (t * b) = (((cash * mult) * (t * b) + ((a * n) * mult) * t)
                           + ((fill_px * b - a) * (j * mult)) * t) * g2
      BY <1>8, <1>11
    <3> QED BY <1>1, <1>6, <1>9, <3>1, <3>2
  <2>4. x = y
    <3>1. x \in Int /\ y \in Int
      <4> HIDE DEF a, b, g1, g2, k, nn
      <4> QED BY <1>1, <1>2, <1>3, <1>9
    <3> HIDE DEF x, y, t
    <3> QED BY <1>1, <2>3, <3>1, Cancel
  <2> HIDE DEF avg
  <2> QED BY <1>10, <2>1, <2>4 DEF Balanced
<1> QED BY <1>12, <1>13

(* A fill leaves the books balanced against the cash it exchanged: the     *)
(* average of an addition is exact, and a reduction, a close or a flip     *)
(* realizes what the closed part earned.                                   *)
LEMMA ApplyFillBalances ==
  ASSUME NEW p \in Position, NEW side \in OrderSides, NEW qty \in Nat \ {0},
         NEW fill_px \in Int, NEW mult \in Nat \ {0}, NEW cash \in Int,
         Balanced(p, mult, cash)
  PROVE  Balanced(ApplyFill(p, side, qty, fill_px, mult), mult,
                  cash - Sign(side) * qty * fill_px)
BY ExtendBalances, OffsetBalances DEF ApplyFill

(* In balanced books, realized PnL less the cost of the position is the    *)
(* cash, and what marking the position to market makes of it is the cash   *)
(* plus the position at its mark.                                          *)
LEMMA BalancedValues ==
  ASSUME NEW p \in Position, NEW mult \in Nat \ {0}, NEW cash \in Int,
         Balanced(p, mult, cash)
  PROVE  /\ Sub(p.realized, Scale(p.avg_px, p.net * mult)) = FromInt(cash * mult)
         /\ Pnl(p, mult) = FromInt((cash + p.net * p.mark) * mult)
<1> DEFINE n == p.net
           mark == p.mark
           k == n * mult
           r == p.realized
           v == p.avg_px
           a == v[1]
           b == v[2]
           t1 == r[1]
           t == r[2]
<1>1. /\ n \in Int /\ mark \in Int /\ v \in Rat /\ r \in Rat
      /\ a \in Int /\ b \in Int /\ b # 0 /\ t1 \in Int /\ t \in Int /\ t # 0
  BY DEF Position, Rat
<1>2. t1 * b = (cash * mult) * (t * b) + ((a * n) * mult) * t
  BY DEF Balanced
<1>3. k \in Int
  <2> HIDE DEF n
  <2> QED BY <1>1
<1>4. Sub(r, Scale(v, k)) = FromInt(cash * mult)
  <2> DEFINE s == Scale(v, k)
             s1 == s[1]
             s2 == s[2]
             g == Sub(r, s)
             g1 == g[1]
             g2 == g[2]
             c == cash * mult
             x == g1
             y == c * g2
             d == (t * s2) * b
  <2>1. s \in Rat /\ s1 * b = (a * k) * s2
    <3> HIDE DEF k
    <3> QED BY <1>1, <1>3, RationalsAreClosed, ValuesAreExact
  <2> HIDE DEF s
  <2>2. g \in Rat /\ g1 * (t * s2) = (t1 * s2 - s1 * t) * g2
    BY <1>1, <2>1, RationalsAreClosed, ValuesAreExact
  <2>3. g = Add(r, Neg(s)) /\ Neg(s) \in Rat
    BY <2>1 DEF Sub, Neg, Rat
  <2> HIDE DEF g
  <2>4. s1 \in Int /\ s2 \in Int /\ s2 # 0 /\ g1 \in Int /\ g2 \in Int
    BY <2>1, <2>2 DEF Rat
  <2> HIDE DEF s1, s2, g1, g2, a, b, t1, t, n
  <2>5. x * d = y * d
    <3>1. (g1 * (t * s2)) * b = ((t1 * b) * s2 - (s1 * b) * t) * g2
      BY <1>1, <2>2, <2>4
    <3>2. (s1 * b) * t = ((a * n) * mult) * t * s2
      BY <1>1, <2>1, <2>4
    <3>3. (t1 * b) * s2 = ((cash * mult) * (t * b)) * s2 + ((a * n) * mult) * t * s2
      BY <1>1, <1>2, <2>4
    <3> QED BY <1>1, <2>4, <3>1, <3>2, <3>3
  <2>6. x \in Int /\ y \in Int /\ d \in Int /\ d # 0
    BY <1>1, <2>4, NonZeroProduct
  <2>7. x = y
    <3> HIDE DEF x, y, d
    <3> QED BY <2>5, <2>6, Cancel
  <2>8. g1 = c * g2 /\ c \in Int
    BY <2>7
  <2> HIDE DEF c
  <2> QED BY <1>1, <2>3, <2>8, WholeSum DEF g, c, g1, g2, s
<1>5. Pnl(p, mult) = FromInt((cash + n * mark) * mult)
  <2> DEFINE s == Scale(Sub(FromInt(mark), v), k)
             g == Add(r, s)
             g1 == g[1]
             g2 == g[2]
             c == (cash + n * mark) * mult
             x == g1
             y == c * g2
             d == t * b
  <2>1. g \in Rat /\ g1 * (t * b) = (t1 * b + ((mark * b - a) * k) * t) * g2
    <3>0. r \in Rat /\ v \in Rat /\ mark \in Int
      BY <1>1
    <3> HIDE DEF k, mark, r, v
    <3>1. /\ g \in Rat
          /\ g[1] * (r[2] * v[2]) = (r[1] * v[2] + ((mark * v[2] - v[1]) * k) * r[2]) * g[2]
      BY <1>3, <3>0, GainIsExact
    <3> QED BY <3>1 DEF r, v
  <2>2. s \in Rat
    <3>1. Sub(FromInt(mark), v) \in Rat
      BY <1>1, RationalsAreClosed
    <3> HIDE DEF k
    <3> QED BY <1>3, <3>1, RationalsAreClosed
  <2>3. Pnl(p, mult) = g
    BY DEF Pnl, Unrealized
  <2> HIDE DEF g, s
  <2>4. g1 \in Int /\ g2 \in Int
    BY <2>1 DEF Rat
  <2> HIDE DEF g1, g2, a, b, t1, t, n, mark
  <2>5. x \in Int /\ y \in Int /\ c \in Int /\ d \in Int /\ d # 0
    BY <1>1, <2>4, NonZeroProduct
  <2>6. x * d = y * d
    <3>1. g1 * (t * b) = (((cash * mult) * (t * b) + ((a * n) * mult) * t)
                          + ((mark * b - a) * (n * mult)) * t) * g2
      BY <1>2, <2>1
    <3>2. ((a * n) * mult) * t + ((mark * b - a) * (n * mult)) * t
            = ((n * mark) * mult) * (t * b)
      BY <1>1
    <3>3. (cash * mult) * (t * b) + ((n * mark) * mult) * (t * b) = c * (t * b)
      BY <1>1
    <3> HIDE DEF c
    <3>4. g1 * (t * b) = (c * (t * b)) * g2
      <4> DEFINE u == (cash * mult) * (t * b)
                 v1 == ((a * n) * mult) * t
                 v2 == ((mark * b - a) * (n * mult)) * t
                 w == ((n * mark) * mult) * (t * b)
      <4>1. u \in Int /\ v1 \in Int /\ v2 \in Int /\ w \in Int
        BY <1>1
      <4>2. g1 * (t * b) = ((u + v1) + v2) * g2 /\ v1 + v2 = w /\ u + w = c * (t * b)
        BY <3>1, <3>2, <3>3
      <4> HIDE DEF u, v1, v2, w
      <4>3. (u + v1) + v2 = u + w
        BY <4>1, <4>2
      <4> QED BY <4>2, <4>3
    <3> QED BY <1>1, <2>4, <2>5, <3>4
  <2>7. x = y
    <3> HIDE DEF x, y, d
    <3> QED BY <2>5, <2>6, Cancel
  <2>8. g1 = c * g2 /\ c \in Int
    BY <2>5, <2>7
  <2>9. g = FromInt(c)
    <3> HIDE DEF c
    <3> QED BY <1>1, <2>2, <2>8, WholeSum DEF g, g1, g2
  <2> QED BY <2>3, <2>9
<1> QED BY <1>4, <1>5

(* A fill moves the net of its own instrument and nothing else. *)
LEMMA OnFillFacts ==
  ASSUME NEW risk \in Risk, NEW i \in Instruments, NEW side \in OrderSides,
         NEW qty \in Nat \ {0}, NEW fill_px_raw \in Int
  PROVE  /\ OnFill(risk, i, side, qty, fill_px_raw) \in Risk
         /\ OnFill(risk, i, side, qty, fill_px_raw).positions[i]
              = ApplyFill(risk.positions[i], side, qty, HalfUnits(fill_px_raw), Multiplier[i])
         /\ OnFill(risk, i, side, qty, fill_px_raw).positions[i].net
              = risk.positions[i].net + Sign(side) * qty
         /\ OnFill(risk, i, side, qty, fill_px_raw).positions[i].mark
              = risk.positions[i].mark
         /\ \A j \in Instruments \ {i} :
               OnFill(risk, i, side, qty, fill_px_raw).positions[j] = risk.positions[j]
         /\ OnFill(risk, i, side, qty, fill_px_raw).killed
               <=> \/ risk.killed
                   \/ Leq(TotalPnl(OnFill(risk, i, side, qty, fill_px_raw)),
                          FromInt(-DailyLossLimit))
<1> DEFINE q == ApplyFill(risk.positions[i], side, qty, HalfUnits(fill_px_raw),
                          Multiplier[i])
           filled == [risk EXCEPT !.positions[i] = q]
<1>1. risk.positions[i] \in Position
  BY DEF Risk
<1>2. HalfUnits(fill_px_raw) \in Int /\ Multiplier[i] \in Nat \ {0}
  BY RiskConfigAssumption DEF HalfUnits
<1>3. /\ q \in Position
      /\ q.net = risk.positions[i].net + Sign(side) * qty
      /\ q.mark = risk.positions[i].mark
  <2> DEFINE held == risk.positions[i]
             u == HalfUnits(fill_px_raw)
             mult == Multiplier[i]
             new == ApplyFill(held, side, qty, u, mult)
  <2>1. held \in Position /\ u \in Int /\ mult \in Nat \ {0}
    BY <1>1, <1>2
  <2>2. q = new
    OBVIOUS
  <2> HIDE DEF q, held, u, mult
  <2>3. new \in Position /\ new.net = held.net + Sign(side) * qty /\ new.mark = held.mark
    BY <2>1, ApplyFillFacts
  <2> HIDE DEF new
  <2> QED BY <2>2, <2>3 DEF held
<1>4. OnFill(risk, i, side, qty, fill_px_raw) = RefreshKill(filled)
  BY DEF OnFill
<1> HIDE DEF q
<1>5. /\ filled \in Risk
      /\ filled.killed = risk.killed
      /\ filled.positions = [risk.positions EXCEPT ![i] = q]
  BY <1>3 DEF Risk
<1> HIDE DEF filled
<1>6. /\ RefreshKill(filled) \in Risk
      /\ RefreshKill(filled).positions = filled.positions
      /\ RefreshKill(filled).killed
            <=> \/ filled.killed
                \/ Leq(TotalPnl(RefreshKill(filled)), FromInt(-DailyLossLimit))
  BY <1>5, RefreshKillFacts
<1>7. risk.positions \in [Instruments -> Position]
  BY DEF Risk
<1>8. filled.positions[i] = q /\ \A j \in Instruments \ {i} : filled.positions[j] = risk.positions[j]
  BY <1>5, <1>7
<1> QED BY <1>3, <1>4, <1>5, <1>6, <1>8 DEF q

(* new is old after a fill: one position has it, the others are as before. *)
AfterFill(new, old, i, side, qty, px) ==
    /\ new.positions[i]
          = ApplyFill(old.positions[i], side, qty, HalfUnits(px), Multiplier[i])
    /\ \A j \in Instruments \ {i} : new.positions[j] = old.positions[j]

LEMMA OnFillFills ==
  ASSUME NEW risk \in Risk, NEW i \in Instruments, NEW side \in OrderSides,
         NEW qty \in Nat \ {0}, NEW px \in Int
  PROVE  AfterFill(OnFill(risk, i, side, qty, px), risk, i, side, qty, px)
<1> DEFINE q == ApplyFill(risk.positions[i], side, qty, HalfUnits(px), Multiplier[i])
           filled == [risk EXCEPT !.positions[i] = q]
           new == OnFill(risk, i, side, qty, px)
<1>1. new = RefreshKill(filled)
  BY DEF OnFill
<1> HIDE DEF q, new
<1>2. filled.positions = [risk.positions EXCEPT ![i] = q] /\ filled = [filled EXCEPT !.killed = @]
  BY DEF Risk
<1> HIDE DEF filled
<1>3. new.positions = filled.positions
  BY <1>1, <1>2 DEF RefreshKill
<1>4. risk.positions \in [Instruments -> Position]
  BY DEF Risk
<1>5. new.positions[i] = q /\ \A j \in Instruments \ {i} : new.positions[j] = risk.positions[j]
  BY <1>2, <1>3, <1>4
<1>6. AfterFill(new, risk, i, side, qty, px)
  BY <1>5 DEF AfterFill, q
<1> QED BY <1>6 DEF new

(* With every instrument's books in balance, the total PnL is what closing *)
(* every position at its mark would leave of the cash.                     *)
LEMMA TotalPnlIsExact ==
  ASSUME NEW risk \in Risk, NEW cash \in [Instruments -> Int],
         \A i \in Instruments : Balanced(risk.positions[i], Multiplier[i], cash[i])
  PROVE  LET value == [i \in Instruments |->
                 (cash[i] + risk.positions[i].net * risk.positions[i].mark) * Multiplier[i]]
         IN  /\ SumFunction(value) \in Int
             /\ TotalPnl(risk) = FromInt(SumFunction(value))
             /\ Leq(TotalPnl(risk), FromInt(-DailyLossLimit))
                  <=> SumFunction(value) <= -DailyLossLimit
<1> DEFINE value == [i \in Instruments |->
             (cash[i] + risk.positions[i].net * risk.positions[i].mark) * Multiplier[i]]
<1>1. ASSUME NEW i \in Instruments
      PROVE  /\ value[i] \in Int
             /\ Pnl(risk.positions[i], Multiplier[i]) = FromInt(value[i])
  <2>1. risk.positions[i] \in Position /\ Multiplier[i] \in Nat \ {0} /\ cash[i] \in Int
    BY RiskConfigAssumption DEF Risk
  <2>2. Pnl(risk.positions[i], Multiplier[i])
          = FromInt((cash[i] + risk.positions[i].net * risk.positions[i].mark) * Multiplier[i])
    BY <2>1, BalancedValues
  <2>3. risk.positions[i].net \in Int /\ risk.positions[i].mark \in Int
    BY <2>1 DEF Position
  <2> QED BY <2>1, <2>2, <2>3
<1>2. value \in [Instruments -> Int]
  BY <1>1
<1>3. TotalPnl(risk) = FoldFunction(Add, Zero, [i \in Instruments |-> FromInt(value[i])])
  <2>1. [i \in Instruments |-> Pnl(risk.positions[i], Multiplier[i])]
          = [i \in Instruments |-> FromInt(value[i])]
    BY <1>1
  <2> QED BY <2>1 DEF TotalPnl
<1> HIDE DEF value
<1>4. SumFunction(value) \in Int /\ TotalPnl(risk) = FromInt(SumFunction(value))
  BY <1>2, <1>3, RiskConfigAssumption, TotalOfInts
<1>5. Leq(TotalPnl(risk), FromInt(-DailyLossLimit)) <=> SumFunction(value) <= -DailyLossLimit
  BY <1>4, RiskConfigAssumption DEF Leq, FromInt
<1> QED BY <1>4, <1>5 DEF value

(* Empty books balance with no cash. *)
LEMMA NewBooksBalance ==
  \A i \in Instruments : Balanced(RiskNew.positions[i], Multiplier[i], 0)
<1> SUFFICES ASSUME NEW i \in Instruments
             PROVE  Balanced(RiskNew.positions[i], Multiplier[i], 0)
  OBVIOUS
<1>1. Multiplier[i] \in Int
  BY RiskConfigAssumption
<1>2. RiskNew.positions[i] = [net |-> 0, avg_px |-> Zero, realized |-> Zero, mark |-> 0]
  BY DEF RiskNew
<1> QED BY <1>1, <1>2 DEF Balanced, Zero

(* An approved order's projection is within the limit, and does not grow   *)
(* |net| once the switch has latched.                                      *)
LEMMA CheckFacts ==
  ASSUME NEW risk \in Risk, NEW req \in OrderRequest, NEW mid \in Int,
         Check(risk, req, mid) = "Ok"
  PROVE  LET net == risk.positions[req.instrument].net
             projected == net + Sign(req.side) * req.qty
         IN  /\ Abs(projected) <= PositionLimit
             /\ risk.killed => Abs(projected) <= Abs(net)
<1>1. req.instrument \in Instruments
  BY DEF OrderRequest
<1>2. Projected(risk, req)
        = risk.positions[req.instrument].net + Sign(req.side) * req.qty
  BY <1>1 DEF Projected, NetPosition
<1>3. risk.positions[req.instrument] \in Position
  BY <1>1 DEF Risk
<1>4. Projected(risk, req) \in Int /\ NetPosition(risk, req.instrument) \in Int
  BY <1>1, <1>2, <1>3 DEF Position, OrderRequest, Sign, NetPosition
<1>5. ~ (Abs(Projected(risk, req)) > PositionLimit)
  BY DEF Check
<1>6. ~ (/\ risk.killed
         /\ Abs(Projected(risk, req)) > Abs(NetPosition(risk, req.instrument)))
  BY DEF Check
<1>7. NetPosition(risk, req.instrument) = risk.positions[req.instrument].net
  BY <1>1 DEF NetPosition
<1>8. Abs(Projected(risk, req)) \in Int /\ Abs(NetPosition(risk, req.instrument)) \in Int
  BY <1>4 DEF Abs
<1> QED BY <1>2, <1>5, <1>6, <1>7, <1>8, RiskConfigAssumption

-----------------------------------------------------------------------------
(* The signal engine *)

LEMMA SomeType ==
  ASSUME NEW S, NEW x \in S
  PROVE  Some(x) \in Option(S) /\ Some(x) # None /\ Some(x)[1] = x
BY DEF Some, Option, None

LEMMA SignalNewType == SignalNew \in Engine
BY SignalConfigAssumption DEF SignalNew, Engine, SignalState

LEMMA MovedFacts ==
  ASSUME NEW s \in SignalState, NEW z \in Int
  PROVE  /\ Moved(s, z) \in {Flat, Long, Short}
         /\ s.pos = Moved(s, z) \/ s.pos = Flat \/ Moved(s, z) = Flat
<1>1. s.pos \in {Flat, Long, Short}
  BY DEF SignalState
<1>2. Step(s.pos, z) \in {s.pos, Flat} \/ (s.pos = Flat /\ Step(s.pos, z) \in {Long, Short})
  BY <1>1 DEF Step
<1> QED BY <1>1, <1>2 DEF Moved

LEMMA UpdateFacts ==
  ASSUME NEW eng \in Engine, NEW i \in Instruments, NEW z \in Int,
         NEW has_std \in BOOLEAN
  PROVE  /\ Update(eng, i, z, has_std) \in Engine
         /\ Update(eng, i, z, has_std)[i].pos = Moved(eng[i], z)
         /\ \A j \in Instruments \ {i} : Update(eng, i, z, has_std)[j] = eng[j]
<1> DEFINE s == eng[i]
           t == [Absorb(s, has_std) EXCEPT !.pos = Moved(s, z)]
<1>1. s \in SignalState
  BY DEF Engine
<1>2. Moved(s, z) \in {Flat, Long, Short}
  BY <1>1, MovedFacts
<1>3. (s.count + 1) % CountRange \in 0 .. CountRange - 1
  BY <1>1, SignalConfigAssumption DEF SignalState
<1>4. (s.count > 0 /\ has_std) \in BOOLEAN
  OBVIOUS
<1>5. Absorb(s, has_std) = [s EXCEPT !.count = (s.count + 1) % CountRange,
                                     !.has_std = (s.count > 0 /\ has_std)]
  BY <1>1 DEF Absorb, SignalState
<1>6. Absorb(s, has_std) \in SignalState
  BY <1>1, <1>3, <1>4, <1>5 DEF SignalState
<1>7. t \in SignalState /\ t.pos = Moved(s, z)
  BY <1>2, <1>6 DEF SignalState
<1>8. Update(eng, i, z, has_std) = [eng EXCEPT ![i] = t]
  BY DEF Update
<1> HIDE DEF t
<1> QED BY <1>7, <1>8 DEF Engine

(* A signal asks for the side that takes the engine's old position to its  *)
(* new one.                                                                *)
LEMMA FiredFacts ==
  ASSUME NEW eng \in Engine, NEW i \in Instruments, NEW z \in Int
  PROVE  LET from == eng[i].pos
             to == Moved(eng[i], z)
             fired == Fired(eng, i, z)
         IN  /\ fired = None => from = to
             /\ fired # None =>
                  /\ from # to
                  /\ fired[1].side \in OrderSides
                  /\ Sign(fired[1].side) = Direction(to) - Direction(from)
<1> DEFINE from == eng[i].pos
           to == Moved(eng[i], z)
           fired == Fired(eng, i, z)
           side == IF from = Short \/ to = Long THEN Buy ELSE Sell
           sig == [instrument |-> i, kind |-> IF from = Flat THEN Enter ELSE Exit,
                   side |-> side]
<1>1. eng[i] \in SignalState
  BY DEF Engine
<1>2. /\ from \in {Flat, Long, Short} /\ to \in {Flat, Long, Short}
      /\ from = to \/ from = Flat \/ to = Flat
  BY <1>1, MovedFacts DEF SignalState
<1>3. fired = IF from = to THEN None ELSE <<sig>>
  BY DEF Fired, SignalOf, Some
<1>4. <<sig>> # None /\ <<sig>>[1] = sig
  BY DEF None
<1>5. sig.side = side
  OBVIOUS
<1> HIDE DEF from, to, fired, sig
<1>6. fired = None => from = to
  BY <1>3, <1>4
<1>7. fired # None => from # to /\ fired[1].side = side
  BY <1>3, <1>4, <1>5
<1>8. side \in OrderSides
  BY DEF OrderSides
<1>9. from # to => Sign(side) = Direction(to) - Direction(from)
  BY <1>2 DEF Sign, Direction, Flat, Long, Short, Buy, Sell
<1> QED BY <1>6, <1>7, <1>8, <1>9 DEF from, to, fired

(* The state of the instrument a sample was for. *)
LEMMA UpdatedState ==
  ASSUME NEW eng \in Engine, NEW i \in Instruments, NEW z \in Int,
         NEW has_std \in BOOLEAN
  PROVE  LET s == Update(eng, i, z, has_std)[i]
         IN  /\ s.count = (eng[i].count + 1) % CountRange
             /\ s.has_std = (eng[i].count > 0 /\ has_std)
             /\ s.pos = Moved(eng[i], z)
<1> DEFINE c == (eng[i].count + 1) % CountRange
           b == eng[i].count > 0 /\ has_std
           p == Moved(eng[i], z)
<1>1. eng[i] \in SignalState
  BY DEF Engine
<1>2. Update(eng, i, z, has_std)[i]
        = [[eng[i] EXCEPT !.count = c, !.has_std = b] EXCEPT !.pos = p]
  BY DEF Update, Absorb, Engine
<1> HIDE DEF c, b, p
<1>3. Update(eng, i, z, has_std)[i] = [count |-> c, has_std |-> b, pos |-> p]
  BY <1>1, <1>2 DEF SignalState
<1>4. /\ Update(eng, i, z, has_std)[i].count = c
      /\ Update(eng, i, z, has_std)[i].has_std = b
      /\ Update(eng, i, z, has_std)[i].pos = p
  BY <1>3
<1> QED BY <1>4 DEF c, b, p

LEMMA FiredType ==
  ASSUME NEW eng \in Engine, NEW i \in Instruments, NEW z \in Int
  PROVE  Fired(eng, i, z) \in Option(Signal)
<1> DEFINE from == eng[i].pos
           to == Moved(eng[i], z)
           sig == [instrument |-> i, kind |-> IF from = Flat THEN Enter ELSE Exit,
                   side |-> IF from = Short \/ to = Long THEN Buy ELSE Sell]
<1>1. sig \in Signal
  BY DEF Signal, OrderSides
<1>2. Fired(eng, i, z) = IF from = to THEN None ELSE Some(sig)
  BY DEF Fired, SignalOf
<1>3. None \in Option(Signal)
  BY DEF None, Option
<1> HIDE DEF from, to, sig
<1> QED BY <1>1, <1>2, <1>3, SomeType

(* A signal fires only on a sample that may fire. *)
LEMMA FiredWhenWarm ==
  ASSUME NEW eng \in Engine, NEW i \in Instruments, NEW z \in Int,
         Fired(eng, i, z) # None
  PROVE  Warm(eng[i])
BY DEF Fired, SignalOf, Moved, None

-----------------------------------------------------------------------------
(* The order book *)

LEMMA SubSeqOfInts ==
  ASSUME NEW s \in Seq(Int), NEW m \in Nat \ {0}, NEW n \in 0 .. Len(s)
  PROVE  /\ SubSeq(s, m, n) \in Seq(Int)
         /\ Len(SubSeq(s, m, n)) = IF m <= n THEN n - m + 1 ELSE 0
         /\ \A k \in 1 .. n - m + 1 : SubSeq(s, m, n)[k] = s[m + k - 1]
<1>1. \A i \in m .. n : s[i] \in Int
  BY LenProperties
<1> QED BY <1>1, SubSeqProperties, LenProperties

LEMMA PrefixFacts ==
  ASSUME NEW s \in Seq(Int), NEW n \in 0 .. Len(s)
  PROVE  /\ SubSeq(s, 1, n) \in Seq(Int) /\ Len(SubSeq(s, 1, n)) = n
         /\ \A k \in 1 .. n : SubSeq(s, 1, n)[k] = s[k]
<1>1. /\ SubSeq(s, 1, n) \in Seq(Int)
      /\ Len(SubSeq(s, 1, n)) = IF 1 <= n THEN n - 1 + 1 ELSE 0
      /\ \A k \in 1 .. n - 1 + 1 : SubSeq(s, 1, n)[k] = s[1 + k - 1]
  BY SubSeqOfInts
<1>2. n \in Nat
  BY LenProperties
<1>3. CASE 1 <= n
  BY <1>1, <1>2, <1>3
<1>4. CASE n = 0
  BY <1>1, <1>4
<1> QED BY <1>2, <1>3, <1>4

LEMMA ConcatOfInts ==
  ASSUME NEW s \in Seq(Int), NEW t \in Seq(Int)
  PROVE  /\ s \o t \in Seq(Int) /\ Len(s \o t) = Len(s) + Len(t)
         /\ \A k \in 1 .. Len(s) : (s \o t)[k] = s[k]
         /\ \A k \in Len(s) + 1 .. Len(s) + Len(t) : (s \o t)[k] = t[k - Len(s)]
<1>1. Len(s) \in Nat /\ Len(t) \in Nat
  BY LenProperties
<1> QED BY <1>1, ConcatProperties

(* N is s with e put in at i, and s without what it has there.             *)
Inserted(N, s, i, e) ==
    /\ N \in Seq(Int) /\ Len(N) = Len(s) + 1
    /\ \A k \in 1 .. Len(s) + 1 : N[k] = IF k < i THEN s[k] ELSE IF k = i THEN e ELSE s[k - 1]
Removed(N, s, i) ==
    /\ N \in Seq(Int) /\ Len(N) = Len(s) - 1
    /\ \A k \in 1 .. Len(s) - 1 : N[k] = IF k < i THEN s[k] ELSE s[k + 1]

LEMMA InsertAtFacts ==
  ASSUME NEW s \in Seq(Int), NEW i \in 1 .. Len(s) + 1, NEW e \in Int
  PROVE  Inserted(InsertAt(s, i, e), s, i, e)
<1> DEFINE front == SubSeq(s, 1, i - 1)
           mid == <<e>>
           back == SubSeq(s, i, Len(s))
           left == front \o mid
           all == left \o back
           n == Len(s) - i + 1
<1>1. Len(s) \in Nat /\ i \in Nat /\ i - 1 \in Nat /\ n \in Nat
  BY LenProperties
<1>2. /\ front \in Seq(Int) /\ Len(front) = i - 1
      /\ \A k \in 1 .. i - 1 : front[k] = s[k]
  BY <1>1, PrefixFacts
<1>3. /\ back \in Seq(Int) /\ Len(back) = n
      /\ \A k \in 1 .. n : back[k] = s[i + k - 1]
  BY <1>1, SubSeqOfInts
<1>4. mid \in Seq(Int) /\ Len(mid) = 1 /\ mid[1] = e
  OBVIOUS
<1> HIDE DEF front, mid, back, n
<1>5. /\ left \in Seq(Int) /\ Len(left) = Len(front) + Len(mid)
      /\ \A k \in 1 .. Len(front) : left[k] = front[k]
      /\ \A k \in Len(front) + 1 .. Len(front) + Len(mid) : left[k] = mid[k - Len(front)]
  BY <1>2, <1>4, ConcatOfInts
<1> HIDE DEF left
<1>6. Len(left) = i /\ left[i] = e /\ \A k \in 1 .. i - 1 : left[k] = s[k]
  BY <1>1, <1>2, <1>4, <1>5
<1>7. /\ all \in Seq(Int) /\ Len(all) = i + n
      /\ \A k \in 1 .. i : all[k] = left[k]
      /\ \A k \in i + 1 .. i + n : all[k] = back[k - i]
  <2>1. /\ all \in Seq(Int) /\ Len(all) = Len(left) + Len(back)
        /\ \A k \in 1 .. Len(left) : all[k] = left[k]
        /\ \A k \in Len(left) + 1 .. Len(left) + Len(back) : all[k] = back[k - Len(left)]
    BY <1>3, <1>5, ConcatOfInts
  <2> HIDE DEF all
  <2> QED BY <1>3, <1>6, <2>1, Zenon
<1> HIDE DEF all
<1>8. i + n = Len(s) + 1
  BY <1>1 DEF n
<1>9. ASSUME NEW k \in 1 .. Len(s) + 1
      PROVE  all[k] = IF k < i THEN s[k] ELSE IF k = i THEN e ELSE s[k - 1]
  <2>1. CASE k <= i
    BY <1>1, <1>6, <1>7, <2>1
  <2>2. CASE k > i
    <3>1. k - i \in 1 .. n /\ k \in i + 1 .. i + n
      BY <1>1, <1>8, <2>2
    <3>2. all[k] = s[i + (k - i) - 1]
      BY <1>3, <1>7, <3>1
    <3>3. i + (k - i) - 1 = k - 1
      BY <1>1
    <3> QED BY <1>1, <2>2, <3>2, <3>3
  <2> QED BY <1>1, <2>1, <2>2
<1>10. InsertAt(s, i, e) = all
  BY DEF InsertAt, all, left, front, mid, back
<1>11. Inserted(all, s, i, e)
  BY <1>7, <1>8, <1>9 DEF Inserted
<1> QED BY <1>10, <1>11

LEMMA RemoveAtFacts ==
  ASSUME NEW s \in Seq(Int), NEW i \in 1 .. Len(s)
  PROVE  Removed(RemoveAt(s, i), s, i)
<1> DEFINE front == SubSeq(s, 1, i - 1)
           back == SubSeq(s, i + 1, Len(s))
           all == front \o back
           m == i - 1
           n == Len(s) - i
<1>1. Len(s) \in Nat /\ i \in Nat /\ m \in Nat /\ n \in Nat
  BY LenProperties
<1>2. /\ front \in Seq(Int) /\ Len(front) = m
      /\ \A k \in 1 .. m : front[k] = s[k]
  BY <1>1, PrefixFacts
<1>3. /\ back \in Seq(Int) /\ Len(back) = n
      /\ \A k \in 1 .. n : back[k] = s[i + k]
  <2>2. /\ back \in Seq(Int)
        /\ Len(back) = IF i + 1 <= Len(s) THEN Len(s) - (i + 1) + 1 ELSE 0
        /\ \A k \in 1 .. Len(s) - (i + 1) + 1 : back[k] = s[(i + 1) + k - 1]
    BY <1>1, SubSeqOfInts
  <2> HIDE DEF back
  <2>3. Len(back) = n
    BY <1>1, <2>2
  <2>4. ASSUME NEW k \in 1 .. n PROVE back[k] = s[i + k]
    <3>1. k \in 1 .. Len(s) - (i + 1) + 1 /\ (i + 1) + k - 1 = i + k
      BY <1>1
    <3>2. back[k] = s[(i + 1) + k - 1]
      BY <2>2, <3>1
    <3> QED BY <3>1, <3>2
  <2> QED BY <2>2, <2>3, <2>4
<1> HIDE DEF front, back
<1>4. /\ all \in Seq(Int) /\ Len(all) = m + n
      /\ \A k \in 1 .. m : all[k] = front[k]
      /\ \A k \in m + 1 .. m + n : all[k] = back[k - m]
  <2>1. /\ all \in Seq(Int) /\ Len(all) = Len(front) + Len(back)
        /\ \A k \in 1 .. Len(front) : all[k] = front[k]
        /\ \A k \in Len(front) + 1 .. Len(front) + Len(back) : all[k] = back[k - Len(front)]
    BY <1>2, <1>3, ConcatOfInts
  <2> HIDE DEF all, m, n
  <2> QED BY <1>2, <1>3, <2>1, Zenon
<1> HIDE DEF all
<1>5. m + n = Len(s) - 1
  BY <1>1
<1>6. ASSUME NEW k \in 1 .. Len(s) - 1 PROVE all[k] = IF k < i THEN s[k] ELSE s[k + 1]
  <2>1. CASE k < i
    <3>1. k \in 1 .. m
      BY <1>1, <2>1
    <3> HIDE DEF m
    <3> QED BY <1>2, <1>4, <2>1, <3>1
  <2>2. CASE k >= i
    <3>1. k - m \in 1 .. n /\ k \in m + 1 .. m + n
      BY <1>1, <2>2
    <3>2. all[k] = s[i + (k - m)]
      <4> HIDE DEF m, n
      <4> QED BY <1>3, <1>4, <3>1
    <3>3. i + (k - m) = k + 1
      BY <1>1
    <3> QED BY <1>1, <2>2, <3>2, <3>3
  <2> QED BY <1>1, <2>1, <2>2
<1>7. RemoveAt(s, i) = all
  BY DEF RemoveAt, all, front, back
<1>8. Removed(all, s, i)
  BY <1>4, <1>5, <1>6 DEF Removed
<1> QED BY <1>7, <1>8

LEMMA FrontFacts ==
  ASSUME NEW s \in Seq(Int), s # <<>>
  PROVE  /\ Front(s) \in Seq(Int) /\ Len(Front(s)) = Len(s) - 1
         /\ \A k \in 1 .. Len(s) - 1 : Front(s)[k] = s[k]
<1>1. Len(s) \in Nat \ {0}
  BY EmptySeq
<1>2. Len(s) - 1 \in 0 .. Len(s)
  BY <1>1
<1> QED BY <1>2, PrefixFacts DEF Front

(* What the ladders and the detection of gaps read of an entry. *)
WellFormedEntry(e) ==
    /\ e.update_action \in UpdateActions /\ e.entry_type \in EntryTypes
    /\ e.price_level \in Nat /\ e.px_raw \in Int /\ e.rpt_seq \in 0 .. RptRange - 1

(* No update makes a ladder deeper than MaxDepth: an insert into a full    *)
(* ladder first drops its deepest level.                                   *)
THEOREM LaddersStayWithinDepth ==
  ASSUME NEW levels \in Ladder, NEW e, WellFormedEntry(e)
  PROVE  UpdateLadder(levels, e) \in Ladder
<1> DEFINE pos == LevelOf(e)
           px == e.px_raw
<1>1. pos \in Nat \ {0} /\ px \in Int /\ e.update_action \in UpdateActions
  BY DEF WellFormedEntry, LevelOf
<1>2. levels \in Seq(Int) /\ Len(levels) \in Nat /\ Len(levels) <= MaxDepth
  BY LenProperties DEF Ladder
<1>3. MaxDepth \in Nat \ {0}
  BY BookAssumption
<1> HIDE DEF pos, px
<1>4. Insert(levels, pos, px) \in Ladder
  <2> DEFINE room == IF Len(levels) = MaxDepth THEN Front(levels) ELSE levels
  <2>1. room \in Seq(Int) /\ Len(room) \in Nat /\ Len(room) <= MaxDepth - 1
    <3>1. CASE Len(levels) = MaxDepth
      <4>1. levels # <<>>
        BY <1>2, <1>3, <3>1, EmptySeq
      <4> QED BY <1>2, <1>3, <3>1, <4>1, FrontFacts
    <3>2. CASE Len(levels) # MaxDepth
      BY <1>2, <1>3, <3>2
    <3> QED BY <3>1, <3>2
  <2>2. Insert(levels, pos, px)
          = IF pos > Len(levels) + 1 THEN levels
            ELSE IF pos <= Len(room) + 1 THEN InsertAt(room, pos, px) ELSE room
    BY DEF Insert
  <2> HIDE DEF room
  <2>3. ASSUME pos <= Len(room) + 1
        PROVE  InsertAt(room, pos, px) \in Ladder
    <3>1. pos \in 1 .. Len(room) + 1
      BY <1>1, <2>1, <2>3
    <3>2. /\ InsertAt(room, pos, px) \in Seq(Int)
          /\ Len(InsertAt(room, pos, px)) = Len(room) + 1
      <4>1. Inserted(InsertAt(room, pos, px), room, pos, px)
        BY <1>1, <2>1, <3>1, InsertAtFacts
      <4> QED BY <4>1 DEF Inserted
    <3>3. Len(InsertAt(room, pos, px)) <= MaxDepth
      BY <1>3, <2>1, <3>2
    <3> QED BY <3>2, <3>3 DEF Ladder
  <2>4. room \in Ladder
    BY <1>3, <2>1 DEF Ladder
  <2> QED BY <2>2, <2>3, <2>4
<1>5. Replace(levels, pos, px) \in Ladder
  <2>1. ASSUME pos <= Len(levels)
        PROVE  [levels EXCEPT ![pos] = px] \in Ladder
    <3>1. pos \in 1 .. Len(levels)
      BY <1>1, <1>2, <2>1
    <3>2. /\ [levels EXCEPT ![pos] = px] \in Seq(Int)
          /\ Len([levels EXCEPT ![pos] = px]) = Len(levels)
      BY <1>1, <1>2, <3>1, ExceptSeq
    <3> QED BY <1>2, <3>2 DEF Ladder
  <2>2. ASSUME Len(levels) < MaxDepth
        PROVE  Append(levels, px) \in Ladder
    BY <1>1, <1>2, <1>3, <2>2, AppendProperties DEF Ladder
  <2> QED BY <2>1, <2>2 DEF Replace
<1>6. Drop(levels, pos) \in Ladder
  <2>1. ASSUME pos <= Len(levels) PROVE RemoveAt(levels, pos) \in Ladder
    <3>1. pos \in 1 .. Len(levels)
      BY <1>1, <1>2, <2>1
    <3>2. Removed(RemoveAt(levels, pos), levels, pos)
      BY <1>2, <3>1, RemoveAtFacts
    <3> QED BY <1>2, <1>3, <3>2 DEF Ladder, Removed
  <2> QED BY <2>1 DEF Drop
<1>7. Truncate(levels, pos) \in Ladder
  <2>1. ASSUME pos <= Len(levels) PROVE SubSeq(levels, 1, pos - 1) \in Ladder
    <3>1. pos - 1 \in 0 .. Len(levels)
      BY <1>1, <1>2, <2>1
    <3> QED BY <1>2, <1>3, <3>1, SubSeqOfInts DEF Ladder
  <2> QED BY <2>1 DEF Truncate
<1>8. <<>> \in Ladder
  BY <1>3, EmptySeq DEF Ladder
<1> QED BY <1>1, <1>4, <1>5, <1>6, <1>7, <1>8 DEF UpdateLadder, UpdateActions, pos, px

(* apply keeps a whole book well formed. *)
THEOREM ApplyKeepsBook ==
  ASSUME NEW book \in InstrumentBook, NEW e, WellFormedEntry(e)
  PROVE  /\ ApplyEntry(book, e) \in InstrumentBook
         /\ ApplyEntry(book, e).gaps >= book.gaps
<1> DEFINE b == Sequence(book, e)
<1>1. /\ book.bids \in Ladder /\ book.offers \in Ladder /\ book.gaps \in Nat
  BY DEF InstrumentBook
<1>2. e.rpt_seq \in 0 .. RptRange - 1 /\ e.entry_type \in EntryTypes
  BY DEF WellFormedEntry
<1>3. Some(e.rpt_seq) \in Option(0 .. RptRange - 1)
  BY <1>2 DEF Some, Option
<1>4. /\ b.bids = book.bids /\ b.offers = book.offers
      /\ b \in InstrumentBook /\ b.gaps >= book.gaps
  <2> DEFINE gaps == IF Skips(book, e) THEN book.gaps + 1 ELSE book.gaps
  <2>1. gaps \in Nat /\ gaps >= book.gaps
    BY <1>1
  <2>2. b = [book EXCEPT !.gaps = gaps, !.last_rpt_seq = Some(e.rpt_seq)]
    BY DEF Sequence, InstrumentBook
  <2> HIDE DEF gaps, b
  <2> QED BY <1>1, <1>3, <2>1, <2>2 DEF InstrumentBook
<1> HIDE DEF b
<1>5. UpdateLadder(b.bids, e) \in Ladder /\ UpdateLadder(b.offers, e) \in Ladder
  BY <1>1, <1>4, LaddersStayWithinDepth
<1>6. <<>> \in Ladder
  BY BookAssumption, EmptySeq DEF Ladder
<1>7. UpdateSides(b, e) \in InstrumentBook /\ UpdateSides(b, e).gaps = b.gaps
  <2>1. CASE e.entry_type = "BookReset"
    <3>1. UpdateSides(b, e) = [b EXCEPT !.bids = <<>>, !.offers = <<>>]
      BY <2>1 DEF UpdateSides, Bid, Offer
    <3> QED BY <1>4, <1>6, <3>1 DEF InstrumentBook
  <2>2. CASE e.entry_type = Bid
    BY <1>4, <1>5, <2>2 DEF UpdateSides, InstrumentBook, Bid
  <2>3. CASE e.entry_type = Offer
    BY <1>4, <1>5, <2>3 DEF UpdateSides, InstrumentBook, Bid, Offer
  <2>4. CASE e.entry_type = "Implied"
    BY <1>4, <2>4 DEF UpdateSides, Bid, Offer
  <2> QED BY <1>2, <2>1, <2>2, <2>3, <2>4 DEF EntryTypes, BookSides
<1> QED BY <1>4, <1>7 DEF ApplyEntry, b

LEMMA ApplyToBooksType ==
  ASSUME NEW books \in Books, NEW e \in MdEntry(Int)
  PROVE  ApplyToBooks(books, e) \in Books
<1>1. CASE e.security_id \in Instruments
  <2>1. books[e.security_id] \in InstrumentBook
    BY <1>1 DEF Books
  <2>2. ApplyEntry(books[e.security_id], e) \in InstrumentBook
    BY <2>1, ApplyKeepsBook DEF WellFormedEntry, MdEntry
  <2> QED BY <1>1, <2>2 DEF ApplyToBooks, Books
<1>2. CASE e.security_id \notin Instruments
  BY <1>2 DEF ApplyToBooks
<1> QED BY <1>1, <1>2

LEMMA BookNewType == BookNew \in Books
<1>1. <<>> \in Ladder
  BY BookAssumption, EmptySeq DEF Ladder
<1>2. None \in Option(0 .. RptRange - 1)
  BY EmptySeq DEF None, Option
<1> QED BY <1>1, <1>2 DEF BookNew, EmptyBook, Books, InstrumentBook

(* The BBO of a book, and its mid when it has one. *)
LEMMA BboType ==
  ASSUME NEW book \in InstrumentBook
  PROVE  BboOf(book) \in Bbo
<1>1. ASSUME NEW s \in Ladder PROVE Best(s) \in Option(Int)
  <2>1. s \in Seq(Int)
    BY DEF Ladder
  <2>2. CASE s = <<>>
    BY <2>2, EmptySeq DEF Best, None, Option
  <2>3. CASE s # <<>>
    <3>1. s[1] \in Int
      <4>1. 1 \in 1 .. Len(s)
        BY <2>1, <2>3, EmptySeq
      <4> QED BY <2>1, <4>1, LenProperties
    <3> QED BY <2>3, <3>1 DEF Best, Some, Option
  <2> QED BY <2>2, <2>3
<1> QED BY <1>1 DEF BboOf, Bbo, InstrumentBook

LEMMA OptionValue ==
  ASSUME NEW S, NEW o \in Option(S), o # None
  PROVE  o[1] \in S
<1>1. o \in Seq(S) /\ o # <<>>
  BY DEF Option, None
<1>2. 1 \in 1 .. Len(o)
  BY <1>1, EmptySeq
<1> QED BY <1>1, <1>2, LenProperties

LEMMA MidType ==
  ASSUME NEW bbo \in Bbo, TwoSided(bbo)
  PROVE  Mid(bbo) \in Int
<1>1. bbo.bid_px_raw[1] \in Int /\ bbo.offer_px_raw[1] \in Int
  BY OptionValue DEF Bbo, TwoSided
<1> QED BY <1>1 DEF Mid
=============================================================================
