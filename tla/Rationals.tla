----------------------------- MODULE Rationals -----------------------------
(***************************************************************************)
(* Exact rational numbers, for the amounts the code keeps in f64: an       *)
(* average price is a quotient of integers, and every amount derived from  *)
(* it a sum of products of such quotients.  A rational is a pair           *)
(* <<numerator, denominator>> in lowest terms, so that equal amounts are   *)
(* equal values.  The rounding of f64 is abstracted away.                  *)
(***************************************************************************)
EXTENDS Integers, FiniteSetsExt

Rat == Int \X (Nat \ {0})

Zero == <<0, 1>>
FromInt(n) == <<n, 1>>

(* The denominators, up to r's own, over which the value of r is a whole   *)
(* number of parts; the least of them is r's denominator in lowest terms.  *)
Denominators(r) == {m \in 1 .. r[2] : (r[1] * m) % r[2] = 0}

Reduce(r) ==
    LET m == Min(Denominators(r)) IN <<(r[1] * m) \div r[2], m>>

Add(r, s) == Reduce(<<r[1] * s[2] + s[1] * r[2], r[2] * s[2]>>)
Neg(r) == <<-r[1], r[2]>>
Sub(r, s) == Add(r, Neg(s))
Scale(r, n) == Reduce(<<r[1] * n, r[2]>>)
Quotient(r, n) == Reduce(<<r[1], r[2] * n>>)        \* n is a positive integer

Leq(r, s) == r[1] * s[2] <= s[1] * r[2]
=============================================================================
