---------------------------- MODULE ConnectorLib ----------------------------
(***************************************************************************)
(* The types every stage of the connector shares (src/lib.rs).             *)
(*                                                                         *)
(* A raw PRICE9 price is an integer.  A mid is the mean of two raw prices, *)
(* so mids and marks are integers counting HALF raw units.                 *)
(***************************************************************************)
EXTENDS Integers, Sequences

CONSTANT Instruments        \* the ids registered with every component

Bid == "Bid"
Offer == "Offer"
BookSides == {Bid, Offer}

Buy == "Buy"
Sell == "Sell"
OrderSides == {Buy, Sell}
Sign(side) == IF side = Buy THEN 1 ELSE -1

Abs(n) == IF n < 0 THEN -n ELSE n

(* An Option is a sequence of at most one value. *)
None == <<>>
Some(x) == <<x>>
Option(S) == {o \in Seq(S) : Len(o) <= 1}

(* price9_to_f64 and f64_to_price9 between raw prices and half units; the  *)
(* latter rounds a half away from zero.                                    *)
HalfUnits(raw) == 2 * raw
FaultyToPrice9(half) == half            \* half units taken for raw ones
ToPrice9(half) == IF half < 0 THEN -((1 - half) \div 2) ELSE (half + 1) \div 2
=============================================================================
