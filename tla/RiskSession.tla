---------------------------- MODULE RiskSession ----------------------------
(***************************************************************************)
(* A session with the risk manager: its caller marks instruments and sends *)
(* orders.  As in the pipeline, an order is checked against the mid its    *)
(* instrument was last marked at; one that passes is filled no worse than  *)
(* at its limit, and the fill is reported back.  The session keeps the     *)
(* cash each instrument's fills have paid and received, which the code     *)
(* never does: it is the independent account the average-cost books must   *)
(* agree with.                                                             *)
(***************************************************************************)
EXTENDS RiskManager

CONSTANTS Quantities, Prices, Mids, MaxTrades

ASSUME SessionAssumption ==
    /\ Quantities \subseteq Nat \ {0}
    /\ Prices \subseteq Int
    /\ Mids \subseteq Int
    /\ MaxTrades \in Nat

VARIABLES risk, cash, trades

vars == <<risk, cash, trades>>

Init ==
    /\ risk = RiskNew
    /\ cash = [i \in Instruments |-> 0]
    /\ trades = 0

MarkTo(i, mid) ==
    /\ risk' = Mark(risk, i, mid)
    /\ UNCHANGED <<cash, trades>>

(* Check, then the fill of an approved order, at the limit or better. *)
Trade(req, mid, fill) ==
    /\ trades < MaxTrades
    /\ risk.positions[req.instrument].mark = mid
    /\ Check(risk, req, mid) = "Ok"
    /\ IF req.side = Buy THEN fill <= req.px_raw ELSE fill >= req.px_raw
    /\ risk' = OnFill(risk, req.instrument, req.side, req.qty, fill)
    /\ cash' = [cash EXCEPT ![req.instrument] =
                    @ - Sign(req.side) * req.qty * HalfUnits(fill)]
    /\ trades' = trades + 1

Requests ==
    [instrument : Instruments, side : OrderSides, qty : Quantities, px_raw : Prices]

Next ==
    \/ \E i \in Instruments, mid \in Mids : MarkTo(i, mid)
    \/ \E req \in Requests, mid \in Mids, fill \in Prices : Trade(req, mid, fill)

Spec == Init /\ [][Next]_vars

-----------------------------------------------------------------------------
(* The books hold a position with an exact average price and mark per      *)
(* instrument; the session's own account is an integer per instrument.     *)
TypeOK ==
    /\ risk \in Risk
    /\ cash \in [Instruments -> Int]
    /\ trades \in 0 .. MaxTrades

(* No sequence of approved orders takes an instrument past the position    *)
(* limit, reversals through flat included (the projection in check and the *)
(* update in on_fill agree).                                               *)
PositionWithinLimit ==
    \A i \in Instruments :
        risk.positions[i].net # 0 => Abs(risk.positions[i].net) <= PositionLimit

(* Average-cost accounting loses nothing: over any history of openings,    *)
(* additions, reductions, closes and flips, realized PnL less the cost of  *)
(* the open position is exactly the cash that changed hands.               *)
BooksBalance ==
    \A i \in Instruments :
        LET p == risk.positions[i]
        IN  Sub(p.realized, Scale(p.avg_px, p.net * Multiplier[i]))
              = FromInt(cash[i] * Multiplier[i])

(* What closing every position at its mark would leave, from the cash.     *)
LiquidationValue ==
    SumFunction([i \in Instruments |->
        (cash[i] + risk.positions[i].net * risk.positions[i].mark) * Multiplier[i]])

(* The kill-switch is exact: a step leaves it latched if and only if it    *)
(* was latched already or the liquidation value is now at or below minus   *)
(* the loss limit.  It never misses a breach, never fires early, never     *)
(* releases.                                                               *)
KillExact ==
    [][risk'.killed <=> (risk.killed \/ LiquidationValue' <= -DailyLossLimit)]_vars

(* Once the switch has latched, no step enlarges any position: check lets  *)
(* through only orders that do not raise |net|.                            *)
KilledOnlyShrinks ==
    [][risk.killed => /\ risk'.killed
                      /\ \A i \in Instruments :
                            Abs(risk'.positions[i].net) <= Abs(risk.positions[i].net)]_vars
=============================================================================
