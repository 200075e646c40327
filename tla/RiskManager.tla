---------------------------- MODULE RiskManager ----------------------------
(***************************************************************************)
(* The pre-trade risk manager (src/risk.rs): a position per instrument     *)
(* under average-cost accounting, the three checks an order must pass, and *)
(* the kill-switch that latches on the total PnL.  The operators are the   *)
(* methods of the struct, on a record holding its fields; RiskSession and  *)
(* Pipeline are the specifications built from them.                        *)
(*                                                                         *)
(* In every module, a definition whose name starts with Faulty is a seeded *)
(* fault: the specification never uses it.  Put in place of the definition *)
(* that follows it, it must make the model checker find a violation.       *)
(***************************************************************************)
EXTENDS ConnectorLib, Rationals, Functions

CONSTANTS
    Multiplier,         \* contract multiplier of each instrument
    PositionLimit,      \* position_limit
    DailyLossLimit,     \* daily_loss_limit, in half units
    PriceBand           \* price_band_ticks * tick, in half units

ASSUME RiskConfigAssumption ==
    /\ IsFiniteSet(Instruments)
    /\ Multiplier \in [Instruments -> Nat \ {0}]
    /\ PositionLimit \in Int
    /\ DailyLossLimit \in Int
    /\ PriceBand \in Int

(* A flat position carries no average price. *)
Position ==
    {p \in [net : Int, avg_px : Rat, realized : Rat, mark : Int] :
        p.net = 0 => p.avg_px = Zero}
Risk == [positions : [Instruments -> Position], killed : BOOLEAN]

OrderRequest ==
    [instrument : Instruments, side : OrderSides, qty : Nat \ {0}, px_raw : Int]

RiskNew ==
    [positions |-> [i \in Instruments |->
        [net |-> 0, avg_px |-> Zero, realized |-> Zero, mark |-> 0]],
     killed |-> FALSE]

-----------------------------------------------------------------------------
(* Valuation *)

Unrealized(p, mult) == Scale(Sub(FromInt(p.mark), p.avg_px), p.net * mult)

Pnl(p, mult) == Add(p.realized, Unrealized(p, mult))

TotalPnl(risk) ==
    FoldFunction(Add, Zero,
        [i \in Instruments |-> Pnl(risk.positions[i], Multiplier[i])])

NetPosition(risk, i) ==
    IF i \in Instruments THEN risk.positions[i].net ELSE 0

NetPositionTotal(risk) ==
    SumFunction([i \in Instruments |-> risk.positions[i].net])

FaultyRefreshKillStrict(risk) ==
    [risk EXCEPT !.killed = @ \/ ~ Leq(FromInt(-DailyLossLimit), TotalPnl(risk))]
FaultyRefreshKillUnlatched(risk) ==
    [risk EXCEPT !.killed = Leq(TotalPnl(risk), FromInt(-DailyLossLimit))]
RefreshKill(risk) ==
    [risk EXCEPT !.killed = @ \/ Leq(TotalPnl(risk), FromInt(-DailyLossLimit))]

-----------------------------------------------------------------------------
(* The three checks, first failure first *)

Projected(risk, req) ==
    NetPosition(risk, req.instrument) + Sign(req.side) * req.qty

FaultyCheckCurrentNet(risk, req, mid) ==        \* the limit on |net|, not |projected|
    IF Abs(NetPosition(risk, req.instrument)) > PositionLimit THEN "PositionLimit"
    ELSE IF risk.killed /\ Abs(Projected(risk, req)) > Abs(NetPosition(risk, req.instrument))
    THEN "DailyLossLimit" ELSE "Ok"
FaultyCheckSignedGrowth(risk, req, mid) ==      \* growth of the signed position
    IF Abs(Projected(risk, req)) > PositionLimit THEN "PositionLimit"
    ELSE IF risk.killed /\ Projected(risk, req) > NetPosition(risk, req.instrument)
    THEN "DailyLossLimit" ELSE "Ok"
Check(risk, req, mid) ==
    IF Abs(HalfUnits(req.px_raw) - mid) > PriceBand
    THEN "PriceUnreasonable"
    ELSE IF Abs(Projected(risk, req)) > PositionLimit
    THEN "PositionLimit"
    ELSE IF /\ risk.killed
            /\ Abs(Projected(risk, req)) > Abs(NetPosition(risk, req.instrument))
    THEN "DailyLossLimit"
    ELSE "Ok"

-----------------------------------------------------------------------------
(* Updates *)

Mark(risk, i, mid) ==
    RefreshKill(IF i \in Instruments
                THEN [risk EXCEPT !.positions[i].mark = mid]
                ELSE risk)

(* Opening or adding: weight the average price by quantity. *)
Extend(p, qty, new_net, fill_px) ==
    [p EXCEPT !.net = new_net,
              !.avg_px = IF new_net = 0 THEN Zero
                         ELSE Quotient(Add(Scale(@, Abs(p.net)),
                                           FromInt(fill_px * qty)),
                                       Abs(new_net))]

(* Reducing, closing or flipping: realize on the closed quantity. *)
FaultyOffsetWhole(p, qty, new_net, fill_px, mult) ==    \* realizes the whole order
    [p EXCEPT !.net = new_net,
              !.realized = Add(@, Scale(Sub(FromInt(fill_px), p.avg_px),
                                        qty * (IF p.net > 0 THEN 1 ELSE -1) * mult)),
              !.avg_px = IF qty > Abs(p.net) THEN FromInt(fill_px)
                         ELSE IF new_net = 0 THEN Zero ELSE @]
FaultyOffsetKeepsAverage(p, qty, new_net, fill_px, mult) ==     \* no reset when flat
    [p EXCEPT !.net = new_net,
              !.realized = Add(@, Scale(Sub(FromInt(fill_px), p.avg_px),
                                        Min({qty, Abs(p.net)})
                                          * (IF p.net > 0 THEN 1 ELSE -1) * mult)),
              !.avg_px = IF qty > Abs(p.net) THEN FromInt(fill_px) ELSE @]
Offset(p, qty, new_net, fill_px, mult) ==
    LET closed == Min({qty, Abs(p.net)})
        dir == IF p.net > 0 THEN 1 ELSE -1
    IN  [p EXCEPT !.net = new_net,
                  !.realized = Add(@, Scale(Sub(FromInt(fill_px), p.avg_px),
                                            closed * dir * mult)),
                  !.avg_px = IF qty > Abs(p.net) THEN FromInt(fill_px)
                             ELSE IF new_net = 0 THEN Zero ELSE @]

ApplyFill(p, side, qty, fill_px, mult) ==
    LET new_net == p.net + Sign(side) * qty
    IN  IF p.net = 0 \/ (p.net > 0) = (side = Buy)
        THEN Extend(p, qty, new_net, fill_px)
        ELSE Offset(p, qty, new_net, fill_px, mult)

OnFill(risk, i, side, qty, fill_px_raw) ==
    RefreshKill(IF i \in Instruments
                THEN [risk EXCEPT !.positions[i] =
                        ApplyFill(@, side, qty, HalfUnits(fill_px_raw), Multiplier[i])]
                ELSE risk)
=============================================================================
