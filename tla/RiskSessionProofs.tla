------------------------- MODULE RiskSessionProofs -------------------------
(***************************************************************************)
(* The safety of a session with the risk manager, for every set of         *)
(* instruments, every limit and every price.                               *)
(***************************************************************************)
EXTENDS RiskSession, StageProofs

LEMMA RequestType ==
  ASSUME NEW req \in Requests
  PROVE  req \in OrderRequest
BY SessionAssumption DEF Requests, OrderRequest

(* The session keeps its state well formed: exact averages in lowest       *)
(* terms, none on a flat position.                                         *)
THEOREM SessionTypeCorrect == Spec => []TypeOK
<1>1. Init => TypeOK
  BY RiskNewType, SessionAssumption DEF Init, TypeOK
<1>2. TypeOK /\ [Next]_vars => TypeOK'
  <2> SUFFICES ASSUME TypeOK, [Next]_vars PROVE TypeOK'
    OBVIOUS
  <2>1. ASSUME NEW i \in Instruments, NEW mid \in Mids, MarkTo(i, mid)
        PROVE  TypeOK'
    <3>1. mid \in Int
      BY SessionAssumption
    <3> QED BY <2>1, <3>1, MarkFacts DEF MarkTo, TypeOK
  <2>2. ASSUME NEW req \in Requests, NEW mid \in Mids, NEW fill \in Prices,
               Trade(req, mid, fill)
        PROVE  TypeOK'
    <3>1. /\ req.instrument \in Instruments /\ req.side \in OrderSides
          /\ req.qty \in Nat \ {0} /\ fill \in Int
      BY RequestType, SessionAssumption DEF OrderRequest
    <3>2. risk' \in Risk
      BY <2>2, <3>1, OnFillFacts DEF Trade, TypeOK
    <3>3. cash' \in [Instruments -> Int]
      <4>1. req.qty * HalfUnits(fill) \in Int
        BY <3>1 DEF HalfUnits
      <4>2. Sign(req.side) * req.qty * HalfUnits(fill) \in Int
        BY <3>1, <4>1 DEF HalfUnits, Sign
      <4> QED BY <2>2, <3>1, <4>2 DEF Trade, TypeOK
    <3>4. trades' \in 0 .. MaxTrades
      BY <2>2, SessionAssumption DEF Trade, TypeOK
    <3> QED BY <3>2, <3>3, <3>4 DEF TypeOK
  <2>3. CASE UNCHANGED vars
    BY <2>3 DEF vars, TypeOK
  <2> QED BY <2>1, <2>2, <2>3 DEF Next
<1> QED BY <1>1, <1>2, PTL DEF Spec

(* No history of approved orders takes a position past the limit.  The     *)
(* invariant is inductive with the type: check bounds the projection, and  *)
(* on_fill lands on it.                                                    *)
THEOREM SessionStaysWithinLimit == Spec => []PositionWithinLimit
<1>1. Init => PositionWithinLimit
  BY DEF Init, RiskNew, PositionWithinLimit
<1>2. TypeOK /\ PositionWithinLimit /\ [Next]_vars => PositionWithinLimit'
  <2> SUFFICES ASSUME TypeOK, PositionWithinLimit, [Next]_vars
               PROVE  PositionWithinLimit'
    OBVIOUS
  <2>1. ASSUME NEW i \in Instruments, NEW mid \in Mids, MarkTo(i, mid)
        PROVE  PositionWithinLimit'
    <3>1. mid \in Int
      BY SessionAssumption
    <3>2. risk \in Risk /\ risk' = Mark(risk, i, mid)
      BY <2>1 DEF MarkTo, TypeOK
    <3>3. \A j \in Instruments : risk'.positions[j].net = risk.positions[j].net
      BY <3>1, <3>2, MarkFacts
    <3> QED BY <3>3 DEF PositionWithinLimit
  <2>2. ASSUME NEW req \in Requests, NEW mid \in Mids, NEW fill \in Prices,
               Trade(req, mid, fill)
        PROVE  PositionWithinLimit'
    <3> DEFINE i == req.instrument
               projected == risk.positions[i].net + Sign(req.side) * req.qty
    <3>1. /\ i \in Instruments /\ req.side \in OrderSides /\ req.qty \in Nat \ {0}
          /\ fill \in Int /\ mid \in Int
      BY RequestType, SessionAssumption DEF OrderRequest
    <3>2. Abs(projected) <= PositionLimit
      BY <2>2, <3>1, RequestType, CheckFacts DEF Trade, TypeOK
    <3>3. risk'.positions[i].net = projected
      BY <2>2, <3>1, OnFillFacts DEF Trade, TypeOK
    <3>4. \A j \in Instruments \ {i} : risk'.positions[j] = risk.positions[j]
      BY <2>2, <3>1, OnFillFacts DEF Trade, TypeOK
    <3> QED BY <3>2, <3>3, <3>4 DEF PositionWithinLimit
  <2>3. CASE UNCHANGED vars
    BY <2>3 DEF vars, PositionWithinLimit
  <2> QED BY <2>1, <2>2, <2>3 DEF Next
<1> QED BY <1>1, <1>2, SessionTypeCorrect, PTL DEF Spec

(* Once the kill-switch has latched it stays latched, and no position      *)
(* grows.                                                                  *)
THEOREM KilledSessionOnlyShrinks == Spec => KilledOnlyShrinks
<1> DEFINE Shrinks ==
       risk.killed => /\ risk'.killed
                      /\ \A i \in Instruments :
                            Abs(risk'.positions[i].net) <= Abs(risk.positions[i].net)
<1>1. TypeOK /\ [Next]_vars => [Shrinks]_vars
  <2> SUFFICES ASSUME TypeOK, Next, risk.killed PROVE Shrinks
    OBVIOUS
  <2>0. \A j \in Instruments : Abs(risk.positions[j].net) \in Int
    BY DEF TypeOK, Risk, Position, Abs
  <2>1. ASSUME NEW i \in Instruments, NEW mid \in Mids, MarkTo(i, mid)
        PROVE  Shrinks
    <3>1. mid \in Int
      BY SessionAssumption
    <3>2. risk \in Risk /\ risk' = Mark(risk, i, mid)
      BY <2>1 DEF MarkTo, TypeOK
    <3>3. risk'.killed /\ \A j \in Instruments :
             risk'.positions[j].net = risk.positions[j].net
      BY <3>1, <3>2, MarkFacts
    <3> QED BY <2>0, <3>3
  <2>2. ASSUME NEW req \in Requests, NEW mid \in Mids, NEW fill \in Prices,
               Trade(req, mid, fill)
        PROVE  Shrinks
    <3> DEFINE i == req.instrument
               projected == risk.positions[i].net + Sign(req.side) * req.qty
    <3>1. /\ i \in Instruments /\ req.side \in OrderSides /\ req.qty \in Nat \ {0}
          /\ fill \in Int /\ mid \in Int
      BY RequestType, SessionAssumption DEF OrderRequest
    <3>2. Abs(projected) <= Abs(risk.positions[i].net)
      BY <2>2, <3>1, RequestType, CheckFacts DEF Trade, TypeOK
    <3>3. risk'.positions[i].net = projected /\ risk'.killed
      BY <2>2, <3>1, OnFillFacts DEF Trade, TypeOK
    <3>4. \A j \in Instruments \ {i} : risk'.positions[j] = risk.positions[j]
      BY <2>2, <3>1, OnFillFacts DEF Trade, TypeOK
    <3> QED BY <2>0, <3>2, <3>3, <3>4
  <2> QED BY <2>1, <2>2 DEF Next
<1> QED BY <1>1, SessionTypeCorrect, PTL DEF Spec, KilledOnlyShrinks

(* The books in balance, over common denominators: what BooksBalance says  *)
(* of the model's rationals, in the form each fill preserves.              *)
BooksAreExact == \A i \in Instruments : Balanced(risk.positions[i], Multiplier[i], cash[i])

LEMMA BooksStart == Init => BooksAreExact
BY NewBooksBalance DEF Init, BooksAreExact

LEMMA BooksStep == TypeOK /\ BooksAreExact /\ [Next]_vars => BooksAreExact'
<1> SUFFICES ASSUME TypeOK, BooksAreExact, [Next]_vars PROVE BooksAreExact'
  OBVIOUS
<1>1. ASSUME NEW i \in Instruments, NEW mid \in Mids, MarkTo(i, mid)
      PROVE  BooksAreExact'
  <2>1. /\ risk \in Risk /\ mid \in Int /\ risk' = Mark(risk, i, mid) /\ cash' = cash
    BY <1>1, SessionAssumption DEF MarkTo, TypeOK
  <2>2. \A j \in Instruments :
           /\ risk'.positions[j].net = risk.positions[j].net
           /\ risk'.positions[j].avg_px = risk.positions[j].avg_px
           /\ risk'.positions[j].realized = risk.positions[j].realized
    BY <2>1, MarkFacts
  <2> QED BY <2>1, <2>2 DEF BooksAreExact, Balanced
<1>2. ASSUME NEW req \in Requests, NEW mid \in Mids, NEW fill \in Prices,
             Trade(req, mid, fill)
      PROVE  BooksAreExact'
  <2> DEFINE i == req.instrument
             px == HalfUnits(fill)
             p == risk.positions[i]
             new == ApplyFill(p, req.side, req.qty, px, Multiplier[i])
             paid == Sign(req.side) * req.qty * px
  <2>1. /\ i \in Instruments /\ req.side \in OrderSides /\ req.qty \in Nat \ {0}
        /\ fill \in Int /\ px \in Int /\ Multiplier[i] \in Nat \ {0}
    BY RequestType, SessionAssumption, RiskConfigAssumption DEF OrderRequest, HalfUnits
  <2>2. /\ risk \in Risk /\ cash \in [Instruments -> Int] /\ p \in Position /\ cash[i] \in Int
        /\ risk' = OnFill(risk, i, req.side, req.qty, fill)
    BY <1>2, <2>1 DEF Trade, TypeOK, Risk
  <2> HIDE DEF px
  <2>3. Balanced(new, Multiplier[i], cash[i] - paid)
    BY <2>1, <2>2, ApplyFillBalances DEF BooksAreExact
  <2>4. /\ risk'.positions[i] = new
        /\ \A j \in Instruments \ {i} : risk'.positions[j] = risk.positions[j]
    <3> DEFINE s == req.side
               n == req.qty
    <3>1. s \in OrderSides /\ n \in Nat \ {0} /\ i \in Instruments
          /\ risk' = OnFill(risk, i, s, n, fill)
      BY <2>1, <2>2
    <3>2. new = ApplyFill(risk.positions[i], s, n, HalfUnits(fill), Multiplier[i])
      BY DEF px
    <3> HIDE DEF i, s, n, new
    <3>3. LET after == OnFill(risk, i, s, n, fill)
          IN  /\ after.positions[i]
                   = ApplyFill(risk.positions[i], s, n, HalfUnits(fill), Multiplier[i])
              /\ \A j \in Instruments \ {i} : after.positions[j] = risk.positions[j]
      <4>1. risk \in Risk /\ fill \in Int
        BY <2>1, <2>2
      <4>2. AfterFill(OnFill(risk, i, s, n, fill), risk, i, s, n, fill)
        BY <3>1, <4>1, OnFillFills
      <4> QED BY <4>2 DEF AfterFill
    <3> QED BY <3>1, <3>2, <3>3
  <2>5. cash' = [cash EXCEPT ![i] = cash[i] - paid]
    BY <1>2 DEF Trade, px
  <2> HIDE DEF new, paid, i
  <2>6. cash'[i] = cash[i] - paid /\ \A j \in Instruments \ {i} : cash'[j] = cash[j]
    BY <2>1, <2>2, <2>5
  <2>7. \A j \in Instruments : Balanced(risk'.positions[j], Multiplier[j], cash'[j])
    BY <2>3, <2>4, <2>6 DEF BooksAreExact
  <2> QED BY <2>7 DEF BooksAreExact
<1>3. CASE UNCHANGED vars
  BY <1>3 DEF vars, BooksAreExact
<1> QED BY <1>1, <1>2, <1>3 DEF Next

(* Average-cost accounting loses nothing, over any history of approved     *)
(* orders: on_fill's openings, additions, reductions, closes and flips     *)
(* leave realized PnL, less the cost of the open position, at exactly the  *)
(* cash that changed hands.                                                *)
THEOREM SessionBooksBalance == Spec => []BooksBalance
<1>1. TypeOK /\ BooksAreExact => BooksBalance
  <2> SUFFICES ASSUME TypeOK, BooksAreExact, NEW i \in Instruments
               PROVE  LET p == risk.positions[i]
                      IN  Sub(p.realized, Scale(p.avg_px, p.net * Multiplier[i]))
                            = FromInt(cash[i] * Multiplier[i])
    BY DEF BooksBalance
  <2>1. risk.positions[i] \in Position /\ Multiplier[i] \in Nat \ {0} /\ cash[i] \in Int
    BY RiskConfigAssumption DEF TypeOK, Risk
  <2> QED BY <2>1, BalancedValues DEF BooksAreExact
<1> QED BY <1>1, BooksStart, BooksStep, SessionTypeCorrect, PTL DEF Spec

(* The kill-switch is exact: after every mark and every fill it is latched *)
(* if and only if it was before, or the liquidation value of the account   *)
(* is now at or below minus the loss limit.                                *)
THEOREM SessionKillIsExact == Spec => KillExact
<1> DEFINE Exact == risk'.killed <=> (risk.killed \/ LiquidationValue' <= -DailyLossLimit)
           Refreshed == risk'.killed <=> \/ risk.killed
                                         \/ Leq(TotalPnl(risk'), FromInt(-DailyLossLimit))
<1>1. TypeOK /\ Next => Refreshed
  <2> SUFFICES ASSUME TypeOK, Next PROVE Refreshed
    OBVIOUS
  <2>1. ASSUME NEW i \in Instruments, NEW mid \in Mids, MarkTo(i, mid)
        PROVE  Refreshed
    <3>1. risk \in Risk /\ mid \in Int /\ risk' = Mark(risk, i, mid)
      BY <2>1, SessionAssumption DEF MarkTo, TypeOK
    <3> QED BY <3>1, MarkFacts
  <2>2. ASSUME NEW req \in Requests, NEW mid \in Mids, NEW fill \in Prices,
               Trade(req, mid, fill)
        PROVE  Refreshed
    <3>1. /\ req.instrument \in Instruments /\ req.side \in OrderSides
          /\ req.qty \in Nat \ {0} /\ fill \in Int
      BY RequestType, SessionAssumption DEF OrderRequest
    <3>2. risk \in Risk /\ risk' = OnFill(risk, req.instrument, req.side, req.qty, fill)
      BY <2>2 DEF Trade, TypeOK
    <3> QED BY <3>1, <3>2, OnFillFacts
  <2> QED BY <2>1, <2>2 DEF Next
<1>2. TypeOK' /\ BooksAreExact' =>
        (Leq(TotalPnl(risk'), FromInt(-DailyLossLimit)) <=> LiquidationValue' <= -DailyLossLimit)
  BY TotalPnlIsExact DEF TypeOK, BooksAreExact, LiquidationValue
<1>3. TypeOK /\ TypeOK' /\ BooksAreExact' /\ [Next]_vars => [Exact]_vars
  BY <1>1, <1>2
<1> QED BY <1>3, BooksStart, BooksStep, SessionTypeCorrect, PTL DEF Spec, KillExact
=============================================================================
