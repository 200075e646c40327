--------------------------- MODULE PipelineProofs ---------------------------
(***************************************************************************)
(* The safety of the hot path, for any instruments, packets, z-scores and  *)
(* settings: its state stays well formed, the positions follow the signal  *)
(* engine, accepted exits close, and the whole is a Desk.                  *)
(***************************************************************************)
EXTENDS Pipeline, StageProofs

-----------------------------------------------------------------------------
(* The order price *)

LEMMA RoundingCostsHalfAUnit ==
  ASSUME NEW half \in Int
  PROVE  ToPrice9(half) \in Int /\ Abs(HalfUnits(ToPrice9(half)) - half) <= 1
<1>1. CASE half < 0
  <2> DEFINE q == (1 - half) \div 2
  <2>1. q \in Int /\ 2 * q <= 1 - half /\ 1 - half <= 2 * q + 1
    OBVIOUS
  <2>2. ToPrice9(half) = -q
    BY <1>1 DEF ToPrice9
  <2> HIDE DEF q
  <2> QED BY <2>1, <2>2 DEF HalfUnits, Abs
<1>2. CASE half >= 0
  <2> DEFINE q == (half + 1) \div 2
  <2>1. q \in Int /\ 2 * q <= half + 1 /\ half + 1 <= 2 * q + 1
    OBVIOUS
  <2>2. ToPrice9(half) = q
    BY <1>2 DEF ToPrice9
  <2> HIDE DEF q
  <2> QED BY <2>1, <2>2 DEF HalfUnits, Abs
<1> QED BY <1>1, <1>2

LEMMA FillPxType ==
  ASSUME NEW side \in OrderSides, NEW px \in Int, NEW bbo \in Bbo
  PROVE  FillPx(side, px, bbo) \in Int
<1>1. bbo.offer_px_raw # None => bbo.offer_px_raw[1] \in Int
  BY OptionValue DEF Bbo
<1>2. bbo.bid_px_raw # None => bbo.bid_px_raw[1] \in Int
  BY OptionValue DEF Bbo
<1> QED BY <1>1, <1>2 DEF FillPx

-----------------------------------------------------------------------------
(* The steps of process *)

(* The instrument, mid and marked risk manager a sample works on. *)
LEMMA SampleFacts ==
  ASSUME TypeOK, HasMid
  PROVE  /\ Inst \in Instruments
         /\ last[1].bbo \in Bbo /\ TwoSided(last[1].bbo)
         /\ TickMid \in Int
         /\ Marked \in Risk
         /\ \A j \in Instruments :
               Marked.positions[j].net = risk.positions[j].net
         /\ risk.killed => Marked.killed
<1>1. last[1] \in BookUpdate
  BY OptionValue DEF TypeOK, HasMid
<1>2. Inst \in Instruments /\ last[1].bbo \in Bbo
  BY <1>1 DEF Inst, BookUpdate
<1>3. TickMid \in Int
  BY <1>2, MidType DEF HasMid, TickMid
<1>4. risk \in Risk
  BY DEF TypeOK
<1> QED BY <1>2, <1>3, <1>4, MarkFacts DEF Marked, HasMid

(* The order a fired signal becomes. *)
LEMMA OrderFacts ==
  ASSUME TypeOK, HasMid, NEW z \in Int, Fired(engine, Inst, z) # None
  PROVE  LET req == OrderFor(Fired(engine, Inst, z)[1])
         IN  /\ req \in OrderRequest
             /\ req.instrument = Inst
             /\ req.qty = OrderQty
             /\ Sign(req.side) = Direction(Moved(engine[Inst], z)) - Direction(engine[Inst].pos)
             /\ req.px_raw = ToPrice9(TickMid)
             /\ FillPx(req.side, req.px_raw, last[1].bbo) \in Int
<1> DEFINE sig == Fired(engine, Inst, z)[1]
           req == OrderFor(sig)
<1>1. Inst \in Instruments /\ TickMid \in Int /\ last[1].bbo \in Bbo
  BY SampleFacts
<1>2. engine \in Engine
  BY DEF TypeOK
<1>3. /\ sig.side \in OrderSides
      /\ Sign(sig.side) = Direction(Moved(engine[Inst], z)) - Direction(engine[Inst].pos)
  BY <1>1, <1>2, FiredFacts
<1>4. ToPrice9(TickMid) \in Int
  BY <1>1, RoundingCostsHalfAUnit
<1>5. req = [instrument |-> Inst, side |-> sig.side, qty |-> OrderQty,
             px_raw |-> ToPrice9(TickMid)]
  BY DEF OrderFor
<1> HIDE DEF sig, req
<1>6. /\ req \in OrderRequest /\ req.instrument = Inst /\ req.side = sig.side
      /\ req.qty = OrderQty /\ req.px_raw = ToPrice9(TickMid)
  BY <1>1, <1>3, <1>4, <1>5, PipelineAssumption DEF OrderRequest
<1>7. FillPx(req.side, req.px_raw, last[1].bbo) \in Int
  BY <1>1, <1>3, <1>4, <1>6, FillPxType
<1> QED BY <1>3, <1>6, <1>7 DEF sig, req

(* What fits of a packet. *)
LEMMA CapFacts ==
  ASSUME NEW packet \in Packets
  PROVE  Cap(packet) \in Seq(MdEntry(Int)) /\ Len(Cap(packet)) <= MaxEntries
<1> DEFINE n == Min({Len(packet), MaxEntries})
<1>1. packet \in Seq(MdEntry(Int)) /\ MaxEntries \in Nat
  BY PipelineAssumption
<1>2. Len(packet) \in Nat
  BY <1>1, LenProperties
<1>3. {Len(packet), MaxEntries} \in SUBSET Nat /\ {Len(packet), MaxEntries} # {}
  BY <1>1, <1>2
<1>4. n \in Nat /\ n <= Len(packet) /\ n <= MaxEntries
  BY <1>1, <1>2, <1>3, MinOfNats
<1> HIDE DEF n
<1>5. \A k \in 1 .. n : packet[k] \in MdEntry(Int)
  BY <1>1, <1>2, <1>4, LenProperties, ElementOfSeq
<1>6. /\ SubSeq(packet, 1, n) \in Seq(MdEntry(Int))
      /\ Len(SubSeq(packet, 1, n)) = IF 1 <= n THEN n - 1 + 1 ELSE 0
  BY <1>4, <1>5, SubSeqProperties
<1>7. Len(SubSeq(packet, 1, n)) = n
  BY <1>4, <1>6
<1> QED BY <1>4, <1>6, <1>7 DEF Cap, n

(* Counting. *)
LEMMA CountingType ==
  ASSUME NEW g \in Gateway, NEW m \in Metrics
  PROVE  /\ Submit(g) \in Gateway
         /\ [m EXCEPT !.ticks = @ + 1] \in Metrics
         /\ [m EXCEPT !.orders = @ + 1] \in Metrics
         /\ [m EXCEPT !.rejects = @ + 1] \in Metrics
<1>1. Submit(g) \in Gateway
  <2>1. g.next_id + 1 \in Nat \ {0} /\ g.accepted + 1 \in Nat
    BY DEF Gateway
  <2> QED BY <2>1 DEF Submit, Gateway
<1>2. [m EXCEPT !.ticks = @ + 1] \in Metrics
  BY DEF Metrics
<1>3. [m EXCEPT !.orders = @ + 1] \in Metrics
  BY DEF Metrics
<1>4. [m EXCEPT !.rejects = @ + 1] \in Metrics
  BY DEF Metrics
<1> QED BY <1>1, <1>2, <1>3, <1>4

(* The type is inductive. *)
LEMMA InitType == Init => TypeOK
<1> SUFFICES ASSUME Init PROVE TypeOK
  OBVIOUS
<1>1. entries = <<>> /\ last = None /\ fill = None
  BY DEF Init
<1>2. entries \in Seq(MdEntry(Int)) /\ Len(entries) <= MaxEntries
  BY <1>1, EmptySeq, PipelineAssumption
<1>3. last \in Option(BookUpdate) /\ fill \in Option(Fill)
  BY <1>1, EmptySeq DEF None, Option
<1>4. gateway \in Gateway /\ metrics \in Metrics /\ stage \in {"Idle", "Book"}
  BY DEF Init, GatewayNew, Gateway, Metrics
<1> QED BY <1>2, <1>3, <1>4, BookNewType, SignalNewType, RiskNewType DEF Init, TypeOK

LEMMA NextType == TypeOK /\ [Next]_vars => TypeOK'
<1> SUFFICES ASSUME TypeOK, [Next]_vars PROVE TypeOK'
  OBVIOUS
<1>1. ASSUME NEW packet \in Packets, Decode(packet) PROVE TypeOK'
  <2>1. last' \in Option(BookUpdate)
    BY <1>1, EmptySeq DEF Decode, None, Option
  <2> QED BY <1>1, <2>1, CapFacts DEF Decode, TypeOK
<1>2. CASE BookEntry
  <2>1. entries \in Seq(MdEntry(Int)) /\ entries # <<>> /\ Len(entries) <= MaxEntries
    BY <1>2 DEF BookEntry, TypeOK
  <2>2. /\ Head(entries) \in MdEntry(Int)
        /\ Tail(entries) \in Seq(MdEntry(Int))
        /\ Len(Tail(entries)) = Len(entries) - 1
    BY <2>1, HeadTailProperties
  <2>3. Len(entries) \in Nat
    BY <2>1, LenProperties
  <2>4. entries' \in Seq(MdEntry(Int)) /\ Len(entries') <= MaxEntries
    BY <1>2, <2>1, <2>2, <2>3, PipelineAssumption DEF BookEntry
  <2>5. book' \in Books
    BY <1>2, <2>2, ApplyToBooksType DEF BookEntry, TypeOK
  <2>6. last' \in Option(BookUpdate)
    <3> DEFINE id == Head(entries).security_id
               u == [instrument |-> id, bbo |-> BboOf(book'[id])]
    <3>1. CASE id \in Instruments
      <4>1. book'[id] \in InstrumentBook
        BY <2>5, <3>1 DEF Books
      <4>2. u \in BookUpdate
        BY <3>1, <4>1, BboType DEF BookUpdate
      <4>3. last' = Some(u)
        BY <1>2, <3>1 DEF BookEntry
      <4> QED BY <4>2, <4>3, SomeType
    <3>2. CASE id \notin Instruments
      BY <1>2, <3>2 DEF BookEntry, TypeOK
    <3> QED BY <3>1, <3>2
  <2> QED BY <1>2, <2>4, <2>5, <2>6 DEF BookEntry, TypeOK
<1>3. CASE NoMid
  BY <1>3 DEF NoMid, Recorded, Metrics, TypeOK
<1>4. ASSUME NEW z \in ZScores, NEW has_std \in BOOLEAN,
             Quiet(z, has_std) \/ Rejected(z, has_std) \/ Ordered(z, has_std)
      PROVE  TypeOK'
  <2>1. z \in Int
    BY PipelineAssumption
  <2>2. Sampled(z, has_std) /\ HasMid
    BY <1>4 DEF Quiet, Rejected, Ordered, Sampled
  <2>3. Inst \in Instruments /\ Marked \in Risk
    BY <2>2, SampleFacts
  <2>4. engine' \in Engine
    BY <2>1, <2>2, <2>3, UpdateFacts DEF Sampled, TypeOK
  <2>5. /\ entries' \in Seq(MdEntry(Int)) /\ Len(entries') <= MaxEntries
        /\ last' \in Option(BookUpdate) /\ book' \in Books
    BY <2>2 DEF Sampled, TypeOK
  <2>6. CASE Quiet(z, has_std)
    BY <2>3, <2>4, <2>5, <2>6 DEF Quiet, Recorded, Metrics, TypeOK
  <2>7. CASE Rejected(z, has_std)
    <3>1. stage' = "Idle" /\ risk' = Marked /\ gateway' = gateway /\ fill' = fill
      BY <2>7 DEF Rejected, Recorded
    <3>2. metrics' = [[metrics EXCEPT !.rejects = @ + 1] EXCEPT !.ticks = @ + 1]
      BY <2>7 DEF Rejected, Recorded
    <3>3. metrics' \in Metrics
      BY <3>2, CountingType DEF TypeOK
    <3> QED BY <2>3, <2>4, <2>5, <3>1, <3>3 DEF TypeOK
  <2>8. CASE Ordered(z, has_std)
    <3> DEFINE req == OrderFor(Fired(engine, Inst, z)[1])
               px == FillPx(req.side, req.px_raw, last[1].bbo)
               f == [side |-> req.side, px_raw |-> px, bbo |-> last[1].bbo]
    <3>1. Fired(engine, Inst, z) # None
      BY <2>8 DEF Ordered
    <3>2. req \in OrderRequest /\ px \in Int
      BY <2>1, <2>2, <3>1, OrderFacts
    <3>3. /\ req.instrument \in Instruments /\ req.side \in OrderSides
          /\ req.qty \in Nat \ {0}
      BY <3>2 DEF OrderRequest
    <3>4. last[1].bbo \in Bbo
      BY <2>2, SampleFacts
    <3>5. /\ risk' = OnFill(Marked, req.instrument, req.side, req.qty, px)
          /\ stage' = "Idle"
          /\ metrics' = [[metrics EXCEPT !.orders = @ + 1] EXCEPT !.ticks = @ + 1]
          /\ gateway' = Submit(gateway) /\ fill' = Some(f)
      BY <2>8 DEF Ordered, Filled, Recorded
    <3>6. f \in Fill
      BY <3>2, <3>3, <3>4 DEF Fill
    <3> HIDE DEF req, px, f
    <3>7. risk' \in Risk
      BY <2>3, <3>2, <3>3, <3>5, OnFillFacts
    <3>8. gateway' \in Gateway /\ metrics' \in Metrics
      BY <3>5, CountingType DEF TypeOK
    <3>9. fill' \in Option(Fill)
      BY <3>5, <3>6, SomeType
    <3> QED BY <2>4, <2>5, <3>5, <3>7, <3>8, <3>9 DEF TypeOK
  <2> QED BY <1>4, <2>6, <2>7, <2>8
<1>5. CASE UNCHANGED vars
  BY <1>5 DEF vars, TypeOK
<1> QED BY <1>1, <1>2, <1>3, <1>4, <1>5 DEF Next

(* The hot path keeps its state well formed through every packet: ladders  *)
(* within MaxDepth, positions and their averages exact, no more entries    *)
(* pending than a packet may bring.                                        *)
THEOREM PipelineTypeCorrect == Spec => []TypeOK
<1> QED BY InitType, NextType, PTL DEF Spec

-----------------------------------------------------------------------------
(* Positions and signals *)

(* A tradable order fails no check but the kill-switch, and that one only  *)
(* when it would grow the position.                                        *)
LEMMA TradableCheck ==
  ASSUME Tradable, NEW rm \in Risk, NEW req \in OrderRequest, NEW mid \in Int,
         req.px_raw = ToPrice9(mid), Abs(Projected(rm, req)) <= OrderQty,
         Check(rm, req, mid) # "Ok"
  PROVE  rm.killed /\ Abs(Projected(rm, req)) > Abs(NetPosition(rm, req.instrument))
<1>1. Abs(HalfUnits(req.px_raw) - mid) <= 1
  BY RoundingCostsHalfAUnit
<1>2. /\ Abs(HalfUnits(req.px_raw) - mid) \in Int
      /\ PriceBand \in Int /\ PriceBand >= 1
  BY RiskConfigAssumption DEF Tradable, OrderRequest, HalfUnits, Abs
<1>3. ~ (Abs(HalfUnits(req.px_raw) - mid) > PriceBand)
  BY <1>1, <1>2
<1>4. rm.positions[req.instrument] \in Position /\ req.instrument \in Instruments
  BY DEF Risk, OrderRequest
<1>5. Projected(rm, req) \in Int
  BY <1>4 DEF Projected, NetPosition, OrderRequest, Position, Sign
<1>6. Abs(Projected(rm, req)) \in Int
  BY <1>5 DEF Abs
<1>7. ~ (Abs(Projected(rm, req)) > PositionLimit)
  BY <1>6, RiskConfigAssumption, PipelineAssumption DEF Tradable
<1> QED BY <1>3, <1>7, Zenon DEF Check

(* What a fired signal asks of the position: believed before it, believed  *)
(* after it, and the position the order would lead to.                     *)
LEMMA SignalMoves ==
  ASSUME TypeOK, PositionFollowsSignal, HasMid,
         NEW z \in Int, Fired(engine, Inst, z) # None
  PROVE  LET held == risk.positions[Inst].net
             from == engine[Inst].pos
             to == Moved(engine[Inst], z)
             req == OrderFor(Fired(engine, Inst, z)[1])
             projected == Projected(Marked, req)
         IN  /\ held \in Int /\ NetPosition(Marked, req.instrument) = held
             /\ \/ /\ from = Flat /\ to \in {Long, Short}
                   /\ held = 0 /\ projected = OrderQty * Direction(to)
                   /\ projected \in {OrderQty, -OrderQty}
                \/ /\ from \in {Long, Short} /\ to = Flat
                   /\ held \in {OrderQty, -OrderQty} /\ projected = 0
                \/ /\ from \in {Long, Short} /\ to = Flat
                   /\ held = 0 /\ projected \in {OrderQty, -OrderQty}
                   /\ risk.killed
<1> DEFINE held == risk.positions[Inst].net
           from == engine[Inst].pos
           to == Moved(engine[Inst], z)
           req == OrderFor(Fired(engine, Inst, z)[1])
           projected == Projected(Marked, req)
<1>1. Inst \in Instruments /\ Marked.positions[Inst].net = held
  BY SampleFacts
<1>2. engine \in Engine /\ engine[Inst] \in SignalState /\ risk.positions[Inst] \in Position
  BY <1>1 DEF TypeOK, Engine, Risk
<1>3. held \in Int
  BY <1>2 DEF Position
<1>4. /\ from \in {Flat, Long, Short} /\ to \in {Flat, Long, Short}
      /\ from = to \/ from = Flat \/ to = Flat
  BY <1>2, MovedFacts DEF SignalState
<1>5. from # to
  BY <1>1, <1>2, FiredFacts
<1>6. /\ req.instrument = Inst /\ req.qty = OrderQty
      /\ Sign(req.side) = Direction(to) - Direction(from)
  BY OrderFacts
<1>7. NetPosition(Marked, req.instrument) = held
  BY <1>1, <1>6 DEF NetPosition
<1>8. projected = held + (Direction(to) - Direction(from)) * OrderQty
  BY <1>6, <1>7 DEF Projected
<1>9. held \in {0, OrderQty * Direction(from)} /\ (~ risk.killed => held = OrderQty * Direction(from))
  BY <1>1 DEF PositionFollowsSignal
<1>10. OrderQty \in Int /\ OrderQty > 0
  BY PipelineAssumption
<1> HIDE DEF held, from, to, req, projected
<1>11. CASE from = Flat
  <2>1. to \in {Long, Short} /\ Direction(from) = 0
    BY <1>4, <1>5, <1>11 DEF Direction, Flat, Long, Short
  <2>2. held = 0
    BY <1>9, <1>10, <2>1
  <2>3. Direction(to) \in {1, -1}
    BY <2>1 DEF Direction, Flat, Long, Short
  <2>4. projected = OrderQty * Direction(to) /\ projected \in {OrderQty, -OrderQty}
    BY <1>8, <1>10, <2>1, <2>2, <2>3
  <2> QED BY <1>3, <1>7, <1>11, <2>1, <2>2, <2>4 DEF held, from, to, req, projected
<1>12. CASE from # Flat
  <2>1. from \in {Long, Short} /\ to = Flat /\ Direction(to) = 0
    BY <1>4, <1>5, <1>12 DEF Direction, Flat, Long, Short
  <2>2. Direction(from) \in {1, -1}
    BY <2>1 DEF Direction, Flat, Long, Short
  <2>3. CASE held = OrderQty * Direction(from)
    <3>1. held \in {OrderQty, -OrderQty} /\ projected = 0
      BY <1>8, <1>10, <2>1, <2>2, <2>3
    <3> QED BY <1>3, <1>7, <2>1, <3>1 DEF held, from, to, req, projected
  <2>4. CASE held # OrderQty * Direction(from)
    <3>1. held = 0 /\ risk.killed
      BY <1>9, <2>4
    <3>2. projected \in {OrderQty, -OrderQty}
      BY <1>8, <1>10, <2>1, <2>2, <3>1
    <3> QED BY <1>3, <1>7, <2>1, <3>1, <3>2 DEF held, from, to, req, projected
  <2> QED BY <2>3, <2>4
<1> QED BY <1>11, <1>12

(* An accepted order opens from flat, with the kill-switch open, or closes *)
(* to flat.                                                                *)
LEMMA OrderedMoves ==
  ASSUME TypeOK, PositionFollowsSignal,
         NEW z \in Int, NEW has_std \in BOOLEAN, Ordered(z, has_std)
  PROVE  LET from == engine[Inst].pos
             to == Moved(engine[Inst], z)
         IN  /\ Inst \in Instruments
             /\ \/ /\ from = Flat /\ to \in {Long, Short} /\ ~ risk.killed
                   /\ risk.positions[Inst].net = 0
                   /\ risk'.positions[Inst].net = OrderQty * Direction(to)
                \/ /\ from \in {Long, Short} /\ to = Flat
                   /\ risk.positions[Inst].net \in {OrderQty, -OrderQty}
                   /\ risk'.positions[Inst].net = 0
             /\ \A j \in Instruments \ {Inst} :
                   risk'.positions[j].net = risk.positions[j].net
             /\ risk.killed => risk'.killed
<1> DEFINE from == engine[Inst].pos
           to == Moved(engine[Inst], z)
           held == risk.positions[Inst].net
           req == OrderFor(Fired(engine, Inst, z)[1])
           projected == Projected(Marked, req)
           px == FillPx(req.side, req.px_raw, last[1].bbo)
<1>1. HasMid /\ Fired(engine, Inst, z) # None /\ Check(Marked, req, TickMid) = "Ok"
  BY DEF Ordered, Sampled
<1>2. risk' = OnFill(Marked, req.instrument, req.side, req.qty, px)
  BY DEF Ordered, Filled
<1>3. /\ Inst \in Instruments /\ TickMid \in Int /\ Marked \in Risk
      /\ \A j \in Instruments : Marked.positions[j].net = risk.positions[j].net
      /\ risk.killed => Marked.killed
  BY <1>1, SampleFacts
<1>4. req \in OrderRequest /\ req.instrument = Inst /\ px \in Int
  BY <1>1, OrderFacts
<1>5. req.side \in OrderSides /\ req.qty \in Nat \ {0}
  BY <1>4 DEF OrderRequest
<1>6. \/ /\ from = Flat /\ to \in {Long, Short}
         /\ held = 0 /\ projected = OrderQty * Direction(to)
         /\ projected \in {OrderQty, -OrderQty}
      \/ /\ from \in {Long, Short} /\ to = Flat
         /\ held \in {OrderQty, -OrderQty} /\ projected = 0
      \/ /\ from \in {Long, Short} /\ to = Flat
         /\ held = 0 /\ projected \in {OrderQty, -OrderQty}
         /\ risk.killed
  BY <1>1, SignalMoves
<1>7. projected = Marked.positions[Inst].net + Sign(req.side) * req.qty
  BY <1>3, <1>4 DEF Projected, NetPosition
<1> HIDE DEF from, to, held, req, projected, px
<1>8. Marked.killed => Abs(projected) <= Abs(held)
  <2>1. Marked.killed => Abs(projected) <= Abs(Marked.positions[Inst].net)
    BY <1>1, <1>3, <1>4, <1>7, CheckFacts
  <2> QED BY <1>3, <2>1 DEF held
<1>9. /\ risk'.positions[Inst].net = projected
      /\ \A j \in Instruments \ {Inst} : risk'.positions[j] = Marked.positions[j]
      /\ Marked.killed => risk'.killed
  BY <1>2, <1>3, <1>4, <1>5, <1>7, OnFillFacts
<1>10. \A j \in Instruments \ {Inst} : risk'.positions[j].net = risk.positions[j].net
  BY <1>3, <1>9
<1>11. OrderQty \in Int /\ OrderQty > 0
  BY PipelineAssumption
<1>12. held = 0 /\ projected \in {OrderQty, -OrderQty} => ~ Marked.killed
  BY <1>8, <1>11 DEF Abs
<1> QED BY <1>3, <1>6, <1>9, <1>10, <1>12 DEF from, to, held, req, projected, px

(* Under tradable settings a rejected signal finds the kill-switch latched *)
(* and leaves the instrument flat.                                         *)
LEMMA RejectedLeavesFlat ==
  ASSUME Tradable, TypeOK, PositionFollowsSignal,
         NEW z \in Int, NEW has_std \in BOOLEAN, Rejected(z, has_std)
  PROVE  Marked.killed /\ risk.positions[Inst].net = 0
<1> DEFINE held == risk.positions[Inst].net
           req == OrderFor(Fired(engine, Inst, z)[1])
           projected == Projected(Marked, req)
<1>1. HasMid /\ Fired(engine, Inst, z) # None /\ Check(Marked, req, TickMid) # "Ok"
  BY DEF Rejected, Sampled
<1>2. TickMid \in Int /\ Marked \in Risk
  BY <1>1, SampleFacts
<1>3. req \in OrderRequest /\ req.px_raw = ToPrice9(TickMid)
  BY <1>1, OrderFacts
<1>4. /\ NetPosition(Marked, req.instrument) = held
      /\ \/ held = 0 /\ projected \in {OrderQty, -OrderQty}
         \/ held \in {OrderQty, -OrderQty} /\ projected = 0
  BY <1>1, SignalMoves
<1>5. OrderQty \in Int /\ OrderQty > 0
  BY PipelineAssumption
<1> HIDE DEF held, req, projected
<1>6. Abs(projected) <= OrderQty
  BY <1>4, <1>5 DEF Abs
<1>7. Marked.killed /\ Abs(projected) > Abs(held)
  BY <1>1, <1>2, <1>3, <1>4, <1>6, TradableCheck DEF projected
<1> QED BY <1>4, <1>5, <1>7 DEF Abs, held

(* Where a sample leaves the engine's positions. *)
LEMMA SampledMoves ==
  ASSUME TypeOK, NEW z \in Int, NEW has_std \in BOOLEAN, Sampled(z, has_std)
  PROVE  /\ Inst \in Instruments
         /\ engine'[Inst].pos = Moved(engine[Inst], z)
         /\ \A j \in Instruments \ {Inst} : engine'[j] = engine[j]
<1>1. HasMid /\ engine' = Update(engine, Inst, z, has_std)
  BY DEF Sampled
<1>2. Inst \in Instruments /\ engine \in Engine
  BY <1>1, SampleFacts DEF TypeOK
<1> QED BY <1>1, <1>2, UpdateFacts

LEMMA NextFollows ==
  ASSUME Tradable, TypeOK, PositionFollowsSignal, [Next]_vars
  PROVE  PositionFollowsSignal'
<1>0. /\ Direction(Flat) = 0 /\ OrderQty * 0 = 0
      /\ risk \in Risk
  BY PipelineAssumption DEF Direction, TypeOK, Flat, Long, Short
<1>1. ASSUME UNCHANGED <<engine, risk>> PROVE PositionFollowsSignal'
  BY <1>1 DEF PositionFollowsSignal
<1>2. ASSUME NEW z \in Int, NEW has_std \in BOOLEAN, Quiet(z, has_std)
      PROVE  PositionFollowsSignal'
  <2>1. Sampled(z, has_std) /\ HasMid /\ Fired(engine, Inst, z) = None /\ risk' = Marked
    BY <1>2 DEF Quiet, Sampled
  <2>2. /\ Inst \in Instruments
        /\ \A j \in Instruments : risk'.positions[j].net = risk.positions[j].net
        /\ risk.killed => risk'.killed
    BY <2>1, SampleFacts
  <2>3. engine[Inst].pos = Moved(engine[Inst], z)
    BY <2>1, <2>2, FiredFacts DEF TypeOK
  <2>4. \A j \in Instruments : engine'[j].pos = engine[j].pos
    BY <2>1, <2>3, SampledMoves
  <2> QED BY <2>2, <2>4 DEF PositionFollowsSignal
<1>3. ASSUME NEW z \in Int, NEW has_std \in BOOLEAN, Rejected(z, has_std)
      PROVE  PositionFollowsSignal'
  <2>1. Sampled(z, has_std) /\ HasMid /\ Fired(engine, Inst, z) # None /\ risk' = Marked
    BY <1>3 DEF Rejected, Sampled
  <2>2. /\ Inst \in Instruments
        /\ \A j \in Instruments : risk'.positions[j].net = risk.positions[j].net
        /\ risk.killed => risk'.killed
    BY <2>1, SampleFacts
  <2>3. risk'.killed /\ risk'.positions[Inst].net = 0
    BY <1>3, <2>1, <2>2, RejectedLeavesFlat
  <2>4. \A j \in Instruments \ {Inst} : engine'[j] = engine[j]
    BY <2>1, SampledMoves
  <2> QED BY <2>2, <2>3, <2>4 DEF PositionFollowsSignal
<1>4. ASSUME NEW z \in Int, NEW has_std \in BOOLEAN, Ordered(z, has_std)
      PROVE  PositionFollowsSignal'
  <2>1. Sampled(z, has_std)
    BY <1>4 DEF Ordered
  <2>2. /\ engine'[Inst].pos = Moved(engine[Inst], z)
        /\ \A j \in Instruments \ {Inst} : engine'[j] = engine[j]
    BY <2>1, SampledMoves
  <2>3. /\ Inst \in Instruments
        /\ risk'.positions[Inst].net = OrderQty * Direction(Moved(engine[Inst], z))
        /\ \A j \in Instruments \ {Inst} : risk'.positions[j].net = risk.positions[j].net
        /\ risk.killed => risk'.killed
    BY <1>0, <1>4, OrderedMoves
  <2> QED BY <2>2, <2>3 DEF PositionFollowsSignal
<1>5. CASE UNCHANGED vars
  BY <1>1, <1>5 DEF vars
<1>6. CASE Next
  <2>1. ASSUME NEW packet \in Packets, Decode(packet) PROVE PositionFollowsSignal'
    BY <1>1, <2>1 DEF Decode
  <2>2. CASE BookEntry
    BY <1>1, <2>2 DEF BookEntry
  <2>3. CASE NoMid
    BY <1>1, <2>3 DEF NoMid
  <2>4. ZScores \subseteq Int
    BY PipelineAssumption
  <2> QED BY <1>2, <1>3, <1>4, <1>6, <2>1, <2>2, <2>3, <2>4 DEF Next
<1> QED BY <1>5, <1>6

LEMMA InitFollows == Init => PositionFollowsSignal
<1>1. OrderQty * Direction(Flat) = 0
  BY PipelineAssumption DEF Direction, Flat, Long, Short
<1> SUFFICES ASSUME Init, NEW i \in Instruments
             PROVE  LET held == risk.positions[i].net
                        believed == OrderQty * Direction(engine[i].pos)
                    IN  held \in {0, believed} /\ (~ risk.killed => held = believed)
  BY DEF PositionFollowsSignal
<1>2. risk.positions[i].net = 0
  BY DEF Init, RiskNew
<1>3. engine[i].pos = Flat
  BY DEF Init, SignalNew
<1> QED BY <1>1, <1>2, <1>3

(* Whatever the packets and the z-scores, the risk manager's positions are *)
(* those the signal engine believes it holds until the kill-switch         *)
(* latches, and after that they are flat or what it believes.              *)
THEOREM PositionsFollowSignals ==
  ASSUME Tradable
  PROVE  Spec => []PositionFollowsSignal
<1>1. TypeOK /\ PositionFollowsSignal /\ [Next]_vars => PositionFollowsSignal'
  BY NextFollows
<1> QED BY <1>1, InitFollows, PipelineTypeCorrect, PTL DEF Spec

(* An accepted exit takes the instrument from a position to flat: none is  *)
(* sent for an entry that was rejected.                                    *)
THEOREM AcceptedExitsClose ==
  ASSUME Tradable
  PROVE  Spec => ExitsClose
<1> DEFINE Closes ==
       \A i \in Instruments :
          engine[i].pos # Flat /\ engine'[i].pos = Flat /\ gateway' # gateway
          => risk.positions[i].net # 0 /\ risk'.positions[i].net = 0
<1>1. TypeOK /\ PositionFollowsSignal /\ [Next]_vars => [Closes]_vars
  <2> SUFFICES ASSUME TypeOK, PositionFollowsSignal, Next, gateway' # gateway
               PROVE  Closes
    OBVIOUS
  <2>1. PICK z \in ZScores, has_std \in BOOLEAN : Ordered(z, has_std)
    BY DEF Next, Decode, BookEntry, NoMid, Quiet, Rejected
  <2>2. z \in Int /\ OrderQty \in Int /\ OrderQty > 0
    BY PipelineAssumption
  <2>3. Sampled(z, has_std)
    BY <2>1 DEF Ordered
  <2>4. /\ engine'[Inst].pos = Moved(engine[Inst], z)
        /\ \A j \in Instruments \ {Inst} : engine'[j] = engine[j]
    BY <2>2, <2>3, SampledMoves
  <2>5. engine[Inst].pos # Flat =>
           /\ risk.positions[Inst].net \in {OrderQty, -OrderQty}
           /\ risk'.positions[Inst].net = 0
    BY <2>1, <2>2, OrderedMoves
  <2> QED BY <2>2, <2>4, <2>5
<1> QED BY <1>1, PipelineTypeCorrect, PositionsFollowSignals, PTL DEF Spec, ExitsClose

-----------------------------------------------------------------------------
(* Refinement *)

(* Whatever the packets, the hot path is a trading desk: of its steps only *)
(* an accepted order moves a position, to open or to close, and only a     *)
(* mark or a fill halts it, for good.                                      *)
THEOREM PipelineImplementsDesk ==
  ASSUME Tradable
  PROVE  Spec => ImplementsDesk
<1> DEFINE nets == [i \in Instruments |-> risk.positions[i].net]
<1>1. Init => TheDesk!Init
  <2> SUFFICES ASSUME Init PROVE TheDesk!Init
    OBVIOUS
  <2>1. risk.killed = FALSE
    BY DEF Init, RiskNew
  <2>2. \A i \in Instruments : risk.positions[i].net = 0
    BY DEF Init, RiskNew
  <2> QED BY <2>1, <2>2 DEF TheDesk!Init
<1>2. TypeOK /\ PositionFollowsSignal /\ [Next]_vars => [TheDesk!Next]_(TheDesk!vars)
  <2> SUFFICES ASSUME TypeOK, PositionFollowsSignal, [Next]_vars
               PROVE  [TheDesk!Next]_(TheDesk!vars)
    OBVIOUS
  <2>1. ASSUME risk' = risk PROVE [TheDesk!Next]_(TheDesk!vars)
    BY <2>1 DEF TheDesk!vars
  <2>2. risk \in Risk /\ risk.killed \in BOOLEAN
    BY DEF TypeOK, Risk
  <2>3. risk' \in Risk /\ risk'.killed \in BOOLEAN
    BY NextType DEF TypeOK, Risk
  <2>4. ASSUME HasMid, risk' = Marked PROVE [TheDesk!Next]_(TheDesk!vars)
    <3>1. /\ \A j \in Instruments : risk'.positions[j].net = risk.positions[j].net
          /\ risk.killed => risk'.killed
      BY <2>4, SampleFacts
    <3>2. nets' = nets
      BY <3>1
    <3>3. risk'.killed = risk.killed \/ risk'.killed = TRUE
      BY <2>2, <2>3, <3>1
    <3> QED BY <3>2, <3>3 DEF TheDesk!Next, TheDesk!Halt, TheDesk!vars
  <2>5. ASSUME NEW z \in Int, NEW has_std \in BOOLEAN, Ordered(z, has_std)
        PROVE  [TheDesk!Next]_(TheDesk!vars)
    <3>1. PICK i \in Instruments : i = Inst
      BY <2>5, OrderedMoves
    <3>2. /\ \A j \in Instruments \ {Inst} :
               risk'.positions[j].net = risk.positions[j].net
          /\ risk.killed => risk'.killed
      BY <2>5, OrderedMoves
    <3>3. nets' = [nets EXCEPT ![i] = risk'.positions[Inst].net]
      BY <3>1, <3>2
    <3>4. TheDesk!MayHalt
      BY <2>2, <2>3, <3>2 DEF TheDesk!MayHalt
    <3>5. CASE /\ ~ risk.killed
               /\ risk.positions[Inst].net = 0
               /\ risk'.positions[Inst].net = OrderQty * Direction(Moved(engine[Inst], z))
               /\ Moved(engine[Inst], z) \in {Long, Short}
      <4>1. /\ Direction(Moved(engine[Inst], z)) \in {-1, 1}
            /\ OrderQty \in Int
        BY <3>5, PipelineAssumption DEF Direction, Flat, Long, Short
      <4>2. PICK dir \in {-1, 1} : risk'.positions[Inst].net = dir * OrderQty
        BY <3>5, <4>1
      <4>3. nets' = [nets EXCEPT ![i] = dir * OrderQty]
        BY <3>3, <4>2
      <4>4. TheDesk!Open(i)
        BY <3>1, <3>4, <3>5, <4>3 DEF TheDesk!Open
      <4>5. TheDesk!Next
        BY <4>4 DEF TheDesk!Next
      <4> QED BY <4>5
    <3>6. CASE /\ risk.positions[Inst].net \in {OrderQty, -OrderQty}
               /\ risk'.positions[Inst].net = 0
      <4>1. risk.positions[Inst].net # 0
        BY <3>6, PipelineAssumption
      <4>2. TheDesk!Close(i)
        BY <3>1, <3>3, <3>4, <3>6, <4>1 DEF TheDesk!Close
      <4>3. TheDesk!Next
        BY <4>2 DEF TheDesk!Next
      <4> QED BY <4>3
    <3> QED BY <2>5, <3>5, <3>6, OrderedMoves
  <2>6. CASE UNCHANGED vars
    BY <2>1, <2>6 DEF vars
  <2>7. CASE Next
    <3>1. ASSUME NEW packet \in Packets, Decode(packet) PROVE risk' = risk
      BY <3>1 DEF Decode
    <3>2. BookEntry \/ NoMid => risk' = risk
      BY DEF BookEntry, NoMid
    <3>3. ASSUME NEW z \in ZScores, NEW has_std \in BOOLEAN,
                 Quiet(z, has_std) \/ Rejected(z, has_std)
          PROVE  HasMid /\ risk' = Marked
      BY <3>3 DEF Quiet, Rejected, Sampled
    <3>4. ZScores \subseteq Int
      BY PipelineAssumption
    <3>5. \/ \E packet \in Packets : Decode(packet)
          \/ BookEntry \/ NoMid
          \/ \E z \in ZScores, has_std \in BOOLEAN :
                Quiet(z, has_std) \/ Rejected(z, has_std) \/ Ordered(z, has_std)
      BY <2>7 DEF Next
    <3>6. \/ risk' = risk
          \/ HasMid /\ risk' = Marked
          \/ \E z \in Int, has_std \in BOOLEAN : Ordered(z, has_std)
      BY <3>1, <3>2, <3>3, <3>4, <3>5
    <3> QED BY <2>1, <2>4, <2>5, <3>6
  <2> QED BY <2>6, <2>7
<1> QED BY <1>1, <1>2, PipelineTypeCorrect, PositionsFollowSignals, PTL
        DEF Spec, ImplementsDesk, TheDesk!Spec

-----------------------------------------------------------------------------
(* Fills *)

LEMMA MinMaxOfTwo ==
  ASSUME NEW a \in Int, NEW b \in Int
  PROVE  /\ Min({a, b}) \in Int /\ Min({a, b}) <= a /\ Min({a, b}) <= b
         /\ Max({a, b}) \in Int /\ a <= Max({a, b}) /\ b <= Max({a, b})
         /\ 2 * Min({a, b}) <= a + b /\ a + b <= 2 * Max({a, b})
<1>1. \E x \in {a, b} : \A y \in {a, b} : x <= y
  OBVIOUS
<1>2. \E x \in {a, b} : \A y \in {a, b} : x >= y
  OBVIOUS
<1>3. Min({a, b}) \in {a, b} /\ \A y \in {a, b} : Min({a, b}) <= y
  BY <1>1 DEF Min
<1>4. Max({a, b}) \in {a, b} /\ \A y \in {a, b} : Max({a, b}) >= y
  BY <1>2 DEF Max
<1> QED BY <1>3, <1>4

(* A fill is between the touches of the book it was made against, for any  *)
(* prices of either sign: rounding a mid that is half a raw unit does not  *)
(* leave the spread.                                                       *)
THEOREM FillsStayBetweenTouches == Spec => []FillsBetweenTouches
<1>1. Init => FillsBetweenTouches
  BY DEF Init, FillsBetweenTouches
<1>2. TypeOK /\ FillsBetweenTouches /\ [Next]_vars => FillsBetweenTouches'
  <2> SUFFICES ASSUME TypeOK, FillsBetweenTouches, [Next]_vars
               PROVE  FillsBetweenTouches'
    OBVIOUS
  <2>1. CASE fill' = fill
    BY <2>1 DEF FillsBetweenTouches
  <2>2. CASE fill' # fill
    <3>1. PICK z \in ZScores, has_std \in BOOLEAN : Ordered(z, has_std)
      BY <2>2 DEF Next, vars, Decode, BookEntry, NoMid, Quiet, Rejected
    <3> DEFINE req == OrderFor(Fired(engine, Inst, z)[1])
               bbo == last[1].bbo
               px == FillPx(req.side, req.px_raw, bbo)
               bid == bbo.bid_px_raw[1]
               offer == bbo.offer_px_raw[1]
               low == Min({bid, offer})
               high == Max({bid, offer})
    <3>2. HasMid /\ Fired(engine, Inst, z) # None
      BY <3>1 DEF Ordered, Sampled
    <3>3. fill' = Some([side |-> req.side, px_raw |-> px, bbo |-> bbo])
      BY <3>1 DEF Ordered
    <3>4. bbo \in Bbo /\ TwoSided(bbo) /\ z \in Int
      BY <3>2, SampleFacts, PipelineAssumption
    <3>5. bid \in Int /\ offer \in Int
      BY <3>4, OptionValue DEF Bbo, TwoSided
    <3>6. req.px_raw = ToPrice9(bid + offer)
      BY <3>2, <3>4, OrderFacts DEF TickMid, Mid
    <3>7. px \in {bid, offer, req.px_raw}
      BY DEF FillPx
    <3>8. /\ fill'[1].px_raw = px /\ fill'[1].bbo.bid_px_raw[1] = bid
          /\ fill'[1].bbo.offer_px_raw[1] = offer
      BY <3>3 DEF Some
    <3> HIDE DEF req, bbo, px, bid, offer
    <3>9. /\ low \in Int /\ low <= bid /\ low <= offer
          /\ high \in Int /\ bid <= high /\ offer <= high
          /\ 2 * low <= bid + offer /\ bid + offer <= 2 * high
      BY <3>5, MinMaxOfTwo
    <3> HIDE DEF low, high
    <3>10. /\ req.px_raw \in Int
           /\ Abs(HalfUnits(req.px_raw) - (bid + offer)) <= 1
      BY <3>5, <3>6, RoundingCostsHalfAUnit
    <3>11. bid + offer - 1 <= 2 * req.px_raw /\ 2 * req.px_raw <= bid + offer + 1
      BY <3>5, <3>10 DEF Abs, HalfUnits
    <3>12. low <= req.px_raw /\ req.px_raw <= high
      BY <3>5, <3>9, <3>10, <3>11
    <3>13. low <= px /\ px <= high
      BY <3>7, <3>9, <3>12
    <3> QED BY <3>8, <3>13 DEF FillsBetweenTouches, low, high
  <2> QED BY <2>1, <2>2
<1> QED BY <1>1, <1>2, PipelineTypeCorrect, PTL DEF Spec

-----------------------------------------------------------------------------
(* Counters *)

LEMMA Parity ==
  ASSUME NEW a \in Nat, NEW b \in Nat, a % 2 = b % 2
  PROVE  (a + 1) % 2 = (b + 1) % 2 /\ (b > 0 => (a + 1) % 2 = (b - 1) % 2)
OBVIOUS

(* A fired signal takes its instrument into or out of the open ones. *)
LEMMA SignalsAlternate ==
  ASSUME TypeOK,
         NEW z \in Int, NEW has_std \in BOOLEAN, Sampled(z, has_std),
         Fired(engine, Inst, z) # None
  PROVE  LET n == Cardinality({i \in Instruments : engine[i].pos # Flat})
             m == Cardinality({i \in Instruments : engine'[i].pos # Flat})
         IN  n \in Nat /\ m \in Nat /\ (m = n + 1 \/ (n > 0 /\ m = n - 1))
<1> DEFINE before == {i \in Instruments : engine[i].pos # Flat}
           after == {i \in Instruments : engine'[i].pos # Flat}
<1>1. /\ Inst \in Instruments
      /\ engine'[Inst].pos = Moved(engine[Inst], z)
      /\ \A j \in Instruments \ {Inst} : engine'[j] = engine[j]
  BY SampledMoves
<1>2. engine \in Engine /\ engine[Inst] \in SignalState
  BY <1>1 DEF TypeOK, Engine
<1>3. /\ engine[Inst].pos # Moved(engine[Inst], z)
      /\ engine[Inst].pos = Flat \/ Moved(engine[Inst], z) = Flat
  BY <1>1, <1>2, FiredFacts, MovedFacts
<1>4. IsFiniteSet(before)
  BY RiskConfigAssumption, FS_Subset
<1>5. CASE engine[Inst].pos = Flat
  <2>1. Inst \notin before /\ after = before \cup {Inst}
    BY <1>1, <1>3, <1>5
  <2>2. Cardinality(after) = Cardinality(before) + 1 /\ Cardinality(before) \in Nat
    BY <1>4, <2>1, FS_AddElement, FS_CardinalityType
  <2> QED BY <2>2
<1>6. CASE engine[Inst].pos # Flat
  <2>1. Inst \in before /\ after = before \ {Inst}
    BY <1>1, <1>3, <1>6
  <2>2. Cardinality(after) = Cardinality(before) - 1 /\ IsFiniteSet(after)
    BY <1>4, <2>1, FS_RemoveElement
  <2>3. Cardinality(before) \in Nat /\ Cardinality(after) \in Nat
    BY <1>4, <2>2, FS_CardinalityType
  <2> QED BY <2>2, <2>3
<1> QED BY <1>5, <1>6

(* After any number of packets the published counters agree with the       *)
(* gateway and with the engine: no accepted or rejected order is missed or *)
(* counted twice, and no signal is fired without being counted.            *)
THEOREM CountersReconcile == Spec => []CountersAgree
<1> DEFINE open == Cardinality({i \in Instruments : engine[i].pos # Flat})
<1>1. Init => CountersAgree
  <2> SUFFICES ASSUME Init PROVE CountersAgree
    OBVIOUS
  <2>1. {i \in Instruments : engine[i].pos # Flat} = {}
    BY DEF Init, SignalNew
  <2>2. open = 0
    BY <2>1, FS_EmptySet
  <2> QED BY <2>2 DEF Init, GatewayNew, CountersAgree
<1>2. TypeOK /\ CountersAgree /\ [Next]_vars => CountersAgree'
  <2> SUFFICES ASSUME TypeOK, CountersAgree, [Next]_vars PROVE CountersAgree'
    OBVIOUS
  <2>0. /\ gateway \in Gateway /\ metrics \in Metrics
        /\ metrics.orders + metrics.rejects \in Nat
    BY DEF TypeOK, Metrics
  <2>1. ASSUME gateway' = gateway, engine' = engine,
               metrics'.orders = metrics.orders, metrics'.rejects = metrics.rejects
        PROVE  CountersAgree'
    BY <2>1 DEF CountersAgree
  <2>2. ASSUME NEW packet \in Packets, Decode(packet) PROVE CountersAgree'
    BY <2>1, <2>2 DEF Decode
  <2>3. CASE BookEntry
    BY <2>1, <2>3 DEF BookEntry
  <2>4. CASE NoMid
    <3>1. metrics' = [metrics EXCEPT !.ticks = @ + 1] /\ gateway' = gateway /\ engine' = engine
      BY <2>4 DEF NoMid, Recorded
    <3> QED BY <2>0, <2>1, <3>1 DEF Metrics
  <2>5. ASSUME NEW z \in ZScores, NEW has_std \in BOOLEAN, Quiet(z, has_std)
        PROVE  CountersAgree'
    <3>1. Sampled(z, has_std) /\ HasMid /\ Fired(engine, Inst, z) = None /\ z \in Int
      BY <2>5, PipelineAssumption DEF Quiet, Sampled
    <3>2. engine \in Engine /\ Inst \in Instruments
      BY <3>1, SampleFacts DEF TypeOK
    <3>3. engine[Inst].pos = Moved(engine[Inst], z)
      BY <3>1, <3>2, FiredFacts
    <3>4. \A j \in Instruments : engine'[j].pos = engine[j].pos
      BY <3>1, <3>3, SampledMoves
    <3>5. {i \in Instruments : engine'[i].pos # Flat}
            = {i \in Instruments : engine[i].pos # Flat}
      BY <3>4
    <3>6. metrics' = [metrics EXCEPT !.ticks = @ + 1] /\ gateway' = gateway
      BY <2>5 DEF Quiet, Recorded
    <3>7. metrics'.orders = metrics.orders /\ metrics'.rejects = metrics.rejects
      BY <2>0, <3>6 DEF Metrics
    <3> QED BY <3>5, <3>6, <3>7 DEF CountersAgree
  <2>6. ASSUME NEW z \in ZScores, NEW has_std \in BOOLEAN,
               Rejected(z, has_std) \/ Ordered(z, has_std)
        PROVE  CountersAgree'
    <3>1. Sampled(z, has_std) /\ Fired(engine, Inst, z) # None /\ z \in Int
      BY <2>6, PipelineAssumption DEF Rejected, Ordered
    <3>2. open \in Nat /\ open' \in Nat /\ (open' = open + 1 \/ (open > 0 /\ open' = open - 1))
      BY <3>1, SignalsAlternate
    <3>3. (metrics.orders + metrics.rejects) % 2 = open % 2
      BY DEF CountersAgree
    <3> HIDE DEF open
    <3>4. (metrics.orders + metrics.rejects + 1) % 2 = open' % 2
      BY <2>0, <3>2, <3>3, Parity
    <3>5. CASE Rejected(z, has_std)
      <4>1. /\ metrics' = [[metrics EXCEPT !.rejects = @ + 1] EXCEPT !.ticks = @ + 1]
            /\ gateway' = gateway
        BY <3>5 DEF Rejected, Recorded
      <4>2. metrics'.orders = metrics.orders /\ metrics'.rejects = metrics.rejects + 1
        BY <2>0, <4>1 DEF Metrics
      <4>3. (metrics'.orders + metrics'.rejects) % 2 = open' % 2
        BY <2>0, <3>4, <4>2 DEF Metrics
      <4> QED BY <4>1, <4>2, <4>3 DEF CountersAgree, open
    <3>6. CASE Ordered(z, has_std)
      <4>1. /\ metrics' = [[metrics EXCEPT !.orders = @ + 1] EXCEPT !.ticks = @ + 1]
            /\ gateway' = Submit(gateway)
        BY <3>6 DEF Ordered, Filled, Recorded
      <4>2. metrics'.orders = metrics.orders + 1 /\ metrics'.rejects = metrics.rejects
        BY <2>0, <4>1 DEF Metrics
      <4>3. (metrics'.orders + metrics'.rejects) % 2 = open' % 2
        BY <2>0, <3>4, <4>2 DEF Metrics
      <4>4. /\ gateway'.accepted = gateway.accepted + 1
            /\ gateway'.next_id = gateway.next_id + 1
        BY <4>1 DEF Submit
      <4>5. /\ metrics'.orders = gateway'.accepted
            /\ gateway'.next_id = gateway'.accepted + 1
        BY <2>0, <4>2, <4>4 DEF CountersAgree, Gateway
      <4> QED BY <4>3, <4>5 DEF CountersAgree, open
    <3> QED BY <2>6, <3>5, <3>6
  <2>7. CASE UNCHANGED vars
    BY <2>1, <2>7 DEF vars
  <2> QED BY <2>2, <2>3, <2>4, <2>5, <2>6, <2>7 DEF Next
<1> QED BY <1>1, <1>2, PipelineTypeCorrect, PTL DEF Spec

-----------------------------------------------------------------------------
(* Marks *)

(* Packets that each update one instrument, as the generator's do. *)
EntriesFor(id) == {e \in MdEntry(Int) : e.security_id = id}
SingleInstrument == \A packet \in Packets : \E id : packet \in Seq(EntriesFor(id))

Current(i) == TwoSided(BboOf(book[i])) => risk.positions[i].mark = Mid(BboOf(book[i]))

(* Within a packet the last updated instrument alone may carry an old      *)
(* mark, its BBO is the one remembered, and the entries still to come are  *)
(* for it.                                                                 *)
Pending == stage = "Book" /\ last # None
MarkInv ==
    /\ \A i \in Instruments : Current(i) \/ (Pending /\ last[1].instrument = i)
    /\ Pending => last[1].bbo = BboOf(book[last[1].instrument])
    /\ \E id : /\ entries \in Seq(EntriesFor(id))
               /\ Pending => last[1].instrument = id

LEMMA CapOfOne ==
  ASSUME NEW id, NEW packet \in Packets, packet \in Seq(EntriesFor(id))
  PROVE  Cap(packet) \in Seq(EntriesFor(id))
<1> DEFINE n == Min({Len(packet), MaxEntries})
<1>1. MaxEntries \in Nat /\ Len(packet) \in Nat
  BY PipelineAssumption, LenProperties
<1>2. {Len(packet), MaxEntries} \in SUBSET Nat /\ {Len(packet), MaxEntries} # {}
  BY <1>1
<1>3. n \in Nat /\ n <= Len(packet)
  BY <1>1, <1>2, MinOfNats
<1> HIDE DEF n
<1>4. \A k \in 1 .. n : packet[k] \in EntriesFor(id)
  BY <1>1, <1>3, ElementOfSeq
<1>5. SubSeq(packet, 1, n) \in Seq(EntriesFor(id))
  BY <1>3, <1>4, SubSeqProperties
<1> QED BY <1>5 DEF Cap, n

(* An entry leaves the books of the other instruments alone. *)
LEMMA EntryTouchesOneBook ==
  ASSUME NEW books \in Books, NEW e \in MdEntry(Int), NEW i \in Instruments,
         i # e.security_id
  PROVE  ApplyToBooks(books, e)[i] = books[i]
BY DEF ApplyToBooks, Books

LEMMA InitMarks == Init => MarkInv
<1> SUFFICES ASSUME Init PROVE MarkInv
  OBVIOUS
<1>1. \A i \in Instruments : ~ TwoSided(BboOf(book[i]))
  BY DEF Init, BookNew, EmptyBook, BboOf, Best, TwoSided
<1>2. ~ Pending
  BY DEF Init, Pending
<1>3. entries \in Seq(EntriesFor(0))
  BY DEF Init
<1> QED BY <1>1, <1>2, <1>3 DEF MarkInv, Current

(* Where a sample marks its instrument at the mid of its book, a packet    *)
(* ends with every mark current.                                           *)
LEMMA SampleMarks ==
  ASSUME TypeOK, MarkInv, HasMid, Applied,
         UNCHANGED <<book, entries, last>>, stage' = "Idle",
         risk'.positions[Inst].mark = Marked.positions[Inst].mark,
         \A j \in Instruments \ {Inst} : risk'.positions[j] = Marked.positions[j]
  PROVE  MarkInv'
<1>1. Inst \in Instruments /\ TickMid \in Int /\ risk \in Risk
  BY SampleFacts DEF TypeOK
<1>2. Pending /\ Inst = last[1].instrument
  BY DEF Applied, HasMid, Pending, Inst
<1>3. TickMid = Mid(BboOf(book[Inst]))
  BY <1>2 DEF MarkInv, TickMid
<1>4. /\ Marked.positions[Inst].mark = TickMid
      /\ \A j \in Instruments \ {Inst} : Marked.positions[j] = risk.positions[j]
  BY <1>1, MarkFacts DEF Marked
<1>5. \A j \in Instruments \ {Inst} : Current(j)
  BY <1>2 DEF MarkInv
<1>6. \A j \in Instruments : Current(j)'
  BY <1>3, <1>4, <1>5 DEF Current
<1>7. ~ Pending'
  BY DEF Pending
<1> QED BY <1>6, <1>7 DEF MarkInv

LEMMA NextMarks ==
  ASSUME SingleInstrument, TypeOK, MarkInv, [Next]_vars
  PROVE  MarkInv'
<1>1. ASSUME NEW packet \in Packets, Decode(packet) PROVE MarkInv'
  <2>1. PICK id : packet \in Seq(EntriesFor(id))
    BY DEF SingleInstrument
  <2>2. entries' \in Seq(EntriesFor(id))
    BY <1>1, <2>1, CapOfOne DEF Decode
  <2>3. ~ Pending /\ ~ Pending'
    BY <1>1 DEF Decode, Pending
  <2>4. \A i \in Instruments : Current(i)'
    BY <1>1, <2>3 DEF Decode, MarkInv, Current
  <2> QED BY <2>2, <2>3, <2>4 DEF MarkInv
<1>2. CASE BookEntry
  <2> DEFINE e == Head(entries)
  <2>1. PICK id : /\ entries \in Seq(EntriesFor(id))
                  /\ Pending => last[1].instrument = id
    BY DEF MarkInv
  <2>2. /\ stage = "Book" /\ stage' = "Book" /\ entries # <<>>
        /\ book' = ApplyToBooks(book, e)
        /\ last' = IF e.security_id \in Instruments
                   THEN Some([instrument |-> e.security_id,
                              bbo |-> BboOf(book'[e.security_id])])
                   ELSE last
        /\ entries' = Tail(entries) /\ risk' = risk
    BY <1>2 DEF BookEntry
  <2>3. e \in EntriesFor(id) /\ entries' \in Seq(EntriesFor(id))
    BY <2>1, <2>2, HeadTailProperties
  <2>4. e \in MdEntry(Int) /\ e.security_id = id
    BY <2>3 DEF EntriesFor
  <2> HIDE DEF e
  <2>5. \A i \in Instruments \ {id} : book'[i] = book[i] /\ Current(i) /\ Current(i)'
    <3> SUFFICES ASSUME NEW i \in Instruments \ {id}
                 PROVE  book'[i] = book[i] /\ Current(i) /\ Current(i)'
      OBVIOUS
    <3>1. book'[i] = book[i]
      BY <2>2, <2>4, EntryTouchesOneBook DEF TypeOK
    <3>2. Current(i)
      BY <2>1 DEF MarkInv
    <3> QED BY <2>2, <3>1, <3>2 DEF Current
  <2>6. CASE id \in Instruments
    <3>1. last' = <<[instrument |-> id, bbo |-> BboOf(book'[id])]>>
      BY <2>2, <2>4, <2>6 DEF Some
    <3>2. /\ Pending'
          /\ last'[1].instrument = id
          /\ last'[1].bbo = BboOf(book'[id])
      BY <2>2, <3>1 DEF Pending, None
    <3> QED BY <2>3, <2>5, <3>2 DEF MarkInv
  <2>7. CASE id \notin Instruments
    <3>1. last' = last /\ book' = book /\ (Pending' <=> Pending)
      BY <2>2, <2>4, <2>7 DEF ApplyToBooks, Pending
    <3>2. \A i \in Instruments : Current(i)'
      BY <2>5, <2>7
    <3> QED BY <2>1, <2>3, <3>1, <3>2 DEF MarkInv
  <2> QED BY <2>6, <2>7
<1>3. CASE NoMid
  <2>1. /\ Applied /\ ~ HasMid /\ stage' = "Idle"
        /\ UNCHANGED <<entries, last, book, risk>>
    BY <1>3 DEF NoMid, Recorded
  <2>2. \A i \in Instruments : Current(i)
    BY <2>1 DEF MarkInv, Current, HasMid, Pending
  <2>3. \A i \in Instruments : Current(i)'
    BY <2>1, <2>2 DEF Current
  <2>4. ~ Pending'
    BY <2>1 DEF Pending
  <2> QED BY <2>1, <2>3, <2>4 DEF MarkInv
<1>4. ASSUME NEW z \in ZScores, NEW has_std \in BOOLEAN,
             Quiet(z, has_std) \/ Rejected(z, has_std)
      PROVE  MarkInv'
  <2>1. /\ HasMid /\ Applied /\ UNCHANGED <<book, entries, last>>
        /\ stage' = "Idle" /\ risk' = Marked
    BY <1>4 DEF Quiet, Rejected, Sampled, Recorded
  <2> QED BY <2>1, SampleMarks
<1>5. ASSUME NEW z \in ZScores, NEW has_std \in BOOLEAN, Ordered(z, has_std)
      PROVE  MarkInv'
  <2> DEFINE req == OrderFor(Fired(engine, Inst, z)[1])
             px == FillPx(req.side, req.px_raw, last[1].bbo)
  <2>1. /\ HasMid /\ Applied /\ UNCHANGED <<book, entries, last>>
        /\ stage' = "Idle" /\ Fired(engine, Inst, z) # None
        /\ risk' = OnFill(Marked, req.instrument, req.side, req.qty, px)
    BY <1>5 DEF Ordered, Sampled, Filled, Recorded
  <2>2. z \in Int /\ Marked \in Risk
    BY <2>1, PipelineAssumption, SampleFacts
  <2>3. req \in OrderRequest /\ req.instrument = Inst /\ px \in Int
    BY <2>1, <2>2, OrderFacts
  <2>4. Inst \in Instruments /\ req.side \in OrderSides /\ req.qty \in Nat \ {0}
    BY <2>3 DEF OrderRequest
  <2> HIDE DEF req, px
  <2>5. /\ risk'.positions[Inst].mark = Marked.positions[Inst].mark
        /\ \A j \in Instruments \ {Inst} : risk'.positions[j] = Marked.positions[j]
    BY <2>1, <2>2, <2>3, <2>4, OnFillFacts
  <2> QED BY <2>1, <2>5, SampleMarks
<1>6. CASE UNCHANGED vars
  BY <1>6 DEF vars, MarkInv, Current, Pending
<1> QED BY <1>1, <1>2, <1>3, <1>4, <1>5, <1>6 DEF Next

(* When packets each update one instrument, every instrument with a        *)
(* two-sided book is marked at its mid between packets, for any number of  *)
(* instruments and whatever else a packet holds.                           *)
THEOREM MarksStayCurrent ==
  ASSUME SingleInstrument
  PROVE  Spec => []MarksAreCurrent
<1>1. MarkInv => MarksAreCurrent
  BY DEF MarkInv, MarksAreCurrent, Current, Pending
<1>2. TypeOK /\ MarkInv /\ [Next]_vars => MarkInv'
  BY NextMarks
<1> QED BY <1>1, <1>2, InitMarks, PipelineTypeCorrect, PTL DEF Spec

-----------------------------------------------------------------------------
(* The kill-switch *)

Breached(rm) == Leq(TotalPnl(rm), FromInt(-DailyLossLimit))
KillCurrent == Breached(risk) => risk.killed

LEMMA SamePositionsSamePnl ==
  ASSUME NEW r, NEW s, \A i \in Instruments : r.positions[i] = s.positions[i]
  PROVE  TotalPnl(r) = TotalPnl(s)
BY DEF TotalPnl

(* An account that never traded is worth nothing, so it has not lost what  *)
(* a positive limit allows.                                                *)
LEMMA NewIsNotBreached ==
  ASSUME DailyLossLimit > 0
  PROVE  ~ Breached(RiskNew)
<1> DEFINE cash == [i \in Instruments |-> 0]
           value == [i \in Instruments |-> (cash[i] + RiskNew.positions[i].net
                                             * RiskNew.positions[i].mark) * Multiplier[i]]
<1>1. cash \in [Instruments -> Int] /\ \A i \in Instruments : cash[i] = 0
  OBVIOUS
<1>2. value = [i \in Instruments |-> 0]
  <2> SUFFICES ASSUME NEW i \in Instruments PROVE value[i] = 0
    OBVIOUS
  <2>1. RiskNew.positions[i].net = 0 /\ RiskNew.positions[i].mark = 0
    BY DEF RiskNew
  <2>2. Multiplier[i] \in Int
    BY RiskConfigAssumption
  <2> QED BY <1>1, <2>1, <2>2
<1> HIDE DEF cash
<1>3. \A i \in Instruments : Balanced(RiskNew.positions[i], Multiplier[i], cash[i])
  BY <1>1, NewBooksBalance
<1>4. Breached(RiskNew) <=> SumFunction(value) <= -DailyLossLimit
  BY <1>1, <1>3, RiskNewType, TotalPnlIsExact DEF Breached
<1>5. SumFunction(value) = 0
  BY <1>2, RiskConfigAssumption, SumOfZeros
<1> QED BY <1>4, <1>5, RiskConfigAssumption

LEMMA MarkedIsCurrent ==
  ASSUME TypeOK, HasMid
  PROVE  Breached(Marked) => Marked.killed
<1>1. Inst \in Instruments /\ TickMid \in Int /\ risk \in Risk
  BY SampleFacts DEF TypeOK
<1> QED BY <1>1, MarkFacts DEF Marked, Breached

LEMMA FilledIsCurrent ==
  ASSUME NEW rm \in Risk, NEW i \in Instruments, NEW side \in OrderSides,
         NEW qty \in Nat \ {0}, NEW px \in Int
  PROVE  Breached(OnFill(rm, i, side, qty, px)) => OnFill(rm, i, side, qty, px).killed
BY OnFillFacts DEF Breached

LEMMA NextKills == TypeOK /\ KillCurrent /\ [Next]_vars => KillCurrent'
<1> SUFFICES ASSUME TypeOK, KillCurrent, [Next]_vars PROVE KillCurrent'
  OBVIOUS
<1>1. ASSUME risk' = risk PROVE KillCurrent'
  BY <1>1 DEF KillCurrent
<1>2. ASSUME NEW packet \in Packets, Decode(packet) PROVE KillCurrent'
  BY <1>1, <1>2 DEF Decode
<1>3. CASE BookEntry \/ NoMid \/ UNCHANGED vars
  BY <1>1, <1>3 DEF BookEntry, NoMid, vars
<1>4. ASSUME NEW z \in ZScores, NEW has_std \in BOOLEAN,
             Quiet(z, has_std) \/ Rejected(z, has_std)
      PROVE  KillCurrent'
  <2>1. HasMid /\ risk' = Marked
    BY <1>4 DEF Quiet, Rejected, Sampled
  <2> QED BY <2>1, MarkedIsCurrent DEF KillCurrent
<1>5. ASSUME NEW z \in ZScores, NEW has_std \in BOOLEAN, Ordered(z, has_std)
      PROVE  KillCurrent'
  <2> DEFINE req == OrderFor(Fired(engine, Inst, z)[1])
             px == FillPx(req.side, req.px_raw, last[1].bbo)
  <2>1. /\ HasMid /\ Fired(engine, Inst, z) # None
        /\ risk' = OnFill(Marked, req.instrument, req.side, req.qty, px)
    BY <1>5 DEF Ordered, Sampled, Filled
  <2>2. z \in Int /\ Marked \in Risk
    BY <2>1, PipelineAssumption, SampleFacts
  <2>3. req \in OrderRequest /\ px \in Int
    BY <2>1, <2>2, OrderFacts
  <2>4. /\ req.instrument \in Instruments /\ req.side \in OrderSides
        /\ req.qty \in Nat \ {0}
    BY <2>3 DEF OrderRequest
  <2> HIDE DEF req, px
  <2> QED BY <2>1, <2>2, <2>3, <2>4, FilledIsCurrent DEF KillCurrent
<1> QED BY <1>2, <1>3, <1>4, <1>5 DEF Next

(* Between packets, a loss at the current mids that reaches the limit has  *)
(* latched the switch: marking, filling and refreshing never leave a       *)
(* breach behind, whatever the order of the packets.                       *)
THEOREM LossesLatch ==
  ASSUME SingleInstrument, DailyLossLimit > 0
  PROVE  Spec => []LossLatches
<1>1. Init => KillCurrent
  BY NewIsNotBreached DEF Init, KillCurrent
<1>2. TypeOK /\ KillCurrent /\ MarksAreCurrent => LossLatches
  <2> SUFFICES ASSUME TypeOK, KillCurrent, MarksAreCurrent, stage = "Idle",
                      Leq(TotalPnl(Revalued), FromInt(-DailyLossLimit))
               PROVE  risk.killed
    BY DEF LossLatches
  <2>1. risk \in Risk
    BY DEF TypeOK
  <2>2. ASSUME NEW i \in Instruments PROVE Revalued.positions[i] = risk.positions[i]
    <3>1. risk.positions[i] \in Position
      BY <2>1 DEF Risk
    <3>2. TwoSided(BboOf(book[i])) => risk.positions[i].mark = Mid(BboOf(book[i]))
      BY DEF MarksAreCurrent
    <3>3. [risk.positions[i] EXCEPT !.mark = risk.positions[i].mark] = risk.positions[i]
      BY <3>1 DEF Position
    <3> QED BY <2>1, <3>2, <3>3 DEF Revalued, Risk
  <2>3. TotalPnl(Revalued) = TotalPnl(risk)
    BY <2>2, SamePositionsSamePnl
  <2> QED BY <2>3 DEF KillCurrent, Breached
<1> QED BY <1>1, <1>2, NextKills, MarksStayCurrent, PipelineTypeCorrect, PTL DEF Spec

-----------------------------------------------------------------------------
(* The gauge *)

GaugeCurrent == gauge = NetPositionTotal(risk)

LEMMA SameNetsSameTotal ==
  ASSUME NEW r, NEW s,
         \A i \in Instruments : r.positions[i].net = s.positions[i].net
  PROVE  NetPositionTotal(r) = NetPositionTotal(s)
BY DEF NetPositionTotal

LEMMA NextGauge == TypeOK /\ GaugeCurrent /\ [Next]_vars => GaugeCurrent'
<1> SUFFICES ASSUME TypeOK, GaugeCurrent, [Next]_vars PROVE GaugeCurrent'
  OBVIOUS
<1>1. ASSUME gauge' = gauge,
             \A i \in Instruments : risk'.positions[i].net = risk.positions[i].net
      PROVE  GaugeCurrent'
  BY <1>1, SameNetsSameTotal DEF GaugeCurrent
<1>2. ASSUME NEW packet \in Packets, Decode(packet) PROVE GaugeCurrent'
  BY <1>1, <1>2 DEF Decode
<1>3. CASE BookEntry \/ NoMid \/ UNCHANGED vars
  BY <1>1, <1>3 DEF BookEntry, NoMid, vars
<1>4. ASSUME NEW z \in ZScores, NEW has_std \in BOOLEAN,
             Quiet(z, has_std) \/ Rejected(z, has_std)
      PROVE  GaugeCurrent'
  <2>1. HasMid /\ risk' = Marked /\ gauge' = gauge
    BY <1>4 DEF Quiet, Rejected, Sampled
  <2> QED BY <1>1, <2>1, SampleFacts
<1>5. ASSUME NEW z \in ZScores, NEW has_std \in BOOLEAN, Ordered(z, has_std)
      PROVE  GaugeCurrent'
  BY <1>5 DEF Ordered, Filled, GaugeCurrent
<1> QED BY <1>2, <1>3, <1>4, <1>5 DEF Next

(* The counters agree, and the gauge is the net position however many      *)
(* packets pass between two fills: no step moves a position without        *)
(* publishing it.                                                          *)
THEOREM PublishedNumbersReconcile == Spec => []Reconciled
<1>1. Init => GaugeCurrent
  <2>1. [i \in Instruments |-> RiskNew.positions[i].net] = [i \in Instruments |-> 0]
    BY DEF RiskNew
  <2>2. NetPositionTotal(RiskNew) = 0
    BY <2>1, RiskConfigAssumption, SumOfZeros DEF NetPositionTotal
  <2> QED BY <2>2 DEF Init, GaugeCurrent
<1>2. GaugeCurrent /\ CountersAgree => Reconciled
  BY DEF GaugeCurrent, Reconciled
<1> QED BY <1>1, <1>2, NextGauge, CountersReconcile, PipelineTypeCorrect, PTL DEF Spec
=============================================================================
