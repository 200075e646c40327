------------------------------ MODULE Pipeline ------------------------------
(***************************************************************************)
(* The hot path (src/pipeline.rs): process decodes a packet, applies its   *)
(* entries to the books one by one, and then, for the last book updated,   *)
(* marks the instrument, feeds the signal engine and sends the order a     *)
(* signal asks for through risk and gateway.  The consumer thread alone    *)
(* runs it; the model takes one step for the decoding, one for each entry  *)
(* and one for the rest, so that no fold over the entries is needed.       *)
(***************************************************************************)
EXTENDS RiskManager, SignalEngine, MockGateway

CONSTANTS
    OrderQty,           \* order_qty
    MaxEntries,         \* MAX_ENTRIES_PER_PACKET
    Packets,            \* packets as decoded: sequences of MdEntry
    ZScores,            \* the z-scores a sample may have
    MaxTicks            \* bound on the packets processed

ASSUME PipelineAssumption ==
    /\ OrderQty \in Nat \ {0}
    /\ MaxEntries \in Nat
    /\ Packets \subseteq Seq(MdEntry(Int))
    /\ ZScores \subseteq Int
    /\ MaxTicks \in Nat

VARIABLES
    stage,              \* where process is: "Idle", or "Book" within a packet
    entries,            \* the entries still to apply
    last,               \* the last updated instrument and its BBO
    book, engine, risk, gateway,
    metrics,            \* the counters process publishes
    gauge,              \* the net position it publishes
    fill                \* the last fill, with the BBO it was made against

vars == <<stage, entries, last, book, engine, risk, gateway, metrics, gauge, fill>>

Metrics == [ticks : Nat, orders : Nat, rejects : Nat]
BookUpdate == [instrument : Instruments, bbo : Bbo]
Fill == [side : OrderSides, px_raw : Int, bbo : Bbo]

Init ==
    /\ stage = "Idle"
    /\ entries = <<>>
    /\ last = None
    /\ book = BookNew
    /\ engine = SignalNew
    /\ risk = RiskNew
    /\ gateway = GatewayNew
    /\ metrics = [ticks |-> 0, orders |-> 0, rejects |-> 0]
    /\ gauge = 0
    /\ fill = None

-----------------------------------------------------------------------------
(* DECODE: what fits of the packet's entries; the overflow is dropped.     *)
FaultyCap(packet) == SubSeq(packet, 1, Min({Len(packet), MaxEntries + 1}))
Cap(packet) == SubSeq(packet, 1, Min({Len(packet), MaxEntries}))

Decode(packet) ==
    /\ stage = "Idle"
    /\ metrics.ticks < MaxTicks
    /\ stage' = "Book"
    /\ entries' = Cap(packet)
    /\ last' = None
    /\ UNCHANGED <<book, engine, risk, gateway, metrics, gauge, fill>>

(* BOOK: apply the next entry; remember the last updated BBO.              *)
BookEntry ==
    /\ stage = "Book"
    /\ entries # <<>>
    /\ LET e == Head(entries)
       IN  /\ book' = ApplyToBooks(book, e)
           /\ last' = IF e.security_id \in Instruments
                      THEN Some([instrument |-> e.security_id,
                                 bbo |-> BboOf(book'[e.security_id])])
                      ELSE last
    /\ entries' = Tail(entries)
    /\ UNCHANGED <<stage, engine, risk, gateway, metrics, gauge, fill>>

(* Every packet ends in one call of record. *)
Applied == stage = "Book" /\ entries = <<>>
Recorded(m) == stage' = "Idle" /\ metrics' = [m EXCEPT !.ticks = @ + 1]

(* A registered instrument was updated, and its book has a mid. *)
HasMid == last # None /\ TwoSided(last[1].bbo)

NoMid ==
    /\ Applied
    /\ ~ HasMid
    /\ Recorded(metrics)
    /\ UNCHANGED <<entries, last, book, engine, risk, gateway, gauge, fill>>

-----------------------------------------------------------------------------
(* SIGNAL, RISK, GATEWAY, for a book with a mid.                           *)
Inst == last[1].instrument
TickMid == Mid(last[1].bbo)

FaultyMarked == risk            \* the instrument is not marked
Marked == Mark(risk, Inst, TickMid)

OrderFor(signal) ==
    [instrument |-> Inst, side |-> signal.side, qty |-> OrderQty,
     px_raw |-> ToPrice9(TickMid)]

Sampled(z, has_std) ==
    /\ Applied
    /\ HasMid
    /\ engine' = Update(engine, Inst, z, has_std)
    /\ UNCHANGED <<entries, last, book>>

Quiet(z, has_std) ==
    /\ Sampled(z, has_std)
    /\ Fired(engine, Inst, z) = None
    /\ risk' = Marked
    /\ Recorded(metrics)
    /\ UNCHANGED <<gateway, gauge, fill>>

Rejected(z, has_std) ==
    LET fired == Fired(engine, Inst, z)
    IN  /\ Sampled(z, has_std)
        /\ fired # None
        /\ Check(Marked, OrderFor(fired[1]), TickMid) # "Ok"
        /\ risk' = Marked
        /\ Recorded([metrics EXCEPT !.rejects = @ + 1])
        /\ UNCHANGED <<gateway, gauge, fill>>

(* The accepted order, its fill, and what is published after it. *)
FaultyFilled(req, px) ==        \* the gauge is read before the fill is applied
    /\ risk' = OnFill(Marked, req.instrument, req.side, req.qty, px)
    /\ Recorded([metrics EXCEPT !.orders = @ + 1])
    /\ gauge' = NetPositionTotal(Marked)
Filled(req, px) ==
    /\ risk' = OnFill(Marked, req.instrument, req.side, req.qty, px)
    /\ Recorded([metrics EXCEPT !.orders = @ + 1])
    /\ gauge' = NetPositionTotal(risk')

Ordered(z, has_std) ==
    LET fired == Fired(engine, Inst, z)
        req == OrderFor(fired[1])
        px == FillPx(req.side, req.px_raw, last[1].bbo)
    IN  /\ Sampled(z, has_std)
        /\ fired # None
        /\ Check(Marked, req, TickMid) = "Ok"
        /\ gateway' = Submit(gateway)
        /\ Filled(req, px)
        /\ fill' = Some([side |-> req.side, px_raw |-> px, bbo |-> last[1].bbo])

Next ==
    \/ \E packet \in Packets : Decode(packet)
    \/ BookEntry
    \/ NoMid
    \/ \E z \in ZScores, has_std \in BOOLEAN :
          Quiet(z, has_std) \/ Rejected(z, has_std) \/ Ordered(z, has_std)

Spec == Init /\ [][Next]_vars

-----------------------------------------------------------------------------
(* The books, positions and counters stay well formed while a packet is    *)
(* half applied, and no more entries are pending than a packet may bring.  *)
(* (What the gauge holds, Reconciled says.)                                *)
TypeOK ==
    /\ stage \in {"Idle", "Book"}
    /\ entries \in Seq(MdEntry(Int))
    /\ Len(entries) <= MaxEntries
    /\ last \in Option(BookUpdate)
    /\ book \in Books
    /\ engine \in Engine
    /\ risk \in Risk
    /\ gateway \in Gateway
    /\ metrics \in Metrics
    /\ fill \in Option(Fill)

(* The engine's belief and the books of the risk manager, which a rejected *)
(* order drives apart (the engine commits its position before risk is      *)
(* asked): the net position is flat or what the engine believes, and while *)
(* the kill-switch is open it is what the engine believes.                 *)
PositionFollowsSignal ==
    \A i \in Instruments :
        LET held == risk.positions[i].net
            believed == OrderQty * Direction(engine[i].pos)
        IN  held \in {0, believed} /\ (~ risk.killed => held = believed)

(* The settings under which that holds: an order within the position limit *)
(* and a price band of at least half a raw unit, which is what rounding    *)
(* the mid to a raw price can cost.                                        *)
Tradable == OrderQty <= PositionLimit /\ PriceBand >= 1

(* An accepted exit closes: it takes an instrument that is not flat to     *)
(* flat.  In particular no exit is sent for an entry that was rejected.    *)
ExitsClose ==
    [][\A i \in Instruments :
          engine[i].pos # Flat /\ engine'[i].pos = Flat /\ gateway' # gateway
          => risk.positions[i].net # 0 /\ risk'.positions[i].net = 0]_vars

(* The counters agree with each other and with the parts they describe:    *)
(* orders with the gateway, and accepted and rejected orders together with *)
(* the signals, which alternate between entry and exit on each instrument; *)
(* and the published net position is the sum of the positions.             *)
CountersAgree ==
    /\ metrics.orders = gateway.accepted
    /\ gateway.next_id = gateway.accepted + 1
    /\ (metrics.orders + metrics.rejects) % 2
         = Cardinality({i \in Instruments : engine[i].pos # Flat}) % 2
Reconciled == CountersAgree /\ gauge = NetPositionTotal(risk)

(* Between packets, every instrument with a two-sided book is marked at    *)
(* its mid: the PnL behind the kill-switch and on the dashboard is that of *)
(* the current books.  For feeds whose packets each update one instrument; *)
(* process marks only the last one of a packet that updates several.       *)
MarksAreCurrent ==
    stage = "Idle" =>
        \A i \in Instruments :
            TwoSided(BboOf(book[i])) => risk.positions[i].mark = Mid(BboOf(book[i]))

(* "The kill-switch latches when total PnL <= -this" (risk.rs): between    *)
(* packets, positions valued at the current mids do not stand at or below  *)
(* the limit with the switch open.  Like MarksAreCurrent, it needs packets *)
(* that each update one instrument.                                        *)
Revalued ==
    [risk EXCEPT !.positions = [i \in Instruments |->
        IF TwoSided(BboOf(book[i]))
        THEN [risk.positions[i] EXCEPT !.mark = Mid(BboOf(book[i]))]
        ELSE risk.positions[i]]]
LossLatches ==
    stage = "Idle" /\ Leq(TotalPnl(Revalued), FromInt(-DailyLossLimit)) => risk.killed

(* A fill is never outside the touch it was made against, on either side:  *)
(* pegging to the mid and rounding it to a raw price, whatever its sign,   *)
(* gives no price the market did not bracket.                              *)
FillsBetweenTouches ==
    fill # None =>
        LET touches == {fill[1].bbo.bid_px_raw[1], fill[1].bbo.offer_px_raw[1]}
        IN  Min(touches) <= fill[1].px_raw /\ fill[1].px_raw <= Max(touches)

(* The pipeline is a trading desk. *)
TheDesk == INSTANCE Desk WITH
    net <- [i \in Instruments |-> risk.positions[i].net],
    halted <- risk.killed
ImplementsDesk == TheDesk!Spec
=============================================================================
