------------------------------- MODULE Runner -------------------------------
(***************************************************************************)
(* One run of the connector (src/runner.rs run, with the metrics hand-off  *)
(* of src/metrics.rs): the generator pushes packets into the SPSC ring,    *)
(* the consumer pops and processes them, the reporter takes snapshots, the *)
(* dashboard serves the latest one, and the main thread stops and joins    *)
(* them.  An action is one access to what the threads share.               *)
(*                                                                         *)
(* A packet is its number.  What processing it does to books and positions *)
(* is Pipeline's; here only the outcome counts.  A PnL is the number of    *)
(* packets behind it, the position gauge the number of fills behind it, a  *)
(* histogram the number of its samples.                                    *)
(*                                                                         *)
(* The counters and pnl_bits are Relaxed: between two acquisitions of the  *)
(* histogram mutex a thread's accesses to them happen in any order.  The   *)
(* consumer's writes wait in `pending` and unlocking publishes the rest;   *)
(* the reporter's loads wait in `todo`.                                    *)
(***************************************************************************)
EXTENDS Integers, Sequences

CONSTANTS
    RingCapacity,       \* ring_capacity
    HasDashboard,       \* cfg.dashboard
    MaxPackets,         \* bound on the packets the generator emits
    MaxBackfill         \* bound on the samples one order's stall adds

ASSUME RunnerAssumption ==
    /\ RingCapacity \in Nat \ {0}
    /\ HasDashboard \in BOOLEAN
    /\ MaxPackets \in Nat
    /\ MaxBackfill \in Nat

VARIABLES
    shutdown,
    gen, sent,                          \* the generator and its count i
    ring,
    consumer, packet, outcome,          \* the packet in process, if any
    processed,                          \* packets recorded in the histograms
    fills,                              \* orders filled, all packets counted
    pending,                            \* relaxed writes not yet visible
    counters, pnl_bits, histos,         \* shared
    reporter, final, todo, snap,        \* the snapshot under construction
    cumulative, latest,
    dashboard, main

genVars == <<gen, sent>>
consumerVars == <<consumer, packet, outcome, processed, fills>>
reporterVars == <<reporter, final, todo, snap, cumulative, latest>>
vars == <<shutdown, genVars, ring, consumerVars, pending, counters, pnl_bits,
          histos, reporterVars, dashboard, main>>

Outcomes == {"Quiet", "Order", "Reject"}
CounterNames == {"ticks", "orders", "rejects", "drops", "position"}
Counters == [CounterNames -> Nat]
Writes == (CounterNames \ {"drops"}) \cup {"pnl"}        \* the consumer's
Histos == [decode : Nat, gateway : Nat, tick_to_order : Nat]
NoSamples == [decode |-> 0, gateway |-> 0, tick_to_order |-> 0]
Snapshot == [pnl : Nat, cumulative : Histos, counters : Counters]

NoSnapshot ==
    [pnl |-> 0, cumulative |-> NoSamples, counters |-> [c \in CounterNames |-> 0]]

Init ==
    /\ shutdown = FALSE
    /\ gen = "Check" /\ sent = 0
    /\ ring = <<>>
    /\ consumer = "Check" /\ packet = 0 /\ outcome = "Quiet" /\ processed = 0
    /\ fills = 0
    /\ pending = {}
    /\ counters = [c \in CounterNames |-> 0]
    /\ pnl_bits = 0
    /\ histos = NoSamples
    /\ reporter = "Check" /\ final = FALSE /\ todo = {}
    /\ snap = NoSnapshot /\ cumulative = NoSamples /\ latest = NoSnapshot
    /\ dashboard = IF HasDashboard THEN "Bind" ELSE "Done"
    /\ main = "Running"

-----------------------------------------------------------------------------
(* Generator thread *)

(* The head of the loop.  Pacing ends early on shutdown and the packet is  *)
(* still pushed; past the bound the generator only waits for the flag.     *)
GenCheck ==
    /\ gen = "Check"
    /\ shutdown \/ sent < MaxPackets
    /\ gen' = IF shutdown THEN "Done" ELSE "Push"
    /\ UNCHANGED sent

(* producer.push: a full ring drops the newest packet. *)
FaultyEnqueue == Append(ring, sent + 1)         \* unbounded
Enqueue == IF Len(ring) < RingCapacity THEN Append(ring, sent + 1) ELSE ring

FaultyGenPush ==                        \* a failed push is not reported
    /\ gen = "Push"
    /\ ring' = Enqueue
    /\ gen' = "Check"
    /\ sent' = sent + 1
GenPush ==
    /\ gen = "Push"
    /\ ring' = Enqueue
    /\ gen' = IF Len(ring) < RingCapacity THEN "Check" ELSE "Drop"
    /\ sent' = sent + 1

IncDrop ==
    /\ gen = "Drop"
    /\ counters' = [counters EXCEPT !["drops"] = @ + 1]
    /\ gen' = "Check"
    /\ UNCHANGED sent

Generator ==
    /\ \/ GenCheck /\ UNCHANGED <<ring, counters>>
       \/ GenPush /\ UNCHANGED counters
       \/ IncDrop /\ UNCHANGED ring
    /\ UNCHANGED <<shutdown, consumerVars, pending, pnl_bits, histos,
                   reporterVars, dashboard, main>>

-----------------------------------------------------------------------------
(* Consumer thread *)

ConsumerCheck ==
    /\ consumer = "Check"
    /\ consumer' = IF shutdown THEN "Done" ELSE "Pop"
    /\ UNCHANGED <<ring, packet, outcome, processed, fills, pending, histos>>

Pop ==
    /\ consumer = "Pop"
    /\ IF ring = <<>>
       THEN consumer' = "Check" /\ UNCHANGED <<ring, packet>>
       ELSE consumer' = "Process" /\ packet' = Head(ring) /\ ring' = Tail(ring)
    /\ UNCHANGED <<outcome, processed, fills, pending, histos>>

One(b) == IF b THEN 1 ELSE 0

(* What a packet writes: its order and the gauge, or its rejection, then   *)
(* its tick.                                                               *)
Bumped(o) ==
    {"ticks"} \cup (IF o = "Order" THEN {"orders", "position"} ELSE {})
              \cup (IF o = "Reject" THEN {"rejects"} ELSE {})

Process(o) ==
    /\ consumer = "Process"
    /\ consumer' = "Record"
    /\ outcome' = o
    /\ fills' = fills + One(o = "Order")
    /\ pending' = pending \cup Bumped(o)
    /\ UNCHANGED <<ring, packet, processed, histos>>

(* Histos.record: a packet with an order has one gateway sample, and a     *)
(* tick_to_order sample with the backfill its stall calls for.             *)
Sampled(h, backfill) ==
    [decode |-> h.decode + 1,
     gateway |-> h.gateway + One(outcome = "Order"),
     tick_to_order |-> h.tick_to_order
                         + (IF outcome = "Order" THEN 1 + backfill ELSE 0)]

(* It runs under the mutex; the PnL is stored after it. *)
FaultyRecord(backfill) ==       \* the counters are bumped after the samples
    /\ consumer = "Record"
    /\ histos' = Sampled(histos, backfill)
    /\ processed' = processed + 1
    /\ pending' = pending \cup {"pnl"}
    /\ consumer' = "Check"
    /\ UNCHANGED <<ring, packet, outcome, fills>>
Record(backfill) ==
    /\ consumer = "Record"
    /\ pending = {}
    /\ histos' = Sampled(histos, backfill)
    /\ processed' = processed + 1
    /\ pending' = {"pnl"}
    /\ consumer' = "Check"
    /\ UNCHANGED <<ring, packet, outcome, fills>>

Consumer ==
    /\ \/ ConsumerCheck
       \/ Pop
       \/ \E o \in Outcomes : Process(o)
       \/ \E backfill \in 0 .. MaxBackfill : Record(backfill)
    /\ UNCHANGED <<shutdown, genVars, counters, pnl_bits, reporterVars, dashboard, main>>

(* A relaxed write of the consumer becomes visible: the PnL and the gauge  *)
(* are stored, the others are added to.                                    *)
Written(w) == IF w = "position" THEN fills ELSE counters[w] + 1

Flush(w) ==
    /\ w \in pending
    /\ pending' = pending \ {w}
    /\ IF w = "pnl"
       THEN pnl_bits' = processed /\ UNCHANGED counters
       ELSE counters' = [counters EXCEPT ![w] = Written(w)] /\ UNCHANGED pnl_bits
    /\ UNCHANGED <<shutdown, genVars, ring, consumerVars, histos, reporterVars,
                   dashboard, main>>

-----------------------------------------------------------------------------
(* Reporter thread *)

(* The head of the loop, its sleep included: the snapshot that follows is  *)
(* the final one when the flag was seen.                                   *)
FaultyReporterCheck ==              \* sleeps until the run ends
    /\ reporter = "Check"
    /\ shutdown
    /\ reporter' = "Pnl"
    /\ final' = TRUE
    /\ UNCHANGED <<todo, snap, cumulative, latest, histos>>
ReporterCheck ==
    /\ reporter = "Check"
    /\ reporter' = "Pnl"
    /\ final' = shutdown
    /\ UNCHANGED <<todo, snap, cumulative, latest, histos>>

LoadPnl ==
    /\ reporter = "Pnl"
    /\ reporter' = "Swap"
    /\ snap' = [snap EXCEPT !.pnl = pnl_bits]
    /\ UNCHANGED <<final, todo, cumulative, latest, histos>>

(* Under the mutex, take the interval's histograms and leave empty ones;   *)
(* then add them to the cumulative ones.                                   *)
FaultyTaken == histos               \* the interval's in place of the sum
Taken ==
    [decode |-> cumulative.decode + histos.decode,
     gateway |-> cumulative.gateway + histos.gateway,
     tick_to_order |-> cumulative.tick_to_order + histos.tick_to_order]

FaultySwap ==                       \* copied, not taken
    /\ reporter = "Swap"
    /\ reporter' = "Load"
    /\ cumulative' = Taken
    /\ todo' = CounterNames
    /\ snap' = [snap EXCEPT !.cumulative = cumulative']
    /\ UNCHANGED <<final, latest, histos>>
Swap ==
    /\ reporter = "Swap"
    /\ reporter' = "Load"
    /\ cumulative' = Taken
    /\ histos' = NoSamples
    /\ todo' = CounterNames
    /\ snap' = [snap EXCEPT !.cumulative = cumulative']
    /\ UNCHANGED <<final, latest>>

Load(c) ==
    /\ reporter = "Load"
    /\ c \in todo
    /\ todo' = todo \ {c}
    /\ snap' = [snap EXCEPT !.counters[c] = counters[c]]
    /\ UNCHANGED <<reporter, final, cumulative, latest, histos>>

(* latest.store, or the return of the final snapshot. *)
Publish ==
    /\ reporter = "Load"
    /\ todo = {}
    /\ IF final
       THEN reporter' = "Done" /\ UNCHANGED <<latest, snap>>
       ELSE reporter' = "Check" /\ latest' = snap /\ snap' = NoSnapshot
    /\ UNCHANGED <<final, todo, cumulative, histos>>

Reporter ==
    /\ \/ ReporterCheck
       \/ LoadPnl
       \/ Swap
       \/ \E c \in CounterNames : Load(c)
       \/ Publish
    /\ UNCHANGED <<shutdown, genVars, ring, consumerVars, pending, counters,
                   pnl_bits, dashboard, main>>

-----------------------------------------------------------------------------
(* Dashboard thread (src/metrics/dashboard.rs serve): it gives up when it  *)
(* cannot bind its port or receiving fails, and otherwise answers requests *)
(* or times out until it sees the flag.                                    *)
FaultyListen == "Serve"              \* the flag is not read
Listen == IF shutdown THEN "Done" ELSE "Serve"

Dashboard ==
    /\ \/ dashboard = "Bind" /\ dashboard' \in {"Check", "Done"}
       \/ dashboard = "Check" /\ dashboard' = Listen
       \/ dashboard = "Serve" /\ dashboard' \in {"Check", "Done"}
    /\ UNCHANGED <<shutdown, genVars, ring, consumerVars, pending, counters,
                   pnl_bits, histos, reporterVars, main>>

(* Main thread: after the duration, stop; then join every thread. *)
others == <<genVars, ring, consumerVars, pending, counters, pnl_bits, histos,
            reporterVars, dashboard>>

Stop ==
    /\ main = "Running"
    /\ main' = "Joining"
    /\ shutdown' = TRUE
    /\ UNCHANGED others

Return ==
    /\ main = "Joining"
    /\ {gen, consumer, reporter, dashboard} = {"Done"}
    /\ main' = "Returned"
    /\ UNCHANGED <<shutdown, others>>

(* The program has returned and nothing is left to become visible. *)
Finished == main = "Returned" /\ pending = {} /\ UNCHANGED vars

Next ==
    \/ Generator
    \/ Consumer
    \/ \E w \in Writes : Flush(w)
    \/ Reporter
    \/ Dashboard
    \/ Stop
    \/ Return
    \/ Finished

(* Every thread keeps being scheduled, sleeps and timeouts end, and a      *)
(* relaxed write is eventually visible.  Nothing is assumed of Stop: a run *)
(* may be as long as one likes.                                            *)
Fairness ==
    /\ WF_vars(Generator)
    /\ WF_vars(Consumer)
    /\ \A w \in Writes : WF_vars(Flush(w))
    /\ WF_vars(Reporter)
    /\ WF_vars(Dashboard)
    /\ WF_vars(Return)

Spec == Init /\ [][Next]_vars /\ Fairness

-----------------------------------------------------------------------------
(* Every thread is at one of its steps, and the ring never holds more than *)
(* its capacity.                                                           *)
TypeOK ==
    /\ shutdown \in BOOLEAN /\ final \in BOOLEAN
    /\ gen \in {"Check", "Push", "Drop", "Done"}
    /\ consumer \in {"Check", "Pop", "Process", "Record", "Done"}
    /\ reporter \in {"Check", "Pnl", "Swap", "Load", "Done"}
    /\ dashboard \in {"Bind", "Check", "Serve", "Done"}
    /\ main \in {"Running", "Joining", "Returned"}
    /\ sent \in 0 .. MaxPackets /\ packet \in 0 .. MaxPackets
    /\ processed \in Nat /\ fills \in Nat /\ pnl_bits \in Nat
    /\ ring \in Seq(1 .. MaxPackets) /\ Len(ring) <= RingCapacity
    /\ outcome \in Outcomes
    /\ pending \subseteq Writes
    /\ todo \subseteq CounterNames
    /\ counters \in Counters
    /\ histos \in Histos /\ cumulative \in Histos
    /\ snap \in Snapshot /\ latest \in Snapshot

InProcess == consumer \in {"Process", "Record"}

(* Every packet emitted is processed, in process, in the ring, dropped, or *)
(* about to be counted as dropped: none is lost between the threads.       *)
NoPacketLost ==
    sent = processed + One(InProcess) + Len(ring)
             + counters["drops"] + One(gen = "Drop")

(* Seen from the packets, the threads are a bounded queue that drops the   *)
(* newest packet when it is full and says so; a drop counts from the       *)
(* failed push on, which is before inc_drop shows it.                      *)
TheIngest == INSTANCE Ingest WITH
    Capacity <- RingCapacity,
    emitted <- sent, waiting <- ring, handling <- packet,
    dropped <- counters["drops"] + One(gen = "Drop")
ImplementsIngest == TheIngest!Spec

(* Swapping the histograms under a running consumer loses no sample and    *)
(* counts none twice: what the reporter took and what is waiting for it    *)
(* are all that was recorded.                                              *)
NoSampleLost == cumulative.decode + histos.decode = processed

(* A snapshot never shows more packets recorded than ticks, more gateway   *)
(* samples than orders or than fills behind its position, fewer            *)
(* tick_to_order samples than gateway ones, or a PnL ahead of its samples, *)
(* however the relaxed accesses are ordered: its parts are loaded in the   *)
(* order in which they cannot.                                             *)
Consistent(s) ==
    /\ s.cumulative.decode <= s.counters["ticks"]
    /\ s.cumulative.gateway <= s.counters["orders"]
    /\ s.cumulative.gateway <= s.counters["position"]
    /\ s.cumulative.gateway <= s.cumulative.tick_to_order
    /\ s.pnl <= s.cumulative.decode
SnapshotsConsistent ==
    Consistent(latest) /\ (reporter = "Done" => Consistent(snap))

(* What the dashboard shows never goes back. *)
NoLess(s, t) ==
    /\ s.pnl <= t.pnl
    /\ s.cumulative.decode <= t.cumulative.decode
    /\ s.cumulative.gateway <= t.cumulative.gateway
    /\ s.cumulative.tick_to_order <= t.cumulative.tick_to_order
    /\ \A c \in CounterNames : s.counters[c] <= t.counters[c]
LatestOnlyGrows == [][NoLess(latest, latest')]_vars

(* "Per-tick stages saw every packet" and "decode is recorded with plain   *)
(* record, so its sample count is exactly one per processed packet"        *)
(* (tests/pipeline_e2e.rs): the final snapshot has a sample for each tick. *)
FinalSamplesMatchTicks ==
    reporter = "Done" => snap.cumulative.decode = snap.counters["ticks"]

(* Once stopped, a run returns: no thread misses the flag or waits on      *)
(* another for ever.                                                       *)
StopsRunning == shutdown ~> main = "Returned"

(* A recorded sample reaches the dashboard while the run lasts: it is in   *)
(* the latest snapshot sooner or later, or the reporter has ended.         *)
SamplesReported ==
    \A n \in 1 .. MaxPackets :
        processed >= n ~> latest.cumulative.decode >= n \/ reporter = "Done"
=============================================================================
