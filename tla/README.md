# Verification of cme_md_connector

TLA+ models of the market-data connector in `src/`, the TLC runs that check
them on small instances, and theorems about them proved with TLAPS for every
value of their constants.

## The system

A run has up to five threads (`src/src/runner.rs`):

```
 generator --push--> SPSC ring --pop--> consumer: Pipeline::process
     |  full: drop, count                decode -> book -> mark, signal -> risk -> gateway -> fill
     |                                       | counters, gauge (relaxed atomics), histograms (mutex), pnl_bits
     |                                       v
  shutdown flag  <--- main: sleep, stop, join        reporter: snapshot -> latest (ArcSwap) -> dashboard
```

### Inventory

| Component | State | Operations | What is hard | Correct when |
|---|---|---|---|---|
| `mdp3/` codec | none | parse, frame, decode, encode | truncation, unknown entries, counts near their width | what is decoded is what was encoded; a cut message yields nothing |
| `orderbook.rs` | per instrument two ladders of 10, last RptSeq, gap count | `apply` (six actions, reset, implied), `bbo` | lost packets, full ladders, level numbering, u32 arithmetic | the ladders are the exchange's best prices; gaps are exactly the losses |
| `signal.rs` | per instrument EWMA, u32 count, Flat/Long/Short | `update` | warm-up, vanishing deviation, the counter's wrap | silent until warm; signals alternate; the stop flattens |
| `risk.rs` | per instrument net, average, realized, mark; kill-switch | `check`, `mark`, `on_fill` | long fill sequences, reversals, when the PnL is refreshed | limits hold over any sequence; the books balance; the switch is exact and binding |
| `gateway.rs` | next id, accepted | `submit` | marketable and passive limits, negative prices | fills are within the touch |
| `pipeline.rs` | the four above | `process` | the engine commits before risk decides; one mark per packet; early returns | positions follow signals; exits close; counters agree; marks are current |
| `metrics.rs` | histograms (mutex), counters (relaxed), cumulative | `record`, `inc_*`, `snapshot` | swap under a running consumer, relaxed ordering, clamping, coordinated-omission backfill | no sample lost or invented; rows agree; snapshots consistent and monotone |
| `runner.rs` | ring, flag, `pnl_bits`, `latest` | five thread loops | full ring, shutdown races, joins | no packet lost uncounted; a stopped run returns |
| `metrics/dashboard.rs` | none | `serve` | bind or receive failures | sees the flag; shows a snapshot |
| `loadgen.rs` | price simulation, sequence numbers | `next_packet`, `read_pcap_payloads` | replay loops over old books; two entries share an RptSeq | (feeds the others) |
| `timing.rs` | none | `raw`, `delta_ns` | durations that round to zero | (feeds the histograms) |
| `affinity.rs`, `main.rs`, `dashboard.html` | none | pinning, flags, page | - | - |

The components interact by plain calls within the consumer thread, and by the
ring, the atomics, the histogram mutex and `latest` between threads.
`PROJECT.json` lists every hazard with its line.

## Modules

Each component of the hot path is a module of operators on a record with the
fields of the Rust struct; one operator per method. A specification with
variables is then built on top of them: a session for the component alone, and
`Pipeline` for all of them.

| Module | Models | Remarks |
|---|---|---|
| `ConnectorLib` | `lib.rs` | Sides, options, PRICE9 conversion. A mid is the mean of two raw prices, so mids and marks count *half* raw units and stay integers. |
| `Rationals` | f64 amounts | Exact rationals in lowest terms: rounding of f64 is abstracted away. |
| `RiskManager` | `risk.rs` | `Check`, `Mark`, `OnFill` (`Extend`, `Offset`), `RefreshKill`, PnL. |
| `RiskSession` | its caller | `MarkTo`, `Trade`; adds `cash`, an account the code never keeps. |
| `SignalEngine` | `signal.rs` | The count with its width, whether the deviation is usable, the position. A sample's z-score and the deviation it leaves are inputs: any numbers the averages could produce. |
| `SignalSession` | its caller | `Sample`; adds the real number of samples and a follower's exposure. |
| `OrderBook` | `orderbook.rs` | `ApplyEntry` = `Sequence` (gaps) then `UpdateSides`. Levels are prices; sizes are read by no decision. |
| `FeedMirror` | a source and one book | The exchange is external: a set of prices per side; a price's level is one more than the number of better ones. Its actions publish packets with all six update actions, numbered each or together, delivered, lost, or doubled as in a capture of both lines. `Replay` is the generator thread looping over the packets published; `NextPacket` is the synthetic generator, the thread's other branch. |
| `Wire` | `mdp3/` codec, `PacketBuf` | From `PacketBuilder` or a capture through the ring slot to the entries `process` collects. Messages are lengths, counts and items, an item the two enum bytes of an entry and its other fields; `len`, `left` and `done` are the positions of the two iterators; `Within` says what they may reach. `Pipeline` starts where it ends: at a packet's entries. |
| `MockGateway` | `gateway.rs` | `Submit`, `FillPx`. |
| `Pipeline` | `pipeline.rs` `process` | `Decode`, one `BookEntry` per entry, then `NoMid`, `Quiet`, `Rejected` or `Ordered`: the four ways a packet ends. |
| `Desk` | what the whole promises | Abstract: flat or one order's quantity, opened from flat, closed to flat, only closed once halted. |
| `Runner` | `runner.rs`, the hand-off of `metrics.rs`, `serve` | One action per access to shared state. Values are ages: a PnL the number of packets behind it, the position gauge the number of fills. An order adds one `gateway` sample and, `record_correct` backfilling, one or more of `tick_to_order`. |
| `Ingest` | what the ring promises | Abstract: a bounded queue that handles in order, drops only the newest when full, and counts what it drops. |
| `Latency` | `metrics.rs`, the stamps of `process`, `timing.rs` | A histogram is the bag of its values; HdrHistogram keeps three digits of each. `RecordCorrect` and `ValueAt` are HdrHistogram's and external. `taken` is the reporter's local between the swap and the sum. |
| `StageProofs` | - | Theorems about the operators of the hot path's stages (amounts, risk manager, signal engine, ladders), used by the sessions, `Pipeline` and `FeedMirror`. |
| other `*Proofs` | - | Theorems; each extends the module it is about. |
| `MC*` | - | Packets and multipliers for TLC. |

**Seeded faults.** A definition whose name starts with `Faulty` is not part of
any model. Put in place of the definition that follows it, it is a plausible
bug that one of the properties must find; `PROJECT.json` pairs them.

**Relaxed atomics.** The counters, the position gauge and `pnl_bits` are `Relaxed`, so `Runner`
does not treat them as sequentially consistent. A write of the consumer waits
in `pending` until `Flush` makes it visible, in any order, at the latest when
the consumer next unlocks the histogram mutex; the reporter's loads after it
unlocks the mutex (`todo`) also happen in any order. Its load of `pnl_bits`
precedes the lock, and could drift no further than into the critical section,
where the histograms cannot change: the model's order covers that.

## Runs

| Run | Shows | Bounds, and why they are enough |
|---|---|---|
| `risk` | Positions within the limit; average-cost books equal to the cash that changed hands (`BooksBalance`); the switch latches exactly when the liquidation value, computed from the cash, breaches the limit (`KillExact`), and binds both instruments (`KilledOnlyShrinks`) | Two instruments, different multipliers, four trades of 1-3 within a limit of 3: adding, partial closes, closes and flips each follow each other, with averages that are thirds; marks unbounded in number |
| `signal` | Warm-up, exposure, stop | Eight samples at every z-score around three distinct thresholds; warm-up 3, so all transitions of the position occur after it, with and without a deviation |
| `feed` | The ladders mirror the source unless an update was lost, came twice or met another pass's book, and again after a reset or a packet of the generator; `gaps` equals the losses that a later delivery reveals, doubled packets and the seam of a replay included | Three prices, ladders of 2, six packets: full ladders, refills, sweeps, losses in a row; captures of up to three packets, four replayed: each once and one again, with a loss before, at or after the seam; 1.6 million states |
| `feed_deep` | *violation* | a feed one level deeper than the ladder |
| `pipeline` | Positions follow signals, exits close, marks are current, a loss at current mids latches the switch, counters and gauge reconcile, fills within the touch, `Desk` implemented | Two instruments, seven packets: three samples are needed before a signal, leaving entry, loss, rejection and exit; quotes straddle zero and their mid is half a unit off |
| `pipeline_mixed` | *violation* | a packet that quotes two instruments |
| `wire` | What is decoded is every message that arrived whole, entry by entry, and nothing else; the iterators stay within the slot, their message and its group; the array of 64 entries never fills | Up to three messages: encoded ones with one entry, with six that use every action and every type, and with 258, which overflow both their count and the slot; nine captured ones, each wrong or unusual in one of the ways `decode` looks at, unknown enum bytes among them; payloads cut inside the header, between messages and inside one |
| `runner` | No packet or sample lost, snapshots consistent and growing, `Ingest` implemented; deadlock-free | Ring of one, two packets: one drop, one in process while another waits, samples of one taken while the other is recorded; an order's stall adds none or one sample, which tells the two counts of an order apart; 3.6 million states |
| `runner_live` | A stopped run returns; samples reach the dashboard | One packet, with the dashboard thread |
| `runner_samples` | *violation* | one packet |
| `latency` | The rows hold each tick's durations and the waits its stall would have caused, nothing lost, duplicated or invented by the swap (`SamplesConserved`); a row of totals is never below a row it sums; a cumulative quantile lies between the intervals' | Three ticks of any outcome, two snapshots; the scale is shrunk so that a quick stage rounds to 0 ns and a stalled one lasts four intervals of 5 ns and passes `HistHigh`; 56,000 states |
| `latency_unthrottled` | *violation*: see findings | the same at rate 0, where a total of 20 ns is 20 samples |

Bounds are named in the modules and appear in guards only: `MaxTrades`,
`MaxSamples`, `MaxPackets`, `MaxMessages`, `MaxTicks`,
`MaxCapture`, `MaxReplayed`, `MaxSnapshots`; `MaxBackfill` bounds what a
stall adds in `Runner` (none in `runner_live`). `Wire` assumes that a
message fits its 16-bit size, as any that `MaxPacket` lets through does, and
that neither 64 entries nor 256 fit a slot. Where a run says `CHECK_DEADLOCK
FALSE` its inputs are bounded and simply end. Mids and prices come from sets
around zero because negative PRICE9 prices are legal and round differently.

### What the settings hide

`CountRange` and `RptRange` (2^32 in the code) are larger than what a bounded
run counts to. With smaller ones TLC finds what release arithmetic does at the
wrap: `StopsOut` fails with `CountRange = 4` (the averages restart while a
position is held), `GapsAreExact` with `RptRange = 4` (a loss is missed at the
wrap, and entries that share the largest number count as a gap). A debug build
panics there. `PriceBand = 0` breaks `ExitsClose`: a mid that is not a whole
raw price is rounded out of the band, its entry is rejected, and the exit the
engine then sends opens a position; hence `Tradable`, below.

### Fairness

`Runner` assumes weak fairness of each thread and of the visibility of each
relaxed write. The operating system schedules the threads; the sleeps and
`recv_timeout` end; the pacing loop reads the flag; pushes and pops are
wait-free; the mutex is held only for one `record` or one swap. Nothing is
assumed of `Stop`: `StopsRunning` starts from the flag. The safety runs need
no fairness.

## Findings

1. **A full ladder loses its last level** (`orderbook.rs:100`): a `New` entry
   numbered just past it pops the deepest level and inserts nothing.
2. **Only the last book of a packet is marked** (`pipeline.rs:109`): after a
   packet that updates two instruments the PnL of the other is stale, and a
   loss beyond the limit leaves the switch open. The generator sends one
   instrument per packet; a replayed capture need not.
3. **The final snapshot races the last packet** (`metrics.rs:160`): the tick is
   counted before its sample is recorded and the reporter does not wait for
   the consumer, so `decode.count == snap.ticks`, which the end-to-end test
   asserts, may fail. The order counter has the same race, with a wider window
   (`pipeline.rs:175`), against the test's `order.count >= snap.orders`. What
   every snapshot does keep is the other direction, of `gateway`, which is
   never backfilled.
4. **An unthrottled run is corrected against a nanosecond** (`metrics.rs:96`):
   rate 0 gives an interval of 0, `record` raises it to 1, and `record_correct`
   then adds a sample for every nanosecond of an end-to-end time. The totals'
   percentiles tend to half of their maximum, their counts are nanoseconds,
   and the loop runs under the histogram mutex on the hot path.

Also seen, without a run of their own:

- *A latched kill-switch lets a position reverse* (`risk.rs:131`): only
  `|projected| > |net|` is refused, so selling twice a long position passes,
  while the comment speaks of flattening or reducing. In the pipeline orders
  have one size, and `KilledOnlyShrinks` and `Desk` hold.
- *Packets are acted on whether or not their event has ended*
  (`pipeline.rs:105`): the codec's comment has the BBO publishable once the
  end-of-event bit is set (`mdp3/enums.rs:85`), and only tests read that bit.
  The generator sets it on every message; a captured feed need not.
- *The stop threshold is looked at only while a position is held*, so a flat
  instrument enters on a sample beyond it.
- *`order.p50 >= decode.p50`* (`tests/pipeline_e2e.rs`, "tick-to-order is the
  sum of stages") compares different populations: `decode` has every tick,
  `tick_to_order` the orders and their backfill. `TotalsCoverStages` is what
  does hold: of maxima, and of the stages every tick shares.
- *A replayed capture that does not begin with a reset* is applied to the
  books its last pass left; `stale` starts there.

## Proofs

| Theorem | For every | Argument |
|---|---|---|
| `ReduceIsExact` | rational | the least denominator over which the value is whole; used by everything that types an amount |
| `SessionTypeCorrect` | instruments, limits, prices | `OnFillFacts`: a fill that returns to flat resets the average price |
| `SessionStaysWithinLimit` | the same | `Check`'s projection and `ApplyFill` agree on the new net |
| `KilledSessionOnlyShrinks` | the same | `Mark` and `OnFill` only ever set the switch |
| `SessionBooksBalance`, `SessionKillIsExact` | the same | below |
| `SignalTypeCorrect`, `SignalsAwaitWarmUp`, `FollowersHoldThePosition` | thresholds, warm-up, counter width | `SessionInv`, below |
| `PositionsAreStoppedOut` | the same, if the counter does not wrap | adds `CountsExact` |
| `LaddersStayWithinDepth`, `ApplyKeepsBook` | entry, level and depth | case on the update action |
| `FeedTypeCorrect` | prices, depths, numbers, captures | `Shape`: payloads are packets of one or two entries, kept while the capture is short enough |
| `FeedMirrorsExchange` | the same, with a feed as deep as the ladder | `Mirrors`, below |
| `FeedGapsAreExact` | the same, if the sequence numbers do not wrap | `Counts`, below |
| `PipelineTypeCorrect`, `FillsStayBetweenTouches` | packets, configurations | the second also needs that rounding a mid moves it half a unit at most, towards neither touch |
| `PositionsFollowSignals`, `AcceptedExitsClose`, `PipelineImplementsDesk` | the same, under `Tradable` | below |
| `PublishedNumbersReconcile` | packets, configurations | each signal flips one instrument between flat and not flat, and is an order or a reject; nets move in `Ordered` only |
| `MarksStayCurrent`, `LossesLatch` | packets that each update one instrument; the second, also, a positive loss limit (with another one, an account that never traded is at its limit and nothing has looked yet) | `MarkInv` and `KillCurrent`, below |
| `WireTypeCorrect`, `EntriesAreNotDropped` | messages, enum bytes, slot size, cuts | `Within`: a message that `decode` accepts holds its group, and the frame was taken from what was left of the slot; an entry takes 27 bytes that no other entry is read from, so entries collected, entries to come and bytes left fit in the slot (`EntriesTakeBytes`); a slot of 512 has less room than 64 entries need |
| `WholeMessagesAreDecoded` | the same, number of messages | `Reads`, below |
| `LatencyTypeCorrect` | rates, scales, durations, number of ticks | a histogram's bound survives the clamp and the backfill, which counts down from the clamped value |
| `LatencyConservesSamples` | the same, with an interval of a nanosecond or more | the samples owed grow by what `Record` adds; below |
| `LatencyTotalsCover` | the same, at any rate | the quotient, the clamp and the backfill keep the order of two durations |
| `LatencyAccumulates` | the same, at any rate | the quantile of two histograms added lies between theirs; below |
| `RunnerTypeCorrect`, `NoPacketIsLost`, `NoSampleIsLost`, `SnapshotsAreConsistent` | ring capacity, number of packets, backfill | `MetricsInv`, below |
| `LatestNeverGoesBack` | the same | a snapshot under construction is already no less, part by part, than the latest one |
| `RunnerImplementsIngest` | the same | a failed push is the drop, `inc_drop` a stutter |

*Signals.* `SilentUntilWarm` speaks of the samples an instrument really had;
the engine knows a counter that wraps. `CountsBehind` bridges them: the
counter is never ahead of the samples, and a usable deviation takes two. It
also covers a warm-up of zero, which the run does not.

*Books.* `BooksBalance` compares rationals in lowest terms, which no fill
preserves as it stands. `Balanced` says the same over common denominators, as
an equation of integers; each of `apply_fill`'s four cases (open, add, reduce,
flip) preserves it, and `ReduceIsExact` leads back. `KillExact` is then a sum:
the total PnL and the liquidation value agree instrument by instrument, and a
finite sum of rationals, taken in any order, is their sum over a common
denominator. So `refresh_kill` compares exactly what closing out would leave.

*Ladders.* `MirrorsExchange` says nothing of a capture, and a replay starts
over in it. `CaptureMirrors` records what each payload does to a ladder: it
takes the ladder the exchange showed before it to the one it showed after
it (`Carries`), or tells the whole book. So a book in step stays in step on
every pass (`InStep`), whichever action published the payload. One lemma per
update action shows that the exchange's entry, applied to its ladder, gives
its next ladder. A ladder is the function from a rank to the price that has
it: removing a price moves the ranks behind it by one, and so does `Vec::remove`.
Without a feed as deep as the ladder this fails (`feed_deep`).

*Gaps.* `GapsAreExact` needs the last number seen beside the count: after a
delivery it is the last number sent, after a loss it is smaller (`Counted`).
`Numbered` ties the numbers to the capture, so that a doubled packet and the
start of a pass (numbers that go back) add no gap. The numbers must not wrap:
`2 * MaxPackets + 1 < RptRange`, two entries a packet.

*Decoding.* `DecodesWholeMessages` says what has been collected when the packet
is done. `Reads` says it at every step: behind which message the iterator is,
that this message and those before it arrived, and that the entries are the
meaning of the messages before, followed by what the first `done` items of the
one under decode say. A message that arrived fits the slot, and a slot cannot
hold 256 entries, so its count is the number of its items and `decode` accepts
it exactly when it fits its frame (`FitsIsDecodes`). `CapNeverReached` is what
keeps `try_push` from failing. The two enum tables are each other's inverse, so
an item is read back as the one entry it was written for, or as none.

*Latency.* `SamplesConserved` is inductive given `TypeOK`: the sum of three
bags per row does not change when the reporter moves one into another, and a
tick adds to it the values `Waits` says it owes. That is what `record_correct`
computes: its recursion has one solution, each value from `interval` to v that
is a whole number of intervals below v, once. `RowsCover` is the relation
between rows that both a recorded tick and a sum of rows preserve.
`Accumulates` relates the cumulative histogram to every interval
published so far: a rank that covers a quantile of a sum of two histograms is at most
the sum of their ranks, so a value that both cover is enough, and one that
neither covers is too little.

*Positions.* `PositionFollowsSignal` is inductive given `TypeOK`. The step that
matters is an order: while the switch is open and the settings are `Tradable`
(an order within the limit, a band of at least half a raw unit) every check
passes, so position and belief move together; once it is latched an entry is
rejected and leaves the instrument flat, and its later exit, which would open,
is rejected as well. The refinement of `Desk` and `ExitsClose` follow from it.

*Marks.* Between packets `MarksAreCurrent` follows from what holds within one
(`MarkInv`): only the last updated instrument may carry an old mark, the BBO
remembered is its book's, and the entries to come are for it; so the mark at
the end of the packet is the one that is missing. `KillCurrent` needs no such
packets: `mark` and `on_fill` each end in `refresh_kill`, so a breach at the
marks latches. `LossesLatch` is both together, and `pipeline_mixed` shows that
it fails without the assumption on the packets.

*Threads.* `SnapshotsConsistent` is about finished snapshots. `MetricsInv`
strengthens it to every moment: packets recorded never exceed ticks counted
plus those about to be (a packet's writes are pending or visible before its
sample), orders counted and the fills the gauge has seen are those behind the
`gateway` samples, but for the order about to be recorded; the samples taken
and waiting are those recorded; and a snapshot under construction is bounded
part by part: PnL by what the histograms will show, cumulative by the counters
and the gauge still to be loaded. The consistency rests on two orders in the
code: counters and gauge before the mutex in `record`, PnL before and counters
after it in the reporter. `tick_to_order` has no upper bound in the orders: its
backfill is added under the same lock, so it is only never below `gateway`.

The assumptions on constants (`RiskConfigAssumption`, `SignalConfigAssumption`,
`BookAssumption`, ...) only type the configuration, instruments being finitely
many; limits and thresholds may be any integers.

Sums, cardinalities, flattened sequences, the ends of a payload's messages and
the recursion of `record_correct` need induction. The library's induction theorems take an operator, which the provers cannot
instantiate; the lemmas use induction over sets instead (a set of naturals, or
of subsets, that holds zero, or the empty set, and is closed under one step).

Model-checked only: liveness (`StopsRunning`, `SamplesReported`), which the
prover does not handle under fairness.

## Not modelled

- The prices of the generator (Ornstein-Uhlenbeck, Box-Muller) and the EWMA of
  the signal engine: floating-point arithmetic, taken as free choices of a mid
  and of a z-score.
- The values of an entry's fields as bytes, JSON and HTML, the final report:
  formatting.
- Reading a capture (pcap-parser, etherparse), sockets, clocks and their
  calibration, thread pinning: libraries and I/O. `Latency` takes what the
  clock read as given.
- Throughput: a quotient of clock readings that nothing acts on.
- The command line: it parses flags into the constants of these models.

## Plan

Done: risk, signal, book, pipeline and `Desk`, runner and `Ingest`, wire,
latency, replay and generator; their theorems. To come:

1. `Ewma`: mean and variance over exact rationals, refining the free z-score
   inputs of `SignalEngine`.
2. The dashboard's reads of `latest`, several clients at once.
