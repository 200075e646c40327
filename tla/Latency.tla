------------------------------ MODULE Latency ------------------------------
(***************************************************************************)
(* What the latency rows say (src/metrics.rs, the stamps of                *)
(* src/pipeline.rs and the conversion of src/timing.rs): process stamps    *)
(* the stage boundaries of a tick with the raw counter, turns the stamps   *)
(* into nanoseconds and records them, and the reporter swaps the           *)
(* histograms out, adds them to the cumulative ones and publishes the      *)
(* statistics of both.                                                     *)
(*                                                                         *)
(* A histogram is the bag of the values recorded in it: HdrHistogram keeps *)
(* three significant digits, the bag keeps them all.  The counters and the *)
(* PnL of a snapshot, and the relaxed accesses to them, are Runner's.      *)
(***************************************************************************)
EXTENDS Integers, Sequences, Bags, FiniteSetsExt

CONSTANTS
    Rate,               \* cfg.rate, in packets per second; 0 is unthrottled
    HistHigh,           \* HIST_HIGH
    Numer, Denom,       \* nanoseconds per count of the raw counter
    Quick, Stalled,     \* counts that may pass between two stamps
    MaxTicks,           \* bound on the ticks
    MaxSnapshots        \* bound on the snapshots

ASSUME LatencyAssumption ==
    /\ Rate \in Nat
    /\ {HistHigh, Numer, Denom} \subseteq Nat \ {0}
    /\ {Quick, Stalled} \subseteq Nat
    /\ {MaxTicks, MaxSnapshots} \subseteq Nat

VARIABLES
    histos,             \* shared, under the mutex
    taken,              \* what the reporter has swapped out and not yet added
    cumulative,
    reporting,          \* the reporter is between the swap and the snapshot
    measured,           \* the samples process has recorded, a bag
    snapshots           \* the snapshots published, a sequence

vars == <<histos, taken, cumulative, reporting, measured, snapshots>>

StageNames == {"decode", "book", "signal", "risk", "gateway",
               "tick_to_signal", "tick_to_order"}
EndToEnd == {"tick_to_signal", "tick_to_order"}
Empty == [s \in StageNames |-> EmptyBag]

(* The sum of a function over S: of a bag, how many members are in S.      *)
SumOver(f, S) == MapThenSumSet(LAMBDA v : f[v], S)
Count(h) == SumOver(h, DOMAIN h)
One(v) == SetToBag({v})

Init ==
    /\ histos = Empty /\ taken = Empty /\ cumulative = Empty
    /\ reporting = FALSE
    /\ measured = EmptyBag
    /\ snapshots = <<>>

-----------------------------------------------------------------------------
(* One tick: stamps t[0] to t[5], as many as its outcome takes.            *)
DeltaNs(start, end) == IF end <= start THEN 0 ELSE ((end - start) * Numer) \div Denom

Stamps(gaps) == [k \in 0 .. Len(gaps) |-> SumOver(gaps, 1 .. k)]

(* An optional field is a set of at most one value.  A tick that updated   *)
(* no book stamps its end and leaves signal_ns at its default.             *)
FaultySample(outcome, t) ==             \* the total leaves out the decoding
    [decode |-> {DeltaNs(t[0], t[1])},
     book |-> {DeltaNs(t[1], t[2])},
     signal |-> {IF outcome = "NoUpdate" THEN 0 ELSE DeltaNs(t[2], t[3])},
     tick_to_signal |-> {DeltaNs(t[1], t[3])},
     risk |-> IF outcome \in {"Reject", "Order"} THEN {DeltaNs(t[3], t[4])} ELSE {},
     gateway |-> IF outcome = "Order" THEN {DeltaNs(t[4], t[5])} ELSE {},
     tick_to_order |-> IF outcome = "Order" THEN {DeltaNs(t[1], t[5])} ELSE {}]
Sample(outcome, t) ==
    [decode |-> {DeltaNs(t[0], t[1])},
     book |-> {DeltaNs(t[1], t[2])},
     signal |-> {IF outcome = "NoUpdate" THEN 0 ELSE DeltaNs(t[2], t[3])},
     tick_to_signal |-> {DeltaNs(t[0], t[3])},
     risk |-> IF outcome \in {"Reject", "Order"} THEN {DeltaNs(t[3], t[4])} ELSE {},
     gateway |-> IF outcome = "Order" THEN {DeltaNs(t[4], t[5])} ELSE {},
     tick_to_order |-> IF outcome = "Order" THEN {DeltaNs(t[0], t[5])} ELSE {}]

StampsOf(outcome) ==
    CASE outcome = "Order"  -> 5
      [] outcome = "Reject" -> 4
      [] OTHER              -> 3

(* Histos::record.  RecordCorrect is HdrHistogram's: the value, and the    *)
(* value less each whole interval, down to one interval.                   *)
ExpectedInterval == IF Rate > 0 THEN 1000000000 \div Rate ELSE 0
FaultyClamp(v) == Max({1, v})           \* no upper bound
Clamp(v) == Max({1, Min({v, HistHigh})})

RecordCorrect(h, v, interval) ==
    LET backfill[m \in Int] ==
            IF m < interval THEN EmptyBag ELSE One(m) (+) backfill[m - interval]
    IN  h (+) One(v) (+) backfill[v - interval]

FaultyRecord(h, sample) ==              \* every row is corrected
    [s \in StageNames |->
        IF sample[s] = {} THEN h[s]
        ELSE RecordCorrect(h[s], Clamp(Max(sample[s])), Max({ExpectedInterval, 1}))]
Record(h, sample) ==
    [s \in StageNames |->
        LET values == {Clamp(v) : v \in sample[s]}
        IN  IF s \in EndToEnd /\ values # {}
            THEN RecordCorrect(h[s], Max(values), Max({ExpectedInterval, 1}))
            ELSE h[s] (+) SetToBag(values)]

(* At most one stage of a tick stalls: a bound on the durations tried.     *)
Process(outcome) ==
    /\ Count(measured) < MaxTicks
    /\ \E slow \in 0 .. StampsOf(outcome) :
          LET gaps == [k \in 1 .. StampsOf(outcome) |-> IF k = slow THEN Stalled ELSE Quick]
              sample == Sample(outcome, Stamps(gaps))
          IN  /\ histos' = Record(histos, sample)
              /\ measured' = measured (+) One(sample)
    /\ UNCHANGED <<taken, cumulative, reporting, snapshots>>

-----------------------------------------------------------------------------
(* Reporter::snapshot.  The swap is under the mutex; the sum and the       *)
(* statistics are not, and ticks are recorded meanwhile.                   *)
Swap ==
    /\ ~ reporting
    /\ Len(snapshots) < MaxSnapshots
    /\ reporting' = TRUE
    /\ taken' = histos
    /\ histos' = Empty
    /\ UNCHANGED <<cumulative, measured, snapshots>>

(* HdrHistogram: the least value that as many samples as the percentage    *)
(* asks for, rounded up and at least one, do not exceed.                   *)
ValueAt(h, percent) ==
    LET rank == Max({1, (percent * Count(h) + 99) \div 100})
        covered(v) == SumOver(h, {w \in DOMAIN h : w <= v})
    IN  IF h = EmptyBag THEN 0 ELSE Min({v \in DOMAIN h : covered(v) >= rank})

Stat(h) ==
    [p50 |-> ValueAt(h, 50), p95 |-> ValueAt(h, 95), p99 |-> ValueAt(h, 99),
     max |-> Max({0} \cup DOMAIN h), count |-> Count(h)]
Stats(hs) == [s \in StageNames |-> Stat(hs[s])]

FaultyAddRows(hs, other) ==                 \* a row is left out
    [s \in StageNames |-> IF s = "tick_to_order" THEN hs[s] ELSE hs[s] (+) other[s]]
AddRows(hs, other) == [s \in StageNames |-> hs[s] (+) other[s]]

Report ==
    /\ reporting
    /\ reporting' = FALSE
    /\ cumulative' = AddRows(cumulative, taken)
    /\ taken' = Empty
    /\ snapshots' = Append(snapshots,
           [interval |-> Stats(taken), cumulative |-> Stats(cumulative')])
    /\ UNCHANGED <<histos, measured>>

Next ==
    \/ \E outcome \in {"NoUpdate", "Quiet", "Reject", "Order"} : Process(outcome)
    \/ Swap
    \/ Report

Spec == Init /\ [][Next]_vars

-----------------------------------------------------------------------------
IsHistogram(h) ==
    IsABag(h) /\ DOMAIN h \subseteq 1 .. HistHigh

(* Every value recorded is one the histograms hold, so that the errors of  *)
(* record, which the code discards, cannot occur; the backfill included.   *)
TypeOK ==
    /\ \A s \in StageNames :
          IsHistogram(histos[s]) /\ IsHistogram(taken[s]) /\ IsHistogram(cumulative[s])
    /\ reporting \in BOOLEAN
    /\ IsABag(measured)
    /\ Len(snapshots) <= MaxSnapshots

(* "record_correct against the open-loop inter-arrival interval"           *)
(* (README.md): the waits of the requests an open loop would have sent,    *)
(* one each interval, while one of v nanoseconds was in process.           *)
Waits(s, v) ==
    {v} \cup IF s \in EndToEnd /\ ExpectedInterval > 0
             THEN {w \in ExpectedInterval .. v : (v - w) % ExpectedInterval = 0}
             ELSE {}
Owed(s) ==
    LET waits(x) == UNION {Waits(s, Clamp(v)) : v \in x[s]}
    IN  [w \in UNION {waits(x) : x \in DOMAIN measured} |->
            SumOver(measured, {x \in DOMAIN measured : w \in waits(x)})]

(* Whatever the reporter swaps out and while whichever tick is recorded,   *)
(* the rows hold each tick's own durations and, end to end, the waits its  *)
(* stall would have caused: nothing is lost, duplicated or invented.       *)
SamplesConserved ==
    \A s \in StageNames : histos[s] (+) taken[s] (+) cumulative[s] = Owed(s)

(* A snapshot's rows speak of the same ticks: the last tick's end-to-end   *)
(* time is in the interval its stages are in, so a row of totals is never  *)
(* below a row of the stages it sums, whatever rounding, clamping and the  *)
(* backfill do, and the rows that count ticks agree.                       *)
TotalsCoverStages ==
    \A n \in DOMAIN snapshots : \A rows \in {snapshots[n].interval, snapshots[n].cumulative} :
        /\ \A s \in {"decode", "book", "signal"} :
              rows[s].max <= rows.tick_to_signal.max
        /\ rows.gateway.count > 0 => rows.gateway.max <= rows.tick_to_order.max
        /\ rows.decode.count = rows.book.count
        /\ rows.decode.count = rows.signal.count
        /\ rows.gateway.count <= rows.risk.count
        /\ rows.risk.count <= rows.signal.count

(* A quantile of the whole run lies between the least and the greatest the *)
(* intervals showed, and its maximum is the greatest of theirs.            *)
CumulativeBetweenIntervals ==
    \A n \in DOMAIN snapshots : \A s \in StageNames :
        LET shown == {snapshots[k].interval[s] : k \in 1 .. n}
            live == {row \in shown : row.count > 0}
            whole == snapshots[n].cumulative[s]
        IN  live # {} =>
               /\ \A q \in {"p50", "p95", "p99"} :
                     /\ Min({row[q] : row \in live}) <= whole[q]
                     /\ whole[q] <= Max({row[q] : row \in live})
               /\ whole.max = Max({row.max : row \in live})

(* "expected_interval_ns is the open-loop inter-arrival time" (metrics.rs) *)
(* and a rate of 0 is unthrottled (runner.rs): without an inter-arrival    *)
(* time there is nothing to correct against, and the end-to-end row has a  *)
(* sample for each tick.                                                   *)
UnthrottledUncorrected ==
    Rate = 0 => Count(histos["tick_to_signal"]) = Count(histos["decode"])
=============================================================================
