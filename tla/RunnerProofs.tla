---------------------------- MODULE RunnerProofs ----------------------------
(***************************************************************************)
(* The safety of a run, for any ring capacity and any number of packets,   *)
(* under every interleaving of the threads and every order of the relaxed  *)
(* accesses: no packet and no sample is lost between the threads, and no   *)
(* snapshot shows samples ahead of the counters or of the position, or a   *)
(* PnL ahead of the samples.                                               *)
(***************************************************************************)
EXTENDS Runner, SequenceTheorems, TLAPS

-----------------------------------------------------------------------------
(* Types *)

(* The packet about to be pushed is within the bound. *)
PushBound == gen = "Push" => sent < MaxPackets

LEMMA InitType == Init => TypeOK /\ PushBound
<1> SUFFICES ASSUME Init PROVE TypeOK /\ PushBound
  OBVIOUS
<1>1. NoSamples \in Histos /\ NoSnapshot \in Snapshot
  BY DEF NoSamples, Histos, NoSnapshot, Snapshot, Counters
<1>2. counters \in Counters
  BY DEF Init, Counters
<1>3. ring \in Seq(1 .. MaxPackets) /\ Len(ring) <= RingCapacity
  BY EmptySeq, RunnerAssumption DEF Init
<1>4. dashboard \in {"Bind", "Check", "Serve", "Done"}
  BY DEF Init
<1>5. /\ histos \in Histos /\ cumulative \in Histos
      /\ snap \in Snapshot /\ latest \in Snapshot
  BY <1>1 DEF Init
<1>6. /\ shutdown \in BOOLEAN /\ final \in BOOLEAN
      /\ gen = "Check" /\ consumer = "Check" /\ reporter = "Check" /\ main = "Running"
      /\ processed \in Nat /\ fills \in Nat /\ pnl_bits \in Nat /\ outcome \in Outcomes
      /\ pending = {} /\ todo = {}
  BY DEF Init, Outcomes
<1>7. sent \in 0 .. MaxPackets /\ packet \in 0 .. MaxPackets
  BY RunnerAssumption DEF Init
<1> QED BY <1>2, <1>3, <1>4, <1>5, <1>6, <1>7 DEF TypeOK, PushBound

LEMMA CountingType ==
  ASSUME NEW f \in Counters, NEW c \in CounterNames, NEW n \in Nat
  PROVE  [f EXCEPT ![c] = n] \in Counters
BY DEF Counters

LEMMA CounterAfter ==
  ASSUME NEW f \in Counters, NEW w \in CounterNames, NEW n \in Nat,
         NEW c \in CounterNames
  PROVE  [f EXCEPT ![w] = n][c] = IF c = w THEN n ELSE f[c]
BY DEF Counters

(* What a flush of a counter writes. *)
LEMMA FlushedCounter ==
  ASSUME TypeOK, NEW w \in Writes, w # "pnl", Flush(w)
  PROVE  /\ w \in CounterNames /\ w # "drops"
         /\ Written(w) \in Nat
         /\ counters' = [counters EXCEPT ![w] = Written(w)]
         /\ pnl_bits' = pnl_bits
         /\ \A c \in CounterNames :
               counters'[c] = IF c = w THEN Written(w) ELSE counters[c]
<1>1. w \in CounterNames /\ w # "drops"
  BY DEF Writes
<1>2. counters \in Counters /\ counters[w] \in Nat /\ fills \in Nat
  BY <1>1 DEF TypeOK, Counters
<1>3. Written(w) \in Nat
  BY <1>2 DEF Written
<1>4. counters' = [counters EXCEPT ![w] = Written(w)] /\ pnl_bits' = pnl_bits
  BY DEF Flush
<1> QED BY <1>1, <1>2, <1>3, <1>4, CounterAfter

LEMMA GeneratorType ==
  ASSUME TypeOK, PushBound, Generator PROVE TypeOK' /\ PushBound'
<1>0. /\ ring \in Seq(1 .. MaxPackets) /\ Len(ring) <= RingCapacity
      /\ sent \in 0 .. MaxPackets /\ counters \in Counters
      /\ MaxPackets \in Nat /\ RingCapacity \in Nat
  BY RunnerAssumption DEF TypeOK
<1>1. /\ ring' \in Seq(1 .. MaxPackets) /\ Len(ring') <= RingCapacity
      /\ gen' \in {"Check", "Push", "Drop", "Done"}
      /\ sent' \in 0 .. MaxPackets /\ counters' \in Counters /\ PushBound'
  <2>1. CASE GenCheck /\ UNCHANGED <<ring, counters>>
    BY <1>0, <2>1 DEF GenCheck, PushBound
  <2>2. CASE GenPush /\ UNCHANGED counters
    <3>1. sent + 1 \in 1 .. MaxPackets
      BY <1>0, <2>2 DEF GenPush, PushBound
    <3>2. ring' \in Seq(1 .. MaxPackets) /\ Len(ring') <= RingCapacity
      <4>1. CASE Len(ring) < RingCapacity
        <5>1. ring' = Append(ring, sent + 1)
          BY <2>2, <4>1 DEF GenPush, Enqueue
        <5>2. /\ Append(ring, sent + 1) \in Seq(1 .. MaxPackets)
              /\ Len(Append(ring, sent + 1)) = Len(ring) + 1
          BY <1>0, <3>1, AppendProperties
        <5>3. Len(ring) \in Nat
          BY <1>0, LenProperties
        <5> QED BY <1>0, <4>1, <5>1, <5>2, <5>3
      <4>2. CASE ~ (Len(ring) < RingCapacity)
        BY <1>0, <2>2, <4>2 DEF GenPush, Enqueue
      <4> QED BY <4>1, <4>2
    <3> QED BY <1>0, <2>2, <3>1, <3>2 DEF GenPush, PushBound
  <2>3. CASE IncDrop /\ UNCHANGED ring
    <3>1. counters' \in Counters
      <4>1. counters["drops"] + 1 \in Nat /\ "drops" \in CounterNames
        BY <1>0 DEF Counters, CounterNames
      <4> QED BY <1>0, <2>3, <4>1, CountingType DEF IncDrop
    <3> QED BY <1>0, <2>3, <3>1 DEF IncDrop, PushBound
  <2> QED BY <2>1, <2>2, <2>3 DEF Generator
<1> QED BY <1>1 DEF Generator, TypeOK, consumerVars, reporterVars

LEMMA ConsumerType ==
  ASSUME TypeOK, PushBound, Consumer PROVE TypeOK' /\ PushBound'
<1> DEFINE Typed ==
       /\ consumer \in {"Check", "Pop", "Process", "Record", "Done"}
       /\ packet \in 0 .. MaxPackets /\ processed \in Nat /\ fills \in Nat
       /\ ring \in Seq(1 .. MaxPackets) /\ Len(ring) <= RingCapacity
       /\ outcome \in Outcomes
       /\ pending \subseteq Writes
       /\ histos \in Histos
<1>0. Typed
  BY DEF TypeOK
<1>1. CASE ConsumerCheck
  <2>1. Typed'
    BY <1>0, <1>1 DEF ConsumerCheck
  <2> QED BY <2>1 DEF Consumer, TypeOK, PushBound, genVars, reporterVars
<1>2. CASE Pop
  <2>1. CASE ring = <<>>
    <3>1. Typed'
      BY <1>0, <1>2, <2>1 DEF Pop
    <3> QED BY <3>1 DEF Consumer, TypeOK, PushBound, genVars, reporterVars
  <2>2. CASE ring # <<>>
    <3>1. /\ Head(ring) \in 1 .. MaxPackets
          /\ Tail(ring) \in Seq(1 .. MaxPackets)
          /\ Len(Tail(ring)) = Len(ring) - 1
      BY <1>0, <2>2, HeadTailProperties
    <3>2. Len(ring) \in Nat
      BY <1>0, LenProperties
    <3>3. consumer' = "Process" /\ packet' = Head(ring) /\ ring' = Tail(ring)
      BY <1>2, <2>2 DEF Pop
    <3>4. packet' \in 0 .. MaxPackets /\ Len(ring') <= RingCapacity
      BY <1>0, <3>1, <3>2, <3>3, RunnerAssumption
    <3>5. Typed'
      BY <1>0, <1>2, <3>1, <3>3, <3>4 DEF Pop
    <3> QED BY <3>5 DEF Consumer, TypeOK, PushBound, genVars, reporterVars
  <2> QED BY <2>1, <2>2
<1>3. ASSUME NEW o \in Outcomes, Process(o) PROVE TypeOK' /\ PushBound'
  <2>1. Typed'
    BY <1>0, <1>3 DEF Process, Bumped, Writes, CounterNames, One
  <2> QED BY <2>1 DEF Consumer, TypeOK, PushBound, genVars, reporterVars
<1>4. ASSUME NEW backfill \in 0 .. MaxBackfill, Record(backfill)
      PROVE  TypeOK' /\ PushBound'
  <2>1. Sampled(histos, backfill) \in Histos
    BY <1>0, RunnerAssumption DEF Sampled, Histos, One
  <2>2. Typed'
    BY <1>0, <1>4, <2>1 DEF Record, Writes
  <2> QED BY <2>2 DEF Consumer, TypeOK, PushBound, genVars, reporterVars
<1> QED BY <1>1, <1>2, <1>3, <1>4 DEF Consumer

LEMMA FlushType ==
  ASSUME TypeOK, PushBound, NEW w \in Writes, Flush(w)
  PROVE  TypeOK' /\ PushBound'
<1>1. counters' \in Counters /\ pnl_bits' \in Nat
  <2>1. CASE w = "pnl"
    BY <2>1 DEF Flush, TypeOK
  <2>2. CASE w # "pnl"
    <3>1. counters \in Counters /\ pnl_bits \in Nat
      BY DEF TypeOK
    <3> QED BY <2>2, <3>1, FlushedCounter, CountingType
  <2> QED BY <2>1, <2>2
<1>2. pending' \subseteq Writes
  BY DEF Flush, TypeOK
<1> QED BY <1>1, <1>2 DEF Flush, TypeOK, PushBound, genVars, consumerVars, reporterVars

LEMMA ReporterType ==
  ASSUME TypeOK, PushBound, Reporter PROVE TypeOK' /\ PushBound'
<1> DEFINE Typed ==
       /\ reporter \in {"Check", "Pnl", "Swap", "Load", "Done"}
       /\ final \in BOOLEAN
       /\ todo \subseteq CounterNames
       /\ histos \in Histos /\ cumulative \in Histos
       /\ snap \in Snapshot /\ latest \in Snapshot
<1>0. Typed /\ counters \in Counters /\ pnl_bits \in Nat /\ shutdown \in BOOLEAN
  BY DEF TypeOK
<1>1. Typed'
  <2>1. CASE ReporterCheck
    BY <1>0, <2>1 DEF ReporterCheck
  <2>2. CASE LoadPnl
    <3>1. [snap EXCEPT !.pnl = pnl_bits] \in Snapshot
      BY <1>0 DEF Snapshot
    <3> QED BY <1>0, <2>2, <3>1 DEF LoadPnl
  <2>3. CASE Swap
    <3>1. Taken \in Histos /\ NoSamples \in Histos
      BY <1>0 DEF Taken, NoSamples, Histos
    <3>2. [snap EXCEPT !.cumulative = Taken] \in Snapshot
      BY <1>0, <3>1 DEF Snapshot
    <3> QED BY <1>0, <2>3, <3>1, <3>2 DEF Swap
  <2>4. ASSUME NEW c \in CounterNames, Load(c) PROVE Typed'
    <3>1. counters[c] \in Nat /\ snap.counters \in Counters
      BY <1>0 DEF Counters, Snapshot
    <3>2. [snap.counters EXCEPT ![c] = counters[c]] \in Counters
      BY <3>1 DEF Counters
    <3>3. [snap EXCEPT !.counters = [snap.counters EXCEPT ![c] = counters[c]]] \in Snapshot
      BY <1>0, <3>2 DEF Snapshot
    <3>4. snap' = [snap EXCEPT !.counters = [snap.counters EXCEPT ![c] = counters[c]]]
      BY <1>0, <2>4 DEF Load, Snapshot
    <3> QED BY <1>0, <2>4, <3>3, <3>4 DEF Load
  <2>5. CASE Publish
    <3>1. NoSnapshot \in Snapshot
      BY DEF NoSnapshot, NoSamples, Snapshot, Histos, Counters
    <3> QED BY <1>0, <2>5, <3>1 DEF Publish
  <2> QED BY <2>1, <2>2, <2>3, <2>4, <2>5 DEF Reporter
<1> QED BY <1>1 DEF Reporter, TypeOK, PushBound, genVars, consumerVars

LEMMA NextType == TypeOK /\ PushBound /\ [Next]_vars => TypeOK' /\ PushBound'
<1> SUFFICES ASSUME TypeOK, PushBound, [Next]_vars PROVE TypeOK' /\ PushBound'
  OBVIOUS
<1>1. CASE Dashboard
  BY <1>1 DEF Dashboard, Listen, TypeOK, PushBound, genVars, consumerVars, reporterVars
<1>2. CASE Stop \/ Return
  <2>1. /\ shutdown' \in BOOLEAN /\ main' \in {"Running", "Joining", "Returned"}
        /\ UNCHANGED others
    BY <1>2 DEF Stop, Return, TypeOK
  <2> QED BY <2>1 DEF others, TypeOK, PushBound, genVars, consumerVars, reporterVars
<1>3. CASE UNCHANGED vars
  BY <1>3 DEF vars, TypeOK, PushBound, genVars, consumerVars, reporterVars
<1>4. CASE Finished
  BY <1>3, <1>4 DEF Finished
<1>5. ASSUME NEW w \in Writes, Flush(w)
      PROVE  TypeOK' /\ PushBound'
  BY <1>5, FlushType
<1>6. Generator \/ Consumer \/ Reporter => TypeOK' /\ PushBound'
  BY GeneratorType, ConsumerType, ReporterType
<1> QED BY <1>1, <1>2, <1>3, <1>4, <1>5, <1>6 DEF Next

(* The state of a run stays well formed; in particular the ring never      *)
(* holds more than its capacity.                                           *)
THEOREM RunnerTypeCorrect == Spec => []TypeOK
<1> QED BY InitType, NextType, PTL DEF Spec

-----------------------------------------------------------------------------
(* Packets *)

(* However the generator, the consumer and a full ring interleave, every   *)
(* packet emitted is processed, in process, queued or dropped.             *)
THEOREM NoPacketIsLost == Spec => []NoPacketLost
<1>1. Init => NoPacketLost
  BY EmptySeq DEF Init, NoPacketLost, One, InProcess, CounterNames
<1>2. TypeOK /\ NoPacketLost /\ [Next]_vars => NoPacketLost'
  <2> SUFFICES ASSUME TypeOK, NoPacketLost, [Next]_vars PROVE NoPacketLost'
    OBVIOUS
  <2>0. /\ ring \in Seq(1 .. MaxPackets) /\ Len(ring) \in Nat
        /\ sent \in Nat /\ processed \in Nat
        /\ counters \in Counters /\ counters["drops"] \in Nat
    BY LenProperties DEF TypeOK, Counters, CounterNames
  <2>1. ASSUME UNCHANGED <<sent, processed, ring, gen>>,
               counters'["drops"] = counters["drops"], InProcess' = InProcess
        PROVE  NoPacketLost'
    BY <2>1 DEF NoPacketLost
  <2>2. CASE Generator
    <3>0. UNCHANGED <<processed, consumer>>
      BY <2>2 DEF Generator, consumerVars
    <3>1. CASE GenCheck /\ UNCHANGED <<ring, counters>>
      BY <2>0, <3>0, <3>1 DEF GenCheck, NoPacketLost, One, InProcess
    <3>2. CASE GenPush /\ UNCHANGED counters
      <4>1. /\ sent' = sent + 1 /\ gen = "Push"
            /\ \/ Len(ring') = Len(ring) + 1 /\ gen' = "Check"
               \/ ring' = ring /\ gen' = "Drop"
        <5>1. CASE Len(ring) < RingCapacity
          BY <2>0, <3>2, <5>1 DEF GenPush, Enqueue
        <5>2. CASE ~ (Len(ring) < RingCapacity)
          BY <3>2, <5>2 DEF GenPush, Enqueue
        <5> QED BY <5>1, <5>2
      <4> QED BY <2>0, <3>0, <3>2, <4>1 DEF NoPacketLost, One, InProcess
    <3>3. CASE IncDrop /\ UNCHANGED ring
      <4>1. counters'["drops"] = counters["drops"] + 1
        BY <2>0, <3>3, CounterAfter DEF IncDrop, CounterNames
      <4>2. /\ gen = "Drop" /\ gen' = "Check" /\ sent' = sent /\ ring' = ring
            /\ processed' = processed /\ InProcess' = InProcess
        BY <3>0, <3>3 DEF IncDrop, InProcess
      <4>3. /\ One(gen = "Drop") = 1 /\ One(gen' = "Drop") = 0
            /\ One(InProcess) \in Nat /\ One(InProcess)' = One(InProcess)
        BY <4>2 DEF One
      <4>4. sent = processed + One(InProcess) + Len(ring) + counters["drops"] + 1
        BY <4>3 DEF NoPacketLost
      <4>5. sent' = processed' + One(InProcess)' + Len(ring') + counters'["drops"] + 0
        BY <2>0, <4>1, <4>2, <4>3, <4>4
      <4> QED BY <4>3, <4>5 DEF NoPacketLost
    <3> QED BY <2>2, <3>1, <3>2, <3>3 DEF Generator
  <2>3. CASE Consumer
    <3>0. UNCHANGED <<sent, gen, counters>>
      BY <2>3 DEF Consumer, genVars
    <3>1. CASE ConsumerCheck
      BY <2>1, <3>0, <3>1 DEF ConsumerCheck, InProcess
    <3>2. CASE Pop
      <4>1. CASE ring = <<>>
        BY <2>1, <3>0, <3>2, <4>1 DEF Pop, InProcess
      <4>2. CASE ring # <<>>
        <5>1. Len(Tail(ring)) = Len(ring) - 1
          BY <2>0, <4>2, HeadTailProperties
        <5>2. /\ consumer = "Pop" /\ consumer' = "Process" /\ processed' = processed
              /\ Len(ring') = Len(ring) - 1
          BY <3>2, <4>2, <5>1 DEF Pop
        <5> QED BY <2>0, <3>0, <5>2 DEF NoPacketLost, One, InProcess
      <4> QED BY <4>1, <4>2
    <3>3. ASSUME NEW o \in Outcomes, Process(o) PROVE NoPacketLost'
      BY <2>1, <3>0, <3>3 DEF Process, InProcess
    <3>4. ASSUME NEW backfill \in 0 .. MaxBackfill, Record(backfill)
          PROVE  NoPacketLost'
      BY <2>0, <3>0, <3>4 DEF Record, NoPacketLost, One, InProcess
    <3> QED BY <2>3, <3>1, <3>2, <3>3, <3>4 DEF Consumer
  <2>4. ASSUME NEW w \in Writes, Flush(w)
        PROVE  NoPacketLost'
    <3>1. counters'["drops"] = counters["drops"]
      <4>1. CASE w = "pnl"
        BY <2>4, <4>1 DEF Flush
      <4>2. CASE w # "pnl"
        BY <2>4, <4>2, FlushedCounter DEF CounterNames
      <4> QED BY <4>1, <4>2
    <3> QED BY <2>1, <2>4, <3>1 DEF Flush, genVars, consumerVars, InProcess
  <2>5. CASE Reporter \/ Dashboard
    BY <2>1, <2>5 DEF Reporter, Dashboard, genVars, consumerVars, InProcess
  <2>6. CASE Stop \/ Return
    <3>1. UNCHANGED others
      BY <2>6 DEF Stop, Return
    <3> QED BY <2>1, <3>1 DEF others, genVars, consumerVars, InProcess
  <2>7. CASE UNCHANGED vars
    BY <2>1, <2>7 DEF vars, genVars, consumerVars, InProcess
  <2>8. CASE Finished
    BY <2>7, <2>8 DEF Finished
  <2> QED BY <2>2, <2>3, <2>4, <2>5, <2>6, <2>7, <2>8 DEF Next
<1> QED BY <1>1, <1>2, RunnerTypeCorrect, PTL DEF Spec

-----------------------------------------------------------------------------
(* The inductive invariant of the metrics *)

(* The consumer's relaxed writes are those of the packet in process, and   *)
(* the PnL of the one before it.                                           *)
WritesOfPacket ==
    /\ consumer = "Record" => pending \subseteq Bumped(outcome) \cup {"pnl"}
    /\ consumer # "Record" => pending \subseteq {"pnl"}

(* Ticks, orders and the gauge, visible or pending, run ahead of the       *)
(* samples by the packet about to be recorded and by nothing else.         *)
CountersLead ==
    /\ counters["ticks"] + One("ticks" \in pending)
         = processed + One(consumer = "Record")
    /\ counters["orders"] + One("orders" \in pending) = fills
    /\ counters["position"] + One("position" \in pending) >= fills
    /\ counters["position"] <= fills
    /\ cumulative.gateway + histos.gateway
         + One(consumer = "Record" /\ outcome = "Order") = fills
    /\ pnl_bits <= processed

(* An order's tick_to_order sample is recorded with its gateway sample,    *)
(* and taken with it.                                                      *)
OrdersRepresented ==
    /\ histos.gateway <= histos.tick_to_order
    /\ cumulative.gateway <= cumulative.tick_to_order

(* What the reporter has loaded so far is consistent with the histograms   *)
(* it has taken or is about to take.                                       *)
LoadsConsistent ==
    /\ reporter = "Swap" => snap.pnl <= processed
    /\ reporter \in {"Load", "Done"} =>
         /\ snap.cumulative = cumulative
         /\ snap.pnl <= cumulative.decode
         /\ "ticks" \notin todo => cumulative.decode <= snap.counters["ticks"]
         /\ "orders" \notin todo => cumulative.gateway <= snap.counters["orders"]
         /\ "position" \notin todo => cumulative.gateway <= snap.counters["position"]
    /\ reporter = "Done" => todo = {}
    /\ Consistent(latest)

MetricsInv ==
    /\ NoSampleLost /\ WritesOfPacket /\ CountersLead
    /\ OrdersRepresented /\ LoadsConsistent

(* The numbers involved. *)
LEMMA Numbers ==
  ASSUME TypeOK
  PROVE  /\ counters["ticks"] \in Nat /\ counters["orders"] \in Nat
         /\ counters["position"] \in Nat
         /\ processed \in Nat /\ fills \in Nat /\ pnl_bits \in Nat
         /\ histos.decode \in Nat /\ histos.gateway \in Nat /\ histos.tick_to_order \in Nat
         /\ cumulative.decode \in Nat /\ cumulative.gateway \in Nat
         /\ cumulative.tick_to_order \in Nat
         /\ snap.pnl \in Nat /\ snap.cumulative \in Histos /\ snap.counters \in Counters
BY DEF TypeOK, Counters, CounterNames, Histos, Snapshot

(* The counters are never behind what the reporter has taken. *)
LEMMA CountersAhead ==
  ASSUME TypeOK, MetricsInv
  PROVE  /\ cumulative.decode <= counters["ticks"]
         /\ cumulative.gateway <= counters["orders"]
         /\ cumulative.gateway <= counters["position"]
<1>1. "ticks" \in pending => consumer = "Record"
  BY DEF MetricsInv, WritesOfPacket
<1>2. "orders" \in pending \/ "position" \in pending =>
         consumer = "Record" /\ outcome = "Order"
  BY DEF MetricsInv, WritesOfPacket, Bumped
<1>3. cumulative.decode <= counters["ticks"]
  BY <1>1, Numbers DEF MetricsInv, CountersLead, NoSampleLost, One
<1>4. cumulative.gateway <= counters["orders"]
  BY <1>2, Numbers DEF MetricsInv, CountersLead, One
<1>5. cumulative.gateway <= counters["position"]
  BY <1>2, Numbers DEF MetricsInv, CountersLead, One
<1> QED BY <1>3, <1>4, <1>5

LEMMA InitMetrics == Init => MetricsInv
<1> SUFFICES ASSUME Init PROVE MetricsInv
  OBVIOUS
<1>1. NoSampleLost /\ WritesOfPacket
  BY DEF Init, NoSampleLost, WritesOfPacket, NoSamples
<1>2. CountersLead
  BY DEF Init, CountersLead, NoSamples, One, CounterNames
<1>4. OrdersRepresented
  BY DEF Init, OrdersRepresented, NoSamples
<1>3. LoadsConsistent
  BY DEF Init, LoadsConsistent, Consistent, NoSnapshot, NoSamples, CounterNames
<1> QED BY <1>1, <1>2, <1>3, <1>4 DEF MetricsInv

LEMMA ConsumerMetrics ==
  ASSUME TypeOK, MetricsInv, Consumer PROVE MetricsInv'
<1>0. UNCHANGED <<counters, pnl_bits, reporter, final, todo, snap, cumulative, latest>>
  BY DEF Consumer, reporterVars
<1>1. /\ NoSampleLost /\ WritesOfPacket /\ CountersLead
      /\ OrdersRepresented /\ LoadsConsistent
  BY DEF MetricsInv
<1>2. CASE ConsumerCheck \/ Pop
  <2>1. /\ consumer # "Record" /\ consumer' # "Record"
        /\ UNCHANGED <<outcome, processed, fills, pending, histos>>
    BY <1>2 DEF ConsumerCheck, Pop
  <2>2. NoSampleLost' /\ WritesOfPacket' /\ OrdersRepresented' /\ LoadsConsistent'
    BY <1>0, <1>1, <2>1
       DEF NoSampleLost, WritesOfPacket, OrdersRepresented, LoadsConsistent
  <2>3. CountersLead'
    BY <1>0, <1>1, <2>1 DEF CountersLead
  <2> QED BY <2>2, <2>3 DEF MetricsInv
<1>3. ASSUME NEW o \in Outcomes, Process(o) PROVE MetricsInv'
  <2>1. /\ consumer = "Process" /\ consumer' = "Record" /\ outcome' = o
        /\ pending' = pending \cup Bumped(o)
        /\ fills' = fills + One(o = "Order")
        /\ UNCHANGED <<processed, histos>>
    BY <1>3 DEF Process
  <2>2. pending \subseteq {"pnl"}
    BY <1>1, <2>1 DEF WritesOfPacket
  <2>3. /\ "ticks" \notin pending /\ "ticks" \in pending'
        /\ "orders" \notin pending /\ ("orders" \in pending' <=> o = "Order")
        /\ "position" \notin pending /\ ("position" \in pending' <=> o = "Order")
    BY <2>1, <2>2 DEF Bumped
  <2>4. WritesOfPacket'
    BY <2>1, <2>2 DEF WritesOfPacket
  <2>5. CountersLead'
    BY <1>0, <1>1, <2>1, <2>3, Numbers DEF CountersLead, One
  <2>6. NoSampleLost' /\ OrdersRepresented' /\ LoadsConsistent'
    BY <1>0, <1>1, <2>1 DEF NoSampleLost, OrdersRepresented, LoadsConsistent
  <2> QED BY <2>4, <2>5, <2>6 DEF MetricsInv
<1>4. ASSUME NEW backfill \in 0 .. MaxBackfill, Record(backfill)
      PROVE  MetricsInv'
  <2>0. backfill \in Nat
    BY RunnerAssumption
  <2>1. /\ consumer = "Record" /\ consumer' = "Check" /\ outcome' = outcome
        /\ pending = {} /\ pending' = {"pnl"} /\ fills' = fills
        /\ processed' = processed + 1 /\ histos' = Sampled(histos, backfill)
    BY <1>4 DEF Record
  <2>2. /\ histos'.decode = histos.decode + 1
        /\ histos'.gateway = histos.gateway + One(outcome = "Order")
        /\ histos'.tick_to_order >= histos.tick_to_order + One(outcome = "Order")
    BY <2>0, <2>1, Numbers DEF Sampled, One
  <2>7. OrdersRepresented'
    BY <1>0, <1>1, <2>0, <2>1, Numbers DEF Sampled, One, OrdersRepresented
  <2>3. WritesOfPacket'
    BY <2>1 DEF WritesOfPacket
  <2>4. NoSampleLost'
    BY <1>0, <1>1, <2>1, <2>2, Numbers DEF NoSampleLost
  <2>5. CountersLead'
    BY <1>0, <1>1, <2>1, <2>2, Numbers DEF CountersLead, One
  <2>6. LoadsConsistent'
    BY <1>0, <1>1, <2>1, Numbers DEF LoadsConsistent
  <2> QED BY <2>3, <2>4, <2>5, <2>6, <2>7 DEF MetricsInv
<1> QED BY <1>2, <1>3, <1>4 DEF Consumer

LEMMA FlushMetrics ==
  ASSUME TypeOK, MetricsInv,
         NEW w \in Writes, Flush(w)
  PROVE  MetricsInv'
<1>0. /\ w \in pending /\ pending' = pending \ {w}
      /\ UNCHANGED <<consumer, outcome, processed, fills, histos,
                     reporter, final, todo, snap, cumulative, latest>>
  BY DEF Flush, consumerVars, reporterVars
<1>1. /\ NoSampleLost /\ WritesOfPacket /\ CountersLead
      /\ OrdersRepresented /\ LoadsConsistent
  BY DEF MetricsInv
<1>2. NoSampleLost' /\ WritesOfPacket' /\ OrdersRepresented' /\ LoadsConsistent'
  BY <1>0, <1>1 DEF NoSampleLost, WritesOfPacket, OrdersRepresented, LoadsConsistent
<1>3. CountersLead'
  <2>1. CASE w = "pnl"
    <3>1. pnl_bits' = processed /\ counters' = counters
      BY <2>1 DEF Flush
    <3> QED BY <1>0, <1>1, <2>1, <3>1, Numbers DEF CountersLead, One
  <2>2. CASE w # "pnl"
    <3>1. /\ pnl_bits' = pnl_bits
          /\ counters'["ticks"] = IF "ticks" = w THEN Written(w) ELSE counters["ticks"]
          /\ counters'["orders"] = IF "orders" = w THEN Written(w) ELSE counters["orders"]
          /\ counters'["position"] = IF "position" = w THEN fills ELSE counters["position"]
      BY <2>2, FlushedCounter DEF CounterNames, Written
    <3>2. /\ w = "ticks" => Written(w) = counters["ticks"] + 1
          /\ w = "orders" => Written(w) = counters["orders"] + 1
      BY DEF Written
    <3> QED BY <1>0, <1>1, <3>1, <3>2, Numbers DEF CountersLead, One
  <2> QED BY <2>1, <2>2
<1> QED BY <1>2, <1>3 DEF MetricsInv

LEMMA ReporterMetrics ==
  ASSUME TypeOK, MetricsInv, Reporter PROVE MetricsInv'
<1>0. UNCHANGED <<consumer, outcome, processed, fills, pending, counters, pnl_bits>>
  BY DEF Reporter, consumerVars
<1>1. /\ NoSampleLost /\ WritesOfPacket /\ CountersLead
      /\ OrdersRepresented /\ LoadsConsistent
  BY DEF MetricsInv
<1>2. WritesOfPacket'
  BY <1>0, <1>1 DEF WritesOfPacket
<1>3. ASSUME UNCHANGED <<histos, cumulative>>
      PROVE  NoSampleLost' /\ CountersLead' /\ OrdersRepresented'
  BY <1>0, <1>1, <1>3 DEF NoSampleLost, CountersLead, OrdersRepresented
<1>4. CASE ReporterCheck
  <2>1. LoadsConsistent'
    BY <1>1, <1>4 DEF ReporterCheck, LoadsConsistent
  <2> QED BY <1>2, <1>3, <1>4, <2>1 DEF ReporterCheck, MetricsInv
<1>5. CASE LoadPnl
  <2>1. snap'.pnl = pnl_bits
    BY <1>5 DEF LoadPnl, TypeOK, Snapshot
  <2>2. LoadsConsistent'
    BY <1>0, <1>1, <1>5, <2>1 DEF LoadPnl, LoadsConsistent, CountersLead
  <2> QED BY <1>2, <1>3, <1>5, <2>2 DEF LoadPnl, MetricsInv
<1>6. CASE Swap
  <2>1. /\ reporter = "Swap" /\ reporter' = "Load" /\ todo' = CounterNames
        /\ cumulative' = Taken /\ histos' = NoSamples /\ latest' = latest
        /\ snap' = [snap EXCEPT !.cumulative = cumulative']
    BY <1>6 DEF Swap
  <2>2. /\ cumulative'.decode = cumulative.decode + histos.decode
        /\ cumulative'.gateway = cumulative.gateway + histos.gateway
        /\ cumulative'.tick_to_order = cumulative.tick_to_order + histos.tick_to_order
        /\ histos'.decode = 0 /\ histos'.gateway = 0 /\ histos'.tick_to_order = 0
    BY <2>1 DEF Taken, NoSamples
  <2>3. snap'.cumulative = cumulative' /\ snap'.pnl = snap.pnl
    BY <2>1 DEF TypeOK, Snapshot
  <2>4. NoSampleLost' /\ CountersLead' /\ OrdersRepresented'
    BY <1>0, <1>1, <2>2, Numbers DEF NoSampleLost, CountersLead, OrdersRepresented
  <2>5. snap'.pnl <= cumulative'.decode
    BY <1>1, <2>1, <2>2, <2>3, Numbers DEF NoSampleLost, LoadsConsistent
  <2>6. LoadsConsistent'
    BY <1>1, <2>1, <2>3, <2>5 DEF LoadsConsistent, CounterNames
  <2> QED BY <1>2, <2>4, <2>6 DEF MetricsInv
<1>7. ASSUME NEW c \in CounterNames, Load(c) PROVE MetricsInv'
  <2>1. /\ reporter = "Load" /\ reporter' = "Load" /\ todo' = todo \ {c}
        /\ UNCHANGED <<cumulative, latest, histos>>
    BY <1>7 DEF Load
  <2>2. /\ snap'.pnl = snap.pnl /\ snap'.cumulative = snap.cumulative
        /\ snap'.counters = [snap.counters EXCEPT ![c] = counters[c]]
    BY <1>7 DEF Load, TypeOK, Snapshot
  <2>3. snap.counters \in [CounterNames -> Nat]
    BY Numbers DEF Counters
  <2>4. /\ c = "ticks" => snap'.counters["ticks"] = counters["ticks"]
        /\ c # "ticks" => snap'.counters["ticks"] = snap.counters["ticks"]
        /\ c = "orders" => snap'.counters["orders"] = counters["orders"]
        /\ c # "orders" => snap'.counters["orders"] = snap.counters["orders"]
        /\ c = "position" => snap'.counters["position"] = counters["position"]
        /\ c # "position" => snap'.counters["position"] = snap.counters["position"]
    BY <2>2, <2>3 DEF CounterNames
  <2>5. LoadsConsistent'
    BY <1>1, <2>1, <2>2, <2>4, CountersAhead DEF LoadsConsistent
  <2> QED BY <1>2, <1>3, <2>1, <2>5 DEF MetricsInv
<1>8. CASE Publish
  <2>1. reporter = "Load" /\ todo = {} /\ UNCHANGED <<todo, cumulative, histos>>
    BY <1>8 DEF Publish
  <2>2. Consistent(snap)
    BY <1>1, <2>1 DEF LoadsConsistent, Consistent, OrdersRepresented
  <2>3. CASE final
    <3>1. reporter' = "Done" /\ UNCHANGED <<latest, snap>>
      BY <1>8, <2>3 DEF Publish
    <3>2. LoadsConsistent'
      BY <1>1, <2>1, <3>1 DEF LoadsConsistent
    <3> QED BY <1>2, <1>3, <2>1, <3>2 DEF MetricsInv
  <2>4. CASE ~ final
    <3>1. reporter' = "Check" /\ latest' = snap
      BY <1>8, <2>4 DEF Publish
    <3>2. LoadsConsistent'
      BY <2>2, <3>1 DEF LoadsConsistent, Consistent
    <3> QED BY <1>2, <1>3, <2>1, <3>2 DEF MetricsInv
  <2> QED BY <2>3, <2>4
<1> QED BY <1>4, <1>5, <1>6, <1>7, <1>8 DEF Reporter

LEMMA NextMetrics == TypeOK /\ MetricsInv /\ [Next]_vars => MetricsInv'
<1> SUFFICES ASSUME TypeOK, MetricsInv, [Next]_vars PROVE MetricsInv'
  OBVIOUS
<1>1. ASSUME UNCHANGED <<consumerVars, pending, pnl_bits, histos, reporterVars>>,
             counters'["ticks"] = counters["ticks"],
             counters'["orders"] = counters["orders"],
             counters'["position"] = counters["position"]
      PROVE  MetricsInv'
  <2>1. NoSampleLost' /\ WritesOfPacket' /\ OrdersRepresented'
    BY <1>1 DEF MetricsInv, NoSampleLost, WritesOfPacket, OrdersRepresented,
                consumerVars, reporterVars
  <2>2. CountersLead'
    BY <1>1 DEF MetricsInv, CountersLead, consumerVars, reporterVars
  <2>3. LoadsConsistent'
    BY <1>1 DEF MetricsInv, LoadsConsistent, consumerVars, reporterVars
  <2> QED BY <2>1, <2>2, <2>3 DEF MetricsInv
<1>2. CASE Generator
  <2>1. /\ counters'["ticks"] = counters["ticks"]
        /\ counters'["orders"] = counters["orders"]
        /\ counters'["position"] = counters["position"]
    <3>1. CASE UNCHANGED counters
      BY <3>1
    <3>2. CASE IncDrop
      <4>1. /\ counters' = [counters EXCEPT !["drops"] = counters["drops"] + 1]
            /\ counters \in Counters /\ counters["drops"] + 1 \in Nat
        BY <3>2 DEF IncDrop, TypeOK, Counters, CounterNames
      <4> QED BY <4>1, CounterAfter DEF CounterNames
    <3> QED BY <1>2, <3>1, <3>2 DEF Generator
  <2> QED BY <1>1, <1>2, <2>1 DEF Generator
<1>3. ASSUME NEW w \in Writes, Flush(w)
      PROVE  MetricsInv'
  BY <1>3, FlushMetrics
<1>4. Consumer \/ Reporter => MetricsInv'
  BY ConsumerMetrics, ReporterMetrics
<1>5. CASE Dashboard
  BY <1>1, <1>5 DEF Dashboard
<1>6. CASE Stop \/ Return
  <2>1. UNCHANGED others
    BY <1>6 DEF Stop, Return
  <2> QED BY <1>1, <2>1 DEF others
<1>7. CASE UNCHANGED vars
  BY <1>1, <1>7 DEF vars
<1>8. CASE Finished
  BY <1>7, <1>8 DEF Finished
<1> QED BY <1>2, <1>3, <1>4, <1>5, <1>6, <1>7, <1>8 DEF Next

LEMMA MetricsInvariant == Spec => []MetricsInv
<1> QED BY InitMetrics, NextMetrics, RunnerTypeCorrect, PTL DEF Spec

(* Taking the histograms under a running consumer loses no sample and      *)
(* counts none twice, over any number of snapshots.                        *)
THEOREM NoSampleIsLost == Spec => []NoSampleLost
<1>1. MetricsInv => NoSampleLost
  BY DEF MetricsInv
<1> QED BY <1>1, MetricsInvariant, PTL

(* No snapshot, published or final, has more packets recorded than ticks,  *)
(* more gateway samples than orders or than fills behind its position,     *)
(* fewer tick_to_order samples than gateway ones, or a PnL of more packets *)
(* than it has recorded.                                                   *)
THEOREM SnapshotsAreConsistent == Spec => []SnapshotsConsistent
<1>1. MetricsInv => SnapshotsConsistent
  BY DEF MetricsInv, LoadsConsistent, OrdersRepresented, SnapshotsConsistent, Consistent
<1> QED BY <1>1, MetricsInvariant, PTL
-----------------------------------------------------------------------------
(* The latest snapshot *)

(* Nothing the reporter reads goes back, and what it has loaded for the    *)
(* next snapshot lies between the last one and the present.                *)
LatestBehind ==
    /\ latest.pnl <= pnl_bits
    /\ latest.cumulative.decode <= cumulative.decode
    /\ latest.cumulative.gateway <= cumulative.gateway
    /\ latest.cumulative.tick_to_order <= cumulative.tick_to_order
    /\ \A c \in CounterNames : latest.counters[c] <= counters[c]
LoadsBetween ==
    /\ reporter \in {"Swap", "Load"} => latest.pnl <= snap.pnl /\ snap.pnl <= pnl_bits
    /\ reporter = "Load" =>
          /\ snap.cumulative = cumulative
          /\ \A c \in CounterNames \ todo :
                latest.counters[c] <= snap.counters[c] /\ snap.counters[c] <= counters[c]
LatestInv == LatestBehind /\ LoadsBetween

LatestNumbered ==
    /\ latest.pnl \in Nat
    /\ pnl_bits \in Nat /\ snap.pnl \in Nat
    /\ latest.cumulative.decode \in Nat /\ latest.cumulative.gateway \in Nat
    /\ latest.cumulative.tick_to_order \in Nat
    /\ cumulative.decode \in Nat /\ cumulative.gateway \in Nat
    /\ cumulative.tick_to_order \in Nat
    /\ histos.decode \in Nat /\ histos.gateway \in Nat /\ histos.tick_to_order \in Nat
    /\ \A c \in CounterNames :
          latest.counters[c] \in Nat /\ snap.counters[c] \in Nat /\ counters[c] \in Nat

LEMMA LatestNumbers == (TypeOK => LatestNumbered) /\ (TypeOK' => LatestNumbered')
BY DEF TypeOK, Counters, Histos, Snapshot, LatestNumbered

(* The steps that only move what is published forward. *)
LEMMA ForwardKeepsLatest ==
  ASSUME TypeOK, TypeOK', LatestInv, UNCHANGED reporterVars,
         pnl_bits <= pnl_bits',
         \A c \in CounterNames : counters[c] <= counters'[c]
  PROVE  LatestInv'
<1>1. LatestBehind'
  BY LatestNumbers DEF LatestNumbered, LatestInv, LatestBehind, reporterVars
<1>2. LoadsBetween'
  BY LatestNumbers DEF LatestNumbered, LatestInv, LoadsBetween, reporterVars
<1> QED BY <1>1, <1>2 DEF LatestInv

LEMMA CountersForward ==
  ASSUME TypeOK, NEW w \in CounterNames, NEW n \in Nat, counters[w] <= n,
         counters' = [counters EXCEPT ![w] = n]
  PROVE  \A c \in CounterNames : counters[c] <= counters'[c]
<1> SUFFICES ASSUME NEW c \in CounterNames PROVE counters[c] <= counters'[c]
  OBVIOUS
<1>1. counters \in Counters
  BY DEF TypeOK
<1>2. counters'[c] = IF c = w THEN n ELSE counters[c]
  BY <1>1, CounterAfter
<1> QED BY <1>2, LatestNumbers DEF LatestNumbered

LEMMA ReporterLatest ==
  ASSUME TypeOK, TypeOK', LatestInv, Reporter
  PROVE  LatestInv' /\ NoLess(latest, latest')
<1>0. UNCHANGED <<counters, pnl_bits>> /\ LatestBehind /\ LoadsBetween
  BY DEF Reporter, LatestInv
<1>1. ASSUME UNCHANGED latest PROVE NoLess(latest, latest')
  BY <1>1, LatestNumbers DEF LatestNumbered, NoLess
<1>2. CASE ReporterCheck
  <2>1. reporter' = "Pnl" /\ UNCHANGED <<todo, snap, cumulative, latest>>
    BY <1>2 DEF ReporterCheck
  <2>2. LatestInv'
    BY <1>0, <2>1 DEF LatestInv, LatestBehind, LoadsBetween
  <2> QED BY <1>1, <2>1, <2>2
<1>3. CASE LoadPnl
  <2>1. /\ reporter' = "Swap" /\ snap'.pnl = pnl_bits
        /\ UNCHANGED <<todo, cumulative, latest>>
    BY <1>3 DEF LoadPnl, TypeOK, Snapshot
  <2>2. LatestInv'
    BY <1>0, <2>1, LatestNumbers DEF LatestNumbered, LatestInv, LatestBehind, LoadsBetween
  <2> QED BY <1>1, <2>1, <2>2
<1>4. CASE Swap
  <2>1. /\ reporter = "Swap" /\ reporter' = "Load" /\ todo' = CounterNames
        /\ cumulative' = Taken /\ latest' = latest
        /\ snap' = [snap EXCEPT !.cumulative = cumulative']
    BY <1>4 DEF Swap
  <2>2. /\ cumulative.decode <= cumulative'.decode
        /\ cumulative.gateway <= cumulative'.gateway
        /\ cumulative.tick_to_order <= cumulative'.tick_to_order
    BY <2>1, LatestNumbers DEF LatestNumbered, Taken
  <2>3. snap'.cumulative = cumulative' /\ snap'.pnl = snap.pnl
    BY <2>1 DEF TypeOK, Snapshot
  <2>4. LatestBehind'
    BY <1>0, <2>1, <2>2, LatestNumbers DEF LatestNumbered, LatestBehind
  <2>5. LoadsBetween'
    BY <1>0, <2>1, <2>3 DEF LoadsBetween
  <2> QED BY <1>1, <2>1, <2>4, <2>5 DEF LatestInv
<1>5. ASSUME NEW c \in CounterNames, Load(c)
      PROVE  LatestInv' /\ NoLess(latest, latest')
  <2>1. /\ reporter = "Load" /\ reporter' = "Load" /\ todo' = todo \ {c}
        /\ UNCHANGED <<cumulative, latest>>
    BY <1>5 DEF Load
  <2>2. /\ snap'.pnl = snap.pnl /\ snap'.cumulative = snap.cumulative
        /\ snap'.counters = [snap.counters EXCEPT ![c] = counters[c]]
    BY <1>5 DEF Load, TypeOK, Snapshot
  <2>3. \A d \in CounterNames :
           snap'.counters[d] = IF d = c THEN counters[d] ELSE snap.counters[d]
    BY <2>2 DEF TypeOK, Snapshot, Counters
  <2>4. LatestBehind'
    BY <1>0, <2>1 DEF LatestBehind
  <2>5. ASSUME NEW d \in CounterNames \ todo'
        PROVE  latest.counters[d] <= snap'.counters[d] /\ snap'.counters[d] <= counters[d]
    <3>1. CASE d = c
      BY <1>0, <2>3, <3>1, LatestNumbers DEF LatestNumbered, LatestBehind
    <3>2. CASE d # c
      BY <1>0, <2>1, <2>3, <3>2 DEF LoadsBetween
    <3> QED BY <3>1, <3>2
  <2>6. LoadsBetween'
    BY <1>0, <2>1, <2>2, <2>5 DEF LoadsBetween
  <2> QED BY <1>1, <2>1, <2>4, <2>6 DEF LatestInv
<1>6. CASE Publish
  <2>1. reporter = "Load" /\ todo = {} /\ UNCHANGED <<todo, cumulative>>
    BY <1>6 DEF Publish
  <2>2. CASE final
    <3>1. reporter' = "Done" /\ UNCHANGED <<latest, snap>>
      BY <1>6, <2>2 DEF Publish
    <3>2. LatestInv'
      BY <1>0, <2>1, <3>1 DEF LatestInv, LatestBehind, LoadsBetween
    <3> QED BY <1>1, <3>1, <3>2
  <2>3. CASE ~ final
    <3>1. reporter' = "Check" /\ latest' = snap
      BY <1>6, <2>3 DEF Publish
    <3>2. /\ latest.pnl <= snap.pnl /\ snap.pnl <= pnl_bits
          /\ snap.cumulative = cumulative
          /\ \A c \in CounterNames :
                latest.counters[c] <= snap.counters[c] /\ snap.counters[c] <= counters[c]
      BY <1>0, <2>1 DEF LoadsBetween
    <3>3. NoLess(latest, latest')
      BY <1>0, <3>1, <3>2 DEF NoLess, LatestBehind
    <3>4. LatestInv'
      BY <1>0, <2>1, <3>1, <3>2, LatestNumbers DEF LatestNumbered, LatestInv, LatestBehind, LoadsBetween
    <3> QED BY <3>3, <3>4
  <2> QED BY <2>2, <2>3
<1> QED BY <1>2, <1>3, <1>4, <1>5, <1>6 DEF Reporter

LEMMA NextLatest ==
  TypeOK /\ TypeOK' /\ MetricsInv /\ LatestInv /\ [Next]_vars
    => LatestInv' /\ NoLess(latest, latest')
<1> SUFFICES ASSUME TypeOK, TypeOK', MetricsInv, LatestInv, [Next]_vars
             PROVE  LatestInv' /\ NoLess(latest, latest')
  OBVIOUS
<1>1. ASSUME UNCHANGED reporterVars, pnl_bits <= pnl_bits',
             \A c \in CounterNames : counters[c] <= counters'[c]
      PROVE  LatestInv' /\ NoLess(latest, latest')
  <2>1. UNCHANGED latest
    BY <1>1 DEF reporterVars
  <2> QED BY <1>1, <2>1, ForwardKeepsLatest, LatestNumbers DEF LatestNumbered, NoLess
<1>2. ASSUME UNCHANGED <<counters, pnl_bits>>
      PROVE  pnl_bits <= pnl_bits' /\ \A c \in CounterNames : counters[c] <= counters'[c]
  BY <1>2, LatestNumbers DEF LatestNumbered
<1>3. CASE Generator
  <2>1. \A c \in CounterNames : counters[c] <= counters'[c]
    <3>1. CASE UNCHANGED counters
      BY <3>1, LatestNumbers DEF LatestNumbered
    <3>2. CASE IncDrop
      <4>1. /\ "drops" \in CounterNames
            /\ counters' = [counters EXCEPT !["drops"] = counters["drops"] + 1]
        BY <3>2 DEF IncDrop, CounterNames
      <4>2. counters["drops"] + 1 \in Nat /\ counters["drops"] <= counters["drops"] + 1
        BY <4>1, LatestNumbers DEF LatestNumbered
      <4> QED BY <4>1, <4>2, CountersForward
    <3> QED BY <1>3, <3>1, <3>2 DEF Generator
  <2>2. UNCHANGED reporterVars /\ pnl_bits <= pnl_bits'
    BY <1>3, LatestNumbers DEF LatestNumbered, Generator
  <2> QED BY <1>1, <2>1, <2>2
<1>4. CASE Consumer
  <2>1. UNCHANGED reporterVars /\ UNCHANGED <<counters, pnl_bits>>
    BY <1>4 DEF Consumer
  <2> QED BY <1>1, <1>2, <2>1
<1>5. ASSUME NEW w \in Writes, Flush(w)
      PROVE  LatestInv' /\ NoLess(latest, latest')
  <2>1. UNCHANGED reporterVars
    BY <1>5 DEF Flush
  <2>2. CASE w = "pnl"
    <3>1. pnl_bits' = processed /\ UNCHANGED counters
      BY <1>5, <2>2 DEF Flush
    <3>2. pnl_bits <= processed
      BY DEF MetricsInv, CountersLead
    <3> QED BY <1>1, <2>1, <3>1, <3>2, LatestNumbers DEF LatestNumbered
  <2>3. CASE w # "pnl"
    <3>1. /\ w \in CounterNames /\ UNCHANGED pnl_bits /\ Written(w) \in Nat
          /\ counters' = [counters EXCEPT ![w] = Written(w)]
      BY <1>5, <2>3, FlushedCounter
    <3>4. counters[w] <= Written(w)
      BY <3>1, LatestNumbers DEF LatestNumbered, Written, MetricsInv, CountersLead
    <3>2. \A c \in CounterNames : counters[c] <= counters'[c]
      BY <3>1, <3>4, CountersForward
    <3>3. pnl_bits <= pnl_bits'
      BY <3>1, LatestNumbers DEF LatestNumbered
    <3> QED BY <1>1, <2>1, <3>2, <3>3
  <2> QED BY <2>2, <2>3
<1>6. CASE Reporter
  BY <1>6, ReporterLatest
<1>7. CASE Dashboard
  <2>1. UNCHANGED reporterVars /\ UNCHANGED <<counters, pnl_bits>>
    BY <1>7 DEF Dashboard
  <2> QED BY <1>1, <1>2, <2>1
<1>8. CASE Stop \/ Return
  <2>1. UNCHANGED others
    BY <1>8 DEF Stop, Return
  <2>2. UNCHANGED reporterVars /\ UNCHANGED <<counters, pnl_bits>>
    BY <2>1 DEF others
  <2> QED BY <1>1, <1>2, <2>2
<1>9. CASE UNCHANGED vars
  <2>1. UNCHANGED reporterVars /\ UNCHANGED <<counters, pnl_bits>>
    BY <1>9 DEF vars
  <2> QED BY <1>1, <1>2, <2>1
<1>10. CASE Finished
  BY <1>9, <1>10 DEF Finished
<1> QED BY <1>3, <1>4, <1>5, <1>6, <1>7, <1>8, <1>9, <1>10 DEF Next

(* Whatever the order of the relaxed loads and stores, the snapshots the   *)
(* dashboard is given never go back.                                       *)
THEOREM LatestNeverGoesBack == Spec => LatestOnlyGrows
<1>1. Init => LatestInv
  BY DEF Init, LatestInv, LatestBehind, LoadsBetween, NoSnapshot, NoSamples
<1>2. NoLess(latest, latest') => [NoLess(latest, latest')]_vars
  OBVIOUS
<1> QED BY <1>1, <1>2, NextLatest, RunnerTypeCorrect, MetricsInvariant, PTL
        DEF Spec, LatestOnlyGrows

-----------------------------------------------------------------------------
(* The abstract queue *)

LEMMA IngestStep ==
  TypeOK /\ [Next]_vars => [TheIngest!Next]_(TheIngest!vars)
<1> SUFFICES ASSUME TypeOK, [Next]_vars
             PROVE  TheIngest!Next \/ UNCHANGED TheIngest!vars
  BY DEF TheIngest!vars
<1> DEFINE dropped == counters["drops"] + One(gen = "Drop")
<1>0. /\ ring \in Seq(1 .. MaxPackets) /\ Len(ring) \in Nat /\ Len(ring) <= RingCapacity
      /\ RingCapacity \in Nat
      /\ counters \in Counters /\ counters["drops"] \in Nat
  BY RunnerAssumption, LenProperties DEF TypeOK, Counters, CounterNames
<1>1. ASSUME UNCHANGED <<sent, ring, packet, gen>>, counters'["drops"] = counters["drops"]
      PROVE  UNCHANGED TheIngest!vars
  BY <1>1 DEF TheIngest!vars
<1>2. CASE Generator
  <2>0. UNCHANGED packet
    BY <1>2 DEF Generator, consumerVars
  <2>1. CASE GenCheck /\ UNCHANGED <<ring, counters>>
    <3>1. gen = "Check" /\ gen' # "Drop" /\ UNCHANGED sent
      BY <2>1 DEF GenCheck
    <3> QED BY <2>0, <2>1, <3>1 DEF TheIngest!vars, One
  <2>2. CASE GenPush /\ UNCHANGED counters
    <3>1. CASE Len(ring) < RingCapacity
      <4>1. /\ ring' = Append(ring, sent + 1) /\ sent' = sent + 1
            /\ gen = "Push" /\ gen' = "Check"
        BY <2>2, <3>1 DEF GenPush, Enqueue
      <4>2. dropped' = dropped
        BY <2>2, <4>1 DEF One
      <4> QED BY <2>0, <3>1, <4>1, <4>2 DEF TheIngest!Next, TheIngest!Accept
    <3>2. CASE ~ (Len(ring) < RingCapacity)
      <4>1. /\ ring' = ring /\ sent' = sent + 1
            /\ gen = "Push" /\ gen' = "Drop"
        BY <2>2, <3>2 DEF GenPush, Enqueue
      <4>2. dropped' = dropped + 1
        BY <1>0, <2>2, <4>1 DEF One
      <4>3. Len(ring) = RingCapacity
        BY <1>0, <3>2
      <4> QED BY <2>0, <4>1, <4>2, <4>3 DEF TheIngest!Next, TheIngest!Drop
    <3> QED BY <3>1, <3>2
  <2>3. CASE IncDrop /\ UNCHANGED ring
    <3>1. /\ counters' = [counters EXCEPT !["drops"] = @ + 1]
          /\ gen = "Drop" /\ gen' = "Check" /\ UNCHANGED sent
      BY <2>3 DEF IncDrop
    <3>2. counters'["drops"] = counters["drops"] + 1
      BY <1>0, <3>1, CounterAfter DEF CounterNames
    <3>3. dropped' = dropped
      BY <1>0, <3>1, <3>2 DEF One
    <3> QED BY <2>0, <2>3, <3>1, <3>3 DEF TheIngest!vars
  <2> QED BY <1>2, <2>1, <2>2, <2>3 DEF Generator
<1>3. CASE Consumer
  <2>0. UNCHANGED <<sent, gen, counters>>
    BY <1>3 DEF Consumer, genVars
  <2>1. CASE UNCHANGED <<ring, packet>>
    BY <1>1, <2>0, <2>1
  <2>2. CASE Pop /\ ring # <<>>
    <3>1. packet' = Head(ring) /\ ring' = Tail(ring)
      BY <2>2 DEF Pop
    <3> QED BY <2>0, <2>2, <3>1 DEF TheIngest!Next, TheIngest!Handle
  <2>3. UNCHANGED <<ring, packet>> \/ (Pop /\ ring # <<>>)
    BY <1>3 DEF Consumer, ConsumerCheck, Pop, Process, Record
  <2> QED BY <2>1, <2>2, <2>3
<1>4. ASSUME NEW w \in Writes, Flush(w)
      PROVE  UNCHANGED TheIngest!vars
  <2>1. counters'["drops"] = counters["drops"]
    <3>1. CASE w = "pnl"
      BY <1>4, <3>1 DEF Flush
    <3>2. CASE w # "pnl"
      BY <1>4, <3>2, FlushedCounter DEF CounterNames
    <3> QED BY <3>1, <3>2
  <2> QED BY <1>1, <1>4, <2>1 DEF Flush, genVars, consumerVars
<1>5. CASE Reporter \/ Dashboard
  BY <1>1, <1>5 DEF Reporter, Dashboard, genVars, consumerVars
<1>6. CASE Stop \/ Return
  <2>1. UNCHANGED others
    BY <1>6 DEF Stop, Return
  <2> QED BY <1>1, <2>1 DEF others, genVars, consumerVars
<1>7. CASE UNCHANGED vars
  BY <1>1, <1>7 DEF vars, genVars, consumerVars
<1>8. CASE Finished
  BY <1>7, <1>8 DEF Finished
<1> QED BY <1>2, <1>3, <1>4, <1>5, <1>6, <1>7, <1>8 DEF Next

(* For any ring capacity, the generator and the consumer implement the     *)
(* bounded queue: in order, each packet once, every drop counted.          *)
THEOREM RunnerImplementsIngest == Spec => ImplementsIngest
<1>1. Init => TheIngest!Init
  BY DEF Init, TheIngest!Init, One, CounterNames
<1> QED BY <1>1, IngestStep, RunnerTypeCorrect, PTL DEF Spec, ImplementsIngest, TheIngest!Spec
=============================================================================
