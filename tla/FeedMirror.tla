----------------------------- MODULE FeedMirror -----------------------------
(***************************************************************************)
(* An exchange publishes the changes of one instrument's book, and the     *)
(* connector's InstrumentBook follows them.  The exchange's book is kept   *)
(* without levels or ladders: a set of resting prices per side.  What it   *)
(* publishes is external to src/: the entries are those the actions of     *)
(* orderbook.rs are meant for, levels numbered from the best price and     *)
(* FeedDepth levels deep.                                                  *)
(*                                                                         *)
(* A packet reaches the book whole, is lost whole (the ingest ring drops   *)
(* one when it is full, and the network may) or arrives twice (a capture   *)
(* of both lines of a feed has it twice).  The packets published are also  *)
(* a capture: publishing it to the book is the generator thread's first    *)
(* pass over it, and further passes go into the book the last one left.    *)
(*                                                                         *)
(* Without a capture the packets are the synthetic generator's: the touch  *)
(* of a book of one price per side.                                        *)
(***************************************************************************)
EXTENDS OrderBook

CONSTANTS
    Prices, FeedDepth,
    Mids, HalfSpread,   \* the generator's: its mids and half_spread_ticks
    MaxPackets,         \* bound on the packets published
    MaxCapture,         \* bound on the length of a capture that is replayed
    MaxReplayed         \* bound on the packets replayed

ASSUME FeedAssumption ==
    /\ Prices \subseteq Int
    /\ FeedDepth \in Nat \ {0}
    /\ Mids \subseteq Int /\ HalfSpread \in Int
    /\ {MaxPackets, MaxCapture, MaxReplayed} \subseteq Nat

VARIABLES
    source,         \* whose packets these are
    resting,        \* the exchange's prices, per side
    seq,            \* the last RptSeq it assigned
    packets,        \* how many packets it has published
    book,           \* the connector's book
    losing,         \* packets were lost since the last delivery
    misses,         \* deliveries that followed a loss, the first one excepted
    stale,          \* an update was lost, repeated or applied to another pass's
                    \* book since the last delivered reset
    payloads,       \* the capture: each packet, and what rested after it
    replayed,       \* i, the packets the generator thread has replayed
    torn            \* a loss has spanned the end of the capture

connector == <<book, losing, misses, stale>>
vars == <<source, resting, seq, packets, connector, payloads, replayed, torn>>

-----------------------------------------------------------------------------
(* The exchange *)

Better(side, p, q) == IF side = Bid THEN p > q ELSE p < q

(* The level of a price, and the ladder of a set of prices: as deep as the *)
(* feed, best first.                                                       *)
Rank(side, S, p) == 1 + Cardinality({q \in S : Better(side, q, p)})
AtRank(side, S, k) == CHOOSE p \in S : Rank(side, S, p) = k
Visible(side, S) ==
    [k \in 1 .. Min({Cardinality(S), FeedDepth}) |-> AtRank(side, S, k)]

(* An entry of this instrument, before it is numbered. *)
Entry(action, side, level, px) ==
    [update_action |-> action, entry_type |-> side, price_level |-> level,
     px_raw |-> px, rpt_seq |-> 0]

(* A matching engine leaves no bid at or above an offer. *)
Uncrossed(book_sides) == \A b \in book_sides[Bid], o \in book_sides[Offer] : b < o

(* A packet of entries is numbered from the sequence number after the      *)
(* last, each entry with its own or all with the same one, as the          *)
(* generator does; then it is delivered or lost.                           *)
Number(entries, shared) ==
    [k \in 1 .. Len(entries) |->
        [entries[k] EXCEPT !.rpt_seq = (seq + (IF shared THEN 1 ELSE k)) % RptRange]]

(* The packets that tell the whole book: a reset, and the generator's. *)
TellsAll(packet) == packet[1].entry_type = "BookReset" \/ source = "generator"

Apply(packet) ==
    /\ book' = FoldLeft(ApplyEntry, book, packet)
    /\ losing' = FALSE
    /\ misses' = IF losing /\ book.last_rpt_seq # None THEN misses + 1 ELSE misses

(* One copy of a packet arrives, or both of two.  A book that is out of    *)
(* step is not the one the packet was published for.                       *)
Deliver(packet, copies, out_of_step) ==
    \/ /\ Apply(packet)
       /\ stale' = ((stale \/ out_of_step) /\ ~ TellsAll(packet))
    \/ /\ copies = 2
       /\ Apply(packet \o packet)
       /\ stale' = ~ TellsAll(packet)

Lose ==
    /\ losing' = TRUE
    /\ stale' = TRUE
    /\ UNCHANGED <<book, misses>>

(* A capture too long to be replayed within the bound is forgotten. *)
Captured(packet, copies) ==
    payloads' = IF packets < MaxCapture
                THEN Append(payloads, [packet |-> packet, copies |-> copies, resting |-> resting'])
                ELSE <<>>

Publish(entries) ==
    /\ source = "exchange" /\ replayed = 0
    /\ packets < MaxPackets
    /\ packets' = packets + 1
    /\ \E shared \in IF Len(entries) > 1 THEN BOOLEAN ELSE {TRUE} :
          LET packet == Number(entries, shared)
          IN  /\ seq' = packet[Len(packet)].rpt_seq
              /\ \E copies \in 1 .. 2 :
                    /\ Captured(packet, copies)
                    /\ Deliver(packet, copies, FALSE) \/ Lose
    /\ UNCHANGED <<source, replayed, torn>>

(* The exchange changes below the depth it publishes. *)
Unpublished ==
    /\ source = "exchange" /\ replayed = 0
    /\ UNCHANGED <<source, seq, packets, connector, payloads, replayed, torn>>

(* A price appears: published when it is within the feed's depth. *)
Appear(side, p) ==
    LET level == Rank(side, resting[side], p)
    IN  /\ p \notin resting[side]
        /\ resting' = [resting EXCEPT ![side] = @ \cup {p}]
        /\ Uncrossed(resting')
        /\ IF level <= FeedDepth
           THEN Publish(<<Entry("New", side, level, p)>>)
           ELSE Unpublished

(* A price disappears, and the first price below the depth comes into it. *)
Vanish(side, p) ==
    LET level == Rank(side, resting[side], p)
        below == AtRank(side, resting[side], FeedDepth + 1)
    IN  /\ p \in resting[side]
        /\ resting' = [resting EXCEPT ![side] = @ \ {p}]
        /\ IF level > FeedDepth
           THEN Unpublished
           ELSE Publish(<<Entry("Delete", side, level, p)>>
                        \o IF Cardinality(resting[side]) > FeedDepth
                           THEN <<Entry("New", side, FeedDepth, below)>>
                           ELSE <<>>)

(* A price moves without passing another one. *)
Reprice(side, p, q) ==
    LET level == Rank(side, resting[side], p)
    IN  /\ p \in resting[side] /\ q \notin resting[side]
        /\ level <= FeedDepth
        /\ Rank(side, resting[side] \ {p}, q) = level
        /\ resting' = [resting EXCEPT ![side] = (@ \ {p}) \cup {q}]
        /\ Uncrossed(resting')
        /\ \E action \in {"Change", "Overlay"} : Publish(<<Entry(action, side, level, q)>>)

(* The prices from a level on disappear, or a whole side does. *)
Sweep(side, p) ==
    LET level == Rank(side, resting[side], p)
    IN  /\ p \in resting[side]
        /\ level <= FeedDepth
        /\ resting' = [resting EXCEPT ![side] = {q \in @ : Better(side, q, p)}]
        /\ \/ Publish(<<Entry("DeleteFrom", side, level, p)>>)
           \/ level = 1 /\ Publish(<<Entry("DeleteThru", side, 1, p)>>)

Reset ==
    /\ resting' = [side \in BookSides |-> {}]
    /\ Publish(<<Entry("New", "BookReset", 0, 0)>>)

ImpliedUpdate ==
    /\ UNCHANGED resting
    /\ \E p \in Prices : Publish(<<Entry("New", "Implied", 1, p)>>)

-----------------------------------------------------------------------------
(* The generator thread with a capture: packet i is payloads[i % len], and *)
(* nothing is cleared when i comes round.                                  *)
PayloadAt(i) == payloads[(i % Len(payloads)) + 1]

Replay ==
    /\ payloads # <<>>
    /\ replayed < MaxReplayed
    /\ replayed' = replayed + 1
    /\ LET payload == PayloadAt(replayed)
           again == replayed % Len(payloads) = 0
       IN  /\ resting' = payload.resting
           /\ \/ /\ Deliver(payload.packet, payload.copies, again)
                 /\ torn' = (torn \/ (again /\ losing))
              \/ /\ Lose
                 /\ torn' = (torn \/ again)
    /\ UNCHANGED <<source, seq, packets, payloads>>

-----------------------------------------------------------------------------
(* The generator thread without one: next_packet quotes one bid and one    *)
(* offer, half a spread from the mid, as two overlays that share a number. *)
NextPacket ==
    /\ source = "generator"
    /\ packets < MaxPackets
    /\ packets' = packets + 1
    /\ \E mid \in Mids :
          LET quote == [side \in BookSides |->
                           IF side = Bid THEN mid - HalfSpread ELSE mid + HalfSpread]
              packet == Number(<<Entry("Overlay", Bid, 1, quote[Bid]),
                                 Entry("Overlay", Offer, 1, quote[Offer])>>, TRUE)
          IN  /\ resting' = [side \in BookSides |-> {quote[side]}]
              /\ seq' = packet[1].rpt_seq
              /\ Deliver(packet, 1, FALSE) \/ Lose
    /\ UNCHANGED <<source, payloads, replayed, torn>>

-----------------------------------------------------------------------------
Init ==
    /\ source \in {"exchange", "generator"}
    /\ resting = [side \in BookSides |-> {}]
    /\ seq = 0
    /\ packets = 0
    /\ book = EmptyBook
    /\ losing = FALSE
    /\ misses = 0
    /\ stale = FALSE
    /\ payloads = <<>>
    /\ replayed = 0
    /\ torn = FALSE

Next ==
    \/ \E side \in BookSides, p \in Prices :
          \/ Appear(side, p)
          \/ Vanish(side, p)
          \/ Sweep(side, p)
          \/ \E q \in Prices : Reprice(side, p, q)
    \/ Reset
    \/ ImpliedUpdate
    \/ Replay
    \/ NextPacket

Spec == Init /\ [][Next]_vars

-----------------------------------------------------------------------------
(* Ladders no deeper than MaxDepth, whatever the feed's depth and whatever *)
(* was lost.                                                               *)
TypeOK ==
    /\ source \in {"exchange", "generator"}
    /\ resting \in [BookSides -> SUBSET Int]
    /\ seq \in 0 .. RptRange - 1
    /\ packets \in 0 .. MaxPackets
    /\ book \in InstrumentBook
    /\ losing \in BOOLEAN /\ stale \in BOOLEAN
    /\ misses \in Nat
    /\ Len(payloads) <= MaxCapture
    /\ replayed \in 0 .. MaxReplayed
    /\ torn \in BOOLEAN

(* Unless an update was lost or came twice, the book is the exchange's:    *)
(* every insertion, shift, replacement and refill leaves both ladders      *)
(* equal to the best prices in order.  A delivered reset ends the effect   *)
(* of what went wrong earlier, and any packet of the generator does; so a  *)
(* capture that begins with a reset replays to the same books on every     *)
(* pass, whatever the last pass left.                                      *)
MirrorsExchange ==
    ~ stale => /\ book.bids = Visible(Bid, resting[Bid])
               /\ book.offers = Visible(Offer, resting[Offer])

(* gaps counts exactly the deliveries that follow a loss: none is missed,  *)
(* and nothing else is counted: entries that share a number, entries the   *)
(* book ignores, packets that come twice and the numbers' return to the    *)
(* first one's when a capture starts over included.  (A loss at the seam   *)
(* of two passes may go uncounted.)                                        *)
GapsAreExact == torn \/ book.gaps = misses

(* orderbook.rs, on a New entry for a full side: "drop the deepest level   *)
(* to make room".  A price that appears at the exchange never makes the    *)
(* book's side shallower.                                                  *)
InsertsNeverShrink ==
    [][/\ resting[Bid] \subseteq resting'[Bid] /\ resting[Bid] # resting'[Bid]
       => Len(book'.bids) >= Len(book.bids)]_vars
=============================================================================
