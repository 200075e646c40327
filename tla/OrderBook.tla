----------------------------- MODULE OrderBook -----------------------------
(***************************************************************************)
(* The depth book (src/orderbook.rs): per instrument two ladders of at     *)
(* most MaxDepth levels, best first, and the detection of gaps in the      *)
(* instrument's RptSeq.  Of a level the model keeps the price: no decision *)
(* of the program reads sizes or order counts.                             *)
(***************************************************************************)
EXTENDS ConnectorLib, SequencesExt

CONSTANTS
    MaxDepth,       \* MAX_DEPTH
    RptRange        \* rpt_seq is a number below this: 2^32 for u32

ASSUME BookAssumption == MaxDepth \in Nat \ {0} /\ RptRange \in Nat \ {0}

UpdateActions == {"New", "Change", "Overlay", "Delete", "DeleteThru", "DeleteFrom"}
EntryTypes == BookSides \cup {"Implied", "BookReset"}

(* An entry of an incremental refresh; security_id may be unregistered. *)
MdEntry(ids) ==
    [security_id : ids, update_action : UpdateActions, entry_type : EntryTypes,
     price_level : Nat, px_raw : Int, rpt_seq : 0 .. RptRange - 1]

Ladder == {s \in Seq(Int) : Len(s) <= MaxDepth}
InstrumentBook ==
    [bids : Ladder, offers : Ladder,
     last_rpt_seq : Option(0 .. RptRange - 1), gaps : Nat]
Books == [Instruments -> InstrumentBook]

EmptyBook == [bids |-> <<>>, offers |-> <<>>, last_rpt_seq |-> None, gaps |-> 0]

-----------------------------------------------------------------------------
(* A gap: the sequence number skips past the successor of the last one,    *)
(* which is computed in u32.                                               *)
Skips(book, e) ==
    book.last_rpt_seq # None /\ e.rpt_seq > (book.last_rpt_seq[1] + 1) % RptRange

(* The level an entry addresses, counted from 1; level 0 aliases it. *)
LevelOf(e) == IF e.price_level = 0 THEN 1 ELSE e.price_level

FaultyInsertNoPop(levels, pos, px) ==
    IF pos > Len(levels) + 1 THEN levels ELSE InsertAt(levels, pos, px)
FaultyInsertWhenRoom(levels, pos, px) ==        \* a full ladder takes no insert
    IF pos > Len(levels) + 1 \/ Len(levels) = MaxDepth THEN levels
    ELSE InsertAt(levels, pos, px)
Insert(levels, pos, px) ==
    LET room == IF Len(levels) = MaxDepth THEN Front(levels) ELSE levels
    IN  IF pos > Len(levels) + 1 THEN levels
        ELSE IF pos <= Len(room) + 1 THEN InsertAt(room, pos, px)
        ELSE room

Replace(levels, pos, px) ==
    IF pos <= Len(levels) THEN [levels EXCEPT ![pos] = px]
    ELSE IF pos = Len(levels) + 1 /\ Len(levels) < MaxDepth THEN Append(levels, px)
    ELSE levels

Drop(levels, pos) ==
    IF pos <= Len(levels) THEN RemoveAt(levels, pos) ELSE levels

Truncate(levels, pos) ==
    IF pos <= Len(levels) THEN SubSeq(levels, 1, pos - 1) ELSE levels

UpdateLadder(levels, e) ==
    CASE e.update_action = "New" -> Insert(levels, LevelOf(e), e.px_raw)
      [] e.update_action \in {"Change", "Overlay"} -> Replace(levels, LevelOf(e), e.px_raw)
      [] e.update_action = "Delete" -> Drop(levels, LevelOf(e))
      [] e.update_action = "DeleteThru" -> <<>>
      [] e.update_action = "DeleteFrom" -> Truncate(levels, LevelOf(e))

(* InstrumentBook::apply *)
FaultySequence(book, e) ==      \* implied entries do not advance the sequence
    IF e.entry_type = "Implied" THEN book
    ELSE [book EXCEPT !.gaps = IF Skips(book, e) THEN @ + 1 ELSE @,
                      !.last_rpt_seq = Some(e.rpt_seq)]
Sequence(book, e) ==
    [book EXCEPT !.gaps = IF Skips(book, e) THEN @ + 1 ELSE @,
                 !.last_rpt_seq = Some(e.rpt_seq)]

UpdateSides(book, e) ==
    CASE e.entry_type = "BookReset" -> [book EXCEPT !.bids = <<>>, !.offers = <<>>]
      [] e.entry_type = Bid -> [book EXCEPT !.bids = UpdateLadder(@, e)]
      [] e.entry_type = Offer -> [book EXCEPT !.offers = UpdateLadder(@, e)]
      [] e.entry_type = "Implied" -> book

ApplyEntry(book, e) == UpdateSides(Sequence(book, e), e)

-----------------------------------------------------------------------------
(* bbo and mid *)
Best(levels) == IF levels = <<>> THEN None ELSE Some(levels[1])

Bbo == [bid_px_raw : Option(Int), offer_px_raw : Option(Int)]

BboOf(book) == [bid_px_raw |-> Best(book.bids), offer_px_raw |-> Best(book.offers)]

TwoSided(bbo) == bbo.bid_px_raw # None /\ bbo.offer_px_raw # None

(* The mean of bid and offer, in half units. *)
Mid(bbo) == bbo.bid_px_raw[1] + bbo.offer_px_raw[1]

-----------------------------------------------------------------------------
(* OrderBook::with_instruments and OrderBook::apply; an unregistered id    *)
(* changes nothing.                                                        *)
BookNew == [i \in Instruments |-> EmptyBook]

ApplyToBooks(books, e) ==
    IF e.security_id \in Instruments
    THEN [books EXCEPT ![e.security_id] = ApplyEntry(@, e)]
    ELSE books
=============================================================================
