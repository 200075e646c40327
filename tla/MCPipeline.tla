----------------------------- MODULE MCPipeline -----------------------------
EXTENDS Pipeline

E(id, action, type, level, px) ==
    [security_id |-> id, update_action |-> action, entry_type |-> type,
     price_level |-> level, px_raw |-> px, rpt_seq |-> 0]

(* The generator's packet: both touches overlaid. *)
Quote(id, bid, offer) ==
    <<E(id, "Overlay", Bid, 1, bid), E(id, "Overlay", Offer, 1, offer)>>

Unregistered == 99

MCZScores == {-2, 0, 2}

MCMultiplier == [i \in Instruments |-> 1]

(* Quotes around zero (the mid of the first is half a raw unit below it)   *)
(* of two instruments, and on the first of them a packet whose last entry  *)
(* is beyond the cap, one-sided books and one nobody registered.           *)
MCPackets ==
    UNION {{Quote(i, -2, 1), Quote(i, 1, 3)} : i \in Instruments}
    \cup {Quote(1, -2, 1) \o <<E(1, "Overlay", Bid, 1, -1), E(1, "Delete", Offer, 1, 0)>>,
          <<E(1, "Delete", Bid, 1, 0)>>,
          <<E(Unregistered, "New", Bid, 1, 2)>>}

(* Two quotes per instrument, each in a packet of its own. *)
MCQuotes == UNION {{Quote(i, -2, 1), Quote(i, 1, 3)} : i \in Instruments}

(* Also a packet that quotes two instruments. *)
MCMixedPackets == MCQuotes \cup {Quote(1, 1, 3) \o Quote(2, 1, 3)}
=============================================================================
