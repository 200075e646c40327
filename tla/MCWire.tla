------------------------------- MODULE MCWire -------------------------------
EXTENDS Wire

E(action, type, fields) ==
    [update_action |-> action, entry_type |-> type, fields |-> fields]

(* One entry, every action and type, more than a slot or a count can hold. *)
MCLists ==
    {<<E("New", "Bid", 1)>>,
     <<E("New", "Offer", 1), E("Change", "Bid", 2), E("Delete", "ImpliedBid", 1),
       E("DeleteThru", "ImpliedOffer", 2), E("DeleteFrom", "Offer", 1),
       E("Overlay", "BookReset", 2)>>,
     [k \in 1 .. 258 |-> E("Overlay", "Offer", 1)]}

Raw(action, type) ==
    [md_update_action |-> action, md_entry_type |-> type, fields |-> 1]

M(size, template_id, block_length, stride, items) ==
    [size |-> size, template_id |-> template_id, block_length |-> block_length,
     stride |-> stride, num_in_group |-> Len(items), items |-> items]

(* A legacy message with a longer root and wider entries, another          *)
(* template, a header without a body, a size below the header's, a root    *)
(* and a group that do not fit, strides of zero and below an entry, and    *)
(* entries of unknown actions and types among known ones.                  *)
MCForeign ==
    {M(106, 32, 15, 40, <<Raw(0, 48), Raw(1, 49)>>),
     M(50, 50, 11, 32, <<Raw(0, 48)>>),
     M(8, 46, 11, 32, <<>>),
     M(7, 46, 0, 32, <<>>),
     M(20, 46, 13, 32, <<>>),
     M(100, 46, 11, 32, [k \in 1 .. 70 |-> Raw(0, 48)]),
     M(54, 46, 11, 0, <<Raw(0, 48)>>),
     M(54, 46, 11, 26, <<Raw(0, 48)>>),
     M(150, 46, 11, 32, <<Raw(6, 48), Raw(0, 50), Raw(5, 74), Raw(255, 101)>>)}

MCCuts == {4, 12, 67, 68, 120, 121, 122, 300}
=============================================================================
