-------------------------------- MODULE Wire --------------------------------
(***************************************************************************)
(* A packet on its way into the hot path: built by the encoder             *)
(* (src/mdp3/encode.rs) or taken from a capture, copied into a ring slot   *)
(* (PacketBuf in src/runner.rs), and read by the two iterators of the      *)
(* decoder (src/mdp3/header.rs, src/mdp3/book_refresh.rs) into the entries *)
(* that process applies.  Lengths are those of the wire, in bytes; of the  *)
(* contents the model keeps the fields that steer the decoder.             *)
(***************************************************************************)
EXTENDS Integers, SequencesExt

CONSTANTS
    MaxPacket,          \* MAX_PACKET: bytes of a ring slot
    MaxEntries,         \* MAX_ENTRIES_PER_PACKET
    Fields,             \* what an entry says beside its action and its type
    Lists,              \* the lists of entries a message may be built from
    Foreign,            \* messages of a capture the encoder never builds
    Cuts,               \* lengths a capture may have cut a payload to
    MaxMessages         \* bound on the messages of a packet

PACKET_HEADER_LEN == 12
MSG_SIZE_PREFIX_LEN == 2
SBE_HEADER_LEN == 8
INCREMENTAL_ROOT_BLOCK_LEN == 11
MD_ENTRY_BLOCK_LEN == 32
RootFields == 9             \* bytes of IncrementalRoot
DimensionFields == 3        \* of GroupDimension
EntryFields == 27           \* of MdEntryRaw
TEMPLATE_INCREMENTAL_BOOK_46 == 46
TEMPLATE_INCREMENTAL_BOOK_32 == 32

(* enums.rs: the two codes of an entry, and what the decoder makes of them. *)
UpdateActionByte ==
    [New |-> 0, Change |-> 1, Delete |-> 2, DeleteThru |-> 3, DeleteFrom |-> 4, Overlay |-> 5]
AsByte == [Bid |-> 48, Offer |-> 49, ImpliedBid |-> 69, ImpliedOffer |-> 70, BookReset |-> 74]

FromU8(b) ==
    CASE b = 0 -> {"New"} [] b = 1 -> {"Change"} [] b = 2 -> {"Delete"}
      [] b = 3 -> {"DeleteThru"} [] b = 4 -> {"DeleteFrom"} [] b = 5 -> {"Overlay"}
      [] OTHER -> {}
FromByte(b) ==
    CASE b = 48 -> {"Bid"} [] b = 49 -> {"Offer"}
      [] b = 69 -> {"ImpliedBid"} [] b = 70 -> {"ImpliedOffer"} [] b = 74 -> {"BookReset"}
      [] OTHER -> {}

(* An entry in the program, and on the wire. *)
MdEntry ==
    [update_action : DOMAIN UpdateActionByte, entry_type : DOMAIN AsByte, fields : Fields]
MdEntryRaw == [md_update_action : 0 .. 255, md_entry_type : 0 .. 255, fields : Fields]

EncodeEntry(e) ==
    [md_update_action |-> UpdateActionByte[e.update_action],
     md_entry_type |-> AsByte[e.entry_type],
     fields |-> e.fields]

(* At most one entry: none of an unknown action or type. *)
Decoded(raw) ==
    {[update_action |-> action, entry_type |-> type, fields |-> raw.fields] :
        action \in FromU8(raw.md_update_action), type \in FromByte(raw.md_entry_type)}

(* A framed SBE message: MessageSize, then what its header, its root and   *)
(* its group say, then the entries: at least as many as it counts.         *)
Message ==
    {m \in [size : Nat, template_id : Nat, block_length : Nat, stride : Nat,
            num_in_group : 0 .. 255, items : Seq(MdEntryRaw)] :
        m.num_in_group <= Len(m.items)}

ASSUME WireAssumption ==
    /\ MaxPacket \in Nat /\ MaxEntries \in Nat /\ MaxMessages \in Nat
    /\ Lists \subseteq Seq(MdEntry)
    /\ \A list \in Lists : 22 + Len(list) * 32 < 65536
    /\ \A m \in Foreign : m \in Message /\ Len(m.items) = m.num_in_group
    /\ Cuts \subseteq Nat

(* The limits of the code, 64 and 512, are far from these bounds: entries  *)
(* that fill the array, or whose count needs a second byte, fit no slot.   *)
ASSUME LimitsAssumption ==
    /\ EntryFields * MaxEntries > MaxPacket
    /\ MD_ENTRY_BLOCK_LEN * 256 > MaxPacket

VARIABLES
    packet, len,        \* the payload's messages; its bytes, or its slot's
    phase,
    left, rest,         \* SbeMessageIter: bytes and messages that remain
    msg, done,          \* MdEntryIter: its message and the entries behind it
    entries             \* what process has collected

vars == <<packet, len, phase, left, rest, msg, done, entries>>

-----------------------------------------------------------------------------
(* PacketBuilder: sizes and counts are cut to their width on the wire.     *)
Refresh(list) ==
    [size |-> (SBE_HEADER_LEN + INCREMENTAL_ROOT_BLOCK_LEN + DimensionFields
                + Len(list) * MD_ENTRY_BLOCK_LEN) % 65536,
     template_id |-> TEMPLATE_INCREMENTAL_BOOK_46,
     block_length |-> INCREMENTAL_ROOT_BLOCK_LEN,
     stride |-> MD_ENTRY_BLOCK_LEN,
     num_in_group |-> Len(list) % 256,
     items |-> [k \in 1 .. Len(list) |-> EncodeEntry(list[k])]]

Add(m) ==
    /\ phase = "Build"
    /\ Len(packet) < MaxMessages
    /\ packet' = Append(packet, m)
    /\ len' = len + MSG_SIZE_PREFIX_LEN + m.size
    /\ UNCHANGED <<phase, left, rest, msg, done, entries>>

(* PacketBuf::from_slice cuts the payload to the slot. *)
SlotLength(n) == IF n < MaxPacket THEN n ELSE MaxPacket

(* A slot is filled, from a payload that may have been cut before, and the *)
(* packet header is parsed.                                                *)
Receive(n) ==
    /\ phase = "Build"
    /\ n <= len
    /\ len' = SlotLength(n)
    /\ IF len' < PACKET_HEADER_LEN
       THEN phase' = "Done" /\ UNCHANGED <<left, rest>>
       ELSE /\ phase' = "Messages"
            /\ left' = len' - PACKET_HEADER_LEN
            /\ rest' = packet
    /\ UNCHANGED <<packet, msg, done, entries>>

-----------------------------------------------------------------------------
(* SbeMessageIter::next; where the bytes end, the messages do. *)
FaultyFramed ==             \* a message that is cut is read all the same
    /\ rest # <<>> /\ left >= MSG_SIZE_PREFIX_LEN
    /\ Head(rest).size >= SBE_HEADER_LEN
Framed ==
    /\ rest # <<>> /\ left >= MSG_SIZE_PREFIX_LEN
    /\ Head(rest).size >= SBE_HEADER_LEN
    /\ left >= MSG_SIZE_PREFIX_LEN + Head(rest).size

(* IncrementalRefresh::decode *)
Body(m) == m.size - SBE_HEADER_LEN

FaultyDecodes(m) ==         \* the group may be longer than the message
    /\ m.template_id \in {TEMPLATE_INCREMENTAL_BOOK_46, TEMPLATE_INCREMENTAL_BOOK_32}
    /\ Body(m) >= m.block_length
    /\ Body(m) >= RootFields
    /\ Body(m) - m.block_length >= DimensionFields
    /\ m.stride # 0
Decodes(m) ==
    /\ m.template_id \in {TEMPLATE_INCREMENTAL_BOOK_46, TEMPLATE_INCREMENTAL_BOOK_32}
    /\ Body(m) >= m.block_length
    /\ Body(m) >= RootFields
    /\ Body(m) - m.block_length >= DimensionFields
    /\ m.stride # 0
    /\ Body(m) - m.block_length - DimensionFields >= m.stride * m.num_in_group

NextMessage ==
    /\ phase = "Messages"
    /\ Framed
    /\ left' = left - MSG_SIZE_PREFIX_LEN - Head(rest).size
    /\ rest' = Tail(rest)
    /\ IF Decodes(Head(rest))
       THEN phase' = "Entries" /\ msg' = <<Head(rest)>> /\ done' = 0
       ELSE UNCHANGED <<phase, msg, done>>
    /\ UNCHANGED <<packet, len, entries>>

EndOfPacket ==
    /\ phase = "Messages"
    /\ ~ Framed
    /\ phase' = "Done"
    /\ UNCHANGED <<packet, len, left, rest, msg, done, entries>>

(* MdEntryIter::next, and try_push of what it yields: an unknown entry is  *)
(* skipped, a stride too short for an entry ends the message.              *)
Readable == done < msg[1].num_in_group /\ msg[1].stride >= EntryFields

NextEntry ==
    /\ phase = "Entries"
    /\ Readable
    /\ done' = done + 1
    /\ LET decoded == Decoded(msg[1].items[done'])
       IN  \/ /\ decoded # {} /\ Len(entries) < MaxEntries
              /\ \E e \in decoded : entries' = Append(entries, e)
           \/ /\ decoded = {} \/ Len(entries) >= MaxEntries
              /\ UNCHANGED entries
    /\ UNCHANGED <<packet, len, phase, left, rest, msg>>

EndOfMessage ==
    /\ phase = "Entries"
    /\ ~ Readable
    /\ phase' = "Messages"
    /\ UNCHANGED <<packet, len, left, rest, msg, done, entries>>

Init ==
    /\ packet = <<>> /\ len = PACKET_HEADER_LEN
    /\ phase = "Build"
    /\ left = 0 /\ rest = <<>>
    /\ msg = <<>> /\ done = 0
    /\ entries = <<>>

Next ==
    \/ \E list \in Lists : Add(Refresh(list))
    \/ \E m \in Foreign : Add(m)
    \/ \E n \in Cuts \cup {len} : Receive(n)
    \/ NextMessage
    \/ EndOfPacket
    \/ NextEntry
    \/ EndOfMessage

Spec == Init /\ [][Next]_vars

-----------------------------------------------------------------------------
(* What is left lies in the slot, the message under decode before it, and  *)
(* the group, of which `done` entries are read, within that message.       *)
Within ==
    /\ phase = "Messages" => PACKET_HEADER_LEN + left <= len
    /\ phase = "Entries" =>
         /\ PACKET_HEADER_LEN + MSG_SIZE_PREFIX_LEN + msg[1].size + left <= len
         /\ SBE_HEADER_LEN + msg[1].block_length + DimensionFields
              + msg[1].stride * msg[1].num_in_group <= msg[1].size
         /\ done <= msg[1].num_in_group

(* The iterators stay within the slot and within their message.            *)
TypeOK ==
    /\ packet \in Seq(Message)
    /\ phase \in {"Build", "Messages", "Entries", "Done"}
    /\ len \in Nat
    /\ phase # "Build" => len <= MaxPacket
    /\ left \in 0 .. MaxPacket
    /\ rest \in Seq(Message)
    /\ msg \in Seq(Message) /\ Len(msg) <= 1
    /\ phase = "Entries" => Len(msg) = 1
    /\ done \in 0 .. 255
    /\ Within
    /\ entries \in Seq(MdEntry) /\ Len(entries) <= MaxEntries

(* Where the last byte of a payload's k-th message is.                     *)
EndOf[k \in 0 .. Len(packet)] ==
    IF k = 0 THEN PACKET_HEADER_LEN
    ELSE EndOf[k - 1] + MSG_SIZE_PREFIX_LEN + packet[k].size

(* The messages that reach the decoder: whole, in the slot, and with no    *)
(* unframeable one before them.                                            *)
Arrived(k) ==
    \A j \in 1 .. k : packet[j].size >= SBE_HEADER_LEN /\ EndOf[j] <= len

(* What a message has to say: every entry that encodes to one of its       *)
(* items, in order, or nothing.                                            *)
Meaning(m) ==
    LET fits == /\ m.template_id \in {32, 46}
                /\ m.stride >= EntryFields
                /\ SBE_HEADER_LEN + RootFields <= m.size
                /\ SBE_HEADER_LEN + m.block_length + DimensionFields
                     + Len(m.items) * m.stride <= m.size
        saying(raw) == SetToSeq({e \in MdEntry : EncodeEntry(e) = raw})
    IN  IF fits THEN FlattenSeq([k \in 1 .. Len(m.items) |-> saying(m.items[k])]) ELSE <<>>

(* A packet that was built and not cut, or cut anywhere, is decoded        *)
(* message by message: the whole meaning of those that arrived, in order,  *)
(* and nothing of the others.  In particular the two codes of an entry are *)
(* read back as what they were written for, and no count is ever too large *)
(* for its byte in a packet that fits a slot.                              *)
DecodesWholeMessages ==
    phase = "Done" =>
        entries = FlattenSeq([k \in 1 .. Len(packet) |->
                     IF Arrived(k) THEN Meaning(packet[k]) ELSE <<>>])

(* The cap on the entries of a packet never drops one: a slot is too small *)
(* for that many (the two limits are constants of different files).        *)
CapNeverReached == Len(entries) < MaxEntries
=============================================================================
