----------------------------- MODULE WireProofs -----------------------------
(***************************************************************************)
(* The decoder stays within its slot, never fills its array of entries and *)
(* reads every message that arrives whole for what it says, whatever       *)
(* messages a payload holds and wherever it is cut.                        *)
(***************************************************************************)
EXTENDS Wire, SequenceTheorems, FiniteSetTheorems, WellFoundedInduction, TLAPS

LEMMA MessageFields ==
  ASSUME NEW m \in Message
  PROVE  /\ m.size \in Nat /\ m.block_length \in Nat /\ m.stride \in Nat
         /\ m.num_in_group \in 0 .. 255 /\ m.num_in_group \in Nat
         /\ m.items \in Seq(MdEntryRaw) /\ m.num_in_group <= Len(m.items)
<1>1. /\ m.size \in Nat /\ m.block_length \in Nat /\ m.stride \in Nat
      /\ m.num_in_group \in 0 .. 255
      /\ m.items \in Seq(MdEntryRaw) /\ m.num_in_group <= Len(m.items)
  BY Zenon DEF Message
<1>2. \A n \in 0 .. 255 : n \in Nat
  OBVIOUS
<1> QED BY <1>1, <1>2, Zenon

LEMMA ByteOfCount ==
  ASSUME NEW n \in Nat
  PROVE  n % 256 \in 0 .. 255 /\ n % 256 <= n
OBVIOUS

(* What the encoder writes for an entry are bytes.                         *)
LEMMA EncodedEntry ==
  ASSUME NEW e \in MdEntry
  PROVE  EncodeEntry(e) \in MdEntryRaw
<1>1. UpdateActionByte[e.update_action] \in 0 .. 255
  <2>1. e.update_action \in {"New", "Change", "Delete", "DeleteThru", "DeleteFrom", "Overlay"}
    BY DEF MdEntry, UpdateActionByte
  <2> QED BY <2>1 DEF UpdateActionByte
<1>2. AsByte[e.entry_type] \in 0 .. 255
  <2>1. e.entry_type \in {"Bid", "Offer", "ImpliedBid", "ImpliedOffer", "BookReset"}
    BY DEF MdEntry, AsByte
  <2> QED BY <2>1 DEF AsByte
<1>3. e.fields \in Fields
  BY DEF MdEntry
<1> QED BY <1>1, <1>2, <1>3 DEF EncodeEntry, MdEntryRaw

(* What the decoder makes of an item is an entry.                          *)
LEMMA DecodedEntry ==
  ASSUME NEW raw \in MdEntryRaw, NEW e \in Decoded(raw)
  PROVE  e \in MdEntry
<1>1. raw.fields \in Fields
  BY DEF MdEntryRaw
<1>2. PICK action \in FromU8(raw.md_update_action), type \in FromByte(raw.md_entry_type) :
        e = [update_action |-> action, entry_type |-> type, fields |-> raw.fields]
  BY DEF Decoded
<1>3. action \in DOMAIN UpdateActionByte
  BY <1>2 DEF FromU8, UpdateActionByte
<1>4. type \in DOMAIN AsByte
  BY <1>2 DEF FromByte, AsByte
<1> QED BY <1>1, <1>2, <1>3, <1>4 DEF MdEntry

(* What the encoder frames is a message.                                   *)
LEMMA RefreshIsAMessage ==
  ASSUME NEW list \in Lists
  PROVE  Refresh(list) \in Message
<1>1. list \in Seq(MdEntry) /\ Len(list) \in Nat
  BY WireAssumption
<1>2. Len(list) % 256 \in 0 .. 255 /\ Len(list) % 256 <= Len(list)
  BY <1>1, ByteOfCount
<1>3. (SBE_HEADER_LEN + INCREMENTAL_ROOT_BLOCK_LEN + DimensionFields
        + Len(list) * MD_ENTRY_BLOCK_LEN) % 65536 \in Nat
  BY <1>1 DEF SBE_HEADER_LEN, INCREMENTAL_ROOT_BLOCK_LEN, DimensionFields, MD_ENTRY_BLOCK_LEN
<1> DEFINE items == [k \in 1 .. Len(list) |-> EncodeEntry(list[k])]
<1>4. items \in Seq(MdEntryRaw) /\ Len(items) = Len(list)
  <2>1. \A k \in 1 .. Len(list) : EncodeEntry(list[k]) \in MdEntryRaw
    BY <1>1, EncodedEntry, ElementOfSeq
  <2> QED BY <1>1, <2>1
<1> HIDE DEF items
<1>5. Refresh(list).items = items /\ Refresh(list).num_in_group = Len(list) % 256
  BY DEF Refresh, items
<1> QED
  BY <1>2, <1>3, <1>4, <1>5 DEF Refresh, Message, TEMPLATE_INCREMENTAL_BOOK_46,
     INCREMENTAL_ROOT_BLOCK_LEN, MD_ENTRY_BLOCK_LEN

(* Bytes of entries still to be read from the message under decode.        *)
Unread ==
    IF phase = "Entries" /\ Readable
    THEN EntryFields * (msg[1].num_in_group - done) ELSE 0

(* An entry takes its fields from bytes that no other entry, and no later  *)
(* message, is read from.                                                  *)
EntriesTakeBytes == EntryFields * Len(entries) + Unread + left <= MaxPacket

WireInv ==
    /\ TypeOK
    /\ phase = "Build" => entries = <<>>
    /\ EntriesTakeBytes

LEMMA WiderEntries ==
  ASSUME NEW stride \in Nat, NEW n \in Nat, stride >= EntryFields
  PROVE  EntryFields * n <= stride * n
<1>1. PICK more \in Nat : stride = EntryFields + more
  <2>1. stride - EntryFields \in Nat
    BY DEF EntryFields
  <2> QED BY <2>1 DEF EntryFields
<1>2. more * n \in Nat
  OBVIOUS
<1>3. stride * n = EntryFields * n + more * n
  BY <1>1 DEF EntryFields
<1> QED BY <1>2, <1>3 DEF EntryFields

(* No message makes the decoder read entries from more bytes than it is    *)
(* framed with.                                                            *)
LEMMA EntriesFitTheirMessage ==
  ASSUME NEW m \in Message, Decodes(m), m.stride >= EntryFields
  PROVE  EntryFields * m.num_in_group <= m.size
<1>1. /\ m.stride \in Nat /\ m.num_in_group \in Nat
      /\ m.size \in Nat /\ m.block_length \in Nat
  BY MessageFields
<1> DEFINE needed == m.stride * m.num_in_group
<1>2. needed \in Nat /\ EntryFields * m.num_in_group <= needed
  BY <1>1, WiderEntries
<1>3. m.size - SBE_HEADER_LEN - m.block_length - DimensionFields >= needed
  BY DEF Decodes, Body
<1> HIDE DEF needed
<1> QED
  BY <1>1, <1>2, <1>3 DEF SBE_HEADER_LEN, DimensionFields, EntryFields

(* A message that is decoded holds its group.                              *)
LEMMA GroupFits ==
  ASSUME NEW m \in Message, Decodes(m)
  PROVE  SBE_HEADER_LEN + m.block_length + DimensionFields + m.stride * m.num_in_group
           <= m.size
<1>1. /\ m.stride \in Nat /\ m.num_in_group \in Nat
      /\ m.size \in Nat /\ m.block_length \in Nat
  BY MessageFields
<1> DEFINE needed == m.stride * m.num_in_group
<1>2. needed \in Nat
  BY <1>1
<1>3. m.size - SBE_HEADER_LEN - m.block_length - DimensionFields >= needed
  BY DEF Decodes, Body
<1> HIDE DEF needed
<1>4. SBE_HEADER_LEN + m.block_length + DimensionFields + needed <= m.size
  BY <1>1, <1>2, <1>3 DEF SBE_HEADER_LEN, DimensionFields
<1> QED BY <1>4 DEF needed

LEMMA NothingUnread == phase # "Entries" => Unread = 0
BY DEF Unread

LEMMA MessageUnderDecode ==
  ASSUME TypeOK, phase = "Entries"
  PROVE  msg[1] \in Message
<1>1. msg \in Seq(Message) /\ Len(msg) = 1
  BY DEF TypeOK
<1>2. 1 \in 1 .. Len(msg)
  BY <1>1
<1> HIDE DEF TypeOK
<1> QED BY <1>1, <1>2, ElementOfSeq

LEMMA WireInit == Init => WireInv
<1> SUFFICES ASSUME Init PROVE WireInv
  OBVIOUS
<1>1. TypeOK
  BY WireAssumption DEF Init, TypeOK, Within, PACKET_HEADER_LEN
<1>2. EntriesTakeBytes
  <2>1. Unread = 0 /\ Len(entries) = 0 /\ left = 0
    BY NothingUnread DEF Init
  <2> QED BY <2>1, WireAssumption DEF EntriesTakeBytes, EntryFields
<1> QED BY <1>1, <1>2 DEF WireInv, Init

LEMMA WireStep == WireInv /\ [Next]_vars => WireInv'
<1> SUFFICES ASSUME WireInv, [Next]_vars PROVE WireInv'
  OBVIOUS
<1> USE DEF WireInv
<1>0. MaxPacket \in Nat /\ MaxEntries \in Nat /\ Cuts \subseteq Nat
  BY WireAssumption
<1>1. ASSUME NEW m \in Message, Add(m)
      PROVE  WireInv'
  <2>1. m.size \in Nat
    BY DEF Message
  <2>2. TypeOK'
    BY <1>0, <1>1, <2>1 DEF Add, TypeOK, Within, PACKET_HEADER_LEN, MSG_SIZE_PREFIX_LEN
  <2>3. phase # "Entries" /\ phase' # "Entries" /\ UNCHANGED <<entries, left>>
    BY <1>1 DEF Add
  <2>4. Unread = 0 /\ Unread' = 0
    BY <2>3 DEF Unread
  <2>5. EntriesTakeBytes'
    BY <2>3, <2>4 DEF EntriesTakeBytes
  <2> QED BY <1>1, <2>2, <2>5 DEF Add
<1>2. ASSUME NEW n \in Nat, Receive(n)
      PROVE  WireInv'
  <2>1. len' \in 0 .. MaxPacket /\ len' = SlotLength(n)
    BY <1>0, <1>2 DEF Receive, SlotLength
  <2>2. TypeOK'
    BY <1>0, <1>2, <2>1 DEF Receive, TypeOK, Within, PACKET_HEADER_LEN
  <2>3. phase' # "Entries" /\ phase' # "Build" /\ entries' = <<>>
    BY <1>2 DEF Receive
  <2>4. left' <= MaxPacket
    BY <2>2 DEF TypeOK
  <2>5. Unread' = 0 /\ Len(entries') = 0 /\ left' \in Int
    BY <2>2, <2>3 DEF Unread, TypeOK
  <2>6. EntriesTakeBytes'
    BY <2>4, <2>5 DEF EntriesTakeBytes, EntryFields
  <2> QED BY <2>2, <2>3, <2>6
<1>3. ASSUME NextMessage
      PROVE  WireInv'
  <2> DEFINE m == Head(rest)
  <2>1. /\ phase = "Messages" /\ rest # <<>>
        /\ left >= MSG_SIZE_PREFIX_LEN + m.size
        /\ left' = left - MSG_SIZE_PREFIX_LEN - m.size
        /\ rest' = Tail(rest)
        /\ UNCHANGED <<packet, len, entries>>
    BY <1>3 DEF NextMessage, Framed
  <2>2. m \in Message /\ m.size \in Nat /\ rest' \in Seq(Message)
    <3>1. m \in Message /\ rest' \in Seq(Message)
      BY <2>1 DEF TypeOK
    <3> QED BY <3>1, MessageFields
  <2>3. /\ left \in Nat /\ Len(entries) \in Nat
        /\ EntryFields * Len(entries) + left <= MaxPacket
    BY <2>1 DEF TypeOK, EntriesTakeBytes, Unread, EntryFields
  <2>4. left' \in Nat /\ left' + m.size <= left
    BY <2>1, <2>2, <2>3 DEF MSG_SIZE_PREFIX_LEN
  <2>7. /\ PACKET_HEADER_LEN + MSG_SIZE_PREFIX_LEN + m.size + left' <= len'
        /\ PACKET_HEADER_LEN + left' <= len'
    <3>1. PACKET_HEADER_LEN + left <= len /\ len \in Nat
      BY <2>1 DEF TypeOK, Within
    <3>2. left' = left - MSG_SIZE_PREFIX_LEN - m.size /\ len' = len
      BY <2>1
    <3> QED
      BY <2>2, <2>3, <3>1, <3>2 DEF PACKET_HEADER_LEN, MSG_SIZE_PREFIX_LEN
  <2> HIDE DEF m
  <2>5. CASE Decodes(m)
    <3>1. phase' = "Entries" /\ msg' = <<m>> /\ done' = 0
      BY <1>3, <2>5 DEF NextMessage, m
    <3>6. SBE_HEADER_LEN + m.block_length + DimensionFields + m.stride * m.num_in_group
            <= m.size
      BY <2>2, <2>5, GroupFits
    <3>7. Within'
      <4>1. msg'[1] = m /\ 0 <= m.num_in_group
        BY <2>2, <3>1, MessageFields
      <4> QED BY <2>7, <3>1, <3>6, <4>1 DEF Within
    <3>2. TypeOK'
      BY <1>0, <2>1, <2>2, <2>3, <2>4, <3>1, <3>7 DEF TypeOK
    <3>3. Unread' <= m.size
      <4>1. CASE m.stride >= EntryFields
        <5>1. EntryFields * m.num_in_group <= m.size
          BY <2>2, <2>5, <4>1, EntriesFitTheirMessage
        <5> QED BY <2>2, <3>1, <5>1, MessageFields DEF Unread, EntryFields
      <4>2. CASE ~ (m.stride >= EntryFields)
        BY <2>2, <3>1, <4>2 DEF Unread, Readable
      <4> QED BY <4>1, <4>2
    <3>4. Unread' \in Int
      BY <2>2, <3>1, MessageFields DEF Unread, EntryFields
    <3>5. EntriesTakeBytes'
      <4> DEFINE size == m.size
                 read == EntryFields * Len(entries)
      <4>1. /\ read \in Nat /\ read + left <= MaxPacket
            /\ entries' = entries /\ Unread' <= size /\ left' + size <= left
            /\ size \in Nat /\ left' \in Nat /\ left \in Nat
        <5>1. read \in Nat
          BY <2>3 DEF EntryFields
        <5>2. read + left <= MaxPacket /\ left' + size <= left
          BY <2>3, <2>4
        <5> HIDE DEF read
        <5> QED BY <2>1, <2>2, <2>3, <2>4, <3>3, <5>1, <5>2, Zenon
      <4> HIDE DEF size, read
      <4>2. read + Unread' + left' <= MaxPacket
        <5> DEFINE unread == Unread'
                   after == left'
        <5>1. /\ unread \in Int /\ unread <= size /\ after \in Nat /\ after + size <= left
              /\ read + left <= MaxPacket /\ left \in Nat /\ size \in Nat /\ read \in Nat
          BY <3>4, <4>1
        <5> HIDE DEF unread, after
        <5>2. read + unread + after <= MaxPacket
          BY <1>0, <5>1
        <5> QED BY <5>2 DEF unread, after
      <4> QED BY <4>1, <4>2 DEF EntriesTakeBytes, read
    <3> QED BY <3>1, <3>2, <3>5
  <2>6. CASE ~ Decodes(m)
    <3>1. UNCHANGED <<phase, msg, done>>
      BY <1>3, <2>6 DEF NextMessage, m
    <3>4. Within'
      BY <2>1, <2>7, <3>1 DEF Within
    <3>2. TypeOK'
      BY <1>0, <2>1, <2>2, <2>3, <2>4, <3>1, <3>4 DEF TypeOK
    <3>3. EntriesTakeBytes'
      BY <1>0, <2>1, <2>2, <2>3, <2>4, <3>1 DEF EntriesTakeBytes, Unread, EntryFields
    <3> QED BY <2>1, <3>1, <3>2, <3>3
  <2> QED BY <2>5, <2>6
<1>4. CASE EndOfPacket
  BY <1>4 DEF EndOfPacket, TypeOK, Within, EntriesTakeBytes, Unread, Readable
<1>5. ASSUME NextEntry
      PROVE  WireInv'
  <2> DEFINE n == msg[1].num_in_group
             item == msg[1].items[done']
             decoded == Decoded(item)
  <2>1. /\ phase = "Entries" /\ Readable
        /\ done' = done + 1
        /\ \/ Len(entries) < MaxEntries /\ \E e \in decoded : entries' = Append(entries, e)
           \/ entries' = entries
        /\ UNCHANGED <<packet, len, phase, left, rest, msg>>
    BY <1>5 DEF NextEntry
  <2>2. /\ n \in 0 .. 255 /\ done \in Nat /\ done < n
        /\ left \in Nat /\ entries \in Seq(MdEntry) /\ Len(entries) \in Nat
    <3>1. n \in 0 .. 255
      BY <2>1, MessageUnderDecode, MessageFields
    <3>2. done \in Nat /\ left \in Nat /\ entries \in Seq(MdEntry)
      BY DEF TypeOK
    <3>3. done < n
      BY <2>1 DEF Readable
    <3> QED BY <3>1, <3>2, <3>3
  <2> HIDE DEF decoded
  <2>9. \A e \in decoded : e \in MdEntry
    <3>1. item \in MdEntryRaw
      <4>1. msg[1] \in Message
        BY <2>1, MessageUnderDecode
      <4>2. /\ msg[1].items \in Seq(MdEntryRaw)
            /\ n <= Len(msg[1].items)
        BY <4>1, MessageFields
      <4>3. done' \in 1 .. Len(msg[1].items)
        <5>1. Len(msg[1].items) \in Nat
          BY <4>2, LenProperties
        <5>2. done' = done + 1
          BY <2>1
        <5> HIDE DEF item, n
        <5> QED BY <2>2, <4>2, <5>1, <5>2
      <4> QED BY <4>2, <4>3, ElementOfSeq
    <3> QED BY <3>1, DecodedEntry DEF decoded
  <2> HIDE DEF item
  <2>3. /\ entries' \in Seq(MdEntry) /\ Len(entries') <= Len(entries) + 1
        /\ Len(entries') \in Nat
        /\ Len(entries) <= MaxEntries => Len(entries') <= MaxEntries
    <3>1. CASE Len(entries) < MaxEntries /\ \E e \in decoded : entries' = Append(entries, e)
      <4>1. PICK e \in decoded : entries' = Append(entries, e)
        BY <3>1
      <4>2. e \in MdEntry
        BY <2>9
      <4>3. entries' \in Seq(MdEntry) /\ Len(entries') = Len(entries) + 1
        BY <2>2, <4>1, <4>2
      <4> QED BY <1>0, <2>2, <3>1, <4>3
    <3>2. CASE entries' = entries
      BY <1>0, <2>2, <3>2
    <3> QED BY <2>1, <3>1, <3>2
  <2>4. TypeOK'
    <3> HIDE DEF n
    <3>1. done' \in 0 .. 255
      BY <2>1, <2>2
    <3>2. done' <= n
      <4> HIDE DEF n
      <4> QED BY <2>1, <2>2
    <3>3. Within'
      <4>1. Within /\ phase = "Entries" /\ UNCHANGED <<len, phase, left, msg>>
        BY <2>1 DEF TypeOK
      <4> QED BY <3>2, <4>1 DEF Within, n
    <3> QED BY <2>1, <2>3, <3>1, <3>3 DEF TypeOK
  <2>5. EntryFields * Len(entries) + EntryFields * (n - done) + left <= MaxPacket
    BY <2>1 DEF EntriesTakeBytes, Unread
  <2>6. Unread' \in Int /\ Unread' <= EntryFields * (n - done')
    <3>1. msg'[1].num_in_group = n
      BY <2>1
    <3>2. Unread' \in {EntryFields * (n - done'), 0}
      BY <3>1 DEF Unread
    <3> HIDE DEF n
    <3>3. n - done' \in Nat
      BY <2>1, <2>2
    <3> QED BY <3>2, <3>3 DEF EntryFields
  <2> HIDE DEF n
  <2>7. EntriesTakeBytes'
    BY <1>0, <2>1, <2>2, <2>3, <2>5, <2>6 DEF EntriesTakeBytes, EntryFields
  <2> QED BY <2>1, <2>4, <2>7
<1>6. CASE EndOfMessage
  <2>1. /\ phase = "Entries" /\ phase' = "Messages"
        /\ UNCHANGED <<packet, len, left, rest, msg, done, entries>>
    BY <1>6 DEF EndOfMessage
  <2>2. PACKET_HEADER_LEN + left <= len
    <3>1. msg[1].size \in Nat
      BY <2>1, MessageUnderDecode, MessageFields
    <3>2. /\ PACKET_HEADER_LEN + MSG_SIZE_PREFIX_LEN + msg[1].size + left <= len
          /\ left \in Nat /\ len \in Nat
      BY <2>1 DEF TypeOK, Within
    <3> QED BY <3>1, <3>2 DEF PACKET_HEADER_LEN, MSG_SIZE_PREFIX_LEN
  <2>3. TypeOK'
    BY <2>1, <2>2 DEF TypeOK, Within
  <2>4. EntriesTakeBytes'
    BY <1>6, <2>1 DEF EndOfMessage, EntriesTakeBytes, Unread
  <2> QED BY <2>1, <2>3, <2>4
<1>7. CASE UNCHANGED vars
  BY <1>7 DEF vars, TypeOK, Within, EntriesTakeBytes, Unread, Readable
<1>8. CASE Next
  <2>1. ASSUME NEW list \in Lists, Add(Refresh(list))
        PROVE  WireInv'
    BY <1>1, <2>1, RefreshIsAMessage
  <2>2. ASSUME NEW m \in Foreign, Add(m)
        PROVE  WireInv'
    BY <1>1, <2>2, WireAssumption
  <2>3. ASSUME NEW n \in Cuts \cup {len}, Receive(n)
        PROVE  WireInv'
    <3>1. n \in Nat
      BY <1>0 DEF TypeOK
    <3> QED BY <1>2, <2>3, <3>1
  <2> QED BY <1>3, <1>4, <1>5, <1>6, <1>8, <2>1, <2>2, <2>3 DEF Next
<1> QED BY <1>7, <1>8

(* The decoder's types: what it reads lies in the slot, the group it walks *)
(* in its message, the entries it has read in the group; and it collects   *)
(* known entries only.                                                     *)
THEOREM WireTypeCorrect == Spec => []TypeOK
<1>1. WireInv => TypeOK
  BY DEF WireInv
<1> QED BY <1>1, WireInit, WireStep, PTL DEF Spec

LEMMA RoomForEntries == WireInv => CapNeverReached
<1> SUFFICES ASSUME WireInv PROVE CapNeverReached
  OBVIOUS
<1>1. /\ Len(entries) \in Nat /\ left \in Nat /\ MaxPacket \in Nat /\ MaxEntries \in Nat
  BY WireAssumption DEF WireInv, TypeOK
<1>2. Unread \in Nat
  <2>1. CASE phase = "Entries" /\ Readable
    <3>1. msg[1] \in Message /\ done \in Nat
      BY <2>1, MessageUnderDecode DEF WireInv, TypeOK
    <3>2. msg[1].num_in_group - done \in Nat
      BY <2>1, <3>1, MessageFields DEF Readable
    <3> QED BY <2>1, <3>2 DEF Unread, EntryFields
  <2> QED BY <2>1 DEF Unread
<1>3. EntryFields * Len(entries) <= MaxPacket
  BY <1>1, <1>2 DEF WireInv, EntriesTakeBytes, EntryFields
<1> QED BY <1>1, <1>3, LimitsAssumption DEF CapNeverReached, EntryFields

(* The array of process never fills: a slot is too small for so many       *)
(* entries, whatever strides and counts its messages claim, so that        *)
(* try_push never drops one.                                               *)
THEOREM EntriesAreNotDropped == Spec => []CapNeverReached
BY RoomForEntries, WireInit, WireStep, PTL DEF Spec

-----------------------------------------------------------------------------
(* What is decoded *)

(* Induction, for a property that is a set of numbers: the provers cannot  *)
(* instantiate the library's, which take it as an operator.                *)
LEMMA LeastOfNats ==
  ASSUME NEW S \in SUBSET Nat, S # {}
  PROVE  \E x \in S : \A y \in S : x <= y
<1>1. PICK x \in S : \A y \in S : ~ (<<y, x>> \in OpToRel(<, Nat))
  BY NatLessThanWellFounded, WFMin
<1>2. ASSUME NEW y \in S, y < x PROVE FALSE
  BY <1>1, <1>2 DEF OpToRel
<1>3. \A y \in S : x <= y
  BY <1>2
<1> QED BY <1>3

LEMMA SetInduction ==
  ASSUME NEW T \in SUBSET Nat, 0 \in T, \A n \in T : n + 1 \in T
  PROVE  T = Nat
<1> SUFFICES ASSUME Nat \ T # {} PROVE FALSE
  OBVIOUS
<1>1. PICK m \in Nat \ T : \A y \in Nat \ T : m <= y
  BY LeastOfNats
<1>2. m # 0 /\ m - 1 \in Nat
  BY <1>1
<1>3. m - 1 \in T
  BY <1>1, <1>2
<1> QED BY <1>1, <1>2, <1>3

(* A function may be defined step by step.                                 *)
Keeps(F, n, V) == \A k \in 1 .. n, v \in V : F[k][v] \in V
Steps(g, n, base, F) == g[0] = base /\ \A k \in 1 .. n : g[k] = F[k][g[k - 1]]

LEMMA StepByStep ==
  ASSUME NEW n \in Nat, NEW V, NEW base \in V, NEW F, Keeps(F, n, V)
  PROVE  \E g \in [0 .. n -> V] : Steps(g, n, base, F)
<1> USE DEF Keeps, Steps
<1> DEFINE Solves(g, m) == Steps(g, m, base, F)
           T == {m \in Nat : m <= n => \E g \in [0 .. n -> V] : Solves(g, m)}
<1>1. 0 \in T
  <2>1. [k \in 0 .. n |-> base] \in [0 .. n -> V] /\ Solves([k \in 0 .. n |-> base], 0)
    OBVIOUS
  <2> QED BY <2>1
<1>2. ASSUME NEW m \in T PROVE m + 1 \in T
  <2> SUFFICES ASSUME m + 1 <= n PROVE \E g \in [0 .. n -> V] : Solves(g, m + 1)
    OBVIOUS
  <2>1. m \in Nat /\ m + 1 \in 1 .. n /\ m \in 0 .. n /\ m <= n
    OBVIOUS
  <2>2. PICK g \in [0 .. n -> V] : Solves(g, m)
    BY <2>1
  <2> DEFINE v == F[m + 1][g[m]]
             h == [k \in 0 .. n |-> IF k = m + 1 THEN v ELSE g[k]]
  <2>3. v \in V
    BY <2>1
  <2> HIDE DEF v
  <2>4. h \in [0 .. n -> V]
    BY <2>3
  <2>5. h[0] = base
    BY <2>1, <2>2
  <2>6. ASSUME NEW k \in 1 .. m + 1 PROVE h[k] = F[k][h[k - 1]]
    <3>1. k \in 0 .. n /\ k - 1 \in 0 .. n /\ k - 1 # m + 1
      BY <2>1
    <3>2. CASE k = m + 1
      <4>1. h[k] = v /\ h[k - 1] = g[m]
        BY <2>1, <3>1, <3>2
      <4> QED BY <3>2, <4>1 DEF v
    <3>3. CASE k # m + 1
      <4>1. k \in 1 .. m
        BY <2>1, <3>3
      <4>2. h[k] = g[k] /\ h[k - 1] = g[k - 1]
        BY <3>1, <3>3
      <4> QED BY <2>2, <4>1, <4>2
    <3> QED BY <3>2, <3>3
  <2>7. Solves(h, m + 1)
    BY <2>5, <2>6
  <2> QED BY <2>4, <2>7
<1>3. n \in T
  <2>1. T \in SUBSET Nat
    OBVIOUS
  <2> HIDE DEF T
  <2> QED BY <1>1, <1>2, <2>1, SetInduction
<1> QED BY <1>3

(* Where the messages of a payload end.                                    *)
Ending(g, p) ==
    g = [k \in 0 .. Len(p) |->
            IF k = 0 THEN PACKET_HEADER_LEN ELSE g[k - 1] + MSG_SIZE_PREFIX_LEN + p[k].size]
Ends(p) == CHOOSE g : Ending(g, p)

LEMMA EndsUnfold ==
  ASSUME NEW p \in Seq(Message)
  PROVE  /\ \A k \in 0 .. Len(p) : Ends(p)[k] \in Nat
         /\ Ends(p)[0] = PACKET_HEADER_LEN
         /\ \A k \in 1 .. Len(p) :
               Ends(p)[k] = Ends(p)[k - 1] + MSG_SIZE_PREFIX_LEN + p[k].size
<1> DEFINE n == Len(p)
           F == [k \in 1 .. n |-> [v \in Nat |-> v + MSG_SIZE_PREFIX_LEN + p[k].size]]
<1>1. n \in Nat /\ \A k \in 1 .. n : p[k].size \in Nat
  <2>1. \A k \in 1 .. n : p[k] \in Message
    BY ElementOfSeq
  <2> QED BY <2>1, MessageFields
<1>2. Keeps(F, n, Nat)
  BY <1>1 DEF Keeps, MSG_SIZE_PREFIX_LEN
<1>3. PACKET_HEADER_LEN \in Nat
  BY DEF PACKET_HEADER_LEN
<1> HIDE DEF n
<1>4. PICK g \in [0 .. n -> Nat] : Steps(g, n, PACKET_HEADER_LEN, F)
  <2> HIDE DEF F
  <2> QED BY <1>1, <1>2, <1>3, StepByStep, Zenon
<1>5. ASSUME NEW k \in 1 .. n PROVE g[k] = g[k - 1] + MSG_SIZE_PREFIX_LEN + p[k].size
  <2>1. k - 1 \in 0 .. n
    BY <1>1
  <2>2. g[k - 1] \in Nat
    BY <2>1
  <2> QED BY <1>4, <2>2 DEF Steps
<1>6. Ending(g, p)
  <2>1. \A k \in 0 .. n :
           g[k] = IF k = 0 THEN PACKET_HEADER_LEN ELSE g[k - 1] + MSG_SIZE_PREFIX_LEN + p[k].size
    BY <1>1, <1>4, <1>5 DEF Steps
  <2> QED BY <2>1 DEF Ending, n
<1>7. Ending(Ends(p), p)
  BY <1>6 DEF Ends
<1> DEFINE e == Ends(p)
<1> HIDE DEF e
<1>8. e = [k \in 0 .. n |->
            IF k = 0 THEN PACKET_HEADER_LEN ELSE e[k - 1] + MSG_SIZE_PREFIX_LEN + p[k].size]
  BY <1>7 DEF Ending, e, n
<1>9. /\ e[0] = PACKET_HEADER_LEN
      /\ \A k \in 1 .. n : e[k] = e[k - 1] + MSG_SIZE_PREFIX_LEN + p[k].size
  BY <1>1, <1>8
<1>10. \A k \in 0 .. n : e[k] \in Nat
  <2> DEFINE T == {k \in Nat : k <= n => e[k] \in Nat}
  <2>1. 0 \in T
    BY <1>3, <1>9
  <2>2. ASSUME NEW k \in T PROVE k + 1 \in T
    <3> SUFFICES ASSUME k + 1 <= n PROVE e[k + 1] \in Nat
      OBVIOUS
    <3>1. k \in Nat /\ k + 1 \in 1 .. n /\ (k + 1) - 1 = k /\ e[k] \in Nat
      BY <1>1
    <3>2. e[k + 1] = e[k] + MSG_SIZE_PREFIX_LEN + p[k + 1].size
      BY <1>9, <3>1
    <3>3. p[k + 1].size \in Nat
      BY <1>1, <3>1
    <3> QED BY <3>1, <3>2, <3>3 DEF MSG_SIZE_PREFIX_LEN
  <2>3. T \in SUBSET Nat
    OBVIOUS
  <2> HIDE DEF T
  <2>4. T = Nat
    BY <2>1, <2>2, <2>3, SetInduction
  <2> QED BY <1>1, <2>4 DEF T
<1> QED BY <1>9, <1>10 DEF e, n

(* The first k of a sequence of sequences, one after the other.            *)
Flattening(g, s) ==
    g = [i \in 1 .. Len(s) |-> IF i = 1 THEN s[i] ELSE g[i - 1] \o s[i]]
Flat(s, k) == IF k = 0 THEN <<>> ELSE (CHOOSE g : Flattening(g, s))[k]

LEMMA FlatUnfolds ==
  ASSUME NEW X, NEW s \in Seq(Seq(X))
  PROVE  /\ Flat(s, 0) = <<>>
         /\ \A k \in 1 .. Len(s) : Flat(s, k) = Flat(s, k - 1) \o s[k]
         /\ \A k \in 0 .. Len(s) : Flat(s, k) \in Seq(X)
         /\ FlattenSeq(s) = Flat(s, Len(s))
<1> DEFINE n == Len(s)
           F == [k \in 1 .. n |-> [v \in Seq(X) |-> v \o s[k]]]
<1>1. n \in Nat /\ \A k \in 1 .. n : s[k] \in Seq(X)
  BY ElementOfSeq
<1>2. Keeps(F, n, Seq(X))
  BY <1>1, ConcatProperties DEF Keeps
<1> HIDE DEF n
<1>3. PICK g \in [0 .. n -> Seq(X)] : Steps(g, n, <<>>, F)
  <2>1. <<>> \in Seq(X)
    BY EmptySeq
  <2> HIDE DEF F
  <2> QED BY <1>1, <1>2, <2>1, StepByStep, Zenon
<1>4. ASSUME NEW k \in 1 .. n PROVE g[k] = g[k - 1] \o s[k]
  <2>1. k - 1 \in 0 .. n
    BY <1>1
  <2>2. g[k - 1] \in Seq(X)
    BY <2>1
  <2> QED BY <1>3, <2>2 DEF Steps
<1> DEFINE h == [k \in 1 .. n |-> g[k]]
<1>5. Flattening(h, s)
  <2>1. ASSUME NEW k \in 1 .. n PROVE h[k] = IF k = 1 THEN s[k] ELSE h[k - 1] \o s[k]
    <3>1. CASE k = 1
      <4>1. g[1] = <<>> \o s[1]
        <5>1. g[k] = g[k - 1] \o s[k]
          BY <1>4
        <5>2. k - 1 = 0
          BY <3>1
        <5> QED BY <1>3, <3>1, <5>1, <5>2 DEF Steps
      <4> QED BY <1>1, <3>1, <4>1, ConcatEmptySeq
    <3>2. CASE k # 1
      <4>1. k - 1 \in 1 .. n
        BY <1>1, <3>2
      <4> QED BY <1>4, <3>2, <4>1
    <3> QED BY <3>1, <3>2
  <2>2. h = [k \in 1 .. n |-> IF k = 1 THEN s[k] ELSE h[k - 1] \o s[k]]
    <3>1. h = [k \in 1 .. n |-> h[k]]
      OBVIOUS
    <3> HIDE DEF h
    <3> QED BY <2>1, <3>1
  <2> HIDE DEF h
  <2> QED BY <2>2 DEF Flattening, n
<1> HIDE DEF h
<1>6. PICK f : f = (CHOOSE u : Flattening(u, s)) /\ Flattening(f, s)
  BY <1>5
<1>7. \A k \in 1 .. n : f[k] = IF k = 1 THEN s[k] ELSE f[k - 1] \o s[k]
  BY <1>6 DEF Flattening, n
<1>8. Flat(s, 0) = <<>> /\ \A k \in 1 .. n : Flat(s, k) = f[k]
  BY <1>1, <1>6 DEF Flat
<1>9. ASSUME NEW k \in 1 .. n PROVE Flat(s, k) = Flat(s, k - 1) \o s[k]
  <2>1. CASE k = 1
    <3>1. k - 1 = 0 /\ Flat(s, k) = s[k] /\ s[k] \in Seq(X)
      BY <1>1, <1>7, <1>8, <2>1
    <3> QED BY <1>8, <3>1, ConcatEmptySeq
  <2>2. CASE k # 1
    <3>1. k - 1 \in 1 .. n
      BY <1>1, <2>2
    <3> QED BY <1>7, <1>8, <2>2, <3>1
  <2> QED BY <2>1, <2>2
<1>10. \A k \in 0 .. n : Flat(s, k) \in Seq(X)
  <2> DEFINE T == {k \in Nat : k <= n => Flat(s, k) \in Seq(X)}
  <2>1. 0 \in T
    BY <1>8, EmptySeq
  <2>2. ASSUME NEW k \in T PROVE k + 1 \in T
    <3> SUFFICES ASSUME k + 1 <= n PROVE Flat(s, k + 1) \in Seq(X)
      OBVIOUS
    <3>1. k \in Nat /\ k + 1 \in 1 .. n /\ (k + 1) - 1 = k /\ Flat(s, k) \in Seq(X)
      BY <1>1
    <3>2. Flat(s, k + 1) = Flat(s, k) \o s[k + 1]
      BY <1>9, <3>1
    <3>3. s[k + 1] \in Seq(X)
      BY <1>1, <3>1
    <3> QED BY <3>1, <3>2, <3>3, ConcatProperties
  <2>3. T \in SUBSET Nat
    OBVIOUS
  <2> HIDE DEF T
  <2>4. T = Nat
    BY <2>1, <2>2, <2>3, SetInduction
  <2>5. ASSUME NEW k \in 0 .. n PROVE Flat(s, k) \in Seq(X)
    <3>1. k \in Nat /\ k <= n
      BY <1>1
    <3>2. k \in T
      BY <2>4, <3>1
    <3> QED BY <3>1, <3>2 DEF T
  <2> QED BY <2>5
<1>11. FlattenSeq(s) = Flat(s, n)
  <2>1. CASE n = 0
    <3>1. s = <<>>
      BY <2>1, EmptySeq DEF n
    <3>2. FlattenSeq(s) = s
      BY <2>1 DEF FlattenSeq, n
    <3> QED BY <1>8, <2>1, <3>1, <3>2
  <2>2. CASE n # 0
    <3>1. FlattenSeq(s) = (CHOOSE u : Flattening(u, s))[n]
      BY <2>2 DEF FlattenSeq, Flattening, n
    <3>2. Flat(s, n) = (CHOOSE u : Flattening(u, s))[n]
      BY <2>2 DEF Flat
    <3> QED BY <3>1, <3>2
  <2> QED BY <2>1, <2>2
<1> QED BY <1>8, <1>9, <1>10, <1>11 DEF n

(* Where nothing follows, the whole is what came before.                   *)
LEMMA FlatEndsEarly ==
  ASSUME NEW X, NEW s \in Seq(Seq(X)), NEW k \in 0 .. Len(s),
         \A j \in k + 1 .. Len(s) : s[j] = <<>>
  PROVE  FlattenSeq(s) = Flat(s, k)
<1> DEFINE n == Len(s)
           T == {d \in Nat : k + d <= n => Flat(s, k + d) = Flat(s, k)}
<1>0. n \in Nat
  OBVIOUS
<1>1. 0 \in T
  OBVIOUS
<1>2. ASSUME NEW d \in T PROVE d + 1 \in T
  <2> SUFFICES ASSUME k + (d + 1) <= n PROVE Flat(s, k + (d + 1)) = Flat(s, k)
    OBVIOUS
  <2>1. /\ d \in Nat /\ k + d \in 0 .. n /\ k + d + 1 \in k + 1 .. n /\ k + d + 1 \in 1 .. n
        /\ (k + d + 1) - 1 = k + d /\ k + (d + 1) = k + d + 1
    BY <1>0
  <2> HIDE DEF n
  <2>2. Flat(s, k + d) = Flat(s, k)
    BY <2>1
  <2>3. Flat(s, k + d + 1) = Flat(s, k + d) \o s[k + d + 1] /\ s[k + d + 1] = <<>>
    BY <2>1, FlatUnfolds DEF n
  <2>4. Flat(s, k + d) \in Seq(X)
    BY <2>1, FlatUnfolds DEF n
  <2> QED BY <2>1, <2>2, <2>3, <2>4, ConcatEmptySeq
<1>3. n - k \in T
  <2>1. T \in SUBSET Nat /\ n - k \in Nat
    BY <1>0
  <2> HIDE DEF T
  <2> QED BY <1>1, <1>2, <2>1, SetInduction
<1>4. k + (n - k) = n /\ n <= n
  BY <1>0
<1>5. Flat(s, n) = Flat(s, k)
  <2> HIDE DEF n
  <2> QED BY <1>3, <1>4
<1> QED BY <1>5, FlatUnfolds

-----------------------------------------------------------------------------
(* What a message says, and what the decoder makes of it *)

LEMMA OneInSequence ==
  ASSUME NEW e
  PROVE  SetToSeq({e}) = <<e>>
<1>1. Cardinality({e}) = 1
  BY FS_Singleton
<1>2. <<e>> \in [1 .. 1 -> {e}] /\ IsInjective(<<e>>)
  <2>1. <<e>> = [k \in 1 .. 1 |-> e]
    OBVIOUS
  <2> QED BY <2>1 DEF IsInjective
<1>3. \A f \in [1 .. 1 -> {e}] : f = <<e>>
  OBVIOUS
<1>4. SetToSeq({e}) = CHOOSE f \in [1 .. 1 -> {e}] : IsInjective(f)
  BY <1>1 DEF SetToSeq
<1> HIDE DEF IsInjective
<1> QED BY <1>2, <1>3, <1>4

LEMMA NoneInSequence == SetToSeq({}) = <<>>
<1>1. Cardinality({}) = 0
  BY FS_EmptySet
<1>2. <<>> \in [1 .. 0 -> {}] /\ IsInjective(<<>>)
  BY DEF IsInjective
<1>3. \A f \in [1 .. 0 -> {}] : f = <<>>
  OBVIOUS
<1>4. SetToSeq({}) = CHOOSE f \in [1 .. 0 -> {}] : IsInjective(f)
  BY <1>1 DEF SetToSeq
<1> HIDE DEF IsInjective
<1> QED BY <1>2, <1>3, <1>4

(* The codes are read back as what they were written for, and no other     *)
(* code is.                                                                *)
LEMMA ActionsRoundTrip ==
  ASSUME NEW b, NEW action
  PROVE  action \in FromU8(b) <=>
            action \in DOMAIN UpdateActionByte /\ UpdateActionByte[action] = b
BY DEF FromU8, UpdateActionByte

LEMMA TypesRoundTrip ==
  ASSUME NEW b, NEW type
  PROVE  type \in FromByte(b) <=> type \in DOMAIN AsByte /\ AsByte[type] = b
BY DEF FromByte, AsByte

LEMMA CodesDiffer ==
  /\ \A a, c \in DOMAIN UpdateActionByte : UpdateActionByte[a] = UpdateActionByte[c] => a = c
  /\ \A a, c \in DOMAIN AsByte : AsByte[a] = AsByte[c] => a = c
BY DEF UpdateActionByte, AsByte

Saying(raw) == SetToSeq({e \in MdEntry : EncodeEntry(e) = raw})

LEMMA DecodedIsWhatWasWritten ==
  ASSUME NEW raw \in MdEntryRaw
  PROVE  Decoded(raw) = {e \in MdEntry : EncodeEntry(e) = raw}
<1>1. ASSUME NEW e \in Decoded(raw) PROVE e \in MdEntry /\ EncodeEntry(e) = raw
  <2>1. PICK action \in FromU8(raw.md_update_action), type \in FromByte(raw.md_entry_type) :
          e = [update_action |-> action, entry_type |-> type, fields |-> raw.fields]
    BY DEF Decoded
  <2>2. UpdateActionByte[action] = raw.md_update_action /\ AsByte[type] = raw.md_entry_type
    BY ActionsRoundTrip, TypesRoundTrip
  <2>3. raw = [md_update_action |-> raw.md_update_action,
               md_entry_type |-> raw.md_entry_type, fields |-> raw.fields]
    BY DEF MdEntryRaw
  <2> QED BY <2>1, <2>2, <2>3, DecodedEntry DEF EncodeEntry
<1>2. ASSUME NEW e \in MdEntry, EncodeEntry(e) = raw PROVE e \in Decoded(raw)
  <2>1. /\ raw.md_update_action = UpdateActionByte[e.update_action]
        /\ raw.md_entry_type = AsByte[e.entry_type]
        /\ raw.fields = e.fields
    BY <1>2 DEF EncodeEntry
  <2>2. /\ e.update_action \in DOMAIN UpdateActionByte /\ e.entry_type \in DOMAIN AsByte
        /\ e = [update_action |-> e.update_action, entry_type |-> e.entry_type,
                fields |-> e.fields]
    BY DEF MdEntry
  <2>3. e.update_action \in FromU8(raw.md_update_action)
    BY <2>1, <2>2, ActionsRoundTrip
  <2>4. e.entry_type \in FromByte(raw.md_entry_type)
    BY <2>1, <2>2, TypesRoundTrip
  <2> QED BY <2>1, <2>2, <2>3, <2>4 DEF Decoded
<1> QED BY <1>1, <1>2, DecodedEntry

LEMMA DecodedSays ==
  ASSUME NEW raw \in MdEntryRaw
  PROVE  /\ Decoded(raw) = {} => Saying(raw) = <<>>
         /\ \A e \in Decoded(raw) : Saying(raw) = <<e>>
         /\ Saying(raw) \in Seq(MdEntry)
<1>1. Saying(raw) = SetToSeq(Decoded(raw))
  BY DecodedIsWhatWasWritten DEF Saying
<1>2. ASSUME NEW e \in Decoded(raw), NEW f \in Decoded(raw) PROVE e = f
  <2>1. /\ e \in MdEntry /\ f \in MdEntry
        /\ EncodeEntry(e) = EncodeEntry(f)
    BY DecodedIsWhatWasWritten
  <2>2. /\ UpdateActionByte[e.update_action] = UpdateActionByte[f.update_action]
        /\ AsByte[e.entry_type] = AsByte[f.entry_type]
        /\ e.fields = f.fields
    BY <2>1 DEF EncodeEntry
  <2>3. e.update_action = f.update_action /\ e.entry_type = f.entry_type
    BY <2>1, <2>2, CodesDiffer DEF MdEntry
  <2> QED BY <2>1, <2>2, <2>3 DEF MdEntry
<1>3. \A e \in Decoded(raw) : Decoded(raw) = {e}
  BY <1>2
<1>4. Decoded(raw) = {} => Saying(raw) = <<>>
  BY <1>1, NoneInSequence
<1>5. \A e \in Decoded(raw) : Saying(raw) = <<e>> /\ e \in MdEntry
  BY <1>1, <1>3, OneInSequence, DecodedEntry
<1>6. Saying(raw) \in Seq(MdEntry)
  <2>1. CASE Decoded(raw) = {}
    BY <1>4, <2>1, EmptySeq
  <2>2. CASE Decoded(raw) # {}
    <3>1. PICK e : e \in Decoded(raw)
      BY <2>2
    <3>2. Saying(raw) = <<e>> /\ e \in MdEntry
      BY <1>5, <3>1
    <3> QED BY <3>2
  <2> QED BY <2>1, <2>2
<1> QED BY <1>4, <1>5, <1>6

Says(m) == [k \in 1 .. Len(m.items) |-> Saying(m.items[k])]
Fits(m) ==
    /\ m.template_id \in {32, 46}
    /\ m.stride >= EntryFields
    /\ SBE_HEADER_LEN + RootFields <= m.size
    /\ SBE_HEADER_LEN + m.block_length + DimensionFields + Len(m.items) * m.stride <= m.size

LEMMA SaysType ==
  ASSUME NEW m \in Message
  PROVE  /\ Says(m) \in Seq(Seq(MdEntry)) /\ Len(Says(m)) = Len(m.items)
         /\ \A k \in 1 .. Len(m.items) : Says(m)[k] = Saying(m.items[k])
<1>1. m.items \in Seq(MdEntryRaw) /\ Len(m.items) \in Nat
  BY MessageFields, LenProperties
<1>2. \A k \in 1 .. Len(m.items) : Saying(m.items[k]) \in Seq(MdEntry)
  BY <1>1, DecodedSays, ElementOfSeq
<1> QED BY <1>1, <1>2 DEF Says

LEMMA MeaningOf ==
  ASSUME NEW m \in Message
  PROVE  /\ Meaning(m) = IF Fits(m) THEN FlattenSeq(Says(m)) ELSE <<>>
         /\ Meaning(m) \in Seq(MdEntry)
<1>1. Meaning(m) = IF Fits(m) THEN FlattenSeq(Says(m)) ELSE <<>>
  BY Zenon DEF Meaning, Fits, Says, Saying
<1>2. FlattenSeq(Says(m)) \in Seq(MdEntry)
  <2>1. Len(Says(m)) \in 0 .. Len(Says(m))
    BY SaysType, LenProperties
  <2> QED BY <2>1, SaysType, FlatUnfolds
<1> QED BY <1>1, <1>2, EmptySeq

(* The counts of a message that a slot can hold are those of its items.    *)
Counted(m) == m.size <= MaxPacket => Len(m.items) = m.num_in_group

LEMMA FitsIsDecodes ==
  ASSUME NEW m \in Message, Len(m.items) = m.num_in_group
  PROVE  Fits(m) <=> Decodes(m) /\ m.stride >= EntryFields
<1> DEFINE needed == m.stride * m.num_in_group
<1>1. /\ m.size \in Nat /\ m.block_length \in Nat /\ m.stride \in Nat /\ m.num_in_group \in Nat
  BY MessageFields
<1>2. needed \in Nat /\ Len(m.items) * m.stride = needed
  BY <1>1
<1> HIDE DEF needed
<1>3. Fits(m) <=> /\ m.template_id \in {32, 46}
                  /\ m.stride >= 27 /\ 17 <= m.size
                  /\ 8 + m.block_length + 3 + needed <= m.size
  BY <1>2 DEF Fits, EntryFields, SBE_HEADER_LEN, RootFields, DimensionFields
<1>4. Decodes(m) <=> /\ m.template_id \in {32, 46}
                     /\ m.size - 8 >= m.block_length /\ m.size - 8 >= 9
                     /\ m.size - 8 - m.block_length >= 3
                     /\ m.stride # 0
                     /\ m.size - 8 - m.block_length - 3 >= needed
  BY <1>1 DEF Decodes, Body, SBE_HEADER_LEN, RootFields, DimensionFields, needed,
              TEMPLATE_INCREMENTAL_BOOK_46, TEMPLATE_INCREMENTAL_BOOK_32
<1>5. /\ m.template_id \in {32, 46} /\ m.stride >= 27 /\ 17 <= m.size
         /\ 8 + m.block_length + 3 + needed <= m.size
      <=> /\ m.template_id \in {32, 46}
          /\ m.size - 8 >= m.block_length /\ m.size - 8 >= 9
          /\ m.size - 8 - m.block_length >= 3
          /\ m.stride # 0
          /\ m.size - 8 - m.block_length - 3 >= needed
          /\ m.stride >= 27
  <2> DEFINE size == m.size
             root == m.block_length
             stride == m.stride
  <2>1. size \in Nat /\ root \in Nat /\ stride \in Nat /\ needed \in Nat
    BY <1>1, <1>2
  <2> HIDE DEF size, root, stride
  <2>2. stride >= 27 /\ 17 <= size /\ 8 + root + 3 + needed <= size
        <=> /\ size - 8 >= root /\ size - 8 >= 9 /\ size - 8 - root >= 3 /\ stride # 0
            /\ size - 8 - root - 3 >= needed /\ stride >= 27
    BY <2>1
  <2> QED BY <2>2 DEF size, root, stride
<1> QED BY <1>3, <1>4, <1>5 DEF EntryFields

LEMMA RefreshIsCounted ==
  ASSUME NEW list \in Lists
  PROVE  Counted(Refresh(list))
<1>1. /\ list \in Seq(MdEntry) /\ Len(list) \in Nat /\ MaxPacket \in Nat
      /\ 22 + Len(list) * 32 < 65536
  BY WireAssumption, LenProperties
<1>2. Refresh(list).size = 22 + Len(list) * 32
  BY <1>1 DEF Refresh, SBE_HEADER_LEN, INCREMENTAL_ROOT_BLOCK_LEN, DimensionFields,
              MD_ENTRY_BLOCK_LEN
<1>3. Refresh(list).num_in_group = Len(list) % 256 /\ Len(Refresh(list).items) = Len(list)
  BY <1>1 DEF Refresh
<1>4. 32 * 256 > MaxPacket
  BY LimitsAssumption DEF MD_ENTRY_BLOCK_LEN
<1>5. ASSUME Refresh(list).size <= MaxPacket PROVE Len(list) % 256 = Len(list)
  <2>1. Len(list) < 256
    BY <1>1, <1>2, <1>4, <1>5
  <2> QED BY <1>1, <2>1
<1> QED BY <1>3, <1>5 DEF Counted

-----------------------------------------------------------------------------
(* The messages of a payload p of which n bytes are read: whether the      *)
(* first k of them arrive, and what those that do have to say.             *)
Reach(p, n, k) == \A j \in 1 .. k : p[j].size >= SBE_HEADER_LEN /\ Ends(p)[j] <= n
Whole(p, n) == [k \in 1 .. Len(p) |-> IF Reach(p, n, k) THEN Meaning(p[k]) ELSE <<>>]

LEMMA WholeType ==
  ASSUME NEW p \in Seq(Message), NEW n \in Nat
  PROVE  /\ Whole(p, n) \in Seq(Seq(MdEntry)) /\ Len(Whole(p, n)) = Len(p)
         /\ \A k \in 1 .. Len(p) :
               Whole(p, n)[k] = IF Reach(p, n, k) THEN Meaning(p[k]) ELSE <<>>
<1>1. Len(p) \in Nat
  BY LenProperties
<1>2. \A k \in 1 .. Len(p) : (IF Reach(p, n, k) THEN Meaning(p[k]) ELSE <<>>) \in Seq(MdEntry)
  BY MeaningOf, ElementOfSeq, EmptySeq
<1> QED BY <1>1, <1>2 DEF Whole

(* The next message arrives if the bytes that are left hold it.            *)
LEMMA NextReach ==
  ASSUME NEW p \in Seq(Message), NEW n \in Nat, NEW k \in 0 .. Len(p) - 1, Reach(p, n, k)
  PROVE  /\ k + 1 \in 1 .. Len(p) /\ p[k + 1] \in Message
         /\ n - Ends(p)[k] - MSG_SIZE_PREFIX_LEN - p[k + 1].size = n - Ends(p)[k + 1]
         /\ Reach(p, n, k + 1) <=>
               /\ p[k + 1].size >= SBE_HEADER_LEN
               /\ n - Ends(p)[k] >= MSG_SIZE_PREFIX_LEN + p[k + 1].size
         /\ Reach(p, n, k + 1) => p[k + 1].size <= n
<1> DEFINE m == p[k + 1]
           size == m.size
           here == Ends(p)[k]
           next == Ends(p)[k + 1]
<1>1. /\ Len(p) \in Nat /\ k \in Nat /\ k \in 0 .. Len(p) /\ k + 1 \in 1 .. Len(p)
      /\ k + 1 \in 0 .. Len(p) /\ (k + 1) - 1 = k
  BY LenProperties
<1>2. m \in Message
  BY <1>1, ElementOfSeq
<1>3. size \in Nat
  BY <1>2, MessageFields
<1>4. here \in Nat /\ next = here + MSG_SIZE_PREFIX_LEN + size
  <2>1. here \in Nat
    BY <1>1, EndsUnfold
  <2>2. \A j \in 1 .. Len(p) : Ends(p)[j] = Ends(p)[j - 1] + MSG_SIZE_PREFIX_LEN + p[j].size
    BY EndsUnfold
  <2> QED BY <1>1, <2>1, <2>2
<1>5. Reach(p, n, k + 1) <=> size >= SBE_HEADER_LEN /\ next <= n
  <2>1. \A j \in 1 .. k + 1 : j \in 1 .. k \/ j = k + 1
    BY <1>1
  <2>2. k + 1 \in 1 .. k + 1
    BY <1>1
  <2> QED BY <2>1, <2>2 DEF Reach
<1> HIDE DEF m, size, here, next
<1>6. /\ n - here - MSG_SIZE_PREFIX_LEN - size = n - next
      /\ next <= n <=> n - here >= MSG_SIZE_PREFIX_LEN + size
      /\ next <= n => size <= n
  BY <1>3, <1>4 DEF MSG_SIZE_PREFIX_LEN
<1> QED BY <1>1, <1>2, <1>5, <1>6 DEF m, size, here, next

(* What a message that arrives has to say is what the decoder reads.       *)
LEMMA WholeOfArrived ==
  ASSUME NEW p \in Seq(Message), NEW n \in Nat, n <= MaxPacket,
         NEW k \in 1 .. Len(p), Reach(p, n, k), Counted(p[k])
  PROVE  /\ Len(p[k].items) = p[k].num_in_group
         /\ Whole(p, n)[k] = IF Decodes(p[k]) /\ p[k].stride >= EntryFields
                             THEN FlattenSeq(Says(p[k])) ELSE <<>>
<1> DEFINE m == p[k]
<1>1. m \in Message
  BY ElementOfSeq
<1>2. m.size <= n
  <2>1. /\ k - 1 \in 0 .. Len(p) - 1 /\ (k - 1) + 1 = k /\ 1 .. k - 1 \subseteq 1 .. k
    BY LenProperties
  <2>2. Reach(p, n, k - 1)
    BY <2>1 DEF Reach
  <2>3. Reach(p, n, (k - 1) + 1) => p[(k - 1) + 1].size <= n
    BY <2>1, <2>2, NextReach
  <2> QED BY <2>1, <2>3
<1>3. m.size \in Nat /\ MaxPacket \in Nat
  BY <1>1, MessageFields, WireAssumption
<1>4. Len(m.items) = m.num_in_group
  BY <1>2, <1>3 DEF Counted
<1>5. Whole(p, n)[k] = Meaning(m)
  BY WholeType
<1> HIDE DEF m
<1>6. Fits(m) <=> Decodes(m) /\ m.stride >= EntryFields
  BY <1>1, <1>4, FitsIsDecodes
<1>7. Meaning(m) = IF Fits(m) THEN FlattenSeq(Says(m)) ELSE <<>>
  BY <1>1, MeaningOf
<1>8. Whole(p, n)[k] = IF Decodes(m) /\ m.stride >= EntryFields
                       THEN FlattenSeq(Says(m)) ELSE <<>>
  BY <1>5, <1>6, <1>7
<1> QED BY <1>4, <1>8 DEF m

(* Nothing follows the last message that arrives.                          *)
LEMMA NothingFollows ==
  ASSUME NEW p \in Seq(Message), NEW n \in Nat, NEW k \in 0 .. Len(p),
         k < Len(p) => ~ Reach(p, n, k + 1)
  PROVE  FlattenSeq(Whole(p, n)) = Flat(Whole(p, n), k)
<1>1. Len(p) \in Nat /\ k \in Nat
  BY LenProperties
<1>2. ASSUME NEW j \in k + 1 .. Len(p) PROVE Whole(p, n)[j] = <<>>
  <2>1. /\ j \in 1 .. Len(p) /\ k < Len(p) /\ 1 .. k + 1 \subseteq 1 .. j
    BY <1>1
  <2>2. ~ Reach(p, n, j)
    BY <2>1 DEF Reach
  <2> QED BY <2>1, <2>2, WholeType
<1> DEFINE w == Whole(p, n)
<1>3. w \in Seq(Seq(MdEntry)) /\ Len(w) = Len(p)
  BY WholeType
<1>4. \A j \in k + 1 .. Len(w) : w[j] = <<>>
  BY <1>2, <1>3
<1>5. k \in 0 .. Len(w)
  BY <1>3
<1> HIDE DEF w
<1>6. FlattenSeq(w) = Flat(w, k)
  BY <1>3, <1>4, <1>5, FlatEndsEarly
<1> QED BY <1>6 DEF w

-----------------------------------------------------------------------------
(* Where the two iterators are: behind the k-th message, which arrived.    *)
Position(k) ==
    /\ rest = SubSeq(packet, k + 1, Len(packet))
    /\ left = len - Ends(packet)[k]
    /\ Reach(packet, len, k)

(* The meaning of the messages up to the k-th has been collected,          *)
Collected(k) == entries = Flat(Whole(packet, len), k)

(* or of those before it, and of it what its first entries say.            *)
Collecting(k) ==
    /\ msg[1] = packet[k] /\ Decodes(packet[k])
    /\ done <= packet[k].num_in_group
    /\ packet[k].stride < EntryFields => done = 0
    /\ entries = Flat(Whole(packet, len), k - 1) \o Flat(Says(packet[k]), done)

AllCounted == \A k \in 1 .. Len(packet) : Counted(packet[k])
AtMessage == \E k \in 0 .. Len(packet) : Position(k) /\ Collected(k)
AtEntry == \E k \in 1 .. Len(packet) : Position(k) /\ Collecting(k)

Reads ==
    /\ WireInv
    /\ AllCounted
    /\ phase = "Messages" => AtMessage
    /\ phase = "Entries" => AtEntry
    /\ phase = "Done" => entries = FlattenSeq(Whole(packet, len))

LEMMA EndsAreTheirs == Reads => DecodesWholeMessages
<1>1. EndOf = Ends(packet)
  BY DEF EndOf, Ends, Ending
<1>2. \A k : Arrived(k) <=> Reach(packet, len, k)
  BY <1>1 DEF Arrived, Reach
<1>3. [k \in 1 .. Len(packet) |-> IF Arrived(k) THEN Meaning(packet[k]) ELSE <<>>]
        = Whole(packet, len)
  BY <1>2 DEF Whole
<1> QED BY <1>3 DEF Reads, DecodesWholeMessages

LEMMA ReadTypes ==
  ASSUME WireInv
  PROVE  /\ packet \in Seq(Message) /\ len \in Nat /\ rest \in Seq(Message)
         /\ left \in Nat /\ done \in Nat /\ entries \in Seq(MdEntry)
         /\ phase # "Build" => len <= MaxPacket
         /\ MaxPacket \in Nat /\ Len(packet) \in Nat
BY WireAssumption, LenProperties DEF WireInv, TypeOK

LEMMA ReadsInit == Init => Reads
<1> SUFFICES ASSUME Init PROVE Reads
  OBVIOUS
<1>1. WireInv
  BY WireInit
<1>2. AllCounted /\ phase = "Build"
  BY DEF Init, AllCounted
<1> QED BY <1>1, <1>2 DEF Reads

LEMMA ReadsAdd ==
  ASSUME Reads, WireInv', NEW m \in Message, Counted(m), Add(m)
  PROVE  Reads'
<1>1. packet \in Seq(Message)
  BY ReadTypes DEF Reads
<1>2. packet' = Append(packet, m) /\ phase' = "Build"
  BY DEF Add
<1>3. \A k \in 1 .. Len(packet') :
         packet'[k] = m \/ (k \in 1 .. Len(packet) /\ packet'[k] = packet[k])
  BY <1>1, <1>2, AppendProperties
<1>4. AllCounted'
  BY <1>3 DEF AllCounted, Reads
<1> QED BY <1>2, <1>4 DEF Reads

LEMMA ReadsReceive ==
  ASSUME Reads, WireInv', NEW n \in Nat, Receive(n)
  PROVE  Reads'
<1>1. /\ packet \in Seq(Message) /\ len' \in Nat /\ Len(packet) \in Nat
      /\ packet' = packet /\ entries' = <<>> /\ entries = <<>>
  <2>1. packet \in Seq(Message) /\ Len(packet) \in Nat
    BY ReadTypes DEF Reads
  <2>2. len' \in Nat
    BY DEF WireInv, TypeOK
  <2>3. packet' = packet /\ entries' = entries /\ entries = <<>>
    BY DEF Receive, Reads, WireInv
  <2> QED BY <2>1, <2>2, <2>3
<1> DEFINE w == Whole(packet, len')
<1>2. w \in Seq(Seq(MdEntry)) /\ Flat(w, 0) = <<>>
  <2>1. w \in Seq(Seq(MdEntry))
    BY <1>1, WholeType
  <2> HIDE DEF w
  <2> QED BY <2>1, FlatUnfolds
<1>3. AllCounted'
  BY <1>1 DEF AllCounted, Reads
<1>4. Ends(packet)[0] = PACKET_HEADER_LEN /\ Reach(packet, len', 0) /\ 0 \in 0 .. Len(packet)
  BY <1>1, EndsUnfold DEF Reach
<1>5. CASE len' < PACKET_HEADER_LEN
  <2>1. phase' = "Done"
    BY <1>5 DEF Receive
  <2>2. 0 < Len(packet) => ~ Reach(packet, len', 0 + 1)
    <3> SUFFICES ASSUME 0 < Len(packet), Reach(packet, len', 0 + 1) PROVE FALSE
      OBVIOUS
    <3>1. 0 \in 0 .. Len(packet) - 1
      BY <1>1
    <3>2. len' - Ends(packet)[0] >= MSG_SIZE_PREFIX_LEN + packet[0 + 1].size
      BY <1>1, <1>4, <3>1, NextReach
    <3>3. packet[0 + 1].size \in Nat
      BY <1>1, <3>1, <1>4, NextReach, MessageFields
    <3> QED BY <1>1, <1>4, <1>5, <3>2, <3>3 DEF MSG_SIZE_PREFIX_LEN, PACKET_HEADER_LEN
  <2>3. FlattenSeq(w) = Flat(w, 0)
    BY <1>1, <1>4, <2>2, NothingFollows
  <2> QED BY <1>1, <1>2, <1>3, <2>1, <2>3 DEF Reads
<1>6. CASE ~ (len' < PACKET_HEADER_LEN)
  <2>1. /\ phase' = "Messages" /\ left' = len' - PACKET_HEADER_LEN /\ rest' = packet
    BY <1>6 DEF Receive
  <2>2. SubSeq(packet, 0 + 1, Len(packet)) = packet
    BY <1>1, SubSeqFull
  <2>3. Position(0)'
    BY <1>1, <1>4, <2>1, <2>2 DEF Position
  <2>4. Collected(0)'
    BY <1>1, <1>2 DEF Collected
  <2>5. AtMessage'
    BY <1>1, <1>4, <2>3, <2>4 DEF AtMessage
  <2> QED BY <1>3, <2>1, <2>5 DEF Reads
<1> QED BY <1>5, <1>6

(* The message behind the k-th is what the iterator sees.                  *)
LEMMA MessageAhead ==
  ASSUME Reads, NEW k \in 0 .. Len(packet), Position(k)
  PROVE  /\ rest # <<>> <=> k < Len(packet)
         /\ k < Len(packet) => /\ Head(rest) = packet[k + 1]
                               /\ Tail(rest) = SubSeq(packet, k + 2, Len(packet))
         /\ Framed <=> k < Len(packet) /\ Reach(packet, len, k + 1)
<1>1. /\ packet \in Seq(Message) /\ len \in Nat /\ left \in Nat /\ Len(packet) \in Nat
      /\ k \in Nat
  BY ReadTypes DEF Reads
<1>2. /\ rest = SubSeq(packet, k + 1, Len(packet)) /\ left = len - Ends(packet)[k]
      /\ Reach(packet, len, k)
  BY DEF Position
<1>3. CASE k < Len(packet)
  <2>1. k + 1 \in 1 .. Len(packet) /\ Len(packet) \in k + 1 .. Len(packet)
        /\ k \in 0 .. Len(packet) - 1 /\ (k + 1) + 1 = k + 2
    BY <1>1, <1>3
  <2> DEFINE first == k + 1
             last == Len(packet)
  <2> HIDE DEF first, last
  <2>2. first \in 1 .. Len(packet) /\ last \in first .. Len(packet)
    BY <2>1 DEF first, last
  <2>3. /\ Head(SubSeq(packet, first, last)) = packet[first]
        /\ Tail(SubSeq(packet, first, last)) = SubSeq(packet, first + 1, last)
    BY <1>1, <2>2, HeadTailOfSubSeq
  <2>4. Head(rest) = packet[k + 1] /\ Tail(rest) = SubSeq(packet, k + 2, Len(packet))
    BY <1>2, <2>1, <2>3 DEF first, last
  <2>5. rest # <<>>
    <3>1. \A i \in k + 1 .. Len(packet) : packet[i] \in Message
      <4>1. \A i \in k + 1 .. Len(packet) : i \in 1 .. Len(packet)
        BY <1>1
      <4> QED BY <1>1, <4>1, ElementOfSeq
    <3>2. Len(rest) = IF k + 1 <= Len(packet) THEN Len(packet) - (k + 1) + 1 ELSE 0
      <4>1. k + 1 \in Int /\ Len(packet) \in Int
        BY <1>1
      <4> QED BY <1>2, <3>1, <4>1, SubSeqProperties
    <3>3. Len(rest) # 0
      BY <1>1, <1>3, <3>2
    <3> QED BY <3>3, EmptySeq
  <2>6. /\ packet[k + 1] \in Message
        /\ Reach(packet, len, k + 1) <=>
              /\ packet[k + 1].size >= SBE_HEADER_LEN
              /\ len - Ends(packet)[k] >= MSG_SIZE_PREFIX_LEN + packet[k + 1].size
    BY <1>1, <1>2, <2>1, NextReach
  <2>7. left >= MSG_SIZE_PREFIX_LEN + packet[k + 1].size => left >= MSG_SIZE_PREFIX_LEN
    <3>1. packet[k + 1].size \in Nat
      BY <2>6, MessageFields
    <3> QED BY <1>1, <3>1 DEF MSG_SIZE_PREFIX_LEN
  <2> QED BY <1>2, <1>3, <2>4, <2>5, <2>6, <2>7 DEF Framed
<1>4. CASE ~ (k < Len(packet))
  <2>1. k + 1 \in Int /\ Len(packet) \in Int /\ Len(packet) < k + 1
    BY <1>1, <1>4
  <2>2. rest = <<>>
    BY <1>2, <2>1, SubSeqEmpty
  <2> QED BY <1>4, <2>2 DEF Framed
<1> QED BY <1>3, <1>4

LEMMA ReadsNextMessage ==
  ASSUME Reads, WireInv', NextMessage
  PROVE  Reads'
<1>1. /\ packet \in Seq(Message) /\ len \in Nat /\ left \in Nat /\ Len(packet) \in Nat
      /\ len <= MaxPacket
  BY ReadTypes DEF Reads, NextMessage
<1>2. PICK k \in 0 .. Len(packet) : Position(k) /\ Collected(k)
  BY DEF Reads, NextMessage, AtMessage
<1>3. /\ k < Len(packet) /\ Reach(packet, len, k + 1) /\ Head(rest) = packet[k + 1]
      /\ Tail(rest) = SubSeq(packet, k + 2, Len(packet))
  BY <1>2, MessageAhead DEF NextMessage
<1>4. /\ packet' = packet /\ len' = len /\ entries' = entries
      /\ left' = left - MSG_SIZE_PREFIX_LEN - packet[k + 1].size
      /\ rest' = SubSeq(packet, k + 2, Len(packet))
      /\ IF Decodes(packet[k + 1])
         THEN phase' = "Entries" /\ msg' = <<packet[k + 1]>> /\ done' = 0
         ELSE phase' = "Messages"
  BY <1>3 DEF NextMessage
<1> DEFINE next == k + 1
           m == packet[next]
           w == Whole(packet, len)
<1>5. /\ next \in 1 .. Len(packet) /\ next \in 0 .. Len(packet) /\ k \in 0 .. Len(packet) - 1
      /\ next + 1 = k + 2 /\ next - 1 = k
  BY <1>1, <1>3
<1>6. Position(next)'
  <2>1. left = len - Ends(packet)[k] /\ Reach(packet, len, k)
    BY <1>2 DEF Position
  <2>2. len - Ends(packet)[k] - MSG_SIZE_PREFIX_LEN - m.size = len - Ends(packet)[next]
    BY <1>1, <1>5, <2>1, NextReach
  <2>3. left' = len - Ends(packet)[next]
    BY <1>4, <2>1, <2>2
  <2> QED BY <1>3, <1>4, <1>5, <2>3 DEF Position
<1>7. AllCounted' /\ Counted(m)
  BY <1>4, <1>5 DEF Reads, AllCounted
<1>8. /\ w \in Seq(Seq(MdEntry)) /\ Len(w) = Len(packet)
      /\ w[next] = IF Decodes(m) /\ m.stride >= EntryFields THEN FlattenSeq(Says(m)) ELSE <<>>
  <2>1. w \in Seq(Seq(MdEntry)) /\ Len(w) = Len(packet)
    BY <1>1, WholeType
  <2>2. w[next] = IF Decodes(m) /\ m.stride >= EntryFields THEN FlattenSeq(Says(m)) ELSE <<>>
    BY <1>1, <1>3, <1>5, <1>7, WholeOfArrived
  <2> QED BY <2>1, <2>2
<1>9. m \in Message
  BY <1>1, <1>5, ElementOfSeq
<1>10. entries = Flat(w, k)
  BY <1>2 DEF Collected
<1> HIDE DEF next, m, w
<1>11. Flat(w, k) \in Seq(MdEntry) /\ Flat(w, next) = Flat(w, k) \o w[next]
  <2>1. k \in 0 .. Len(w) /\ next \in 1 .. Len(w)
    BY <1>5, <1>8
  <2> QED BY <1>5, <1>8, <2>1, FlatUnfolds
<1>12. CASE Decodes(m)
  <2>1. phase' = "Entries" /\ msg' = <<m>> /\ done' = 0
    BY <1>4, <1>12 DEF m, next
  <2>2. m.num_in_group \in Nat
    BY <1>9, MessageFields
  <2>3. Flat(Says(m), 0) = <<>>
    BY <1>9, SaysType, FlatUnfolds
  <2>4. entries' = Flat(w, next - 1) \o Flat(Says(m), done')
    BY <1>4, <1>5, <1>10, <1>11, <2>1, <2>3, ConcatEmptySeq
  <2>5. Collecting(next)'
    BY <1>4, <1>12, <2>1, <2>2, <2>4 DEF Collecting, m, w
  <2>6. AtEntry'
    BY <1>4, <1>5, <1>6, <2>5 DEF AtEntry
  <2> QED BY <1>7, <2>1, <2>6 DEF Reads
<1>13. CASE ~ Decodes(m)
  <2>1. phase' = "Messages"
    BY <1>4, <1>13 DEF m, next
  <2>2. entries' = Flat(w, next)
    BY <1>4, <1>8, <1>10, <1>11, <1>13, ConcatEmptySeq
  <2>3. Collected(next)'
    BY <1>4, <2>2 DEF Collected, w
  <2>4. AtMessage'
    BY <1>4, <1>5, <1>6, <2>3 DEF AtMessage
  <2> QED BY <1>7, <2>1, <2>4 DEF Reads
<1> QED BY <1>12, <1>13

LEMMA ReadsEndOfPacket ==
  ASSUME Reads, WireInv', EndOfPacket
  PROVE  Reads'
<1>1. packet \in Seq(Message) /\ len \in Nat
  BY ReadTypes DEF Reads
<1>2. PICK k \in 0 .. Len(packet) : Position(k) /\ Collected(k)
  BY DEF Reads, EndOfPacket, AtMessage
<1>3. k < Len(packet) => ~ Reach(packet, len, k + 1)
  BY <1>2, MessageAhead DEF EndOfPacket
<1>4. FlattenSeq(Whole(packet, len)) = Flat(Whole(packet, len), k)
  BY <1>1, <1>3, NothingFollows
<1>5. packet' = packet /\ len' = len /\ entries' = entries /\ phase' = "Done"
  BY DEF EndOfPacket
<1>6. entries' = FlattenSeq(Whole(packet', len'))
  BY <1>2, <1>4, <1>5 DEF Collected
<1>7. AllCounted'
  BY <1>5 DEF Reads, AllCounted
<1> QED BY <1>5, <1>6, <1>7 DEF Reads

LEMMA ReadsNextEntry ==
  ASSUME Reads, WireInv', NextEntry
  PROVE  Reads'
<1>1. /\ packet \in Seq(Message) /\ len \in Nat /\ done \in Nat /\ Len(packet) \in Nat
      /\ len <= MaxPacket /\ entries \in Seq(MdEntry)
  BY ReadTypes DEF Reads, NextEntry
<1>2. PICK k \in 1 .. Len(packet) : Position(k) /\ Collecting(k)
  BY DEF Reads, NextEntry, AtEntry
<1> DEFINE m == packet[k]
           w == Whole(packet, len)
           next == done + 1
           item == m.items[next]
           before == Flat(w, k - 1)
           said == Flat(Says(m), done)
<1>3. m \in Message /\ Reach(packet, len, k) /\ Counted(m)
  BY <1>1, <1>2, ElementOfSeq DEF Position, Reads, AllCounted
<1>4. /\ msg[1] = m /\ Decodes(m) /\ entries = before \o said
  BY <1>2 DEF Collecting
<1>5. /\ packet' = packet /\ len' = len /\ left' = left /\ rest' = rest /\ msg' = msg
      /\ phase' = "Entries" /\ done' = next
      /\ done < m.num_in_group /\ m.stride >= EntryFields
  BY <1>4 DEF NextEntry, Readable
<1>6. Len(m.items) = m.num_in_group
  BY <1>1, <1>3, WholeOfArrived
<1>7. w \in Seq(Seq(MdEntry)) /\ Len(w) = Len(packet)
  BY <1>1, WholeType
<1>8. \/ \E e \in Decoded(item) : entries' = Append(entries, e)
      \/ Decoded(item) = {} /\ entries' = entries
  <2>1. Len(entries) < MaxEntries
    BY RoomForEntries DEF CapNeverReached, Reads
  <2>2. MaxEntries \in Nat /\ Len(entries) \in Nat
    BY <1>1, WireAssumption, LenProperties
  <2>3. ~ (Len(entries) >= MaxEntries)
    BY <2>1, <2>2
  <2>4. msg[1].items[done'] = item
    BY <1>4, <1>5
  <2> QED BY <2>3, <2>4 DEF NextEntry
<1> HIDE DEF m, w
<1>9. next \in 1 .. Len(m.items) /\ next - 1 = done /\ item \in MdEntryRaw
  <2>1. m.items \in Seq(MdEntryRaw) /\ m.num_in_group \in Nat
    BY <1>3, MessageFields
  <2>2. next \in 1 .. Len(m.items) /\ next - 1 = done
    BY <1>1, <1>5, <1>6, <2>1
  <2> HIDE DEF next
  <2> QED BY <2>1, <2>2, ElementOfSeq
<1>10. before \in Seq(MdEntry)
  <2>1. k - 1 \in 0 .. Len(w)
    BY <1>1, <1>7
  <2> QED BY <1>7, <2>1, FlatUnfolds
<1>11. said \in Seq(MdEntry) /\ Flat(Says(m), next) = said \o Saying(item)
  <2> DEFINE says == Says(m)
  <2>1. /\ says \in Seq(Seq(MdEntry)) /\ next \in 1 .. Len(says) /\ done \in 0 .. Len(says)
        /\ says[next] = Saying(item)
    <3>1. /\ says \in Seq(Seq(MdEntry)) /\ Len(says) = Len(m.items)
          /\ \A j \in 1 .. Len(m.items) : says[j] = Saying(m.items[j])
      BY <1>3, SaysType
    <3>2. Len(m.items) \in Nat
      BY <1>3, MessageFields, LenProperties
    <3> QED BY <1>1, <1>9, <3>1, <3>2
  <2> HIDE DEF says, next, item
  <2>2. Flat(says, next) = Flat(says, next - 1) \o says[next]
    BY <2>1, FlatUnfolds
  <2>3. Flat(says, done) \in Seq(MdEntry)
    BY <2>1, FlatUnfolds
  <2> QED BY <1>9, <2>1, <2>2, <2>3 DEF says
<1> HIDE DEF before, said, item
<1>12. entries' = before \o Flat(Says(m), next)
  <2>1. ASSUME NEW e \in Decoded(item), entries' = Append(entries, e)
        PROVE  entries' = before \o Flat(Says(m), next)
    <3>1. e \in MdEntry /\ Saying(item) = <<e>>
      BY <1>9, DecodedEntry, DecodedSays
    <3>2. entries' = entries \o <<e>>
      BY <1>1, <2>1, <3>1, AppendIsConcat
    <3>3. (before \o said) \o <<e>> = before \o (said \o <<e>>)
      <4>1. <<e>> \in Seq(MdEntry)
        BY <3>1
      <4> QED BY <1>10, <1>11, <4>1, ConcatAssociative
    <3> QED BY <1>4, <1>11, <3>1, <3>2, <3>3
  <2>2. ASSUME Decoded(item) = {}, entries' = entries
        PROVE  entries' = before \o Flat(Says(m), next)
    <3>1. Saying(item) = <<>>
      BY <1>9, <2>2, DecodedSays
    <3>2. Flat(Says(m), next) = said
      BY <1>11, <3>1, ConcatEmptySeq
    <3> QED BY <1>4, <2>2, <3>2
  <2> QED BY <1>8, <2>1, <2>2
<1>13. Position(k)' /\ AllCounted'
  BY <1>2, <1>5 DEF Position, Reads, AllCounted
<1>14. Collecting(k)'
  <2>1. done' <= m.num_in_group
    BY <1>1, <1>3, <1>5, MessageFields
  <2>2. m.stride >= EntryFields => ~ (m.stride < EntryFields)
    BY <1>3, MessageFields DEF EntryFields
  <2>3. entries' = before \o Flat(Says(m), done')
    BY <1>5, <1>12
  <2> HIDE DEF next
  <2> QED BY <1>4, <1>5, <2>1, <2>2, <2>3 DEF Collecting, m, w, before
<1>15. AtEntry'
  BY <1>5, <1>13, <1>14 DEF AtEntry
<1> QED BY <1>5, <1>13, <1>15 DEF Reads

LEMMA ReadsEndOfMessage ==
  ASSUME Reads, WireInv', EndOfMessage
  PROVE  Reads'
<1>1. /\ packet \in Seq(Message) /\ len \in Nat /\ done \in Nat /\ Len(packet) \in Nat
      /\ len <= MaxPacket
  BY ReadTypes DEF Reads, EndOfMessage
<1>2. PICK k \in 1 .. Len(packet) : Position(k) /\ Collecting(k)
  BY DEF Reads, EndOfMessage, AtEntry
<1> DEFINE m == packet[k]
           w == Whole(packet, len)
<1>3. m \in Message /\ Reach(packet, len, k) /\ Counted(m)
  BY <1>1, <1>2, ElementOfSeq DEF Position, Reads, AllCounted
<1>4. /\ msg[1] = m /\ Decodes(m) /\ done <= m.num_in_group
      /\ m.stride < EntryFields => done = 0
      /\ entries = Flat(w, k - 1) \o Flat(Says(m), done)
  BY <1>2 DEF Collecting
<1>5. /\ packet' = packet /\ len' = len /\ left' = left /\ rest' = rest
      /\ phase' = "Messages" /\ entries' = entries
      /\ ~ (done < m.num_in_group /\ m.stride >= EntryFields)
  BY <1>4 DEF EndOfMessage, Readable
<1>6. /\ Len(m.items) = m.num_in_group
      /\ w[k] = IF Decodes(m) /\ m.stride >= EntryFields THEN FlattenSeq(Says(m)) ELSE <<>>
  BY <1>1, <1>3, WholeOfArrived
<1>7. w \in Seq(Seq(MdEntry)) /\ Len(w) = Len(packet)
  BY <1>1, WholeType
<1> HIDE DEF m, w
<1>8. m.stride \in Nat /\ m.num_in_group \in Nat
  BY <1>3, MessageFields
<1>9. Flat(Says(m), done) = w[k]
  <2>1. /\ Flat(Says(m), 0) = <<>> /\ FlattenSeq(Says(m)) = Flat(Says(m), Len(m.items))
    BY <1>3, SaysType, FlatUnfolds
  <2>2. CASE m.stride >= EntryFields
    <3>1. done = m.num_in_group
      BY <1>1, <1>4, <1>5, <1>8, <2>2
    <3> QED BY <1>4, <1>6, <2>1, <2>2, <3>1
  <2>3. CASE ~ (m.stride >= EntryFields)
    <3>1. m.stride < EntryFields
      BY <1>8, <2>3 DEF EntryFields
    <3> QED BY <1>4, <1>6, <2>1, <2>3, <3>1
  <2> QED BY <2>2, <2>3
<1>10. entries = Flat(w, k)
  BY <1>4, <1>7, <1>9, FlatUnfolds
<1>11. Position(k)' /\ Collected(k)' /\ AllCounted'
  BY <1>2, <1>5, <1>10 DEF Position, Collected, Reads, AllCounted, w
<1>12. k \in 0 .. Len(packet)
  BY <1>1
<1>13. AtMessage'
  BY <1>5, <1>11, <1>12 DEF AtMessage
<1> QED BY <1>5, <1>11, <1>13 DEF Reads

LEMMA ReadsStep == Reads /\ [Next]_vars => Reads'
<1> SUFFICES ASSUME Reads, [Next]_vars PROVE Reads'
  OBVIOUS
<1>1. WireInv'
  BY WireStep DEF Reads
<1>2. CASE UNCHANGED vars
  BY <1>1, <1>2 DEF vars, Reads, AllCounted, AtMessage, AtEntry, Position, Collected, Collecting
<1>3. ASSUME NEW list \in Lists, Add(Refresh(list)) PROVE Reads'
  BY <1>1, <1>3, RefreshIsAMessage, RefreshIsCounted, ReadsAdd
<1>4. ASSUME NEW m \in Foreign, Add(m) PROVE Reads'
  <2>1. m \in Message /\ Counted(m)
    BY WireAssumption DEF Counted
  <2> QED BY <1>1, <1>4, <2>1, ReadsAdd
<1>5. ASSUME NEW n \in Cuts \cup {len}, Receive(n) PROVE Reads'
  <2>1. n \in Nat
    BY WireAssumption, ReadTypes DEF Reads
  <2> QED BY <1>1, <1>5, <2>1, ReadsReceive
<1>6. CASE Next
  BY <1>1, <1>3, <1>4, <1>5, <1>6, ReadsNextMessage, ReadsEndOfPacket, ReadsNextEntry,
     ReadsEndOfMessage DEF Next
<1> QED BY <1>2, <1>6

(* Whatever is written into a payload, however many messages of whatever   *)
(* sizes, and wherever it is cut: the hot path is given exactly what the   *)
(* messages that arrived whole have to say, in order, with every code read *)
(* back as what it was written for.                                        *)
THEOREM WholeMessagesAreDecoded == Spec => []DecodesWholeMessages
BY ReadsInit, ReadsStep, EndsAreTheirs, PTL DEF Spec
=============================================================================
