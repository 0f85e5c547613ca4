-------------------------------- MODULE Wire --------------------------------
(***************************************************************************)
(* What one peer packs into a buffer and sends, and the other reads out of *)
(* it: the values of net/BitPackingTypes.h in any order, and the messages  *)
(* of the reliable transport (net/Message.cpp), which a checksum protects  *)
(* from a flipped bit.                                                     *)
(***************************************************************************)
EXTENDS BitPacking, Serialization, SequencesExt

CONSTANTS
    Layouts,      \* what is packed: [w, values, lengths, extra, content, maxFlips], see below
    BufferUnits   \* bound: the units of a buffer, more than any layout needs

(* A value is "bits" (Pack of size bits), "string" or "array" (String and  *)
(* ByteArray of size bytes), "finish", or "flush": a Finish that only the  *)
(* writer calls.                                                           *)
ValueTypes == {"bits", "string", "array", "finish", "flush"}
BitsValue(n) == [type |-> "bits", size |-> n]
StringValue(n) == [type |-> "string", size |-> n]
FinishValue == [type |-> "finish", size |-> 0]

-----------------------------------------------------------------------------
(* Where values have to lie, however they are packed: a place is a unit    *)
(* and a bit of it.  Bits run on from a unit to the next, bytes begin with *)
(* a unit, behind their length, and a Finish ends one.                     *)
Place(unit, bit) == [unit |-> unit, bit |-> bit]
Behind(width, a, n) ==
    IF a.bit + n < width THEN Place(a.unit, a.bit + n) ELSE Place(a.unit + 1, (a.bit + n) - width)
NextUnit(a) == Place(a.unit + 1, 0)
BytesAt(width, a) ==
    LET b == Behind(width, a, width) IN IF b.bit = 0 THEN b ELSE NextUnit(b)

EndOfValue(width, a, v) ==
    CASE v.type = "bits" -> Behind(width, a, v.size)
      [] v.type \in {"finish", "flush"} -> NextUnit(a)
      [] v.type = "string" /\ v.size = 0 -> Behind(width, a, width)
      [] OTHER -> Place(BytesAt(width, a).unit + (8 * v.size) \div width, (8 * v.size) % width)

(* Where the first n of vs end. *)
EndOf(width, vs, n) ==
    LET end[k \in 0..Len(vs)] ==
            IF k = 0 THEN Place(0, 0) ELSE EndOfValue(width, end[k - 1], vs[k])
    IN end[n]

(* The buffer is large enough, and no counter wraps.                       *)
Fits(width, vs) ==
    \A n \in 0..Len(vs) :
        LET a == EndOf(width, vs, n)
            bits == a.unit * width + a.bit
        IN a.unit < BufferUnits /\ UInt8(a.unit) = a.unit /\ UIntT(width, bits) = bits

-----------------------------------------------------------------------------
(* ReliableUdpMessageHeader::Write, PacketDatum::Write and Message::Write, *)
(* for packets that hold strings of these lengths.                         *)
CheckSum == 6   \* the place of the checksum in a message
HeaderValues ==
    <<BitsValue(16), BitsValue(16), BitsValue(32), BitsValue(2), BitsValue(16), BitsValue(32),
      FinishValue>>
PacketDatumValues(n) == <<BitsValue(1), BitsValue(1), BitsValue(16), StringValue(n)>>
MessageValues(lengths) ==
    HeaderValues \o <<BitsValue(16)>>
    \o [k \in 1..(4 * Len(lengths)) |-> PacketDatumValues(lengths[(k + 3) \div 4])[((k - 1) % 4) + 1]]

(* PingMessage::Write: the type, the flags, the names, the ages, the fish. *)
PingValues ==
    <<StringValue(4), BitsValue(1), BitsValue(11), BitsValue(4), StringValue(6), StringValue(5),
      StringValue(5), BitsValue(2), BitsValue(2), BitsValue(2), BitsValue(2), FinishValue,
      StringValue(5), StringValue(7), [type |-> "flush", size |-> 0]>>

(* A layout has units of w bits.  lengths are those of a message's strings *)
(* and empty for what is no message; extra is the number of bytes that the *)
(* transport adds, and counts as received: the tag of an encrypted         *)
(* message; content is the event in the last string.                       *)
NoContent == [encoding |-> "json", event |-> Nothing]

(* A Finish ends a unit that was begun, and all bits are written in the    *)
(* end: by bytes or a Finish.                                              *)
ASSUME WireAssumption ==
    /\ \A l \in Layouts :
        /\ l.w \in {8, 16, 32} /\ {l.extra, l.maxFlips} \subseteq Nat
        /\ l.content.encoding \in Encodings /\ l.content.event \in SentEvents \cup {Nothing}
        /\ l.values \in Seq([type : ValueTypes, size : Nat]) /\ l.values # <<>>
        /\ \A i \in DOMAIN l.values :
            LET v == l.values[i] IN
            /\ v.type = "bits" => v.size \in 1..l.w /\ i < Len(l.values)
            /\ v.type \in {"finish", "flush"} => i > 1
            /\ v.type = "flush" => i = Len(l.values)
        /\ l.lengths \in Seq(Nat)
        /\ l.lengths # <<>> => l.w = 32 /\ l.values = MessageValues(l.lengths)
        /\ Fits(l.w, l.values)
    /\ BufferUnits \in Nat

VARIABLES
    layout,     \* one of Layouts; it never changes
    phase,      \* "packing", "sent", "read"
    packer,     \* the packer, whose destination is the sender's buffer
    field,      \* the receiver's buffer
    bitReader,
    got,        \* the values that were read
    flips,      \* the number of bits flipped on the way
    accepted,   \* the message was read to its end and its checksum is right
    event       \* what the receiver makes of the last string

wireVars == <<layout, phase, packer, field, bitReader, got, flips, accepted, event>>

w == layout.w
values == layout.values
isMessage == layout.lengths # <<>>

OldBuffer == [u \in 0..(BufferUnits - 1) |-> [b \in 0..(w - 1) |-> Garbage]]
ZeroBuffer == [u \in 0..(BufferUnits - 1) |-> Empty(w)]

WireInit ==
    /\ layout \in Layouts /\ phase = "packing"
    /\ packer = Packer(OldBuffer, w) /\ field = OldBuffer
    /\ bitReader = Reader(0) /\ got = <<>> /\ flips = 0
    /\ accepted = FALSE /\ event = Nothing

-----------------------------------------------------------------------------
(* What is packed: bit b of value i is <<i, b>>, and the bits of the       *)
(* length of a string are those of value i+1000.  A length of 0 has none.  *)
Lost == [length |-> Empty(w), value |-> <<>>]
Original(i) ==
    LET n == values[i].size IN
    CASE values[i].type = "bits" -> [length |-> Empty(w), value |-> Value(w, i, n)]
      [] values[i].type \in {"finish", "flush"} -> Lost
      [] OTHER -> [length |-> IF n = 0 THEN Empty(w) ELSE Value(w, i + 1000, w),
                   value |-> [b \in 0..(8 * n - 1) |-> <<i, b>>]]

PackValue(p, type, size, v) ==
    CASE type = "bits" -> Pack(w, p, size, v.value)
      [] type \in {"finish", "flush"} -> Flush(w, p)
      [] type = "string" /\ size = 0 -> Pack(w, p, w, v.length)
      [] OTHER -> PushBytes(w, Pack(w, p, w, v.length), v.value, 8 * size)

PackAll(destination, chosen, vs) ==
    LET packed[n \in 0..Len(chosen)] ==
            IF n = 0 THEN Packer(destination, w)
            ELSE LET i == chosen[n]
                 IN PackValue(packed[n - 1], values[i].type, values[i].size, vs[i])
    IN packed[Len(chosen)]

(* Write, and the send of TotalBytesPacked bytes. *)
All == [i \in DOMAIN values |-> i]
Originals == [i \in DOMAIN values |-> Original(i)]

Send ==
    /\ phase = "packing" /\ phase' = "sent"
    /\ packer' = PackAll(OldBuffer, All, Originals)
    /\ field' = [u \in DOMAIN field |-> [b \in 0..(w - 1) |->
                    IF u * w + b < 8 * TotalBytesPacked(packer') THEN packer'.dest[u][b] ELSE Garbage]]
    /\ UNCHANGED <<layout, bitReader, got, flips, accepted, event>>

(* Another bit is flipped on the way. *)
Flip ==
    /\ phase = "sent" /\ flips < layout.maxFlips /\ flips' = flips + 1
    /\ \E u \in DOMAIN field, b \in 0..(w - 1) :
        /\ u * w + b < 8 * TotalBytesPacked(packer) /\ field[u][b] = packer.dest[u][b]
        /\ field' = [field EXCEPT ![u][b] = IF @ = Zero THEN <<-2, -2>> ELSE Zero]
    /\ UNCHANGED <<layout, phase, packer, bitReader, got, accepted, event>>

-----------------------------------------------------------------------------
(* Read of a value.  Once a length or the count of packets is not what was *)
(* packed the rest is read otherwise: the values that follow are lost.     *)
ReadValue(s, i) ==
    LET type == values[i].type
        size == values[i].size
        bits == ReadNext(w, field, s.reader, IF type = "bits" THEN size ELSE w)
        bytes == FetchBytes(w, field, bits.reader, 8 * size)
        more(r, v) == [reader |-> r, got |-> Append(s.got, v), lost |-> s.lost \/ r.threw]
    IN
    IF s.lost THEN more(s.reader, Lost)
    ELSE CASE type = "finish" -> more(Finish(w, field, s.reader).reader, Lost)
           [] type = "flush" -> more(s.reader, Lost)
           [] type = "bits" ->
                [more(bits.reader, [length |-> Empty(w), value |-> bits.value])
                 EXCEPT !.lost = @ \/ (isMessage /\ i = 8 /\ bits.value # Original(8).value)]
           [] type \in {"string", "array"} /\ bits.value # Original(i).length ->
                [more(bits.reader, Lost) EXCEPT !.lost = TRUE]
           [] OTHER -> more(IF type = "string" /\ size = 0 THEN bits.reader ELSE bytes.reader,
                            [length |-> bits.value, value |-> bytes.value])

Elements == ((TotalBytesPacked(packer) + layout.extra) * 8) \div w

ReadAll ==
    LET read[n \in 0..Len(values)] ==
            IF n = 0 THEN [reader |-> Reader(Elements), got |-> <<>>, lost |-> FALSE]
            ELSE ReadValue(read[n - 1], n)
    IN read[Len(values)]

(* GenerateCheckSum packs the message without its checksum, which the      *)
(* sender has not set yet, into a buffer of zeros; a CRC is taken to tell  *)
(* any two buffers apart.                                                  *)
HeaderOnly == [i \in 1..5 |-> i]
WithoutChecksum == RemoveAt(All, CheckSum)
GenerateCheckSum(vs) == PackAll(ZeroBuffer, WithoutChecksum, vs).dest
ValidateChecksum(vs) ==
    /\ vs[CheckSum] = Original(CheckSum)
    /\ GenerateCheckSum(vs) = GenerateCheckSum([Originals EXCEPT ![CheckSum].value = Empty(w)])

(* Read, ValidateChecksum, and the payload of an accepted message's last   *)
(* packet.                                                                 *)
Receive ==
    /\ phase = "sent" /\ phase' = "read"
    /\ LET s == ReadAll IN
        /\ bitReader' = s.reader /\ got' = s.got
        /\ accepted' = (isMessage /\ ~s.lost /\ ValidateChecksum(s.got))
    /\ event' = IF accepted' /\ layout.content # NoContent
                THEN Deserialize(Serialize(layout.content.encoding, layout.content.event, "Ann"))
                ELSE Nothing
    /\ UNCHANGED <<layout, packer, field, flips>>

WireNext == Send \/ Flip \/ Receive
WireSpec == WireInit /\ [][WireNext]_wireVars

-----------------------------------------------------------------------------
TypeOK ==
    /\ layout \in Layouts /\ phase \in {"packing", "sent", "read"} /\ flips \in 0..layout.maxFlips
    /\ packer.writeBit \in 0..(w - 1) /\ packer.bitsLeft \in 0..w
    /\ packer.overflowed \in 0..(BufferUnits - 1) /\ packer.segments = packer.overflowed
    /\ bitReader.bitsRead \in 0..(w - 1) /\ bitReader.bitsLeft \in 0..w /\ bitReader.threw \in BOOLEAN
    /\ Len(got) <= Len(values) /\ accepted \in BOOLEAN

(* The cases in which the reader is known to differ from the packer: bits  *)
(* it does not mask (BitfieldReader.h:161), and a Finish right after bytes *)
(* that end within a unit (89).                                            *)
FinishAfterBytes == \E i \in 1..(Len(values) - 1) :
    /\ values[i].type \in {"string", "array"} /\ (8 * values[i].size) % w # 0
    /\ values[i + 1].type = "finish"
Agreed == phase = "read" /\ flips = 0 /\ ~bitReader.unmasked /\ ~FinishAfterBytes

(* Whatever is packed is read back, bit for bit, in whatever order the     *)
(* values come and however they lie across the units (BitPacker.h:31-144,  *)
(* BitfieldReader.h:33-180, BitPackingTypes.h).                            *)
ReadsBack == Agreed => got = Originals

(* ... and then the reader is where the packer is, so that more can be     *)
(* packed and read.                                                        *)
EndsInStep == (Agreed /\ Last(values).type # "flush") =>
    bitReader.overflowed = packer.overflowed /\ bitReader.bitsRead = packer.writeBit

(* The bytes that are sent are the bytes that were written                 *)
(* (BitPacker.h:146-167): the count of bits, from which the length of the  *)
(* datagram comes, is where the packer stands in the buffer.               *)
CountsWhatIsWritten ==
    phase # "packing" => packer.packed = packer.overflowed * w + packer.writeBit

(* An unchanged message is read to its end, though the number of units is  *)
(* rounded down (ReliableUdpGameServerConnection.cpp:32,                   *)
(* BitfieldReader.h:40), and is accepted.                                  *)
IntactIsAccepted == (Agreed /\ isMessage) => (accepted /\ ~bitReader.threw)

(* No flipped bit reaches the game: what is accepted is what was sent      *)
(* (Message.cpp:72-98).                                                    *)
AcceptedIsIntact == accepted => got = Originals

(* The event that the receiver hears is the one that was sent, for every   *)
(* encoding; only a ping in another encoding than JSON throws              *)
(* (SerializationManager.cpp:47-96).                                       *)
EventsSurvive ==
    /\ event \notin {Nothing, Thrown} => event = layout.content.event
    /\ event = Thrown => layout.content.event = PingMessage /\ layout.content.encoding # "json"
    /\ (accepted /\ layout.content.event.type \in {"PlayerMovedEventType", "StartNetworkLevel"})
        => event = layout.content.event

(* Packer and reader agree on every value, on where they stand and on how  *)
(* much was written (BitPacker.h, BitfieldReader.h, BitPackingTypes.h).    *)
BitsOK == TypeOK /\ ReadsBack /\ EndsInStep /\ CountsWhatIsWritten

(* A message is accepted when it is what was sent and only then, and then  *)
(* its event is the one that was raised (Message.cpp:16-98,                *)
(* SerializationManager.cpp:47-96).                                        *)
MessagesOK == IntactIsAccepted /\ AcceptedIsIntact /\ EventsSurvive
=============================================================================
