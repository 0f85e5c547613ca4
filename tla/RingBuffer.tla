----------------------------- MODULE RingBuffer -----------------------------
(***************************************************************************)
(* gamelib::RingBuffer<PacketDatum> (utils/RingBuffer.h): BufferSize slots *)
(* addressed by a uint16_t sequence number modulo the size.  A slot is the *)
(* pair of arrays of the class at one index: the tag kept in               *)
(* sequenceBuffer and the datum kept in sequenceBufferData.                *)
(*                                                                         *)
(* sequenceBuffer is allocated with new uint32_t[n] and never cleared, so  *)
(* a slot nobody has Put may hold any tag.  The only tags Get can tell     *)
(* from garbage that matches nothing (Unset) are the sequence numbers that *)
(* map to the slot; Garbage is the set of those a run lets memory hold.    *)
(*                                                                         *)
(* lastAddedSequence feeds only the moving average of round-trip times,    *)
(* and the round-trip time and the send time of a datum feed only          *)
(* statistics: none of the three is modelled.                              *)
(***************************************************************************)
EXTENDS Integers

CONSTANTS
    SeqModulus,      \* 65536 in the code: sequence numbers are uint16_t
    BufferSize,  \* 1024 in the code: the default bufferSize
    Garbage,     \* sequence numbers that uninitialised memory may hold
    NoPayload    \* the empty string

ASSUME SeqModulusAssumption == SeqModulus \in Nat \ {0}
ASSUME BufferSizeAssumption == BufferSize \in Nat \ {0}
ASSUME GarbageAssumption == Garbage \subseteq 0 .. SeqModulus - 1

Seqs  == 0 .. SeqModulus - 1
Slots == 0 .. BufferSize - 1

(* Not a sequence number: the value of a slot whose tag no Get can match. *)
Unset == -1

(* PacketDatum's default constructor, the value of every slot never Put.   *)
(* payload stands for dataString, bytes for EstimateSizeInBytes().         *)
DefaultDatum ==
    [Sequence |-> 0, IsAcked |-> FALSE, payload |-> NoPayload, bytes |-> 0]

GetSequenceIndex(seq) == seq % BufferSize

(* Get(seq) returns a pointer to the slot's datum, not nullptr. *)
Holds(buf, seq) == buf[GetSequenceIndex(seq)].tag = seq

(* What the pointer returned by Get(seq) points to. *)
Get(buf, seq) == buf[GetSequenceIndex(seq)].datum

(* Put overwrites the slot whatever it holds: the sequence that was        *)
(* BufferSize earlier is forgotten without notice.                         *)
Put(buf, seq, datum) ==
    [buf EXCEPT ![GetSequenceIndex(seq)] = [tag |-> seq, datum |-> datum]]

(* The buffers the constructor may build. *)
FreshBuffers ==
    {buf \in [Slots -> [tag : {Unset} \cup Garbage, datum : {DefaultDatum}]] :
        \A i \in Slots : buf[i].tag # Unset => GetSequenceIndex(buf[i].tag) = i}
=============================================================================
