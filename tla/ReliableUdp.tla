----------------------------- MODULE ReliableUdp -----------------------------
(***************************************************************************)
(* gamelib::ReliableUdp (net/ReliableUdp.h, .cpp): the object each side of *)
(* a connection keeps to number what it sends, to bundle what its peer has *)
(* not acknowledged, and to acknowledge what it received.  One object is   *)
(* an endpoint record; MarkSent and MarkReceived are operators from an     *)
(* endpoint (and a datum or a message) to the endpoint and the message     *)
(* they leave behind, so that every module that owns such an object uses   *)
(* the same definitions.                                                   *)
(***************************************************************************)
EXTENDS RingBuffer

CONSTANTS
    AckBits,      \* 31 in the code: sizeof(uint32_t) * 8 - 1 positions are used
    HeaderBytes,  \* ReliableUdpMessageHeader::GetSizeInBits() / 8
    MaxBytes      \* maxMessageSizeBytes: 1200 in the code

ASSUME AckBitsAssumption == AckBits \in Nat /\ AckBits <= BufferSize
ASSUME BytesAssumption == HeaderBytes \in Nat /\ MaxBytes \in Nat

(* A default constructed endpoint, for each content of its two buffers. *)
FreshEndpoint(send, receive) ==
    [sequence   |-> 0,
     lastAcked  |-> 0,        \* LastAcknowledgedSequenceNumber
     SendBuffer |-> send,
     ReceiveBuffer |-> receive]

NextSequence(e) == (e.sequence + 1) % SeqModulus

(* uint16_t arithmetic: the sequence number n before seq. *)
Before(seq, n) == (seq - n) % SeqModulus

-----------------------------------------------------------------------------
(* Mutant: the loop starts at lastAcked itself. *)
BitsFromLastAcked(e) ==
    {i \in 0 .. AckBits - 1 :
        /\ \A j \in 0 .. i : Holds(e.ReceiveBuffer, Before(e.lastAcked, j))
        /\ Get(e.ReceiveBuffer, Before(e.lastAcked, i)).IsAcked}

(* GenerateAcknowledgedBits: bit n says that the sequence n + 1 before     *)
(* lastAcked was received too.  The loop stops at the first position whose *)
(* sequence the receive buffer does not hold.  The word is the set of the  *)
(* positions whose bit is set.                                             *)
GenerateAcknowledgedBits(e) ==
    {i \in 0 .. AckBits - 1 :
        /\ \A j \in 0 .. i : Holds(e.ReceiveBuffer, Before(e.lastAcked, j + 1))
        /\ Get(e.ReceiveBuffer, Before(e.lastAcked, i + 1)).IsAcked}

(* Mutant: the loop stops one datum early. *)
VisitedButOldest(e, send) ==
    {i \in e.lastAcked + 2 .. e.sequence : \A j \in i .. e.sequence : Holds(send, j)}

(* The sequence numbers the loop of MarkSent visits: from the one before   *)
(* the new datum's down to lastAcked + 1, as far as the send buffer holds  *)
(* them.  lastAcked numbers the peer's messages, not this side's.          *)
Visited(e, send) ==
    {i \in e.lastAcked + 1 .. e.sequence :
        \A j \in i .. e.sequence : Holds(send, j)}

(* Those of them that are attached: not acknowledged, and fitting in what  *)
(* is left of the message when the loop reaches them.  One that does not   *)
(* fit is skipped and the loop goes on.                                    *)
Attached(e, send) ==
    LET used[i \in Visited(e, send)] ==  \* messageSizeInBytes on reaching i
            IF i = e.sequence THEN HeaderBytes
            ELSE LET d == Get(send, i + 1) IN
                 IF ~d.IsAcked /\ used[i + 1] <= MaxBytes - d.bytes
                 THEN used[i + 1] + d.bytes
                 ELSE used[i + 1]
    IN {i \in Visited(e, send) :
           LET d == Get(send, i)
           IN  ~d.IsAcked /\ used[i] <= MaxBytes - d.bytes}

(* MarkSent numbers the datum, stores it, and builds the message: the      *)
(* datum and the attached ones (their order is that of their numbers).     *)
Numbered(e, datum) == [datum EXCEPT !.Sequence = NextSequence(e)]

SendBufferWith(e, datum) == Put(e.SendBuffer, NextSequence(e), Numbered(e, datum))

AfterMarkSent(e, datum) ==
    [e EXCEPT !.sequence = NextSequence(e), !.SendBuffer = SendBufferWith(e, datum)]

MessageOf(e, datum, type) ==
    LET send == SendBufferWith(e, datum) IN
    [Sequence          |-> NextSequence(e),
     LastAckedSequence |-> e.lastAcked,
     LastAckedBits     |-> GenerateAcknowledgedBits(e),
     messageType       |-> type,
     data              |-> {Numbered(e, datum)} \cup
                           {Get(send, i) : i \in Attached(e, send)}]

-----------------------------------------------------------------------------
(* Mutant: the bits are read one position off. *)
NamedOneOff(m) == {Before(m.LastAckedSequence, i + 2) : i \in m.LastAckedBits}

(* The sequence numbers the set bits of a message name. *)
NamedByBits(m) == {Before(m.LastAckedSequence, i + 1) : i \in m.LastAckedBits}

(* The first step of MarkReceived: LastAckedSequence, if still held. *)
MarkLast(send, m) ==
    LET d == Get(send, m.LastAckedSequence) IN
    IF Holds(send, m.LastAckedSequence)
    THEN Put(send, d.Sequence, [d EXCEPT !.IsAcked = TRUE])
    ELSE send

(* The loop over the bits dereferences SendBuffer.Get without looking: the *)
(* behaviour is undefined when a named sequence is no longer held.         *)
DereferencesNull(e, m) ==
    \E s \in NamedByBits(m) : ~Holds(MarkLast(e.SendBuffer, m), s)

(* Mutant: a clear bit takes the acknowledgement back. *)
MarkAckedOrNot(send, m) ==
    [i \in Slots |-> [send[i] EXCEPT !.datum.IsAcked = send[i].tag \in NamedByBits(m)]]

MarkAcked(send, m) ==
    [i \in Slots |->
        IF /\ send[i].tag \in NamedByBits(m)
           /\ GetSequenceIndex(send[i].tag) = i
        THEN [send[i] EXCEPT !.datum.IsAcked = TRUE]
        ELSE send[i]]

(* Every datum of the message is stored as acknowledged, over whatever its *)
(* slot holds.  Two datums of a message never share a slot: they were all  *)
(* in the sender's ring, which has as many slots.                          *)
Store(receive, m) ==
    [i \in Slots |->
        IF \E d \in m.data : GetSequenceIndex(d.Sequence) = i
        THEN LET d == CHOOSE d \in m.data : GetSequenceIndex(d.Sequence) = i
             IN  [tag |-> d.Sequence, datum |-> [d EXCEPT !.IsAcked = TRUE]]
        ELSE receive[i]]

(* Mutants: lastAcked follows every message; it is the number expected next. *)
LastAckedIsLatest(e, m) == m.Sequence

LastAckedIsNext(e, m) == IF m.Sequence >= e.lastAcked THEN m.Sequence + 1 ELSE e.lastAcked

NewLastAcked(e, m) == IF m.Sequence > e.lastAcked THEN m.Sequence ELSE e.lastAcked

AfterMarkReceived(e, m) ==
    [e EXCEPT !.SendBuffer    = MarkAcked(MarkLast(e.SendBuffer, m), m),
              !.ReceiveBuffer = Store(e.ReceiveBuffer, m),
              !.lastAcked     = NewLastAcked(e, m)]
=============================================================================
