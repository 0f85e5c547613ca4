--------------------------- MODULE ReliableUdpLink ---------------------------
(***************************************************************************)
(* Two ReliableUdp endpoints that talk over UDP, as the Alice and Bob of   *)
(* Tests/ReliableUdpTests.cpp do.  UDP may lose, repeat and reorder        *)
(* messages: net only grows, a message of net may be received at any time, *)
(* any number of times, or never.                                          *)
(***************************************************************************)
EXTENDS ReliableUdp, FiniteSets

CONSTANTS
    Alice, Bob,
    Senders,   \* the peers that send
    Sizes,     \* the sizes in bytes of the datums that are sent
    MaxSent    \* bound: datums each peer sends

Peers == {Alice, Bob}

Other(p) == IF p = Alice THEN Bob ELSE Alice

ASSUME PeersAssumption == Alice # Bob /\ Senders \subseteq Peers
ASSUME SizesAssumption == Sizes \subseteq Nat
ASSUME NoPayloadAssumption == NoPayload = 0  \* payloads are numbered from 1
ASSUME MaxSentAssumption == MaxSent \in Nat

VARIABLES
    ends,       \* ends[p]: the ReliableUdp object of p
    net,        \* the messages sent so far, with their sender
    undefined,  \* undefined[p]: p's program dereferenced a null pointer
    sent,       \* observer: how many datums p sent, uncapped by uint16_t
    delivered   \* observer: the payloads of its peer p received

vars == <<ends, net, undefined, sent, delivered>>

Init ==
    /\ \E send, receive \in [Peers -> FreshBuffers] :
           ends = [p \in Peers |-> FreshEndpoint(send[p], receive[p])]
    /\ net = {}
    /\ undefined = [p \in Peers |-> FALSE]
    /\ sent = [p \in Peers |-> 0]
    /\ delivered = [p \in Peers |-> {}]

(* p sends its next datum: MarkSent, then the message goes to the socket. *)
NewDatum(p, bytes) ==
    [Sequence |-> 0, IsAcked |-> FALSE, payload |-> sent[p] + 1, bytes |-> bytes]

Send(p, bytes) ==
    /\ ~undefined[p]
    /\ sent[p] < MaxSent
    /\ ends' = [ends EXCEPT ![p] = AfterMarkSent(@, NewDatum(p, bytes))]
    /\ net' = net \cup {[from |-> p, body |-> MessageOf(ends[p], NewDatum(p, bytes), "General")]}
    /\ sent' = [sent EXCEPT ![p] = @ + 1]
    /\ UNCHANGED <<undefined, delivered>>

(* p receives a message of its peer: MarkReceived. *)
Receive(p, m) ==
    /\ ~undefined[p]
    /\ m.from = Other(p)
    /\ IF DereferencesNull(ends[p], m.body)
       THEN /\ undefined' = [undefined EXCEPT ![p] = TRUE]
            /\ UNCHANGED <<ends, delivered>>
       ELSE /\ ends' = [ends EXCEPT ![p] = AfterMarkReceived(@, m.body)]
            /\ delivered' = [delivered EXCEPT ![p] = @ \cup {d.payload : d \in m.body.data}]
            /\ UNCHANGED undefined
    /\ UNCHANGED <<net, sent>>

Next ==
    \/ \E p \in Senders, bytes \in Sizes : Send(p, bytes)
    \/ \E p \in Peers, m \in net : Receive(p, m)

Spec == Init /\ [][Next]_vars

-----------------------------------------------------------------------------
Datums == [Sequence : Seqs, IsAcked : BOOLEAN, payload : 0 .. MaxSent,
           bytes : Sizes \cup {0}]

Buffers == [Slots -> [tag : {Unset} \cup Seqs, datum : Datums]]

Endpoints == [sequence : Seqs, lastAcked : Seqs,
              SendBuffer : Buffers, ReceiveBuffer : Buffers]

Messages == [Sequence : Seqs, LastAckedSequence : Seqs,
             LastAckedBits : SUBSET (0 .. AckBits - 1),
             messageType : {"General"}, data : SUBSET Datums]

(* Every variable keeps its type: in particular the bundling and the       *)
(* marking only ever build datums with 16-bit numbers in slots of the ring.*)
TypeOK ==
    /\ ends \in [Peers -> Endpoints]
    /\ net \subseteq [from : Peers, body : Messages]
    /\ undefined \in [Peers -> BOOLEAN]
    /\ sent \in [Peers -> 0 .. MaxSent]
    /\ delivered \in [Peers -> SUBSET (0 .. MaxSent)]

(* No false acknowledgement.  A datum that a send buffer holds as          *)
(* acknowledged, and that MarkSent therefore never attaches again, was     *)
(* received by the peer, whatever was lost, repeated or reordered in       *)
(* either direction.  (MarkReceived and GenerateAcknowledgedBits.)         *)
NoFalseAck ==
    \A p \in Peers, i \in Slots :
        LET d == ends[p].SendBuffer[i].datum IN
        d.IsAcked /\ d.payload # NoPayload => d.payload \in delivered[Other(p)]

(* What a message leaves out.  Above the peer's number it carries          *)
(* (LastAckedSequence), a message holds every earlier datum that is still  *)
(* in its sender's ring, except those its peer received and those that     *)
(* really did not fit: the skipping and the stopping of the loop in        *)
(* MarkSent (ReliableUdp.cpp:19-43) lose nothing else.                     *)
Bundled(m) == {d \in m.data : d.Sequence # m.Sequence}
BodyBytes(m) == Cardinality(UNION {{d} \X (1 .. d.bytes) : d \in Bundled(m)})

LeftOut(m, p) ==
    {s \in m.LastAckedSequence + 1 .. m.Sequence - 1 :
        /\ s + BufferSize > m.Sequence
        /\ \A d \in m.data : d.Sequence # s
        /\ s \notin delivered[Other(p)]}

(* The datum that p sent as number s, with the message of that number. *)
DatumsSent(p, s) ==
    UNION {{d \in m.body.data : d.Sequence = s} : m \in {m \in net : m.from = p /\ m.body.Sequence = s}}

LeftOutOnlyIfFull ==
    \A m \in net : \A s \in LeftOut(m.body, m.from) : \A d \in DatumsSent(m.from, s) :
        HeaderBytes + BodyBytes(m.body) + d.bytes > MaxBytes

(* MarkReceived follows a null pointer (ReliableUdp.cpp:68-71) only when   *)
(* the peer acknowledges by a bit a number that the send ring has forgotten*)
(* since: BufferSize datums were sent after it.                            *)
NoNullDereference ==
    \A p \in Peers : undefined[p] =>
        \E m \in net : \E i \in m.body.LastAckedBits :
            /\ m.from = Other(p)
            /\ m.body.LastAckedSequence - (i + 1) + BufferSize <= sent[p]

(* lastAcked is the number of the newest datum received: the number this   *)
(* endpoint reports to its peer is never behind what it received.          *)
LastAckedIsNewest ==
    \A p \in Peers : \A x \in delivered[p] : 
        (\A y \in delivered[p] : y <= x) => ends[p].lastAcked = x % SeqModulus

(* The datums p knows its peer received: those its send buffer holds as    *)
(* acknowledged.                                                           *)
Acknowledged(p) ==
    {s \in 1 .. sent[p] : Holds(ends[p].SendBuffer, s) /\ Get(ends[p].SendBuffer, s).IsAcked}

Delivery == INSTANCE ReliableDelivery
                WITH Window <- BufferSize, submitted <- sent, acknowledged <- [p \in Peers |-> Acknowledged(p)]

(* Two endpoints deliver as ReliableDelivery promises: whatever is lost,   *)
(* repeated or reordered, MarkSent and MarkReceived never deliver what was *)
(* not sent, never acknowledge what was not delivered, and forget an       *)
(* acknowledgement only when the ring needs its place.                     *)
DeliverySpec == Delivery!Spec

-----------------------------------------------------------------------------
(* The inductive invariant behind NoFalseAck and LastAckedIsNewest, for    *)
(* links on which no sequence number is used twice.                        *)
NoWraparound == MaxSent < SeqModulus

(* The object numbers its datums without a gap. *)
Numbering == \A p \in Peers : ends[p].sequence = sent[p]

(* A real datum sits in the slot of its own number, and only what the peer *)
(* received is acknowledged.                                               *)
SendBuffersGenuine ==
    \A p \in Peers, i \in Slots :
        LET slot == ends[p].SendBuffer[i] IN
        /\ slot.datum.Sequence = slot.datum.payload
        /\ slot.datum.payload # 0 => slot.tag = slot.datum.payload

(* An acknowledged slot of a receive buffer is a datum that was received,  *)
(* so every bit GenerateAcknowledgedBits sets is the truth.                *)
ReceiveBuffersGenuine ==
    \A p \in Peers, i \in Slots :
        LET slot == ends[p].ReceiveBuffer[i] IN
        slot.datum.IsAcked => slot.tag \in delivered[p]

LastAckedGenuine ==
    \A p \in Peers : /\ ends[p].lastAcked \in {0} \cup delivered[p]
                     /\ \A x \in delivered[p] : x <= ends[p].lastAcked

(* What a message in flight says stays true: its sender did receive what   *)
(* the header acknowledges, and the newest datum it carries is its own.    *)
NetGenuine ==
    \A m \in net :
        /\ \A d \in m.body.data : d.Sequence = d.payload /\ d.Sequence <= m.body.Sequence
        /\ \E d \in m.body.data : d.Sequence = m.body.Sequence
        /\ m.body.LastAckedSequence \in {0} \cup delivered[m.from]
        /\ NamedByBits(m.body) \subseteq delivered[m.from]

AckInv ==
    /\ TypeOK
    /\ Numbering
    /\ SendBuffersGenuine
    /\ ReceiveBuffersGenuine
    /\ LastAckedGenuine
    /\ NetGenuine
    /\ NoFalseAck

(* The inductive invariant behind NoNullDereference: the slot of a number  *)
(* that was sent holds it or a later one, and the last BufferSize numbers  *)
(* are all there.                                                          *)
SlotOf(p, s) == ends[p].SendBuffer[GetSequenceIndex(s)]

RingHolds ==
    \A p \in Peers : \A s \in 1 .. sent[p] :
        /\ SlotOf(p, s).tag \in s .. sent[p]
        /\ SlotOf(p, s).datum.payload = SlotOf(p, s).tag
        /\ s + BufferSize > sent[p] => SlotOf(p, s).tag = s

OnlySentTravels ==
    /\ \A p \in Peers : delivered[p] \subseteq 1 .. sent[Other(p)]
    /\ \A m \in net : \A d \in m.body.data : d.payload \in 1 .. sent[m.from]

HeldInv == RingHolds /\ OnlySentTravels /\ NoNullDereference
=============================================================================
