--------------------------- MODULE ReliableUdpProofs ---------------------------
(***************************************************************************)
(* Machine-checked theorems about what a session over UDP is built on: the *)
(* link, with its numbers and acknowledgements (ReliableUdpLink), and the  *)
(* exchange of keys without either (Handshake).  They share nothing.       *)
(***************************************************************************)
EXTENDS ReliableUdpLink, Handshake, ListLemmas, FiniteSetTheorems, TLAPS

-----------------------------------------------------------------------------
(* Facts about numbers and slots.                                          *)

LEMMA IndexInSlots == \A seq \in Int : GetSequenceIndex(seq) \in Slots
  BY BufferSizeAssumption DEF GetSequenceIndex, Slots

LEMMA ModSeq == \A n \in Int : n % SeqModulus \in Seqs
  BY SeqModulusAssumption DEF Seqs

LEMMA SmallMod == \A n \in Nat : n < SeqModulus => n % SeqModulus = n
  BY SeqModulusAssumption

LEMMA SeqsInt == Seqs \subseteq Int /\ 0 \in Seqs
  BY SeqModulusAssumption DEF Seqs

-----------------------------------------------------------------------------
(* The operators of RingBuffer and ReliableUdp keep the types.             *)

LEMMA DefaultDatumType == DefaultDatum \in Datums
  BY SeqsInt, NoPayloadAssumption, MaxSentAssumption DEF DefaultDatum, Datums

LEMMA FreshBuffersType == FreshBuffers \subseteq Buffers
  BY DefaultDatumType, GarbageAssumption DEF FreshBuffers, Buffers, Seqs

LEMMA GetType ==
  ASSUME NEW buf \in Buffers, NEW seq \in Int
  PROVE  Get(buf, seq) \in Datums
  BY IndexInSlots DEF Get, Buffers

LEMMA PutType ==
  ASSUME NEW buf \in Buffers, NEW seq \in Seqs, NEW d \in Datums
  PROVE  Put(buf, seq, d) \in Buffers
  BY IndexInSlots, SeqsInt DEF Put, Buffers

LEMMA AckedType ==
  ASSUME NEW d \in Datums
  PROVE  [d EXCEPT !.IsAcked = TRUE] \in Datums
  BY DEF Datums

LEMMA NextSequenceType ==
  ASSUME NEW e \in Endpoints
  PROVE  NextSequence(e) \in Seqs
  <1>1. e.sequence \in Int
    BY SeqsInt DEF Endpoints
  <1>2. e.sequence + 1 \in Int
    BY <1>1
  <1> QED BY <1>2, ModSeq DEF NextSequence

LEMMA NumberedType ==
  ASSUME NEW e \in Endpoints, NEW d \in Datums
  PROVE  Numbered(e, d) \in Datums
  BY NextSequenceType DEF Numbered, Datums

LEMMA SendBufferWithType ==
  ASSUME NEW e \in Endpoints, NEW d \in Datums
  PROVE  SendBufferWith(e, d) \in Buffers
  BY NextSequenceType, NumberedType, PutType DEF SendBufferWith, Endpoints

LEMMA AfterMarkSentType ==
  ASSUME NEW e \in Endpoints, NEW d \in Datums
  PROVE  AfterMarkSent(e, d) \in Endpoints
  BY NextSequenceType, SendBufferWithType DEF AfterMarkSent, Endpoints

LEMMA AttachedType ==
  ASSUME NEW e \in Endpoints, NEW send \in Buffers
  PROVE  Attached(e, send) \subseteq Seqs
  <1>1. Visited(e, send) \subseteq e.lastAcked + 1 .. e.sequence
    BY DEF Visited
  <1>2. e.lastAcked + 1 .. e.sequence \subseteq Seqs
    BY SeqModulusAssumption DEF Endpoints, Seqs
  <1>3. Attached(e, send) \subseteq Visited(e, send)
    BY DEF Attached
  <1> QED BY <1>1, <1>2, <1>3

LEMMA MessageOfType ==
  ASSUME NEW e \in Endpoints, NEW d \in Datums
  PROVE  MessageOf(e, d, "General") \in Messages
  <1> DEFINE send == SendBufferWith(e, d)
  <1>1. NextSequence(e) \in Seqs /\ e.lastAcked \in Seqs
    BY NextSequenceType DEF Endpoints
  <1>2. GenerateAcknowledgedBits(e) \subseteq 0 .. AckBits - 1
    BY DEF GenerateAcknowledgedBits
  <1>3. {Get(send, i) : i \in Attached(e, send)} \subseteq Datums
    BY SendBufferWithType, AttachedType, GetType, SeqsInt
  <1>4. Numbered(e, d) \in Datums
    BY NumberedType
  <1> HIDE DEF send
  <1>5. MessageOf(e, d, "General") =
           [Sequence |-> NextSequence(e), LastAckedSequence |-> e.lastAcked,
            LastAckedBits |-> GenerateAcknowledgedBits(e), messageType |-> "General",
            data |-> {Numbered(e, d)} \cup {Get(send, i) : i \in Attached(e, send)}]
    BY DEF MessageOf, send
  <1> QED BY <1>1, <1>2, <1>3, <1>4, <1>5 DEF Messages

LEMMA MarkLastType ==
  ASSUME NEW send \in Buffers, NEW m \in Messages
  PROVE  MarkLast(send, m) \in Buffers
  <1>1. m.LastAckedSequence \in Seqs
    BY DEF Messages
  <1>2. Get(send, m.LastAckedSequence) \in Datums
    BY <1>1, GetType, SeqsInt
  <1>3. Get(send, m.LastAckedSequence).Sequence \in Seqs
    BY <1>2 DEF Datums
  <1> QED BY <1>2, <1>3, AckedType, PutType DEF MarkLast

LEMMA MarkAckedType ==
  ASSUME NEW send \in Buffers, NEW m \in Messages
  PROVE  MarkAcked(send, m) \in Buffers
  BY AckedType DEF MarkAcked, Buffers

LEMMA StoreType ==
  ASSUME NEW receive \in Buffers, NEW m \in Messages
  PROVE  Store(receive, m) \in Buffers
  <1> DEFINE at(i) == CHOOSE d \in m.data : GetSequenceIndex(d.Sequence) = i
  <1>1. ASSUME NEW i \in Slots, \E d \in m.data : GetSequenceIndex(d.Sequence) = i
        PROVE  /\ at(i) \in Datums
               /\ at(i).Sequence \in Seqs
               /\ [at(i) EXCEPT !.IsAcked = TRUE] \in Datums
    <2>1. at(i) \in m.data
      BY <1>1
    <2>2. at(i) \in Datums
      BY <2>1 DEF Messages
    <2> QED BY <2>2, AckedType DEF Datums
  <1> HIDE DEF at
  <1>2. Store(receive, m) =
          [i \in Slots |-> IF \E d \in m.data : GetSequenceIndex(d.Sequence) = i
                           THEN [tag |-> at(i).Sequence,
                                 datum |-> [at(i) EXCEPT !.IsAcked = TRUE]]
                           ELSE receive[i]]
    BY DEF Store, at
  <1> QED BY <1>1, <1>2 DEF Buffers

LEMMA AfterMarkReceivedType ==
  ASSUME NEW e \in Endpoints, NEW m \in Messages
  PROVE  AfterMarkReceived(e, m) \in Endpoints
  <1>1. MarkAcked(MarkLast(e.SendBuffer, m), m) \in Buffers
    BY MarkLastType, MarkAckedType DEF Endpoints
  <1>2. Store(e.ReceiveBuffer, m) \in Buffers
    BY StoreType DEF Endpoints
  <1>3. m.Sequence \in Seqs
    BY DEF Messages
  <1> QED BY <1>1, <1>2, <1>3 DEF AfterMarkReceived, NewLastAcked, Endpoints

-----------------------------------------------------------------------------
(* Type correctness.                                                       *)

LEMMA OtherPeer == \A p \in Peers : Other(p) \in Peers /\ Other(Other(p)) = p
  BY PeersAssumption DEF Other, Peers

LEMMA NewDatumType ==
  ASSUME TypeOK, NEW p \in Peers, NEW bytes \in Sizes, sent[p] < MaxSent
  PROVE  NewDatum(p, bytes) \in Datums
  BY SeqsInt, MaxSentAssumption DEF TypeOK, NewDatum, Datums

LEMMA InitType == Init => TypeOK
  <1> SUFFICES ASSUME Init PROVE TypeOK
    OBVIOUS
  <1>1. PICK send \in [Peers -> FreshBuffers], receive \in [Peers -> FreshBuffers] :
          ends = [p \in Peers |-> FreshEndpoint(send[p], receive[p])]
    BY DEF Init
  <1>2. \A p \in Peers : send[p] \in Buffers /\ receive[p] \in Buffers
    BY FreshBuffersType
  <1>3. \A p \in Peers : FreshEndpoint(send[p], receive[p]) \in Endpoints
    BY <1>2, SeqsInt DEF FreshEndpoint, Endpoints
  <1>4. ends \in [Peers -> Endpoints]
    BY <1>1, <1>3
  <1> QED BY <1>4, MaxSentAssumption DEF Init, TypeOK

LEMMA SendType ==
  ASSUME TypeOK, NEW p \in Senders, NEW bytes \in Sizes, Send(p, bytes)
  PROVE  TypeOK'
  <1> p \in Peers
    BY PeersAssumption
  <1>1. NewDatum(p, bytes) \in Datums
    BY NewDatumType DEF Send
  <1>2. ends[p] \in Endpoints
    BY DEF TypeOK
  <1>3. ends' \in [Peers -> Endpoints]
    BY <1>1, <1>2, AfterMarkSentType DEF Send, TypeOK
  <1>4. net' \subseteq [from : Peers, body : Messages]
    BY <1>1, <1>2, MessageOfType DEF Send, TypeOK
  <1>5. sent' \in [Peers -> 0 .. MaxSent]
    BY MaxSentAssumption DEF Send, TypeOK
  <1> QED BY <1>3, <1>4, <1>5 DEF Send, TypeOK

LEMMA ReceiveType ==
  ASSUME TypeOK, NEW p \in Peers, NEW m \in net, Receive(p, m)
  PROVE  TypeOK'
  <1>1. m.body \in Messages /\ ends[p] \in Endpoints
    BY DEF TypeOK
  <1>2. {d.payload : d \in m.body.data} \subseteq 0 .. MaxSent
    BY <1>1 DEF Messages, Datums
  <1>3. CASE DereferencesNull(ends[p], m.body)
    BY <1>3 DEF Receive, TypeOK
  <1>4. CASE ~DereferencesNull(ends[p], m.body)
    <2>1. ends' \in [Peers -> Endpoints]
      BY <1>1, <1>4, AfterMarkReceivedType DEF Receive, TypeOK
    <2>2. delivered' \in [Peers -> SUBSET (0 .. MaxSent)]
      BY <1>2, <1>4 DEF Receive, TypeOK
    <2> QED BY <1>4, <2>1, <2>2 DEF Receive, TypeOK
  <1> QED BY <1>3, <1>4

(* Every variable of a link keeps its type, however long the ring, the     *)
(* acknowledgement window and the sequence numbers are.                    *)
THEOREM TypeCorrect == Spec => []TypeOK
  <1>1. TypeOK /\ [Next]_vars => TypeOK'
    <2> SUFFICES ASSUME TypeOK, [Next]_vars PROVE TypeOK'
      OBVIOUS
    <2>1. CASE \E p \in Senders, bytes \in Sizes : Send(p, bytes)
      BY <2>1, SendType
    <2>2. CASE \E p \in Peers, m \in net : Receive(p, m)
      BY <2>2, ReceiveType
    <2>3. CASE UNCHANGED vars
      BY <2>3 DEF vars, TypeOK
    <2> QED BY <2>1, <2>2, <2>3 DEF Next
  <1> QED BY InitType, <1>1, PTL DEF Spec

-----------------------------------------------------------------------------
(* Acknowledgements are truthful: NoFalseAck and LastAckedIsNewest hold of *)
(* every link on which no sequence number is used twice, whatever UDP      *)
(* loses, repeats or reorders, however small the ring and the window are   *)
(* and whatever uninitialised memory holds.                                *)

(* The two facts about a send buffer that the marking preserves. *)
Genuine(buf) ==
    \A i \in Slots : /\ buf[i].datum.Sequence = buf[i].datum.payload
                     /\ buf[i].datum.payload # 0 => buf[i].tag = buf[i].datum.payload

AckedWithin(buf, S) ==
    \A i \in Slots : buf[i].datum.IsAcked /\ buf[i].datum.payload # 0
                         => buf[i].datum.payload \in S

-----------------------------------------------------------------------------
(* MarkReceived on the send buffer.                                        *)

LEMMA MarkLastGenuine ==
  ASSUME NEW send \in Buffers, NEW m \in Messages, NEW S,
         Genuine(send), AckedWithin(send, S), m.LastAckedSequence \in {0} \cup S
  PROVE  Genuine(MarkLast(send, m)) /\ AckedWithin(MarkLast(send, m), S)
  <1> DEFINE L == m.LastAckedSequence
             d == Get(send, L)
             k == GetSequenceIndex(d.Sequence)
             acked == [d EXCEPT !.IsAcked = TRUE]
  <1>1. CASE ~Holds(send, L)
    BY <1>1 DEF MarkLast
  <1>2. CASE Holds(send, L)
    <2>1. L \in Int /\ GetSequenceIndex(L) \in Slots
      BY IndexInSlots, SeqsInt DEF Messages
    <2>2. d \in Datums /\ d.Sequence \in Int
      BY <2>1, GetType, SeqsInt DEF Datums
    <2>3. k \in Slots
      BY <2>2, IndexInSlots
    <2>4. d.Sequence = d.payload /\ (d.payload # 0 => d.payload = L)
      BY <1>2, <2>1 DEF Genuine, Get, Holds
    <2>5. /\ acked.Sequence = d.Sequence
          /\ acked.payload = d.payload
      BY <2>2 DEF Datums
    <2>6. MarkLast(send, m) =
            [send EXCEPT ![k] = [tag |-> d.Sequence, datum |-> acked]]
      BY <1>2 DEF MarkLast, Put
    <2>7. ASSUME NEW i \in Slots
          PROVE  MarkLast(send, m)[i] = IF i = k THEN [tag |-> d.Sequence, datum |-> acked]
                                                 ELSE send[i]
      BY <2>3, <2>6 DEF Buffers
    <2> HIDE DEF L, d, k, acked
    <2>8. d.payload # 0 => d.payload \in S
      BY <2>4 DEF L
    <2> QED BY <2>4, <2>5, <2>7, <2>8 DEF Genuine, AckedWithin
  <1> QED BY <1>1, <1>2

LEMMA MarkAckedGenuine ==
  ASSUME NEW send \in Buffers, NEW m, NEW S,
         Genuine(send), AckedWithin(send, S), NamedByBits(m) \subseteq S
  PROVE  Genuine(MarkAcked(send, m)) /\ AckedWithin(MarkAcked(send, m), S)
  <1>1. ASSUME NEW i \in Slots
        PROVE  /\ MarkAcked(send, m)[i].tag = send[i].tag
               /\ MarkAcked(send, m)[i].datum.Sequence = send[i].datum.Sequence
               /\ MarkAcked(send, m)[i].datum.payload = send[i].datum.payload
               /\ \/ MarkAcked(send, m)[i].datum.IsAcked = send[i].datum.IsAcked
                  \/ send[i].tag \in NamedByBits(m)
    BY DEF MarkAcked, Buffers, Datums
  <1> QED BY <1>1 DEF Genuine, AckedWithin

LEMMA StoreGenuine ==
  ASSUME NEW receive \in Buffers, NEW m \in Messages, NEW i \in Slots,
         Store(receive, m)[i].datum.IsAcked,
         \A d \in m.data : d.Sequence = d.payload
  PROVE  \/ receive[i].datum.IsAcked /\ Store(receive, m)[i].tag = receive[i].tag
         \/ Store(receive, m)[i].tag \in {d.payload : d \in m.data}
  <1> DEFINE at == CHOOSE d \in m.data : GetSequenceIndex(d.Sequence) = i
  <1>1. CASE \E d \in m.data : GetSequenceIndex(d.Sequence) = i
    <2>1. at \in m.data
      BY <1>1
    <2>2. Store(receive, m)[i] = [tag |-> at.Sequence, datum |-> [at EXCEPT !.IsAcked = TRUE]]
      BY <1>1 DEF Store
    <2>3. Store(receive, m)[i].tag = at.Sequence
      BY <2>2
    <2> QED BY <2>1, <2>3
  <1>2. CASE ~ \E d \in m.data : GetSequenceIndex(d.Sequence) = i
    <2>1. Store(receive, m)[i] = receive[i]
      BY <1>2 DEF Store
    <2> QED BY <2>1
  <1> QED BY <1>1, <1>2

-----------------------------------------------------------------------------
(* What MarkSent builds.                                                   *)

LEMMA BitsGenuine ==
  ASSUME NEW e \in Endpoints, NEW dat, NEW type, NEW S,
         \A i \in Slots : e.ReceiveBuffer[i].datum.IsAcked => e.ReceiveBuffer[i].tag \in S
  PROVE  NamedByBits(MessageOf(e, dat, type)) \subseteq S
  <1> SUFFICES ASSUME NEW i \in GenerateAcknowledgedBits(e)
               PROVE  Before(e.lastAcked, i + 1) \in S
    BY DEF NamedByBits, MessageOf
  <1> DEFINE s == Before(e.lastAcked, i + 1)
  <1>1. i \in 0 .. AckBits - 1
    BY DEF GenerateAcknowledgedBits
  <1>2. Holds(e.ReceiveBuffer, s) /\ Get(e.ReceiveBuffer, s).IsAcked
    BY <1>1, AckBitsAssumption DEF GenerateAcknowledgedBits
  <1>3. s \in Int
    <2>1. e.lastAcked \in Int
      BY SeqsInt DEF Endpoints
    <2>2. i \in Int
      BY <1>1
    <2>3. e.lastAcked - (i + 1) \in Int
      BY <2>1, <2>2
    <2> QED BY <2>3, ModSeq, SeqsInt DEF Before
  <1>4. GetSequenceIndex(s) \in Slots
    BY <1>3, IndexInSlots
  <1> HIDE DEF s
  <1>5. s \in S
    BY <1>2, <1>4 DEF Holds, Get
  <1> QED BY <1>5 DEF s

LEMMA DataGenuine ==
  ASSUME NEW e \in Endpoints, NEW dat \in Datums, NEW type, Genuine(SendBufferWith(e, dat)),
         NEW d \in MessageOf(e, dat, type).data, d # Numbered(e, dat)
  PROVE  /\ d.Sequence = d.payload
         /\ d.Sequence <= e.sequence
         /\ \E i \in e.lastAcked + 1 .. e.sequence : /\ Holds(SendBufferWith(e, dat), i)
                                                     /\ d = Get(SendBufferWith(e, dat), i)
  <1> DEFINE send == SendBufferWith(e, dat)
  <1>1. PICK i \in Attached(e, send) : d = Get(send, i)
    BY DEF MessageOf
  <1>2. i \in Visited(e, send)
    BY DEF Attached
  <1>3. /\ i \in e.lastAcked + 1 .. e.sequence
        /\ \A j \in i .. e.sequence : Holds(send, j)
    BY <1>2 DEF Visited
  <1>4. e.lastAcked \in Nat /\ e.sequence \in Nat /\ i \in Int /\ i <= e.sequence
    BY <1>3, SeqModulusAssumption DEF Endpoints, Seqs
  <1>5. Holds(send, i)
    BY <1>3, <1>4
  <1>6. GetSequenceIndex(i) \in Slots
    BY <1>4, IndexInSlots
  <1> HIDE DEF send
  <1>7. d.Sequence = d.payload /\ (d.payload # 0 => d.payload = i)
    BY <1>1, <1>5, <1>6 DEF Genuine, Holds, Get, send
  <1>8. d.Sequence <= e.sequence
    BY <1>4, <1>7
  <1> QED BY <1>1, <1>3, <1>5, <1>7, <1>8 DEF send

-----------------------------------------------------------------------------
(* The invariant holds initially and every step preserves it.              *)

LEMMA AckInvInit == Init => AckInv
  <1> SUFFICES ASSUME Init PROVE AckInv
    OBVIOUS
  <1>1. TypeOK
    BY InitType
  <1>2. PICK send \in [Peers -> FreshBuffers], receive \in [Peers -> FreshBuffers] :
          ends = [p \in Peers |-> FreshEndpoint(send[p], receive[p])]
    BY DEF Init
  <1>3. \A p \in Peers : /\ ends[p].sequence = 0
                         /\ ends[p].lastAcked = 0
                         /\ ends[p].SendBuffer \in FreshBuffers
                         /\ ends[p].ReceiveBuffer \in FreshBuffers
    BY <1>2 DEF FreshEndpoint
  <1>4. \A buf \in FreshBuffers, i \in Slots : buf[i].datum = DefaultDatum
    BY DEF FreshBuffers
  <1>5. \A p \in Peers, i \in Slots : /\ ends[p].SendBuffer[i].datum = DefaultDatum
                                     /\ ends[p].ReceiveBuffer[i].datum = DefaultDatum
    BY <1>3, <1>4
  <1>6. /\ DefaultDatum.IsAcked = FALSE
        /\ DefaultDatum.Sequence = 0
        /\ DefaultDatum.payload = 0
    BY NoPayloadAssumption DEF DefaultDatum
  <1>7. SendBuffersGenuine /\ ReceiveBuffersGenuine /\ NoFalseAck
    BY <1>5, <1>6 DEF SendBuffersGenuine, ReceiveBuffersGenuine, NoFalseAck
  <1>8. Numbering /\ LastAckedGenuine /\ NetGenuine
    BY <1>3 DEF Init, Numbering, LastAckedGenuine, NetGenuine
  <1> QED BY <1>1, <1>7, <1>8 DEF AckInv

LEMMA AckInvSend ==
  ASSUME NoWraparound, AckInv, NEW p \in Senders, NEW bytes \in Sizes, Send(p, bytes)
  PROVE  AckInv'
  <1> DEFINE e == ends[p]
             dat == NewDatum(p, bytes)
             n == sent[p] + 1
             m == MessageOf(e, dat, "General")
             send == SendBufferWith(e, dat)
             k == GetSequenceIndex(n)
  <1> p \in Peers
    BY PeersAssumption
  <1> USE DEF AckInv
  <1>1. TypeOK'
    BY SendType
  <1>2. e \in Endpoints /\ dat \in Datums /\ sent[p] \in Nat /\ n \in Nat /\ n < SeqModulus
    BY NewDatumType, MaxSentAssumption, SeqModulusAssumption DEF Send, TypeOK, NoWraparound
  <1>3. NextSequence(e) = n
    BY <1>2, SmallMod DEF Numbering, NextSequence
  <1>4. /\ Numbered(e, dat).Sequence = n
        /\ Numbered(e, dat).payload = n
        /\ Numbered(e, dat).IsAcked = FALSE
    BY <1>2, <1>3 DEF Numbered, NewDatum
  <1>5. /\ ends' = [ends EXCEPT ![p] = AfterMarkSent(e, dat)]
        /\ net' = net \cup {[from |-> p, body |-> m]}
        /\ sent' = [sent EXCEPT ![p] = n]
        /\ delivered' = delivered
    BY DEF Send
  <1>6. ends \in [Peers -> Endpoints] /\ sent \in [Peers -> 0 .. MaxSent]
    BY DEF TypeOK
  <1>7. /\ AfterMarkSent(e, dat).sequence = n
        /\ AfterMarkSent(e, dat).lastAcked = e.lastAcked
        /\ AfterMarkSent(e, dat).SendBuffer = send
        /\ AfterMarkSent(e, dat).ReceiveBuffer = e.ReceiveBuffer
    BY <1>2, <1>3 DEF AfterMarkSent, Endpoints
  <1>8. send = [e.SendBuffer EXCEPT ![k] = [tag |-> n, datum |-> Numbered(e, dat)]]
    BY <1>3 DEF SendBufferWith, Put
  <1>9. k \in Slots
    BY <1>2, IndexInSlots
  <1>10. ASSUME NEW i \in Slots
         PROVE  send[i] = IF i = k THEN [tag |-> n, datum |-> Numbered(e, dat)]
                                   ELSE e.SendBuffer[i]
    BY <1>2, <1>8, <1>9 DEF Endpoints, Buffers
  <1>11. Genuine(send)
    BY <1>4, <1>10 DEF Genuine, SendBuffersGenuine
  <1>12. AckedWithin(send, delivered[Other(p)])
    BY <1>4, <1>10, NoPayloadAssumption DEF AckedWithin, NoFalseAck
  <1> HIDE DEF e, dat, n, m, send, k
  <1>13. Numbering'
    BY <1>5, <1>6, <1>7 DEF Numbering
  <1>14. SendBuffersGenuine'
    BY <1>5, <1>6, <1>7, <1>11 DEF SendBuffersGenuine, Genuine
  <1>15. NoFalseAck'
    BY <1>5, <1>6, <1>7, <1>12, NoPayloadAssumption DEF NoFalseAck, AckedWithin
  <1>16. ReceiveBuffersGenuine'
    BY <1>5, <1>6, <1>7 DEF ReceiveBuffersGenuine, e
  <1>17. LastAckedGenuine'
    BY <1>5, <1>6, <1>7 DEF LastAckedGenuine, e
  <1>18. NetGenuine'
    <2>1. m.Sequence = n /\ m.LastAckedSequence = e.lastAcked /\ Numbered(e, dat) \in m.data
      BY <1>3 DEF MessageOf, m
    <2>2. NamedByBits(m) \subseteq delivered[p]
      BY <1>2, BitsGenuine DEF ReceiveBuffersGenuine, m, e
    <2>3. e.sequence = sent[p]
      BY DEF Numbering, e
    <2>4. ASSUME NEW d \in m.data
          PROVE  d.Sequence = d.payload /\ d.Sequence <= n
      <3>1. CASE d = Numbered(e, dat)
        BY <1>2, <1>4, <3>1
      <3>2. CASE d # Numbered(e, dat)
        <4>1. d.Sequence = d.payload /\ d.Sequence <= e.sequence
          BY <1>2, <1>11, <3>2, DataGenuine DEF m, send
        <4>2. d.Sequence \in Int
          <5>1. m \in Messages
            BY <1>2, MessageOfType DEF m
          <5> QED BY <5>1, SeqsInt DEF Messages, Datums
        <4> QED BY <1>2, <2>3, <4>1, <4>2 DEF n
      <3> QED BY <3>1, <3>2
    <2>5. m.LastAckedSequence \in {0} \cup delivered[p]
      BY <2>1 DEF LastAckedGenuine, e
    <2>6. \E d \in m.data : d.Sequence = m.Sequence
      BY <1>4, <2>1
    <2> QED BY <1>5, <2>1, <2>2, <2>4, <2>5, <2>6 DEF NetGenuine
  <1> QED BY <1>1, <1>13, <1>14, <1>15, <1>16, <1>17, <1>18

LEMMA AckInvReceive ==
  ASSUME AckInv, NEW p \in Peers, NEW m \in net, Receive(p, m)
  PROVE  AckInv'
  <1> DEFINE e == ends[p]
             b == m.body
             got == {d.payload : d \in b.data}
             send == MarkAcked(MarkLast(e.SendBuffer, b), b)
             receive == Store(e.ReceiveBuffer, b)
  <1> USE DEF AckInv
  <1>1. TypeOK'
    BY ReceiveType
  <1>2. CASE DereferencesNull(ends[p], m.body)
    <2>1. UNCHANGED <<ends, net, sent, delivered>>
      BY <1>2 DEF Receive
    <2> QED BY <1>1, <2>1 DEF Numbering, SendBuffersGenuine, ReceiveBuffersGenuine,
                              LastAckedGenuine, NetGenuine, NoFalseAck
  <1>3. CASE ~DereferencesNull(ends[p], m.body)
    <2>1. /\ ends' = [ends EXCEPT ![p] = AfterMarkReceived(e, b)]
          /\ delivered' = [delivered EXCEPT ![p] = @ \cup got]
          /\ net' = net /\ sent' = sent /\ m.from = Other(p)
      BY <1>3 DEF Receive
    <2>2. /\ ends \in [Peers -> Endpoints]
          /\ delivered \in [Peers -> SUBSET (0 .. MaxSent)]
          /\ e \in Endpoints /\ b \in Messages
          /\ e.SendBuffer \in Buffers /\ e.ReceiveBuffer \in Buffers
      BY DEF TypeOK, Endpoints
    <2>3. Other(p) \in Peers /\ Other(p) # p
      BY PeersAssumption DEF Other, Peers
    <2>4. /\ AfterMarkReceived(e, b).sequence = e.sequence
          /\ AfterMarkReceived(e, b).lastAcked =
                 (IF b.Sequence > e.lastAcked THEN b.Sequence ELSE e.lastAcked)
          /\ AfterMarkReceived(e, b).SendBuffer = send
          /\ AfterMarkReceived(e, b).ReceiveBuffer = receive
      BY <2>2 DEF AfterMarkReceived, NewLastAcked, Endpoints
    <2>5. /\ \A d \in b.data : d.Sequence = d.payload /\ d.Sequence <= b.Sequence
          /\ \E d \in b.data : d.Sequence = b.Sequence
          /\ b.LastAckedSequence \in {0} \cup delivered[Other(p)]
          /\ NamedByBits(b) \subseteq delivered[Other(p)]
      BY <2>1 DEF NetGenuine
    <2>6. Genuine(send) /\ AckedWithin(send, delivered[Other(p)])
      <3>1. Genuine(e.SendBuffer) /\ AckedWithin(e.SendBuffer, delivered[Other(p)])
        BY NoPayloadAssumption DEF Genuine, AckedWithin, SendBuffersGenuine, NoFalseAck
      <3>2. /\ Genuine(MarkLast(e.SendBuffer, b))
            /\ AckedWithin(MarkLast(e.SendBuffer, b), delivered[Other(p)])
        BY <2>2, <2>5, <3>1, MarkLastGenuine
      <3> QED BY <2>2, <2>5, <3>2, MarkAckedGenuine, MarkLastType
    <2>7. ASSUME NEW i \in Slots, receive[i].datum.IsAcked
          PROVE  receive[i].tag \in delivered[p] \cup got
      BY <2>2, <2>5, <2>7, StoreGenuine DEF ReceiveBuffersGenuine
    <2>8. b.Sequence \in got
      BY <2>5
    <2> HIDE DEF e, b, got, send, receive
    <2>9. \A q \in Peers : delivered[q] \subseteq delivered'[q]
      BY <2>1, <2>2
    <2>10. Numbering'
      BY <2>1, <2>2, <2>4 DEF Numbering, e
    <2>11. SendBuffersGenuine'
      BY <2>1, <2>2, <2>4, <2>6 DEF SendBuffersGenuine, Genuine
    <2>12. NoFalseAck'
      <3> SUFFICES ASSUME NEW q \in Peers, NEW i \in Slots,
                          ends'[q].SendBuffer[i].datum.IsAcked,
                          ends'[q].SendBuffer[i].datum.payload # NoPayload
                   PROVE  ends'[q].SendBuffer[i].datum.payload \in delivered[Other(q)]
        BY <2>9, OtherPeer DEF NoFalseAck
      <3>1. CASE q = p
        BY <2>1, <2>2, <2>4, <2>6, <3>1, NoPayloadAssumption DEF AckedWithin
      <3>2. CASE q # p
        BY <2>1, <2>2, <3>2 DEF NoFalseAck
      <3> QED BY <3>1, <3>2
    <2>13. ReceiveBuffersGenuine'
      BY <2>1, <2>2, <2>4, <2>7 DEF ReceiveBuffersGenuine
    <2>14. LastAckedGenuine'
      <3> DEFINE last == IF b.Sequence > e.lastAcked THEN b.Sequence ELSE e.lastAcked
      <3>1. e.lastAcked \in Int /\ b.Sequence \in Int
        BY <2>2, SeqsInt DEF Endpoints, Messages
      <3>2. delivered[p] \subseteq Int /\ got \subseteq Int
        BY <2>2, SeqsInt DEF got, Messages, Datums
      <3>3. last \in {0} \cup delivered[p] \cup got
        BY <2>8 DEF LastAckedGenuine, e
      <3>4. \A x \in delivered[p] : x <= e.lastAcked
        BY DEF LastAckedGenuine, e
      <3>5. \A x \in got : x <= b.Sequence
        BY <2>5 DEF got
      <3>6. \A x \in delivered[p] \cup got : x <= last
        <4>1. last \in Int /\ e.lastAcked <= last /\ b.Sequence <= last
          BY <3>1
        <4> HIDE DEF last
        <4>2. ASSUME NEW x \in delivered[p] \cup got
              PROVE  x <= last
          <5>1. x \in Int /\ (x <= e.lastAcked \/ x <= b.Sequence)
            BY <3>2, <3>4, <3>5
          <5> QED BY <3>1, <4>1, <5>1
        <4> QED BY <4>2
      <3>7. ends'[p].lastAcked = last /\ delivered'[p] = delivered[p] \cup got
        BY <2>1, <2>2, <2>4
      <3> HIDE DEF last
      <3>8. \A q \in Peers : q # p => /\ ends'[q].lastAcked = ends[q].lastAcked
                                     /\ delivered'[q] = delivered[q]
        BY <2>1, <2>2
      <3> SUFFICES ASSUME NEW q \in Peers
                   PROVE  /\ ends'[q].lastAcked \in {0} \cup delivered'[q]
                          /\ \A x \in delivered'[q] : x <= ends'[q].lastAcked
        BY DEF LastAckedGenuine
      <3>9. CASE q = p
        BY <3>3, <3>6, <3>7, <3>9
      <3>10. CASE q # p
        BY <3>8, <3>10 DEF LastAckedGenuine
      <3> QED BY <3>9, <3>10
    <2>15. NetGenuine'
      <3>1. \A x \in net : x.from \in Peers
        BY DEF TypeOK
      <3> QED BY <2>1, <2>9, <3>1 DEF NetGenuine
    <2> QED BY <1>1, <2>10, <2>11, <2>12, <2>13, <2>14, <2>15
  <1> QED BY <1>2, <1>3

LEMMA AckInvStutter == AckInv /\ UNCHANGED vars => AckInv'
  BY DEF vars, AckInv, TypeOK, Numbering, SendBuffersGenuine, ReceiveBuffersGenuine,
         LastAckedGenuine, NetGenuine, NoFalseAck

(* The invariant is inductive when no sequence number is used twice. *)
THEOREM AckInvariant == ASSUME NoWraparound PROVE Spec => []AckInv
  <1>1. AckInv /\ [Next]_vars => AckInv'
    BY AckInvSend, AckInvReceive, AckInvStutter DEF Next
  <1> QED BY AckInvInit, <1>1, PTL DEF Spec

(* A datum that a side stops repeating because it was acknowledged did     *)
(* reach the peer.                                                         *)
THEOREM AckedWasDelivered == ASSUME NoWraparound PROVE Spec => []NoFalseAck
  <1>1. AckInv => NoFalseAck
    BY DEF AckInv
  <1> QED BY <1>1, AckInvariant, PTL

(* The number a side acknowledges to its peer is that of the newest datum  *)
(* it received.                                                            *)
THEOREM AcknowledgesNewest == ASSUME NoWraparound PROVE Spec => []LastAckedIsNewest
  <1>1. AckInv => LastAckedIsNewest
    <2> SUFFICES ASSUME AckInv, NEW p \in Peers, NEW x \in delivered[p],
                        \A y \in delivered[p] : y <= x
                 PROVE  ends[p].lastAcked = x % SeqModulus
      BY DEF LastAckedIsNewest
    <2>1. x \in 0 .. MaxSent /\ delivered[p] \subseteq 0 .. MaxSent
      BY DEF AckInv, TypeOK
    <2>2. x % SeqModulus = x
      BY <2>1, SmallMod, MaxSentAssumption, SeqModulusAssumption DEF NoWraparound
    <2>3. ends[p].lastAcked \in {0} \cup delivered[p] /\ x <= ends[p].lastAcked
      BY DEF AckInv, LastAckedGenuine
    <2> QED BY <2>1, <2>2, <2>3, MaxSentAssumption
  <1> QED BY <1>1, AckInvariant, PTL

-----------------------------------------------------------------------------
(* On a link on which no sequence number is used twice, whose ring may be   *)
(* overwritten any number of times, a null pointer is followed only for a  *)
(* number that is a ring behind, and the two objects implement             *)
(* ReliableDelivery.                                                       *)

(* Two numbers that are less than a ring apart do not share a slot. *)
LEMMA OneInWindow ==
  ASSUME NEW a \in Nat, NEW b \in Nat, a <= b, b < a + BufferSize,
         GetSequenceIndex(a) = GetSequenceIndex(b)
  PROVE  a = b
  <1> DEFINE B == BufferSize
  <1>0. B \in Nat \ {0} /\ a % B = b % B
    BY BufferSizeAssumption DEF GetSequenceIndex
  <1>1. PICK x \in Int, y \in Int, r \in Int : a = (B * x) + r /\ b = (B * y) + r
    <2>1. a = (B * (a \div B)) + (a % B) /\ b = (B * (b \div B)) + (b % B)
      BY <1>0
    <2>2. a \div B \in Int /\ b \div B \in Int /\ a % B \in Int
      BY <1>0
    <2> QED BY <1>0, <2>1, <2>2
  <1>2. PICK d \in Int : d = y - x
    OBVIOUS
  <1> HIDE DEF B
  <1>3. b - a = B * d
    BY ONLY <1>0, <1>1, <1>2
  <1>4. CASE d >= 1
    <2>1. B * d >= B
      BY ONLY <1>0, <1>2, <1>4
    <2> QED BY <1>0, <1>3, <2>1 DEF B
  <1>5. CASE d <= -1
    <2>1. B * d <= -B
      BY ONLY <1>0, <1>2, <1>5
    <2> QED BY <1>0, <1>3, <2>1 DEF B
  <1>6. CASE d = 0
    BY <1>0, <1>3, <1>6
  <1> QED BY <1>2, <1>4, <1>5, <1>6

(* MarkReceived moves no datum of a send buffer to another slot, and only  *)
(* ever turns IsAcked on.                                                  *)
Keeps(old, new) ==
    \A i \in Slots : /\ new[i].tag = old[i].tag
                     /\ new[i].datum.payload = old[i].datum.payload
                     /\ new[i].datum.bytes = old[i].datum.bytes
                     /\ old[i].datum.IsAcked => new[i].datum.IsAcked

LEMMA MarkLastKeeps ==
  ASSUME NEW send \in Buffers, NEW m \in Messages, Genuine(send),
         \/ m.LastAckedSequence = 0
         \/ Holds(send, m.LastAckedSequence) =>
              Get(send, m.LastAckedSequence).payload = m.LastAckedSequence
  PROVE  Keeps(send, MarkLast(send, m))
  <1> DEFINE L == m.LastAckedSequence
             d == Get(send, L)
             k == GetSequenceIndex(L)
             acked == [d EXCEPT !.IsAcked = TRUE]
  <1>1. CASE ~Holds(send, L)
    BY <1>1 DEF MarkLast, Keeps
  <1>2. CASE Holds(send, L)
    <2>1. L \in Int /\ k \in Slots
      BY IndexInSlots, SeqsInt DEF Messages
    <2>2. send[k].tag = L /\ d = send[k].datum
      BY <1>2 DEF Holds, Get
    <2>3. d \in Datums
      BY <2>1, GetType
    <2>4. d.Sequence = L
      BY <1>2, <2>1, <2>2 DEF Genuine
    <2>5. acked.payload = d.payload /\ acked.bytes = d.bytes /\ acked.IsAcked = TRUE
      BY <2>3 DEF Datums
    <2>6. MarkLast(send, m) = [send EXCEPT ![k] = [tag |-> L, datum |-> acked]]
      BY <1>2, <2>4 DEF MarkLast, Put
    <2>7. ASSUME NEW i \in Slots
          PROVE  MarkLast(send, m)[i] = IF i = k THEN [tag |-> L, datum |-> acked] ELSE send[i]
      BY <2>1, <2>6 DEF Buffers
    <2> HIDE DEF L, d, k, acked
    <2> QED BY <2>2, <2>5, <2>7 DEF Keeps
  <1> QED BY <1>1, <1>2

LEMMA MarkAckedKeeps ==
  ASSUME NEW send \in Buffers, NEW m
  PROVE  Keeps(send, MarkAcked(send, m))
  <1> SUFFICES ASSUME NEW i \in Slots
               PROVE  /\ MarkAcked(send, m)[i].tag = send[i].tag
                      /\ MarkAcked(send, m)[i].datum.payload = send[i].datum.payload
                      /\ MarkAcked(send, m)[i].datum.bytes = send[i].datum.bytes
                      /\ send[i].datum.IsAcked => MarkAcked(send, m)[i].datum.IsAcked
    BY DEF Keeps
  <1> QED BY DEF MarkAcked, Buffers, Datums

-----------------------------------------------------------------------------
(* HeldInv is preserved, given AckInv.                                     *)

(* RingHolds of one number of one buffer, of a side that sent n datums. *)
HoldsOrLater(buf, s, n) ==
    LET slot == buf[GetSequenceIndex(s)] IN
    /\ slot.tag \in s .. n
    /\ slot.datum.payload = slot.tag
    /\ s + BufferSize > n => slot.tag = s

LEMMA RingIs ==
  RingHolds <=> \A p \in Peers : \A s \in 1 .. sent[p] :
                   HoldsOrLater(ends[p].SendBuffer, s, sent[p])
  BY DEF RingHolds, HoldsOrLater, SlotOf

LEMMA HeldInvInit == Init => HeldInv
  <1> SUFFICES ASSUME Init PROVE HeldInv
    OBVIOUS
  <1>1. \A p \in Peers : 1 .. sent[p] = {}
    BY DEF Init
  <1>2. RingHolds
    BY <1>1 DEF RingHolds
  <1> QED BY <1>2 DEF Init, HeldInv, OnlySentTravels, NoNullDereference

(* A number that was sent keeps its slot, or the new datum n takes it, a   *)
(* ring later.                                                             *)
KeptOrGone(new, old, s, n) ==
    \/ /\ GetSequenceIndex(s) # GetSequenceIndex(n)
       /\ new[GetSequenceIndex(s)] = old[GetSequenceIndex(s)]
    \/ /\ GetSequenceIndex(s) = GetSequenceIndex(n)
       /\ s + BufferSize <= n

(* What Send does to the slots of the sent numbers. *)
LEMMA SendSlots ==
  ASSUME NoWraparound, AckInv,
         NEW p \in Peers, NEW bytes \in Sizes, Send(p, bytes)
  PROVE  LET n == sent[p] + 1
             new == ends'[p].SendBuffer IN
         /\ n \in Nat /\ n <= MaxSent
         /\ new = SendBufferWith(ends[p], NewDatum(p, bytes))
         /\ Holds(new, n) /\ Get(new, n).payload = n /\ Get(new, n).IsAcked = FALSE
         /\ \A s \in 1 .. sent[p] : KeptOrGone(new, ends[p].SendBuffer, s, n)
  <1> DEFINE e == ends[p]
             dat == NewDatum(p, bytes)
             n == sent[p] + 1
             new == SendBufferWith(e, dat)
             k == GetSequenceIndex(n)
  <1>1. TypeOK /\ Numbering
    BY DEF AckInv
  <1>2. e \in Endpoints /\ dat \in Datums /\ sent[p] \in Nat /\ n \in Nat /\ n <= MaxSent
    BY <1>1, NewDatumType, MaxSentAssumption DEF Send, TypeOK
  <1>3. NextSequence(e) = n
    BY <1>1, <1>2, SmallMod, MaxSentAssumption, SeqModulusAssumption
       DEF Numbering, NextSequence, NoWraparound
  <1>4. Numbered(e, dat).payload = n /\ Numbered(e, dat).IsAcked = FALSE
    BY <1>2, <1>3 DEF Numbered, NewDatum
  <1>5. ends'[p].SendBuffer = new
    BY <1>1, <1>2 DEF Send, TypeOK, AfterMarkSent, Endpoints
  <1>6. new = [e.SendBuffer EXCEPT ![k] = [tag |-> n, datum |-> Numbered(e, dat)]]
    BY <1>3 DEF SendBufferWith, Put
  <1>7. k \in Slots
    BY <1>2, IndexInSlots
  <1>8. new[k] = [tag |-> n, datum |-> Numbered(e, dat)]
    BY <1>2, <1>6, <1>7 DEF Endpoints, Buffers
  <1>9. ASSUME NEW s \in 1 .. sent[p]
        PROVE  KeptOrGone(new, e.SendBuffer, s, n)
    <2>1. s \in Nat /\ s < n
      BY <1>2
    <2>2. GetSequenceIndex(s) \in Slots
      BY <2>1, IndexInSlots
    <2>3. CASE GetSequenceIndex(s) # k
      <3> HIDE DEF k
      <3>1. new[GetSequenceIndex(s)] = e.SendBuffer[GetSequenceIndex(s)]
        BY <1>2, <1>6, <2>2, <2>3 DEF Endpoints, Buffers
      <3> QED BY <2>3, <3>1 DEF KeptOrGone, k
    <2>4. CASE GetSequenceIndex(s) = k
      <3>1. ~(n < s + BufferSize)
        <4> SUFFICES ASSUME n < s + BufferSize PROVE FALSE
          OBVIOUS
        <4> HIDE DEF n
        <4>1. s = n
          BY <1>2, <2>1, <2>4, OneInWindow
        <4> QED BY <2>1, <1>2, <4>1
      <3>2. s + BufferSize <= n
        BY <1>2, <2>1, <3>1, BufferSizeAssumption
      <3> QED BY <2>4, <3>2 DEF KeptOrGone
    <2> QED BY <2>3, <2>4
  <1>10. Holds(new, n) /\ Get(new, n) = Numbered(e, dat)
    BY <1>8 DEF Holds, Get
  <1> HIDE DEF e, dat, n, new
  <1> QED BY <1>2, <1>4, <1>5, <1>9, <1>10 DEF e, dat, n, new

LEMMA HeldInvSend ==
  ASSUME NoWraparound, AckInv, AckInv', HeldInv,
         NEW p \in Senders, NEW bytes \in Sizes, Send(p, bytes)
  PROVE  HeldInv'
  <1> DEFINE n == sent[p] + 1
             new == ends'[p].SendBuffer
             m == MessageOf(ends[p], NewDatum(p, bytes), "General")
  <1> p \in Peers
    BY PeersAssumption
  <1>0. RingHolds /\ OnlySentTravels /\ NoNullDereference
    BY DEF HeldInv
  <1>1. /\ ends' = [ends EXCEPT ![p] = AfterMarkSent(ends[p], NewDatum(p, bytes))]
        /\ net' = net \cup {[from |-> p, body |-> m]}
        /\ sent' = [sent EXCEPT ![p] = n]
        /\ delivered' = delivered /\ undefined' = undefined
    BY DEF Send
  <1>2. ends \in [Peers -> Endpoints] /\ sent \in [Peers -> 0 .. MaxSent]
    BY DEF AckInv, TypeOK
  <1>3. /\ n \in Nat /\ sent[p] \in Nat
        /\ new = SendBufferWith(ends[p], NewDatum(p, bytes))
        /\ Holds(new, n) /\ Get(new, n).payload = n
        /\ \A s \in 1 .. sent[p] : KeptOrGone(new, ends[p].SendBuffer, s, n)
    <2>2. sent[p] \in Nat
      BY <1>2, MaxSentAssumption
    <2>3. n \in Nat
      BY <2>2
    <2> QED BY <2>2, <2>3, SendSlots
  <1>4. ASSUME NEW s \in 1 .. n PROVE HoldsOrLater(new, s, n)
    <2> HIDE DEF new
    <2>1. CASE s = n
      BY <1>3, <2>1 DEF HoldsOrLater, Holds, Get
    <2>2. CASE s # n
      <3>1. s \in 1 .. sent[p]
        BY <1>3, <2>2
      <3>2. PICK old : old = ends[p].SendBuffer
        OBVIOUS
      <3>3. HoldsOrLater(old, s, sent[p]) /\ KeptOrGone(new, old, s, n)
        BY <1>0, <1>3, <3>1, <3>2, RingIs
      <3>4. CASE GetSequenceIndex(s) # GetSequenceIndex(n)
        BY <1>3, <3>1, <3>3, <3>4, BufferSizeAssumption DEF KeptOrGone, HoldsOrLater
      <3>5. CASE GetSequenceIndex(s) = GetSequenceIndex(n)
        <4>1. s + BufferSize <= n
          BY <3>3, <3>5 DEF KeptOrGone
        <4>2. new[GetSequenceIndex(s)].tag = n /\ new[GetSequenceIndex(s)].datum.payload = n
          BY <1>3, <3>5 DEF Holds, Get
        <4> HIDE DEF n
        <4>3. n \in s .. n /\ ~(s + BufferSize > n)
          BY <1>3, <4>1, BufferSizeAssumption
        <4> QED BY <4>2, <4>3 DEF HoldsOrLater
      <3> QED BY <3>4, <3>5
    <2> QED BY <2>1, <2>2
  <1>5. RingHolds'
    <2> SUFFICES ASSUME NEW q \in Peers, NEW s \in 1 .. sent'[q]
                 PROVE  HoldsOrLater(ends'[q].SendBuffer, s, sent'[q])
      BY RingIs DEF RingHolds, HoldsOrLater, SlotOf, GetSequenceIndex
    <2>1. CASE q = p
      <3>1. sent'[p] = n
        BY <1>1, <1>2
      <3> HIDE DEF n
      <3> QED BY <1>4, <2>1, <3>1
    <2>2. CASE q # p
      <3>1. ends'[q] = ends[q] /\ sent'[q] = sent[q]
        BY <1>1, <1>2, <2>2
      <3> QED BY <1>0, <3>1, RingIs
    <2> QED BY <2>1, <2>2
  <1>6. \A d \in m.data : d.payload \in 1 .. n
    <2> SUFFICES ASSUME NEW d \in m.data PROVE d.payload \in 1 .. n
      OBVIOUS
    <2> DEFINE e == ends[p]
               dat == NewDatum(p, bytes)
               send == SendBufferWith(e, dat)
    <2>1. e \in Endpoints /\ dat \in Datums
      BY NewDatumType DEF Send, AckInv, TypeOK
    <2>2. Numbered(e, dat).payload = n
      BY <2>1 DEF Numbered, NewDatum
    <2>3. CASE d # Numbered(e, dat)
      <3>1. Genuine(send)
        BY <1>3 DEF Genuine, AckInv, SendBuffersGenuine
      <3>2. PICK i \in e.lastAcked + 1 .. e.sequence : Holds(send, i) /\ d = Get(send, i)
        BY <2>1, <2>3, <3>1, DataGenuine
      <3>3. e.sequence = sent[p]
        BY DEF AckInv, Numbering
      <3>4. e.lastAcked \in Nat
        BY <2>1, SeqModulusAssumption DEF Endpoints, Seqs
      <3>5. i \in 1 .. sent[p] /\ i \in 1 .. n
        BY <1>3, <3>2, <3>3, <3>4
      <3>6. d.payload = i
        BY <1>3, <1>4, <3>2, <3>5 DEF HoldsOrLater, Holds, Get
      <3> QED BY <1>3, <3>5, <3>6
    <2>4. CASE d = Numbered(e, dat)
      BY <1>3, <2>2, <2>4
    <2> QED BY <2>3, <2>4
  <1> HIDE DEF n, m, new
  <1>7. \A q \in Peers : 1 .. sent[q] \subseteq 1 .. sent'[q]
    BY <1>1, <1>2, <1>3, MaxSentAssumption DEF n
  <1>8. OnlySentTravels'
    <2>1. \A q \in Peers : delivered'[q] \subseteq 1 .. sent'[Other(q)]
      BY <1>0, <1>1, <1>7, OtherPeer DEF OnlySentTravels
    <2>2. \A x \in net : x.from \in Peers
      BY DEF AckInv, TypeOK
    <2>3. \A x \in net' : \A d \in x.body.data : d.payload \in 1 .. sent'[x.from]
      BY <1>0, <1>1, <1>2, <1>6, <1>7, <2>2 DEF OnlySentTravels
    <2> QED BY <2>1, <2>3 DEF OnlySentTravels
  <1>9. NoNullDereference'
    <2> SUFFICES ASSUME NEW q \in Peers, undefined'[q]
                 PROVE  \E x \in net' : \E i \in x.body.LastAckedBits :
                          /\ x.from = Other(q)
                          /\ x.body.LastAckedSequence - (i + 1) + BufferSize <= sent'[q]
      BY DEF NoNullDereference
    <2>1. PICK x \in net : \E i \in x.body.LastAckedBits :
             /\ x.from = Other(q)
             /\ x.body.LastAckedSequence - (i + 1) + BufferSize <= sent[q]
      BY <1>0, <1>1 DEF NoNullDereference
    <2>2. PICK i \in x.body.LastAckedBits :
             /\ x.from = Other(q)
             /\ x.body.LastAckedSequence - (i + 1) + BufferSize <= sent[q]
      BY <2>1
    <2>3. x.body \in Messages
      BY DEF AckInv, TypeOK
    <2>4. x.body.LastAckedSequence \in Int /\ i \in Int
      <3>1. x.body.LastAckedSequence \in Seqs /\ x.body.LastAckedBits \subseteq 0 .. AckBits - 1
        BY <2>3 DEF Messages
      <3>2. i \in 0 .. AckBits - 1
        BY <2>2, <3>1
      <3>3. i \in Int
        BY <3>2, AckBitsAssumption
      <3>4. x.body.LastAckedSequence \in Int
        BY <3>1, SeqsInt
      <3> QED BY <3>3, <3>4
    <2>5. sent[q] \in Int /\ sent'[q] \in Int /\ sent[q] <= sent'[q]
      BY <1>1, <1>2, <1>3, MaxSentAssumption DEF n
    <2>6. x.body.LastAckedSequence - (i + 1) + BufferSize <= sent'[q]
      BY <2>2, <2>4, <2>5, BufferSizeAssumption
    <2> QED BY <1>1, <2>2, <2>6
  <1> QED BY <1>5, <1>8, <1>9 DEF HeldInv

(* A bit that names a forgotten number names one a ring behind. *)
LEMMA ForgottenIsOld ==
  ASSUME NEW L \in Seqs, NEW i \in Nat, NEW n \in Nat,
         Before(L, i + 1) + BufferSize <= n
  PROVE  L - (i + 1) + BufferSize <= n
  <1>1. PICK x \in Int : x = L - (i + 1)
    BY SeqsInt
  <1>2. x < SeqModulus
    BY <1>1, SeqModulusAssumption DEF Seqs
  <1>3. x <= x % SeqModulus
    BY <1>2, SeqModulusAssumption
  <1>4. x % SeqModulus \in Int
    BY SeqModulusAssumption
  <1> QED BY <1>1, <1>3, <1>4, BufferSizeAssumption DEF Before

(* What Receive does to a send buffer, and when it follows a null pointer. *)
LEMMA ReceiveSlots ==
  ASSUME AckInv, HeldInv, NEW p \in Peers, NEW m \in net, Receive(p, m)
  PROVE  \/ /\ DereferencesNull(ends[p], m.body)
            /\ undefined' = [undefined EXCEPT ![p] = TRUE]
            /\ UNCHANGED <<ends, net, sent, delivered>>
            /\ \E i \in m.body.LastAckedBits :
                  m.body.LastAckedSequence - (i + 1) + BufferSize <= sent[p]
         \/ /\ Keeps(ends[p].SendBuffer, ends'[p].SendBuffer)
            /\ ends' = [ends EXCEPT ![p] = AfterMarkReceived(ends[p], m.body)]
            /\ delivered' = [delivered EXCEPT ![p] = @ \cup {d.payload : d \in m.body.data}]
            /\ UNCHANGED <<net, sent, undefined>>
  <1> DEFINE e == ends[p]
             b == m.body
             got == {d.payload : d \in b.data}
             last == MarkLast(e.SendBuffer, b)
             new == MarkAcked(last, b)
  <1>1. /\ ends \in [Peers -> Endpoints]
        /\ sent \in [Peers -> 0 .. MaxSent]
        /\ e \in Endpoints /\ b \in Messages
        /\ e.SendBuffer \in Buffers
    BY DEF AckInv, TypeOK, Endpoints
  <1>2. m.from = Other(p) /\ Other(p) \in Peers /\ Other(Other(p)) = p
    BY OtherPeer DEF Receive
  <1>3. delivered[Other(p)] \subseteq 1 .. sent[p]
    BY <1>2 DEF HeldInv, OnlySentTravels
  <1>4. b.LastAckedSequence \in {0} \cup 1 .. sent[p] /\ NamedByBits(b) \subseteq 1 .. sent[p]
    BY <1>2, <1>3 DEF AckInv, NetGenuine
  <1>5. Genuine(e.SendBuffer)
    BY DEF Genuine, AckInv, SendBuffersGenuine
  <1>6. \A s \in 1 .. sent[p] : HoldsOrLater(e.SendBuffer, s, sent[p]) /\ GetSequenceIndex(s) \in Slots
    BY <1>1, MaxSentAssumption, IndexInSlots, RingIs DEF HeldInv
  <1>7. Keeps(e.SendBuffer, last)
    <2>1. \/ b.LastAckedSequence = 0
          \/ Holds(e.SendBuffer, b.LastAckedSequence) =>
                Get(e.SendBuffer, b.LastAckedSequence).payload = b.LastAckedSequence
      BY <1>4, <1>6 DEF HoldsOrLater, Holds, Get
    <2> QED BY <1>1, <1>5, <2>1, MarkLastKeeps
  <1>8. last \in Buffers
    BY <1>1, MarkLastType
  <1>9. Keeps(e.SendBuffer, new)
    <2>1. Keeps(last, new)
      BY <1>8, MarkAckedKeeps
    <2> HIDE DEF last, new
    <2> QED BY <1>7, <2>1 DEF Keeps
  <1>10. CASE DereferencesNull(e, b)
    <2>1. PICK s \in NamedByBits(b) : ~Holds(last, s)
      BY <1>10 DEF DereferencesNull
    <2>2. s \in 1 .. sent[p]
      BY <1>4
    <2>3. e.SendBuffer[GetSequenceIndex(s)].tag # s
      <3> HIDE DEF last
      <3> QED BY <1>6, <1>7, <2>1, <2>2 DEF Keeps, Holds
    <2>4. s + BufferSize <= sent[p]
      BY <1>1, <1>6, <2>2, <2>3, BufferSizeAssumption, MaxSentAssumption DEF HoldsOrLater
    <2>5. PICK i \in b.LastAckedBits : s = Before(b.LastAckedSequence, i + 1)
      BY DEF NamedByBits
    <2>6. b.LastAckedSequence \in Seqs /\ i \in Nat /\ sent[p] \in Nat
      BY <1>1, AckBitsAssumption, MaxSentAssumption DEF Messages
    <2>7. b.LastAckedSequence - (i + 1) + BufferSize <= sent[p]
      <3> HIDE DEF b
      <3> QED BY <2>4, <2>5, <2>6, ForgottenIsOld
    <2> QED BY <1>10, <2>7 DEF Receive
  <1>11. CASE ~DereferencesNull(e, b)
    <2>1. /\ ends' = [ends EXCEPT ![p] = AfterMarkReceived(e, b)]
          /\ delivered' = [delivered EXCEPT ![p] = @ \cup got]
          /\ UNCHANGED <<net, sent, undefined>>
      BY <1>11 DEF Receive
    <2>2. ends'[p].SendBuffer = new
      BY <1>1, <2>1 DEF AfterMarkReceived, NewLastAcked, Endpoints
    <2> HIDE DEF new
    <2> QED BY <1>9, <2>1, <2>2
  <1> QED BY <1>10, <1>11

LEMMA HeldInvReceive ==
  ASSUME AckInv, HeldInv, NEW p \in Peers, NEW m \in net, Receive(p, m)
  PROVE  HeldInv'
  <1>0. RingHolds /\ OnlySentTravels /\ NoNullDereference
    BY DEF HeldInv
  <1>1. /\ ends \in [Peers -> Endpoints]
        /\ sent \in [Peers -> 0 .. MaxSent]
        /\ delivered \in [Peers -> SUBSET (0 .. MaxSent)]
        /\ undefined \in [Peers -> BOOLEAN]
    BY DEF AckInv, TypeOK
  <1>2. m.from = Other(p) /\ Other(p) \in Peers
    BY OtherPeer DEF Receive
  <1>3. CASE /\ undefined' = [undefined EXCEPT ![p] = TRUE]
             /\ UNCHANGED <<ends, net, sent, delivered>>
             /\ \E i \in m.body.LastAckedBits :
                   m.body.LastAckedSequence - (i + 1) + BufferSize <= sent[p]
    <2>1. RingHolds' /\ OnlySentTravels'
      BY <1>0, <1>3 DEF RingHolds, OnlySentTravels, SlotOf, GetSequenceIndex
    <2>2. NoNullDereference'
      <3> SUFFICES ASSUME NEW q \in Peers, undefined'[q]
                   PROVE  \E x \in net : \E i \in x.body.LastAckedBits :
                            /\ x.from = Other(q)
                            /\ x.body.LastAckedSequence - (i + 1) + BufferSize <= sent[q]
        BY <1>3 DEF NoNullDereference
      <3>1. CASE q = p
        BY <1>2, <1>3, <3>1
      <3>2. CASE q # p
        BY <1>0, <1>1, <1>3, <3>2 DEF NoNullDereference
      <3> QED BY <3>1, <3>2
    <2> QED BY <2>1, <2>2 DEF HeldInv
  <1>4. CASE /\ Keeps(ends[p].SendBuffer, ends'[p].SendBuffer)
             /\ ends' = [ends EXCEPT ![p] = AfterMarkReceived(ends[p], m.body)]
             /\ delivered' = [delivered EXCEPT ![p] = @ \cup {d.payload : d \in m.body.data}]
             /\ UNCHANGED <<net, sent, undefined>>
    <2>1. {d.payload : d \in m.body.data} \subseteq 1 .. sent[Other(p)]
      BY <1>0, <1>2 DEF OnlySentTravels
    <2>2. RingHolds'
      <3> SUFFICES ASSUME NEW q \in Peers, NEW s \in 1 .. sent[q]
                   PROVE  HoldsOrLater(ends'[q].SendBuffer, s, sent[q])
        BY <1>4, RingIs DEF RingHolds, HoldsOrLater, SlotOf, GetSequenceIndex
      <3>1. HoldsOrLater(ends[q].SendBuffer, s, sent[q])
        BY <1>0, RingIs
      <3>2. GetSequenceIndex(s) \in Slots
        BY <1>1, MaxSentAssumption, IndexInSlots
      <3>3. CASE q = p
        BY <1>4, <3>1, <3>2, <3>3 DEF Keeps, HoldsOrLater
      <3>4. CASE q # p
        BY <1>1, <1>4, <3>1, <3>4
      <3> QED BY <3>3, <3>4
    <2>3. OnlySentTravels'
      <3>1. ASSUME NEW q \in Peers PROVE delivered'[q] \subseteq 1 .. sent[Other(q)]
        BY <1>0, <1>1, <1>4, <2>1 DEF OnlySentTravels
      <3> QED BY <1>0, <1>4, <3>1 DEF OnlySentTravels
    <2>4. NoNullDereference'
      BY <1>0, <1>4 DEF NoNullDereference
    <2> QED BY <2>2, <2>3, <2>4 DEF HeldInv
  <1> QED BY <1>3, <1>4, ReceiveSlots

LEMMA HeldInvNext ==
  ASSUME NoWraparound
  PROVE  AckInv /\ AckInv' /\ HeldInv /\ [Next]_vars => HeldInv'
  <1>1. HeldInv /\ UNCHANGED vars => HeldInv'
    BY DEF vars, HeldInv, RingHolds, OnlySentTravels, NoNullDereference, SlotOf, GetSequenceIndex
  <1> QED BY <1>1, HeldInvSend, HeldInvReceive DEF Next

LEMMA HeldInvariant ==
  ASSUME NoWraparound
  PROVE  Spec => [](AckInv /\ HeldInv)
  <1>1. Init => AckInv /\ HeldInv
    BY AckInvInit, HeldInvInit
  <1>2. AckInv /\ HeldInv /\ [Next]_vars => AckInv' /\ HeldInv'
    BY AckInvSend, AckInvReceive, AckInvStutter, HeldInvNext DEF Next
  <1> QED BY <1>1, <1>2, PTL DEF Spec

(* MarkReceived follows the null pointer Get returns for a forgotten       *)
(* sequence only when the peer acknowledges a datum by its bit after the   *)
(* ring was filled once more: never for one of the last BufferSize datums, *)
(* however many are sent (ReliableUdp.cpp:66-72).                          *)
THEOREM NeverDereferencesNull ==
  ASSUME NoWraparound
  PROVE  Spec => []NoNullDereference
  <1>1. HeldInv => NoNullDereference
    BY DEF HeldInv
  <1> QED BY <1>1, HeldInvariant, PTL

-----------------------------------------------------------------------------
(* The link implements ReliableDelivery.                                   *)

LEMMA DeliveryInit == Init => Delivery!Init
  <1> SUFFICES ASSUME Init PROVE Delivery!Init
    OBVIOUS
  <1>1. sent = [p \in Peers |-> 0] /\ delivered = [p \in Peers |-> {}]
    BY DEF Init
  <1>2. \A p \in Peers : Acknowledged(p) = {}
    BY <1>1 DEF Acknowledged
  <1>3. [p \in Peers |-> Acknowledged(p)] = [p \in Peers |-> {}]
    BY <1>2
  <1> QED BY <1>1, <1>3 DEF Delivery!Init, Delivery!Peers, Peers

(* A number a ring behind shares its slot with a later one. *)
LEMMA SameSlot ==
  ASSUME NEW s \in Int
  PROVE  GetSequenceIndex(s + BufferSize) = GetSequenceIndex(s)
  <1>1. PICK B \in Nat \ {0} : B = BufferSize
    BY BufferSizeAssumption
  <1>2. (s + B) % B = s % B
    <2>1. PICK x \in Int, r \in 0 .. B - 1 : s = (B * x) + r
      <3>1. s = (B * (s \div B)) + (s % B) /\ s \div B \in Int /\ s % B \in 0 .. B - 1
        OBVIOUS
      <3> QED BY <3>1
    <2>2. s % B = r
      BY <2>1
    <2>3. s + B = (B * (x + 1)) + r /\ x + 1 \in Int
      BY <2>1
    <2>4. (s + B) % B = r
      <3>1. PICK y \in Int : y = x + 1
        BY <2>3
      <3>2. s + B = (B * y) + r /\ s + B \in Int
        BY <2>3, <3>1
      <3>3. ((B * y) + r) % B = r
        BY <2>1, <3>1
      <3> QED BY ONLY <3>2, <3>3
    <2> QED BY ONLY <2>2, <2>4
  <1> QED BY <1>1, <1>2 DEF GetSequenceIndex

(* So a send buffer holds only the last BufferSize numbers. *)
LEMMA OnlyRecentHeld ==
  ASSUME NEW buf, NEW n \in Nat, \A t \in 1 .. n : HoldsOrLater(buf, t, n),
         NEW s \in 1 .. n, Holds(buf, s)
  PROVE  s + BufferSize > n
  <1> SUFFICES ASSUME s + BufferSize <= n PROVE FALSE
    BY BufferSizeAssumption
  <1>1. PICK t \in 1 .. n : t = s + BufferSize
    BY BufferSizeAssumption
  <1>2. GetSequenceIndex(t) = GetSequenceIndex(s)
    BY <1>1, SameSlot
  <1>3. buf[GetSequenceIndex(s)].tag \in t .. n
    BY <1>2 DEF HoldsOrLater
  <1>4. buf[GetSequenceIndex(s)].tag = s
    BY DEF Holds
  <1> QED BY <1>1, <1>3, <1>4, BufferSizeAssumption

LEMMA DeliverySubmit ==
  ASSUME NoWraparound, AckInv, HeldInv, HeldInv',
         NEW p \in Senders, NEW bytes \in Sizes, Send(p, bytes)
  PROVE  Delivery!Submit(p)
  <1> DEFINE n == sent[p] + 1
             new == ends'[p].SendBuffer
             old == ends[p].SendBuffer
             Recent == {s \in 1 .. n : s + BufferSize > n}
  <1> p \in Peers
    BY PeersAssumption
  <1>1. /\ ends \in [Peers -> Endpoints]
        /\ sent \in [Peers -> 0 .. MaxSent]
        /\ sent[p] < MaxSent /\ sent' = [sent EXCEPT ![p] = @ + 1]
        /\ delivered' = delivered
        /\ ends' = [ends EXCEPT ![p] = AfterMarkSent(ends[p], NewDatum(p, bytes))]
    BY DEF AckInv, TypeOK, Send
  <1>2. /\ n \in Nat
        /\ Get(new, n).IsAcked = FALSE
        /\ \A s \in 1 .. sent[p] : KeptOrGone(new, old, s, n)
    BY SendSlots
  <1>3. sent'[p] = n /\ \A s \in 1 .. n : s \in 1 .. sent[p] \/ s = n
    BY <1>1, <1>2, MaxSentAssumption
  <1>4. 1 .. sent[p] \subseteq 1 .. n
    BY <1>1, MaxSentAssumption
  <1>5. \A s \in 1 .. n : HoldsOrLater(new, s, n)
    <2>1. \A q \in Peers : \A s \in 1 .. sent'[q] : HoldsOrLater(ends'[q].SendBuffer, s, sent'[q])
      BY RingIs DEF HeldInv, RingHolds, HoldsOrLater, SlotOf, GetSequenceIndex
    <2> HIDE DEF n
    <2> QED BY <1>3, <2>1
  <1> HIDE DEF n, new, old
  <1>6. \A s \in 1 .. n : Holds(new, s) => s + BufferSize > n
    BY <1>2, <1>5, OnlyRecentHeld
  <1>7. ASSUME NEW s \in 1 .. sent[p], s \in Recent
        PROVE  (Holds(new, s) /\ Get(new, s).IsAcked) <=> (Holds(old, s) /\ Get(old, s).IsAcked)
    <2>1. ~(s + BufferSize <= n)
      BY <1>2, <1>7, BufferSizeAssumption
    <2>2. new[GetSequenceIndex(s)] = old[GetSequenceIndex(s)]
      BY <1>2, <2>1 DEF KeptOrGone
    <2> QED BY <2>2 DEF Holds, Get
  <1>8. Acknowledged(p)' = Acknowledged(p) \cap Recent
    <2>1. Acknowledged(p)' = {s \in 1 .. n : Holds(new, s) /\ Get(new, s).IsAcked}
      BY <1>3 DEF Acknowledged, Holds, Get, new, GetSequenceIndex
    <2>2. Acknowledged(p) = {s \in 1 .. sent[p] : Holds(old, s) /\ Get(old, s).IsAcked}
      BY DEF Acknowledged, old
    <2>3. ASSUME NEW s \in Acknowledged(p)' PROVE s \in Acknowledged(p) \cap Recent
      <3>1. s \in 1 .. n /\ Holds(new, s) /\ Get(new, s).IsAcked
        BY <2>1
      <3>2. s # n
        BY <1>2, <3>1
      <3>3. s \in 1 .. sent[p] /\ s \in Recent
        BY <1>3, <1>6, <3>1, <3>2
      <3> QED BY <1>7, <2>2, <3>1, <3>3
    <2>4. ASSUME NEW s \in Acknowledged(p) \cap Recent PROVE s \in Acknowledged(p)'
      BY <1>4, <1>7, <2>1, <2>2
    <2> QED BY <2>3, <2>4
  <1>9. ASSUME NEW q \in Peers, q # p PROVE Acknowledged(q)' = Acknowledged(q)
    <2>1. ends'[q] = ends[q] /\ sent'[q] = sent[q]
      BY <1>1, <1>9
    <2> QED BY <2>1 DEF Acknowledged, Holds, Get, GetSequenceIndex
  <1>10. Recent = Delivery!Recent(sent[p] + 1)
    BY DEF Delivery!Recent, n
  <1> HIDE DEF Recent
  <1>11. [q \in Peers |-> Acknowledged(q)]'
            = [[q \in Peers |-> Acknowledged(q)] EXCEPT ![p] = @ \cap Recent]
    BY <1>8, <1>9
  <1> QED BY <1>1, <1>10, <1>11 DEF Delivery!Submit

LEMMA DeliveryHear ==
  ASSUME AckInv, AckInv', HeldInv, HeldInv', NEW p \in Peers, NEW m \in net, Receive(p, m)
  PROVE  Delivery!Hear(p) \/ UNCHANGED Delivery!vars
  <1> DEFINE got == {d.payload : d \in m.body.data}
             known == [q \in Peers |-> Acknowledged(q)]
             Recent == {s \in 1 .. sent[p] : s + BufferSize > sent[p]}
  <1>1. /\ ends \in [Peers -> Endpoints]
        /\ sent \in [Peers -> 0 .. MaxSent] /\ sent' = sent
        /\ delivered \in [Peers -> SUBSET (0 .. MaxSent)]
        /\ sent[p] \in Nat
    BY MaxSentAssumption DEF AckInv, TypeOK, Receive
  <1>2. m.from = Other(p) /\ Other(p) \in Peers /\ Other(p) # p
    BY PeersAssumption DEF Receive, Other, Peers
  <1>3. CASE UNCHANGED <<ends, net, sent, delivered>>
    BY <1>3 DEF Delivery!vars, Acknowledged, Holds, Get, GetSequenceIndex
  <1>4. CASE /\ Keeps(ends[p].SendBuffer, ends'[p].SendBuffer)
             /\ ends' = [ends EXCEPT ![p] = AfterMarkReceived(ends[p], m.body)]
             /\ delivered' = [delivered EXCEPT ![p] = @ \cup {d.payload : d \in m.body.data}]
    <2>1. got \in SUBSET (1 .. sent[Other(p)])
      BY <1>2 DEF HeldInv, OnlySentTravels
    <2>2. \A s \in 1 .. sent[p] : GetSequenceIndex(s) \in Slots
      BY <1>1, IndexInSlots
    <2>3. Acknowledged(p) \subseteq Acknowledged(p)'
      BY <1>1, <1>4, <2>2 DEF Acknowledged, Keeps, Holds, Get, GetSequenceIndex
    <2>4. Acknowledged(p)' \in SUBSET (delivered[Other(p)] \cap Recent)
      <3> SUFFICES ASSUME NEW s \in Acknowledged(p)'
                   PROVE  s \in delivered[Other(p)] /\ s \in Recent
        OBVIOUS
      <3>1. PICK new : new = ends'[p].SendBuffer
        OBVIOUS
      <3>2. s \in 1 .. sent[p] /\ Holds(new, s) /\ Get(new, s).IsAcked /\ GetSequenceIndex(s) \in Slots
        BY <1>1, <2>2, <3>1 DEF Acknowledged, Get, Holds, GetSequenceIndex
      <3>3. \A t \in 1 .. sent[p] : HoldsOrLater(new, t, sent[p])
        BY <1>1, <3>1 DEF HeldInv, RingHolds, HoldsOrLater, SlotOf, GetSequenceIndex
      <3>4. s + BufferSize > sent[p]
        BY <1>1, <3>2, <3>3, OnlyRecentHeld
      <3>5. new[GetSequenceIndex(s)].datum.payload = s
        BY <3>2, <3>3 DEF HoldsOrLater, Holds
      <3>6. s # NoPayload
        BY <3>2, NoPayloadAssumption
      <3>7. delivered'[Other(p)] = delivered[Other(p)]
        BY <1>1, <1>2, <1>4
      <3>8. s \in delivered[Other(p)]
        BY <3>1, <3>2, <3>5, <3>6, <3>7 DEF AckInv, NoFalseAck, Get
      <3> QED BY <3>2, <3>4, <3>8
    <2>5. \A q \in Peers : q # p => Acknowledged(q)' = Acknowledged(q)
      BY <1>1, <1>4 DEF Acknowledged, Holds, Get, GetSequenceIndex
    <2> HIDE DEF got
    <2>6. known' = [known EXCEPT ![p] = @ \cup Acknowledged(p)']
      BY <2>3, <2>5
    <2>7. Other(p) = Delivery!Other(p) /\ Recent = Delivery!Recent(sent[p])
      BY DEF Other, Delivery!Other, Delivery!Recent
    <2> HIDE DEF known, Recent
    <2>8. delivered' = [delivered EXCEPT ![p] = @ \cup got]
      BY <1>4 DEF got
    <2> QED BY <1>1, <2>1, <2>4, <2>6, <2>7, <2>8 DEF Delivery!Hear, known
  <1> QED BY <1>3, <1>4, ReceiveSlots

LEMMA DeliveryStutter == UNCHANGED vars => UNCHANGED Delivery!vars
  BY DEF vars, Delivery!vars, Acknowledged, Holds, Get, GetSequenceIndex

(* The two objects implement the delivery they promise: nothing delivered  *)
(* that was not sent, nothing acknowledged that was not delivered, and an  *)
(* acknowledgement forgotten only with the datum the ring overwrites, for  *)
(* any ring, window and datum sizes, however many datums are sent          *)
(* (ReliableUdp.cpp:9-100).                                                *)
THEOREM ImplementsDelivery ==
  ASSUME NoWraparound
  PROVE  Spec => DeliverySpec
  <1>1. AckInv /\ AckInv' /\ HeldInv /\ HeldInv' /\ [Next]_vars => [Delivery!Next]_(Delivery!vars)
    <2> SUFFICES ASSUME AckInv, AckInv', HeldInv, HeldInv', [Next]_vars
                 PROVE  [Delivery!Next]_(Delivery!vars)
      OBVIOUS
    <2>1. CASE \E p \in Senders, bytes \in Sizes : Send(p, bytes)
      <3>1. PICK p \in Senders, bytes \in Sizes : Send(p, bytes)
        BY <2>1
      <3> QED BY <3>1, DeliverySubmit, PeersAssumption DEF Delivery!Next, Delivery!Peers, Peers
    <2>2. CASE \E p \in Peers, m \in net : Receive(p, m)
      BY <2>2, DeliveryHear DEF Delivery!Next, Delivery!Peers, Peers
    <2>3. CASE UNCHANGED vars
      BY <2>3, DeliveryStutter
    <2> QED BY <2>1, <2>2, <2>3 DEF Next
  <1> QED BY DeliveryInit, HeldInvariant, <1>1, PTL DEF Spec, DeliverySpec, Delivery!Spec

-----------------------------------------------------------------------------
(* What a message leaves out.                                              *)

(* The room that is used on reaching each number the loop of MarkSent      *)
(* visits.                                                                 *)
UsedOn(used, e, send) ==
  \A i \in Visited(e, send) :
      used[i] = IF i = e.sequence THEN HeaderBytes
                ELSE LET d == Get(send, i + 1) IN
                     IF ~d.IsAcked /\ used[i + 1] <= MaxBytes - d.bytes
                     THEN used[i + 1] + d.bytes
                     ELSE used[i + 1]

LEMMA DatumBytes == \A d \in Datums : d.bytes \in Nat
  <1> SUFFICES ASSUME NEW d \in Datums PROVE d.bytes \in Nat
    OBVIOUS
  <1>1. d.bytes \in Sizes \cup {0}
    BY DEF Datums
  <1>2. Sizes \subseteq Nat
    BY SizesAssumption
  <1>3. 0 \in Nat
    OBVIOUS
  <1> QED BY ONLY <1>1, <1>2, <1>3, Zenon

LEMMA UsedExists ==
  ASSUME NEW e \in Endpoints, NEW send \in Buffers, NEW low0 \in Nat,
         Visited(e, send) = low0 .. e.sequence
  PROVE  \E used \in [Visited(e, send) -> Nat] :
            /\ UsedOn(used, e, send)
            /\ Attached(e, send) =
                  {i \in Visited(e, send) :
                      ~Get(send, i).IsAcked /\ used[i] <= MaxBytes - Get(send, i).bytes}
  <1> DEFINE V == low0 .. e.sequence
             Next2(u, d) == IF ~d.IsAcked /\ u <= MaxBytes - d.bytes THEN u + d.bytes ELSE u
             Def(g) == [i \in Visited(e, send) |->
                           IF i = e.sequence THEN HeaderBytes
                           ELSE LET d == Get(send, i + 1) IN
                                IF ~d.IsAcked /\ g[i + 1] <= MaxBytes - d.bytes
                                THEN g[i + 1] + d.bytes
                                ELSE g[i + 1]]
             used == CHOOSE g : g = Def(g)
  <1>1. PICK q \in Nat, low \in Nat : q = e.sequence /\ low = low0
    BY SeqModulusAssumption DEF Endpoints, Seqs
  <1>2. \A i \in Int : Get(send, i) \in Datums /\ Get(send, i).bytes \in Nat
    BY GetType, DatumBytes
  <1>3. Attached(e, send) =
            {i \in Visited(e, send) :
                ~Get(send, i).IsAcked /\ used[i] <= MaxBytes - Get(send, i).bytes}
    BY DEF Attached
  <1>4. \E g \in [Visited(e, send) -> Nat] : g = Def(g)
    <2>1. CASE low > q
      <3>1. Visited(e, send) = {}
        BY <1>1, <2>1
      <3> DEFINE g == [i \in Visited(e, send) |-> 0]
      <3>2. g = Def(g)
        BY <3>1
      <3>3. g \in [Visited(e, send) -> Nat]
        OBVIOUS
      <3> QED BY <3>2, <3>3
    <2>2. CASE low <= q
      <3>1. PICK n \in Nat : n = q - low
        BY <1>1, <2>2
      <3> DEFINE s == [k \in 1 .. n |-> Get(send, (q - k) + 1)]
                 op == [x \in Nat \X Datums |-> Next2(x[1], x[2])]
      <3>2. s \in Seq(Datums) /\ Len(s) = n
        <4>1. \A k \in 1 .. n : Get(send, (q - k) + 1) \in Datums
          BY <1>2, <3>1
        <4> QED BY <4>1
      <3>3. op \in [Nat \X Datums -> Nat]
        <4>1. ASSUME NEW u \in Nat, NEW d \in Datums PROVE Next2(u, d) \in Nat
          <5>1. d.bytes \in Nat
            BY DatumBytes
          <5> QED BY <5>1
        <4> HIDE DEF Next2
        <4> QED BY <4>1
      <3>4. HeaderBytes \in Nat
        BY BytesAssumption
      <3>5. PICK f : f \in [0 .. n -> Nat] /\ IsRun(f, n, op, HeaderBytes, s)
        <4> HIDE DEF op, s
        <4> QED BY <3>2, <3>3, <3>4, RunExists
      <3>6. PICK g : g = [i \in V |-> f[q - i]]
        OBVIOUS
      <3>7. \A i \in V : q - i \in 0 .. n
        BY <1>1, <3>1
      <3>8. g \in [V -> Nat]
        BY <3>5, <3>6, <3>7
      <3>9. ASSUME NEW i \in V
            PROVE  g[i] = IF i = q THEN HeaderBytes
                          ELSE Next2(g[i + 1], Get(send, i + 1))
        <4>1. CASE i = q
          <5>1. q - i = 0
            BY <1>1, <4>1
          <5> QED BY <3>5, <3>6, <4>1, <5>1 DEF IsRun
        <4>2. CASE i # q
          <5>1. PICK k \in 1 .. n : k = q - i /\ i + k = q
            BY <1>1, <3>1, <4>2
          <5>0. i \in low .. q
            BY <1>1
          <5>9. i + 1 \in low .. q /\ q - (i + 1) = k - 1 /\ (q - k) + 1 = i + 1 /\ k - 1 \in 0 .. n
            BY ONLY <4>2, <5>0, <5>1, low \in Nat, q \in Nat, n \in Nat
          <5>2. i + 1 \in V /\ q - (i + 1) = k - 1 /\ (q - k) + 1 = i + 1 /\ k - 1 \in 0 .. n
            BY <1>1, <5>9
          <5>3. f[k] = op[<<f[k - 1], s[k]>>]
            <6> HIDE DEF op, s
            <6> QED BY <3>5 DEF IsRun
          <5>4. s[k] = Get(send, i + 1) /\ s[k] \in Datums /\ f[k - 1] \in Nat
            BY <1>2, <3>5, <5>2, <5>3
          <5>5. f[k] = Next2(f[k - 1], Get(send, i + 1))
            BY <5>3, <5>4
          <5>6. g[i] = f[k]
            BY ONLY <3>6, <5>1, i \in V
          <5>7. g[i + 1] = f[k - 1]
            BY ONLY <3>6, <5>2
          <5> HIDE DEF Next2
          <5> QED BY <4>2, <5>5, <5>6, <5>7
        <4> QED BY <4>1, <4>2
      <3>10. Visited(e, send) = V /\ q = e.sequence
        BY <1>1
      <3>11. g = Def(g)
        <4>1. g = [i \in V |-> g[i]]
          BY <3>8
        <4>2. \A i \in V : g[i] = IF i = e.sequence THEN HeaderBytes
                            ELSE Next2(g[i + 1], Get(send, i + 1))
          BY <3>9, <3>10
        <4>3. Def(g) = [i \in V |-> IF i = e.sequence THEN HeaderBytes
                                    ELSE Next2(g[i + 1], Get(send, i + 1))]
          BY <3>10
        <4> HIDE DEF Def, V, Next2
        <4> QED BY ONLY <4>1, <4>2, <4>3
      <3> HIDE DEF Def, V
      <3> QED BY <3>8, <3>10, <3>11
    <2> QED BY <1>1, <2>1, <2>2
  <1>5. used = Def(used)
    <2> HIDE DEF Def
    <2> QED BY <1>4
  <1> HIDE DEF used
  <1>6. UsedOn(used, e, send)
    BY <1>5 DEF UsedOn
  <1>7. used \in [Visited(e, send) -> Nat]
    <2>1. used = [i \in V |-> used[i]]
      BY <1>5
    <2> DEFINE Bad == {k \in Nat : q - k \in V /\ used[q - k] \notin Nat}
    <2>2. ASSUME NEW k \in Bad PROVE \E j \in Bad : j < k
      <3>1. q - k \in V /\ used[q - k] \notin Nat
        OBVIOUS
      <3>2. q - k # q /\ k # 0
        BY <1>1, <1>6, <3>1, BytesAssumption DEF UsedOn
      <3>3. q - k + 1 \in V /\ q - (k - 1) = q - k + 1 /\ k - 1 \in Nat /\ k - 1 < k
        BY <1>1, <3>1, <3>2
      <3>4. used[q - k] = Next2(used[q - k + 1], Get(send, q - k + 1))
        BY <1>1, <1>6, <3>1, <3>2 DEF UsedOn
      <3>5. Get(send, q - k + 1).bytes \in Nat
        BY <1>2, <3>3
      <3>6. used[q - k + 1] \notin Nat
        BY <3>1, <3>4, <3>5
      <3> QED BY <3>3, <3>6
    <2>3. Bad = {}
      <3>1. Bad \in SUBSET Nat
        OBVIOUS
      <3> HIDE DEF Bad
      <3> SUFFICES ASSUME Bad # {} PROVE FALSE
        OBVIOUS
      <3>2. PICK k \in Bad : \A j \in Bad : k <= j
        BY <3>1, LeastOf
      <3> QED BY <2>2, <3>1, <3>2
    <2>4. ASSUME NEW i \in V PROVE used[i] \in Nat
      <3>1. q - i \in Nat /\ q - (q - i) = i
        BY <1>1
      <3>2. q - i \notin Bad
        BY <2>3
      <3> QED BY <3>1, <3>2
    <2> QED BY <2>1, <2>4
  <1> QED BY <1>3, <1>6, <1>7

(* The bytes of the datums under some numbers, each a byte of its datum.   *)
BytesOf(send, S) == UNION {{Get(send, j)} \X (1 .. Get(send, j).bytes) : j \in S}

LEMMA NoBytes ==
  ASSUME NEW send
  PROVE  IsFiniteSet(BytesOf(send, {})) /\ Cardinality(BytesOf(send, {})) = 0
  <1>1. BytesOf(send, {}) = {}
    BY DEF BytesOf
  <1> QED BY <1>1, FS_EmptySet

LEMMA OneMoreDatum ==
  ASSUME NEW send \in Buffers, NEW S, NEW k \in Int, \A j \in S : Get(send, j) # Get(send, k),
         IsFiniteSet(BytesOf(send, S))
  PROVE  /\ IsFiniteSet(BytesOf(send, S \cup {k}))
         /\ Cardinality(BytesOf(send, S \cup {k}))
              = Cardinality(BytesOf(send, S)) + Get(send, k).bytes
  <1>1. PICK d : d = Get(send, k)
    OBVIOUS
  <1>2. d.bytes \in Nat
    BY <1>1, GetType, DatumBytes
  <1> DEFINE new == {d} \X (1 .. d.bytes)
             old == BytesOf(send, S)
  <1>3. BytesOf(send, S \cup {k}) = old \cup new
    BY <1>1 DEF BytesOf
  <1>4. old \cap new = {}
    <2> SUFFICES ASSUME NEW x \in old, x \in new PROVE FALSE
      OBVIOUS
    <2>1. PICK j \in S : x \in {Get(send, j)} \X (1 .. Get(send, j).bytes)
      BY DEF BytesOf
    <2>2. x[1] = Get(send, j) /\ x[1] = d
      BY <2>1
    <2> QED BY <1>1, <2>2
  <1>5. IsFiniteSet(new) /\ Cardinality(new) = d.bytes
    <2>1. IsFiniteSet({d}) /\ Cardinality({d}) = 1
      BY FS_Singleton
    <2>2. IsFiniteSet(1 .. d.bytes) /\ Cardinality(1 .. d.bytes) = d.bytes
      <3>1. 1 \in Int /\ d.bytes \in Int
        BY <1>2
      <3>2. /\ IsFiniteSet(1 .. d.bytes)
            /\ Cardinality(1 .. d.bytes) = IF 1 > d.bytes THEN 0 ELSE d.bytes - 1 + 1
        BY <3>1, FS_Interval
      <3> QED BY <1>2, <3>2
    <2>3. IsFiniteSet(new) /\ Cardinality(new) = Cardinality({d}) * Cardinality(1 .. d.bytes)
      BY <2>1, <2>2, FS_Product
    <2>4. 1 * d.bytes = d.bytes
      BY <1>2
    <2> QED BY ONLY <2>1, <2>2, <2>3, <2>4
  <1>6. Cardinality({}) = 0
    BY FS_EmptySet
  <1> HIDE DEF new, old
  <1>7. IsFiniteSet(old)
    BY DEF old
  <1>8. /\ IsFiniteSet(old \cup new)
        /\ Cardinality(old \cup new) = Cardinality(old) + Cardinality(new) - Cardinality(old \cap new)
    BY <1>5, <1>7, FS_Union
  <1>9. Cardinality(old) \in Nat
    BY <1>7, FS_CardinalityType
  <1>10. Cardinality(old \cup new) = Cardinality(old) + d.bytes
    <2>1. Cardinality(old \cap new) = 0
      BY ONLY <1>4, <1>6
    <2>2. PICK x \in Nat : x = Cardinality(old)
      BY <1>9
    <2>3. Cardinality(old \cup new) = x + d.bytes - 0
      BY ONLY <1>5, <1>8, <2>1, <2>2
    <2> QED BY ONLY <1>2, <2>2, <2>3
  <1> QED BY <1>1, <1>3, <1>8, <1>10 DEF old

(* What is used grows by what is attached ...                              *)
GrowsBy(used, send, A, V, q) ==
  \A i \in V : /\ i = q => used[i] = HeaderBytes
               /\ i # q /\ i + 1 \in A => used[i] = used[i + 1] + Get(send, i + 1).bytes
               /\ i # q /\ i + 1 \notin A => used[i] = used[i + 1]

(* ... so on reaching a number it is the header and what is attached above *)
(* it.                                                                     *)
IsHeaderAnd(used, send, A, V) ==
  \A i \in V : LET S == {j \in A : j > i} IN
      /\ IsFiniteSet(BytesOf(send, S))
      /\ used[i] = HeaderBytes + Cardinality(BytesOf(send, S))

LEMMA RoomIsUsed ==
  ASSUME NEW send \in Buffers, NEW low \in Nat, NEW q \in Nat, NEW V, V = low .. q,
         \A i \in V : Get(send, i).payload = i,
         NEW A \in SUBSET V, NEW used \in [V -> Nat], GrowsBy(used, send, A, V, q)
  PROVE  IsHeaderAnd(used, send, A, V)
  <1> DEFINE Above(i) == {j \in A : j > i}
             Right(i) == /\ IsFiniteSet(BytesOf(send, Above(i)))
                         /\ used[i] = HeaderBytes + Cardinality(BytesOf(send, Above(i)))
             Bad == {k \in Nat : q - k \in V /\ ~Right(q - k)}
  <1>1. \A j \in A : j \in Int /\ j \in V /\ j <= q
    OBVIOUS
  <1>2. q \in V => Right(q)
    <2>1. Above(q) = {}
      <3> SUFFICES ASSUME NEW j \in A, j > q PROVE FALSE
        OBVIOUS
      <3>1. j \in Int /\ j <= q
        BY ONLY <1>1, j \in A
      <3> QED BY ONLY <3>1, j > q, q \in Nat
    <2> SUFFICES ASSUME q \in V PROVE Right(q)
      OBVIOUS
    <2>2. used[q] = HeaderBytes /\ HeaderBytes \in Nat
      BY BytesAssumption DEF GrowsBy
    <2> HIDE DEF Above
    <2>3. HeaderBytes + 0 = HeaderBytes
      BY <2>2
    <2> QED BY <2>1, <2>2, <2>3, NoBytes
  <1>3. ASSUME NEW i \in V, i # q, Right(i + 1) PROVE i + 1 \in V /\ Right(i)
    <2>1. i \in Int /\ i + 1 \in V /\ i < q
      BY <1>3
    <2>2. CASE i + 1 \in A
      <3>1. Above(i) = Above(i + 1) \cup {i + 1}
        <4>1. ASSUME NEW j \in A PROVE j > i <=> j > i + 1 \/ j = i + 1
          <5>1. j \in Int
            BY ONLY <1>1, j \in A
          <5> QED BY ONLY <2>1, <5>1
        <4> QED BY ONLY <2>2, <4>1
      <3>2. \A j \in Above(i + 1) : Get(send, j) # Get(send, i + 1)
        <4> SUFFICES ASSUME NEW j \in Above(i + 1), Get(send, j) = Get(send, i + 1) PROVE FALSE
          OBVIOUS
        <4>1. j \in V /\ j > i + 1
          BY <1>1
        <4>2. Get(send, j).payload = j /\ Get(send, i + 1).payload = i + 1
          BY <2>1, <4>1
        <4> QED BY <4>1, <4>2
      <3>3. used[i] = used[i + 1] + Get(send, i + 1).bytes
        BY <1>3, <2>2 DEF GrowsBy
      <3>4. Get(send, i + 1).bytes \in Nat
        BY <2>1, GetType, DatumBytes
      <3> HIDE DEF Above
      <3>5. PICK S : S = Above(i + 1)
        OBVIOUS
      <3>6. IsFiniteSet(BytesOf(send, S)) /\ i + 1 \in Int
        BY <1>3, <2>1, <3>5
      <3>7. /\ IsFiniteSet(BytesOf(send, S \cup {i + 1}))
            /\ Cardinality(BytesOf(send, S \cup {i + 1}))
                 = Cardinality(BytesOf(send, S)) + Get(send, i + 1).bytes
        <4>1. PICK n \in Int : n = i + 1
          BY <3>6
        <4>2. IsFiniteSet(BytesOf(send, S)) /\ \A j \in S : Get(send, j) # Get(send, n)
          BY <3>2, <3>5, <3>6, <4>1
        <4>3. /\ IsFiniteSet(BytesOf(send, S \cup {n}))
              /\ Cardinality(BytesOf(send, S \cup {n}))
                   = Cardinality(BytesOf(send, S)) + Get(send, n).bytes
          BY ONLY <4>2, OneMoreDatum, send \in Buffers, n \in Int
        <4> QED BY ONLY <4>1, <4>3
      <3>8. Cardinality(BytesOf(send, S)) \in Nat
        BY <3>6, FS_CardinalityType
      <3>9. used[i + 1] = HeaderBytes + Cardinality(BytesOf(send, S)) /\ HeaderBytes \in Nat
        BY <1>3, <3>5, BytesAssumption
      <3>10. used[i] = HeaderBytes + Cardinality(BytesOf(send, S \cup {i + 1}))
        BY ONLY <3>3, <3>4, <3>7, <3>8, <3>9
      <3> QED BY <2>1, <3>1, <3>5, <3>7, <3>10
    <2>3. CASE i + 1 \notin A
      <3>1. Above(i) = Above(i + 1)
        <4>1. ASSUME NEW j \in A PROVE j > i <=> j > i + 1
          <5>1. j \in Int /\ j # i + 1
            BY ONLY <1>1, <2>3, j \in A
          <5> QED BY ONLY <2>1, <5>1
        <4> QED BY ONLY <4>1
      <3>2. used[i] = used[i + 1]
        BY <1>3, <2>3 DEF GrowsBy
      <3> HIDE DEF Above
      <3> QED BY <1>3, <2>1, <3>1, <3>2
    <2> QED BY <2>2, <2>3
  <1>4. Bad \in SUBSET Nat
    OBVIOUS
  <1>5. ASSUME NEW k \in Bad PROVE \E j \in Bad : j < k
    <2> HIDE DEF Right
    <2>1. k \in Nat /\ q - k \in V /\ ~Right(q - k)
      OBVIOUS
    <2>2. k # 0
      <3>1. q - 0 = q
        OBVIOUS
      <3> QED BY <1>2, <2>1, <3>1
    <2>3. q - k # q /\ (q - k) + 1 = q - (k - 1) /\ k - 1 \in Nat /\ k - 1 < k
      BY <2>1, <2>2
    <2>4. PICK i \in V : i = q - k
      BY <2>1
    <2>5. i + 1 \in V
      BY <2>1, <2>3, <2>4
    <2>6. ~Right(i + 1)
      BY <1>3, <2>1, <2>3, <2>4
    <2> QED BY <2>3, <2>4, <2>5, <2>6
  <1>6. Bad = {}
    <2> HIDE DEF Bad
    <2> SUFFICES ASSUME Bad # {} PROVE FALSE
      OBVIOUS
    <2>1. PICK k \in Bad : \A j \in Bad : k <= j
      BY <1>4, LeastOf
    <2> QED BY <1>4, <1>5, <2>1
  <1>7. ASSUME NEW i \in V PROVE Right(i)
    <2> HIDE DEF Right
    <2>1. q - i \in Nat /\ q - (q - i) = i
      OBVIOUS
    <2>2. q - i \notin Bad
      BY <1>6
    <2> QED BY <2>1, <2>2
  <1> QED BY <1>7 DEF IsHeaderAnd

LEMMA LeavesOutIfFull ==
  ASSUME NEW e \in Endpoints, NEW dat \in Datums, NEW type, NEW send \in Buffers,
         send = SendBufferWith(e, dat), NextSequence(e) = e.sequence + 1,
         NEW low0 \in Nat, Visited(e, send) = low0 .. e.sequence,
         \A i \in Visited(e, send) : Get(send, i).payload = i /\ Get(send, i).Sequence = i,
         NEW s \in Visited(e, send), \A d \in MessageOf(e, dat, type).data : d.Sequence # s
  PROVE  \/ Get(send, s).IsAcked
         \/ HeaderBytes + BodyBytes(MessageOf(e, dat, type)) + Get(send, s).bytes > MaxBytes
  <1>1. PICK q \in Nat, low \in Nat : q = e.sequence /\ low = low0
    BY SeqModulusAssumption DEF Endpoints, Seqs
  <1>2. PICK V : V = Visited(e, send)
    OBVIOUS
  <1>3. V = low .. q /\ s \in low .. q
    BY <1>1, <1>2
  <1>4. PICK used \in [V -> Nat] :
           /\ UsedOn(used, e, send)
           /\ Attached(e, send) =
                 {i \in V : ~Get(send, i).IsAcked /\ used[i] <= MaxBytes - Get(send, i).bytes}
    <2>1. \E used \in [Visited(e, send) -> Nat] :
            /\ UsedOn(used, e, send)
            /\ Attached(e, send) =
                  {i \in Visited(e, send) :
                      ~Get(send, i).IsAcked /\ used[i] <= MaxBytes - Get(send, i).bytes}
      BY ONLY UsedExists, e \in Endpoints, send \in Buffers, low0 \in Nat,
              Visited(e, send) = low0 .. e.sequence
    <2> QED BY ONLY <1>2, <2>1
  <1>5. PICK A \in SUBSET V : A = Attached(e, send)
    BY <1>4
  <1>6. GrowsBy(used, send, A, V, q)
    <2> SUFFICES ASSUME NEW i \in V
                 PROVE  /\ i = q => used[i] = HeaderBytes
                        /\ i # q /\ i + 1 \in A => used[i] = used[i + 1] + Get(send, i + 1).bytes
                        /\ i # q /\ i + 1 \notin A => used[i] = used[i + 1]
      BY DEF GrowsBy
    <2>1. i = q => used[i] = HeaderBytes
      BY <1>1, <1>2, <1>4 DEF UsedOn
    <2>2. ASSUME i # q
          PROVE  used[i] = LET d == Get(send, i + 1) IN
                           IF ~d.IsAcked /\ used[i + 1] <= MaxBytes - d.bytes
                           THEN used[i + 1] + d.bytes
                           ELSE used[i + 1]
      BY <1>1, <1>2, <1>4, <2>2 DEF UsedOn
    <2>3. i # q => i + 1 \in V
      BY <1>3
    <2>4. i + 1 \in V =>
            (i + 1 \in A <=> ~Get(send, i + 1).IsAcked /\ used[i + 1] <= MaxBytes - Get(send, i + 1).bytes)
      BY <1>4, <1>5
    <2> QED BY <2>1, <2>2, <2>3, <2>4
  <1>7. \A i \in V : Get(send, i).payload = i /\ Get(send, i).Sequence = i
    BY <1>2
  <1>8. \A i \in V : LET S == {j \in A : j > i} IN
            /\ IsFiniteSet(BytesOf(send, S))
            /\ used[i] = HeaderBytes + Cardinality(BytesOf(send, S))
    <2>1. V = low .. q /\ \A i \in V : Get(send, i).payload = i
      BY <1>3, <1>7
    <2>2. IsHeaderAnd(used, send, A, V)
      BY ONLY <1>6, <2>1, RoomIsUsed, send \in Buffers, low \in Nat, q \in Nat,
              A \in SUBSET V, used \in [V -> Nat]
    <2> QED BY <2>2 DEF IsHeaderAnd
  <1>9. IsFiniteSet(BytesOf(send, A))
    <2>1. PICK S : S = {j \in A : j > low}
      OBVIOUS
    <2>2. low \in V
      BY ONLY <1>3, low \in Nat, q \in Nat
    <2>3. IsFiniteSet(BytesOf(send, S))
      BY <1>8, <2>1, <2>2
    <2>4. \A j \in A : j \in V /\ j \in Int /\ j >= low
      BY <1>3
    <2>5. CASE low \in A
      <3>1. A = S \cup {low}
        <4>1. \A j \in A : j > low \/ j = low
          BY ONLY <2>4, low \in Nat
        <4> QED BY ONLY <2>1, <2>5, <4>1
      <3>2. \A j \in S : Get(send, j) # Get(send, low)
        <4> SUFFICES ASSUME NEW j \in S, Get(send, j) = Get(send, low) PROVE FALSE
          OBVIOUS
        <4>1. j \in V /\ j > low
          BY ONLY <2>1, <2>4, j \in S
        <4> QED BY <1>7, <2>2, <4>1
      <3>3. low \in Int
        OBVIOUS
      <3>4. IsFiniteSet(BytesOf(send, S \cup {low}))
        BY ONLY <2>3, <3>2, <3>3, OneMoreDatum, send \in Buffers
      <3> QED BY ONLY <3>1, <3>4
    <2>6. CASE low \notin A
      <3>1. A = S
        <4>1. \A j \in A : j > low
          BY ONLY <2>4, <2>6, low \in Nat
        <4> QED BY ONLY <2>1, <4>1
      <3> QED BY ONLY <2>3, <3>1
    <2> QED BY <2>5, <2>6
  <1> DEFINE m == MessageOf(e, dat, type)
  <1>10. m.Sequence = q + 1 /\ m.data = {Numbered(e, dat)} \cup {Get(send, i) : i \in A}
    BY <1>1, <1>5 DEF MessageOf
  <1>11. Numbered(e, dat).Sequence = q + 1
    BY <1>1 DEF Numbered, Datums
  <1>12. \A i \in A : Get(send, i).Sequence = i /\ i # q + 1
    BY <1>3, <1>7
  <1> HIDE DEF m
  <1>13. BodyBytes(m) = Cardinality(BytesOf(send, A))
    <2>1. Bundled(m) = {Get(send, i) : i \in A}
      BY ONLY <1>10, <1>11, <1>12 DEF Bundled
    <2>2. UNION {{d} \X (1 .. d.bytes) : d \in Bundled(m)} = BytesOf(send, A)
      BY ONLY <2>1 DEF BytesOf
    <2> QED BY ONLY <2>2 DEF BodyBytes
  <1>14. s \notin A
    <2> SUFFICES ASSUME s \in A PROVE FALSE
      OBVIOUS
    <2>1. Get(send, s) \in m.data
      BY ONLY <1>10, s \in A
    <2>2. Get(send, s).Sequence # s
      BY <2>1 DEF m
    <2> QED BY <1>12, <2>2
  <1>15. Get(send, s).IsAcked \/ ~(used[s] <= MaxBytes - Get(send, s).bytes)
    BY <1>2, <1>4, <1>5, <1>14
  <1>16. /\ Cardinality(BytesOf(send, A)) \in Nat
         /\ used[s] <= HeaderBytes + Cardinality(BytesOf(send, A))
    <2>1. PICK S : S = {j \in A : j > s}
      OBVIOUS
    <2>2. used[s] = HeaderBytes + Cardinality(BytesOf(send, S))
      BY <1>2, <1>8, <2>1
    <2>3. BytesOf(send, S) \in SUBSET BytesOf(send, A)
      BY ONLY <2>1 DEF BytesOf
    <2>4. /\ IsFiniteSet(BytesOf(send, S))
          /\ Cardinality(BytesOf(send, S)) <= Cardinality(BytesOf(send, A))
      BY ONLY <1>9, <2>3, FS_Subset
    <2>5. Cardinality(BytesOf(send, S)) \in Nat /\ Cardinality(BytesOf(send, A)) \in Nat
      BY ONLY <1>9, <2>4, FS_CardinalityType
    <2> QED BY ONLY <2>2, <2>4, <2>5, BytesAssumption
  <1>17. used[s] \in Nat /\ MaxBytes \in Nat /\ HeaderBytes \in Nat /\ Get(send, s).bytes \in Nat
    BY <1>2, <1>3, BytesAssumption, GetType, DatumBytes
  <1>18. Get(send, s).IsAcked \/ HeaderBytes + BodyBytes(m) + Get(send, s).bytes > MaxBytes
    BY ONLY <1>13, <1>15, <1>16, <1>17
  <1> QED BY <1>18 DEF m

(* What a message left out when it was sent. *)
LEMMA FullInSend ==
  ASSUME NoWraparound, AckInv, AckInv', HeldInv, HeldInv',
         NEW p \in Peers, NEW bytes \in Sizes, Send(p, bytes),
         NEW send, send = ends'[p].SendBuffer,
         NEW m, m = MessageOf(ends[p], NewDatum(p, bytes), "General"),
         NEW s \in LeftOut(m, p)
  PROVE  /\ s \in 1 .. sent[p]
         /\ send[GetSequenceIndex(s)] = SlotOf(p, s)
         /\ SlotOf(p, s).tag = s
         /\ HeaderBytes + BodyBytes(m) + Get(send, s).bytes > MaxBytes
  <1>1. TypeOK /\ Numbering
    BY DEF AckInv
  <1>2. PICK e, dat : e = ends[p] /\ dat = NewDatum(p, bytes)
    OBVIOUS
  <1>3. e \in Endpoints /\ dat \in Datums /\ sent[p] \in Nat /\ e.sequence = sent[p]
    BY <1>1, <1>2, NewDatumType, MaxSentAssumption DEF Send, TypeOK, Numbering
  <1>4. PICK n \in Nat : n = sent[p] + 1
    BY <1>3
  <1>5. /\ n <= MaxSent
        /\ send = SendBufferWith(e, dat)
        /\ \A i \in 1 .. sent[p] : KeptOrGone(send, e.SendBuffer, i, n)
    BY <1>2, <1>4, SendSlots
  <1>6. \A i \in 1 .. n : HoldsOrLater(send, i, n)
    <2>1. sent'[p] = n
      BY <1>1, <1>4 DEF Send, TypeOK
    <2> QED BY <2>1 DEF HeldInv, RingHolds, HoldsOrLater, SlotOf, GetSequenceIndex
  <1>7. send \in Buffers
    BY <1>3, <1>5, SendBufferWithType
  <1>8. NextSequence(e) = n /\ n = e.sequence + 1
    BY <1>3, <1>4, <1>5, SmallMod, MaxSentAssumption, SeqModulusAssumption
       DEF NextSequence, NoWraparound
  <1>9. PICK last \in Nat : last = e.lastAcked
    BY <1>3, SeqModulusAssumption DEF Endpoints, Seqs
  <1>10. m.Sequence = n /\ m.LastAckedSequence = last
    BY <1>2, <1>3, <1>8, <1>9 DEF MessageOf
  <1>11. /\ s \in m.LastAckedSequence + 1 .. m.Sequence - 1
         /\ s + BufferSize > m.Sequence
         /\ \A d \in m.data : d.Sequence # s
         /\ s \notin delivered[Other(p)]
    BY DEF LeftOut
  <1>12. s \in 1 .. sent[p] /\ s \in last + 1 .. sent[p] /\ s \in 1 .. n
    BY <1>3, <1>4, <1>9, <1>10, <1>11
  <1>13. PICK low \in Nat :
            low = IF last + 1 + BufferSize > n THEN last + 1 ELSE n - BufferSize + 1
    BY BufferSizeAssumption
  <1>14. Visited(e, send) = low .. sent[p]
    <2>1. ASSUME NEW i \in 1 .. n PROVE Holds(send, i) <=> i + BufferSize > n
      BY <1>6, OnlyRecentHeld DEF HoldsOrLater, Holds
    <2>2. ASSUME NEW i \in low .. sent[p]
          PROVE  i \in last + 1 .. sent[p] /\ \A j \in i .. sent[p] : Holds(send, j)
      <3>1. i >= last + 1 /\ i + BufferSize > n
        BY <1>3, <1>4, <1>13, BufferSizeAssumption
      <3>2. ASSUME NEW j \in i .. sent[p] PROVE Holds(send, j)
        <4>1. j \in 1 .. n /\ j + BufferSize > n
          BY <1>3, <1>4, <3>1, BufferSizeAssumption
        <4> QED BY <2>1, <4>1
      <3> QED BY <1>3, <3>1, <3>2
    <2>3. ASSUME NEW i \in last + 1 .. sent[p], \A j \in i .. sent[p] : Holds(send, j)
          PROVE  i \in low .. sent[p]
      <3>1. i \in 1 .. n /\ i \in i .. sent[p]
        BY <1>3, <1>4
      <3>2. i + BufferSize > n
        BY <2>1, <2>3, <3>1
      <3> QED BY <1>3, <1>4, <1>13, <3>2, BufferSizeAssumption
    <2>4. Visited(e, send) = {i \in last + 1 .. sent[p] : \A j \in i .. sent[p] : Holds(send, j)}
      BY <1>3, <1>9 DEF Visited
    <2> QED BY <2>2, <2>3, <2>4
  <1>15. ASSUME NEW i \in Visited(e, send)
         PROVE  Get(send, i).payload = i /\ Get(send, i).Sequence = i
    <2>1. i \in 1 .. n
      BY <1>3, <1>4, <1>9, <1>13, <1>14, BufferSizeAssumption
    <2>2. GetSequenceIndex(i) \in Slots
      BY <2>1, IndexInSlots
    <2>3. Holds(send, i)
      BY <1>3, <1>9, <1>14 DEF Visited
    <2>4. Get(send, i).payload = i
      BY <1>6, <2>1, <2>3 DEF HoldsOrLater, Holds, Get
    <2>5. Get(send, i).Sequence = Get(send, i).payload
      BY <2>2 DEF AckInv, SendBuffersGenuine, Get
    <2> QED BY <2>4, <2>5
  <1>16. Holds(send, s) /\ Get(send, s).payload = s
    BY <1>6, <1>10, <1>11, <1>12 DEF HoldsOrLater, Holds, Get
  <1>17. ~Get(send, s).IsAcked
    <2>1. GetSequenceIndex(s) \in Slots
      BY <1>12, IndexInSlots
    <2>2. s # NoPayload
      BY <1>12, NoPayloadAssumption
    <2>3. delivered' = delivered
      BY DEF Send
    <2> QED BY <1>11, <1>16, <2>1, <2>2, <2>3 DEF AckInv, NoFalseAck, Get
  <1>18. HeaderBytes + BodyBytes(m) + Get(send, s).bytes > MaxBytes
    <2>1. s \in Visited(e, send)
      BY <1>3, <1>4, <1>10, <1>11, <1>12, <1>13, <1>14, BufferSizeAssumption
    <2>2. \A d \in MessageOf(e, dat, "General").data : d.Sequence # s
      BY <1>2, <1>11
    <2>3. Visited(e, send) = low .. e.sequence /\ NextSequence(e) = e.sequence + 1
      BY <1>3, <1>8, <1>14
    <2>4. \/ Get(send, s).IsAcked
          \/ HeaderBytes + BodyBytes(MessageOf(e, dat, "General")) + Get(send, s).bytes > MaxBytes
      BY ONLY <1>3, <1>5, <1>7, <1>15, <2>1, <2>2, <2>3, low \in Nat, LeavesOutIfFull
    <2> QED BY <1>2, <1>17, <2>4
  <1>19. send[GetSequenceIndex(s)] = e.SendBuffer[GetSequenceIndex(s)]
    <2>1. ~(s + BufferSize <= n)
      BY <1>4, <1>10, <1>11, <1>12, BufferSizeAssumption
    <2> QED BY <1>5, <1>12, <2>1 DEF KeptOrGone
  <1>20. SlotOf(p, s) = e.SendBuffer[GetSequenceIndex(s)]
    BY <1>2 DEF SlotOf
  <1>21. SlotOf(p, s).tag = s
    BY <1>16, <1>19, <1>20 DEF Holds
  <1> QED BY <1>12, <1>18, <1>19, <1>20, <1>21

(* While a send buffer holds a datum, it has the size it was sent with. *)
SizesKept ==
    \A m \in net : \A d \in m.body.data :
        d.Sequence = m.body.Sequence /\ SlotOf(m.from, d.Sequence).tag = d.Sequence
            => SlotOf(m.from, d.Sequence).datum.bytes = d.bytes

(* The number of a message of net, and those it leaves out, were sent. *)
LEMMA NumberWasSent ==
  ASSUME AckInv, HeldInv, NEW m \in net
  PROVE  /\ m.from \in Peers /\ sent[m.from] \in Nat
         /\ m.body.Sequence \in 1 .. sent[m.from]
         /\ GetSequenceIndex(m.body.Sequence) \in Slots
  <1>1. m.from \in Peers /\ m.body \in Messages /\ sent[m.from] \in Nat
    BY MaxSentAssumption DEF AckInv, TypeOK
  <1>2. PICK d \in m.body.data : d.Sequence = m.body.Sequence
    BY DEF AckInv, NetGenuine
  <1>3. d.payload \in 1 .. sent[m.from] /\ d.Sequence = d.payload
    BY DEF AckInv, NetGenuine, HeldInv, OnlySentTravels
  <1> QED BY <1>1, <1>2, <1>3, IndexInSlots

LEMMA LeftOutWasSent ==
  ASSUME AckInv, HeldInv, NEW m \in net, NEW s \in LeftOut(m.body, m.from)
  PROVE  s \in 1 .. sent[m.from]
  <1>1. /\ m.from \in Peers /\ sent[m.from] \in Nat
        /\ m.body.Sequence \in 1 .. sent[m.from]
    BY NumberWasSent
  <1>2. m.body.LastAckedSequence \in Nat
    BY SeqModulusAssumption DEF AckInv, TypeOK, Messages, Seqs
  <1>3. s \in m.body.LastAckedSequence + 1 .. m.body.Sequence - 1
    BY DEF LeftOut
  <1> QED BY <1>1, <1>2, <1>3

(* The message and the datum Send adds. *)
LEMMA NewMessage ==
  ASSUME NoWraparound, AckInv, AckInv', HeldInv, NEW p \in Peers, NEW bytes \in Sizes, Send(p, bytes),
         NEW m, m = MessageOf(ends[p], NewDatum(p, bytes), "General")
  PROVE  /\ m.Sequence = sent[p] + 1
         /\ \A d \in m.data : d.Sequence = m.Sequence =>
               Get(ends'[p].SendBuffer, d.Sequence).bytes = d.bytes
  <1>1. PICK e, dat : e = ends[p] /\ dat = NewDatum(p, bytes)
    OBVIOUS
  <1>2. PICK n \in Nat : n = sent[p] + 1
    BY MaxSentAssumption DEF AckInv, TypeOK
  <1>3. /\ n <= MaxSent /\ ends'[p].SendBuffer = SendBufferWith(e, dat)
        /\ e \in Endpoints /\ dat \in Datums /\ e.sequence = sent[p] /\ sent[p] \in Nat
    <2>1. n <= MaxSent /\ ends'[p].SendBuffer = SendBufferWith(e, dat)
      BY <1>1, <1>2, SendSlots
    <2>2. TypeOK /\ Numbering /\ sent[p] < MaxSent
      BY DEF AckInv, Send
    <2>3. dat \in Datums
      BY <1>1, <2>2, NewDatumType
    <2> QED BY <1>1, <2>1, <2>2, <2>3, MaxSentAssumption DEF TypeOK, Numbering
  <1>4. NextSequence(e) = n
    BY <1>2, <1>3, SmallMod, MaxSentAssumption, SeqModulusAssumption
       DEF NextSequence, NoWraparound
  <1>5. m.Sequence = n
    BY <1>1, <1>4 DEF MessageOf
  <1>6. ASSUME NEW d \in m.data, d.Sequence = n
        PROVE  Get(ends'[p].SendBuffer, n).bytes = d.bytes
    <2>1. Genuine(SendBufferWith(e, dat))
      BY <1>3 DEF Genuine, AckInv, SendBuffersGenuine
    <2>2. CASE d # Numbered(e, dat)
      <3>1. d.Sequence <= e.sequence
        BY <1>1, <1>3, <2>1, <2>2, DataGenuine
      <3> QED BY <1>2, <1>3, <1>6, <3>1
    <2>3. CASE d = Numbered(e, dat)
      <3>1. GetSequenceIndex(n) \in Slots
        BY IndexInSlots
      <3>2. Get(SendBufferWith(e, dat), n) = Numbered(e, dat)
        BY <1>3, <1>4, <3>1 DEF SendBufferWith, Put, Get, Endpoints, Buffers
      <3> QED BY <1>3, <2>3, <3>2
    <2> QED BY <2>2, <2>3
  <1> QED BY <1>2, <1>5, <1>6

LEMMA SizesKeptSend ==
  ASSUME NoWraparound, AckInv, AckInv', HeldInv, HeldInv', SizesKept,
         NEW p \in Senders, NEW bytes \in Sizes, Send(p, bytes)
  PROVE  SizesKept'
  <1> p \in Peers
    BY PeersAssumption
  <1>1. PICK new : new = MessageOf(ends[p], NewDatum(p, bytes), "General")
    OBVIOUS
  <1>2. /\ ends' = [ends EXCEPT ![p] = AfterMarkSent(ends[p], NewDatum(p, bytes))]
        /\ net' = net \cup {[from |-> p, body |-> new]}
    BY <1>1 DEF Send
  <1>3. ends \in [Peers -> Endpoints]
    BY DEF AckInv, TypeOK
  <1>4. PICK n \in Nat : n = sent[p] + 1
    BY MaxSentAssumption DEF AckInv, TypeOK
  <1>5. /\ Holds(ends'[p].SendBuffer, n)
        /\ \A s \in 1 .. sent[p] : KeptOrGone(ends'[p].SendBuffer, ends[p].SendBuffer, s, n)
    BY <1>4, SendSlots
  <1> SUFFICES ASSUME NEW m \in net', NEW d \in m.body.data, d.Sequence = m.body.Sequence,
                      ends'[m.from].SendBuffer[GetSequenceIndex(d.Sequence)].tag = d.Sequence
               PROVE  ends'[m.from].SendBuffer[GetSequenceIndex(d.Sequence)].datum.bytes = d.bytes
    BY DEF SizesKept, SlotOf, GetSequenceIndex
  <1>6. CASE m = [from |-> p, body |-> new]
    BY <1>1, <1>6, NewMessage DEF Get
  <1>7. CASE m \in net
    <2>1. PICK s : s = d.Sequence
      OBVIOUS
    <2>2. m.from \in Peers /\ s \in 1 .. sent[m.from]
      BY <1>7, <2>1, NumberWasSent
    <2>3. SlotOf(m.from, s).tag = s => SlotOf(m.from, s).datum.bytes = d.bytes
      BY <1>7, <2>1 DEF SizesKept
    <2>4. ends'[m.from].SendBuffer[GetSequenceIndex(s)] = SlotOf(m.from, s)
      <3>1. CASE m.from # p
        BY <1>2, <1>3, <2>2, <3>1 DEF SlotOf
      <3>2. CASE m.from = p
        <4>1. KeptOrGone(ends'[p].SendBuffer, ends[p].SendBuffer, s, n)
          BY <1>5, <2>2, <3>2
        <4>2. s # n
          <5>1. sent[p] \in Nat
            BY MaxSentAssumption DEF AckInv, TypeOK
          <5> QED BY <1>4, <2>2, <3>2, <5>1
        <4>3. GetSequenceIndex(s) # GetSequenceIndex(n)
          BY <1>5, <2>1, <3>2, <4>2 DEF Holds
        <4> QED BY <3>2, <4>1, <4>3 DEF KeptOrGone, SlotOf
      <3> QED BY <3>1, <3>2
    <2> QED BY <2>1, <2>3, <2>4
  <1> QED BY <1>2, <1>6, <1>7

(* Receive moves nothing in a send buffer. *)
LEMMA ReceiveKeepsSizes ==
  ASSUME AckInv, HeldInv, NEW p \in Peers, NEW m \in net, Receive(p, m),
         NEW q \in Peers, NEW s \in Int
  PROVE  /\ ends'[q].SendBuffer[GetSequenceIndex(s)].tag = SlotOf(q, s).tag
         /\ ends'[q].SendBuffer[GetSequenceIndex(s)].datum.bytes = SlotOf(q, s).datum.bytes
  <1>1. GetSequenceIndex(s) \in Slots /\ ends \in [Peers -> Endpoints]
    BY IndexInSlots DEF AckInv, TypeOK
  <1>2. CASE UNCHANGED ends
    BY <1>2 DEF SlotOf
  <1>3. CASE /\ Keeps(ends[p].SendBuffer, ends'[p].SendBuffer)
             /\ ends' = [ends EXCEPT ![p] = AfterMarkReceived(ends[p], m.body)]
    <2>1. CASE q = p
      BY <1>1, <1>3, <2>1 DEF Keeps, SlotOf
    <2>2. CASE q # p
      BY <1>1, <1>3, <2>2 DEF SlotOf
    <2> QED BY <2>1, <2>2
  <1> QED BY <1>2, <1>3, ReceiveSlots

LEMMA SizesKeptReceive ==
  ASSUME AckInv, HeldInv, SizesKept, NEW p \in Peers, NEW got \in net, Receive(p, got)
  PROVE  SizesKept'
  <1>1. net' = net
    BY DEF Receive
  <1> SUFFICES ASSUME NEW m \in net, NEW d \in m.body.data, d.Sequence = m.body.Sequence,
                      ends'[m.from].SendBuffer[GetSequenceIndex(d.Sequence)].tag = d.Sequence
               PROVE  ends'[m.from].SendBuffer[GetSequenceIndex(d.Sequence)].datum.bytes = d.bytes
    BY <1>1 DEF SizesKept, SlotOf, GetSequenceIndex
  <1>2. PICK s : s = d.Sequence
    OBVIOUS
  <1>3. m.from \in Peers /\ s \in Int
    BY <1>2, NumberWasSent
  <1>4. /\ ends'[m.from].SendBuffer[GetSequenceIndex(s)].tag = SlotOf(m.from, s).tag
        /\ ends'[m.from].SendBuffer[GetSequenceIndex(s)].datum.bytes = SlotOf(m.from, s).datum.bytes
    BY <1>3, ReceiveKeepsSizes
  <1>5. SlotOf(m.from, s).tag = s => SlotOf(m.from, s).datum.bytes = d.bytes
    BY <1>2 DEF SizesKept
  <1> QED BY <1>2, <1>4, <1>5

LEMMA FullSend ==
  ASSUME NoWraparound, AckInv, AckInv', HeldInv, HeldInv', SizesKept, LeftOutOnlyIfFull,
         NEW p \in Senders, NEW bytes \in Sizes, Send(p, bytes)
  PROVE  LeftOutOnlyIfFull'
  <1> p \in Peers
    BY PeersAssumption
  <1>1. PICK new : new = MessageOf(ends[p], NewDatum(p, bytes), "General")
    OBVIOUS
  <1>2. /\ net' = net \cup {[from |-> p, body |-> new]}
        /\ delivered' = delivered
    BY <1>1 DEF Send
  <1>3. new.Sequence = sent[p] + 1 /\ sent[p] \in Nat
    BY <1>1, NewMessage, MaxSentAssumption DEF AckInv, TypeOK
  <1>4. ASSUME NEW q \in Peers, NEW s \in 1 .. sent[q]
        PROVE  DatumsSent(q, s)' = DatumsSent(q, s)
    <2>1. {m \in net' : m.from = q /\ m.body.Sequence = s} = {m \in net : m.from = q /\ m.body.Sequence = s}
      <3>1. ~(q = p /\ new.Sequence = s)
        BY <1>3
      <3> QED BY <1>2, <3>1
    <2> QED BY <2>1 DEF DatumsSent
  <1>5. ASSUME NEW m \in net, NEW s \in LeftOut(m.body, m.from), NEW d \in DatumsSent(m.from, s)'
        PROVE  HeaderBytes + BodyBytes(m.body) + d.bytes > MaxBytes
    <2>1. m.from \in Peers /\ s \in 1 .. sent[m.from]
      BY LeftOutWasSent, NumberWasSent
    <2>2. d \in DatumsSent(m.from, s)
      BY <1>4, <2>1
    <2> QED BY <2>2 DEF LeftOutOnlyIfFull
  <1>6. ASSUME NEW s \in LeftOut(new, p), NEW d \in DatumsSent(p, s)'
        PROVE  HeaderBytes + BodyBytes(new) + d.bytes > MaxBytes
    <2>1. PICK send : send = ends'[p].SendBuffer
      OBVIOUS
    <2>2. /\ s \in 1 .. sent[p]
          /\ send[GetSequenceIndex(s)] = SlotOf(p, s) /\ SlotOf(p, s).tag = s
          /\ HeaderBytes + BodyBytes(new) + Get(send, s).bytes > MaxBytes
      BY <1>1, <2>1, FullInSend
    <2>3. d \in DatumsSent(p, s)
      BY <1>4, <2>2
    <2>4. PICK m \in net : m.from = p /\ m.body.Sequence = s /\ d \in m.body.data /\ d.Sequence = s
      BY <2>3 DEF DatumsSent
    <2>5. SlotOf(p, s).datum.bytes = d.bytes
      BY <2>2, <2>4 DEF SizesKept
    <2> QED BY <2>2, <2>5 DEF Get
  <1>7. \A m, q : LeftOut(m, q)' = LeftOut(m, q)
    BY <1>2 DEF LeftOut
  <1>8. ASSUME NEW m \in net', NEW s \in LeftOut(m.body, m.from), NEW d \in DatumsSent(m.from, s)'
        PROVE  HeaderBytes + BodyBytes(m.body) + d.bytes > MaxBytes
    <2>1. CASE m \in net
      BY <1>5, <2>1
    <2>2. CASE m = [from |-> p, body |-> new]
      BY <1>6, <2>2
    <2> QED BY <1>2, <2>1, <2>2
  <1> QED BY <1>7, <1>8 DEF LeftOutOnlyIfFull, BodyBytes, Bundled

LEMMA FullReceive ==
  ASSUME AckInv, HeldInv, LeftOutOnlyIfFull, NEW p \in Peers, NEW got \in net, Receive(p, got)
  PROVE  LeftOutOnlyIfFull'
  <1>1. net' = net /\ delivered \in [Peers -> SUBSET (0 .. MaxSent)]
    BY DEF Receive, AckInv, TypeOK
  <1>2. \A q \in Peers : delivered[q] \subseteq delivered'[q]
    BY <1>1 DEF Receive
  <1>3. ASSUME NEW m \in net, NEW s \in LeftOut(m.body, m.from)' PROVE s \in LeftOut(m.body, m.from)
    <2>1. Other(m.from) \in Peers
      BY OtherPeer DEF AckInv, TypeOK
    <2> QED BY <1>2, <2>1 DEF LeftOut
  <1>4. \A q, s : DatumsSent(q, s)' = DatumsSent(q, s)
    BY <1>1 DEF DatumsSent
  <1> QED BY <1>1, <1>3, <1>4 DEF LeftOutOnlyIfFull, BodyBytes, Bundled

(* Above the number its header acknowledges, a message carries every       *)
(* earlier datum of its sender that is still in the ring and that the peer *)
(* has not received, as far as they fit: for all sizes, any loss,          *)
(* repetition and order (ReliableUdp.cpp:16-50).                           *)
THEOREM BundlesWhatFits ==
  ASSUME NoWraparound
  PROVE  Spec => []LeftOutOnlyIfFull
  <1>1. Init => SizesKept /\ LeftOutOnlyIfFull
    BY DEF Init, LeftOutOnlyIfFull, SizesKept
  <1>2. AckInv /\ AckInv' /\ HeldInv /\ HeldInv' /\ SizesKept /\ LeftOutOnlyIfFull /\ [Next]_vars
           => SizesKept' /\ LeftOutOnlyIfFull'
    <2> SUFFICES ASSUME AckInv, AckInv', HeldInv, HeldInv', SizesKept, LeftOutOnlyIfFull, [Next]_vars
                 PROVE  SizesKept' /\ LeftOutOnlyIfFull'
      OBVIOUS
    <2>1. CASE UNCHANGED vars
      BY <2>1 DEF vars, SizesKept, SlotOf, GetSequenceIndex, LeftOutOnlyIfFull, LeftOut,
                  DatumsSent, BodyBytes, Bundled
    <2> QED BY <2>1, SizesKeptSend, SizesKeptReceive, FullSend, FullReceive DEF Next
  <1> QED BY <1>1, <1>2, HeldInvariant, PTL DEF Spec

-----------------------------------------------------------------------------
(* The handshake: whatever the network loses, repeats or reorders, and     *)
(* however many clients there are, the server has the session a client     *)
(* believes in, and no packet takes a session back.                        *)

(* A packet for the server is sealed by the client that sent it, if at all.*)

LEMMA SealType == \A p \in Clients \cup {NoClient} : Seal(p) \in {p, NoClient}
  BY DEF Seal

LEMMA ClientSealType == \A c \in Clients : ClientSeal(c) \in {c, NoClient}
  BY DEF ClientSeal, Seal

(* What a step leaves on the wire: packets of before, and its replies. *)
LEMMA HeardWire ==
  ASSUME NEW pkt, NEW replies, Heard(pkt, replies)
  PROVE  wire' \subseteq wire \cup replies
  BY DEF Heard

LEMMA HandshakeInvInit == HandshakeInit => HandshakeInv
  BY HandshakeAssumption
     DEF HandshakeInit, HandshakeInv, SessionsOK, HandshakeTypeOK, ServerHasSession, SealedByOwner, KeysComeFromSessions

LEMMA HandshakeInvNext == HandshakeInv /\ [HandshakeNext]_handshakeVars => HandshakeInv'
  <1> SUFFICES ASSUME HandshakeInv, [HandshakeNext]_handshakeVars PROVE HandshakeInv'
    OBVIOUS
  <1> USE HandshakeAssumption
      DEF HandshakeInv, SessionsOK, HandshakeTypeOK, ServerHasSession, SealedByOwner,
          KeysComeFromSessions
  <1>1. ASSUME NEW c \in Clients, ClientSend(c)
        PROVE  HandshakeInv'
    <2>1. ClientSeal(c) \in {c, NoClient}
      BY ClientSealType
    <2>2. wire' \subseteq wire \cup {ToServer(c, "General", ClientSeal(c)),
                                     ToServer(c, "SendPubKey", ClientSeal(c))}
      BY <1>1 DEF ClientSend
    <2>3. wire' \subseteq Packets /\ SealedByOwner'
      BY <2>1, <2>2 DEF ToServer, Packets
    <2> QED BY <1>1, <2>2, <2>3 DEF ClientSend, ToServer
  <1>2. ASSUME NEW c \in Clients, NEW pkt \in wire, ClientHearKey(c, pkt)
        PROVE  HandshakeInv'
    <2>1. wire' \subseteq wire \cup {ToServer(c, "Ack", Seal(c))}
      BY <1>2, HeardWire DEF ClientHearKey
    <2>2. Seal(c) \in {c, NoClient}
      BY SealType
    <2>3. wire' \subseteq Packets /\ SealedByOwner' /\ KeysComeFromSessions'
      BY <1>2, <2>1, <2>2 DEF ToServer, Packets, ClientHearKey
    <2>4. peer # NoClient /\ (useEncryption => peer = c)
      <3>1. /\ pkt.client = c /\ pkt.to = "client" /\ pkt.type = "SendPubKey"
            /\ pkt.seal = ClientSeal(c)
        BY <1>2 DEF ClientHearKey, ClientOpens
      <3>2. CASE established[c]
        BY <3>2
      <3>3. CASE ~established[c]
        BY <3>1, <3>3 DEF ClientSeal, Seal
      <3> QED BY <3>2, <3>3
    <2> QED BY <1>2, <2>3, <2>4 DEF ClientHearKey
  <1>3. ASSUME NEW c \in Clients, NEW pkt \in wire, ServerHearKey(c, pkt)
        PROVE  HandshakeInv'
    <2>1. wire' \subseteq wire \cup KeyReplies(c)
      BY <1>3, HeardWire DEF ServerHearKey
    <2>2. Seal(peer) \in {peer, NoClient}
      BY SealType
    <2>3. wire' \subseteq Packets /\ SealedByOwner'
      BY <2>1, <2>2 DEF KeyReplies, ToClient, Packets
    <2>4. peer' = c /\ UNCHANGED <<useEncryption, established, down>>
      BY <1>3 DEF ServerHearKey
    <2>5. useEncryption /\ peer # NoClient => c = peer
      BY <1>3 DEF ServerHearKey, ServerOpens, Seal
    <2>6. KeysComeFromSessions'
      BY <2>1, <2>4, <2>5 DEF KeyReplies, ToClient
    <2> QED BY <2>3, <2>4, <2>5, <2>6
  <1>4. ASSUME NEW c \in Clients, NEW pkt \in wire, ServerHearData(c, pkt)
        PROVE  HandshakeInv'
    <2>1. wire' \subseteq wire \cup {ToClient(c, "Ack", Seal(peer))}
      BY <1>4, HeardWire DEF ServerHearData
    <2>2. Seal(peer) \in {peer, NoClient}
      BY SealType
    <2> QED BY <1>4, <2>1, <2>2 DEF ServerHearData, ToClient, Packets
  <1>5. ASSUME NEW c \in Clients, NEW pkt \in wire,
               ClientHearAck(c, pkt) \/ ClientCrash(c, pkt) \/ ServerHearAck(c, pkt)
        PROVE  HandshakeInv'
    <2>1. wire' \subseteq wire
      BY <1>5, HeardWire DEF ClientHearAck, ClientCrash, ServerHearAck
    <2>2. UNCHANGED <<useEncryption, established, peer>> /\ down' \in [Clients -> BOOLEAN]
      BY <1>5 DEF ClientHearAck, ClientCrash, ServerHearAck
    <2> QED BY <2>1, <2>2
  <1>6. ASSUME NEW pkt \in wire, Lose(pkt)
        PROVE  HandshakeInv'
    BY <1>6 DEF Lose
  <1>7. CASE UNCHANGED handshakeVars
    BY <1>7 DEF handshakeVars
  <1> HIDE DEF HandshakeInv
  <1> QED BY <1>1, <1>2, <1>3, <1>4, <1>5, <1>6, <1>7 DEF HandshakeNext

LEMMA HandshakeInvariant == Safety => []HandshakeInv
  BY HandshakeInvInit, HandshakeInvNext, PTL DEF Safety

(* The server has the session of every client that believes it has one     *)
(* (ReliableUdpGameServerConnection.cpp:136-155), for any set of clients,  *)
(* with or without encryption, on a network that loses packets or not.     *)
THEOREM SessionsAgree == HandshakeSpec => []SessionsOK
  <1>1. HandshakeInv => SessionsOK
    BY DEF HandshakeInv, SessionsOK
  <1>2. HandshakeSpec => Safety
    BY DEF HandshakeSpec
  <1> QED BY <1>1, <1>2, HandshakeInvariant, PTL

-----------------------------------------------------------------------------
(* Under encryption the server opens only what its client sealed, so the   *)
(* client it has a session with never changes.                             *)
LEMMA SessionStep ==
  ASSUME HandshakeInv, [HandshakeNext]_handshakeVars
  PROVE  /\ \A c \in Clients : established[c] => established'[c]
         /\ useEncryption /\ peer # NoClient => peer' = peer
  <1>1. ASSUME NEW c \in Clients, NEW pkt \in wire, ServerHearKey(c, pkt)
        PROVE  /\ UNCHANGED established
               /\ useEncryption /\ peer # NoClient => peer' = peer
    BY <1>1 DEF ServerHearKey, ServerOpens, Seal, HandshakeInv, SealedByOwner
  <1>2. ASSUME NEW c \in Clients, NEW pkt \in wire, ClientHearKey(c, pkt)
        PROVE  peer' = peer /\ \A d \in Clients : established[d] => established'[d]
    BY <1>2 DEF ClientHearKey, HandshakeInv, SessionsOK, HandshakeTypeOK
  <1>3. ASSUME \/ \E c \in Clients :
                    \/ ClientSend(c)
                    \/ \E pkt \in wire : \/ ClientHearAck(c, pkt) \/ ClientCrash(c, pkt)
                                         \/ ServerHearData(c, pkt) \/ ServerHearAck(c, pkt)
               \/ \E pkt \in wire : Lose(pkt)
               \/ UNCHANGED handshakeVars
        PROVE  UNCHANGED <<established, peer>>
    BY <1>3 DEF ClientSend, ClientHearAck, ClientCrash, ServerHearData, ServerHearAck, Lose, handshakeVars
  <1> QED BY <1>1, <1>2, <1>3 DEF HandshakeNext

(* A session lasts: no repeated or late packet takes a client's back, and  *)
(* under encryption none gives the server's to somebody else.              *)
THEOREM SessionsAreKept == HandshakeSpec => SessionsLast
  <1>1. HandshakeSpec => Safety
    BY DEF HandshakeSpec
  <1> DEFINE Kept == /\ \A c \in Clients : established[c] => established'[c]
                     /\ useEncryption /\ peer # NoClient => peer' = peer
  <1>2. HandshakeInv /\ [HandshakeNext]_handshakeVars => [Kept]_handshakeVars
    BY SessionStep
  <1>3. SessionsLast <=> [][Kept]_handshakeVars
    BY DEF SessionsLast
  <1> HIDE DEF Kept
  <1> QED BY <1>1, <1>2, <1>3, HandshakeInvariant, PTL DEF Safety
=============================================================================
