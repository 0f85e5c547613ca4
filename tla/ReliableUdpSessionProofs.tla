----------------------- MODULE ReliableUdpSessionProofs -----------------------
(***************************************************************************)
(* Machine-checked theorems about ReliableUdpSession, for every set of     *)
(* clients and every value of the other constants that satisfies their     *)
(* assumptions.                                                            *)
(***************************************************************************)
EXTENDS ReliableUdpSession, FiniteSetTheorems, SequenceTheorems, TLAPS

-----------------------------------------------------------------------------
(* Facts about numbers, slots and setups.                                  *)

LEMMA IndexInSlots == \A seq \in Int : GetSequenceIndex(seq) \in Slots
  BY BufferSizeAssumption DEF GetSequenceIndex, Slots

LEMMA ModSeq == \A n \in Int : n % SeqModulus \in Seqs
  BY SeqModulusAssumption DEF Seqs

LEMMA SmallMod == \A n \in Nat : n < SeqModulus => n % SeqModulus = n
  BY SeqModulusAssumption

LEMMA SeqsInt == Seqs \subseteq Int /\ Seqs \subseteq Nat /\ 0 \in Seqs
  BY SeqModulusAssumption DEF Seqs

LEMMA SlotsDiffer ==
  \A s, t \in 1 .. BufferSize : GetSequenceIndex(s) = GetSequenceIndex(t) => s = t
  <1>1. \A s \in 1 .. BufferSize : GetSequenceIndex(s) = IF s = BufferSize THEN 0 ELSE s
    BY BufferSizeAssumption DEF GetSequenceIndex
  <1> QED BY <1>1, BufferSizeAssumption

LEMMA SetupBounds ==
  ASSUME setup \in Setups
  PROVE  /\ setup.maxClientSeq \in Nat /\ setup.maxServerSeq \in Nat
         /\ setup.clients \subseteq Clients
         /\ setup.useEncryption \in BOOLEAN /\ setup.repeats \in BOOLEAN
  BY SetupsAssumption

-----------------------------------------------------------------------------
(* What MarkSent leaves behind.                                            *)

LEMMA EndpointFacts ==
  ASSUME NEW T, NEW e \in Endpoints(T)
  PROVE  /\ e.sequence \in Seqs /\ e.lastAcked \in Seqs
         /\ e.sequence \in Nat /\ e.lastAcked \in Nat
         /\ e.SendBuffer \in Buffers(T) /\ e.ReceiveBuffer \in Buffers(AllTexts)
         /\ NextSequence(e) \in Seqs
  <1>1. e.sequence \in Seqs /\ e.lastAcked \in Seqs
    BY DEF Endpoints
  <1>2. e.sequence \in Nat
    BY <1>1, SeqsInt
  <1>3. e.sequence + 1 \in Int
    BY <1>2
  <1>4. NextSequence(e) \in Seqs
    BY <1>3, ModSeq DEF NextSequence
  <1> QED BY <1>1, <1>2, <1>4, SeqsInt DEF Endpoints

LEMMA GetType ==
  ASSUME NEW T, NEW buf \in Buffers(T), NEW seq \in Int
  PROVE  Get(buf, seq) \in Datums(T) /\ Get(buf, seq).Sequence \in Seqs
  BY IndexInSlots DEF Get, Buffers, Datums

LEMMA PutType ==
  ASSUME NEW T, NEW buf \in Buffers(T), NEW seq \in Seqs, NEW d \in Datums(T)
  PROVE  Put(buf, seq, d) \in Buffers(T)
  BY IndexInSlots, SeqsInt DEF Put, Buffers

LEMMA AckedType ==
  ASSUME NEW T, NEW d \in Datums(T)
  PROVE  /\ [d EXCEPT !.IsAcked = TRUE] \in Datums(T)
         /\ [d EXCEPT !.IsAcked = TRUE].Sequence = d.Sequence
         /\ [d EXCEPT !.IsAcked = TRUE].payload = d.payload
  BY DEF Datums

LEMMA DatumType ==
  ASSUME NEW T, NEW text \in T, NEW acked \in BOOLEAN
  PROVE  /\ Datum(text, acked) \in Datums(T)
         /\ Datum(text, acked).payload = text
         /\ Datum(text, acked).IsAcked = acked
  BY SeqsInt DEF Datum, Datums

LEMMA NumberedType ==
  ASSUME NEW T, NEW e \in Endpoints(T), NEW d \in Datums(T)
  PROVE  /\ Numbered(e, d) \in Datums(T)
         /\ Numbered(e, d).Sequence = NextSequence(e)
         /\ Numbered(e, d).payload = d.payload
         /\ Numbered(e, d).IsAcked = d.IsAcked
  BY EndpointFacts DEF Numbered, Datums

(* The slot of the new number has the datum; the others are as they were.  *)
LEMMA SendBufferWithSlots ==
  ASSUME NEW T, NEW e \in Endpoints(T), NEW d \in Datums(T)
  PROVE  LET n == NextSequence(e)
             new == SendBufferWith(e, d) IN
         /\ new \in Buffers(T)
         /\ Holds(new, n) /\ Get(new, n) = Numbered(e, d)
         /\ \A s \in Int : GetSequenceIndex(s) # GetSequenceIndex(n)
                => (Holds(new, s) <=> Holds(e.SendBuffer, s)) /\ Get(new, s) = Get(e.SendBuffer, s)
         /\ \A s \in Int : GetSequenceIndex(s) = GetSequenceIndex(n) /\ Holds(new, s) => s = n
  <1> DEFINE n == NextSequence(e)
             new == SendBufferWith(e, d)
             k == GetSequenceIndex(n)
  <1>1. n \in Seqs /\ n \in Int /\ e.SendBuffer \in Buffers(T)
    BY EndpointFacts, SeqsInt
  <1>2. k \in Slots
    BY <1>1, IndexInSlots
  <1>3. Numbered(e, d) \in Datums(T)
    BY NumberedType
  <1>4. new \in Buffers(T)
    BY <1>1, <1>3, PutType DEF SendBufferWith
  <1>5. ASSUME NEW i \in Slots
        PROVE  new[i] = IF i = k THEN [tag |-> n, datum |-> Numbered(e, d)]
                                 ELSE e.SendBuffer[i]
    BY <1>1, <1>2 DEF SendBufferWith, Put, Buffers
  <1>6. \A s \in Int : GetSequenceIndex(s) \in Slots
    BY IndexInSlots
  <1> HIDE DEF new, k
  <1>7. Holds(new, n) /\ Get(new, n) = Numbered(e, d)
    BY <1>2, <1>5 DEF Holds, Get, k
  <1>8. \A s \in Int : GetSequenceIndex(s) # k
          => (Holds(new, s) <=> Holds(e.SendBuffer, s)) /\ Get(new, s) = Get(e.SendBuffer, s)
    BY <1>5, <1>6 DEF Holds, Get
  <1>9. \A s \in Int : GetSequenceIndex(s) = k /\ Holds(new, s) => s = n
    BY <1>2, <1>5 DEF Holds
  <1> QED BY <1>4, <1>7, <1>8, <1>9 DEF new, k

LEMMA AfterMarkSentType ==
  ASSUME NEW T, NEW e \in Endpoints(T), NEW d \in Datums(T)
  PROVE  /\ AfterMarkSent(e, d) \in Endpoints(T)
         /\ AfterMarkSent(e, d).sequence = NextSequence(e)
         /\ AfterMarkSent(e, d).SendBuffer = SendBufferWith(e, d)
         /\ AfterMarkSent(e, d).lastAcked = e.lastAcked
         /\ AfterMarkSent(e, d).ReceiveBuffer = e.ReceiveBuffer
  BY EndpointFacts, SendBufferWithSlots DEF AfterMarkSent, Endpoints

(* With a number left, the new number is the next one. *)
LEMMA NextIsSuccessor ==
  ASSUME NEW T, NEW e \in Endpoints(T), e.sequence + 1 < SeqModulus
  PROVE  NextSequence(e) = e.sequence + 1
  BY EndpointFacts, SmallMod DEF NextSequence

LEMMA SentIsGenuine ==
  ASSUME NEW T, NEW e \in Endpoints(T), NEW d \in Datums(T),
         Genuine(e), e.sequence + 1 < SeqModulus
  PROVE  /\ Genuine(AfterMarkSent(e, d))
         /\ \A s \in 1 .. e.sequence + 1 :
               Holds(SendBufferWith(e, d), s) => Get(SendBufferWith(e, d), s).Sequence = s
  <1> DEFINE n == NextSequence(e)
             new == SendBufferWith(e, d)
  <1>1. n = e.sequence + 1 /\ e.sequence \in Nat
    BY NextIsSuccessor, EndpointFacts
  <1>2. Get(new, n).Sequence = n
    BY SendBufferWithSlots, NumberedType
  <1>3. ASSUME NEW s \in 0 .. n, Holds(new, s) PROVE Get(new, s).Sequence = s
    <2>1. s \in Int /\ (s = n \/ s \in 0 .. e.sequence)
      BY <1>1
    <2>2. CASE s = n
      BY <1>2, <2>2
    <2>3. CASE s # n /\ s \in 0 .. e.sequence
      <3>1. GetSequenceIndex(s) # GetSequenceIndex(n)
        BY <1>3, <2>1, <2>3, SendBufferWithSlots
      <3>2. Holds(e.SendBuffer, s) /\ Get(new, s) = Get(e.SendBuffer, s)
        BY <1>3, <2>1, <3>1, SendBufferWithSlots
      <3> QED BY <2>3, <3>2 DEF Genuine
    <2> QED BY <2>1, <2>2, <2>3
  <1>4. AfterMarkSent(e, d).sequence = n /\ AfterMarkSent(e, d).SendBuffer = new
    BY AfterMarkSentType
  <1> HIDE DEF n, new
  <1>5. \A s \in 1 .. e.sequence + 1 : Holds(new, s) => Get(new, s).Sequence = s
    BY <1>1, <1>3
  <1> QED BY <1>3, <1>4, <1>5 DEF Genuine, new

(* What a message carries: the new datum, and datums found under numbers   *)
(* given before.                                                           *)
LEMMA DataOf ==
  ASSUME NEW T, NEW e \in Endpoints(T), NEW dat \in Datums(T), NEW type
  PROVE  \A d \in MessageOf(e, dat, type).data :
            \/ d = Numbered(e, dat)
            \/ \E i \in 1 .. e.sequence : /\ Holds(SendBufferWith(e, dat), i)
                                          /\ d = Get(SendBufferWith(e, dat), i)
                                          /\ ~d.IsAcked
  <1> DEFINE send == SendBufferWith(e, dat)
  <1> SUFFICES ASSUME NEW d \in MessageOf(e, dat, type).data, d # Numbered(e, dat)
               PROVE  \E i \in 1 .. e.sequence : /\ Holds(send, i) /\ d = Get(send, i)
                                                 /\ ~d.IsAcked
    OBVIOUS
  <1>1. PICK i \in Attached(e, send) : d = Get(send, i)
    BY DEF MessageOf
  <1>2. i \in Visited(e, send) /\ ~Get(send, i).IsAcked
    BY DEF Attached
  <1>3. /\ i \in e.lastAcked + 1 .. e.sequence
        /\ \A j \in i .. e.sequence : Holds(send, j)
    BY <1>2 DEF Visited
  <1>4. i \in 1 .. e.sequence /\ i \in i .. e.sequence
    BY <1>3, EndpointFacts
  <1>5. send \in Buffers(T)
    BY SendBufferWithSlots
  <1>6. Get(send, i) \in Datums(T)
    BY <1>4, <1>5, GetType
  <1>7. d.IsAcked = FALSE
    BY <1>1, <1>2, <1>6 DEF Datums
  <1> QED BY <1>1, <1>3, <1>4, <1>7

LEMMA MessageOfType ==
  ASSUME NEW T, NEW e \in Endpoints(T), NEW dat \in Datums(T),
         NEW type \in {"SendPubKey", "General", "Ack"}
  PROVE  /\ MessageOf(e, dat, type) \in Messages(T)
         /\ MessageOf(e, dat, type).Sequence = NextSequence(e)
         /\ MessageOf(e, dat, type).messageType = type
         /\ MessageOf(e, dat, type).LastAckedSequence = e.lastAcked
         /\ MessageOf(e, dat, type).LastAckedBits = GenerateAcknowledgedBits(e)
  <1> DEFINE m == MessageOf(e, dat, type)
  <1>1. NextSequence(e) \in Seqs /\ e.lastAcked \in Seqs
    BY EndpointFacts
  <1>2. GenerateAcknowledgedBits(e) \subseteq 0 .. AckBits - 1
    BY DEF GenerateAcknowledgedBits
  <1>3. m.data \subseteq Datums(T)
    <2> SUFFICES ASSUME NEW d \in m.data PROVE d \in Datums(T)
      OBVIOUS
    <2>1. Numbered(e, dat) \in Datums(T)
      BY NumberedType
    <2>2. SendBufferWith(e, dat) \in Buffers(T)
      BY SendBufferWithSlots
    <2>3. \A i \in 1 .. e.sequence : Get(SendBufferWith(e, dat), i) \in Datums(T)
      BY <2>2, GetType, EndpointFacts
    <2>4. \/ d = Numbered(e, dat)
          \/ \E i \in 1 .. e.sequence : d = Get(SendBufferWith(e, dat), i)
      BY DataOf
    <2> QED BY <2>1, <2>3, <2>4
  <1>4. m = [Sequence |-> NextSequence(e), LastAckedSequence |-> e.lastAcked,
             LastAckedBits |-> GenerateAcknowledgedBits(e), messageType |-> type,
             data |-> m.data]
    BY DEF MessageOf
  <1> HIDE DEF m
  <1> QED BY <1>1, <1>2, <1>3, <1>4 DEF Messages, m

(* The datums of a message have numbers of their own; the first datum is   *)
(* the new one.                                                            *)
LEMMA MessageIsWellNumbered ==
  ASSUME NEW T, NEW e \in Endpoints(T), NEW dat \in Datums(T),
         NEW type \in {"SendPubKey", "General", "Ack"},
         Genuine(e), e.sequence + 1 < SeqModulus
  PROVE  /\ WellNumbered(MessageOf(e, dat, type))
         /\ FirstText(MessageOf(e, dat, type)) = dat.payload
         /\ NumberedUpTo(MessageOf(e, dat, type), e.sequence + 1)
  <1> DEFINE m == MessageOf(e, dat, type)
             n == e.sequence + 1
             new == Numbered(e, dat)
  <1>1. /\ e.sequence \in Nat /\ NextSequence(e) = n /\ m.Sequence = n
        /\ new.Sequence = n /\ new.payload = dat.payload
    <2>1. e.sequence \in Nat /\ NextSequence(e) = n
      BY EndpointFacts, NextIsSuccessor
    <2>2. m.Sequence = NextSequence(e)
      BY MessageOfType
    <2>3. new.Sequence = NextSequence(e) /\ new.payload = dat.payload
      BY NumberedType
    <2> QED BY <2>1, <2>2, <2>3
  <1>2. ASSUME NEW d \in m.data, d # new
        PROVE  d.Sequence \in 1 .. e.sequence /\ d = Get(SendBufferWith(e, dat), d.Sequence)
    <2>1. PICK i \in 1 .. e.sequence : /\ Holds(SendBufferWith(e, dat), i)
                                       /\ d = Get(SendBufferWith(e, dat), i)
      BY <1>2, DataOf
    <2>2. i \in 1 .. n
      BY <1>1
    <2>3. d.Sequence = i
      BY <2>1, <2>2, SentIsGenuine
    <2> QED BY <2>1, <2>3
  <1>3. new \in m.data
    BY DEF MessageOf
  <1> HIDE DEF m, new, n
  <1>4. \A d \in m.data : d.Sequence = n => d = new
    BY <1>1, <1>2 DEF n
  <1>5. \A d, x \in m.data : d.Sequence = x.Sequence => d = x
    BY <1>1, <1>2, <1>4
  <1>6. FirstText(m) = dat.payload
    BY <1>1, <1>3, <1>4 DEF FirstText
  <1>7. \A d \in m.data : d.Sequence \in 1 .. n
    BY <1>1, <1>2 DEF n
  <1>8. n \in 1 .. n
    BY <1>1 DEF n
  <1> QED BY <1>1, <1>3, <1>5, <1>6, <1>7, <1>8 DEF WellNumbered, NumberedUpTo, m, n

-----------------------------------------------------------------------------
(* What MarkReceived leaves behind.                                        *)

LEMMA MarkLastType ==
  ASSUME NEW T, NEW send \in Buffers(T), NEW m \in Messages(AllTexts)
  PROVE  MarkLast(send, m) \in Buffers(T)
  <1>1. m.LastAckedSequence \in Int
    BY SeqsInt DEF Messages
  <1>2. /\ Get(send, m.LastAckedSequence) \in Datums(T)
        /\ Get(send, m.LastAckedSequence).Sequence \in Seqs
    BY <1>1, GetType
  <1> QED BY <1>2, AckedType, PutType DEF MarkLast

LEMMA MarkAckedType ==
  ASSUME NEW T, NEW send \in Buffers(T), NEW m
  PROVE  MarkAcked(send, m) \in Buffers(T)
  BY AckedType DEF MarkAcked, Buffers

LEMMA StoreType ==
  ASSUME NEW T, NEW receive \in Buffers(T), NEW m \in Messages(T)
  PROVE  /\ Store(receive, m) \in Buffers(T)
         /\ \A i \in Slots : \/ Store(receive, m)[i] = receive[i]
                             \/ \E d \in m.data :
                                  /\ GetSequenceIndex(d.Sequence) = i
                                  /\ Store(receive, m)[i].tag = d.Sequence
                                  /\ Store(receive, m)[i].datum = [d EXCEPT !.IsAcked = TRUE]
  <1> DEFINE at(i) == CHOOSE d \in m.data : GetSequenceIndex(d.Sequence) = i
  <1>1. ASSUME NEW i \in Slots, \E d \in m.data : GetSequenceIndex(d.Sequence) = i
        PROVE  /\ at(i) \in m.data
               /\ GetSequenceIndex(at(i).Sequence) = i
               /\ at(i).Sequence \in Seqs
               /\ [at(i) EXCEPT !.IsAcked = TRUE] \in Datums(T)
    <2>1. at(i) \in m.data /\ GetSequenceIndex(at(i).Sequence) = i
      BY <1>1
    <2>2. at(i) \in Datums(T)
      BY <2>1 DEF Messages
    <2> QED BY <2>1, <2>2, AckedType DEF Datums
  <1> HIDE DEF at
  <1>2. Store(receive, m) =
          [i \in Slots |-> IF \E d \in m.data : GetSequenceIndex(d.Sequence) = i
                           THEN [tag |-> at(i).Sequence,
                                 datum |-> [at(i) EXCEPT !.IsAcked = TRUE]]
                           ELSE receive[i]]
    BY DEF Store, at
  <1>3. Store(receive, m) \in Buffers(T)
    BY <1>1, <1>2 DEF Buffers
  <1>4. ASSUME NEW i \in Slots
        PROVE  \/ Store(receive, m)[i] = receive[i]
               \/ \E d \in m.data :
                    /\ GetSequenceIndex(d.Sequence) = i
                    /\ Store(receive, m)[i].tag = d.Sequence
                    /\ Store(receive, m)[i].datum = [d EXCEPT !.IsAcked = TRUE]
    <2>1. CASE \E d \in m.data : GetSequenceIndex(d.Sequence) = i
      <3>1. Store(receive, m)[i] = [tag |-> at(i).Sequence,
                                    datum |-> [at(i) EXCEPT !.IsAcked = TRUE]]
        BY <1>2, <2>1
      <3>2. /\ Store(receive, m)[i].tag = at(i).Sequence
            /\ Store(receive, m)[i].datum = [at(i) EXCEPT !.IsAcked = TRUE]
        BY <3>1
      <3>3. at(i) \in m.data /\ GetSequenceIndex(at(i).Sequence) = i
        BY <1>1, <2>1
      <3> QED BY <3>2, <3>3
    <2>2. CASE ~ \E d \in m.data : GetSequenceIndex(d.Sequence) = i
      BY <1>2, <2>2
    <2> QED BY <2>1, <2>2
  <1> QED BY <1>3, <1>4

LEMMA AfterMarkReceivedType ==
  ASSUME NEW T, NEW e \in Endpoints(T), NEW m \in Messages(AllTexts)
  PROVE  /\ AfterMarkReceived(e, m) \in Endpoints(T)
         /\ AfterMarkReceived(e, m).sequence = e.sequence
         /\ AfterMarkReceived(e, m).lastAcked = NewLastAcked(e, m)
         /\ AfterMarkReceived(e, m).SendBuffer = MarkAcked(MarkLast(e.SendBuffer, m), m)
         /\ AfterMarkReceived(e, m).ReceiveBuffer = Store(e.ReceiveBuffer, m)
  <1>1. MarkAcked(MarkLast(e.SendBuffer, m), m) \in Buffers(T)
    BY MarkLastType, MarkAckedType, EndpointFacts
  <1>2. Store(e.ReceiveBuffer, m) \in Buffers(AllTexts)
    BY StoreType, EndpointFacts
  <1>3. m.Sequence \in Seqs
    BY DEF Messages
  <1> QED BY <1>1, <1>2, <1>3 DEF AfterMarkReceived, NewLastAcked, Endpoints

(* Marking changes no number: what is found under a number still has it.   *)
LEMMA ReceivedIsGenuine ==
  ASSUME NEW T, NEW e \in Endpoints(T), NEW m \in Messages(AllTexts), Genuine(e)
  PROVE  Genuine(AfterMarkReceived(e, m))
  <1> DEFINE send == e.SendBuffer
             L == m.LastAckedSequence
             d == Get(send, L)
             k == GetSequenceIndex(d.Sequence)
             acked == [d EXCEPT !.IsAcked = TRUE]
             last == MarkLast(send, m)
             new == MarkAcked(last, m)
  <1>1. send \in Buffers(T) /\ last \in Buffers(T) /\ L \in Int
    BY EndpointFacts, MarkLastType, SeqsInt DEF Messages
  <1>2. d \in Datums(T) /\ d.Sequence \in Seqs /\ acked.Sequence = d.Sequence
    BY <1>1, GetType, AckedType
  <1>3. k \in Slots
    BY <1>2, IndexInSlots, SeqsInt
  <1>4. ASSUME NEW i \in Slots
        PROVE  last[i] = send[i] \/ last[i] = [tag |-> d.Sequence, datum |-> acked]
    BY <1>1, <1>3 DEF MarkLast, Put, Buffers
  <1>5. ASSUME NEW i \in Slots
        PROVE  new[i].tag = last[i].tag /\ new[i].datum.Sequence = last[i].datum.Sequence
    BY <1>1 DEF MarkAcked, Buffers, Datums
  <1>6. AfterMarkReceived(e, m).sequence = e.sequence /\ AfterMarkReceived(e, m).SendBuffer = new
    BY AfterMarkReceivedType
  <1> HIDE DEF last, new, d, k, acked, L
  <1>7. ASSUME NEW s \in 0 .. e.sequence, Holds(new, s) PROVE Get(new, s).Sequence = s
    <2> DEFINE i == GetSequenceIndex(s)
    <2>1. i \in Slots
      BY IndexInSlots, EndpointFacts
    <2>2. last[i].tag = s
      BY <1>5, <1>7, <2>1 DEF Holds
    <2>3. last[i].datum.Sequence = s
      <3>1. CASE last[i] = send[i]
        BY <2>2, <3>1 DEF Genuine, Holds, Get
      <3>2. CASE last[i] = [tag |-> d.Sequence, datum |-> acked]
        BY <1>2, <2>2, <3>2
      <3> QED BY <1>4, <2>1, <3>1, <3>2
    <2> QED BY <1>5, <2>1, <2>3 DEF Get
  <1> QED BY <1>6, <1>7 DEF Genuine

LEMMA MoreTexts ==
  ASSUME NEW T, NEW U, T \subseteq U
  PROVE  Endpoints(T) \subseteq Endpoints(U) /\ Messages(T) \subseteq Messages(U)
  <1>1. Datums(T) \subseteq Datums(U)
    BY DEF Datums
  <1>2. Buffers(T) \subseteq Buffers(U)
    BY <1>1 DEF Buffers
  <1> QED BY <1>1, <1>2 DEF Endpoints, Messages

-----------------------------------------------------------------------------
(* The texts a message raises are the texts of its datums: its numbers     *)
(* rank them, so that each of the first Cardinality(m.data) ranks is some  *)
(* datum's.                                                                *)
LEMMA TextsOfMessage ==
  ASSUME NEW T, NEW m \in Messages(T), WellNumbered(m)
  PROVE  /\ Texts(m) \in Seq(T)
         /\ \A d \in m.data : \E j \in DOMAIN Texts(m) : Texts(m)[j] = d.payload
  <1> DEFINE D == m.data
             N == Cardinality(D)
             Below(d) == {x \in D : x.Sequence < d.Sequence}
             rank == [d \in D |-> Cardinality(Below(d)) + 1]
             num == [d \in D |-> d.Sequence]
  <1>1. /\ D \subseteq Datums(T)
        /\ \A d \in D : d.Sequence \in Seqs /\ d.Sequence \in Int
        /\ \A d, x \in D : d.Sequence = x.Sequence => d = x
    BY SeqsInt DEF Messages, Datums, WellNumbered
  <1>2. IsFiniteSet(D)
    <2>1. IsFiniteSet(Seqs)
      BY FS_Interval, SeqModulusAssumption DEF Seqs
    <2>2. num \in Injection(D, Seqs)
      BY <1>1 DEF Injection, IsInjective
    <2> HIDE DEF num
    <2> QED BY <2>1, <2>2, FS_Injection
  <1>3. N \in Nat
    BY <1>2, FS_CardinalityType
  <1>4. ASSUME NEW d \in D
        PROVE  IsFiniteSet(Below(d)) /\ Cardinality(Below(d)) \in 0 .. N - 1
    <2>1. Below(d) \in SUBSET D /\ d \notin Below(d)
      BY <1>1
    <2>2. IsFiniteSet(Below(d)) /\ Cardinality(Below(d)) <= N /\ (N = Cardinality(Below(d)) => D = Below(d))
      BY <1>2, <2>1, FS_Subset
    <2>3. Cardinality(Below(d)) \in Nat
      BY <2>2, FS_CardinalityType
    <2> QED BY <1>3, <2>1, <2>2, <2>3
  <1>5. ASSUME NEW d \in D, NEW x \in D, d.Sequence < x.Sequence
        PROVE  Cardinality(Below(d)) < Cardinality(Below(x))
    <2>1. Below(d) \in SUBSET Below(x) /\ d \in Below(x) /\ d \notin Below(d)
      BY <1>1, <1>5
    <2>2. /\ Cardinality(Below(d)) <= Cardinality(Below(x))
          /\ Cardinality(Below(x)) = Cardinality(Below(d)) => Below(x) = Below(d)
      BY <1>4, <2>1, FS_Subset
    <2>3. Cardinality(Below(d)) \in Nat /\ Cardinality(Below(x)) \in Nat
      BY <1>4, FS_CardinalityType
    <2> QED BY <2>1, <2>2, <2>3
  <1> HIDE DEF D, N, Below
  <1>6. rank \in Injection(D, 1 .. N)
    <2>1. \A d \in D : Cardinality(Below(d)) \in Int /\ rank[d] \in 1 .. N
      BY <1>3, <1>4
    <2>2. ASSUME NEW d \in D, NEW x \in D, rank[d] = rank[x] PROVE d = x
      <3>1. Cardinality(Below(d)) = Cardinality(Below(x))
        BY <2>1, <2>2
      <3>2. ~(d.Sequence < x.Sequence) /\ ~(x.Sequence < d.Sequence)
        BY <1>5, <2>1, <3>1
      <3> QED BY <1>1, <3>2
    <2>3. rank \in [D -> 1 .. N]
      BY <2>1
    <2> QED BY <2>2, <2>3 DEF Injection, IsInjective
  <1>7. rank \in Surjection(D, 1 .. N)
    <2>1. IsFiniteSet(1 .. N) /\ Cardinality(1 .. N) = N
      BY <1>3, FS_Interval
    <2> HIDE DEF rank
    <2> QED BY <1>6, <2>1, FS_Injection DEF N
  <1> DEFINE at(i) == CHOOSE d \in D : Cardinality(Below(d)) = i - 1
  <1>8. ASSUME NEW i \in 1 .. N
        PROVE  at(i) \in D /\ Cardinality(Below(at(i))) = i - 1
    <2>1. PICK d \in D : rank[d] = i
      BY <1>7 DEF Surjection
    <2>2. Cardinality(Below(d)) \in Int
      BY <1>4, <1>3
    <2>3. Cardinality(Below(d)) = i - 1
      BY <2>1, <2>2
    <2> QED BY <2>3
  <1>9. Texts(m) = [i \in 1 .. N |-> at(i).payload]
    BY DEF Texts, N, D, Below
  <1>10. ASSUME NEW d \in D PROVE \E j \in 1 .. N : at(j) = d
    <2>1. rank[d] \in 1 .. N /\ Cardinality(Below(d)) \in Int
      BY <1>3, <1>4, <1>6 DEF Injection
    <2>2. Cardinality(Below(at(rank[d]))) = Cardinality(Below(d)) /\ at(rank[d]) \in D
      BY <1>8, <2>1
    <2>3. rank[at(rank[d])] = rank[d]
      BY <2>2
    <2> HIDE DEF rank, at
    <2>4. at(rank[d]) = d
      BY <1>6, <2>2, <2>3 DEF Injection, IsInjective
    <2> QED BY <2>1, <2>4
  <1> HIDE DEF at, rank
  <1>11. \A i \in 1 .. N : at(i).payload \in T
    BY <1>1, <1>8 DEF Datums
  <1>12. Texts(m) \in Seq(T)
    BY <1>3, <1>9, <1>11
  <1>13. ASSUME NEW d \in D PROVE \E j \in DOMAIN Texts(m) : Texts(m)[j] = d.payload
    BY <1>9, <1>10
  <1> QED BY <1>12, <1>13 DEF D

-----------------------------------------------------------------------------
(* Texts, keys and packets.                                                *)

LEMMA TextFacts ==
  ASSUME NEW c \in Clients
  PROVE  /\ PlainTexts(c) \subseteq ClientTexts(c) /\ ClientTexts(c) \subseteq AllTexts
         /\ ServerTexts \subseteq AllTexts
         /\ AckText \in PlainTexts(c) /\ NoText \in PlainTexts(c) /\ KeyText(c) \in PlainTexts(c)
         /\ AckText \in ServerTexts
         /\ \A n \in Nat : KeyText(n) \in ServerTexts /\ DataText(c, n) \in ClientTexts(c)
  BY DEF PlainTexts, ClientTexts, ServerTexts, AllTexts, KeyText, DataText

LEMMA KeyFacts ==
  ASSUME NEW c \in Clients
  PROVE  /\ \A k \in KeysOf(c) : k \in Keys /\ k # NoKeys /\ k[1] = c
         /\ \A n \in Nat : /\ ClientDerives(c, n) \in KeysOf(c) /\ ClientDerives(c, n)[2] = n
                          /\ ServerDerives(c, n) \in KeysOf(c) /\ ServerDerives(c, n)[2] = n
                          /\ (ServerDerives(c, n) = ClientDerives(c, n))
                               <=> (c \notin setup.cutKeys /\ n \notin setup.cutKeys)
  BY DEF KeysOf, Keys, NoKeys, Holders, ClientDerives, ServerDerives

LEMMA DerivedFacts ==
  ASSUME NEW c \in Clients, NEW n \in Nat
  PROVE  /\ ClientDerives(c, n) \in KeysOf(c) /\ ClientDerives(c, n)[2] = n
         /\ ServerDerives(c, n) \in Keys /\ ServerDerives(c, n) # NoKeys
         /\ ServerDerives(c, n)[1] = c /\ ServerDerives(c, n)[2] = n
         /\ (ServerDerives(c, n) = ClientDerives(c, n))
              <=> (c \notin setup.cutKeys /\ n \notin setup.cutKeys)
  BY DEF KeysOf, Keys, NoKeys, Holders, ClientDerives, ServerDerives

(* What a client may say before, and once, it has its session. *)
Sayable(c, keys) == IF keys = NoKeys THEN PlainTexts(c) ELSE ClientTexts(c)

LEMMA ClientPacket ==
  ASSUME NoWraparound, setup \in Setups,
         NEW c \in Clients, NEW keys \in {NoKeys} \cup KeysOf(c),
         NEW e \in Endpoints(Sayable(c, keys)), Genuine(e), e.sequence + 1 < SeqModulus,
         NEW dat \in Datums(Sayable(c, keys)), NEW type \in {"SendPubKey", "General", "Ack"},
         type = "SendPubKey" => dat.payload = KeyText(c)
  PROVE  LET pkt == Packet(c, Server, keys, MessageOf(e, dat, type)) IN
         /\ pkt \in Packets /\ WellNumbered(pkt.body) /\ FromClient(pkt)
         /\ pkt.from = c /\ pkt.to = Server /\ pkt.seal = Seal(keys)
         /\ pkt.body.messageType = type
  <1> DEFINE T == Sayable(c, keys)
             m == MessageOf(e, dat, type)
             pkt == Packet(c, Server, keys, m)
  <1>1. dat \in Datums(T)
    OBVIOUS
  <1>2. m \in Messages(T) /\ m.messageType = type
    BY <1>1, MessageOfType
  <1>3. WellNumbered(m) /\ FirstText(m) = dat.payload
    BY <1>1, MessageIsWellNumbered
  <1>4. pkt.from = c /\ pkt.to = Server /\ pkt.seal = Seal(keys) /\ pkt.body = m
    BY DEF Packet
  <1>5. Messages(T) \subseteq Messages(ClientTexts(c)) /\ Messages(T) \subseteq Messages(AllTexts)
    <2>1. T \subseteq ClientTexts(c) /\ T \subseteq AllTexts
      BY TextFacts DEF Sayable
    <2> HIDE DEF T
    <2> QED BY <2>1, MoreTexts
  <1>6. Seal(keys) \in Keys /\ Seal(keys) \in {NoKeys} \cup KeysOf(c)
    BY KeyFacts DEF Seal, Keys
  <1>7. m \in Messages(IF setup.useEncryption /\ Seal(keys) = NoKeys
                       THEN PlainTexts(c) ELSE ClientTexts(c))
    <2>1. CASE setup.useEncryption /\ Seal(keys) = NoKeys
      <3>1. T = PlainTexts(c)
        BY <2>1 DEF Seal, Sayable
      <3> QED BY <1>2, <2>1, <3>1
    <2>2. CASE ~(setup.useEncryption /\ Seal(keys) = NoKeys)
      BY <1>2, <1>5, <2>2
    <2> QED BY <2>1, <2>2
  <1>8. m \in Messages(AllTexts)
    BY <1>2, <1>5
  <1> HIDE DEF m, T
  <1>9. pkt \in Packets
    BY <1>6, <1>8 DEF Packet, Packets
  <1> HIDE DEF pkt
  <1>10. FromClient(pkt)
    BY <1>2, <1>3, <1>4, <1>6, <1>7 DEF FromClient
  <1> QED BY <1>2, <1>3, <1>4, <1>9, <1>10 DEF pkt, m

LEMMA ServerPacket ==
  ASSUME NEW c \in Clients, NEW keys \in Keys,
         NEW e \in Endpoints(ServerTexts), Genuine(e), e.sequence + 1 < SeqModulus,
         NEW dat \in Datums(ServerTexts), NEW type \in {"SendPubKey", "General", "Ack"},
         type = "SendPubKey" => dat.payload \in {"key"} \X Nat
  PROVE  LET pkt == Packet(Server, c, keys, MessageOf(e, dat, type)) IN
         /\ pkt \in Packets /\ WellNumbered(pkt.body) /\ FromServer(pkt)
         /\ pkt.from = Server /\ pkt.to = c /\ pkt.seal = Seal(keys)
         /\ pkt.body.messageType = type /\ FirstText(pkt.body) = dat.payload
         /\ pkt.body = MessageOf(e, dat, type)
  <1> DEFINE m == MessageOf(e, dat, type)
             pkt == Packet(Server, c, keys, m)
  <1>1. m \in Messages(ServerTexts) /\ m.messageType = type
    BY MessageOfType
  <1>2. WellNumbered(m) /\ FirstText(m) = dat.payload
    BY MessageIsWellNumbered
  <1>3. pkt.from = Server /\ pkt.to = c /\ pkt.seal = Seal(keys) /\ pkt.body = m
    BY DEF Packet
  <1>4. m \in Messages(AllTexts)
    BY <1>1, TextFacts, MoreTexts
  <1>5. Seal(keys) \in Keys
    BY DEF Seal, Keys
  <1> HIDE DEF m
  <1>6. pkt \in Packets
    BY <1>4, <1>5 DEF Packet, Packets
  <1> HIDE DEF pkt
  <1>7. FromServer(pkt)
    BY <1>1, <1>2, <1>3, <1>5 DEF FromServer
  <1> QED BY <1>1, <1>2, <1>3, <1>6, <1>7 DEF pkt, m

LEMMA ServerIsNoClient == \A c \in Clients : c # Server
  BY ClientsAssumption

-----------------------------------------------------------------------------
(* SessionInv holds initially.                                             *)

LEMMA FreshIsGenuine ==
  ASSUME NEW T, NoText \in T, NEW s \in FreshBuffers, NEW r \in FreshBuffers
  PROVE  FreshEndpoint(s, r) \in Endpoints(T) /\ Genuine(FreshEndpoint(s, r))
  <1>1. DefaultDatum \in Datums(T) /\ DefaultDatum \in Datums(AllTexts)
    BY SeqsInt, NoTextAssumption DEF DefaultDatum, Datums, AllTexts
  <1>2. s \in Buffers(T) /\ r \in Buffers(AllTexts)
    BY <1>1, GarbageAssumption DEF FreshBuffers, Buffers, Seqs
  <1>3. FreshEndpoint(s, r) \in Endpoints(T)
    BY <1>2, SeqsInt DEF FreshEndpoint, Endpoints
  <1>4. \A i \in Slots : s[i].datum.Sequence = 0
    BY DEF FreshBuffers, DefaultDatum
  <1>5. GetSequenceIndex(0) \in Slots
    BY IndexInSlots
  <1>6. Genuine(FreshEndpoint(s, r))
    BY <1>4, <1>5 DEF Genuine, FreshEndpoint, Get
  <1> QED BY <1>3, <1>6

(* Whatever the memory holds, it is some fresh buffer's.                   *)
LEMMA InitialMemory ==
  ASSUME Init
  PROVE  /\ \A c \in Clients : \E s, r \in FreshBuffers : clientUdp[c] = FreshEndpoint(s, r)
         /\ \E s, r \in FreshBuffers : serverUdp = FreshEndpoint(s, r)
  <1>1. setup.memory \subseteq FreshBuffers
    BY SetupsAssumption DEF Init
  <1> QED BY <1>1 DEF Init

LEMMA SessionInit == Init => SessionInv
  <1> SUFFICES ASSUME Init PROVE SessionInv
    OBVIOUS
  <1>1. \A c \in Clients : \E s, r \in FreshBuffers : clientUdp[c] = FreshEndpoint(s, r)
    BY InitialMemory
  <1>2. \E s, r \in FreshBuffers : serverUdp = FreshEndpoint(s, r)
    BY InitialMemory
  <1>3. ASSUME NEW c \in Clients
        PROVE  /\ Genuine(clientUdp[c]) /\ clientUdp[c] \in Endpoints(PlainTexts(c))
               /\ clientUdp[c] \in Endpoints(AllTexts)
    <2>1. Endpoints(PlainTexts(c)) \subseteq Endpoints(AllTexts)
      BY TextFacts, MoreTexts
    <2> QED BY <1>1, <2>1, FreshIsGenuine, TextFacts
  <1>4. Genuine(serverUdp) /\ serverUdp \in Endpoints(ServerTexts) /\ serverUdp \in Endpoints(AllTexts)
    <2>1. NoText \in ServerTexts /\ NoText \in AllTexts
      BY DEF ServerTexts, AllTexts
    <2> QED BY <1>2, <2>1, FreshIsGenuine
  <1>5. clientUdp \in [Clients -> Endpoints(AllTexts)]
    <2>1. clientUdp \in [Clients -> {FreshEndpoint(s, r) : s, r \in setup.memory}]
      BY DEF Init
    <2> QED BY <2>1, <1>3
  <1>6. /\ setup \in Setups /\ connected = [c \in Clients |-> FALSE]
        /\ clientKeys = [c \in Clients |-> NoKeys] /\ clientDown = [c \in Clients |-> FALSE]
        /\ serverKeys = NoKeys /\ keyPairs = 0 /\ serverDown = FALSE /\ net = {}
        /\ accepted = [c \in Clients |-> 0] /\ raised = <<>>
    BY DEF Init
  <1>7. TypeOK
    <2>1. NoKeys \in Keys
      BY DEF Keys
    <2>2. raised \in Seq(AllTexts)
      BY <1>6
    <2> QED BY <1>4, <1>5, <1>6, <2>1, <2>2 DEF TypeOK
  <1>8. OwnTexts
    BY <1>3, <1>4, <1>6 DEF OwnTexts
  <1>9. OwnPackets /\ OwnKeys /\ KeysInTheClear /\ KeysAgree
    BY <1>6 DEF OwnPackets, OwnKeys, KeysInTheClear, ServerDerives, KeysAgree
  <1> QED BY <1>7, <1>8, <1>9 DEF SessionInv

-----------------------------------------------------------------------------
(* Every step keeps SessionInv.                                            *)

LEMMA ClientFacts ==
  ASSUME SessionInv, NEW c \in Clients
  PROVE  /\ setup \in Setups /\ clientKeys[c] \in {NoKeys} \cup KeysOf(c)
         /\ clientUdp[c] \in Endpoints(Sayable(c, clientKeys[c])) /\ Genuine(clientUdp[c])
         /\ clientUdp[c].sequence \in Nat
  <1>1. clientUdp[c] \in Endpoints(Sayable(c, clientKeys[c]))
    BY DEF SessionInv, OwnTexts, Sayable
  <1> QED BY <1>1, EndpointFacts DEF SessionInv, OwnTexts, OwnKeys, TypeOK

LEMMA ServerFacts ==
  ASSUME SessionInv
  PROVE  /\ setup \in Setups /\ serverKeys \in Keys
         /\ serverUdp \in Endpoints(ServerTexts) /\ Genuine(serverUdp)
         /\ serverUdp.sequence \in Nat
  <1>1. serverUdp \in Endpoints(ServerTexts)
    BY DEF SessionInv, OwnTexts
  <1> QED BY <1>1, EndpointFacts DEF SessionInv, OwnTexts, TypeOK

LEMMA ClientRoom ==
  ASSUME NoWraparound, SessionInv, NEW c \in Clients, NEW n \in Nat, Fits(c, n)
  PROVE  clientUdp[c].sequence + n < SeqModulus
  <1>1. /\ clientUdp[c].sequence \in Nat /\ setup.maxClientSeq \in Nat
        /\ setup.maxClientSeq < SeqModulus
    BY ClientFacts, SetupBounds DEF NoWraparound
  <1> QED BY <1>1, SeqModulusAssumption DEF Fits

LEMMA ServerRoom ==
  ASSUME NoWraparound, SessionInv, NEW n \in Nat, serverUdp.sequence + n <= setup.maxServerSeq
  PROVE  serverUdp.sequence + n < SeqModulus
  <1>1. /\ serverUdp.sequence \in Nat /\ setup.maxServerSeq \in Nat
        /\ setup.maxServerSeq < SeqModulus
    BY ServerFacts, SetupBounds DEF NoWraparound
  <1> QED BY <1>1, SeqModulusAssumption

(* Who a packet is from, by where it goes. *)
LEMMA PacketFacts ==
  ASSUME SessionInv, NEW pkt \in net
  PROVE  /\ pkt.body \in Messages(AllTexts) /\ WellNumbered(pkt.body)
         /\ pkt.to = Server => FromClient(pkt)
         /\ pkt.to \in Clients => FromServer(pkt)
         /\ pkt.from = Server => FromServer(pkt)
         /\ pkt.from # Server => FromClient(pkt)
  BY ClientsAssumption DEF SessionInv, TypeOK, Packets, OwnPackets, FromClient, FromServer

LEMMA AfterIsLess ==
  ASSUME NEW pkt
  PROVE  After(pkt) \subseteq net
  BY DEF After

(* SendInternal, whatever a client may say. *)
LEMMA ClientSends ==
  ASSUME NoWraparound, SessionInv, NEW c \in Clients,
         NEW dat \in Datums(Sayable(c, clientKeys[c])),
         NEW type \in {"SendPubKey", "General", "Ack"},
         type = "SendPubKey" => dat.payload = KeyText(c),
         Fits(c, 1)
  PROVE  LET e == AfterMarkSent(clientUdp[c], dat)
             pkt == Packet(c, Server, clientKeys[c], MessageOf(clientUdp[c], dat, type)) IN
         /\ e \in Endpoints(Sayable(c, clientKeys[c])) /\ Genuine(e)
         /\ e.sequence = clientUdp[c].sequence + 1
         /\ pkt \in Packets /\ WellNumbered(pkt.body) /\ FromClient(pkt)
         /\ pkt.from = c /\ pkt.to = Server /\ pkt.seal = Seal(clientKeys[c])
         /\ pkt.body.messageType = type
  <1> DEFINE T == Sayable(c, clientKeys[c])
             old == clientUdp[c]
             e == AfterMarkSent(old, dat)
  <1>1. /\ setup \in Setups /\ clientKeys[c] \in {NoKeys} \cup KeysOf(c)
        /\ old \in Endpoints(T) /\ Genuine(old)
    BY ClientFacts
  <1>2. old.sequence + 1 < SeqModulus
    BY ClientRoom
  <1>3. e \in Endpoints(T) /\ Genuine(e) /\ e.sequence = old.sequence + 1
    BY <1>1, <1>2, AfterMarkSentType, SentIsGenuine, NextIsSuccessor
  <1> HIDE DEF old
  <1>4. LET pkt == Packet(c, Server, clientKeys[c], MessageOf(old, dat, type)) IN
         /\ pkt \in Packets /\ WellNumbered(pkt.body) /\ FromClient(pkt)
         /\ pkt.from = c /\ pkt.to = Server /\ pkt.seal = Seal(clientKeys[c])
         /\ pkt.body.messageType = type
    BY <1>1, <1>2, ClientPacket
  <1> QED BY <1>3, <1>4 DEF old

(* A step of client c that gives nobody new keys: its endpoint stays of    *)
(* its own side, and what it adds to the net is a packet of its own.       *)
LEMMA ClientStep ==
  ASSUME SessionInv, NEW c \in Clients, NEW e \in Endpoints(Sayable(c, clientKeys[c])), Genuine(e),
         clientUdp' = [clientUdp EXCEPT ![c] = e],
         \A pkt \in net' : \/ pkt \in net
                           \/ /\ pkt \in Packets /\ WellNumbered(pkt.body) /\ FromClient(pkt)
                              /\ setup.useEncryption /\ pkt.body.messageType = "SendPubKey"
                                     => pkt.seal = NoKeys,
         setup' = setup, clientKeys' = clientKeys,
         UNCHANGED <<serverUdp, serverKeys, keyPairs, serverDown, raised>>,
         connected' \in [Clients -> BOOLEAN], clientDown' \in [Clients -> BOOLEAN],
         accepted' \in [Clients -> Nat],
         \A x \in Clients : (connected[x] => connected'[x])
                                /\ (clientDown'[x] => connected'[x])
  PROVE  SessionInv'
  <1> USE DEF SessionInv
  <1>1. e \in Endpoints(AllTexts)
    <2>1. Sayable(c, clientKeys[c]) \subseteq AllTexts
      BY TextFacts DEF Sayable
    <2> QED BY <2>1, MoreTexts
  <1>2. clientUdp' \in [Clients -> Endpoints(AllTexts)]
    BY <1>1 DEF TypeOK
  <1>3. TypeOK'
    BY <1>2 DEF TypeOK
  <1>4. OwnTexts'
    <2>1. \A x \in Clients : clientUdp'[x] = IF x = c THEN e ELSE clientUdp[x]
      BY DEF TypeOK
    <2> QED BY <2>1 DEF OwnTexts, Sayable
  <1>5. OwnPackets'
    BY DEF OwnPackets, FromClient, FromServer
  <1>6. OwnKeys'
    BY DEF OwnKeys
  <1>7. KeysInTheClear'
    <2>1. \A pkt \in net' : pkt \in net \/ pkt.from # Server
      BY ServerIsNoClient DEF FromClient
    <2> QED BY <2>1 DEF KeysInTheClear, ServerDerives
  <1>8. KeysAgree'
    BY DEF KeysAgree
  <1> QED BY <1>3, <1>4, <1>5, <1>6, <1>7, <1>8

(* SendInternal as the last thing of such a step. *)
LEMMA ClientSendStep ==
  ASSUME NoWraparound, SessionInv, NEW c \in Clients,
         NEW text \in Sayable(c, clientKeys[c]),
         NEW type \in {"SendPubKey", "General", "Ack"},
         type = "SendPubKey" => text = KeyText(c) /\ clientKeys[c] = NoKeys,
         SendInternal(c, text, type),
         setup' = setup, clientKeys' = clientKeys, UNCHANGED serverVars,
         connected' \in [Clients -> BOOLEAN], clientDown' \in [Clients -> BOOLEAN],
         accepted' \in [Clients -> Nat],
         \A x \in Clients : (connected[x] => connected'[x])
                                /\ (clientDown'[x] => connected'[x])
  PROVE  SessionInv'
  <1> DEFINE dat == Datum(text, FALSE)
             e == AfterMarkSent(clientUdp[c], dat)
             pkt == Packet(c, Server, clientKeys[c], MessageOf(clientUdp[c], dat, type))
  <1>1. clientUdp' = [clientUdp EXCEPT ![c] = e] /\ net' = net \cup {pkt} /\ Fits(c, 1)
    BY DEF SendInternal
  <1>2. dat \in Datums(Sayable(c, clientKeys[c])) /\ dat.payload = text
    BY DatumType
  <1> HIDE DEF dat
  <1>3. /\ e \in Endpoints(Sayable(c, clientKeys[c])) /\ Genuine(e)
        /\ pkt \in Packets /\ WellNumbered(pkt.body) /\ FromClient(pkt)
        /\ pkt.seal = Seal(clientKeys[c]) /\ pkt.body.messageType = type
    BY <1>1, <1>2, ClientSends
  <1> HIDE DEF e, pkt
  <1>4. type = "SendPubKey" => pkt.seal = NoKeys
    BY <1>3 DEF Seal
  <1>5. \A p \in net' : \/ p \in net
                        \/ /\ p \in Packets /\ WellNumbered(p.body) /\ FromClient(p)
                           /\ setup.useEncryption /\ p.body.messageType = "SendPubKey"
                                  => p.seal = NoKeys
    BY <1>1, <1>3, <1>4
  <1>6. UNCHANGED <<serverUdp, serverKeys, keyPairs, serverDown, raised>>
    BY DEF serverVars
  <1> QED BY <1>1, <1>3, <1>5, <1>6, ClientStep

LEMMA SessionConnect ==
  ASSUME NoWraparound, SessionInv, NEW c \in Clients, Connect(c)
  PROVE  SessionInv'
  <1>1. clientKeys[c] = NoKeys
    BY DEF Connect, SessionInv, OwnKeys
  <1>2. KeyText(c) \in Sayable(c, clientKeys[c])
    BY <1>1, TextFacts DEF Sayable
  <1>3. SendInternal(c, KeyText(c), "SendPubKey")
    BY DEF Connect
  <1>4. /\ connected' = [connected EXCEPT ![c] = TRUE] /\ clientDown' = clientDown
        /\ accepted' = accepted /\ setup' = setup /\ clientKeys' = clientKeys
        /\ UNCHANGED serverVars
    BY DEF Connect
  <1>5. /\ connected' \in [Clients -> BOOLEAN] /\ clientDown' \in [Clients -> BOOLEAN]
        /\ accepted' \in [Clients -> Nat]
        /\ \A x \in Clients : (connected[x] => connected'[x]) /\ (clientDown'[x] => connected'[x])
    BY <1>4 DEF SessionInv, TypeOK, OwnKeys
  <1> QED BY <1>1, <1>2, <1>3, <1>4, <1>5, ClientSendStep

LEMMA SessionSendKeyInstead ==
  ASSUME NoWraparound, SessionInv, NEW c \in Clients, SendKeyInstead(c)
  PROVE  SessionInv'
  <1>1. clientKeys[c] = NoKeys
    BY DEF SendKeyInstead
  <1>2. KeyText(c) \in Sayable(c, clientKeys[c])
    BY <1>1, TextFacts DEF Sayable
  <1>3. SendInternal(c, KeyText(c), "SendPubKey")
    BY DEF SendKeyInstead
  <1>4. /\ connected' = connected /\ clientDown' = clientDown
        /\ accepted' = accepted /\ setup' = setup /\ clientKeys' = clientKeys
        /\ UNCHANGED serverVars
    BY DEF SendKeyInstead
  <1>5. /\ connected' \in [Clients -> BOOLEAN] /\ clientDown' \in [Clients -> BOOLEAN]
        /\ accepted' \in [Clients -> Nat]
        /\ \A x \in Clients : (connected[x] => connected'[x]) /\ (clientDown'[x] => connected'[x])
    BY <1>4 DEF SessionInv, TypeOK, OwnKeys
  <1> QED BY <1>1, <1>2, <1>3, <1>4, <1>5, ClientSendStep

LEMMA SessionSendData ==
  ASSUME NoWraparound, SessionInv, NEW c \in Clients, SendData(c)
  PROVE  SessionInv'
  <1> DEFINE text == DataText(c, accepted[c] + 1)
  <1>1. accepted[c] + 1 \in Nat /\ accepted \in [Clients -> Nat]
    BY DEF SessionInv, TypeOK
  <1>2. text \in Sayable(c, clientKeys[c])
    BY <1>1, TextFacts DEF Sayable, SendData
  <1>3. SendInternal(c, text, "General")
    BY DEF SendData
  <1>4. /\ connected' = connected /\ clientDown' = clientDown
        /\ accepted' = [accepted EXCEPT ![c] = @ + 1]
        /\ setup' = setup /\ clientKeys' = clientKeys
        /\ UNCHANGED serverVars
    BY DEF SendData
  <1>5. /\ connected' \in [Clients -> BOOLEAN] /\ clientDown' \in [Clients -> BOOLEAN]
        /\ \A x \in Clients : (connected[x] => connected'[x]) /\ (clientDown'[x] => connected'[x])
    BY <1>4 DEF SessionInv, TypeOK, OwnKeys
  <1>6. accepted' \in [Clients -> Nat]
    BY <1>1, <1>4
  <1> HIDE DEF text
  <1> QED BY <1>2, <1>3, <1>4, <1>5, <1>6, ClientSendStep

-----------------------------------------------------------------------------
(* What a client, or the server, makes of a message that opens. *)
LEMMA ClientHears ==
  ASSUME SessionInv, NEW c \in Clients, NEW pkt \in net
  PROVE  /\ AfterMarkReceived(clientUdp[c], pkt.body) \in Endpoints(Sayable(c, clientKeys[c]))
         /\ Genuine(AfterMarkReceived(clientUdp[c], pkt.body))
         /\ AfterMarkReceived(clientUdp[c], pkt.body).sequence = clientUdp[c].sequence
  BY ClientFacts, PacketFacts, AfterMarkReceivedType, ReceivedIsGenuine

LEMMA ServerHears ==
  ASSUME SessionInv, NEW pkt \in net
  PROVE  /\ AfterMarkReceived(serverUdp, pkt.body) \in Endpoints(ServerTexts)
         /\ Genuine(AfterMarkReceived(serverUdp, pkt.body))
         /\ AfterMarkReceived(serverUdp, pkt.body).sequence = serverUdp.sequence
  BY ServerFacts, PacketFacts, AfterMarkReceivedType, ReceivedIsGenuine

LEMMA SessionClientCrash ==
  ASSUME SessionInv, NEW c \in Clients, NEW pkt \in net, ClientCrash(c, pkt)
  PROVE  SessionInv'
  <1>1. /\ setup' = setup /\ clientUdp' = clientUdp /\ clientKeys' = clientKeys
        /\ connected' = connected /\ accepted' = accepted /\ connected[c]
        /\ clientDown' = [clientDown EXCEPT ![c] = TRUE]
        /\ UNCHANGED <<serverUdp, serverKeys, keyPairs, serverDown, raised>>
        /\ net' \subseteq net
    BY AfterIsLess DEF ClientCrash, ClientOpens, serverVars
  <1>2. /\ clientUdp[c] \in Endpoints(Sayable(c, clientKeys[c])) /\ Genuine(clientUdp[c])
        /\ clientUdp' = [clientUdp EXCEPT ![c] = clientUdp[c]]
    BY <1>1, ClientFacts DEF SessionInv, TypeOK
  <1>3. /\ connected' \in [Clients -> BOOLEAN] /\ clientDown' \in [Clients -> BOOLEAN]
        /\ accepted' \in [Clients -> Nat]
        /\ \A x \in Clients : (connected[x] => connected'[x]) /\ (clientDown'[x] => connected'[x])
    BY <1>1 DEF SessionInv, TypeOK, OwnKeys
  <1> QED BY <1>1, <1>2, <1>3, ClientStep

LEMMA SessionClientReceiveAck ==
  ASSUME SessionInv, NEW c \in Clients, NEW pkt \in net, ClientReceiveAck(c, pkt)
  PROVE  SessionInv'
  <1> DEFINE e == AfterMarkReceived(clientUdp[c], pkt.body)
  <1>1. /\ setup' = setup /\ clientKeys' = clientKeys
        /\ connected' = connected /\ accepted' = accepted /\ clientDown' = clientDown
        /\ clientUdp' = [clientUdp EXCEPT ![c] = e]
        /\ UNCHANGED <<serverUdp, serverKeys, keyPairs, serverDown, raised>>
        /\ net' \subseteq net
    BY AfterIsLess DEF ClientReceiveAck, serverVars
  <1>2. e \in Endpoints(Sayable(c, clientKeys[c])) /\ Genuine(e)
    BY ClientHears
  <1>3. /\ connected' \in [Clients -> BOOLEAN] /\ clientDown' \in [Clients -> BOOLEAN]
        /\ accepted' \in [Clients -> Nat]
        /\ \A x \in Clients : (connected[x] => connected'[x]) /\ (clientDown'[x] => connected'[x])
    BY <1>1 DEF SessionInv, TypeOK, OwnKeys
  <1> HIDE DEF e
  <1> QED BY <1>1, <1>2, <1>3, ClientStep

LEMMA ClientGetsKeys ==
  ASSUME SessionInv, NEW c \in Clients, NEW m \in net, m.to = c,
         m.body.messageType = "SendPubKey"
  PROVE  LET n == FirstText(m.body)[2] IN
         /\ n \in Nat /\ ClientDerives(c, n) \in KeysOf(c)
         /\ setup.useEncryption => serverKeys = ServerDerives(c, n)
  <1>1. FromServer(m)
    BY PacketFacts
  <1>2. FirstText(m.body) \in {"key"} \X Nat
    BY <1>1 DEF FromServer
  <1>3. FirstText(m.body)[2] \in Nat
    BY <1>2
  <1>4. setup.useEncryption => serverKeys = ServerDerives(c, FirstText(m.body)[2])
    BY <1>1 DEF SessionInv, KeysInTheClear, ServerDerives, FromServer
  <1>5. ClientDerives(c, FirstText(m.body)[2]) \in KeysOf(c)
    BY <1>3, DerivedFacts
  <1> QED BY <1>3, <1>4, <1>5

(* What ClientReceiveKey sends: an empty datum, numbered after the ghost,  *)
(* under the new keys.                                                     *)
LEMMA ClientAnswers ==
  ASSUME NoWraparound, SessionInv, NEW c \in Clients, NEW m \in net, Fits(c, 2),
         NEW keys \in KeysOf(c),
         NEW own \in Datums(PlainTexts(c)), NEW dat \in Datums(PlainTexts(c))
  PROVE  LET ghost == AfterMarkSent(AfterMarkReceived(clientUdp[c], m.body), own)
             e     == AfterMarkSent(ghost, dat)
             pkt   == Packet(c, Server, keys, MessageOf(ghost, dat, "Ack")) IN
         /\ ghost \in Endpoints(ClientTexts(c)) /\ Genuine(ghost)
         /\ ghost.sequence = clientUdp[c].sequence + 1
         /\ e \in Endpoints(ClientTexts(c)) /\ Genuine(e)
         /\ e.sequence = clientUdp[c].sequence + 2
         /\ pkt \in Packets /\ WellNumbered(pkt.body) /\ FromClient(pkt)
         /\ pkt.from = c /\ pkt.to = Server /\ pkt.seal = Seal(keys)
         /\ pkt.body.messageType = "Ack"
  <1> DEFINE T == ClientTexts(c)
             heard == AfterMarkReceived(clientUdp[c], m.body)
             ghost == AfterMarkSent(heard, own)
             e == AfterMarkSent(ghost, dat)
  <1>1. heard \in Endpoints(T) /\ Genuine(heard) /\ heard.sequence = clientUdp[c].sequence
    <2>1. Sayable(c, clientKeys[c]) \subseteq T
      BY TextFacts DEF Sayable
    <2> QED BY <2>1, ClientHears, MoreTexts
  <1>2. own \in Datums(T) /\ dat \in Datums(T)
    BY TextFacts DEF Datums
  <1>3. clientUdp[c].sequence \in Nat /\ clientUdp[c].sequence + 2 < SeqModulus
    BY ClientFacts, ClientRoom
  <1>4. heard.sequence + 1 < SeqModulus
    BY <1>1, <1>3, SeqModulusAssumption
  <1>5. ghost \in Endpoints(T) /\ Genuine(ghost) /\ ghost.sequence = heard.sequence + 1
    BY <1>1, <1>2, <1>4, AfterMarkSentType, SentIsGenuine, NextIsSuccessor
  <1>6. ghost.sequence + 1 < SeqModulus /\ ghost.sequence + 1 = clientUdp[c].sequence + 2
    BY <1>1, <1>3, <1>5
  <1> HIDE DEF ghost
  <1>7. e \in Endpoints(T) /\ Genuine(e) /\ e.sequence = ghost.sequence + 1
    BY <1>2, <1>5, <1>6, AfterMarkSentType, SentIsGenuine, NextIsSuccessor
  <1>8. Sayable(c, keys) = T
    BY KeyFacts DEF Sayable
  <1> HIDE DEF T
  <1>9. LET pkt == Packet(c, Server, keys, MessageOf(ghost, dat, "Ack")) IN
         /\ pkt \in Packets /\ WellNumbered(pkt.body) /\ FromClient(pkt)
         /\ pkt.from = c /\ pkt.to = Server /\ pkt.seal = Seal(keys)
         /\ pkt.body.messageType = "Ack"
    <2>1. setup \in Setups /\ keys \in {NoKeys} \cup KeysOf(c)
      BY ClientFacts
    <2>2. ghost \in Endpoints(Sayable(c, keys)) /\ dat \in Datums(Sayable(c, keys))
      BY <1>2, <1>5, <1>8
    <2> QED BY <1>5, <1>6, <2>1, <2>2, ClientPacket
  <1> QED BY <1>1, <1>5, <1>6, <1>7, <1>9 DEF T, ghost

LEMMA SessionClientReceiveKey ==
  ASSUME NoWraparound, SessionInv, NEW c \in Clients, NEW m \in net, ClientReceiveKey(c, m)
  PROVE  SessionInv'
  <1> DEFINE own == Datum(AckText, TRUE)
             dat == Datum(NoText, FALSE)
             keys == ClientDerives(c, FirstText(m.body)[2])
             heard == AfterMarkReceived(clientUdp[c], m.body)
             ghost == AfterMarkSent(heard, own)
             e == AfterMarkSent(ghost, dat)
             pkt == Packet(c, Server, keys, MessageOf(ghost, dat, "Ack"))
  <1>1. /\ setup' = setup /\ connected' = connected /\ connected[c]
        /\ accepted' = accepted /\ clientDown' = clientDown
        /\ UNCHANGED <<serverUdp, serverKeys, keyPairs, serverDown, raised>>
        /\ m.to = c /\ m.seal = Seal(clientKeys[c]) /\ Fits(c, 2)
        /\ m.body.messageType = "SendPubKey"
    BY DEF ClientReceiveKey, ClientOpens, serverVars
  <1>2. /\ clientUdp' = [clientUdp EXCEPT ![c] = e]
        /\ clientKeys' = [clientKeys EXCEPT ![c] = keys]
        /\ net' = After(m) \cup {pkt}
    BY DEF ClientReceiveKey, Ghost
  <1>3. own \in Datums(PlainTexts(c)) /\ dat \in Datums(PlainTexts(c))
    BY TextFacts, DatumType
  <1>4. keys \in KeysOf(c)
    BY <1>1, ClientGetsKeys
  <1>5. keys \in Keys /\ keys # NoKeys
    BY <1>4, KeyFacts
  <1>15. setup.useEncryption =>
           /\ serverKeys # NoKeys /\ serverKeys[1] = c /\ serverKeys[2] = keys[2]
           /\ (serverKeys = keys)
                 <=> (c \notin setup.cutKeys /\ serverKeys[2] \notin setup.cutKeys)
    <2> DEFINE n == FirstText(m.body)[2]
    <2>1. n \in Nat /\ (setup.useEncryption => serverKeys = ServerDerives(c, n))
      BY <1>1, ClientGetsKeys
    <2>2. keys = ClientDerives(c, n)
      OBVIOUS
    <2> HIDE DEF n, keys
    <2> QED BY <2>1, <2>2, DerivedFacts
  <1> HIDE DEF own, dat, keys
  <1>6. /\ e \in Endpoints(ClientTexts(c)) /\ Genuine(e)
        /\ pkt \in Packets /\ WellNumbered(pkt.body) /\ FromClient(pkt)
        /\ pkt.body.messageType = "Ack" /\ pkt.from = c
    BY <1>1, <1>3, <1>4, ClientAnswers
  <1> USE DEF SessionInv
  <1> HIDE DEF e, pkt
  <1>7. \A p \in net' : p \in net \/ p = pkt
    BY <1>2, AfterIsLess
  <1>8. \A x \in Clients : /\ clientUdp'[x] = IF x = c THEN e ELSE clientUdp[x]
                           /\ clientKeys'[x] = IF x = c THEN keys ELSE clientKeys[x]
    BY <1>2 DEF TypeOK
  <1>9. TypeOK'
    <2>1. e \in Endpoints(AllTexts)
      BY <1>6, TextFacts, MoreTexts
    <2>2. clientUdp' \in [Clients -> Endpoints(AllTexts)]
      BY <1>2, <2>1 DEF TypeOK
    <2>3. clientKeys' \in [Clients -> Keys]
      BY <1>2, <1>5 DEF TypeOK
    <2>4. net' \subseteq Packets
      BY <1>6, <1>7 DEF TypeOK
    <2> QED BY <1>1, <2>2, <2>3, <2>4 DEF TypeOK
  <1>10. OwnTexts'
    BY <1>1, <1>5, <1>6, <1>8 DEF OwnTexts
  <1>11. OwnPackets'
    BY <1>1, <1>6, <1>7 DEF OwnPackets, FromClient, FromServer
  <1>12. OwnKeys'
    BY <1>1, <1>4, <1>8 DEF OwnKeys
  <1>13. KeysInTheClear'
    BY <1>1, <1>6, <1>7 DEF KeysInTheClear, ServerDerives
  <1>14. KeysAgree'
    BY <1>1, <1>8, <1>15 DEF KeysAgree
  <1> QED BY <1>9, <1>10, <1>11, <1>12, <1>13, <1>14

-----------------------------------------------------------------------------
(* A step of the server that leaves its keys. *)
LEMMA ServerStep ==
  ASSUME SessionInv, NEW e \in Endpoints(ServerTexts), Genuine(e), serverUdp' = e,
         \A pkt \in net' : \/ pkt \in net
                           \/ /\ pkt \in Packets /\ WellNumbered(pkt.body) /\ FromServer(pkt)
                              /\ pkt.body.messageType # "SendPubKey",
         setup' = setup, UNCHANGED clientVars, serverKeys' = serverKeys, keyPairs' = keyPairs,
         serverDown' \in BOOLEAN, raised' \in Seq(AllTexts)
  PROVE  SessionInv'
  <1> USE DEF SessionInv
  <1>1. UNCHANGED <<clientUdp, connected, clientKeys, clientDown, accepted>>
    BY DEF clientVars
  <1>2. e \in Endpoints(AllTexts)
    <2>1. ServerTexts \subseteq AllTexts
      BY DEF ServerTexts, AllTexts
    <2> QED BY <2>1, MoreTexts
  <1>3. TypeOK'
    BY <1>1, <1>2 DEF TypeOK
  <1>4. OwnTexts'
    BY <1>1 DEF OwnTexts
  <1>5. OwnPackets'
    BY DEF OwnPackets, FromClient, FromServer
  <1>6. OwnKeys' /\ KeysInTheClear' /\ KeysAgree'
    BY <1>1 DEF OwnKeys, KeysInTheClear, ServerDerives, KeysAgree
  <1> QED BY <1>3, <1>4, <1>5, <1>6

LEMMA SessionServerCrash ==
  ASSUME SessionInv, NEW pkt \in net, ServerCrash(pkt)
  PROVE  SessionInv'
  <1>1. /\ setup' = setup /\ UNCHANGED clientVars /\ serverUdp' = serverUdp
        /\ serverKeys' = serverKeys /\ keyPairs' = keyPairs
        /\ serverDown' \in BOOLEAN /\ raised' = raised
        /\ net' \subseteq net
    BY AfterIsLess DEF ServerCrash
  <1>2. raised' \in Seq(AllTexts)
    BY <1>1 DEF SessionInv, TypeOK
  <1> QED BY <1>1, <1>2, ServerFacts, ServerStep

LEMMA SessionServerReceiveAck ==
  ASSUME SessionInv, NEW pkt \in net, ServerReceiveAck(pkt)
  PROVE  SessionInv'
  <1> DEFINE e == AfterMarkReceived(serverUdp, pkt.body)
  <1>1. /\ setup' = setup /\ UNCHANGED clientVars /\ serverUdp' = e
        /\ serverKeys' = serverKeys /\ keyPairs' = keyPairs
        /\ serverDown' = serverDown /\ raised' = raised
        /\ net' \subseteq net
    BY AfterIsLess DEF ServerReceiveAck
  <1>2. raised' \in Seq(AllTexts) /\ serverDown' \in BOOLEAN
    BY <1>1 DEF SessionInv, TypeOK
  <1>3. e \in Endpoints(ServerTexts) /\ Genuine(e)
    BY ServerHears
  <1> HIDE DEF e
  <1> QED BY <1>1, <1>2, <1>3, ServerStep

LEMMA RaisedType ==
  ASSUME SessionInv, NEW pkt \in net
  PROVE  raised \o Texts(pkt.body) \in Seq(AllTexts)
  <1>1. Texts(pkt.body) \in Seq(AllTexts) /\ raised \in Seq(AllTexts)
    BY PacketFacts, TextsOfMessage DEF SessionInv, TypeOK
  <1> QED BY <1>1, ConcatProperties

(* The server's acknowledgement of a message. *)
LEMMA ServerAcks ==
  ASSUME NoWraparound, SessionInv, NEW m \in net, m.to = Server,
         serverUdp.sequence + 1 <= setup.maxServerSeq,
         NEW dat \in Datums(ServerTexts), NEW keys \in Keys
  PROVE  LET heard == AfterMarkReceived(serverUdp, m.body)
             acked == AfterMarkSent(heard, dat)
             pkt   == Packet(Server, m.from, keys, MessageOf(heard, dat, "Ack")) IN
         /\ m.from \in Clients
         /\ acked \in Endpoints(ServerTexts) /\ Genuine(acked)
         /\ acked.sequence = serverUdp.sequence + 1
         /\ pkt \in Packets /\ WellNumbered(pkt.body) /\ FromServer(pkt)
         /\ pkt.from = Server /\ pkt.to = m.from /\ pkt.seal = Seal(keys)
         /\ pkt.body.messageType = "Ack"
  <1> DEFINE heard == AfterMarkReceived(serverUdp, m.body)
             acked == AfterMarkSent(heard, dat)
  <1>1. m.from \in Clients
    BY PacketFacts DEF FromClient
  <1>2. heard \in Endpoints(ServerTexts) /\ Genuine(heard) /\ heard.sequence = serverUdp.sequence
    BY ServerHears
  <1>3. heard.sequence + 1 < SeqModulus
    BY <1>2, ServerRoom
  <1> HIDE DEF heard
  <1>4. acked \in Endpoints(ServerTexts) /\ Genuine(acked) /\ acked.sequence = heard.sequence + 1
    BY <1>2, <1>3, AfterMarkSentType, SentIsGenuine, NextIsSuccessor
  <1>5. LET pkt == Packet(Server, m.from, keys, MessageOf(heard, dat, "Ack")) IN
         /\ pkt \in Packets /\ WellNumbered(pkt.body) /\ FromServer(pkt)
         /\ pkt.from = Server /\ pkt.to = m.from /\ pkt.seal = Seal(keys)
         /\ pkt.body.messageType = "Ack"
    BY <1>1, <1>2, <1>3, ServerPacket
  <1> QED BY <1>1, <1>2, <1>4, <1>5 DEF heard

LEMMA SessionServerReceiveData ==
  ASSUME NoWraparound, SessionInv, NEW m \in net, ServerReceiveData(m)
  PROVE  SessionInv'
  <1> DEFINE dat == Datum(AckText, FALSE)
             heard == AfterMarkReceived(serverUdp, m.body)
             e == AfterMarkSent(heard, dat)
             pkt == Packet(Server, m.from, serverKeys, MessageOf(heard, dat, "Ack"))
  <1>1. /\ setup' = setup /\ UNCHANGED clientVars
        /\ serverKeys' = serverKeys /\ keyPairs' = keyPairs /\ serverDown' = serverDown
        /\ raised' = raised \o Texts(m.body)
        /\ m.to = Server /\ serverUdp.sequence + 1 <= setup.maxServerSeq
    BY DEF ServerReceiveData, ServerOpens
  <1>2. serverUdp' = e /\ net' = After(m) \cup {pkt}
    BY DEF ServerReceiveData, ServerAck
  <1>3. dat \in Datums(ServerTexts)
    BY DatumType DEF ServerTexts
  <1>4. raised' \in Seq(AllTexts) /\ serverDown' \in BOOLEAN /\ serverKeys \in Keys
    BY <1>1, RaisedType DEF SessionInv, TypeOK
  <1> HIDE DEF dat
  <1>5. /\ e \in Endpoints(ServerTexts) /\ Genuine(e)
        /\ pkt \in Packets /\ WellNumbered(pkt.body) /\ FromServer(pkt)
        /\ pkt.body.messageType = "Ack"
    BY <1>1, <1>3, <1>4, ServerAcks
  <1> HIDE DEF e, pkt
  <1>6. \A p \in net' : p \in net \/ p = pkt
    BY <1>2, AfterIsLess
  <1> QED BY <1>1, <1>2, <1>4, <1>5, <1>6, ServerStep

(* The server's own key, after the acknowledgement of the client's. *)
LEMMA ServerSendsKey ==
  ASSUME NoWraparound, SessionInv, NEW m \in net, m.to = Server,
         serverUdp.sequence + 2 <= setup.maxServerSeq,
         NEW dat \in Datums(ServerTexts), NEW key \in Datums(ServerTexts),
         key.payload \in {"key"} \X Nat, NEW keys \in Keys
  PROVE  LET acked == AfterMarkSent(AfterMarkReceived(serverUdp, m.body), dat)
             e     == AfterMarkSent(acked, key)
             pkt   == Packet(Server, m.from, keys, MessageOf(acked, key, "SendPubKey")) IN
         /\ e \in Endpoints(ServerTexts) /\ Genuine(e)
         /\ e.sequence = serverUdp.sequence + 2
         /\ pkt \in Packets /\ WellNumbered(pkt.body) /\ FromServer(pkt)
         /\ pkt.from = Server /\ pkt.to = m.from /\ pkt.seal = Seal(keys)
         /\ pkt.body.messageType = "SendPubKey" /\ FirstText(pkt.body) = key.payload
  <1> DEFINE acked == AfterMarkSent(AfterMarkReceived(serverUdp, m.body), dat)
             e == AfterMarkSent(acked, key)
  <1>1. /\ serverUdp.sequence \in Nat /\ serverUdp.sequence + 2 < SeqModulus
        /\ setup.maxServerSeq \in Nat
    BY ServerFacts, ServerRoom, SetupBounds
  <1>2. serverUdp.sequence + 1 <= setup.maxServerSeq
    BY <1>1
  <1>3. /\ m.from \in Clients
        /\ acked \in Endpoints(ServerTexts) /\ Genuine(acked)
        /\ acked.sequence = serverUdp.sequence + 1
    BY <1>2, ServerAcks
  <1> HIDE DEF acked
  <1>4. acked.sequence + 1 < SeqModulus /\ acked.sequence + 1 = serverUdp.sequence + 2
    BY <1>1, <1>3
  <1>5. e \in Endpoints(ServerTexts) /\ Genuine(e) /\ e.sequence = acked.sequence + 1
    BY <1>3, <1>4, AfterMarkSentType, SentIsGenuine, NextIsSuccessor
  <1>6. LET pkt == Packet(Server, m.from, keys, MessageOf(acked, key, "SendPubKey")) IN
         /\ pkt \in Packets /\ WellNumbered(pkt.body) /\ FromServer(pkt)
         /\ pkt.from = Server /\ pkt.to = m.from /\ pkt.seal = Seal(keys)
         /\ pkt.body.messageType = "SendPubKey" /\ FirstText(pkt.body) = key.payload
    BY <1>3, <1>4, ServerPacket
  <1> QED BY <1>4, <1>5, <1>6 DEF acked

LEMMA SessionServerReceiveKey ==
  ASSUME NoWraparound, SessionInv, NEW m \in net, ServerReceiveKey(m)
  PROVE  SessionInv'
  <1> DEFINE dat == Datum(AckText, FALSE)
             key == Datum(KeyText(NewKeyPair), FALSE)
             heard == AfterMarkReceived(serverUdp, m.body)
             acked == AfterMarkSent(heard, dat)
             e == AfterMarkSent(acked, key)
             ack == Packet(Server, m.from, serverKeys, MessageOf(heard, dat, "Ack"))
             reply == Packet(Server, m.from, serverKeys, MessageOf(acked, key, "SendPubKey"))
             keys == ServerDerives(FirstText(m.body)[2], NewKeyPair)
  <1>1. /\ setup' = setup /\ UNCHANGED clientVars /\ keyPairs' = keyPairs + 1
        /\ serverDown' = serverDown /\ raised' = raised \o Texts(m.body)
        /\ m.to = Server /\ m.seal = Seal(serverKeys)
        /\ m.body.messageType = "SendPubKey"
        /\ serverUdp.sequence + 2 <= setup.maxServerSeq
    BY DEF ServerReceiveKey, ServerOpens
  <1>2. /\ serverUdp' = e /\ net' = After(m) \cup {ack, reply}
        /\ serverKeys' = keys
    BY DEF ServerReceiveKey, ServerAck
  <1>3. /\ dat \in Datums(ServerTexts) /\ key \in Datums(ServerTexts)
        /\ key.payload = KeyText(NewKeyPair) /\ key.payload \in {"key"} \X Nat
        /\ NewKeyPair \in Nat
    <2>1. NewKeyPair \in Nat
      BY DEF NewKeyPair, SessionInv, TypeOK
    <2>2. AckText \in ServerTexts /\ KeyText(NewKeyPair) \in ServerTexts
          /\ KeyText(NewKeyPair) \in {"key"} \X Nat
      BY <2>1 DEF ServerTexts, KeyText
    <2> QED BY <2>1, <2>2, DatumType
  <1>4. /\ raised' \in Seq(AllTexts) /\ serverDown' \in BOOLEAN /\ serverKeys \in Keys
        /\ keyPairs' \in Nat
    BY <1>1, RaisedType DEF SessionInv, TypeOK
  <1>5. m.from \in Clients /\ keys = ServerDerives(m.from, NewKeyPair) /\ keys \in Keys
    <2>1. FromClient(m)
      BY <1>1, PacketFacts
    <2>2. FirstText(m.body) = KeyText(m.from) /\ m.from \in Clients
      BY <1>1, <2>1 DEF FromClient
    <2>3. FirstText(m.body)[2] = m.from
      BY <2>2 DEF KeyText
    <2>4. keys = ServerDerives(m.from, NewKeyPair)
      BY <2>3
    <2> HIDE DEF keys
    <2> QED BY <1>3, <2>2, <2>4, DerivedFacts
  <1> HIDE DEF dat, key, keys
  <1>6. serverUdp.sequence + 1 <= setup.maxServerSeq
    BY <1>1, ServerFacts, SetupBounds
  <1>7. /\ ack \in Packets /\ WellNumbered(ack.body) /\ FromServer(ack)
        /\ ack.body.messageType = "Ack"
    BY <1>1, <1>3, <1>4, <1>6, ServerAcks
  <1>8. /\ e \in Endpoints(ServerTexts) /\ Genuine(e)
        /\ reply \in Packets /\ WellNumbered(reply.body) /\ FromServer(reply)
        /\ reply.to = m.from /\ reply.seal = Seal(serverKeys)
        /\ reply.body.messageType = "SendPubKey" /\ FirstText(reply.body) = key.payload
    BY <1>1, <1>3, <1>4, ServerSendsKey
  <1>9. setup.useEncryption => serverKeys = NoKeys
    BY <1>1 DEF SessionInv, KeysInTheClear, ServerDerives, Seal
  <1>10. FirstText(reply.body)[2] = NewKeyPair
    BY <1>3, <1>8 DEF KeyText
  <1> HIDE DEF e, ack, reply
  <1> USE DEF SessionInv
  <1>11. \A p \in net' : p \in net \/ p = ack \/ p = reply
    BY <1>2, AfterIsLess
  <1>12. UNCHANGED <<clientUdp, connected, clientKeys, clientDown, accepted>>
    BY <1>1 DEF clientVars
  <1>13. TypeOK'
    <2>1. e \in Endpoints(AllTexts)
      <3>1. ServerTexts \subseteq AllTexts
        BY DEF ServerTexts, AllTexts
      <3> QED BY <1>8, <3>1, MoreTexts
    <2>2. net' \subseteq Packets
      BY <1>7, <1>8, <1>11 DEF TypeOK
    <2> QED BY <1>1, <1>2, <1>4, <1>5, <1>12, <2>1, <2>2 DEF TypeOK
  <1>14. OwnTexts'
    BY <1>2, <1>8, <1>12 DEF OwnTexts
  <1>15. OwnPackets'
    BY <1>1, <1>7, <1>8, <1>11 DEF OwnPackets, FromClient, FromServer
  <1>16. OwnKeys'
    BY <1>12 DEF OwnKeys
  <1>17. KeysInTheClear'
    <2> SUFFICES ASSUME setup.useEncryption, NEW p \in net', p.body.messageType = "SendPubKey"
                 PROVE  /\ p.seal = NoKeys
                        /\ p.from = Server =>
                              serverKeys' = ServerDerives(p.to, FirstText(p.body)[2])
      BY <1>1 DEF KeysInTheClear, ServerDerives
    <2>1. CASE p \in net
      <3>1. /\ p.seal = NoKeys
            /\ p.from = Server => serverKeys = ServerDerives(p.to, FirstText(p.body)[2])
        BY <2>1 DEF KeysInTheClear, ServerDerives
      <3>2. p.from # Server
        BY <1>9, <3>1 DEF NoKeys, ServerDerives
      <3> QED BY <3>1, <3>2
    <2>2. CASE p = ack
      BY <1>7, <2>2
    <2>3. CASE p = reply
      BY <1>2, <1>5, <1>8, <1>9, <1>10, <2>3 DEF Seal
    <2> QED BY <1>11, <2>1, <2>2, <2>3
  <1>18. KeysAgree'
    BY <1>1, <1>9, <1>12 DEF KeysAgree
  <1> QED BY <1>13, <1>14, <1>15, <1>16, <1>17, <1>18

LEMMA SessionStutter == SessionInv /\ UNCHANGED vars => SessionInv'
  BY DEF vars, clientVars, serverVars, SessionInv, TypeOK, OwnTexts, OwnPackets, FromClient,
         FromServer, OwnKeys, KeysInTheClear, KeysAgree, ServerDerives

LEMMA SessionNext ==
  ASSUME NoWraparound
  PROVE  SessionInv /\ [Next]_vars => SessionInv'
  <1> SUFFICES ASSUME SessionInv, [Next]_vars PROVE SessionInv'
    OBVIOUS
  <1>1. setup.clients \subseteq Clients
    BY SetupBounds DEF SessionInv, TypeOK
  <1>2. ASSUME NEW c \in setup.clients, Connect(c) \/ SendKeyInstead(c) \/ SendData(c)
        PROVE  SessionInv'
    BY <1>1, <1>2, SessionConnect, SessionSendKeyInstead, SessionSendData
  <1>3. ASSUME NEW c \in setup.clients, NEW pkt \in net,
               ClientCrash(c, pkt) \/ ClientReceiveAck(c, pkt) \/ ClientReceiveKey(c, pkt)
        PROVE  SessionInv'
    BY <1>1, <1>3, SessionClientCrash, SessionClientReceiveAck, SessionClientReceiveKey
  <1>4. ASSUME NEW pkt \in net, \/ ServerCrash(pkt) \/ ServerReceiveAck(pkt)
                                \/ ServerReceiveData(pkt) \/ ServerReceiveKey(pkt)
        PROVE  SessionInv'
    BY <1>4, SessionServerCrash, SessionServerReceiveAck, SessionServerReceiveData,
       SessionServerReceiveKey
  <1>5. CASE UNCHANGED vars
    BY <1>5, SessionStutter
  <1> QED BY <1>2, <1>3, <1>4, <1>5 DEF Next

(* The inductive invariant of a session: every side says only what is its  *)
(* own, and with encryption the server keeps the keys of the first client  *)
(* it heard.                                                               *)
THEOREM SessionInvariant ==
  ASSUME NoWraparound
  PROVE  Spec => []SessionInv
  BY SessionInit, SessionNext, PTL DEF Spec

(* With encryption, a client that has session keys derived them from the   *)
(* same exchange as the server: no order, repetition or loss of keys,      *)
(* replies and acknowledgements leaves the two with different ones, for    *)
(* any clients and any sizes, unless one of the two public keys was cut at *)
(* a 0 byte (PacketDatum.cpp:9), and then they do differ.                  *)
THEOREM KeysAlwaysAgree ==
  ASSUME NoWraparound
  PROVE  Spec => []KeysAgree
  <1>1. SessionInv => KeysAgree
    BY DEF SessionInv
  <1> QED BY <1>1, SessionInvariant, PTL

(* With encryption, nothing a caller sends leaves a client unsealed: not   *)
(* first, nor bundled with a later key or acknowledgement.                 *)
THEOREM NothingInTheClear ==
  ASSUME NoWraparound
  PROVE  Spec => []NoDataInTheClear
  <1>1. SessionInv => NoDataInTheClear
    <2> SUFFICES ASSUME SessionInv, setup.useEncryption, NEW pkt \in net, NEW c \in Clients,
                        NEW n \in 1 .. setup.maxClientSeq, pkt.seal = NoKeys,
                        NEW d \in pkt.body.data, d.payload = DataText(c, n)
                 PROVE  FALSE
      BY DEF NoDataInTheClear
    <2>1. PICK x \in Clients : pkt.body \in Messages(PlainTexts(x)) \/ pkt.body \in Messages(ServerTexts)
      BY DEF SessionInv, OwnPackets, FromClient, FromServer
    <2>2. d.payload \in PlainTexts(x) \/ d.payload \in ServerTexts
      BY <2>1 DEF Messages, Datums
    <2>3. d.payload[1] # "data"
      BY <2>2 DEF PlainTexts, ServerTexts, AckText, NoText, KeyText
    <2> QED BY <2>3 DEF DataText
  <1> QED BY <1>1, SessionInvariant, PTL

-----------------------------------------------------------------------------
(* What one side heard and what it names, and what the other still has.    *)

LEMMA UpToMore ==
  ASSUME NEW n \in Nat, NEW k \in Nat, n <= k
  PROVE  /\ \A T : \A e \in Endpoints(T) : HeardUpTo(e, n) => HeardUpTo(e, k)
         /\ \A T : \A m \in Messages(T) : NamesUpTo(m, n) => NamesUpTo(m, k)
         /\ \A T : \A m \in Messages(T) : NumberedUpTo(m, n) => NumberedUpTo(m, k)
  <1>1. 1 .. n \subseteq 1 .. k
    OBVIOUS
  <1>2. ASSUME NEW T, NEW e \in Endpoints(T), HeardUpTo(e, n) PROVE HeardUpTo(e, k)
    BY <1>1, <1>2, EndpointFacts DEF HeardUpTo
  <1>3. ASSUME NEW T, NEW m \in Messages(T), NamesUpTo(m, n) PROVE NamesUpTo(m, k)
    <2>1. m.LastAckedSequence \in Nat
      BY SeqsInt DEF Messages
    <2> QED BY <1>1, <1>3, <2>1 DEF NamesUpTo
  <1>4. ASSUME NEW T, NEW m \in Messages(T), NumberedUpTo(m, n) PROVE NumberedUpTo(m, k)
    BY <1>1, <1>4 DEF NumberedUpTo
  <1> QED BY <1>2, <1>3, <1>4

LEMMA SentHears ==
  ASSUME NEW T, NEW e \in Endpoints(T), NEW d \in Datums(T), NEW n, HeardUpTo(e, n)
  PROVE  HeardUpTo(AfterMarkSent(e, d), n)
  BY AfterMarkSentType DEF HeardUpTo

LEMMA ReceivedHears ==
  ASSUME NEW T, NEW e \in Endpoints(T), NEW m \in Messages(AllTexts), NEW n \in Nat,
         HeardUpTo(e, n), NumberedUpTo(m, n)
  PROVE  HeardUpTo(AfterMarkReceived(e, m), n)
  <1> DEFINE old == e.ReceiveBuffer
             new == Store(old, m)
  <1>1. old \in Buffers(AllTexts) /\ e.lastAcked \in Nat
    BY EndpointFacts
  <1>2. /\ AfterMarkReceived(e, m).ReceiveBuffer = new
        /\ AfterMarkReceived(e, m).lastAcked = NewLastAcked(e, m)
    BY AfterMarkReceivedType
  <1>3. ASSUME NEW i \in Slots, new[i].datum.IsAcked PROVE new[i].tag \in 1 .. n
    <2>1. CASE new[i] = e.ReceiveBuffer[i]
      BY <1>3, <2>1 DEF HeardUpTo
    <2>2. CASE \E d \in m.data : new[i].tag = d.Sequence
      BY <2>2 DEF NumberedUpTo
    <2> HIDE DEF old
    <2>3. \/ Store(old, m)[i] = old[i]
          \/ \E d \in m.data : /\ GetSequenceIndex(d.Sequence) = i
                               /\ Store(old, m)[i].tag = d.Sequence
                               /\ Store(old, m)[i].datum = [d EXCEPT !.IsAcked = TRUE]
      BY <1>1, StoreType
    <2> QED BY <2>1, <2>2, <2>3 DEF old
  <1>4. NewLastAcked(e, m) <= n
    BY <1>1 DEF NewLastAcked, HeardUpTo, NumberedUpTo
  <1> QED BY <1>2, <1>3, <1>4 DEF HeardUpTo

LEMMA MessageNames ==
  ASSUME NEW T, NEW e \in Endpoints(T), NEW d \in Datums(T),
         NEW type \in {"SendPubKey", "General", "Ack"}, NEW n, HeardUpTo(e, n)
  PROVE  NamesUpTo(MessageOf(e, d, type), n)
  <1> DEFINE m == MessageOf(e, d, type)
  <1>1. m.LastAckedSequence = e.lastAcked /\ m.LastAckedBits = GenerateAcknowledgedBits(e)
    BY MessageOfType
  <1>2. ASSUME NEW i \in GenerateAcknowledgedBits(e) PROVE Before(e.lastAcked, i + 1) \in 1 .. n
    <2> DEFINE s == Before(e.lastAcked, i + 1)
    <2>1. i \in 0 .. AckBits - 1 /\ i \in Int
      BY AckBitsAssumption DEF GenerateAcknowledgedBits
    <2>2. Holds(e.ReceiveBuffer, s) /\ Get(e.ReceiveBuffer, s).IsAcked
      BY <2>1 DEF GenerateAcknowledgedBits
    <2>3. e.lastAcked - (i + 1) \in Int
      BY <2>1, EndpointFacts
    <2>4. GetSequenceIndex(s) \in Slots
      BY <2>3, ModSeq, SeqsInt, IndexInSlots DEF Before
    <2> HIDE DEF s
    <2>5. s \in 1 .. n
      BY <2>2, <2>4 DEF HeardUpTo, Holds, Get
    <2> QED BY <2>5 DEF s
  <1> HIDE DEF m
  <1>3. NamedByBits(m) \subseteq 1 .. n
    BY <1>1, <1>2 DEF NamedByBits
  <1> QED BY <1>1, <1>3 DEF NamesUpTo, HeardUpTo, m

LEMMA SentIsHeld ==
  ASSUME NEW T, NEW e \in Endpoints(T), NEW d \in Datums(T), AllHeld(e),
         e.sequence + 1 < SeqModulus, e.sequence + 1 <= BufferSize
  PROVE  AllHeld(AfterMarkSent(e, d))
  <1> DEFINE n == NextSequence(e)
             new == SendBufferWith(e, d)
  <1>1. /\ n = e.sequence + 1 /\ e.sequence \in Nat
        /\ AfterMarkSent(e, d).sequence = n /\ AfterMarkSent(e, d).SendBuffer = new
    BY NextIsSuccessor, EndpointFacts, AfterMarkSentType
  <1>2. ASSUME NEW s \in 1 .. n PROVE Holds(new, s)
    <2>1. CASE s = n
      BY <2>1, SendBufferWithSlots
    <2>2. CASE s # n
      <3>1. s \in 1 .. e.sequence /\ s \in 1 .. BufferSize /\ n \in 1 .. BufferSize /\ s \in Int
        BY <1>1, <2>2, BufferSizeAssumption
      <3>2. GetSequenceIndex(s) # GetSequenceIndex(n)
        BY <2>2, <3>1, SlotsDiffer
      <3>3. Holds(e.SendBuffer, s)
        BY <3>1 DEF AllHeld
      <3> QED BY <3>1, <3>2, <3>3, SendBufferWithSlots
    <2> QED BY <2>1, <2>2
  <1> HIDE DEF n, new
  <1> QED BY <1>1, <1>2 DEF AllHeld

(* What a message names is found, and marking it forgets nothing.          *)
LEMMA NamedIsHeld ==
  ASSUME NEW T, NEW e \in Endpoints(T), NEW m \in Messages(AllTexts),
         AllHeld(e), Genuine(e), NamesUpTo(m, e.sequence)
  PROVE  ~DereferencesNull(e, m) /\ AllHeld(AfterMarkReceived(e, m))
  <1> DEFINE send == e.SendBuffer
             L == m.LastAckedSequence
             d == Get(send, L)
             k == GetSequenceIndex(L)
             last == MarkLast(send, m)
             new == MarkAcked(last, m)
  <1>1. /\ send \in Buffers(T) /\ last \in Buffers(T) /\ e.sequence \in Nat
        /\ L \in Nat /\ L \in 0 .. e.sequence
    <2>1. L \in Nat
      BY SeqsInt DEF Messages
    <2> QED BY <2>1, EndpointFacts, MarkLastType DEF NamesUpTo
  <1>2. k \in Slots
    BY <1>1, IndexInSlots
  <1>3. ASSUME NEW i \in Slots PROVE last[i].tag = send[i].tag
    <2>1. CASE ~Holds(send, L)
      BY <2>1 DEF MarkLast
    <2>2. CASE Holds(send, L)
      <3>1. d.Sequence = L /\ send[k].tag = L
        BY <1>1, <2>2 DEF Genuine, Holds
      <3>2. last = [send EXCEPT ![k] = [tag |-> L, datum |-> [d EXCEPT !.IsAcked = TRUE]]]
        BY <2>2, <3>1 DEF MarkLast, Put
      <3> HIDE DEF d, k, L, last
      <3> QED BY <1>1, <1>2, <3>1, <3>2 DEF Buffers
    <2> QED BY <2>1, <2>2
  <1>4. ASSUME NEW i \in Slots PROVE new[i].tag = last[i].tag
    BY <1>1 DEF MarkAcked, Buffers
  <1>5. \A s \in 1 .. e.sequence : GetSequenceIndex(s) \in Slots /\ Holds(send, s)
    BY <1>1, IndexInSlots DEF AllHeld
  <1> HIDE DEF last, new
  <1>6. \A s \in 1 .. e.sequence : Holds(last, s) /\ Holds(new, s)
    BY <1>3, <1>4, <1>5 DEF Holds
  <1>7. ~DereferencesNull(e, m)
    BY <1>6 DEF DereferencesNull, NamesUpTo, last
  <1>8. AfterMarkReceived(e, m).sequence = e.sequence /\ AfterMarkReceived(e, m).SendBuffer = new
    BY AfterMarkReceivedType DEF new, last
  <1> QED BY <1>6, <1>7, <1>8 DEF AllHeld

-----------------------------------------------------------------------------
-----------------------------------------------------------------------------
(* Every step keeps StaysUpInv.                                            *)

LEMMA ClientSlots ==
  ASSUME NoOverwriting, SessionInv, NEW c \in Clients, NEW n \in Nat, Fits(c, n)
  PROVE  clientUdp[c].sequence + n <= BufferSize
  <1>1. /\ clientUdp[c].sequence \in Nat /\ setup.maxClientSeq \in Nat
        /\ setup.maxClientSeq <= BufferSize
    BY ClientFacts, SetupBounds DEF NoOverwriting
  <1> QED BY <1>1, BufferSizeAssumption DEF Fits

LEMMA ServerSlots ==
  ASSUME NoOverwriting, SessionInv, NEW n \in Nat, serverUdp.sequence + n <= setup.maxServerSeq
  PROVE  serverUdp.sequence + n <= BufferSize
  <1>1. /\ serverUdp.sequence \in Nat /\ setup.maxServerSeq \in Nat
        /\ setup.maxServerSeq <= BufferSize
    BY ServerFacts, SetupBounds DEF NoOverwriting
  <1> QED BY <1>1, BufferSizeAssumption

LEMMA EndpointTypes ==
  ASSUME SessionInv
  PROVE  /\ \A c \in Clients : clientUdp[c] \in Endpoints(AllTexts) /\ clientUdp[c].sequence \in Nat
         /\ serverUdp \in Endpoints(AllTexts) /\ serverUdp.sequence \in Nat
         /\ \A pkt \in net : pkt.body \in Messages(AllTexts) /\ pkt.from \in Clients \cup {Server}
                                 /\ pkt.to \in Clients \cup {Server}
  BY EndpointFacts DEF SessionInv, TypeOK, Packets

(* A step of client c that adds packets of its own to the net. *)
LEMMA HoldClientStep ==
  ASSUME SessionInv, ServerHolds, setup.useEncryption => SessionClientHolds,
         NEW c \in Clients, NEW e \in Endpoints(AllTexts),
         clientUdp' = [clientUdp EXCEPT ![c] = e],
         setup' = setup, serverUdp' = serverUdp, serverKeys' = serverKeys,
         clientUdp[c].sequence <= e.sequence,
         HeardUpTo(e, serverUdp.sequence),
         setup.useEncryption => AllHeld(e),
         \A p \in net' : \/ p \in net
                         \/ /\ p.from = c
                            /\ NamesUpTo(p.body, serverUdp.sequence)
                            /\ NumberedUpTo(p.body, e.sequence)
                            /\ setup.useEncryption /\ p.seal = NoKeys
                                   => p.body.messageType = "SendPubKey"
  PROVE  ServerHolds' /\ (setup'.useEncryption => SessionClientHolds')
  <1>1. \A x \in Clients : clientUdp'[x] = IF x = c THEN e ELSE clientUdp[x]
    BY DEF SessionInv, TypeOK
  <1>2. e.sequence \in Nat /\ c # Server
    BY EndpointFacts, ServerIsNoClient
  <1>3. \A x \in Clients : clientUdp[x].sequence \in Nat /\ clientUdp'[x].sequence \in Nat
                               /\ clientUdp[x].sequence <= clientUdp'[x].sequence
    BY <1>1, <1>2, EndpointTypes
  <1>4. ServerHolds'
    BY <1>1, <1>2 DEF ServerHolds
  <1>5. ASSUME setup.useEncryption PROVE SessionClientHolds'
    <2>1. \A x \in Clients : AllHeld(clientUdp'[x])
      BY <1>1, <1>5 DEF SessionClientHolds
    <2>2. ASSUME NEW p \in net', p.from # Server
          PROVE  /\ NumberedUpTo(p.body, clientUdp'[p.from].sequence)
                 /\ p.seal = NoKeys => p.body.messageType = "SendPubKey"
      <3>1. CASE p \in net
        <4>1. /\ NumberedUpTo(p.body, clientUdp[p.from].sequence)
              /\ p.seal = NoKeys => p.body.messageType = "SendPubKey"
          BY <1>5, <2>2, <3>1 DEF SessionClientHolds
        <4>2. p.from \in Clients /\ p.body \in Messages(AllTexts)
          BY <2>2, <3>1, EndpointTypes
        <4> QED BY <1>3, <4>1, <4>2, UpToMore
      <3>2. CASE p \notin net
        BY <1>1, <1>5, <3>2
      <3> QED BY <3>1, <3>2
    <2>3. ASSUME NEW p \in net', p.from = Server PROVE p \in net
      BY <1>2, <2>3
    <2>4. CASE serverKeys = NoKeys
      BY <1>5, <2>1, <2>2, <2>3, <2>4 DEF SessionClientHolds
    <2>5. CASE serverKeys # NoKeys
      <3>1. serverKeys[1] \in Clients
        BY <2>5 DEF SessionInv, TypeOK, Keys
      <3>2. HeardUpTo(serverUdp, clientUdp'[serverKeys[1]].sequence)
        <4>1. HeardUpTo(serverUdp, clientUdp[serverKeys[1]].sequence)
          BY <1>5, <2>5 DEF SessionClientHolds
        <4> QED BY <1>3, <3>1, <4>1, EndpointTypes, UpToMore
      <3>3. ASSUME NEW p \in net', p.from = Server
            PROVE  p.to = serverKeys[1] /\ NamesUpTo(p.body, clientUdp'[p.to].sequence)
        <4>1. p.to = serverKeys[1] /\ NamesUpTo(p.body, clientUdp[p.to].sequence)
          BY <1>5, <2>3, <2>5, <3>3 DEF SessionClientHolds
        <4>2. p.body \in Messages(AllTexts)
          BY <2>3, <3>3, EndpointTypes
        <4> QED BY <1>3, <3>1, <4>1, <4>2, UpToMore
      <3> QED BY <2>1, <2>2, <2>5, <3>2, <3>3 DEF SessionClientHolds
    <2> QED BY <2>4, <2>5
  <1> QED BY <1>4, <1>5

(* A step of the server, for client c, that adds packets to c. *)
LEMMA HoldServerStep ==
  ASSUME SessionInv, ServerHolds, setup.useEncryption => SessionClientHolds,
         NEW c \in Clients, NEW e \in Endpoints(AllTexts),
         serverUdp' = e, setup' = setup, clientUdp' = clientUdp,
         serverUdp.sequence <= e.sequence,
         AllHeld(e),
         setup.useEncryption =>
             /\ serverKeys' # NoKeys /\ serverKeys'[1] = c
             /\ serverKeys # NoKeys => serverKeys' = serverKeys
             /\ HeardUpTo(e, clientUdp[c].sequence),
         \A p \in net' : \/ p \in net
                         \/ /\ p.from = Server /\ p.to = c
                            /\ NumberedUpTo(p.body, e.sequence)
                            /\ setup.useEncryption => NamesUpTo(p.body, clientUdp[c].sequence)
  PROVE  ServerHolds' /\ (setup'.useEncryption => SessionClientHolds')
  <1>1. e.sequence \in Nat /\ serverUdp.sequence \in Nat
    BY EndpointFacts, EndpointTypes
  <1>2. ServerHolds'
    <2>1. \A x \in Clients : HeardUpTo(clientUdp[x], e.sequence)
      BY <1>1, EndpointTypes, UpToMore DEF ServerHolds
    <2>2. ASSUME NEW p \in net'
          PROVE  IF p.from = Server THEN NumberedUpTo(p.body, e.sequence)
                                    ELSE NamesUpTo(p.body, e.sequence)
      <3>1. CASE p \in net
        BY <1>1, <3>1, EndpointTypes, UpToMore DEF ServerHolds
      <3> QED BY <3>1
    <2> QED BY <2>1, <2>2 DEF ServerHolds
  <1>3. ASSUME setup.useEncryption PROVE SessionClientHolds'
    <2>1. ASSUME NEW p \in net', p.from # Server PROVE p \in net
      BY <2>1
    <2>2. ASSUME NEW p \in net', p.from = Server
          PROVE  p.to = c /\ NamesUpTo(p.body, clientUdp[p.to].sequence)
      <3>1. CASE p \in net
        BY <1>3, <2>2, <3>1 DEF SessionClientHolds
      <3> QED BY <1>3, <3>1
    <2> QED BY <1>3, <2>1, <2>2 DEF SessionClientHolds
  <1> QED BY <1>2, <1>3

-----------------------------------------------------------------------------
(* With no session it is not the server that sends, and with one it is the *)
(* client's own numbers that count.                                        *)
LEMMA SayingHolds ==
  ASSUME NEW T, NEW old \in Endpoints(T), Genuine(old), old.sequence + 1 < SeqModulus,
         NEW dat \in Datums(T), NEW type \in {"SendPubKey", "General", "Ack"},
         NEW n \in Nat, HeardUpTo(old, n)
  PROVE  /\ AfterMarkSent(old, dat).sequence = old.sequence + 1
         /\ HeardUpTo(AfterMarkSent(old, dat), n)
         /\ NamesUpTo(MessageOf(old, dat, type), n)
         /\ NumberedUpTo(MessageOf(old, dat, type), old.sequence + 1)
         /\ AllHeld(old) /\ old.sequence + 1 <= BufferSize => AllHeld(AfterMarkSent(old, dat))
  <1>1. AfterMarkSent(old, dat).sequence = old.sequence + 1
    BY NextIsSuccessor, AfterMarkSentType
  <1>2. HeardUpTo(AfterMarkSent(old, dat), n)
    BY SentHears
  <1>3. NamesUpTo(MessageOf(old, dat, type), n)
    BY MessageNames
  <1>4. NumberedUpTo(MessageOf(old, dat, type), old.sequence + 1)
    BY MessageIsWellNumbered
  <1>5. AllHeld(old) /\ old.sequence + 1 <= BufferSize => AllHeld(AfterMarkSent(old, dat))
    BY SentIsHeld
  <1> QED BY <1>1, <1>2, <1>3, <1>4, <1>5

LEMMA ClientSendHolds ==
  ASSUME NoWraparound, NoOverwriting, SessionInv, ServerHolds,
         setup.useEncryption => SessionClientHolds,
         NEW c \in Clients, NEW text \in Sayable(c, clientKeys[c]),
         NEW type \in {"SendPubKey", "General", "Ack"},
         type = "SendPubKey" \/ clientKeys[c] # NoKeys,
         SendInternal(c, text, type), setup' = setup, UNCHANGED serverVars
  PROVE  /\ ServerHolds' /\ (setup'.useEncryption => SessionClientHolds')
         /\ clientUdp'[c].sequence = clientUdp[c].sequence + 1
         /\ \A x \in Clients : x # c => clientUdp'[x] = clientUdp[x]
         /\ \E pkt : /\ net' = net \cup {pkt}
                     /\ pkt.from = c /\ pkt.body.messageType = type
  <1> DEFINE dat == Datum(text, FALSE)
             old == clientUdp[c]
             T == Sayable(c, clientKeys[c])
             m == MessageOf(old, dat, type)
             e == AfterMarkSent(old, dat)
             pkt == Packet(c, Server, clientKeys[c], m)
  <1>1. clientUdp' = [clientUdp EXCEPT ![c] = e] /\ net' = net \cup {pkt} /\ Fits(c, 1)
    BY DEF SendInternal
  <1>2. serverUdp' = serverUdp /\ serverKeys' = serverKeys
    BY DEF serverVars
  <1>3. dat \in Datums(T)
    BY DatumType
  <1>4. old \in Endpoints(T) /\ Genuine(old) /\ old.sequence \in Nat
    BY ClientFacts
  <1>5. old.sequence + 1 < SeqModulus /\ old.sequence + 1 <= BufferSize
    BY <1>1, ClientRoom, ClientSlots
  <1>6. HeardUpTo(old, serverUdp.sequence) /\ serverUdp.sequence \in Nat
    BY EndpointTypes DEF ServerHolds
  <1>7. setup.useEncryption => AllHeld(old)
    BY DEF SessionClientHolds
  <1>8. /\ pkt.from = c /\ pkt.seal = Seal(clientKeys[c]) /\ pkt.body = m
        /\ m.messageType = type
    <2>1. m.messageType = type
      BY <1>3, <1>4, MessageOfType
    <2> HIDE DEF m
    <2> QED BY <2>1 DEF Packet
  <1> HIDE DEF dat, old, T
  <1>9. /\ e.sequence = old.sequence + 1 /\ HeardUpTo(e, serverUdp.sequence)
        /\ NamesUpTo(m, serverUdp.sequence) /\ NumberedUpTo(m, old.sequence + 1)
        /\ setup.useEncryption => AllHeld(e)
    BY <1>3, <1>4, <1>5, <1>6, <1>7, SayingHolds
  <1>10. e \in Endpoints(AllTexts)
    <2>1. e \in Endpoints(T)
      BY <1>3, <1>4, AfterMarkSentType
    <2>2. T \subseteq AllTexts
      BY TextFacts DEF Sayable, T
    <2> HIDE DEF e
    <2> QED BY <2>1, <2>2, MoreTexts
  <1> HIDE DEF e, m, pkt
  <1>11. setup.useEncryption /\ pkt.seal = NoKeys => type = "SendPubKey"
    BY <1>8 DEF Seal
  <1>12. ServerHolds' /\ (setup'.useEncryption => SessionClientHolds')
    <2>1. old.sequence <= e.sequence /\ old = clientUdp[c]
      BY <1>4, <1>9 DEF old
    <2>2. \A p \in net' : \/ p \in net
                          \/ /\ p.from = c
                             /\ NamesUpTo(p.body, serverUdp.sequence)
                             /\ NumberedUpTo(p.body, e.sequence)
                             /\ setup.useEncryption /\ p.seal = NoKeys
                                    => p.body.messageType = "SendPubKey"
      BY <1>1, <1>8, <1>9, <1>11
    <2> QED BY <1>1, <1>2, <1>9, <1>10, <2>1, <2>2, HoldClientStep
  <1>13. \A x \in Clients : clientUdp'[x] = IF x = c THEN e ELSE clientUdp[x]
    BY <1>1 DEF SessionInv, TypeOK
  <1>14. clientUdp'[c].sequence = clientUdp[c].sequence + 1
    BY <1>9, <1>13 DEF old
  <1> QED BY <1>1, <1>8, <1>12, <1>13, <1>14

(* The datagrams with data, as packets come and go. *)
LEMMA UnderWay ==
  ASSUME NEW pkt, NEW new, IsFiniteSet(DataUnderWay)
  PROVE  /\ Cardinality(DataUnderWay) \in Nat
         /\ net' = net \cup {pkt} =>
               /\ pkt.body.messageType # "General" => DataUnderWay' = DataUnderWay
               /\ pkt.body.messageType = "General" =>
                     /\ IsFiniteSet(DataUnderWay')
                     /\ Cardinality(DataUnderWay') <= Cardinality(DataUnderWay) + 1
         /\ pkt \in net /\ net' = (net \ {pkt}) \cup new /\ (\A p \in new : p.body.messageType # "General") =>
               /\ pkt.body.messageType # "General" => DataUnderWay' = DataUnderWay
               /\ pkt.body.messageType = "General" =>
                     /\ IsFiniteSet(DataUnderWay')
                     /\ Cardinality(DataUnderWay') <= Cardinality(DataUnderWay) - 1
  <1>1. Cardinality(DataUnderWay) \in Nat
    BY FS_CardinalityType
  <1>2. ASSUME net' = net \cup {pkt}, pkt.body.messageType # "General"
        PROVE  DataUnderWay' = DataUnderWay
    BY <1>2 DEF DataUnderWay
  <1>3. ASSUME net' = net \cup {pkt}, pkt.body.messageType = "General"
        PROVE  /\ IsFiniteSet(DataUnderWay')
               /\ Cardinality(DataUnderWay') <= Cardinality(DataUnderWay) + 1
    <2>1. DataUnderWay' = DataUnderWay \cup {pkt}
      BY <1>3 DEF DataUnderWay
    <2> QED BY <1>1, <2>1, FS_AddElement
  <1>4. ASSUME pkt \in net, net' = (net \ {pkt}) \cup new, \A p \in new : p.body.messageType # "General",
               pkt.body.messageType # "General"
        PROVE  DataUnderWay' = DataUnderWay
    BY <1>4 DEF DataUnderWay
  <1>5. ASSUME pkt \in net, net' = (net \ {pkt}) \cup new, \A p \in new : p.body.messageType # "General",
               pkt.body.messageType = "General"
        PROVE  /\ IsFiniteSet(DataUnderWay')
               /\ Cardinality(DataUnderWay') <= Cardinality(DataUnderWay) - 1
    <2>1. DataUnderWay' = DataUnderWay \ {pkt} /\ pkt \in DataUnderWay
      BY <1>5 DEF DataUnderWay
    <2> QED BY <1>1, <2>1, FS_RemoveElement
  <1> QED BY <1>1, <1>2, <1>3, <1>4, <1>5

-----------------------------------------------------------------------------
(* A client's key, first or again. *)
LEMMA StaysUpSendKey ==
  ASSUME NoWraparound, NoOverwriting, SessionInv, StaysUpInv, NEW c \in Clients,
         Connect(c) \/ SendKeyInstead(c)
  PROVE  StaysUpInv'
  <1>1. clientKeys[c] = NoKeys
    BY DEF Connect, SendKeyInstead, SessionInv, OwnKeys
  <1>2. KeyText(c) \in Sayable(c, clientKeys[c])
    BY <1>1, TextFacts DEF Sayable
  <1>3. /\ SendInternal(c, KeyText(c), "SendPubKey") /\ setup' = setup /\ UNCHANGED serverVars
        /\ clientKeys' = clientKeys /\ clientDown' = clientDown /\ accepted' = accepted
        /\ \A x \in Clients : x # c => connected'[x] = connected[x]
    BY DEF Connect, SendKeyInstead, SessionInv, TypeOK
  <1>4. /\ ServerHolds /\ (setup.useEncryption => SessionClientHolds)
        /\ ServerStaysUp /\ ClientsStayUp
        /\ setup.useEncryption /\ ~setup.repeats => ClientIsAhead
    BY DEF StaysUpInv
  <1>5. /\ ServerHolds' /\ (setup'.useEncryption => SessionClientHolds')
        /\ clientUdp'[c].sequence = clientUdp[c].sequence + 1
        /\ \A x \in Clients : x # c => clientUdp'[x] = clientUdp[x]
    BY <1>2, <1>3, <1>4, ClientSendHolds
  <1>6. PICK pkt : /\ net' = net \cup {pkt}
                   /\ pkt.from = c /\ pkt.body.messageType = "SendPubKey"
    BY <1>2, <1>3, <1>4, ClientSendHolds
  <1>7. serverDown' = serverDown /\ serverUdp' = serverUdp /\ serverKeys' = serverKeys
    BY <1>3 DEF serverVars
  <1>8. ServerStaysUp' /\ ClientsStayUp'
    BY <1>3, <1>4, <1>7 DEF ServerStaysUp, ClientsStayUp
  <1>9. ASSUME setup.useEncryption, ~setup.repeats PROVE ClientIsAhead'
    <2>1. ClientIsAhead
      BY <1>4, <1>9
    <2>2. DataUnderWay' = DataUnderWay
      BY <1>6, <2>1, UnderWay DEF ClientIsAhead
    <2>3. \A x \in Clients :
            /\ connected'[x] => clientUdp'[x].sequence >= 1
            /\ IF clientKeys'[x] = NoKeys THEN accepted'[x] = 0
               ELSE clientUdp'[x].sequence >= accepted'[x] + 3
      BY <1>1, <1>3, <1>5, <2>1, EndpointTypes DEF ClientIsAhead
    <2>4. \A p \in net' : p \in net \/ p.from # Server
      BY <1>6, ServerIsNoClient
    <2> QED BY <1>3, <1>7, <2>1, <2>2, <2>3, <2>4 DEF ClientIsAhead
  <1> QED BY <1>3, <1>5, <1>8, <1>9 DEF StaysUpInv

LEMMA StaysUpSendData ==
  ASSUME NoWraparound, NoOverwriting, SessionInv, StaysUpInv, NEW c \in Clients, SendData(c)
  PROVE  StaysUpInv'
  <1> DEFINE text == DataText(c, accepted[c] + 1)
  <1>1. clientKeys[c] # NoKeys /\ accepted[c] \in Nat /\ accepted \in [Clients -> Nat]
    BY DEF SendData, SessionInv, TypeOK
  <1>2. text \in Sayable(c, clientKeys[c])
    BY <1>1, TextFacts DEF Sayable
  <1>3. /\ SendInternal(c, text, "General") /\ setup' = setup /\ UNCHANGED serverVars
        /\ clientKeys' = clientKeys /\ clientDown' = clientDown /\ connected' = connected
        /\ accepted' = [accepted EXCEPT ![c] = @ + 1]
    BY DEF SendData
  <1>4. /\ ServerHolds /\ (setup.useEncryption => SessionClientHolds)
        /\ ServerStaysUp /\ ClientsStayUp
        /\ setup.useEncryption /\ ~setup.repeats => ClientIsAhead
    BY DEF StaysUpInv
  <1> HIDE DEF text
  <1>5. /\ ServerHolds' /\ (setup'.useEncryption => SessionClientHolds')
        /\ clientUdp'[c].sequence = clientUdp[c].sequence + 1
        /\ \A x \in Clients : x # c => clientUdp'[x] = clientUdp[x]
    BY <1>1, <1>2, <1>3, <1>4, ClientSendHolds
  <1>6. PICK pkt : net' = net \cup {pkt} /\ pkt.from = c /\ pkt.body.messageType = "General"
    BY <1>1, <1>2, <1>3, <1>4, ClientSendHolds
  <1>7. serverDown' = serverDown /\ serverUdp' = serverUdp /\ serverKeys' = serverKeys
    BY <1>3 DEF serverVars
  <1>8. ServerStaysUp' /\ ClientsStayUp'
    BY <1>3, <1>4, <1>7 DEF ServerStaysUp, ClientsStayUp
  <1>9. ASSUME setup.useEncryption, ~setup.repeats PROVE ClientIsAhead'
    <2>1. ClientIsAhead
      BY <1>4, <1>9
    <2>2. serverKeys # NoKeys /\ serverKeys[1] = c
      BY <1>1, <1>9, KeyFacts DEF SessionInv, KeysAgree, OwnKeys
    <2>3. /\ Cardinality(DataUnderWay) \in Nat /\ IsFiniteSet(DataUnderWay')
          /\ Cardinality(DataUnderWay') <= Cardinality(DataUnderWay) + 1
      BY <1>6, <2>1, UnderWay DEF ClientIsAhead
    <2>4. Cardinality(DataUnderWay') \in Nat
      BY <2>3, FS_CardinalityType
    <2>5. \A x \in Clients : accepted[x] \in Nat
                                /\ accepted'[x] = IF x = c THEN accepted[x] + 1 ELSE accepted[x]
      BY <1>1, <1>3
    <2>6. \A x \in Clients :
            /\ connected'[x] => clientUdp'[x].sequence >= 1
            /\ IF clientKeys'[x] = NoKeys THEN accepted'[x] = 0
               ELSE clientUdp'[x].sequence >= accepted'[x] + 3
      BY <1>1, <1>3, <1>5, <2>1, <2>5, EndpointTypes DEF ClientIsAhead
    <2>7. \A p \in net' : p \in net \/ p.from # Server
      BY <1>6, ServerIsNoClient
    <2>8. serverUdp.sequence + Cardinality(DataUnderWay) <= accepted[c] + 2
      BY <2>1, <2>2 DEF ClientIsAhead
    <2>9. serverUdp'.sequence + Cardinality(DataUnderWay') <= accepted'[c] + 2
      BY <1>1, <1>7, <2>3, <2>4, <2>5, <2>8, EndpointTypes
    <2> QED BY <1>3, <1>7, <2>1, <2>2, <2>3, <2>6, <2>7, <2>9 DEF ClientIsAhead
  <1> QED BY <1>3, <1>5, <1>8, <1>9 DEF StaysUpInv

-----------------------------------------------------------------------------
(* What a client makes of a message. *)

(* Only the client of the session is spoken to, and only of what it has.   *)
LEMMA ClientLooksUp ==
  ASSUME NoWraparound, SessionInv, ServerHolds, SessionClientHolds, setup.useEncryption,
         NEW c \in Clients, NEW pkt \in net, pkt.to = c
  PROVE  /\ serverKeys # NoKeys /\ serverKeys[1] = c
         /\ ~DereferencesNull(clientUdp[c], pkt.body)
         /\ AllHeld(AfterMarkReceived(clientUdp[c], pkt.body))
  <1>1. pkt.from = Server
    BY PacketFacts DEF FromServer
  <1>2. /\ serverKeys # NoKeys /\ serverKeys[1] = c
        /\ NamesUpTo(pkt.body, clientUdp[c].sequence)
    BY <1>1 DEF SessionClientHolds
  <1>3. AllHeld(clientUdp[c]) /\ Genuine(clientUdp[c])
    BY ClientFacts DEF SessionClientHolds
  <1> QED BY <1>2, <1>3, EndpointTypes, NamedIsHeld

LEMMA ClientFindsAcks ==
  ASSUME NoWraparound, SessionInv, ServerHolds, SessionClientHolds, ClientIsAhead,
         setup.useEncryption, NEW c \in Clients, NEW pkt \in net, ClientOpens(c, pkt)
  PROVE  ~ClientCrashes(c, pkt.body)
  <1> DEFINE e == AfterMarkReceived(clientUdp[c], pkt.body)
             n == pkt.body.Sequence
  <1>1. pkt.to = c /\ connected[c] /\ pkt.seal = clientKeys[c]
    BY DEF ClientOpens, Seal
  <1>2. /\ serverKeys # NoKeys /\ serverKeys[1] = c /\ pkt.from = Server
        /\ ~DereferencesNull(clientUdp[c], pkt.body)
        /\ AllHeld(e) /\ e.sequence = clientUdp[c].sequence
    BY <1>1, ClientLooksUp, ClientHears, PacketFacts DEF FromServer
  <1> HIDE DEF e
  <1>3. ASSUME pkt.body.messageType = "Ack" PROVE Holds(e.SendBuffer, n)
    <2>1. n \in 1 .. serverUdp.sequence
      BY <1>2 DEF ServerHolds, NumberedUpTo
    <2>2. clientUdp[c].sequence \in Nat /\ serverUdp.sequence \in Nat
      BY EndpointTypes
    <2>3. n <= clientUdp[c].sequence
      <3>1. CASE clientKeys[c] = NoKeys
        BY <1>1, <1>2, <1>3, <2>1, <2>2, <3>1 DEF ClientIsAhead
      <3>2. CASE clientKeys[c] # NoKeys
        <4>1. /\ clientUdp[c].sequence >= accepted[c] + 3
              /\ serverUdp.sequence + Cardinality(DataUnderWay) <= accepted[c] + 2
              /\ Cardinality(DataUnderWay) \in Nat
          BY <1>2, <3>2, FS_CardinalityType DEF ClientIsAhead
        <4>2. accepted[c] \in Nat
          BY DEF SessionInv, TypeOK
        <4> QED BY <2>1, <2>2, <4>1, <4>2
      <3> QED BY <3>1, <3>2
    <2>4. n \in 1 .. e.sequence
      BY <1>2, <2>1, <2>2, <2>3
    <2> QED BY <1>2, <2>4 DEF AllHeld
  <1> QED BY <1>2, <1>3 DEF ClientCrashes, e

LEMMA StaysUpClientCrash ==
  ASSUME NoWraparound, SessionInv, StaysUpInv, NEW c \in Clients, NEW pkt \in net,
         ClientCrash(c, pkt)
  PROVE  StaysUpInv'
  <1>1. /\ setup' = setup /\ clientUdp' = clientUdp /\ clientKeys' = clientKeys
        /\ connected' = connected /\ accepted' = accepted
        /\ UNCHANGED serverVars
        /\ net' \subseteq net
        /\ ClientOpens(c, pkt) /\ ClientCrashes(c, pkt.body)
    BY AfterIsLess DEF ClientCrash
  <1>2. ~(setup.useEncryption /\ ~setup.repeats)
    BY <1>1, ClientFindsAcks DEF StaysUpInv
  <1>3. serverUdp' = serverUdp /\ serverKeys' = serverKeys /\ serverDown' = serverDown
    BY <1>1 DEF serverVars
  <1>4. ServerHolds'
    BY <1>1, <1>3 DEF StaysUpInv, ServerHolds
  <1>5. setup'.useEncryption => SessionClientHolds'
    BY <1>1, <1>3 DEF StaysUpInv, SessionClientHolds
  <1> QED BY <1>1, <1>2, <1>3, <1>4, <1>5 DEF StaysUpInv, ServerStaysUp, ClientsStayUp

-----------------------------------------------------------------------------
(* What a client has heard, once it has heard one more of the server's.    *)
LEMMA ClientHearsHolds ==
  ASSUME NoWraparound, SessionInv, ServerHolds, setup.useEncryption => SessionClientHolds,
         NEW c \in Clients, NEW pkt \in net, pkt.to = c
  PROVE  /\ HeardUpTo(AfterMarkReceived(clientUdp[c], pkt.body), serverUdp.sequence)
         /\ setup.useEncryption => AllHeld(AfterMarkReceived(clientUdp[c], pkt.body))
         /\ pkt.from = Server
  <1>1. pkt.from = Server
    BY PacketFacts DEF FromServer
  <1>2. HeardUpTo(clientUdp[c], serverUdp.sequence) /\ NumberedUpTo(pkt.body, serverUdp.sequence)
    BY <1>1 DEF ServerHolds
  <1>3. HeardUpTo(AfterMarkReceived(clientUdp[c], pkt.body), serverUdp.sequence)
    BY <1>2, EndpointTypes, ReceivedHears
  <1> QED BY <1>1, <1>3, ClientLooksUp

LEMMA StaysUpClientReceiveAck ==
  ASSUME NoWraparound, SessionInv, StaysUpInv, NEW c \in Clients, NEW pkt \in net,
         ClientReceiveAck(c, pkt)
  PROVE  StaysUpInv'
  <1> DEFINE e == AfterMarkReceived(clientUdp[c], pkt.body)
  <1>1. /\ setup' = setup /\ clientKeys' = clientKeys /\ connected' = connected
        /\ accepted' = accepted /\ clientDown' = clientDown
        /\ clientUdp' = [clientUdp EXCEPT ![c] = e] /\ UNCHANGED serverVars
        /\ net' = After(pkt) /\ pkt.to = c /\ pkt.body.messageType = "Ack"
    BY DEF ClientReceiveAck, ClientOpens
  <1>2. /\ ServerHolds /\ (setup.useEncryption => SessionClientHolds)
        /\ ServerStaysUp /\ ClientsStayUp
        /\ setup.useEncryption /\ ~setup.repeats => ClientIsAhead
    BY DEF StaysUpInv
  <1>3. serverUdp' = serverUdp /\ serverKeys' = serverKeys /\ serverDown' = serverDown
    BY <1>1 DEF serverVars
  <1>4. /\ e \in Endpoints(AllTexts) /\ e.sequence = clientUdp[c].sequence
        /\ clientUdp[c].sequence \in Nat
    BY EndpointTypes, AfterMarkReceivedType
  <1>5. HeardUpTo(e, serverUdp.sequence) /\ (setup.useEncryption => AllHeld(e))
    BY <1>1, <1>2, ClientHearsHolds
  <1> HIDE DEF e
  <1>6. net' \subseteq net
    BY <1>1, AfterIsLess
  <1>7. ServerHolds' /\ (setup'.useEncryption => SessionClientHolds')
    <2>1. clientUdp[c].sequence <= e.sequence /\ \A p \in net' : p \in net
      BY <1>4, <1>6
    <2> QED BY <1>1, <1>2, <1>3, <1>4, <1>5, <2>1, HoldClientStep
  <1>8. ASSUME setup.useEncryption, ~setup.repeats PROVE ClientIsAhead'
    <2>1. ClientIsAhead
      BY <1>2, <1>8
    <2>2. DataUnderWay' = DataUnderWay
      <3>1. net' = net \ {pkt}
        BY <1>1, <1>8 DEF After
      <3> QED BY <1>1, <3>1 DEF DataUnderWay
    <2>3. \A x \in Clients : clientUdp'[x].sequence = clientUdp[x].sequence
      BY <1>1, <1>4 DEF SessionInv, TypeOK
    <2> QED BY <1>1, <1>3, <1>6, <2>1, <2>2, <2>3 DEF ClientIsAhead
  <1> QED BY <1>1, <1>2, <1>3, <1>7, <1>8 DEF StaysUpInv, ServerStaysUp, ClientsStayUp

LEMMA StaysUpClientReceiveKey ==
  ASSUME NoWraparound, NoOverwriting, SessionInv, StaysUpInv, NEW c \in Clients, NEW m \in net,
         ClientReceiveKey(c, m)
  PROVE  StaysUpInv'
  <1> DEFINE own == Datum(AckText, TRUE)
             dat == Datum(NoText, FALSE)
             keys == ClientDerives(c, FirstText(m.body)[2])
             old == clientUdp[c]
             heard == AfterMarkReceived(old, m.body)
             ghost == AfterMarkSent(heard, own)
             e == AfterMarkSent(ghost, dat)
             body == MessageOf(ghost, dat, "Ack")
             pkt == Packet(c, Server, keys, body)
             T == ClientTexts(c)
             n == serverUdp.sequence
  <1>1. /\ setup' = setup /\ connected' = connected /\ connected[c]
        /\ accepted' = accepted /\ clientDown' = clientDown /\ UNCHANGED serverVars
        /\ clientUdp' = [clientUdp EXCEPT ![c] = e]
        /\ clientKeys' = [clientKeys EXCEPT ![c] = keys]
        /\ net' = After(m) \cup {pkt}
        /\ m.to = c /\ Fits(c, 2) /\ m.body.messageType = "SendPubKey"
    BY DEF ClientReceiveKey, ClientOpens, Ghost
  <1>2. /\ ServerHolds /\ (setup.useEncryption => SessionClientHolds)
        /\ ServerStaysUp /\ ClientsStayUp
        /\ setup.useEncryption /\ ~setup.repeats => ClientIsAhead
    BY DEF StaysUpInv
  <1>3. serverUdp' = serverUdp /\ serverKeys' = serverKeys /\ serverDown' = serverDown
    BY <1>1 DEF serverVars
  <1>4. keys # NoKeys
    BY <1>1, ClientGetsKeys, KeyFacts
  <1>5. own \in Datums(T) /\ dat \in Datums(T)
    BY TextFacts, DatumType
  <1>6. heard \in Endpoints(T) /\ Genuine(heard) /\ heard.sequence = old.sequence
    <2>1. Sayable(c, clientKeys[c]) \subseteq T
      BY TextFacts DEF Sayable
    <2> QED BY <2>1, ClientHears, MoreTexts
  <1>7. HeardUpTo(heard, n) /\ (setup.useEncryption => AllHeld(heard)) /\ n \in Nat
    BY <1>1, <1>2, ClientHearsHolds, EndpointTypes
  <1>8. /\ old.sequence \in Nat
        /\ old.sequence + 2 < SeqModulus /\ old.sequence + 2 <= BufferSize
        /\ old.sequence + 1 < SeqModulus /\ old.sequence + 1 <= BufferSize
    <2>1. /\ old.sequence \in Nat
          /\ old.sequence + 2 < SeqModulus /\ old.sequence + 2 <= BufferSize
      BY <1>1, ClientRoom, ClientSlots, EndpointTypes
    <2> QED BY <2>1, SeqModulusAssumption, BufferSizeAssumption
  <1> HIDE DEF own, dat, keys, heard, n
  <1>9. /\ ghost \in Endpoints(T) /\ Genuine(ghost) /\ ghost.sequence = old.sequence + 1
        /\ HeardUpTo(ghost, n) /\ (setup.useEncryption => AllHeld(ghost))
    <2>1. ghost \in Endpoints(T) /\ Genuine(ghost)
      BY <1>5, <1>6, <1>8, AfterMarkSentType, SentIsGenuine
    <2>2. ghost.sequence = heard.sequence + 1 /\ HeardUpTo(ghost, n)
      BY <1>5, <1>6, <1>7, <1>8, SayingHolds
    <2>3. setup.useEncryption => AllHeld(ghost)
      BY <1>5, <1>6, <1>7, <1>8, SentIsHeld
    <2> QED BY <1>6, <2>1, <2>2, <2>3
  <1> HIDE DEF ghost, old
  <1>10. ghost.sequence + 1 = old.sequence + 2
    BY <1>8, <1>9
  <1>11. /\ e.sequence = old.sequence + 2 /\ HeardUpTo(e, n)
         /\ (setup.useEncryption => AllHeld(e))
         /\ NamesUpTo(body, n) /\ NumberedUpTo(body, old.sequence + 2)
    <2>1. /\ e.sequence = ghost.sequence + 1 /\ HeardUpTo(e, n)
          /\ NamesUpTo(body, n) /\ NumberedUpTo(body, ghost.sequence + 1)
      BY <1>5, <1>7, <1>8, <1>9, <1>10, SayingHolds
    <2>2. setup.useEncryption => AllHeld(e)
      BY <1>5, <1>8, <1>9, <1>10, SentIsHeld
    <2> QED BY <1>10, <2>1, <2>2
  <1>12. e \in Endpoints(AllTexts)
    <2>1. e \in Endpoints(T)
      BY <1>5, <1>9, AfterMarkSentType
    <2> HIDE DEF e
    <2> QED BY <2>1, TextFacts, MoreTexts
  <1>13. /\ pkt.from = c /\ pkt.seal = Seal(keys) /\ pkt.body = body
         /\ body.messageType = "Ack"
    <2>1. body.messageType = "Ack"
      BY <1>5, <1>9, MessageOfType
    <2> HIDE DEF body
    <2> QED BY <2>1 DEF Packet
  <1> HIDE DEF e, body, pkt, T
  <1>14. setup.useEncryption => pkt.seal # NoKeys
    BY <1>4, <1>13 DEF Seal
  <1>15. ServerHolds' /\ (setup'.useEncryption => SessionClientHolds')
    <2>1. clientUdp[c].sequence <= e.sequence
      BY <1>8, <1>11 DEF old
    <2>2. \A p \in net' : \/ p \in net
                          \/ /\ p.from = c
                             /\ NamesUpTo(p.body, serverUdp.sequence)
                             /\ NumberedUpTo(p.body, e.sequence)
                             /\ setup.useEncryption /\ p.seal = NoKeys
                                    => p.body.messageType = "SendPubKey"
      BY <1>1, <1>11, <1>13, <1>14, AfterIsLess DEF n
    <2>3. HeardUpTo(e, serverUdp.sequence) /\ (setup.useEncryption => AllHeld(e))
      BY <1>11 DEF n
    <2> QED BY <1>1, <1>2, <1>3, <1>12, <2>1, <2>2, <2>3, HoldClientStep
  <1>16. ASSUME setup.useEncryption, ~setup.repeats PROVE ClientIsAhead'
    <2>1. ClientIsAhead
      BY <1>2, <1>16
    <2>2. DataUnderWay' = DataUnderWay
      <3>1. net' = (net \ {m}) \cup {pkt} /\ \A p \in {pkt} : p.body.messageType # "General"
        BY <1>1, <1>13, <1>16 DEF After
      <3> QED BY <1>1, <2>1, <3>1, UnderWay DEF ClientIsAhead
    <2>3. \A x \in Clients : /\ clientUdp'[x] = IF x = c THEN e ELSE clientUdp[x]
                             /\ clientKeys'[x] = IF x = c THEN keys ELSE clientKeys[x]
                             /\ accepted[x] \in Nat
      BY <1>1 DEF SessionInv, TypeOK
    <2>4. e.sequence >= accepted[c] + 3 /\ e.sequence >= 1
      <3>1. old.sequence >= 1
        BY <1>1, <2>1 DEF ClientIsAhead, old
      <3>2. accepted[c] = 0 \/ old.sequence >= accepted[c] + 3
        BY <2>1 DEF ClientIsAhead, old
      <3> QED BY <1>8, <1>11, <2>3, <3>1, <3>2
    <2>5. \A p \in net' : p \in net \/ p.from # Server
      BY <1>1, <1>13, AfterIsLess, ServerIsNoClient
    <2>6. \A x \in Clients :
            /\ connected'[x] => clientUdp'[x].sequence >= 1
            /\ IF clientKeys'[x] = NoKeys THEN accepted'[x] = 0
               ELSE clientUdp'[x].sequence >= accepted'[x] + 3
      BY <1>1, <1>4, <2>1, <2>3, <2>4 DEF ClientIsAhead
    <2> QED BY <1>1, <1>3, <2>1, <2>2, <2>5, <2>6 DEF ClientIsAhead
  <1> QED BY <1>1, <1>2, <1>3, <1>15, <1>16 DEF StaysUpInv, ServerStaysUp, ClientsStayUp

-----------------------------------------------------------------------------
(* What the server makes of a message. *)
LEMMA ServerLooksUp ==
  ASSUME NoWraparound, SessionInv, ServerHolds, setup.useEncryption => SessionClientHolds,
         NEW m \in net, ServerOpens(m)
  PROVE  /\ m.from \in Clients
         /\ ~DereferencesNull(serverUdp, m.body)
         /\ AllHeld(AfterMarkReceived(serverUdp, m.body))
         /\ setup.useEncryption =>
               /\ HeardUpTo(AfterMarkReceived(serverUdp, m.body), clientUdp[m.from].sequence)
               /\ serverKeys = NoKeys => m.body.messageType = "SendPubKey"
               /\ serverKeys # NoKeys => serverKeys[1] = m.from
  <1>1. m.to = Server /\ m.seal = Seal(serverKeys)
    BY DEF ServerOpens
  <1>2. m.from \in Clients /\ m.seal \in {NoKeys} \cup KeysOf(m.from) /\ m.from # Server
    BY <1>1, PacketFacts, ServerIsNoClient DEF FromClient
  <1>3. /\ NamesUpTo(m.body, serverUdp.sequence) /\ AllHeld(serverUdp)
        /\ Genuine(serverUdp)
    BY <1>2, ServerFacts DEF ServerHolds
  <1>4. ~DereferencesNull(serverUdp, m.body) /\ AllHeld(AfterMarkReceived(serverUdp, m.body))
    BY <1>3, EndpointTypes, NamedIsHeld
  <1>5. ASSUME setup.useEncryption
        PROVE  /\ HeardUpTo(AfterMarkReceived(serverUdp, m.body), clientUdp[m.from].sequence)
               /\ serverKeys = NoKeys => m.body.messageType = "SendPubKey"
               /\ serverKeys # NoKeys => serverKeys[1] = m.from
    <2>1. /\ NumberedUpTo(m.body, clientUdp[m.from].sequence)
          /\ m.seal = NoKeys => m.body.messageType = "SendPubKey"
      BY <1>2, <1>5 DEF SessionClientHolds
    <2>2. m.seal = serverKeys
      BY <1>1, <1>5 DEF Seal
    <2>3. serverKeys # NoKeys => serverKeys[1] = m.from
      BY <1>2, <2>2, KeyFacts
    <2>4. clientUdp[m.from].sequence \in Nat
      BY <1>2, EndpointTypes
    <2>5. HeardUpTo(serverUdp, clientUdp[m.from].sequence)
      <3>1. CASE serverKeys = NoKeys
        <4>1. HeardUpTo(serverUdp, 0)
          BY <1>5, <3>1 DEF SessionClientHolds
        <4> QED BY <2>4, <4>1, EndpointTypes, UpToMore
      <3>2. CASE serverKeys # NoKeys
        BY <1>5, <2>3, <3>2 DEF SessionClientHolds
      <3> QED BY <3>1, <3>2
    <2>6. HeardUpTo(AfterMarkReceived(serverUdp, m.body), clientUdp[m.from].sequence)
      BY <2>1, <2>4, <2>5, EndpointTypes, ReceivedHears
    <2> QED BY <2>1, <2>2, <2>3, <2>6
  <1> QED BY <1>2, <1>4, <1>5

(* What it then sends names no number the client did not use. *)
LEMMA ServerSaying ==
  ASSUME NEW old \in Endpoints(ServerTexts), Genuine(old),
         old.sequence + 1 < SeqModulus, old.sequence + 1 <= BufferSize, AllHeld(old),
         NEW dat \in Datums(ServerTexts), NEW type \in {"SendPubKey", "General", "Ack"},
         NEW n \in Nat, setup.useEncryption => HeardUpTo(old, n)
  PROVE  /\ AfterMarkSent(old, dat) \in Endpoints(ServerTexts)
         /\ AfterMarkSent(old, dat) \in Endpoints(AllTexts)
         /\ Genuine(AfterMarkSent(old, dat)) /\ AllHeld(AfterMarkSent(old, dat))
         /\ AfterMarkSent(old, dat).sequence = old.sequence + 1
         /\ setup.useEncryption => /\ HeardUpTo(AfterMarkSent(old, dat), n)
                                   /\ NamesUpTo(MessageOf(old, dat, type), n)
         /\ NumberedUpTo(MessageOf(old, dat, type), old.sequence + 1)
         /\ MessageOf(old, dat, type).messageType = type
         /\ MessageOf(old, dat, type).Sequence = old.sequence + 1
  <1> DEFINE e == AfterMarkSent(old, dat)
  <1>1. e \in Endpoints(ServerTexts) /\ Genuine(e) /\ e.sequence = old.sequence + 1
    BY AfterMarkSentType, SentIsGenuine, NextIsSuccessor
  <1>2. AllHeld(e)
    BY SentIsHeld
  <1>3. setup.useEncryption => HeardUpTo(e, n) /\ NamesUpTo(MessageOf(old, dat, type), n)
    BY SentHears, MessageNames
  <1>4. /\ NumberedUpTo(MessageOf(old, dat, type), old.sequence + 1)
        /\ MessageOf(old, dat, type).messageType = type
        /\ MessageOf(old, dat, type).Sequence = old.sequence + 1
    BY MessageIsWellNumbered, MessageOfType, NextIsSuccessor
  <1> HIDE DEF e
  <1>5. e \in Endpoints(AllTexts)
    <2>1. ServerTexts \subseteq AllTexts
      BY DEF ServerTexts, AllTexts
    <2> QED BY <1>1, <2>1, MoreTexts
  <1> QED BY <1>1, <1>2, <1>3, <1>4, <1>5 DEF e

LEMMA StaysUpServerCrash ==
  ASSUME NoWraparound, SessionInv, StaysUpInv, NEW pkt \in net, ServerCrash(pkt)
  PROVE  StaysUpInv'
  BY ServerLooksUp DEF ServerCrash, StaysUpInv

LEMMA StaysUpServerReceiveAck ==
  ASSUME NoWraparound, SessionInv, StaysUpInv, NEW m \in net, ServerReceiveAck(m)
  PROVE  StaysUpInv'
  <1> DEFINE e == AfterMarkReceived(serverUdp, m.body)
             c == m.from
  <1>1. /\ setup' = setup /\ UNCHANGED clientVars /\ serverUdp' = e
        /\ serverKeys' = serverKeys /\ serverDown' = serverDown
        /\ net' = After(m) /\ ServerOpens(m) /\ m.body.messageType = "Ack"
    BY DEF ServerReceiveAck
  <1>2. /\ ServerHolds /\ (setup.useEncryption => SessionClientHolds)
        /\ ServerStaysUp /\ ClientsStayUp
        /\ setup.useEncryption /\ ~setup.repeats => ClientIsAhead
    BY DEF StaysUpInv
  <1>3. UNCHANGED <<clientUdp, connected, clientKeys, clientDown, accepted>>
    BY <1>1 DEF clientVars
  <1>4. /\ e \in Endpoints(AllTexts) /\ e.sequence = serverUdp.sequence
        /\ serverUdp.sequence \in Nat
    BY EndpointTypes, AfterMarkReceivedType
  <1>5. /\ c \in Clients /\ AllHeld(e)
        /\ setup.useEncryption => /\ HeardUpTo(e, clientUdp[c].sequence)
                                  /\ serverKeys # NoKeys /\ serverKeys[1] = c
    BY <1>1, <1>2, ServerLooksUp
  <1> HIDE DEF e, c
  <1>6. net' \subseteq net
    BY <1>1, AfterIsLess
  <1>7. ServerHolds' /\ (setup'.useEncryption => SessionClientHolds')
    <2>1. serverUdp.sequence <= e.sequence /\ \A p \in net' : p \in net
      BY <1>4, <1>6
    <2>2. setup.useEncryption => /\ serverKeys' # NoKeys /\ serverKeys'[1] = c
                                 /\ serverKeys # NoKeys => serverKeys' = serverKeys
                                 /\ HeardUpTo(e, clientUdp[c].sequence)
      BY <1>1, <1>5
    <2> QED BY <1>1, <1>2, <1>3, <1>4, <1>5, <2>1, <2>2, HoldServerStep
  <1>8. ASSUME setup.useEncryption, ~setup.repeats PROVE ClientIsAhead'
    <2>1. ClientIsAhead
      BY <1>2, <1>8
    <2>2. DataUnderWay' = DataUnderWay
      <3>1. net' = net \ {m}
        BY <1>1, <1>8 DEF After
      <3> QED BY <1>1, <3>1 DEF DataUnderWay
    <2>3. serverUdp'.sequence = serverUdp.sequence
      BY <1>1, <1>4
    <2> QED BY <1>1, <1>3, <1>6, <2>1, <2>2, <2>3 DEF ClientIsAhead
  <1> QED BY <1>1, <1>2, <1>3, <1>7, <1>8 DEF StaysUpInv, ServerStaysUp, ClientsStayUp

LEMMA StaysUpServerReceiveData ==
  ASSUME NoWraparound, NoOverwriting, SessionInv, StaysUpInv, NEW m \in net,
         ServerReceiveData(m)
  PROVE  StaysUpInv'
  <1> DEFINE dat == Datum(AckText, FALSE)
             heard == AfterMarkReceived(serverUdp, m.body)
             e == AfterMarkSent(heard, dat)
             body == MessageOf(heard, dat, "Ack")
             pkt == Packet(Server, m.from, serverKeys, body)
             c == m.from
             n == clientUdp[c].sequence
  <1>1. /\ setup' = setup /\ UNCHANGED clientVars /\ serverUdp' = e
        /\ serverKeys' = serverKeys /\ serverDown' = serverDown
        /\ net' = After(m) \cup {pkt} /\ ServerOpens(m) /\ m.body.messageType = "General"
        /\ serverUdp.sequence + 1 <= setup.maxServerSeq
    BY DEF ServerReceiveData, ServerAck
  <1>2. /\ ServerHolds /\ (setup.useEncryption => SessionClientHolds)
        /\ ServerStaysUp /\ ClientsStayUp
        /\ setup.useEncryption /\ ~setup.repeats => ClientIsAhead
    BY DEF StaysUpInv
  <1>3. UNCHANGED <<clientUdp, connected, clientKeys, clientDown, accepted>>
    BY <1>1 DEF clientVars
  <1>4. /\ heard \in Endpoints(ServerTexts) /\ Genuine(heard)
        /\ heard.sequence = serverUdp.sequence /\ serverUdp.sequence \in Nat
    BY EndpointTypes, ServerHears
  <1>5. /\ c \in Clients /\ AllHeld(heard)
        /\ setup.useEncryption => /\ HeardUpTo(heard, n)
                                  /\ serverKeys # NoKeys /\ serverKeys[1] = c
    BY <1>1, <1>2, ServerLooksUp
  <1>6. dat \in Datums(ServerTexts)
    BY DatumType DEF ServerTexts
  <1>7. heard.sequence + 1 < SeqModulus /\ heard.sequence + 1 <= BufferSize
    BY <1>1, <1>4, ServerRoom, ServerSlots
  <1>8. n \in Nat
    BY <1>5, EndpointTypes
  <1> HIDE DEF dat, heard, n, c
  <1>9. /\ e \in Endpoints(AllTexts) /\ AllHeld(e) /\ e.sequence = heard.sequence + 1
        /\ setup.useEncryption => HeardUpTo(e, n) /\ NamesUpTo(body, n)
        /\ NumberedUpTo(body, heard.sequence + 1) /\ body.messageType = "Ack"
    BY <1>4, <1>5, <1>6, <1>7, <1>8, ServerSaying
  <1> HIDE DEF e, body
  <1>10. /\ pkt.from = Server /\ pkt.to = c /\ pkt.seal = Seal(serverKeys) /\ pkt.body = body
    BY DEF Packet, c
  <1> HIDE DEF pkt
  <1>11. ServerHolds' /\ (setup'.useEncryption => SessionClientHolds')
    <2>1. serverUdp.sequence <= e.sequence
      BY <1>4, <1>9
    <2>2. setup.useEncryption => /\ serverKeys' # NoKeys /\ serverKeys'[1] = c
                                 /\ serverKeys # NoKeys => serverKeys' = serverKeys
                                 /\ HeardUpTo(e, clientUdp[c].sequence)
      BY <1>1, <1>5, <1>9 DEF n
    <2>3. \A p \in net' : \/ p \in net
                          \/ /\ p.from = Server /\ p.to = c
                             /\ NumberedUpTo(p.body, e.sequence)
                             /\ setup.useEncryption => NamesUpTo(p.body, clientUdp[c].sequence)
      BY <1>1, <1>9, <1>10, AfterIsLess DEF n
    <2> QED BY <1>1, <1>2, <1>3, <1>5, <1>9, <2>1, <2>2, <2>3, HoldServerStep
  <1>12. ASSUME setup.useEncryption, ~setup.repeats PROVE ClientIsAhead'
    <2>1. ClientIsAhead
      BY <1>2, <1>12
    <2>2. serverKeys # NoKeys /\ serverKeys[1] = c /\ pkt.seal # NoKeys
      BY <1>5, <1>10, <1>12 DEF Seal
    <2>3. /\ Cardinality(DataUnderWay) \in Nat /\ IsFiniteSet(DataUnderWay')
          /\ Cardinality(DataUnderWay') <= Cardinality(DataUnderWay) - 1
      <3>1. net' = (net \ {m}) \cup {pkt} /\ \A p \in {pkt} : p.body.messageType # "General"
        BY <1>1, <1>9, <1>10, <1>12 DEF After
      <3> QED BY <1>1, <2>1, <3>1, UnderWay DEF ClientIsAhead
    <2>4. Cardinality(DataUnderWay') \in Nat
      BY <2>3, FS_CardinalityType
    <2>5. serverUdp.sequence + Cardinality(DataUnderWay) <= accepted[c] + 2 /\ accepted[c] \in Nat
      BY <1>5, <2>1, <2>2 DEF ClientIsAhead, SessionInv, TypeOK
    <2>6. serverUdp'.sequence + Cardinality(DataUnderWay') <= accepted[c] + 2
      BY <1>1, <1>4, <1>9, <2>3, <2>4, <2>5
    <2>7. \A p \in net' : p \in net \/ p.seal # NoKeys
      BY <1>1, <2>2, AfterIsLess
    <2> QED BY <1>1, <1>3, <2>1, <2>2, <2>3, <2>6, <2>7 DEF ClientIsAhead
  <1> QED BY <1>1, <1>2, <1>3, <1>11, <1>12 DEF StaysUpInv, ServerStaysUp, ClientsStayUp

-----------------------------------------------------------------------------
LEMMA StaysUpServerReceiveKey ==
  ASSUME NoWraparound, NoOverwriting, SessionInv, StaysUpInv, NEW m \in net,
         ServerReceiveKey(m)
  PROVE  StaysUpInv'
  <1> DEFINE dat == Datum(AckText, FALSE)
             key == Datum(KeyText(NewKeyPair), FALSE)
             heard == AfterMarkReceived(serverUdp, m.body)
             acked == AfterMarkSent(heard, dat)
             e == AfterMarkSent(acked, key)
             ackBody == MessageOf(heard, dat, "Ack")
             keyBody == MessageOf(acked, key, "SendPubKey")
             ack == Packet(Server, m.from, serverKeys, ackBody)
             reply == Packet(Server, m.from, serverKeys, keyBody)
             keys == ServerDerives(FirstText(m.body)[2], NewKeyPair)
             c == m.from
             n == clientUdp[c].sequence
  <1>1. /\ setup' = setup /\ UNCHANGED clientVars /\ serverUdp' = e
        /\ serverKeys' = keys /\ serverDown' = serverDown
        /\ net' = After(m) \cup {ack, reply}
        /\ ServerOpens(m) /\ m.body.messageType = "SendPubKey"
        /\ serverUdp.sequence + 2 <= setup.maxServerSeq
        /\ m.to = Server /\ m.seal = Seal(serverKeys)
    BY DEF ServerReceiveKey, ServerAck, ServerOpens
  <1>2. /\ ServerHolds /\ (setup.useEncryption => SessionClientHolds)
        /\ ServerStaysUp /\ ClientsStayUp
        /\ setup.useEncryption /\ ~setup.repeats => ClientIsAhead
    BY DEF StaysUpInv
  <1>3. UNCHANGED <<clientUdp, connected, clientKeys, clientDown, accepted>>
    BY <1>1 DEF clientVars
  <1>4. /\ heard \in Endpoints(ServerTexts) /\ Genuine(heard)
        /\ heard.sequence = serverUdp.sequence /\ serverUdp.sequence \in Nat
    BY EndpointTypes, ServerHears
  <1>5. /\ c \in Clients /\ AllHeld(heard)
        /\ setup.useEncryption => HeardUpTo(heard, n)
    BY <1>1, <1>2, ServerLooksUp
  <1>6. dat \in Datums(ServerTexts) /\ key \in Datums(ServerTexts)
    <2>1. NewKeyPair \in Nat
      BY DEF NewKeyPair, SessionInv, TypeOK
    <2>2. AckText \in ServerTexts /\ KeyText(NewKeyPair) \in ServerTexts
      BY <2>1 DEF ServerTexts, KeyText
    <2> QED BY <2>2, DatumType
  <1>7. /\ heard.sequence + 1 < SeqModulus /\ heard.sequence + 1 <= BufferSize
        /\ heard.sequence + 2 < SeqModulus /\ heard.sequence + 2 <= BufferSize
    <2>1. heard.sequence + 2 < SeqModulus /\ heard.sequence + 2 <= BufferSize
      BY <1>1, <1>4, ServerRoom, ServerSlots
    <2> QED BY <1>4, <2>1, SeqModulusAssumption, BufferSizeAssumption
  <1>8. n \in Nat
    BY <1>5, EndpointTypes
  <1>9. keys # NoKeys /\ keys[1] = c
    <2>1. FirstText(m.body) = KeyText(c)
      BY <1>1, PacketFacts DEF FromClient
    <2>2. FirstText(m.body)[2] = c
      BY <2>1 DEF KeyText
    <2> QED BY <2>2 DEF NoKeys, ServerDerives
  <1> HIDE DEF dat, key, keys, heard, n, c
  <1>10. /\ acked \in Endpoints(ServerTexts) /\ Genuine(acked) /\ AllHeld(acked)
         /\ acked.sequence = heard.sequence + 1
         /\ setup.useEncryption => HeardUpTo(acked, n) /\ NamesUpTo(ackBody, n)
         /\ NumberedUpTo(ackBody, heard.sequence + 1) /\ ackBody.messageType = "Ack"
         /\ ackBody.Sequence = heard.sequence + 1
    BY <1>4, <1>5, <1>6, <1>7, <1>8, ServerSaying
  <1> HIDE DEF acked, ackBody
  <1>11. acked.sequence + 1 = heard.sequence + 2
    BY <1>4, <1>10
  <1>12. /\ e \in Endpoints(AllTexts) /\ AllHeld(e) /\ e.sequence = acked.sequence + 1
         /\ setup.useEncryption => HeardUpTo(e, n) /\ NamesUpTo(keyBody, n)
         /\ NumberedUpTo(keyBody, acked.sequence + 1) /\ keyBody.messageType = "SendPubKey"
    BY <1>6, <1>7, <1>8, <1>10, <1>11, ServerSaying
  <1> HIDE DEF e, keyBody
  <1>13. NumberedUpTo(ackBody, e.sequence) /\ NumberedUpTo(keyBody, e.sequence)
    <2>1. NumberedUpTo(keyBody, e.sequence)
      BY <1>12
    <2>2. heard.sequence + 1 \in Nat /\ e.sequence \in Nat /\ heard.sequence + 1 <= e.sequence
      BY <1>4, <1>11, <1>12
    <2>3. 1 .. heard.sequence + 1 \subseteq 1 .. e.sequence
      BY <2>2
    <2>4. NumberedUpTo(ackBody, e.sequence)
      BY <1>10, <2>3 DEF NumberedUpTo
    <2> QED BY <2>1, <2>4
  <1>14. /\ ack.from = Server /\ ack.to = c /\ ack.body = ackBody
         /\ reply.from = Server /\ reply.to = c /\ reply.body = keyBody
    BY DEF Packet, c
  <1> HIDE DEF ack, reply
  <1>15. setup.useEncryption => serverKeys = NoKeys
    BY <1>1 DEF SessionInv, KeysInTheClear, ServerDerives, Seal
  <1>16. ServerHolds' /\ (setup'.useEncryption => SessionClientHolds')
    <2>1. serverUdp.sequence <= e.sequence
      BY <1>4, <1>11, <1>12
    <2>2. setup.useEncryption => /\ serverKeys' # NoKeys /\ serverKeys'[1] = c
                                 /\ serverKeys # NoKeys => serverKeys' = serverKeys
                                 /\ HeardUpTo(e, clientUdp[c].sequence)
      BY <1>1, <1>9, <1>12, <1>15 DEF n
    <2>3. \A p \in net' : \/ p \in net
                          \/ /\ p.from = Server /\ p.to = c
                             /\ NumberedUpTo(p.body, e.sequence)
                             /\ setup.useEncryption => NamesUpTo(p.body, clientUdp[c].sequence)
      BY <1>1, <1>10, <1>12, <1>13, <1>14, AfterIsLess DEF n
    <2> QED BY <1>1, <1>2, <1>3, <1>5, <1>12, <2>1, <2>2, <2>3, HoldServerStep
  <1>17. ASSUME setup.useEncryption, ~setup.repeats PROVE ClientIsAhead'
    <2>1. ClientIsAhead
      BY <1>2, <1>17
    <2>2. serverUdp.sequence = 0 /\ DataUnderWay = {}
      BY <1>15, <1>17, <2>1 DEF ClientIsAhead
    <2>3. DataUnderWay' = {}
      <3>1. \A p \in net' : p \in net \/ p = ack \/ p = reply
        BY <1>1, AfterIsLess
      <3> QED BY <1>10, <1>12, <1>14, <2>2, <3>1 DEF DataUnderWay
    <2>4. IsFiniteSet(DataUnderWay') /\ Cardinality(DataUnderWay') = 0
      BY <2>3, FS_EmptySet
    <2>5. serverUdp'.sequence = 2 /\ ackBody.Sequence = 1
      BY <1>1, <1>4, <1>10, <1>11, <1>12, <2>2
    <2>6. accepted[c] \in Nat
      BY <1>5 DEF SessionInv, TypeOK
    <2>7. serverUdp'.sequence + Cardinality(DataUnderWay') <= accepted'[serverKeys'[1]] + 2
      BY <1>1, <1>3, <1>9, <2>4, <2>5, <2>6
    <2>8. \A p \in net' : \/ p \in net
                          \/ p.body.messageType = "Ack" => p.body.Sequence = 1
      BY <1>1, <1>12, <1>14, <2>5, AfterIsLess
    <2> QED BY <1>1, <1>3, <1>9, <2>1, <2>4, <2>7, <2>8 DEF ClientIsAhead
  <1> QED BY <1>1, <1>2, <1>3, <1>16, <1>17 DEF StaysUpInv, ServerStaysUp, ClientsStayUp

-----------------------------------------------------------------------------
LEMMA FreshHears ==
  ASSUME NEW s \in FreshBuffers, NEW r \in FreshBuffers
  PROVE  /\ FreshEndpoint(s, r).sequence = 0 /\ AllHeld(FreshEndpoint(s, r))
         /\ HeardUpTo(FreshEndpoint(s, r), 0)
  <1>1. /\ FreshEndpoint(s, r).sequence = 0 /\ FreshEndpoint(s, r).lastAcked = 0
        /\ FreshEndpoint(s, r).ReceiveBuffer = r
    BY DEF FreshEndpoint
  <1>2. \A i \in Slots : r[i].datum.IsAcked = FALSE
    BY DEF FreshBuffers, DefaultDatum
  <1> QED BY <1>1, <1>2 DEF AllHeld, HeardUpTo

LEMMA StaysUpInit == Init => StaysUpInv
  <1> SUFFICES ASSUME Init PROVE StaysUpInv
    OBVIOUS
  <1>1. \A c \in Clients : /\ clientUdp[c].sequence = 0 /\ AllHeld(clientUdp[c])
                           /\ HeardUpTo(clientUdp[c], 0)
    <2>1. \A c \in Clients : \E s, r \in FreshBuffers : clientUdp[c] = FreshEndpoint(s, r)
      BY InitialMemory
    <2> QED BY <2>1, FreshHears
  <1>2. serverUdp.sequence = 0 /\ AllHeld(serverUdp) /\ HeardUpTo(serverUdp, 0)
    <2>1. \E s, r \in FreshBuffers : serverUdp = FreshEndpoint(s, r)
      BY InitialMemory
    <2> QED BY <2>1, FreshHears
  <1>3. /\ connected = [c \in Clients |-> FALSE] /\ clientKeys = [c \in Clients |-> NoKeys]
        /\ clientDown = [c \in Clients |-> FALSE]
        /\ serverKeys = NoKeys /\ serverDown = FALSE /\ net = {}
        /\ accepted = [c \in Clients |-> 0]
    BY DEF Init
  <1>4. ServerHolds
    BY <1>1, <1>2, <1>3 DEF ServerHolds
  <1>5. SessionClientHolds
    BY <1>1, <1>2, <1>3 DEF SessionClientHolds
  <1>6. ClientIsAhead
    <2>1. DataUnderWay = {}
      BY <1>3 DEF DataUnderWay
    <2> QED BY <1>1, <1>2, <1>3, <2>1, FS_EmptySet DEF ClientIsAhead
  <1> QED BY <1>3, <1>4, <1>5, <1>6 DEF StaysUpInv, ServerStaysUp, ClientsStayUp

LEMMA StaysUpStutter == StaysUpInv /\ UNCHANGED vars => StaysUpInv'
  BY DEF vars, clientVars, serverVars, StaysUpInv, ServerHolds, SessionClientHolds,
         ClientIsAhead, DataUnderWay, ServerStaysUp, ClientsStayUp

LEMMA StaysUpNext ==
  ASSUME NoWraparound, NoOverwriting
  PROVE  SessionInv /\ StaysUpInv /\ [Next]_vars => StaysUpInv'
  <1> SUFFICES ASSUME SessionInv, StaysUpInv, [Next]_vars PROVE StaysUpInv'
    OBVIOUS
  <1>1. setup.clients \subseteq Clients
    BY SetupBounds DEF SessionInv, TypeOK
  <1>2. ASSUME NEW c \in setup.clients, Connect(c) \/ SendKeyInstead(c) \/ SendData(c)
        PROVE  StaysUpInv'
    BY <1>1, <1>2, StaysUpSendKey, StaysUpSendData
  <1>3. ASSUME NEW c \in setup.clients, NEW pkt \in net,
               ClientCrash(c, pkt) \/ ClientReceiveAck(c, pkt) \/ ClientReceiveKey(c, pkt)
        PROVE  StaysUpInv'
    BY <1>1, <1>3, StaysUpClientCrash, StaysUpClientReceiveAck, StaysUpClientReceiveKey
  <1>4. ASSUME NEW pkt \in net, \/ ServerCrash(pkt) \/ ServerReceiveAck(pkt)
                                \/ ServerReceiveData(pkt) \/ ServerReceiveKey(pkt)
        PROVE  StaysUpInv'
    BY <1>4, StaysUpServerCrash, StaysUpServerReceiveAck, StaysUpServerReceiveData,
       StaysUpServerReceiveKey
  <1>5. CASE UNCHANGED vars
    BY <1>5, StaysUpStutter
  <1> QED BY <1>2, <1>3, <1>4, <1>5 DEF Next

(* As long as no side uses a number and no ring a slot twice, nobody       *)
(* follows a null pointer: not the server, whatever the clients and the    *)
(* network do, and with encryption, on a network that repeats nothing, no  *)
(* client (ReliableUdp.cpp:54, 71, PacketDatumUtils.h:37-39).              *)
THEOREM EndpointsStayUp ==
  ASSUME NoWraparound, NoOverwriting
  PROVE  Spec => []EndpointsOK
  <1>1. Init => SessionInv /\ StaysUpInv
    BY SessionInit, StaysUpInit
  <1>2. SessionInv /\ StaysUpInv /\ [Next]_vars => (SessionInv /\ StaysUpInv)'
    BY SessionNext, StaysUpNext
  <1>3. SessionInv /\ StaysUpInv => EndpointsOK
    BY DEF SessionInv, StaysUpInv, EndpointsOK
  <1> QED BY <1>1, <1>2, <1>3, PTL DEF Spec

-----------------------------------------------------------------------------
(* The session as Handshake sees it.                                       *)

Wire == {OnWire(pkt) : pkt \in net}
Established == [c \in Clients |-> clientKeys[c] # NoKeys]

(* How a packet, and its seal, look. *)
LEMMA OwnerOfSeal ==
  /\ Owner(Seal(NoKeys)) = NoOne /\ Owner(NoKeys) = NoOne
  /\ \A c \in Clients : \A k \in KeysOf(c) :
        /\ Owner(k) = c
        /\ Owner(Seal(k)) = IF setup.useEncryption THEN c ELSE NoOne
  /\ \A k \in Keys : Owner(Seal(k)) = IF setup.useEncryption THEN Owner(k) ELSE NoOne
  BY KeyFacts DEF Owner, Seal, Keys

LEMMA FromClientOnWire ==
  ASSUME NEW pkt, pkt.from \in Clients, pkt.to = Server
  PROVE  OnWire(pkt) = [client |-> pkt.from, to |-> "server", type |-> pkt.body.messageType,
                        seal |-> Owner(pkt.seal)]
  BY ServerIsNoClient DEF OnWire

LEMMA FromServerOnWire ==
  ASSUME NEW pkt, pkt.from = Server, pkt.to \in Clients
  PROVE  OnWire(pkt) = [client |-> pkt.to, to |-> "client", type |-> pkt.body.messageType,
                        seal |-> Owner(pkt.seal)]
  BY ServerIsNoClient DEF OnWire

(* A message that is heard leaves the wire, or a copy stays: another one   *)
(* may look the same.                                                      *)
LEMMA AfterOnWire ==
  ASSUME NEW pkt \in net
  PROVE  {OnWire(p) : p \in After(pkt)} \in {Wire, Wire \ {OnWire(pkt)}}
  <1>1. CASE After(pkt) = net
    BY <1>1 DEF Wire
  <1>2. CASE After(pkt) = net \ {pkt}
    <2>1. CASE \E p \in net \ {pkt} : OnWire(p) = OnWire(pkt)
      BY <1>2, <2>1 DEF Wire
    <2>2. CASE \A p \in net \ {pkt} : OnWire(p) # OnWire(pkt)
      BY <1>2, <2>2 DEF Wire
    <2> QED BY <2>1, <2>2
  <1> QED BY <1>1, <1>2 DEF After

LEMMA HeardOnWire ==
  ASSUME NEW pkt \in net, NEW new, net' = After(pkt) \cup new
  PROVE  LET replies == {OnWire(p) : p \in new} IN
         Wire' \in {Wire \cup replies, (Wire \ {OnWire(pkt)}) \cup replies}
  <1>1. Wire' = {OnWire(p) : p \in After(pkt)} \cup {OnWire(p) : p \in new}
    BY DEF Wire
  <1> QED BY <1>1, AfterOnWire

LEMMA OnlyHeardOnWire ==
  ASSUME NEW pkt \in net, net' = After(pkt)
  PROVE  HS!Heard(OnWire(pkt), {})
  <1>1. Wire' = {OnWire(p) : p \in After(pkt)}
    BY DEF Wire
  <1>2. Wire' \in {Wire, Wire \ {OnWire(pkt)}}
    BY <1>1, AfterOnWire
  <1> QED BY <1>2 DEF HS!Heard, Wire

LEMMA HandshakeInit == Init => HS!HandshakeInit
  <1> SUFFICES ASSUME Init PROVE HS!HandshakeInit
    OBVIOUS
  <1>1. /\ setup \in Setups /\ clientKeys = [c \in Clients |-> NoKeys]
        /\ clientDown = [c \in Clients |-> FALSE] /\ serverKeys = NoKeys /\ net = {}
    BY DEF Init
  <1>2. setup.useEncryption \in BOOLEAN
    BY <1>1, SetupBounds
  <1>3. Owner(serverKeys) = NoOne
    BY <1>1 DEF Owner
  <1> QED BY <1>1, <1>2, <1>3 DEF HS!HandshakeInit

LEMMA HandshakeClientSend ==
  ASSUME SessionInv, NEW c \in Clients,
         Connect(c) \/ SendKeyInstead(c) \/ SendData(c)
  PROVE  HS!ClientSend(c)
  <1> DEFINE type == IF clientKeys[c] = NoKeys THEN "SendPubKey" ELSE "General"
  <1>1. ~clientDown[c]
    BY DEF Connect, SendKeyInstead, SendData, SessionInv, OwnKeys
  <1>2. /\ setup' = setup /\ clientKeys' = clientKeys /\ clientDown' = clientDown
        /\ serverKeys' = serverKeys
    BY DEF Connect, SendKeyInstead, SendData, serverVars
  <1>3. \E text : SendInternal(c, text, type)
    BY DEF Connect, SendKeyInstead, SendData, SessionInv, OwnKeys
  <1>4. PICK text : SendInternal(c, text, type)
    BY <1>3
  <1>5. PICK m : net' = net \cup {Packet(c, Server, clientKeys[c], m)} /\ m.messageType = type
    <2> DEFINE body == MessageOf(clientUdp[c], Datum(text, FALSE), type)
    <2>1. body.messageType = type
      BY DEF MessageOf
    <2>2. net' = net \cup {Packet(c, Server, clientKeys[c], body)}
      BY <1>4 DEF SendInternal
    <2> HIDE DEF body
    <2> QED BY <2>1, <2>2
  <1> DEFINE pkt == Packet(c, Server, clientKeys[c], m)
  <1>6. pkt.from = c /\ pkt.to = Server /\ pkt.seal = Seal(clientKeys[c]) /\ pkt.body = m
    BY DEF Packet
  <1>7. Owner(pkt.seal) = IF setup.useEncryption /\ clientKeys[c] # NoKeys THEN c ELSE NoOne
    BY <1>6, OwnerOfSeal DEF SessionInv, OwnKeys
  <1>8. OnWire(pkt) = [client |-> c, to |-> "server", type |-> type, seal |-> Owner(pkt.seal)]
    BY <1>5, <1>6, FromClientOnWire
  <1> HIDE DEF pkt
  <1>9. {OnWire(p) : p \in net'} = {OnWire(p) : p \in net} \cup {OnWire(pkt)}
    BY <1>5 DEF pkt
  <1> QED BY <1>1, <1>2, <1>7, <1>8, <1>9
       DEF HS!ClientSend, HS!ToServer, HS!ClientSeal, HS!Seal

-----------------------------------------------------------------------------
(* A message that a client, or the server, opens. *)
LEMMA OpensOnWire ==
  ASSUME SessionInv, NEW pkt \in net, NEW type, pkt.body.messageType = type
  PROVE  /\ OnWire(pkt) \in Wire /\ OnWire(pkt).type = type
         /\ \A c \in Clients : ClientOpens(c, pkt) => HS!ClientOpens(c, OnWire(pkt))
         /\ ServerOpens(pkt) => HS!ServerOpens(pkt.from, OnWire(pkt))
  <1>1. OnWire(pkt) \in Wire /\ OnWire(pkt).type = type
    BY DEF Wire, OnWire
  <1>2. ASSUME NEW c \in Clients, ClientOpens(c, pkt) PROVE HS!ClientOpens(c, OnWire(pkt))
    <2>1. pkt.to = c /\ pkt.from = Server /\ ~clientDown[c] /\ pkt.seal = Seal(clientKeys[c])
      BY <1>2, PacketFacts DEF ClientOpens, FromServer
    <2>2. Owner(pkt.seal) = IF setup.useEncryption /\ clientKeys[c] # NoKeys THEN c ELSE NoOne
      BY <2>1, OwnerOfSeal DEF SessionInv, OwnKeys
    <2>3. OnWire(pkt) = [client |-> c, to |-> "client", type |-> type, seal |-> Owner(pkt.seal)]
      BY <2>1, FromServerOnWire
    <2>4. HS!ClientSeal(c) = Owner(pkt.seal)
      BY <2>2 DEF HS!ClientSeal, HS!Seal
    <2>5. OnWire(pkt).client = c /\ OnWire(pkt).to = "client" /\ OnWire(pkt).seal = HS!ClientSeal(c)
      BY <2>3, <2>4
    <2> QED BY <1>1, <2>1, <2>5 DEF HS!ClientOpens, Wire
  <1>3. ASSUME ServerOpens(pkt) PROVE HS!ServerOpens(pkt.from, OnWire(pkt))
    <2>1. pkt.to = Server /\ pkt.from \in Clients /\ pkt.seal = Seal(serverKeys)
      BY <1>3, PacketFacts DEF ServerOpens, FromClient
    <2>2. Owner(pkt.seal) = IF setup.useEncryption THEN Owner(serverKeys) ELSE NoOne
      BY <2>1, OwnerOfSeal DEF SessionInv, TypeOK
    <2>3. OnWire(pkt) = [client |-> pkt.from, to |-> "server", type |-> type,
                         seal |-> Owner(pkt.seal)]
      BY <2>1, FromClientOnWire
    <2> QED BY <1>1, <2>1, <2>2, <2>3 DEF HS!ServerOpens, HS!Seal, Wire
  <1> QED BY <1>1, <1>2, <1>3

LEMMA HandshakeClientHears ==
  ASSUME SessionInv, NEW c \in Clients, NEW pkt \in net
  PROVE  /\ ClientCrash(c, pkt) => HS!ClientCrash(c, OnWire(pkt))
         /\ ClientReceiveAck(c, pkt) => HS!ClientHearAck(c, OnWire(pkt))
  <1>1. ASSUME ClientCrash(c, pkt) PROVE HS!ClientCrash(c, OnWire(pkt))
    <2>1. /\ ClientOpens(c, pkt) /\ clientDown' = [clientDown EXCEPT ![c] = TRUE]
          /\ net' = After(pkt) /\ setup' = setup /\ clientKeys' = clientKeys
          /\ serverKeys' = serverKeys
      BY <1>1 DEF ClientCrash, serverVars
    <2> QED BY <2>1, OnlyHeardOnWire, OpensOnWire DEF HS!ClientCrash
  <1>2. ASSUME ClientReceiveAck(c, pkt) PROVE HS!ClientHearAck(c, OnWire(pkt))
    <2>1. /\ ClientOpens(c, pkt) /\ clientDown' = clientDown
          /\ net' = After(pkt) /\ setup' = setup /\ clientKeys' = clientKeys
          /\ serverKeys' = serverKeys /\ pkt.body.messageType = "Ack"
      BY <1>2 DEF ClientReceiveAck, serverVars
    <2> QED BY <2>1, OnlyHeardOnWire, OpensOnWire DEF HS!ClientHearAck
  <1> QED BY <1>1, <1>2

LEMMA HandshakeClientHearsKey ==
  ASSUME SessionInv, NEW c \in Clients, NEW m \in net, ClientReceiveKey(c, m)
  PROVE  HS!ClientHearKey(c, OnWire(m))
  <1> DEFINE keys == ClientDerives(c, FirstText(m.body)[2])
             body == MessageOf(Ghost(AfterMarkReceived(clientUdp[c], m.body)),
                               Datum(NoText, FALSE), "Ack")
             pkt == Packet(c, Server, keys, body)
  <1>1. /\ ClientOpens(c, m) /\ m.to = c /\ clientDown' = clientDown /\ setup' = setup
        /\ clientKeys' = [clientKeys EXCEPT ![c] = keys]
        /\ serverKeys' = serverKeys /\ m.body.messageType = "SendPubKey"
        /\ net' = After(m) \cup {pkt}
    BY DEF ClientReceiveKey, ClientOpens, serverVars
  <1>2. keys \in KeysOf(c) /\ keys # NoKeys
    BY <1>1, ClientGetsKeys, KeyFacts
  <1>3. body.messageType = "Ack"
    BY DEF MessageOf
  <1> HIDE DEF keys, body
  <1>4. pkt.from = c /\ pkt.to = Server /\ pkt.seal = Seal(keys) /\ pkt.body = body
    BY DEF Packet
  <1> HIDE DEF pkt
  <1>5. OnWire(pkt) = [client |-> c, to |-> "server", type |-> "Ack",
                       seal |-> IF setup.useEncryption THEN c ELSE NoOne]
    BY <1>2, <1>3, <1>4, FromClientOnWire, OwnerOfSeal
  <1>6. HS!Heard(OnWire(m), {OnWire(pkt)})
    <2>1. {OnWire(p) : p \in {pkt}} = {OnWire(pkt)}
      OBVIOUS
    <2>2. Wire' \in {Wire \cup {OnWire(pkt)}, (Wire \ {OnWire(m)}) \cup {OnWire(pkt)}}
      BY <1>1, <2>1, HeardOnWire
    <2> QED BY <2>2 DEF HS!Heard, Wire
  <1>7. [x \in Clients |-> clientKeys[x] # NoKeys]'
          = [[x \in Clients |-> clientKeys[x] # NoKeys] EXCEPT ![c] = TRUE]
    BY <1>1, <1>2 DEF SessionInv, TypeOK
  <1> QED BY <1>1, <1>5, <1>6, <1>7, OpensOnWire
       DEF HS!ClientHearKey, HS!ToServer, HS!Seal

LEMMA HandshakeServerHears ==
  ASSUME SessionInv, NEW m \in net
  PROVE  /\ ServerReceiveAck(m) => m.from \in Clients /\ HS!ServerHearAck(m.from, OnWire(m))
         /\ ServerReceiveData(m) => m.from \in Clients /\ HS!ServerHearData(m.from, OnWire(m))
         /\ ServerReceiveKey(m) => m.from \in Clients /\ HS!ServerHearKey(m.from, OnWire(m))
  <1> DEFINE c == m.from
             seal == IF setup.useEncryption THEN Owner(serverKeys) ELSE NoOne
  <1>1. ASSUME ServerOpens(m) PROVE c \in Clients
    BY <1>1, PacketFacts DEF ServerOpens, FromClient
  <1>2. ASSUME NEW body, NEW type, body.messageType = type, c \in Clients
        PROVE  OnWire(Packet(Server, c, serverKeys, body))
                 = [client |-> c, to |-> "client", type |-> type, seal |-> seal]
    <2> DEFINE pkt == Packet(Server, c, serverKeys, body)
    <2>1. pkt.from = Server /\ pkt.to = c /\ pkt.seal = Seal(serverKeys) /\ pkt.body = body
      BY DEF Packet
    <2> HIDE DEF pkt
    <2>2. Owner(pkt.seal) = seal
      BY <2>1, OwnerOfSeal DEF SessionInv, TypeOK
    <2>3. OnWire(pkt) = [client |-> c, to |-> "client", type |-> type, seal |-> Owner(pkt.seal)]
      BY <1>2, <2>1, FromServerOnWire
    <2> QED BY <2>2, <2>3 DEF pkt
  <1>3. ASSUME ServerReceiveAck(m) PROVE c \in Clients /\ HS!ServerHearAck(c, OnWire(m))
    <2>1. /\ ServerOpens(m) /\ m.body.messageType = "Ack" /\ net' = After(m)
          /\ setup' = setup /\ serverKeys' = serverKeys
          /\ clientKeys' = clientKeys /\ clientDown' = clientDown
      BY <1>3 DEF ServerReceiveAck, clientVars
    <2> QED BY <1>1, <2>1, OnlyHeardOnWire, OpensOnWire DEF HS!ServerHearAck
  <1>4. ASSUME ServerReceiveData(m) PROVE c \in Clients /\ HS!ServerHearData(c, OnWire(m))
    <2> DEFINE body == MessageOf(AfterMarkReceived(serverUdp, m.body), Datum(AckText, FALSE), "Ack")
               pkt == Packet(Server, c, serverKeys, body)
    <2>1. /\ ServerOpens(m) /\ m.body.messageType = "General" /\ net' = After(m) \cup {pkt}
          /\ setup' = setup /\ serverKeys' = serverKeys
          /\ clientKeys' = clientKeys /\ clientDown' = clientDown
      BY <1>4 DEF ServerReceiveData, ServerAck, clientVars
    <2>2. body.messageType = "Ack"
      BY DEF MessageOf
    <2> HIDE DEF body
    <2>3. OnWire(pkt) = [client |-> c, to |-> "client", type |-> "Ack", seal |-> seal]
      BY <1>1, <1>2, <2>1, <2>2
    <2> HIDE DEF pkt
    <2>4. {OnWire(p) : p \in {pkt}} = {OnWire(pkt)}
      OBVIOUS
    <2>5. Wire' \in {Wire \cup {OnWire(pkt)}, (Wire \ {OnWire(m)}) \cup {OnWire(pkt)}}
      BY <2>1, <2>4, HeardOnWire
    <2>6. HS!Heard(OnWire(m), {OnWire(pkt)})
      BY <2>5 DEF HS!Heard, Wire
    <2> QED BY <1>1, <2>1, <2>3, <2>6, OpensOnWire DEF HS!ServerHearData, HS!ToClient, HS!Seal
  <1>5. ASSUME ServerReceiveKey(m) PROVE c \in Clients /\ HS!ServerHearKey(c, OnWire(m))
    <2> DEFINE heard == AfterMarkReceived(serverUdp, m.body)
               dat == Datum(AckText, FALSE)
               ackBody == MessageOf(heard, dat, "Ack")
               keyBody == MessageOf(AfterMarkSent(heard, dat),
                                    Datum(KeyText(NewKeyPair), FALSE), "SendPubKey")
               ack == Packet(Server, c, serverKeys, ackBody)
               reply == Packet(Server, c, serverKeys, keyBody)
               keys == ServerDerives(FirstText(m.body)[2], NewKeyPair)
    <2>1. /\ ServerOpens(m) /\ m.to = Server /\ m.body.messageType = "SendPubKey"
          /\ net' = After(m) \cup {ack, reply}
          /\ setup' = setup /\ serverKeys' = keys
          /\ clientKeys' = clientKeys /\ clientDown' = clientDown
      BY <1>5 DEF ServerReceiveKey, ServerOpens, ServerAck, clientVars
    <2>2. ackBody.messageType = "Ack" /\ keyBody.messageType = "SendPubKey"
      BY DEF MessageOf
    <2>3. Owner(keys) = c
      <3>1. FirstText(m.body) = KeyText(c)
        BY <2>1, PacketFacts DEF FromClient
      <3>2. FirstText(m.body)[2] = c
        BY <3>1 DEF KeyText
      <3> QED BY <3>2 DEF Owner, NoKeys, ServerDerives
    <2> HIDE DEF ackBody, keyBody, keys
    <2>4. /\ OnWire(ack) = [client |-> c, to |-> "client", type |-> "Ack", seal |-> seal]
          /\ OnWire(reply) = [client |-> c, to |-> "client", type |-> "SendPubKey", seal |-> seal]
      BY <1>1, <1>2, <2>1, <2>2
    <2> HIDE DEF ack, reply
    <2>5. {OnWire(p) : p \in {ack, reply}} = {OnWire(ack), OnWire(reply)}
      OBVIOUS
    <2>6. Wire' \in {Wire \cup {OnWire(ack), OnWire(reply)},
                     (Wire \ {OnWire(m)}) \cup {OnWire(ack), OnWire(reply)}}
      BY <2>1, <2>5, HeardOnWire
    <2>7. HS!KeyReplies(c) = {OnWire(ack), OnWire(reply)}
      BY <2>4 DEF HS!KeyReplies, HS!ToClient, HS!Seal
    <2>8. HS!Heard(OnWire(m), HS!KeyReplies(c))
      BY <2>6, <2>7 DEF HS!Heard, Wire
    <2> QED BY <1>1, <2>1, <2>3, <2>8, OpensOnWire DEF HS!ServerHearKey
  <1> QED BY <1>3, <1>4, <1>5

LEMMA HandshakeNext ==
  ASSUME NoWraparound, NoOverwriting
  PROVE  SessionInv /\ StaysUpInv /\ [Next]_vars => [HS!HandshakeNext]_(HS!handshakeVars)
  <1> SUFFICES ASSUME SessionInv, StaysUpInv, [Next]_vars PROVE [HS!HandshakeNext]_(HS!handshakeVars)
    OBVIOUS
  <1>1. setup.clients \subseteq Clients
    BY SetupBounds DEF SessionInv, TypeOK
  <1>2. \A pkt \in net : OnWire(pkt) \in {OnWire(p) : p \in net}
    OBVIOUS
  <1>3. ASSUME NEW c \in setup.clients, Connect(c) \/ SendKeyInstead(c) \/ SendData(c)
        PROVE  HS!HandshakeNext
    BY <1>1, <1>3, HandshakeClientSend DEF HS!HandshakeNext
  <1>4. ASSUME NEW c \in setup.clients, NEW pkt \in net,
               ClientCrash(c, pkt) \/ ClientReceiveAck(c, pkt) \/ ClientReceiveKey(c, pkt)
        PROVE  HS!HandshakeNext
    BY <1>1, <1>2, <1>4, HandshakeClientHears, HandshakeClientHearsKey DEF HS!HandshakeNext
  <1>5. ASSUME NEW pkt \in net,
               ServerReceiveAck(pkt) \/ ServerReceiveData(pkt) \/ ServerReceiveKey(pkt)
        PROVE  HS!HandshakeNext
    BY <1>2, <1>5, HandshakeServerHears DEF HS!HandshakeNext
  <1>6. ASSUME NEW pkt \in net PROVE ~ServerCrash(pkt)
    BY ServerLooksUp DEF ServerCrash, StaysUpInv
  <1>7. CASE UNCHANGED vars
    BY <1>7 DEF vars, clientVars, serverVars, HS!handshakeVars
  <1> QED BY <1>3, <1>4, <1>5, <1>6, <1>7 DEF Next

(* The two classes implement the handshake: with sequence numbers,         *)
(* bundles, pre-acked datums and lookups of what a message names, they do  *)
(* no more with sessions and with the types of messages than Handshake     *)
(* says; so what holds of every handshake holds of them.                   *)
THEOREM SessionImplementsHandshake ==
  ASSUME NoWraparound, NoOverwriting
  PROVE  Spec => HandshakeSafety
  <1>1. Init => SessionInv /\ StaysUpInv /\ HS!HandshakeInit
    BY SessionInit, StaysUpInit, HandshakeInit
  <1>2. SessionInv /\ StaysUpInv /\ [Next]_vars => (SessionInv /\ StaysUpInv)'
    BY SessionNext, StaysUpNext
  <1> QED BY <1>1, <1>2, HandshakeNext, PTL DEF Spec, HandshakeSafety, HS!Safety

-----------------------------------------------------------------------------
(* One client alone: what it keeps as acknowledged was raised.             *)

LEMMA NotData ==
  \A log, text : text[1] # "data" => Told(log, text)
  BY DEF Told

LEMMA KindsOfText ==
  /\ AckText[1] # "data" /\ NoText[1] # "data" /\ AckText # NoText
  /\ \A x : KeyText(x)[1] # "data" /\ KeyText(x) # AckText
  /\ \A c, n : DataText(c, n) # AckText /\ DataText(c, n)[1] = "data"
  BY DEF AckText, NoText, KeyText, DataText

(* The client sends one more datum. *)
LEMMA SentIsSpoken ==
  ASSUME NEW T, NEW e \in Endpoints(T), NEW d \in Datums(T), NEW log, Spoken(e, log), Genuine(e),
         e.sequence + 1 < SeqModulus, e.sequence + 1 <= BufferSize,
         d.IsAcked <=> d.payload = AckText
  PROVE  /\ Spoken(AfterMarkSent(e, d), log)
         /\ \A s \in 1 .. e.sequence : TextAt(AfterMarkSent(e, d), s) = TextAt(e, s)
         /\ TextAt(AfterMarkSent(e, d), e.sequence + 1) = d.payload
  <1> DEFINE n == NextSequence(e)
             new == SendBufferWith(e, d)
             k == GetSequenceIndex(n)
             own == Numbered(e, d)
  <1>1. /\ n = e.sequence + 1 /\ e.sequence \in Nat /\ n \in 1 .. BufferSize /\ n \in Int
        /\ AfterMarkSent(e, d).sequence = n /\ AfterMarkSent(e, d).SendBuffer = new
        /\ e.SendBuffer \in Buffers(T)
    BY NextIsSuccessor, EndpointFacts, AfterMarkSentType, BufferSizeAssumption
  <1>2. own.payload = d.payload /\ own.IsAcked = d.IsAcked
    BY NumberedType
  <1>3. AllHeld(AfterMarkSent(e, d))
    BY SentIsHeld DEF Spoken
  <1>4. k \in Slots
    BY <1>1, IndexInSlots
  <1>5. ASSUME NEW i \in Slots
        PROVE  new[i] = IF i = k THEN [tag |-> n, datum |-> own] ELSE e.SendBuffer[i]
    BY <1>1, <1>4 DEF SendBufferWith, Put, Buffers
  <1>6. ASSUME NEW s \in 1 .. e.sequence
        PROVE  /\ GetSequenceIndex(s) # k /\ GetSequenceIndex(s) \in Slots
               /\ Get(new, s) = Get(e.SendBuffer, s)
    <2>1. s \in 1 .. BufferSize /\ s # n /\ s \in Int
      BY <1>1, BufferSizeAssumption
    <2>2. GetSequenceIndex(s) # k /\ GetSequenceIndex(s) \in Slots
      BY <1>1, <2>1, SlotsDiffer, IndexInSlots
    <2> QED BY <1>5, <2>2 DEF Get
  <1>7. Get(new, n) = own
    BY <1>4, <1>5 DEF Get
  <1> HIDE DEF n, new, own
  <1>8. ASSUME NEW i \in Slots
        PROVE  /\ new[i].tag \notin 1 .. n => new[i].datum.payload[1] # "data"
               /\ new[i].datum.IsAcked => Told(log, new[i].datum.payload)
    <2>1. CASE i = k
      <3>1. new[i].tag = n /\ new[i].datum = own /\ n \in 1 .. n
        BY <1>1, <1>5, <2>1
      <3>2. own.IsAcked => own.payload[1] # "data"
        BY <1>2, KindsOfText
      <3> QED BY <3>1, <3>2, NotData
    <2>2. CASE i # k
      BY <1>1, <1>5, <2>2 DEF Spoken
    <2> QED BY <2>1, <2>2
  <1>9. ASSUME NEW s \in 1 .. n, Get(new, s).payload = AckText PROVE Get(new, s).IsAcked
    <2>1. CASE s = n
      BY <1>2, <1>7, <1>9, <2>1
    <2>2. CASE s # n
      <3>1. s \in 1 .. e.sequence
        BY <1>1, <2>2
      <3> QED BY <1>6, <1>9, <3>1 DEF Spoken, TextAt
    <2> QED BY <2>1, <2>2
  <1>10. Spoken(AfterMarkSent(e, d), log)
    BY <1>1, <1>3, <1>8, <1>9 DEF Spoken, TextAt
  <1> QED BY <1>1, <1>2, <1>6, <1>7, <1>10 DEF TextAt

(* The client hears a message that names only what was raised. *)
LEMMA ReceivedIsSpoken ==
  ASSUME NEW T, NEW e \in Endpoints(T), NEW m \in Messages(AllTexts), NEW log,
         Spoken(e, log), Genuine(e), NamesTold(m, e, log)
  PROVE  /\ Spoken(AfterMarkReceived(e, m), log)
         /\ \A s \in 1 .. e.sequence : TextAt(AfterMarkReceived(e, m), s) = TextAt(e, s)
  <1> DEFINE send == e.SendBuffer
             L == m.LastAckedSequence
             d == Get(send, L)
             k == GetSequenceIndex(L)
             last == MarkLast(send, m)
             new == MarkAcked(last, m)
  <1>1. /\ send \in Buffers(T) /\ last \in Buffers(T) /\ e.sequence \in Nat
        /\ L \in Nat /\ L \in 0 .. e.sequence
    <2>1. L \in Nat
      BY SeqsInt DEF Messages
    <2> QED BY <2>1, EndpointFacts, MarkLastType DEF NamesTold, NamesUpTo
  <1>2. k \in Slots
    BY <1>1, IndexInSlots
  <1>3. /\ AfterMarkReceived(e, m).sequence = e.sequence
        /\ AfterMarkReceived(e, m).SendBuffer = new
    BY AfterMarkReceivedType
  <1>4. AllHeld(AfterMarkReceived(e, m))
    BY NamedIsHeld DEF Spoken, NamesTold
  <1>5. ASSUME NEW i \in Slots
        PROVE  /\ last[i].tag = send[i].tag /\ last[i].datum.payload = send[i].datum.payload
               /\ send[i].datum.IsAcked => last[i].datum.IsAcked
               /\ last[i] = send[i] \/ (i = k /\ send[i].tag = L)
    <2>1. CASE ~Holds(send, L)
      BY <2>1 DEF MarkLast
    <2>2. CASE Holds(send, L)
      <3>1. d.Sequence = L /\ send[k].tag = L /\ d = send[k].datum /\ d \in Datums(T)
        BY <1>1, <1>2, <2>2, GetType DEF Genuine, Holds, Get
      <3>2. last = [send EXCEPT ![k] = [tag |-> L, datum |-> [d EXCEPT !.IsAcked = TRUE]]]
        BY <2>2, <3>1 DEF MarkLast, Put
      <3>3. /\ [d EXCEPT !.IsAcked = TRUE].payload = d.payload
            /\ [d EXCEPT !.IsAcked = TRUE].IsAcked
        BY <3>1 DEF Datums
      <3> HIDE DEF d, k, L, last
      <3> QED BY <1>1, <1>2, <3>1, <3>2, <3>3 DEF Buffers
    <2> QED BY <2>1, <2>2
  <1>6. ASSUME NEW i \in Slots
        PROVE  /\ new[i].tag = last[i].tag /\ new[i].datum.payload = last[i].datum.payload
               /\ last[i].datum.IsAcked => new[i].datum.IsAcked
               /\ new[i] = last[i] \/ last[i].tag \in NamedByBits(m)
    BY <1>1 DEF MarkAcked, Buffers, Datums
  <1> HIDE DEF last, new
  <1>7. ASSUME NEW s \in 1 .. e.sequence
        PROVE  /\ GetSequenceIndex(s) \in Slots /\ Holds(send, s)
               /\ Get(new, s).payload = Get(send, s).payload
               /\ Get(send, s).IsAcked => Get(new, s).IsAcked
    <2>1. GetSequenceIndex(s) \in Slots /\ Holds(send, s)
      BY <1>1, IndexInSlots DEF Spoken, AllHeld
    <2> QED BY <1>5, <1>6, <2>1 DEF Get
  <1>8. ASSUME NEW i \in Slots, send[i].tag \in 1 .. e.sequence, Told(log, TextAt(e, send[i].tag)),
               GetSequenceIndex(send[i].tag) = i
        PROVE  Told(log, send[i].datum.payload)
    BY <1>8 DEF TextAt, Get
  <1>9. ASSUME NEW i \in Slots
        PROVE  /\ new[i].tag \notin 1 .. e.sequence => new[i].datum.payload[1] # "data"
               /\ new[i].datum.IsAcked => Told(log, new[i].datum.payload)
    <2>1. new[i].tag = send[i].tag /\ new[i].datum.payload = send[i].datum.payload
      BY <1>5, <1>6
    <2>2. new[i].tag \notin 1 .. e.sequence => new[i].datum.payload[1] # "data"
      BY <2>1 DEF Spoken
    <2>3. ASSUME new[i].datum.IsAcked PROVE Told(log, send[i].datum.payload)
      <3>1. CASE send[i].tag \notin 1 .. e.sequence
        BY <2>1, <2>2, <3>1, NotData
      <3>2. CASE send[i].tag \in 1 .. e.sequence /\ new[i] = send[i]
        BY <2>3, <3>2 DEF Spoken
      <3>3. CASE send[i].tag \in 1 .. e.sequence /\ new[i] = last[i] /\ i = k /\ send[i].tag = L
        <4>1. L # 0
          BY <1>1, <3>3
        <4>2. Told(log, TextAt(e, L))
          BY <4>1 DEF NamesTold
        <4> QED BY <1>8, <3>3, <4>2
      <3>4. CASE send[i].tag \in 1 .. e.sequence /\ new[i] # last[i]
        <4>1. send[i].tag \in NamedByBits(m)
          BY <1>5, <1>6, <3>4
        <4>2. Told(log, TextAt(e, send[i].tag))
          BY <4>1 DEF NamesTold
        <4>3. GetSequenceIndex(send[i].tag) = i
          BY <1>5, <3>4 DEF new, MarkAcked
        <4> QED BY <1>8, <3>4, <4>2, <4>3
      <3> QED BY <1>5, <3>1, <3>2, <3>3, <3>4
    <2> QED BY <2>1, <2>2, <2>3
  <1>10. ASSUME NEW s \in 1 .. e.sequence, Get(new, s).payload = AckText PROVE Get(new, s).IsAcked
    BY <1>7, <1>10 DEF Spoken, TextAt
  <1>11. Spoken(AfterMarkReceived(e, m), log)
    BY <1>3, <1>4, <1>9, <1>10 DEF Spoken, TextAt
  <1> QED BY <1>3, <1>7, <1>11 DEF TextAt

-----------------------------------------------------------------------------
(* What a message of the client says, once it is sent. *)
LEMMA SentIsSaid ==
  ASSUME NEW T, NEW e \in Endpoints(T), NEW dat \in Datums(T), NEW log,
         NEW type \in {"SendPubKey", "General", "Ack"}, Spoken(e, log), Genuine(e),
         e.sequence + 1 < SeqModulus, e.sequence + 1 <= BufferSize,
         ~dat.IsAcked, dat.payload # AckText,
         type = "Ack" => /\ dat.payload = NoText /\ e.sequence \in 1 .. e.sequence
                         /\ TextAt(e, e.sequence) = AckText
  PROVE  SaidBy(MessageOf(e, dat, type), AfterMarkSent(e, dat))
  <1> DEFINE m == MessageOf(e, dat, type)
             f == AfterMarkSent(e, dat)
             n == e.sequence + 1
  <1>1. /\ e.sequence \in Nat /\ NextSequence(e) = n /\ m.Sequence = n /\ m.messageType = type
        /\ f.sequence = n /\ f.SendBuffer = SendBufferWith(e, dat)
    BY NextIsSuccessor, EndpointFacts, AfterMarkSentType, MessageOfType
  <1>2. /\ Spoken(f, log) /\ TextAt(f, n) = dat.payload
        /\ \A s \in 1 .. e.sequence : TextAt(f, s) = TextAt(e, s)
    BY SentIsSpoken
  <1>3. ASSUME NEW d \in m.data
        PROVE  /\ d.Sequence \in 1 .. n
               /\ d.payload = TextAt(f, d.Sequence) /\ d.payload # AckText
    <2>1. CASE d = Numbered(e, dat)
      <3>1. d.Sequence = n /\ d.payload = dat.payload
        BY <1>1, <2>1, NumberedType
      <3> QED BY <1>1, <1>2, <3>1
    <2>2. CASE d # Numbered(e, dat)
      <3>1. PICK i \in 1 .. e.sequence : /\ Holds(SendBufferWith(e, dat), i)
                                         /\ d = Get(SendBufferWith(e, dat), i) /\ ~d.IsAcked
        BY <2>2, DataOf
      <3>2. i \in 1 .. n
        BY <1>1
      <3>3. d.Sequence = i
        BY <3>1, <3>2, SentIsGenuine
      <3>4. d = Get(f.SendBuffer, i) /\ i \in 1 .. f.sequence
        BY <1>1, <3>1, <3>2
      <3> HIDE DEF f
      <3>5. d.payload = TextAt(f, i)
        BY <3>4 DEF TextAt
      <3>6. TextAt(f, i) # AckText
        BY <1>2, <3>1, <3>4 DEF Spoken
      <3> QED BY <3>2, <3>3, <3>5, <3>6
    <2> QED BY <2>1, <2>2
  <1>4. n \in 1 .. n /\ n - 1 = e.sequence
    BY <1>1
  <1> HIDE DEF m, f
  <1>5. type = "Ack" => /\ TextAt(f, n) = NoText /\ n - 1 \in 1 .. n
                        /\ TextAt(f, n - 1) = AckText
    BY <1>1, <1>2, <1>4
  <1> HIDE DEF n
  <1> QED BY <1>1, <1>3, <1>4, <1>5 DEF SaidBy, m, f

(* What was said stays said, as the client's object goes on. *)
LEMMA SaidLater ==
  ASSUME NEW e, NEW f, e.sequence \in Nat, f.sequence \in Nat, e.sequence <= f.sequence,
         \A s \in 1 .. e.sequence : TextAt(f, s) = TextAt(e, s)
  PROVE  /\ \A m \in Messages(AllTexts) : SaidBy(m, e) => SaidBy(m, f)
         /\ \A log : \A m \in Messages(AllTexts) : NamesTold(m, e, log) => NamesTold(m, f, log)
         /\ \A log : \A x \in Endpoints(AllTexts) : HeardOf(x, e, log) => HeardOf(x, f, log)
  <1>1. 1 .. e.sequence \subseteq 1 .. f.sequence
    OBVIOUS
  <1>2. ASSUME NEW m \in Messages(AllTexts), SaidBy(m, e) PROVE SaidBy(m, f)
    <2>1. m.Sequence \in 1 .. e.sequence /\ m.Sequence \in 1 .. f.sequence
      BY <1>1, <1>2 DEF SaidBy
    <2>2. \A d \in m.data : /\ d.Sequence \in 1 .. m.Sequence /\ d.Sequence \in 1 .. e.sequence
                            /\ d.payload = TextAt(e, d.Sequence) /\ d.payload # AckText
      BY <1>2, <2>1 DEF SaidBy
    <2>3. m.messageType = "Ack" =>
            /\ TextAt(f, m.Sequence) = NoText
            /\ m.Sequence - 1 \in 1 .. f.sequence /\ TextAt(f, m.Sequence - 1) = AckText
      <3> SUFFICES ASSUME m.messageType = "Ack"
                   PROVE  /\ TextAt(f, m.Sequence) = NoText
                          /\ m.Sequence - 1 \in 1 .. f.sequence
                          /\ TextAt(f, m.Sequence - 1) = AckText
        OBVIOUS
      <3>1. /\ TextAt(e, m.Sequence) = NoText /\ m.Sequence - 1 \in 1 .. e.sequence
            /\ TextAt(e, m.Sequence - 1) = AckText
        BY <1>2 DEF SaidBy
      <3> QED BY <1>1, <2>1, <3>1
    <2> QED BY <2>1, <2>2, <2>3 DEF SaidBy
  <1>3. ASSUME NEW m \in Messages(AllTexts), NEW log, NamesTold(m, e, log)
        PROVE  NamesTold(m, f, log)
    <2>1. m.LastAckedSequence \in Nat
      BY SeqsInt DEF Messages
    <2>2. NamesUpTo(m, f.sequence)
      BY <1>1, <1>3, <2>1 DEF NamesTold, NamesUpTo
    <2>3. NamedByBits(m) \cup ({m.LastAckedSequence} \ {0}) \subseteq 1 .. e.sequence
      BY <1>3, <2>1 DEF NamesTold, NamesUpTo
    <2> QED BY <1>3, <2>2, <2>3 DEF NamesTold
  <1>4. ASSUME NEW x \in Endpoints(AllTexts), NEW log, HeardOf(x, e, log)
        PROVE  HeardOf(x, f, log)
    <2>1. /\ x.lastAcked \in 0 .. e.sequence /\ x.lastAcked \in 0 .. f.sequence
          /\ x.lastAcked # 0 => x.lastAcked \in 1 .. e.sequence
      BY <1>4 DEF HeardOf
    <2>2. 1 .. x.lastAcked \subseteq 1 .. e.sequence
      BY <2>1
    <2>3. ASSUME NEW i \in Slots, x.ReceiveBuffer[i].datum.IsAcked
          PROVE  LET s == x.ReceiveBuffer[i].tag IN
                 /\ s \in 1 .. x.lastAcked /\ TextAt(f, s) # AckText
                 /\ \/ Told(log, TextAt(f, s))
                    \/ \E g \in s + 1 .. x.lastAcked - 1 : TextAt(f, g) = AckText
      <3> DEFINE s == x.ReceiveBuffer[i].tag
      <3>1. /\ s \in 1 .. x.lastAcked /\ TextAt(e, s) # AckText
            /\ \/ Told(log, TextAt(e, s))
               \/ \E g \in s + 1 .. x.lastAcked - 1 : TextAt(e, g) = AckText
        BY <1>4, <2>3 DEF HeardOf
      <3>2. TextAt(f, s) = TextAt(e, s)
        BY <2>2, <3>1
      <3>3. \A g \in s + 1 .. x.lastAcked - 1 : TextAt(f, g) = TextAt(e, g)
        BY <2>1, <3>1
      <3> QED BY <3>1, <3>2, <3>3
    <2> QED BY <1>4, <2>1, <2>3 DEF HeardOf
  <1> QED BY <1>2, <1>3, <1>4

(* And so does what was told, as more is raised. *)
LEMMA ToldLater ==
  ASSUME NEW log, NEW more, \A text : Told(log, text) => Told(more, text)
  PROVE  /\ \A e : Spoken(e, log) => Spoken(e, more)
         /\ \A m, peer : NamesTold(m, peer, log) => NamesTold(m, peer, more)
         /\ \A e, peer : HeardOf(e, peer, log) => HeardOf(e, peer, more)
  <1>1. \A e : Spoken(e, log) => Spoken(e, more)
    BY DEF Spoken
  <1>2. \A m, peer : NamesTold(m, peer, log) => NamesTold(m, peer, more)
    BY DEF NamesTold
  <1>3. \A e, peer : HeardOf(e, peer, log) => HeardOf(e, peer, more)
    BY DEF HeardOf
  <1> QED BY <1>1, <1>2, <1>3

-----------------------------------------------------------------------------
(* The server hears a message of the client: what it raises is told, what  *)
(* an acknowledgement bundles has a ghost after it.                        *)
LEMMA HeardMore ==
  ASSUME NEW T, NEW e \in Endpoints(T), NEW m \in Messages(AllTexts), WellNumbered(m),
         NEW peer, peer.sequence \in Nat, NEW log, NEW more,
         \A text : Told(log, text) => Told(more, text),
         m.messageType # "Ack" => \A d \in m.data : Told(more, d.payload),
         HeardOf(e, peer, log), SaidBy(m, peer)
  PROVE  HeardOf(AfterMarkReceived(e, m), peer, more)
  <1> DEFINE old == e.ReceiveBuffer
             new == Store(old, m)
             L == e.lastAcked
             M == NewLastAcked(e, m)
  <1>1. /\ AfterMarkReceived(e, m).ReceiveBuffer = new
        /\ AfterMarkReceived(e, m).lastAcked = M
        /\ old \in Buffers(AllTexts) /\ L \in Nat
    BY AfterMarkReceivedType, EndpointFacts
  <1>2. /\ m.Sequence \in 1 .. peer.sequence /\ L \in 0 .. peer.sequence
        /\ \A d \in m.data : /\ d.Sequence \in 1 .. m.Sequence
                             /\ d.payload = TextAt(peer, d.Sequence) /\ d.payload # AckText
    BY DEF SaidBy, HeardOf
  <1>3. /\ M \in 0 .. peer.sequence /\ L <= M /\ m.Sequence <= M
        /\ M = L \/ M = m.Sequence
    BY <1>1, <1>2 DEF NewLastAcked
  <1>4. Told(more, TextAt(peer, m.Sequence))
    <2>1. CASE m.messageType = "Ack"
      BY <2>1, NotData, KindsOfText DEF SaidBy
    <2>2. CASE m.messageType # "Ack"
      <3>1. PICK d \in m.data : d.Sequence = m.Sequence
        BY DEF WellNumbered
      <3> QED BY <1>2, <2>2, <3>1
    <2> QED BY <2>1, <2>2
  <1>5. M # 0 => Told(more, TextAt(peer, M))
    BY <1>3, <1>4 DEF HeardOf
  <1> HIDE DEF M
  <1>6. ASSUME NEW d \in m.data, ~Told(more, d.payload)
        PROVE  \E g \in d.Sequence + 1 .. M - 1 : TextAt(peer, g) = AckText
    <2> DEFINE g == m.Sequence - 1
    <2>1. m.messageType = "Ack"
      BY <1>6
    <2>2. TextAt(peer, g) = AckText
      BY <2>1 DEF SaidBy
    <2>3. d.Sequence # m.Sequence
      BY <1>2, <1>4, <1>6
    <2>4. d.Sequence # g
      BY <1>2, <2>2
    <2>5. d.Sequence \in 1 .. m.Sequence /\ m.Sequence \in Int /\ M \in Int
      BY <1>2, <1>3
    <2>6. g \in d.Sequence + 1 .. M - 1
      BY <1>3, <2>3, <2>4, <2>5
    <2> QED BY <2>2, <2>6
  <1>7. ASSUME NEW i \in Slots
        PROVE  LET s == new[i].tag IN
               IF new[i].datum.IsAcked
               THEN /\ s \in 1 .. M /\ TextAt(peer, s) # AckText
                    /\ \/ Told(more, TextAt(peer, s))
                       \/ \E g \in s + 1 .. M - 1 : TextAt(peer, g) = AckText
               ELSE s \in {Unset} \cup Garbage
    <2> HIDE DEF old
    <2>1. \/ Store(old, m)[i] = old[i]
          \/ \E d \in m.data : /\ GetSequenceIndex(d.Sequence) = i
                               /\ Store(old, m)[i].tag = d.Sequence
                               /\ Store(old, m)[i].datum = [d EXCEPT !.IsAcked = TRUE]
      BY <1>1, StoreType
    <2> USE DEF old
    <2>2. CASE new[i] = old[i] /\ old[i].datum.IsAcked
      <3> DEFINE s == old[i].tag
      <3>1. /\ s \in 1 .. L /\ TextAt(peer, s) # AckText
            /\ \/ Told(log, TextAt(peer, s))
               \/ \E g \in s + 1 .. L - 1 : TextAt(peer, g) = AckText
        BY <2>2 DEF HeardOf
      <3>2. s \in 1 .. M /\ s + 1 .. L - 1 \subseteq s + 1 .. M - 1
        BY <1>1, <1>3, <3>1
      <3>3. Told(log, TextAt(peer, s)) => Told(more, TextAt(peer, s))
        OBVIOUS
      <3> HIDE DEF s, new
      <3>4. new[i].datum.IsAcked /\ new[i].tag = s
        BY <2>2 DEF s
      <3> QED BY <3>1, <3>2, <3>3, <3>4
    <2>3. CASE new[i] = old[i] /\ ~old[i].datum.IsAcked
      BY <2>3 DEF HeardOf
    <2>4. CASE \E d \in m.data : /\ new[i].tag = d.Sequence
                                 /\ new[i].datum = [d EXCEPT !.IsAcked = TRUE]
      <3>1. PICK d \in m.data : /\ new[i].tag = d.Sequence
                                /\ new[i].datum = [d EXCEPT !.IsAcked = TRUE]
        BY <2>4
      <3> HIDE DEF new
      <3>2. d \in Datums(AllTexts)
        BY DEF Messages
      <3>3. new[i].datum.IsAcked
        BY <3>1, <3>2 DEF Datums
      <3>4. d.Sequence \in 1 .. M
        BY <1>2, <1>3
      <3>5. TextAt(peer, d.Sequence) = d.payload /\ d.payload # AckText
        BY <1>2
      <3>6. \/ Told(more, d.payload)
            \/ \E g \in d.Sequence + 1 .. M - 1 : TextAt(peer, g) = AckText
        BY <1>6
      <3> QED BY <3>1, <3>3, <3>4, <3>5, <3>6
    <2> QED BY <2>1, <2>2, <2>3, <2>4
  <1> HIDE DEF new
  <1> QED BY <1>1, <1>3, <1>5, <1>7 DEF HeardOf

(* Every number its next message names was told: the bits do not pass a    *)
(* ghost, which the receive buffer holds only by chance.                   *)
LEMMA NamesWhatWasTold ==
  ASSUME NEW T, NEW e \in Endpoints(T), NEW d \in Datums(T),
         NEW type \in {"SendPubKey", "General", "Ack"},
         NEW peer, peer.sequence \in Nat, peer.sequence < SeqModulus, NEW log,
         \A g \in 1 .. peer.sequence :
            TextAt(peer, g) = AckText /\ Holds(e.ReceiveBuffer, g) => log.ghost,
         HeardOf(e, peer, log)
  PROVE  NamesTold(MessageOf(e, d, type), peer, log)
  <1> DEFINE m == MessageOf(e, d, type)
             L == e.lastAcked
             R == e.ReceiveBuffer
  <1>1. /\ m.LastAckedSequence = L /\ m.LastAckedBits = GenerateAcknowledgedBits(e)
        /\ L \in Nat /\ L \in 0 .. peer.sequence /\ L < SeqModulus
    <2>1. m.LastAckedSequence = L /\ m.LastAckedBits = GenerateAcknowledgedBits(e)
      BY DEF MessageOf
    <2>2. L \in Nat
      BY EndpointFacts
    <2>3. L \in 0 .. peer.sequence
      BY DEF HeardOf
    <2>4. L < SeqModulus
      BY <2>2, <2>3, SeqModulusAssumption
    <2> QED BY <2>1, <2>2, <2>3, <2>4
  <1>2. ASSUME NEW g \in 1 .. L - 1, TextAt(peer, g) = AckText, Holds(R, g)
        PROVE  \A text : Told(log, text)
    <2>1. g \in 1 .. peer.sequence
      BY <1>1
    <2> QED BY <1>2, <2>1 DEF Told
  <1>3. ASSUME NEW i \in GenerateAcknowledgedBits(e)
        PROVE  /\ Before(L, i + 1) \in 1 .. L
               /\ Told(log, TextAt(peer, Before(L, i + 1)))
    <2> DEFINE s == Before(L, i + 1)
    <2>1. i \in 0 .. AckBits - 1 /\ i \in Nat
      BY AckBitsAssumption DEF GenerateAcknowledgedBits
    <2>2. /\ \A j \in 0 .. i : Holds(R, Before(L, j + 1))
          /\ Holds(R, s) /\ Get(R, s).IsAcked
      BY <2>1 DEF GenerateAcknowledgedBits
    <2>3. s \in Seqs /\ GetSequenceIndex(s) \in Slots
      <3>1. L - (i + 1) \in Int
        BY <1>1, <2>1
      <3>2. s \in Seqs
        BY <3>1, ModSeq DEF Before
      <3> HIDE DEF s
      <3> QED BY <3>2, SeqsInt, IndexInSlots
    <2>4. i + 1 <= L => s = L - (i + 1)
      <3>1. i + 1 <= L => L - (i + 1) \in Nat /\ L - (i + 1) < SeqModulus
        BY <1>1, <2>1, SeqModulusAssumption
      <3> QED BY <3>1, SmallMod DEF Before
    <2>5. ASSUME NEW g \in 1 .. L - 1, L - g <= i + 1 PROVE Holds(R, g)
      <3> DEFINE j == L - g - 1
      <3>1. j \in 0 .. i /\ L - (j + 1) = g /\ g \in Nat /\ g < SeqModulus
        BY <1>1, <2>1, <2>5, SeqModulusAssumption
      <3>2. Before(L, j + 1) = g
        BY <3>1, SmallMod DEF Before
      <3> HIDE DEF j
      <3> QED BY <2>2, <3>1, <3>2
    <2> HIDE DEF s
    <2>6. /\ s \in 1 .. L
          /\ \/ Told(log, TextAt(peer, s))
             \/ \E g \in s + 1 .. L - 1 : TextAt(peer, g) = AckText
      BY <2>2, <2>3 DEF HeardOf, Holds, Get
    <2>7. ASSUME NEW g \in s + 1 .. L - 1, TextAt(peer, g) = AckText
          PROVE  Told(log, TextAt(peer, s))
      <3>1. g \in 1 .. L - 1 /\ s \in Int /\ g \in Int
        BY <1>1, <2>6
      <3>2. L - g <= i + 1
        BY <1>1, <2>1, <2>4, <2>6, <3>1
      <3> QED BY <1>2, <2>5, <2>7, <3>1, <3>2
    <2> QED BY <2>6, <2>7 DEF s
  <1> HIDE DEF m, L
  <1>4. \A s \in NamedByBits(m) : s \in 1 .. L /\ Told(log, TextAt(peer, s))
    BY <1>1, <1>3 DEF NamedByBits
  <1>5. NamesUpTo(m, peer.sequence)
    BY <1>1, <1>4 DEF NamesUpTo
  <1>6. L # 0 => Told(log, TextAt(peer, L))
    BY DEF HeardOf, L
  <1> QED BY <1>1, <1>4, <1>5, <1>6 DEF NamesTold, m

-----------------------------------------------------------------------------

-----------------------------------------------------------------------------
(* A step of the client: what it adds to the net it says. *)
LEMMA AloneClientStep ==
  ASSUME SessionInv, NEW c \in Clients, AloneWith(c), NEW e \in Endpoints(AllTexts),
         clientUdp' = [clientUdp EXCEPT ![c] = e],
         setup' = setup, serverUdp' = serverUdp, raised' = raised,
         Spoken(e, LogOf(c)), clientUdp[c].sequence <= e.sequence,
         e.sequence <= setup.maxClientSeq,
         \A s \in 1 .. clientUdp[c].sequence : TextAt(e, s) = TextAt(clientUdp[c], s),
         \A p \in net' : p \in net \/ (p.from = c /\ SaidBy(p.body, e))
  PROVE  AloneWith(c)'
  <1> DEFINE old == clientUdp[c]
  <1>1. old.sequence \in Nat /\ e.sequence \in Nat /\ serverUdp \in Endpoints(AllTexts)
    BY EndpointFacts, EndpointTypes
  <1>2. clientUdp'[c] = e
    BY DEF SessionInv, TypeOK
  <1>3. /\ Spoken(old, LogOf(c)) /\ HeardOf(serverUdp, old, LogOf(c))
        /\ \A p \in net : IF p.from = Server THEN NamesTold(p.body, old, LogOf(c))
                          ELSE p.from = c /\ SaidBy(p.body, old)
    BY DEF AloneWith
  <1> DEFINE log == LogOf(c)
             more == LogOf(c)'
  <1>8. log.ghost => FindsGhost(serverUdp, e)
    <2>1. \A s \in 1 .. old.sequence : s \in 1 .. e.sequence /\ TextAt(e, s) = TextAt(old, s)
      BY <1>1
    <2> QED BY <2>1 DEF LogOf, FindsGhost, Spoken, AllHeld
  <1>9. \A text : Told(log, text) => Told(more, text)
    <2>1. /\ log.raised = raised /\ more.raised = raised
          /\ more.ghost = FindsGhost(serverUdp, e)
      BY <1>2 DEF LogOf, FindsGhost, TextAt
    <2> HIDE DEF log, more
    <2> QED BY <1>8, <2>1 DEF Told
  <1>4. \A s \in 1 .. old.sequence : TextAt(e, s) = TextAt(old, s)
    OBVIOUS
  <1> HIDE DEF old
  <1>5. /\ \A m \in Messages(AllTexts) : SaidBy(m, old) => SaidBy(m, e)
        /\ \A l : \A m \in Messages(AllTexts) : NamesTold(m, old, l) => NamesTold(m, e, l)
        /\ \A l : \A x \in Endpoints(AllTexts) : HeardOf(x, old, l) => HeardOf(x, e, l)
    <2>1. old.sequence <= e.sequence
      BY DEF old
    <2> QED BY <1>1, <1>4, <2>1, SaidLater
  <1> HIDE DEF more
  <1>10. /\ \A x : Spoken(x, log) => Spoken(x, more)
         /\ \A m, peer : NamesTold(m, peer, log) => NamesTold(m, peer, more)
         /\ \A x, peer : HeardOf(x, peer, log) => HeardOf(x, peer, more)
    <2> HIDE DEF log
    <2> QED BY <1>9, ToldLater
  <1>6. HeardOf(serverUdp, e, more) /\ Spoken(e, more)
    BY <1>1, <1>3, <1>5, <1>10
  <1>7. ASSUME NEW p \in net'
        PROVE  IF p.from = Server THEN NamesTold(p.body, e, more)
               ELSE p.from = c /\ SaidBy(p.body, e)
    <2>1. CASE p \in net
      <3>1. p.body \in Messages(AllTexts)
        BY <2>1, EndpointTypes
      <3> QED BY <1>3, <1>5, <1>10, <2>1, <3>1
    <2>2. CASE p.from = c /\ SaidBy(p.body, e)
      BY <2>2, ServerIsNoClient
    <2> QED BY <2>1, <2>2
  <1> QED BY <1>2, <1>6, <1>7 DEF AloneWith, more

(* A step of the server: what it adds to the net names what was raised. *)
LEMMA AloneServerStep ==
  ASSUME NEW c \in Clients, AloneWith(c), NEW more, more = LogOf(c)',
         setup' = setup, clientUdp' = clientUdp,
         \A text : Told(LogOf(c), text) => Told(more, text),
         HeardOf(serverUdp', clientUdp[c], more),
         \A p \in net' : p \in net \/ (p.from = Server /\ NamesTold(p.body, clientUdp[c], more))
  PROVE  AloneWith(c)'
  <1> DEFINE e == clientUdp[c]
             log == LogOf(c)
  <1>1. /\ Spoken(e, log) /\ e.sequence <= setup.maxClientSeq
        /\ \A p \in net : IF p.from = Server THEN NamesTold(p.body, e, log)
                          ELSE p.from = c /\ SaidBy(p.body, e)
    BY DEF AloneWith
  <1> HIDE DEF e, log
  <1>2. /\ \A x : Spoken(x, log) => Spoken(x, more)
        /\ \A m, peer : NamesTold(m, peer, log) => NamesTold(m, peer, more)
    BY ToldLater DEF log
  <1>3. Spoken(e, more)
    BY <1>1, <1>2
  <1>4. \A p \in net' : IF p.from = Server THEN NamesTold(p.body, e, more)
                        ELSE p.from = c /\ SaidBy(p.body, e)
    BY <1>1, <1>2 DEF e
  <1> QED BY <1>1, <1>3, <1>4 DEF AloneWith, e

(* SendInternal, for the caller or for a key. *)
LEMMA AloneSends ==
  ASSUME NoWraparound, NoOverwriting, SessionInv, NEW c \in Clients, AloneWith(c),
         NEW text \in Sayable(c, clientKeys[c]), text # AckText,
         NEW type \in {"SendPubKey", "General"},
         SendInternal(c, text, type), setup' = setup, UNCHANGED serverVars
  PROVE  AloneWith(c)'
  <1> DEFINE dat == Datum(text, FALSE)
             old == clientUdp[c]
             T == Sayable(c, clientKeys[c])
             m == MessageOf(old, dat, type)
             e == AfterMarkSent(old, dat)
             pkt == Packet(c, Server, clientKeys[c], m)
  <1>1. clientUdp' = [clientUdp EXCEPT ![c] = e] /\ net' = net \cup {pkt} /\ Fits(c, 1)
    BY DEF SendInternal
  <1>2. serverUdp' = serverUdp /\ raised' = raised
    BY DEF serverVars
  <1>3. dat \in Datums(T) /\ dat.payload = text /\ ~dat.IsAcked
    BY DatumType DEF Datum
  <1>4. /\ old \in Endpoints(T) /\ Genuine(old) /\ old.sequence \in Nat
        /\ Spoken(old, LogOf(c)) /\ setup.maxClientSeq \in Nat
    BY ClientFacts, SetupBounds DEF AloneWith
  <1>5. /\ old.sequence + 1 < SeqModulus /\ old.sequence + 1 <= BufferSize
        /\ old.sequence + 1 <= setup.maxClientSeq
    BY <1>1, ClientRoom, ClientSlots DEF Fits
  <1>6. pkt.from = c /\ pkt.body = m
    <2> HIDE DEF m
    <2> QED BY DEF Packet
  <1> HIDE DEF dat, T
  <1>7. e \in Endpoints(AllTexts) /\ e.sequence = old.sequence + 1
    <2>1. e \in Endpoints(T) /\ e.sequence = old.sequence + 1
      <3> HIDE DEF old
      <3> QED BY <1>3, <1>4, <1>5, AfterMarkSentType, NextIsSuccessor
    <2>2. T \subseteq AllTexts
      BY TextFacts DEF Sayable, T
    <2> HIDE DEF e
    <2> QED BY <2>1, <2>2, MoreTexts
  <1>8. /\ Spoken(e, LogOf(c)) /\ SaidBy(m, e)
        /\ \A s \in 1 .. old.sequence : TextAt(e, s) = TextAt(old, s)
    <2> HIDE DEF old
    <2>1. type \in {"SendPubKey", "General", "Ack"} /\ type # "Ack"
      OBVIOUS
    <2>2. dat.IsAcked <=> dat.payload = AckText
      BY <1>3
    <2>3. Spoken(e, LogOf(c)) /\ \A s \in 1 .. old.sequence : TextAt(e, s) = TextAt(old, s)
      BY <1>3, <1>4, <1>5, <2>2, SentIsSpoken
    <2>4. SaidBy(m, e)
      BY <1>3, <1>4, <1>5, <2>1, <2>2, SentIsSaid
    <2> QED BY <2>3, <2>4
  <1> HIDE DEF e, m, pkt
  <1>9. \A p \in net' : p \in net \/ (p.from = c /\ SaidBy(p.body, e))
    BY <1>1, <1>6, <1>8
  <1>10. clientUdp[c].sequence <= e.sequence /\ e.sequence <= setup.maxClientSeq
    BY <1>4, <1>5, <1>7
  <1> QED BY <1>1, <1>2, <1>7, <1>8, <1>9, <1>10, AloneClientStep

LEMMA AloneConnect ==
  ASSUME NoWraparound, NoOverwriting, SessionInv, NEW c \in Clients, AloneWith(c),
         Connect(c) \/ SendKeyInstead(c)
  PROVE  AloneWith(c)'
  <1>1. KeyText(c) \in Sayable(c, clientKeys[c]) /\ KeyText(c) # AckText
    BY TextFacts, KindsOfText DEF Sayable
  <1>2. SendInternal(c, KeyText(c), "SendPubKey") /\ setup' = setup /\ UNCHANGED serverVars
    BY DEF Connect, SendKeyInstead
  <1> QED BY <1>1, <1>2, AloneSends

LEMMA AloneSendData ==
  ASSUME NoWraparound, NoOverwriting, SessionInv, NEW c \in Clients, AloneWith(c), SendData(c)
  PROVE  AloneWith(c)'
  <1> DEFINE text == DataText(c, accepted[c] + 1)
  <1>1. accepted[c] + 1 \in Nat
    BY DEF SessionInv, TypeOK
  <1>2. text \in Sayable(c, clientKeys[c]) /\ text # AckText
    BY <1>1, TextFacts, KindsOfText DEF Sayable, SendData
  <1>3. SendInternal(c, text, "General") /\ setup' = setup /\ UNCHANGED serverVars
    BY DEF SendData
  <1> HIDE DEF text
  <1> QED BY <1>2, <1>3, AloneSends

(* A client hears only the server, which names to it what was raised. *)
LEMMA AloneHears ==
  ASSUME SessionInv, NEW c \in Clients, AloneWith(c), NEW pkt \in net, pkt.to = c
  PROVE  /\ NamesTold(pkt.body, clientUdp[c], LogOf(c))
         /\ Spoken(AfterMarkReceived(clientUdp[c], pkt.body), LogOf(c))
         /\ \A s \in 1 .. clientUdp[c].sequence :
               TextAt(AfterMarkReceived(clientUdp[c], pkt.body), s) = TextAt(clientUdp[c], s)
  <1> DEFINE e == clientUdp[c]
             m == pkt.body
             log == LogOf(c)
  <1>1. e \in Endpoints(AllTexts) /\ m \in Messages(AllTexts) /\ Genuine(e) /\ Spoken(e, log)
    BY EndpointTypes, ClientFacts DEF AloneWith
  <1>2. pkt.from = Server
    BY PacketFacts DEF FromServer
  <1>3. NamesTold(m, e, log)
    BY <1>2 DEF AloneWith
  <1> HIDE DEF e, m, log
  <1>4. /\ Spoken(AfterMarkReceived(e, m), log)
        /\ \A s \in 1 .. e.sequence : TextAt(AfterMarkReceived(e, m), s) = TextAt(e, s)
    BY <1>1, <1>3, ReceivedIsSpoken
  <1> QED BY <1>3, <1>4 DEF e, m, log

LEMMA AloneClientCrash ==
  ASSUME NEW c \in Clients, AloneWith(c), NEW pkt \in net, ClientCrash(c, pkt)
  PROVE  AloneWith(c)'
  <1>1. /\ setup' = setup /\ clientUdp' = clientUdp /\ serverUdp' = serverUdp /\ raised' = raised
        /\ net' \subseteq net
    BY AfterIsLess DEF ClientCrash, serverVars
  <1> QED BY <1>1 DEF AloneWith, LogOf, FindsGhost, TextAt

LEMMA AloneClientReceiveAck ==
  ASSUME SessionInv, NEW c \in Clients, AloneWith(c), NEW pkt \in net, ClientReceiveAck(c, pkt)
  PROVE  AloneWith(c)'
  <1> DEFINE e == AfterMarkReceived(clientUdp[c], pkt.body)
  <1>1. /\ setup' = setup /\ serverUdp' = serverUdp /\ raised' = raised
        /\ clientUdp' = [clientUdp EXCEPT ![c] = e]
        /\ net' \subseteq net /\ pkt.to = c
    BY AfterIsLess DEF ClientReceiveAck, ClientOpens, serverVars
  <1>2. e \in Endpoints(AllTexts) /\ e.sequence = clientUdp[c].sequence
    BY EndpointTypes, AfterMarkReceivedType
  <1>3. /\ Spoken(e, LogOf(c))
        /\ \A s \in 1 .. clientUdp[c].sequence : TextAt(e, s) = TextAt(clientUdp[c], s)
    BY <1>1, AloneHears
  <1> HIDE DEF e
  <1>4. clientUdp[c].sequence <= e.sequence /\ e.sequence <= setup.maxClientSeq
    BY <1>2, EndpointTypes DEF AloneWith
  <1> QED BY <1>1, <1>2, <1>3, <1>4, AloneClientStep

(* The client answers the server's key: the ghost, and the number after it.*)
LEMMA AloneClientReceiveKey ==
  ASSUME NoWraparound, NoOverwriting, SessionInv, NEW c \in Clients, AloneWith(c),
         NEW m \in net, ClientReceiveKey(c, m)
  PROVE  AloneWith(c)'
  <1> DEFINE own == Datum(AckText, TRUE)
             dat == Datum(NoText, FALSE)
             keys == ClientDerives(c, FirstText(m.body)[2])
             old == clientUdp[c]
             n == old.sequence
             heard == AfterMarkReceived(clientUdp[c], m.body)
             ghost == AfterMarkSent(heard, own)
             e == AfterMarkSent(ghost, dat)
             msg == MessageOf(ghost, dat, "Ack")
             pkt == Packet(c, Server, keys, msg)
  <1>1. /\ setup' = setup /\ serverUdp' = serverUdp /\ raised' = raised
        /\ m.to = c /\ Fits(c, 2)
    BY DEF ClientReceiveKey, ClientOpens, serverVars
  <1>2. clientUdp' = [clientUdp EXCEPT ![c] = e] /\ net' = After(m) \cup {pkt}
    BY DEF ClientReceiveKey, Ghost
  <1>3. /\ own \in Datums(AllTexts) /\ own.payload = AckText /\ own.IsAcked
        /\ dat \in Datums(AllTexts) /\ dat.payload = NoText /\ ~dat.IsAcked
    <2>1. AckText \in AllTexts /\ NoText \in AllTexts
      BY DEF AllTexts
    <2> QED BY <2>1, DatumType DEF Datum
  <1>4. /\ n \in Nat /\ n + 2 < SeqModulus /\ n + 2 <= BufferSize /\ n + 2 <= setup.maxClientSeq
    BY <1>1, ClientFacts, ClientRoom, ClientSlots DEF Fits
  <1>5. pkt.from = c /\ pkt.body = msg
    <2> HIDE DEF msg
    <2> QED BY DEF Packet
  <1>6. heard \in Endpoints(AllTexts) /\ Genuine(heard) /\ heard.sequence = n
    BY EndpointTypes, PacketFacts, ClientHears, AfterMarkReceivedType
  <1>7. Spoken(heard, LogOf(c)) /\ \A s \in 1 .. n : TextAt(heard, s) = TextAt(old, s)
    BY <1>1, AloneHears
  <1> HIDE DEF own, dat, keys, old, heard, n
  <1>8. /\ heard.sequence + 1 < SeqModulus /\ heard.sequence + 1 <= BufferSize
        /\ own.IsAcked <=> own.payload = AckText
    BY <1>3, <1>4, <1>6, SeqModulusAssumption, BufferSizeAssumption
  <1>9. /\ ghost \in Endpoints(AllTexts) /\ Genuine(ghost) /\ ghost.sequence = n + 1
    BY <1>3, <1>6, <1>8, AfterMarkSentType, SentIsGenuine, NextIsSuccessor
  <1>10. /\ Spoken(ghost, LogOf(c)) /\ TextAt(ghost, n + 1) = AckText
         /\ \A s \in 1 .. n : TextAt(ghost, s) = TextAt(heard, s)
    BY <1>3, <1>6, <1>7, <1>8, SentIsSpoken
  <1> HIDE DEF ghost
  <1>11. /\ ghost.sequence + 1 < SeqModulus /\ ghost.sequence + 1 <= BufferSize
         /\ ghost.sequence \in 1 .. ghost.sequence
         /\ TextAt(ghost, ghost.sequence) = AckText
         /\ dat.IsAcked <=> dat.payload = AckText
    BY <1>3, <1>4, <1>9, <1>10, KindsOfText, SeqModulusAssumption, BufferSizeAssumption
  <1>12. e \in Endpoints(AllTexts) /\ e.sequence = n + 2
    <2>1. e \in Endpoints(AllTexts) /\ e.sequence = ghost.sequence + 1
      BY <1>3, <1>9, <1>11, AfterMarkSentType, NextIsSuccessor
    <2> HIDE DEF e
    <2> QED BY <1>4, <1>9, <2>1
  <1>13. Spoken(e, LogOf(c)) /\ \A s \in 1 .. n + 1 : TextAt(e, s) = TextAt(ghost, s)
    BY <1>3, <1>9, <1>10, <1>11, SentIsSpoken
  <1>14. SaidBy(msg, e)
    <2>1. dat.payload = NoText /\ dat.payload # AckText
      BY <1>3, KindsOfText
    <2> QED BY <1>3, <1>9, <1>10, <1>11, <2>1, SentIsSaid
  <1> HIDE DEF e, msg, pkt
  <1>15. \A s \in 1 .. n : TextAt(e, s) = TextAt(old, s)
    <2>1. \A s \in 1 .. n : s \in 1 .. n + 1
      BY <1>4
    <2> QED BY <1>7, <1>10, <1>13, <2>1
  <1>16. \A p \in net' : p \in net \/ (p.from = c /\ SaidBy(p.body, e))
    BY <1>2, <1>5, <1>14, AfterIsLess
  <1>17. n <= e.sequence /\ e.sequence <= setup.maxClientSeq
    BY <1>4, <1>12
  <1> QED BY <1>1, <1>2, <1>12, <1>13, <1>15, <1>16, <1>17, AloneClientStep DEF n, old

-----------------------------------------------------------------------------
(* What is raised from then on is told, and nothing is forgotten. *)
LEMMA RaisedIsTold ==
  ASSUME SessionInv, NEW pkt \in net, NEW log, NEW more, log.ghost => more.ghost,
         log.raised = raised, more.raised = raised \o Texts(pkt.body)
  PROVE  /\ \A text : Told(log, text) => Told(more, text)
         /\ \A d \in pkt.body.data : Told(more, d.payload)
  <1> DEFINE new == Texts(pkt.body)
             old == raised
             both == old \o new
  <1>1. /\ new \in Seq(AllTexts) /\ old \in Seq(AllTexts)
        /\ \A d \in pkt.body.data : \E j \in DOMAIN new : new[j] = d.payload
    BY PacketFacts, TextsOfMessage DEF SessionInv, TypeOK
  <1> HIDE DEF new, old
  <1>2. /\ \A j \in DOMAIN old : j \in DOMAIN both /\ both[j] = old[j]
        /\ \A j \in DOMAIN new : Len(old) + j \in DOMAIN both /\ both[Len(old) + j] = new[j]
    <2>1. /\ Len(old) \in Nat /\ Len(new) \in Nat
          /\ DOMAIN old = 1 .. Len(old) /\ DOMAIN new = 1 .. Len(new)
      BY <1>1
    <2>2. /\ both \in Seq(AllTexts) /\ Len(both) = Len(old) + Len(new)
          /\ \A i \in 1 .. Len(both) : both[i] = IF i <= Len(old) THEN old[i]
                                                 ELSE new[i - Len(old)]
      BY <1>1, ConcatProperties
    <2>3. DOMAIN both = 1 .. Len(both)
      BY <2>2
    <2> HIDE DEF both
    <2>4. ASSUME NEW j \in DOMAIN old PROVE j \in DOMAIN both /\ both[j] = old[j]
      <3>1. j \in 1 .. Len(both) /\ j <= Len(old)
        BY <2>1, <2>2
      <3> QED BY <2>2, <2>3, <3>1
    <2>5. ASSUME NEW j \in DOMAIN new
          PROVE  Len(old) + j \in DOMAIN both /\ both[Len(old) + j] = new[j]
      <3> DEFINE i == Len(old) + j
      <3>1. i \in 1 .. Len(both) /\ ~(i <= Len(old)) /\ i - Len(old) = j
        BY <2>1, <2>2
      <3> HIDE DEF i
      <3>2. both[i] = new[i - Len(old)]
        BY <2>2, <3>1
      <3>3. i \in DOMAIN both /\ both[i] = new[j]
        BY <2>3, <3>1, <3>2
      <3> QED BY <3>3 DEF i
    <2> QED BY <2>4, <2>5
  <1>3. log.raised = old /\ more.raised = both
    BY DEF old, new
  <1> HIDE DEF both
  <1>4. \A text : Told(log, text) => Told(more, text)
    BY <1>2, <1>3 DEF Told
  <1>5. \A d \in pkt.body.data : Told(more, d.payload)
    BY <1>1, <1>2, <1>3 DEF Told
  <1> QED BY <1>4, <1>5

(* A ghost that was found stays found: no message has its number, and no   *)
(* other number of the client's has its slot.                              *)
LEMMA GhostStays ==
  ASSUME NoOverwriting, SessionInv, NEW c \in Clients, AloneWith(c), NEW pkt \in net,
         pkt.to = Server, FindsGhost(serverUdp, clientUdp[c])
  PROVE  FindsGhost(AfterMarkReceived(serverUdp, pkt.body), clientUdp[c])
  <1> DEFINE e == serverUdp
             m == pkt.body
             peer == clientUdp[c]
             old == e.ReceiveBuffer
  <1>1. /\ e \in Endpoints(AllTexts) /\ m \in Messages(AllTexts)
        /\ peer.sequence \in Nat /\ old \in Buffers(AllTexts)
    BY EndpointTypes, EndpointFacts, PacketFacts
  <1>2. pkt.from # Server
    BY PacketFacts, ServerIsNoClient DEF FromClient
  <1>3. SaidBy(m, peer) /\ peer.sequence <= setup.maxClientSeq
    BY <1>2 DEF AloneWith
  <1>4. 1 .. peer.sequence \subseteq 1 .. BufferSize
    <2>1. setup.maxClientSeq \in Nat /\ setup.maxClientSeq <= BufferSize
      BY SetupBounds DEF NoOverwriting, SessionInv, TypeOK
    <2> HIDE DEF peer
    <2> QED BY <1>1, <1>3, <2>1, BufferSizeAssumption
  <1>5. PICK s \in 1 .. peer.sequence : /\ Holds(peer.SendBuffer, s) /\ TextAt(peer, s) = AckText
                                        /\ Holds(old, s)
    BY DEF FindsGhost
  <1>6. AfterMarkReceived(e, m).ReceiveBuffer = Store(old, m)
    BY <1>1, AfterMarkReceivedType
  <1> HIDE DEF e, m, peer, old
  <1>7. GetSequenceIndex(s) \in Slots
    BY <1>1, IndexInSlots
  <1>8. \A d \in m.data : GetSequenceIndex(d.Sequence) # GetSequenceIndex(s)
    <2>1. ASSUME NEW d \in m.data PROVE d.Sequence \in 1 .. peer.sequence /\ d.Sequence # s
      <3>1. m.Sequence \in 1 .. peer.sequence /\ d.Sequence \in 1 .. m.Sequence
        BY <1>3 DEF SaidBy
      <3>2. d.payload = TextAt(peer, d.Sequence) /\ d.payload # AckText
        BY <1>3 DEF SaidBy
      <3> QED BY <1>1, <1>5, <3>1, <3>2
    <2> QED BY <1>4, <2>1, SlotsDiffer
  <1>9. Store(old, m)[GetSequenceIndex(s)] = old[GetSequenceIndex(s)]
    BY <1>7, <1>8 DEF Store
  <1>10. Holds(Store(old, m), s)
    BY <1>5, <1>9 DEF Holds
  <1> QED BY <1>5, <1>6, <1>10 DEF FindsGhost, e, m, peer

(* The server hears only the one client, which says what it keeps. *)
LEMMA AloneHeard ==
  ASSUME SessionInv, NEW c \in Clients, AloneWith(c), NEW pkt \in net, pkt.to = Server,
         NEW more, \A text : Told(LogOf(c), text) => Told(more, text),
         pkt.body.messageType # "Ack" => \A d \in pkt.body.data : Told(more, d.payload)
  PROVE  HeardOf(AfterMarkReceived(serverUdp, pkt.body), clientUdp[c], more)
  <1> DEFINE e == serverUdp
             m == pkt.body
             peer == clientUdp[c]
             log == LogOf(c)
  <1>1. /\ e \in Endpoints(AllTexts) /\ m \in Messages(AllTexts) /\ WellNumbered(m)
        /\ peer.sequence \in Nat
    BY EndpointTypes, PacketFacts
  <1>2. pkt.from # Server
    BY PacketFacts, ServerIsNoClient DEF FromClient
  <1>3. HeardOf(e, peer, log) /\ SaidBy(m, peer)
    BY <1>2 DEF AloneWith
  <1>4. /\ m.messageType # "Ack" => \A d \in m.data : Told(more, d.payload)
        /\ \A text : Told(log, text) => Told(more, text)
    OBVIOUS
  <1> HIDE DEF e, m, peer, log
  <1>5. HeardOf(AfterMarkReceived(e, m), peer, more)
    BY <1>1, <1>3, <1>4, HeardMore
  <1> QED BY <1>5 DEF e, m, peer

LEMMA SentIsHeardOf ==
  ASSUME NEW T, NEW e \in Endpoints(T), NEW d \in Datums(T), NEW peer, NEW log,
         HeardOf(e, peer, log)
  PROVE  HeardOf(AfterMarkSent(e, d), peer, log)
  <1> DEFINE f == AfterMarkSent(e, d)
  <1>1. f.lastAcked = e.lastAcked /\ f.ReceiveBuffer = e.ReceiveBuffer
    BY AfterMarkSentType
  <1> HIDE DEF f
  <1>2. HeardOf(f, peer, log)
    BY <1>1 DEF HeardOf
  <1> QED BY <1>2 DEF f

LEMMA AloneServerCrash ==
  ASSUME NEW c \in Clients, AloneWith(c), NEW pkt \in net, ServerCrash(pkt)
  PROVE  AloneWith(c)'
  <1>1. /\ setup' = setup /\ clientUdp' = clientUdp /\ serverUdp' = serverUdp /\ raised' = raised
        /\ net' \subseteq net
    BY AfterIsLess DEF ServerCrash, clientVars
  <1> QED BY <1>1 DEF AloneWith, LogOf, FindsGhost, TextAt

(* The log after a step of the server's that hears a message.              *)
LEMMA LogAfter ==
  ASSUME NEW c \in Clients, NEW e, clientUdp' = clientUdp,
         serverUdp'.ReceiveBuffer = e.ReceiveBuffer
  PROVE  /\ LogOf(c)'.raised = raised' /\ LogOf(c).raised = raised
         /\ LogOf(c).ghost = FindsGhost(serverUdp, clientUdp[c])
         /\ LogOf(c)'.ghost = FindsGhost(e, clientUdp[c])
  BY DEF LogOf, FindsGhost, TextAt

LEMMA AloneServerReceiveAck ==
  ASSUME NoOverwriting, SessionInv, NEW c \in Clients, AloneWith(c), NEW pkt \in net,
         ServerReceiveAck(pkt)
  PROVE  AloneWith(c)'
  <1> DEFINE more == LogOf(c)'
             heard == AfterMarkReceived(serverUdp, pkt.body)
             log == LogOf(c)
  <1>1. /\ setup' = setup /\ clientUdp' = clientUdp /\ raised' = raised /\ serverUdp' = heard
        /\ net' \subseteq net /\ pkt.to = Server /\ pkt.body.messageType = "Ack"
    BY AfterIsLess DEF ServerReceiveAck, ServerOpens, clientVars
  <1>2. more.raised = raised /\ log.raised = raised /\ (log.ghost => more.ghost)
    <2> HIDE DEF heard
    <2>1. /\ more.raised = raised /\ log.raised = raised
          /\ log.ghost = FindsGhost(serverUdp, clientUdp[c])
          /\ more.ghost = FindsGhost(heard, clientUdp[c])
      BY <1>1, LogAfter
    <2>2. FindsGhost(serverUdp, clientUdp[c]) => FindsGhost(heard, clientUdp[c])
      BY <1>1, GhostStays DEF heard
    <2> HIDE DEF more, log
    <2> QED BY <2>1, <2>2
  <1> HIDE DEF more
  <1>3. \A text : Told(LogOf(c), text) => Told(more, text)
    <2> SUFFICES ASSUME NEW text, Told(log, text) PROVE Told(more, text)
      OBVIOUS
    <2> HIDE DEF log
    <2>1. log.raised = more.raised /\ (log.ghost => more.ghost)
      BY <1>2
    <2>2. CASE text[1] # "data"
      BY <2>2 DEF Told
    <2>3. CASE log.ghost
      BY <2>1, <2>3 DEF Told
    <2>4. CASE \E j \in DOMAIN log.raised : log.raised[j] = text
      BY <2>1, <2>4 DEF Told
    <2> QED BY <2>2, <2>3, <2>4 DEF Told
  <1>4. HeardOf(heard, clientUdp[c], more)
    BY <1>1, <1>3, AloneHeard
  <1>5. more = LogOf(c)'
    BY DEF more
  <1> HIDE DEF heard
  <1> QED BY <1>1, <1>3, <1>4, <1>5, AloneServerStep

(* The acknowledgement, and with a key the server's own. *)
LEMMA AloneServerAnswers ==
  ASSUME NoWraparound, SessionInv, NEW c \in Clients, AloneWith(c),
         NEW e \in Endpoints(ServerTexts), NEW more, HeardOf(e, clientUdp[c], more),
         FindsGhost(e, clientUdp[c]) => more.ghost,
         NEW dat \in Datums(ServerTexts), NEW type \in {"SendPubKey", "Ack"}
  PROVE  /\ NamesTold(MessageOf(e, dat, type), clientUdp[c], more)
         /\ HeardOf(AfterMarkSent(e, dat), clientUdp[c], more)
         /\ FindsGhost(AfterMarkSent(e, dat), clientUdp[c]) => more.ghost
         /\ AfterMarkSent(e, dat) \in Endpoints(ServerTexts)
         /\ AfterMarkSent(e, dat).ReceiveBuffer = e.ReceiveBuffer
  <1> DEFINE peer == clientUdp[c]
  <1>1. peer.sequence \in Nat /\ peer.sequence < SeqModulus
    <2>1. /\ peer.sequence \in Nat /\ setup.maxClientSeq \in Nat
          /\ peer.sequence <= setup.maxClientSeq /\ setup.maxClientSeq < SeqModulus
      BY ClientFacts, SetupBounds DEF AloneWith, NoWraparound
    <2> QED BY <2>1, SeqModulusAssumption
  <1>2. HeardOf(e, peer, more)
    OBVIOUS
  <1>6. \A g \in 1 .. peer.sequence :
           TextAt(peer, g) = AckText /\ Holds(e.ReceiveBuffer, g) => more.ghost
    <2>1. AllHeld(peer)
      BY DEF AloneWith, Spoken
    <2> QED BY <2>1 DEF AllHeld, FindsGhost
  <1>7. AfterMarkSent(e, dat).ReceiveBuffer = e.ReceiveBuffer
    BY AfterMarkSentType
  <1>8. FindsGhost(AfterMarkSent(e, dat), clientUdp[c]) => more.ghost
    BY <1>7 DEF FindsGhost
  <1> HIDE DEF peer
  <1>3. NamesTold(MessageOf(e, dat, type), peer, more)
    <2>1. type \in {"SendPubKey", "General", "Ack"}
      OBVIOUS
    <2> QED BY <1>1, <1>2, <1>6, <2>1, NamesWhatWasTold
  <1>4. HeardOf(AfterMarkSent(e, dat), peer, more)
    BY <1>2, SentIsHeardOf
  <1>5. AfterMarkSent(e, dat) \in Endpoints(ServerTexts)
    BY AfterMarkSentType
  <1> QED BY <1>3, <1>4, <1>5, <1>7, <1>8 DEF peer

(* What the server hears and raises, with the log it leaves.               *)
LEMMA AloneRaises ==
  ASSUME NoOverwriting, SessionInv, NEW c \in Clients, AloneWith(c), NEW m \in net,
         m.to = Server, clientUdp' = clientUdp, raised' = raised \o Texts(m.body),
         serverUdp'.ReceiveBuffer = AfterMarkReceived(serverUdp, m.body).ReceiveBuffer
  PROVE  LET heard == AfterMarkReceived(serverUdp, m.body) IN
         /\ heard \in Endpoints(ServerTexts)
         /\ \A text : Told(LogOf(c), text) => Told(LogOf(c)', text)
         /\ HeardOf(heard, clientUdp[c], LogOf(c)')
         /\ FindsGhost(heard, clientUdp[c]) => LogOf(c)'.ghost
  <1> DEFINE more == LogOf(c)'
             heard == AfterMarkReceived(serverUdp, m.body)
             log == LogOf(c)
  <1>1. heard \in Endpoints(ServerTexts)
    BY ServerHears
  <1>2. FindsGhost(serverUdp, clientUdp[c]) => FindsGhost(heard, clientUdp[c])
    BY GhostStays
  <1> HIDE DEF heard
  <1>3. /\ more.raised = raised \o Texts(m.body) /\ log.raised = raised
        /\ log.ghost = FindsGhost(serverUdp, clientUdp[c])
        /\ more.ghost = FindsGhost(heard, clientUdp[c])
    <2>1. serverUdp'.ReceiveBuffer = heard.ReceiveBuffer
      BY DEF heard
    <2> QED BY <2>1, LogAfter
  <1> HIDE DEF more, log
  <1>4. log.ghost => more.ghost
    BY <1>2, <1>3
  <1>5. /\ \A text : Told(log, text) => Told(more, text)
        /\ \A d \in m.body.data : Told(more, d.payload)
    BY <1>3, <1>4, RaisedIsTold
  <1>6. HeardOf(heard, clientUdp[c], more)
    <2>1. \A text : Told(LogOf(c), text) => Told(more, text)
      BY <1>5 DEF log
    <2> QED BY <1>5, <2>1, AloneHeard DEF heard
  <1> QED BY <1>1, <1>3, <1>5, <1>6 DEF more, log, heard

LEMMA AloneServerReceiveData ==
  ASSUME NoWraparound, NoOverwriting, SessionInv, NEW c \in Clients, AloneWith(c),
         NEW m \in net, ServerReceiveData(m)
  PROVE  AloneWith(c)'
  <1> DEFINE dat == Datum(AckText, FALSE)
             heard == AfterMarkReceived(serverUdp, m.body)
             msg == MessageOf(heard, dat, "Ack")
             pkt == Packet(Server, m.from, serverKeys, msg)
             more == LogOf(c)'
  <1>1. /\ setup' = setup /\ clientUdp' = clientUdp /\ m.to = Server
        /\ raised' = raised \o Texts(m.body)
    BY DEF ServerReceiveData, ServerOpens, clientVars
  <1>2. serverUdp' = AfterMarkSent(heard, dat) /\ net' = After(m) \cup {pkt}
    BY DEF ServerReceiveData, ServerAck
  <1>3. dat \in Datums(ServerTexts)
    BY DatumType DEF ServerTexts
  <1>4. pkt.from = Server /\ pkt.body = msg
    <2> HIDE DEF msg
    <2> QED BY DEF Packet
  <1> HIDE DEF dat
  <1>5. serverUdp'.ReceiveBuffer = heard.ReceiveBuffer
    <2>1. heard \in Endpoints(ServerTexts)
      BY ServerHears
    <2> HIDE DEF heard
    <2> QED BY <1>2, <1>3, <2>1, AfterMarkSentType
  <1>6. /\ heard \in Endpoints(ServerTexts)
        /\ \A text : Told(LogOf(c), text) => Told(more, text)
        /\ HeardOf(heard, clientUdp[c], more)
        /\ FindsGhost(heard, clientUdp[c]) => more.ghost
    BY <1>1, <1>5, AloneRaises
  <1> HIDE DEF heard, more
  <1>7. NamesTold(msg, clientUdp[c], more) /\ HeardOf(AfterMarkSent(heard, dat), clientUdp[c], more)
    BY <1>3, <1>6, AloneServerAnswers
  <1> HIDE DEF msg, pkt
  <1>8. \A p \in net' : p \in net \/ (p.from = Server /\ NamesTold(p.body, clientUdp[c], more))
    BY <1>2, <1>4, <1>7, AfterIsLess
  <1>9. more = LogOf(c)' /\ HeardOf(serverUdp', clientUdp[c], more)
    BY <1>2, <1>7 DEF more
  <1> QED BY <1>1, <1>6, <1>8, <1>9, AloneServerStep

LEMMA AloneServerReceiveKey ==
  ASSUME NoWraparound, NoOverwriting, SessionInv, NEW c \in Clients, AloneWith(c),
         NEW m \in net, ServerReceiveKey(m)
  PROVE  AloneWith(c)'
  <1> DEFINE dat == Datum(AckText, FALSE)
             key == Datum(KeyText(NewKeyPair), FALSE)
             heard == AfterMarkReceived(serverUdp, m.body)
             acked == AfterMarkSent(heard, dat)
             msg == MessageOf(heard, dat, "Ack")
             text == MessageOf(acked, key, "SendPubKey")
             ack == Packet(Server, m.from, serverKeys, msg)
             reply == Packet(Server, m.from, serverKeys, text)
             more == LogOf(c)'
  <1>1. /\ setup' = setup /\ clientUdp' = clientUdp /\ m.to = Server
        /\ raised' = raised \o Texts(m.body)
    BY DEF ServerReceiveKey, ServerOpens, clientVars
  <1>2. serverUdp' = AfterMarkSent(acked, key) /\ net' = After(m) \cup {ack, reply}
    BY DEF ServerReceiveKey, ServerAck
  <1>3. dat \in Datums(ServerTexts) /\ key \in Datums(ServerTexts)
    <2>1. NewKeyPair \in Nat
      BY DEF NewKeyPair, SessionInv, TypeOK
    <2>2. AckText \in ServerTexts /\ KeyText(NewKeyPair) \in ServerTexts
      BY <2>1 DEF ServerTexts, KeyText
    <2> QED BY <2>2, DatumType
  <1>4. ack.from = Server /\ ack.body = msg /\ reply.from = Server /\ reply.body = text
    <2> HIDE DEF msg, text
    <2> QED BY DEF Packet
  <1> HIDE DEF dat, key
  <1>5. serverUdp'.ReceiveBuffer = heard.ReceiveBuffer
    <2>1. heard \in Endpoints(ServerTexts)
      BY ServerHears
    <2> HIDE DEF heard
    <2>2. acked.ReceiveBuffer = heard.ReceiveBuffer /\ acked \in Endpoints(ServerTexts)
      BY <1>3, <2>1, AfterMarkSentType
    <2> HIDE DEF acked
    <2> QED BY <1>2, <1>3, <2>2, AfterMarkSentType
  <1>6. /\ heard \in Endpoints(ServerTexts)
        /\ \A t : Told(LogOf(c), t) => Told(more, t)
        /\ HeardOf(heard, clientUdp[c], more)
        /\ FindsGhost(heard, clientUdp[c]) => more.ghost
    BY <1>1, <1>5, AloneRaises
  <1> HIDE DEF heard, more
  <1>7. /\ NamesTold(msg, clientUdp[c], more) /\ HeardOf(acked, clientUdp[c], more)
        /\ FindsGhost(acked, clientUdp[c]) => more.ghost
        /\ acked \in Endpoints(ServerTexts)
    BY <1>3, <1>6, AloneServerAnswers
  <1> HIDE DEF acked
  <1>8. NamesTold(text, clientUdp[c], more) /\ HeardOf(AfterMarkSent(acked, key), clientUdp[c], more)
    BY <1>3, <1>7, AloneServerAnswers
  <1> HIDE DEF msg, text, ack, reply
  <1>9. \A p \in net' : p \in net \/ (p.from = Server /\ NamesTold(p.body, clientUdp[c], more))
    BY <1>2, <1>4, <1>7, <1>8, AfterIsLess
  <1>10. more = LogOf(c)' /\ HeardOf(serverUdp', clientUdp[c], more)
    BY <1>2, <1>8 DEF more
  <1> QED BY <1>1, <1>6, <1>9, <1>10, AloneServerStep

-----------------------------------------------------------------------------
LEMMA AloneInit == Init => AloneInv
  <1> SUFFICES ASSUME Init PROVE AloneInv
    OBVIOUS
  <1>1. \A c \in Clients : clientKeys[c] = NoKeys
    BY DEF Init
  <1>2. \A s, r \in FreshBuffers : /\ \A i \in Slots : /\ s[i].datum = DefaultDatum
                                                       /\ r[i].datum = DefaultDatum
                                                       /\ r[i].tag \in {Unset} \cup Garbage
                                   /\ FreshEndpoint(s, r).sequence = 0
                                   /\ FreshEndpoint(s, r).lastAcked = 0
                                   /\ FreshEndpoint(s, r).SendBuffer = s
                                   /\ FreshEndpoint(s, r).ReceiveBuffer = r
    BY DEF FreshBuffers, FreshEndpoint
  <1>3. ~DefaultDatum.IsAcked /\ DefaultDatum.payload[1] # "data"
    BY NoTextAssumption, KindsOfText DEF DefaultDatum
  <1>4. ASSUME NEW c \in Clients PROVE AloneWith(c)
    <2>1. PICK s \in FreshBuffers, r \in FreshBuffers : clientUdp[c] = FreshEndpoint(s, r)
      BY InitialMemory
    <2>2. PICK t \in FreshBuffers, q \in FreshBuffers : serverUdp = FreshEndpoint(t, q)
      BY InitialMemory
    <2>3. setup.maxClientSeq \in Nat
      BY SetupBounds DEF Init
    <2>4. clientUdp[c].sequence <= setup.maxClientSeq
      BY <1>2, <2>1, <2>3
    <2>5. Spoken(clientUdp[c], LogOf(c))
      BY <1>2, <1>3, <2>1 DEF Spoken, AllHeld
    <2>6. HeardOf(serverUdp, clientUdp[c], LogOf(c))
      BY <1>2, <1>3, <2>1, <2>2 DEF HeardOf
    <2>7. net = {}
      BY DEF Init
    <2> QED BY <2>4, <2>5, <2>6, <2>7 DEF AloneWith
  <1> QED BY <1>1, <1>4 DEF AloneInv

LEMMA AloneNext ==
  ASSUME NoWraparound, NoOverwriting
  PROVE  SessionInv /\ AloneInv /\ [Next]_vars => AloneInv'
  <1> SUFFICES ASSUME SessionInv, AloneInv, [Next]_vars PROVE AloneInv'
    OBVIOUS
  <1>1. setup' = setup
    BY DEF Next, vars, Connect, SendKeyInstead, SendData, ClientCrash, ClientReceiveAck,
           ClientReceiveKey, ServerCrash, ServerReceiveAck, ServerReceiveData, ServerReceiveKey
  <1>2. ASSUME NEW x \in Clients \ setup.clients PROVE clientKeys'[x] = NoKeys
    <2>1. clientKeys[x] = NoKeys
      BY DEF AloneInv
    <2>2. CASE clientKeys' = clientKeys
      BY <2>1, <2>2
    <2>3. ASSUME NEW c \in setup.clients, NEW pkt \in net, ClientReceiveKey(c, pkt)
          PROVE  clientKeys'[x] = clientKeys[x]
      <3>1. clientKeys' = [clientKeys EXCEPT ![c] = ClientDerives(c, FirstText(pkt.body)[2])] /\ x # c
        BY <2>3 DEF ClientReceiveKey
      <3> QED BY <3>1
    <2>4. clientKeys' = clientKeys \/ \E c \in setup.clients, pkt \in net : ClientReceiveKey(c, pkt)
      BY DEF Next, vars, clientVars, Connect, SendKeyInstead, SendData, ClientCrash,
             ClientReceiveAck, ServerCrash, ServerReceiveAck, ServerReceiveData, ServerReceiveKey
    <2> QED BY <2>1, <2>2, <2>3, <2>4
  <1>3. ASSUME NEW c \in Clients, setup.clients = {c} PROVE AloneWith(c)'
    <2>1. AloneWith(c)
      BY <1>3 DEF AloneInv
    <2>2. CASE Connect(c) \/ SendKeyInstead(c)
      BY <2>1, <2>2, AloneConnect
    <2>3. CASE SendData(c)
      BY <2>1, <2>3, AloneSendData
    <2>4. ASSUME NEW pkt \in net,
                 ClientCrash(c, pkt) \/ ClientReceiveAck(c, pkt) \/ ClientReceiveKey(c, pkt)
          PROVE  AloneWith(c)'
      BY <2>1, <2>4, AloneClientCrash, AloneClientReceiveAck, AloneClientReceiveKey
    <2>5. ASSUME NEW pkt \in net, \/ ServerCrash(pkt) \/ ServerReceiveAck(pkt)
                                  \/ ServerReceiveData(pkt) \/ ServerReceiveKey(pkt)
          PROVE  AloneWith(c)'
      BY <2>1, <2>5, AloneServerCrash, AloneServerReceiveAck, AloneServerReceiveData,
         AloneServerReceiveKey
    <2>6. CASE UNCHANGED vars
      BY <2>1, <2>6 DEF vars, clientVars, serverVars, AloneWith, LogOf, FindsGhost, TextAt
    <2> QED BY <1>3, <2>2, <2>3, <2>4, <2>5, <2>6 DEF Next
  <1> QED BY <1>1, <1>2, <1>3 DEF AloneInv

(* Of a client that does not play there is nothing but its fresh object.   *)
LEMMA AloneIsRaised ==
  ASSUME IsFiniteSet(Clients)
  PROVE  SessionInv /\ AloneInv => AloneAckedDataWasRaised
  <1> SUFFICES ASSUME SessionInv, AloneInv, Cardinality(setup.clients) = 1,
                      \A c \in setup.clients : ~FindsGhost(serverUdp, clientUdp[c]),
                      NEW x \in Clients, NEW i \in Slots, NEW n \in 1 .. setup.maxClientSeq,
                      clientUdp[x].SendBuffer[i].datum.IsAcked,
                      clientUdp[x].SendBuffer[i].datum.payload = DataText(x, n)
               PROVE  \E j \in DOMAIN raised : raised[j] = DataText(x, n)
    BY DEF AloneAckedDataWasRaised, AckedDataWasRaised
  <1> DEFINE text == clientUdp[x].SendBuffer[i].datum.payload
  <1>1. PICK c : setup.clients = {c}
    <2>1. IsFiniteSet(setup.clients)
      BY SetupBounds, FS_Subset DEF SessionInv, TypeOK
    <2> QED BY <2>1, FS_Singleton
  <1>2. c \in Clients
    BY <1>1, SetupBounds DEF SessionInv, TypeOK
  <1>3. text = DataText(x, n) /\ text[1] = "data"
    BY KindsOfText
  <1>4. CASE x = c
    <2>1. Told(LogOf(c), text)
      BY <1>1, <1>2, <1>4 DEF AloneInv, AloneWith, Spoken
    <2>2. ~FindsGhost(serverUdp, clientUdp[c])
      BY <1>1
    <2> QED BY <1>3, <2>1, <2>2 DEF Told, LogOf
  <1>5. CASE x # c
    <2>1. clientKeys[x] = NoKeys
      BY <1>1, <1>5 DEF AloneInv
    <2>2. clientUdp[x] \in Endpoints(PlainTexts(x))
      BY <2>1 DEF SessionInv, OwnTexts
    <2>3. text \in PlainTexts(x)
      BY <2>2 DEF Endpoints, Buffers, Datums
    <2> QED BY <1>3, <2>3, KindsOfText DEF PlainTexts
  <1> QED BY <1>4, <1>5

(* While one client plays, whatever its buffer holds as acknowledged, and  *)
(* so will never send again, was raised as an event at the server: lost,   *)
(* repeated and reordered messages, and the data the client bundles with   *)
(* its acknowledgement, which the server stores and does not raise, never  *)
(* make the client take for delivered what was not.  What the memory of    *)
(* the new rings holds does not matter either, unless the server finds the *)
(* number of a ghost there.                                                *)
THEOREM AloneNothingIsLost ==
  ASSUME NoWraparound, NoOverwriting, IsFiniteSet(Clients)
  PROVE  Spec => []AloneAckedDataWasRaised
  <1>1. Init => SessionInv /\ AloneInv
    BY SessionInit, AloneInit
  <1>2. SessionInv /\ AloneInv /\ [Next]_vars => (SessionInv /\ AloneInv)'
    BY SessionNext, AloneNext
  <1>3. SessionInv /\ AloneInv => AloneAckedDataWasRaised
    BY AloneIsRaised
  <1> QED BY <1>1, <1>2, <1>3, PTL DEF Spec
=============================================================================
