---------------------------- MODULE NetworkProofs ----------------------------
(***************************************************************************)
(* Machine-checked theorems about the network.                             *)
(*                                                                         *)
(* GameServers: who plays and what they hear, for any number of clients    *)
(* and whatever the network does; records are whole for every buffer and   *)
(* every length; and at most one client of a Unix path has a socket,       *)
(* however many connect.                                                   *)
(* Wire: whatever is packed is read back, for all values in any order that *)
(* the buffer is large enough for, and a message is accepted if, and only  *)
(* if, it is what was sent.                                                *)
(***************************************************************************)
EXTENDS GameServers, Wire, ListLemmas, SequenceTheorems, FiniteSetTheorems, TLAPS

-----------------------------------------------------------------------------
(* The Unix sockets.                                                       *)

LEMMA LocalInitially == LocalInit => LocalInv
  <1> SUFFICES ASSUME LocalInit PROVE LocalInv
    OBVIOUS
  <1>1. /\ path = LocalServer /\ bound = {} /\ valid = {} /\ tried = {} /\ alive = Peers
        /\ answered = {} /\ greetings = 0
        /\ peer = [c \in LocalClients |-> Nobody] /\ inbox = [p \in Peers |-> <<>>]
    BY DEF LocalInit
  <1>2. LocalServer \in Peers
    BY DEF Peers
  <1>3. inbox \in [Peers -> Seq(Peers)] /\ inbox[LocalServer] = <<>>
    BY <1>1, <1>2
  <1>4. LocalTypeOK
    BY <1>1, <1>2, <1>3, LocalAssumption DEF LocalTypeOK
  <1>5. SpeaksToServer /\ ExitsForTheGone
    BY <1>1, <1>2 DEF SpeaksToServer, ExitsForTheGone
  <1>6. DOMAIN inbox[LocalServer] = {}
    BY <1>3
  <1> QED BY <1>1, <1>4, <1>5, <1>6 DEF LocalInv, LocalOK

(* The kernel refuses whoever connects after the first.                    *)
LEMMA LocalConnects ==
  ASSUME LocalInv, NEW c \in LocalClients, LocalConnect(c)
  PROVE  LocalInv'
  <1>1. /\ c \in alive \ tried /\ tried' = tried \cup {c} /\ alive' = alive
        /\ inbox' = inbox /\ greetings' = greetings /\ answered' = answered
    BY DEF LocalConnect
  <1>2. /\ bound = valid /\ bound \subseteq valid /\ valid \subseteq tried
        /\ tried \subseteq LocalClients /\ peer \in [LocalClients -> Peers \cup {Nobody}]
        /\ \A x \in valid : peer[x] = LocalServer
    BY DEF LocalInv, LocalOK, LocalTypeOK, SpeaksToServer
  <1>3. CASE Accepts(path)
    <2>1. /\ peer' = [peer EXCEPT ![c] = path] /\ valid' = valid \cup {c}
          /\ path' = c /\ bound' = bound \cup {c}
      BY <1>3 DEF LocalConnect, ConnectThenBind, ConnectTo, Bind
    <2>2. valid = {} /\ path = LocalServer
      <3>1. ASSUME valid # {} PROVE FALSE
        <4>1. path \in valid /\ path \in LocalClients
          BY <1>2, <3>1 DEF LocalInv
        <4>2. peer[path] = LocalServer
          BY <1>2, <4>1
        <4> QED BY <1>3, <4>1, <4>2, LocalAssumption DEF Accepts
      <3> QED BY <3>1 DEF LocalInv
    <2>3. /\ valid' = {c} /\ bound' = {c} /\ peer'[c] = LocalServer
      BY <1>2, <2>1, <2>2
    <2>4. LocalServer \in Peers /\ c \in Peers
      BY DEF Peers
    <2>5. peer' \in [LocalClients -> Peers \cup {Nobody}]
      BY <1>2, <2>1, <2>2, <2>4
    <2>6. LocalTypeOK'
      BY <1>1, <1>2, <2>1, <2>3, <2>4, <2>5 DEF LocalInv, LocalOK, LocalTypeOK
    <2>7. SpeaksToServer'
      BY <1>1, <2>3 DEF LocalInv, LocalOK, SpeaksToServer
    <2>8. ExitsForTheGone'
      BY <1>1, <2>2 DEF LocalInv, LocalOK, ExitsForTheGone
    <2>9. \A i \in DOMAIN inbox'[LocalServer] : inbox'[LocalServer][i] \in valid'
      BY <1>1, <2>2 DEF LocalInv
    <2> QED BY <2>1, <2>3, <2>6, <2>7, <2>8, <2>9 DEF LocalInv, LocalOK
  <1>4. CASE ~Accepts(path)
    <2>1. path' = path /\ peer' = peer /\ bound' = bound /\ valid' = valid
      BY <1>4 DEF LocalConnect, ConnectThenBind
    <2>2. LocalTypeOK'
      BY <1>1, <1>2, <2>1 DEF LocalInv, LocalOK, LocalTypeOK
    <2> QED BY <1>1, <2>1, <2>2 DEF LocalInv, LocalOK, SpeaksToServer, ExitsForTheGone
  <1> QED BY <1>3, <1>4

LEMMA LocalSends ==
  ASSUME LocalInv, NEW c \in LocalClients, LocalSend(c)
  PROVE  LocalInv'
  <1>1. /\ c \in valid \cap alive /\ greetings < MaxGreetings /\ greetings' = greetings + 1
        /\ path' = path /\ peer' = peer /\ bound' = bound /\ valid' = valid
        /\ tried' = tried /\ alive' = alive /\ answered' = answered
    BY DEF LocalSend
  <1>2. peer[c] = LocalServer /\ LocalServer \in Peers /\ c \in Peers
    BY <1>1 DEF LocalInv, LocalOK, SpeaksToServer, Peers
  <1>3. inbox \in [Peers -> Seq(Peers)]
    BY DEF LocalInv, LocalOK, LocalTypeOK
  <1>4. /\ inbox' \in [Peers -> Seq(Peers)]
        /\ inbox'[LocalServer] \in {inbox[LocalServer], Append(inbox[LocalServer], c)}
    <2>1. inbox' = inbox \/ inbox' = [inbox EXCEPT ![LocalServer] = Append(inbox[LocalServer], c)]
      BY <1>2 DEF LocalSend
    <2>2. CASE inbox' = inbox
      BY <1>3, <2>2
    <2>3. CASE inbox' = [inbox EXCEPT ![LocalServer] = Append(inbox[LocalServer], c)]
      <3> DEFINE box == Append(inbox[LocalServer], c)
      <3>1. box \in Seq(Peers)
        BY <1>2, <1>3
      <3> HIDE DEF box
      <3>2. inbox' = [inbox EXCEPT ![LocalServer] = box]
        BY <2>3 DEF box
      <3>3. inbox' \in [Peers -> Seq(Peers)] /\ inbox'[LocalServer] = box
        BY <1>2, <1>3, <3>1, <3>2
      <3> QED BY <3>3 DEF box
    <2> QED BY <2>1, <2>2, <2>3
  <1>5. \A i \in DOMAIN inbox'[LocalServer] : inbox'[LocalServer][i] \in valid'
    <2> DEFINE box == inbox[LocalServer]
    <2>1. box \in Seq(Peers) /\ \A i \in DOMAIN box : box[i] \in valid
      BY <1>2, <1>3 DEF LocalInv
    <2> HIDE DEF box
    <2>2. \A i \in DOMAIN Append(box, c) : Append(box, c)[i] \in valid
      BY <1>1, <1>2, <2>1
    <2> QED BY <1>1, <1>4, <2>1, <2>2 DEF box
  <1>6. greetings' \in 0 .. MaxGreetings
    BY <1>1, LocalAssumption DEF LocalInv, LocalOK, LocalTypeOK
  <1>7. LocalTypeOK'
    BY <1>1, <1>4, <1>6 DEF LocalInv, LocalOK, LocalTypeOK
  <1> QED BY <1>1, <1>5, <1>7 DEF LocalInv, LocalOK, SpeaksToServer, ExitsForTheGone

LEMMA LocalListens ==
  ASSUME LocalInv, LocalListen
  PROVE  LocalInv'
  <1> DEFINE box == inbox[LocalServer]
             from == Head(box)
  <1>1. /\ LocalServer \in alive /\ box # <<>>
        /\ path' = path /\ peer' = peer /\ bound' = bound /\ valid' = valid
        /\ tried' = tried /\ greetings' = greetings
    BY DEF LocalListen
  <1>2. /\ inbox \in [Peers -> Seq(Peers)] /\ LocalServer \in Peers /\ path \in Peers
        /\ box \in Seq(Peers)
    BY DEF LocalInv, LocalOK, LocalTypeOK, Peers
  <1>3. from \in valid /\ valid = {path} /\ path = from /\ path # LocalServer
    <2>1. 1 \in DOMAIN box /\ from = box[1]
      BY <1>1, <1>2
    <2>2. from \in valid /\ valid \subseteq LocalClients
      BY <2>1 DEF LocalInv, LocalOK, LocalTypeOK
    <2> HIDE DEF from
    <2> QED BY <2>2, LocalAssumption DEF LocalInv
  <1>4. CASE from \in bound /\ path \in alive
    <2>1. /\ inbox' = [inbox EXCEPT ![LocalServer] = Tail(box),
                                    ![path] = Append(inbox[path], LocalServer)]
          /\ answered' = answered \cup {<<from, path>>} /\ alive' = alive
      BY <1>2, <1>3, <1>4 DEF LocalListen
    <2>2. inbox' \in [Peers -> Seq(Peers)] /\ inbox'[LocalServer] = Tail(box)
      <3>1. Tail(box) \in Seq(Peers) /\ Append(inbox[path], LocalServer) \in Seq(Peers)
        BY <1>1, <1>2
      <3> HIDE DEF box, from
      <3> QED BY <1>2, <1>3, <2>1, <3>1
    <2>3. \A i \in DOMAIN Tail(box) : Tail(box)[i] \in valid
      <3>1. \A i \in DOMAIN box : box[i] \in valid
        BY DEF LocalInv
      <3> HIDE DEF box
      <3> QED BY <1>1, <1>2, <3>1
    <2>4. LocalTypeOK'
      BY <1>1, <2>1, <2>2 DEF LocalInv, LocalOK, LocalTypeOK
    <2>5. SpeaksToServer' /\ ExitsForTheGone'
      BY <1>1, <1>3, <2>1 DEF LocalInv, LocalOK, SpeaksToServer, ExitsForTheGone
    <2> QED BY <1>1, <2>2, <2>3, <2>4, <2>5 DEF LocalInv, LocalOK
  <1>5. CASE ~(from \in bound /\ path \in alive)
    <2>1. inbox' = inbox /\ answered' = answered /\ alive' = alive \ {LocalServer}
      BY <1>5 DEF LocalListen
    <2>2. path \in valid /\ path \notin alive
      BY <1>3, <1>5 DEF LocalInv
    <2>3. LocalTypeOK'
      BY <1>1, <2>1 DEF LocalInv, LocalOK, LocalTypeOK
    <2>4. SpeaksToServer' /\ ExitsForTheGone'
      BY <1>1, <2>1, <2>2 DEF LocalInv, LocalOK, SpeaksToServer, ExitsForTheGone
    <2> QED BY <1>1, <2>1, <2>3, <2>4 DEF LocalInv, LocalOK
  <1> QED BY <1>4, <1>5

LEMMA LocalReceives ==
  ASSUME LocalInv, NEW c \in LocalClients, LocalReceive(c)
  PROVE  LocalInv'
  <1>1. /\ inbox[c] # <<>> /\ inbox' = [inbox EXCEPT ![c] = Tail(inbox[c])]
        /\ path' = path /\ peer' = peer /\ bound' = bound /\ valid' = valid /\ tried' = tried
        /\ alive' = alive /\ greetings' = greetings /\ answered' = answered
    BY DEF LocalReceive
  <1>2. inbox \in [Peers -> Seq(Peers)] /\ c \in Peers /\ LocalServer \in Peers /\ c # LocalServer
    BY LocalAssumption DEF LocalInv, LocalOK, LocalTypeOK, Peers
  <1>3. Tail(inbox[c]) \in Seq(Peers)
    BY <1>1, <1>2
  <1>4. inbox' \in [Peers -> Seq(Peers)] /\ inbox'[LocalServer] = inbox[LocalServer]
    BY <1>1, <1>2, <1>3
  <1>5. LocalTypeOK'
    BY <1>1, <1>4 DEF LocalInv, LocalOK, LocalTypeOK
  <1> QED BY <1>1, <1>4, <1>5 DEF LocalInv, LocalOK, SpeaksToServer, ExitsForTheGone

LEMMA LocalLeaves ==
  ASSUME LocalInv, NEW c \in LocalClients, LocalLeave(c)
  PROVE  LocalInv'
  <1>1. /\ alive' = alive \ {c} /\ path' = path /\ peer' = peer /\ bound' = bound
        /\ valid' = valid /\ tried' = tried /\ inbox' = inbox /\ greetings' = greetings
        /\ answered' = answered
    BY DEF LocalLeave
  <1>2. c # LocalServer
    BY LocalAssumption
  <1>3. LocalTypeOK'
    BY <1>1 DEF LocalInv, LocalOK, LocalTypeOK
  <1> QED BY <1>1, <1>2, <1>3 DEF LocalInv, LocalOK, SpeaksToServer, ExitsForTheGone

LEMMA LocalStands == LocalInv /\ UNCHANGED localVars => LocalInv'
  BY DEF LocalInv, LocalOK, LocalTypeOK, SpeaksToServer, ExitsForTheGone, localVars

LEMMA LocalSteps == LocalInv /\ [Next]_vars => LocalInv'
  <1> SUFFICES ASSUME LocalInv, [Next]_vars PROVE LocalInv'
    OBVIOUS
  <1>1. CASE LocalNext
    BY <1>1, LocalConnects, LocalSends, LocalListens, LocalReceives, LocalLeaves DEF LocalNext
  <1>2. CASE UNCHANGED localVars
    BY <1>2, LocalStands
  <1> QED BY <1>1, <1>2 DEF Next, vars

(* Whoever has a socket on the path speaks to the server and is answered   *)
(* there, and the server ends for nothing but a client that has gone, for  *)
(* any number of clients and greetings (Networking.cpp:275-286,            *)
(* LocalSocketServerConnection.cpp:55-61).                                 *)
THEOREM OnePlaysOnThePath == Spec => []LocalOK
  <1>1. Init => LocalInv
    BY LocalInitially DEF Init
  <1>2. LocalInv => LocalOK
    BY DEF LocalInv
  <1> QED BY <1>1, <1>2, LocalSteps, PTL DEF Spec

-----------------------------------------------------------------------------
(* The records of a TCP connection.                                        *)

LEMMA RecordsShape ==
  ASSUME RecordsTypeOK
  PROVE  /\ Len(sent) \in Nat /\ DOMAIN sent = 1 .. Len(sent)
         /\ \A i \in 1 .. Len(sent) : sent[i] \in Lengths /\ sent[i] \in Nat /\ sent[i] > 0
         /\ Len(stream) \in Nat /\ Len(read) \in Nat /\ DOMAIN read = 1 .. Len(read)
         /\ reader.got \in Seq(Bytes) /\ Len(reader.got) \in Nat
         /\ reader.cnt \in Nat /\ reader.cnt <= Room /\ reader.reclen \in Nat
         /\ reader.len \in Nat /\ 1 <= reader.len /\ reader.len <= Room
         /\ Room \in Nat /\ 1 <= Room
  <1>1. /\ sent \in Seq(Lengths) /\ stream \in Seq(Bytes) /\ read \in Seq(Seq(Bytes))
        /\ reader.got \in Seq(Bytes) /\ reader.cnt \in 0 .. Room /\ reader.reclen \in Nat
        /\ reader.len \in 1 .. Room
    BY DEF RecordsTypeOK
  <1>2. \A i \in 1 .. Len(sent) : sent[i] \in Lengths /\ sent[i] \in Nat /\ sent[i] > 0
    <2>1. \A i \in 1 .. Len(sent) : sent[i] \in Lengths
      BY <1>1
    <2>2. \A n \in Lengths : n \in Nat /\ n > 0
      BY RecordsAssumption
    <2> QED BY <2>1, <2>2
  <1>3. /\ Len(sent) \in Nat /\ DOMAIN sent = 1 .. Len(sent) /\ Len(stream) \in Nat
        /\ Len(read) \in Nat /\ DOMAIN read = 1 .. Len(read) /\ Len(reader.got) \in Nat
    BY <1>1
  <1>4. Room \in Nat /\ 1 <= Room
    BY RecordsAssumption
  <1>5. /\ reader.cnt \in Nat /\ reader.cnt <= Room
        /\ reader.len \in Nat /\ 1 <= reader.len /\ reader.len <= Room
    <2> DEFINE c == reader.cnt
               l == reader.len
    <2>1. c \in 0 .. Room /\ l \in 1 .. Room
      BY <1>1
    <2> HIDE DEF c, l
    <2>2. c \in Nat /\ c <= Room /\ l \in Nat /\ 1 <= l /\ l <= Room
      BY <1>4, <2>1
    <2> QED BY <2>2 DEF c, l
  <1> QED BY <1>1, <1>2, <1>3, <1>4, <1>5

LEMMA RecordsInitially == RecordsInit => RecordsInv
  <1> SUFFICES ASSUME RecordsInit PROVE RecordsInv
    OBVIOUS
  <1>1. /\ sent = <<>> /\ owes = FALSE /\ closed = FALSE /\ stream = <<>>
        /\ read = <<>> /\ reader = [at |-> "out", cnt |-> 0, got |-> <<>>, reclen |-> 0, len |-> Room]
    BY DEF RecordsInit, NotReading
  <1>2. RecordsTypeOK
    <2>1. sent \in Seq(Lengths) /\ Len(sent) = 0 /\ stream \in Seq(Bytes) /\ read \in Seq(Seq(Bytes))
      BY <1>1
    <2>2. Len(sent) <= MaxRecords
      BY <2>1, RecordsAssumption
    <2>3. reader \in [at : {"out", "length", "data", "discard"}, cnt : 0 .. Room,
                      got : Seq(Bytes), reclen : Nat, len : 1 .. Room]
      <3>1. 0 \in 0 .. Room /\ Room \in 1 .. Room /\ <<>> \in Seq(Bytes)
        BY RecordsAssumption
      <3> QED BY <1>1, <3>1
    <2> QED BY <1>1, <2>1, <2>2, <2>3 DEF RecordsTypeOK
  <1>3. DOMAIN read = {} /\ DOMAIN sent = {} /\ Len(sent) = 0 /\ Len(read) = 0 /\ Len(stream) = 0
    BY <1>1
  <1>4. RecordsWhole
    BY <1>3 DEF RecordsWhole
  <1>5. PICK b \in [1 .. Len(sent) + 1 -> Int] : b = [i \in 1 .. Len(sent) + 1 |-> 1]
    <2>1. [i \in 1 .. Len(sent) + 1 |-> 1] \in [1 .. Len(sent) + 1 -> Int]
      OBVIOUS
    <2> QED BY <2>1
  <1>6. b[1] = 1
    BY <1>3, <1>5
  <1>7. LaidOut(b)
    <2>1. owes = FALSE /\ Len(stream) = b[Len(sent) + 1] - 1
      BY <1>1, <1>3, <1>6
    <2> QED BY <1>3, <2>1 DEF LaidOut
  <1>8. Reading(b)
    BY <1>1, <1>3, <1>6 DEF Reading
  <1> QED BY <1>2, <1>4, <1>5, <1>7, <1>8 DEF RecordsInv

(* What was sent and returned stays right while more is sent.              *)
LEMMA WholeStays ==
  ASSUME RecordsTypeOK, RecordsWhole, read' = read,
         Len(sent') \in Nat, Len(sent) <= Len(sent'),
         \A i \in 1 .. Len(sent) : sent'[i] = sent[i]
  PROVE  RecordsWhole'
  <1> SUFFICES ASSUME NEW i \in DOMAIN read'
               PROVE  /\ i <= Len(sent')
                      /\ read'[i] = IF sent'[i] > Room THEN TooLong ELSE BytesOf(i)'
    BY DEF RecordsWhole
  <1>1. i \in DOMAIN read /\ i <= Len(sent) /\ i \in Nat /\ i >= 1 /\ Len(sent) \in Nat
    BY RecordsShape DEF RecordsWhole
  <1>2. i \in 1 .. Len(sent) /\ sent'[i] = sent[i] /\ i <= Len(sent')
    BY <1>1
  <1>3. BytesOf(i)' = BytesOf(i)
    BY <1>2 DEF BytesOf
  <1> QED BY <1>1, <1>2, <1>3 DEF RecordsWhole

LEMMA RecordsSendLength ==
  ASSUME RecordsInv, NEW n \in Lengths, SendLength(n)
  PROVE  RecordsInv'
  <1> DEFINE N == Len(sent)
             b2(b) == [j \in 1 .. N + 2 |-> IF j = N + 2 THEN b[N + 1] + 1 + n ELSE b[j]]
  <1>1. /\ ~closed /\ ~owes /\ N < MaxRecords /\ sent' = Append(sent, n) /\ owes' = TRUE
        /\ stream' = Append(stream, <<0, n>>)
        /\ closed' = closed /\ reader' = reader /\ read' = read
    BY DEF SendLength
  <1>2. RecordsTypeOK /\ RecordsWhole
    BY DEF RecordsInv
  <1>3. PICK b \in [1 .. N + 1 -> Int] : LaidOut(b) /\ Reading(b)
    BY DEF RecordsInv
  <1>4. /\ N \in Nat /\ DOMAIN sent = 1 .. N /\ n \in Nat /\ n > 0 /\ Len(stream) \in Nat
        /\ \A i \in 1 .. N : sent[i] \in Nat /\ sent[i] > 0
    BY <1>2, RecordsShape, RecordsAssumption
  <1>5. /\ sent' \in Seq(Lengths) /\ Len(sent') = N + 1 /\ DOMAIN sent' = 1 .. N + 1
        /\ sent'[N + 1] = n /\ \A i \in 1 .. N : sent'[i] = sent[i]
    BY <1>1, <1>2, AppendProperties DEF RecordsTypeOK
  <1>6. /\ stream' \in Seq(Bytes) /\ Len(stream') = Len(stream) + 1
        /\ stream'[Len(stream) + 1] = <<0, n>>
        /\ \A p \in 1 .. Len(stream) : stream'[p] = stream[p]
    <2>1. <<0, n>> \in Bytes /\ stream \in Seq(Bytes)
      BY <1>2 DEF Bytes, RecordsTypeOK
    <2> QED BY <1>1, <2>1, AppendProperties
  <1>7. RecordsTypeOK'
    <2>1. Len(sent') <= MaxRecords
      BY <1>1, <1>4, <1>5, RecordsAssumption
    <2> QED BY <1>1, <1>2, <1>5, <1>6, <2>1 DEF RecordsTypeOK
  <1>8. RecordsWhole'
    BY <1>1, <1>2, <1>4, <1>5, WholeStays
  <1>9. PICK c \in [1 .. N + 2 -> Int] :
            /\ c[N + 2] = b[N + 1] + 1 + n
            /\ \A j \in 1 .. N + 1 : c[j] = b[j]
    <2>1. b2(b) \in [1 .. N + 2 -> Int]
      BY <1>3, <1>4
    <2>2. N + 2 \in 1 .. N + 2 /\ \A j \in 1 .. N + 1 : j \in 1 .. N + 2 /\ j # N + 2
      BY <1>4
    <2> QED BY <2>1, <2>2
  <1> HIDE DEF b2
  <1>10. /\ Len(stream) = b[N + 1] - 1
         /\ \A i \in 1 .. N :
              /\ b[i + 1] = b[i] + 1 + sent[i]
              /\ b[i] \in 1 .. Len(stream) => stream[b[i]] = <<0, sent[i]>>
              /\ \A k \in 1 .. sent[i] :
                    b[i] + k \in 1 .. Len(stream) => stream[b[i] + k] = <<i, k>>
              /\ \A j \in i + 1 .. N + 1 : b[i] + 1 + sent[i] <= b[j]
    BY <1>1, <1>3, <1>4 DEF LaidOut
  <1>11. LaidOut(c)'
    <2>1. ASSUME NEW i \in 1 .. N + 1
          PROVE  /\ c[i + 1] = c[i] + 1 + sent'[i]
                 /\ c[i] \in 1 .. Len(stream') => stream'[c[i]] = <<0, sent'[i]>>
                 /\ \A k \in 1 .. sent'[i] :
                       c[i] + k \in 1 .. Len(stream') => stream'[c[i] + k] = <<i, k>>
                 /\ \A j \in i + 1 .. N + 2 : c[i] + 1 + sent'[i] <= c[j]
      <3> HIDE DEF N
      <3>1. CASE i = N + 1
        <4>1. /\ c[i] = Len(stream) + 1 /\ c[i + 1] = c[i] + 1 + n /\ sent'[i] = n
          BY <1>3, <1>4, <1>5, <1>9, <1>10, <3>1
        <4>2. \A j \in i + 1 .. N + 2 : j = i + 1
          BY <1>4, <3>1
        <4>3. \A k \in 1 .. n : c[i] + k \notin 1 .. Len(stream')
          BY <1>4, <1>6, <4>1
        <4>4. c[i] \in 1 .. Len(stream') => stream'[c[i]] = <<0, sent'[i]>>
          BY <1>6, <4>1
        <4>5. \A j \in i + 1 .. N + 2 : c[i] + 1 + sent'[i] <= c[j]
          <5> SUFFICES ASSUME NEW j \in i + 1 .. N + 2 PROVE c[i] + 1 + sent'[i] <= c[j]
            OBVIOUS
          <5>1. c[j] = Len(stream) + 1 + 1 + n
            BY <4>1, <4>2
          <5>2. c[i] + 1 + sent'[i] = Len(stream) + 1 + 1 + n
            BY <4>1
          <5>3. Len(stream) + 1 + 1 + n <= Len(stream) + 1 + 1 + n
            BY <1>4
          <5> QED BY <5>1, <5>2, <5>3
        <4> QED BY <4>1, <4>3, <4>4, <4>5
      <3>2. CASE i \in 1 .. N
        <4>1. /\ c[i] = b[i] /\ c[i + 1] = b[i + 1] /\ sent'[i] = sent[i]
              /\ b[i] \in Int /\ b[N + 1] \in Int
          BY <1>3, <1>4, <1>5, <1>9, <3>2
        <4>2. b[i] + 1 + sent[i] <= b[N + 1] /\ b[N + 1] = Len(stream) + 1
          BY <1>3, <1>4, <1>10, <3>2, <4>1
        <4>3. ASSUME NEW j \in i + 1 .. N + 2 PROVE b[i] + 1 + sent[i] <= c[j]
          <5>1. CASE j = N + 2
            BY <1>4, <1>9, <3>2, <4>1, <4>2, <5>1
          <5>2. CASE j \in i + 1 .. N + 1
            BY <1>4, <1>9, <1>10, <3>2, <5>2
          <5> QED BY <1>4, <3>2, <5>1, <5>2
        <4>4. ASSUME c[i] \in 1 .. Len(stream') PROVE stream'[c[i]] = <<0, sent'[i]>>
          <5>1. b[i] \in 1 .. Len(stream)
            BY <1>4, <1>6, <3>2, <4>1, <4>2, <4>4
          <5> QED BY <1>6, <1>10, <3>2, <4>1, <5>1
        <4>5. ASSUME NEW k \in 1 .. sent'[i], c[i] + k \in 1 .. Len(stream')
              PROVE  stream'[c[i] + k] = <<i, k>>
          <5>1. k \in 1 .. sent[i] /\ b[i] + k \in 1 .. Len(stream) + 1
            BY <1>6, <4>1, <4>5
          <5>2. b[i] + k \in 1 .. Len(stream)
            <6> DEFINE p == b[i]
                       s == sent[i]
                       L == Len(stream)
            <6>1. /\ p \in Int /\ s \in Nat /\ L \in Nat /\ p + 1 + s <= L + 1
                  /\ k \in 1 .. s /\ p + k \in 1 .. L + 1
              BY <1>4, <3>2, <4>1, <4>2, <5>1
            <6> HIDE DEF p, s, L
            <6>2. p + k \in 1 .. L
              BY <6>1
            <6> QED BY <6>2 DEF p, L
          <5>3. stream[b[i] + k] = <<i, k>>
            BY <1>10, <3>2, <5>1, <5>2
          <5> QED BY <1>6, <4>1, <5>2, <5>3
        <4> QED BY <1>10, <3>2, <4>1, <4>3, <4>4, <4>5
      <3>3. i = N + 1 \/ i \in 1 .. N
        BY <1>4
      <3> QED BY <3>1, <3>2, <3>3
    <2>2. Len(stream') = c[N + 1] /\ sent' # <<>>
      <3>1. Len(stream') = c[N + 1]
        BY <1>3, <1>4, <1>6, <1>9, <1>10
      <3> QED BY <1>4, <1>5, <3>1
    <2>3. /\ DOMAIN sent' = 1 .. N + 1 /\ Len(sent') + 1 = N + 2
          /\ Len(stream') = c[Len(sent')] /\ sent' # <<>> /\ owes' = TRUE
      BY <1>1, <1>4, <1>5, <2>2
    <2> QED BY <2>1, <2>3 DEF LaidOut
  <1>12. Reading(c)'
    <2> DEFINE i == Len(read) + 1
    <2>1. i \in 1 .. N + 1 /\ c[i] = b[i] /\ (i <= N => sent'[i] = sent[i])
      BY <1>2, <1>3, <1>4, <1>5, <1>9, RecordsShape DEF Reading
    <2>2. i <= N + 2 /\ (reader.at # "out" => i <= N + 1 /\ sent'[i] = sent[i])
      BY <1>3, <1>4, <2>1 DEF Reading
    <2> HIDE DEF N
    <2> QED BY <1>1, <1>3, <1>5, <2>1, <2>2 DEF Reading
  <1> QED BY <1>4, <1>5, <1>7, <1>8, <1>9, <1>11, <1>12 DEF RecordsInv

LEMMA BytesOfFacts ==
  ASSUME NEW i \in 1 .. MaxRecords, sent[i] \in Nat, sent[i] > 0
  PROVE  /\ BytesOf(i) \in Seq(Bytes) /\ Len(BytesOf(i)) = sent[i]
         /\ \A k \in 1 .. sent[i] : BytesOf(i)[k] = <<i, k>>
  <1>1. \A k \in 1 .. sent[i] : <<i, k>> \in Bytes
    BY DEF Bytes
  <1> QED BY <1>1 DEF BytesOf

LEMMA RecordsSendData ==
  ASSUME RecordsInv, SendData
  PROVE  RecordsInv'
  <1> DEFINE N == Len(sent)
             data == BytesOf(N)
  <1>1. /\ ~closed /\ owes /\ owes' = FALSE /\ stream' = stream \o data
        /\ sent' = sent /\ closed' = closed /\ reader' = reader /\ read' = read
    BY DEF SendData
  <1>2. RecordsTypeOK /\ RecordsWhole
    BY DEF RecordsInv
  <1>3. PICK b \in [1 .. N + 1 -> Int] : LaidOut(b) /\ Reading(b)
    BY DEF RecordsInv
  <1>4. /\ N \in Nat /\ DOMAIN sent = 1 .. N /\ Len(stream) \in Nat
        /\ \A i \in 1 .. N : sent[i] \in Nat /\ sent[i] > 0
    BY <1>2, RecordsShape
  <1>5. N > 0 /\ N \in 1 .. N /\ N <= MaxRecords
    <2>1. sent \in Seq(Lengths) /\ sent # <<>> /\ N <= MaxRecords
      BY <1>1, <1>2, <1>3 DEF LaidOut, RecordsTypeOK
    <2>2. N # 0
      BY <2>1, EmptySeq
    <2> QED BY <1>4, <2>1, <2>2
  <1>6. /\ data \in Seq(Bytes) /\ Len(data) = sent[N]
        /\ \A k \in 1 .. sent[N] : data[k] = <<N, k>>
    <2>1. N \in 1 .. MaxRecords /\ sent[N] \in Nat /\ sent[N] > 0
      BY <1>4, <1>5, RecordsAssumption
    <2> QED BY <2>1, BytesOfFacts
  <1> HIDE DEF data
  <1>7. /\ stream' \in Seq(Bytes) /\ Len(stream') = Len(stream) + sent[N]
        /\ \A p \in 1 .. Len(stream) : stream'[p] = stream[p]
        /\ \A k \in 1 .. sent[N] : stream'[Len(stream) + k] = <<N, k>>
    <2>1. stream \in Seq(Bytes)
      BY <1>2 DEF RecordsTypeOK
    <2> DEFINE L == Len(stream)
               s == sent[N]
    <2>2. /\ stream' \in Seq(Bytes) /\ Len(stream') = L + s
          /\ \A p \in 1 .. L + s : stream'[p] = IF p <= L THEN stream[p] ELSE data[p - L]
      BY <1>1, <1>6, <2>1, ConcatProperties
    <2>3. L \in Nat /\ s \in Nat /\ \A k \in 1 .. s : data[k] = <<N, k>>
      BY <1>4, <1>5, <1>6
    <2> HIDE DEF L, s
    <2>4. \A k \in 1 .. s : stream'[L + k] = <<N, k>>
      <3> SUFFICES ASSUME NEW k \in 1 .. s PROVE stream'[L + k] = <<N, k>>
        OBVIOUS
      <3>1. L + k \in 1 .. L + s /\ ~(L + k <= L) /\ (L + k) - L = k
        BY <2>3
      <3>2. stream'[L + k] = data[(L + k) - L]
        <4> DEFINE p == L + k
        <4>1. p \in 1 .. L + s /\ ~(p <= L)
          BY <3>1
        <4> HIDE DEF p
        <4>2. stream'[p] = IF p <= L THEN stream[p] ELSE data[p - L]
          BY <2>2, <4>1
        <4>3. stream'[p] = data[p - L]
          BY <4>1, <4>2
        <4> QED BY <4>3 DEF p
      <3>3. data[(L + k) - L] = <<N, k>>
        BY <2>3, <3>1
      <3> QED BY <3>2, <3>3
    <2>5. \A p \in 1 .. L : stream'[p] = stream[p]
      BY <2>2, <2>3
    <2> QED BY <2>2, <2>4, <2>5 DEF L, s
  <1>8. RecordsTypeOK'
    BY <1>1, <1>2, <1>7 DEF RecordsTypeOK
  <1>9. RecordsWhole'
    BY <1>1, <1>2, <1>4, WholeStays
  <1>10. /\ Len(stream) = b[N]
         /\ \A i \in 1 .. N :
              /\ b[i + 1] = b[i] + 1 + sent[i]
              /\ b[i] \in 1 .. Len(stream) => stream[b[i]] = <<0, sent[i]>>
              /\ \A k \in 1 .. sent[i] :
                    b[i] + k \in 1 .. Len(stream) => stream[b[i] + k] = <<i, k>>
              /\ \A j \in i + 1 .. N + 1 : b[i] + 1 + sent[i] <= b[j]
    BY <1>1, <1>3, <1>4 DEF LaidOut
  <1> HIDE DEF N
  <1>11. ASSUME NEW i \in 1 .. N
         PROVE  /\ b[i] \in 1 .. Len(stream') => stream'[b[i]] = <<0, sent[i]>>
                /\ \A k \in 1 .. sent[i] :
                      b[i] + k \in 1 .. Len(stream') => stream'[b[i] + k] = <<i, k>>
    <2> DEFINE p == b[i]
               s == sent[i]
               L == Len(stream)
    <2>1. p \in Int /\ s \in Nat /\ s > 0 /\ L \in Nat
      BY <1>3, <1>4
    <2>2. CASE i = N
      <3>1. p = L /\ s = sent[N]
        BY <1>10, <2>2
      <3>2. p \in 1 .. Len(stream') => stream'[p] = <<0, s>>
        <4> SUFFICES ASSUME p \in 1 .. Len(stream') PROVE stream'[p] = <<0, s>>
          OBVIOUS
        <4>1. p \in 1 .. L
          <5>1. p >= 1
            <6> HIDE DEF p
            <6> QED OBVIOUS
          <5> HIDE DEF p, L, s
          <5> QED BY <2>1, <3>1, <5>1
        <4> QED BY <1>7, <1>10, <4>1
      <3>3. \A k \in 1 .. s : stream'[p + k] = <<i, k>>
        BY <1>7, <2>2, <3>1
      <3> QED BY <3>2, <3>3
    <2>3. CASE i # N
      <3>1. N \in i + 1 .. N + 1
        BY <1>4, <2>3
      <3>2. p + 1 + s <= L
        BY <1>10, <3>1
      <3>3. p \in 1 .. Len(stream') => stream'[p] = <<0, s>>
        <4> SUFFICES ASSUME p \in 1 .. Len(stream') PROVE stream'[p] = <<0, s>>
          OBVIOUS
        <4>1. p \in 1 .. L
          <5>1. p >= 1
            <6> HIDE DEF p
            <6> QED OBVIOUS
          <5> HIDE DEF p, L, s
          <5> QED BY <2>1, <3>2, <5>1
        <4> QED BY <1>7, <1>10, <4>1
      <3>4. \A k \in 1 .. s : p + k \in 1 .. Len(stream') => stream'[p + k] = <<i, k>>
        <4> SUFFICES ASSUME NEW k \in 1 .. s, p + k \in 1 .. Len(stream')
                     PROVE  stream'[p + k] = <<i, k>>
          OBVIOUS
        <4>1. p + k \in 1 .. L
          <5>1. p + k >= 1
            <6> HIDE DEF p
            <6> QED OBVIOUS
          <5> HIDE DEF p, L, s
          <5> QED BY <2>1, <3>2, <5>1
        <4> QED BY <1>7, <1>10, <4>1
      <3> QED BY <3>3, <3>4
    <2> QED BY <2>2, <2>3
  <1>12. LaidOut(b)'
    <2>1. Len(stream') = b[N + 1] - 1
      <3> DEFINE p == b[N]
                 s == sent[N]
                 q == b[N + 1]
      <3>1. Len(stream') = p + s /\ q = p + 1 + s /\ p \in Int /\ s \in Nat
        BY <1>3, <1>4, <1>5, <1>7, <1>10
      <3> HIDE DEF p, s, q
      <3>2. Len(stream') = q - 1
        BY <3>1
      <3> QED BY <3>2 DEF q
    <2> QED BY <1>1, <1>4, <1>10, <1>11, <2>1 DEF LaidOut, N
  <1>13. Reading(b)'
    BY <1>1, <1>3 DEF Reading
  <1> QED BY <1>1, <1>3, <1>8, <1>9, <1>12, <1>13 DEF RecordsInv, N

LEMMA RecordsEndSender ==
  ASSUME RecordsInv, EndSender
  PROVE  RecordsInv'
  <1>1. /\ closed' = TRUE /\ sent' = sent /\ owes' = owes /\ stream' = stream
        /\ reader' = reader /\ read' = read
    BY DEF EndSender
  <1>2. RecordsTypeOK' /\ RecordsWhole'
    BY <1>1 DEF RecordsInv, RecordsTypeOK, RecordsWhole, BytesOf
  <1>3. PICK b \in [1 .. Len(sent) + 1 -> Int] : LaidOut(b) /\ Reading(b)
    BY DEF RecordsInv
  <1>4. LaidOut(b)' /\ Reading(b)'
    BY <1>1, <1>3 DEF LaidOut, Reading
  <1> QED BY <1>1, <1>2, <1>3, <1>4 DEF RecordsInv

(* What the steps of the reader, which leave the sender alone, have to     *)
(* show.                                                                   *)
LEMMA ReaderSteps ==
  ASSUME RecordsTypeOK, RecordsWhole, UNCHANGED <<sent, owes, closed>>,
         stream' \in Seq(Bytes), read' = read,
         reader' \in [at : {"out", "length", "data", "discard"}, cnt : 0 .. Room,
                      got : Seq(Bytes), reclen : Nat, len : 1 .. Room],
         NEW b \in [1 .. Len(sent) + 1 -> Int], LaidOut(b)', Reading(b)'
  PROVE  RecordsInv'
  <1>1. RecordsTypeOK' /\ RecordsWhole'
    BY DEF RecordsTypeOK, RecordsWhole, BytesOf
  <1> QED BY <1>1 DEF RecordsInv

(* Between two records the stream begins with the length of the next.      *)
LEMMA RecordsStartRead ==
  ASSUME RecordsInv, StartRead
  PROVE  RecordsInv'
  <1> DEFINE N == Len(sent)
             i == Len(read) + 1
             L == Len(stream)
  <1>1. /\ reader.at = "out" /\ stream # <<>> /\ sent' = sent /\ owes' = owes
        /\ closed' = closed /\ stream' = stream /\ read' = read
        /\ reader' = [reader EXCEPT !.at = "length", !.cnt = 1, !.got = <<>>]
    BY DEF StartRead, Readn
  <1>2. RecordsTypeOK /\ RecordsWhole
    BY DEF RecordsInv
  <1>3. PICK b \in [1 .. N + 1 -> Int] : LaidOut(b) /\ Reading(b)
    BY DEF RecordsInv
  <1>4. N \in Nat /\ i \in 1 .. N + 1 /\ L \in Nat /\ DOMAIN sent = 1 .. N
    BY <1>2, <1>3, RecordsShape DEF Reading
  <1>5. /\ reader \in [at : {"out", "length", "data", "discard"}, cnt : 0 .. Room,
                       got : Seq(Bytes), reclen : Nat, len : 1 .. Room]
        /\ stream \in Seq(Bytes) /\ Room \in Nat /\ 1 <= Room
    BY <1>2, RecordsShape DEF RecordsTypeOK
  <1>6. reader' \in [at : {"out", "length", "data", "discard"}, cnt : 0 .. Room,
                     got : Seq(Bytes), reclen : Nat, len : 1 .. Room]
    <2>1. 1 \in 0 .. Room /\ <<>> \in Seq(Bytes)
      BY <1>5
    <2> QED BY <1>1, <1>5, <2>1
  <1>7. /\ reader'.at = "length" /\ reader'.cnt = 1 /\ Len(reader'.got) = 0
        /\ reader'.len = Room
    BY <1>1, <1>3, <1>5 DEF Reading
  <1>8. b[i] = 1 /\ L > 0
    <2>1. L # 0
      BY <1>1, <1>5, EmptySeq
    <2> QED BY <1>1, <1>3, <1>4, <2>1 DEF Reading
  <1>9. i <= N
    <2> SUFFICES ASSUME i = N + 1 PROVE FALSE
      BY <1>4
    <2> DEFINE p == b[N]
               s == sent[N]
    <2>1. b[N + 1] = 1
      BY <1>8
    <2>2. CASE ~owes
      BY <1>3, <1>4, <1>8, <2>1, <2>2 DEF LaidOut
    <2>3. CASE owes
      <3>1. sent # <<>> /\ L = p /\ sent \in Seq(Lengths)
        BY <1>2, <1>3, <2>3 DEF LaidOut, RecordsTypeOK
      <3>2. N \in 1 .. N
        <4>1. N # 0
          BY <3>1, EmptySeq
        <4> QED BY <1>4, <4>1
      <3>3. s \in Nat /\ 1 = p + 1 + s
        BY <1>2, <1>3, <1>4, <2>1, <3>2, RecordsShape DEF LaidOut
      <3> HIDE DEF L, p, s
      <3> QED BY <1>4, <1>8, <3>1, <3>3
    <2> QED BY <2>2, <2>3
  <1>10. LaidOut(b)'
    BY <1>1, <1>3 DEF LaidOut
  <1>11. Reading(b)'
    BY <1>1, <1>4, <1>7, <1>8, <1>9 DEF Reading
  <1> QED BY <1>1, <1>2, <1>3, <1>5, <1>6, <1>10, <1>11, ReaderSteps

(* The end of the stream comes within a record, which is lost.             *)
LEMMA RecordsRecvEnd ==
  ASSUME RecordsInv, RecvEnd
  PROVE  RecordsInv'
  <1>1. /\ reader.cnt > 0 /\ stream = <<>> /\ closed /\ sent' = sent /\ owes' = owes
        /\ closed' = closed /\ stream' = stream /\ read' = read
        /\ reader' = [at |-> "out", cnt |-> 0, got |-> <<>>, reclen |-> 0, len |-> Room]
    BY DEF RecvEnd, NotReading
  <1>2. RecordsTypeOK /\ RecordsWhole
    BY DEF RecordsInv
  <1>3. PICK b \in [1 .. Len(sent) + 1 -> Int] : LaidOut(b) /\ Reading(b)
    BY DEF RecordsInv
  <1>4. reader' \in [at : {"out", "length", "data", "discard"}, cnt : 0 .. Room,
                     got : Seq(Bytes), reclen : Nat, len : 1 .. Room]
    <2>1. 0 \in 0 .. Room /\ Room \in 1 .. Room /\ <<>> \in Seq(Bytes)
      BY RecordsAssumption
    <2> QED BY <1>1, <2>1
  <1>5. LaidOut(b)'
    BY <1>1, <1>3 DEF LaidOut
  <1>6. Reading(b)'
    BY <1>1, <1>3 DEF Reading
  <1>7. stream' \in Seq(Bytes)
    BY <1>1, <1>2 DEF RecordsTypeOK
  <1> QED BY <1>1, <1>2, <1>3, <1>4, <1>5, <1>6, <1>7, ReaderSteps

(* A recv takes k bytes from the front of the stream: all records begin k  *)
(* bytes earlier, and the reader has k bytes more of its own.              *)
LEMMA LaidOutEarlier ==
  ASSUME RecordsTypeOK, NEW k \in 1 .. Len(stream), UNCHANGED <<sent, owes>>,
         Len(stream') = Len(stream) - k,
         \A p \in 1 .. Len(stream) - k : stream'[p] = stream[p + k],
         NEW b \in [1 .. Len(sent) + 1 -> Int], LaidOut(b),
         NEW c \in [1 .. Len(sent) + 1 -> Int],
         \A i \in 1 .. Len(sent) + 1 : c[i] = b[i] - k
  PROVE  LaidOut(c)'
  <1> DEFINE N == Len(sent)
             L == Len(stream)
  <1>1. /\ N \in Nat /\ DOMAIN sent = 1 .. N /\ L \in Nat /\ k \in Nat /\ k <= L
        /\ \A i \in 1 .. N : sent[i] \in Nat
        /\ \A i \in 1 .. N + 1 : b[i] \in Int
    <2>1. /\ N \in Nat /\ DOMAIN sent = 1 .. N /\ L \in Nat
          /\ \A i \in 1 .. N : sent[i] \in Nat
      BY RecordsShape
    <2>2. k \in 1 .. L /\ \A i \in 1 .. N + 1 : b[i] \in Int
      OBVIOUS
    <2> HIDE DEF L, N
    <2>3. k \in Nat /\ k <= L
      BY <2>1, <2>2
    <2> QED BY <2>1, <2>2, <2>3
  <1>2. ASSUME NEW q \in Int, q - k \in 1 .. L - k
        PROVE  q \in 1 .. L /\ stream'[q - k] = stream[q]
    <2> DEFINE p == q - k
    <2>1. p \in 1 .. L - k /\ p + k = q /\ q \in 1 .. L
      <3> HIDE DEF L
      <3> QED BY <1>1, <1>2
    <2>2. stream'[p] = stream[p + k]
      <3> HIDE DEF p
      <3> QED BY <2>1
    <2> QED BY <2>1, <2>2
  <1>3. ASSUME NEW i \in 1 .. N
        PROVE  /\ c[i + 1] = c[i] + 1 + sent[i]
               /\ c[i] \in 1 .. Len(stream') => stream'[c[i]] = <<0, sent[i]>>
               /\ \A m \in 1 .. sent[i] :
                     c[i] + m \in 1 .. Len(stream') => stream'[c[i] + m] = <<i, m>>
               /\ \A j \in i + 1 .. N + 1 : c[i] + 1 + sent[i] <= c[j]
    <2> DEFINE p == b[i]
               s == sent[i]
    <2>1. /\ i \in 1 .. N + 1 /\ i + 1 \in 1 .. N + 1
          /\ \A j \in i + 1 .. N + 1 : j \in 1 .. N + 1
      BY <1>1
    <2>2. p \in Int /\ s \in Nat /\ c[i] = p - k
      BY <1>1, <2>1
    <2>3. /\ b[i + 1] = p + 1 + s
          /\ p \in 1 .. L => stream[p] = <<0, s>>
          /\ \A m \in 1 .. s : p + m \in 1 .. L => stream[p + m] = <<i, m>>
          /\ \A j \in i + 1 .. N + 1 : p + 1 + s <= b[j]
      BY <1>1 DEF LaidOut
    <2> HIDE DEF p, s
    <2>4. c[i + 1] = c[i] + 1 + s
      <3>1. c[i + 1] = (p + 1 + s) - k
        BY <2>1, <2>3
      <3> QED BY <1>1, <2>2, <3>1
    <2>5. c[i] \in 1 .. Len(stream') => stream'[c[i]] = <<0, s>>
      BY <1>2, <2>2, <2>3
    <2>6. ASSUME NEW m \in 1 .. s, c[i] + m \in 1 .. Len(stream')
          PROVE  stream'[c[i] + m] = <<i, m>>
      <3>1. p + m \in Int /\ (p + m) - k = c[i] + m
        BY <1>1, <2>2
      <3>2. (p + m) - k \in 1 .. L - k
        BY <2>6, <3>1
      <3>3. p + m \in 1 .. L /\ stream'[(p + m) - k] = stream[p + m]
        BY <1>2, <3>1, <3>2
      <3> QED BY <2>3, <3>1, <3>3
    <2>7. ASSUME NEW j \in i + 1 .. N + 1 PROVE c[i] + 1 + s <= c[j]
      <3> DEFINE q == b[j]
      <3>1. p + 1 + s <= q /\ c[j] = q - k /\ q \in Int
        BY <1>1, <2>1, <2>3
      <3> HIDE DEF q
      <3> QED BY <1>1, <2>2, <3>1
    <2> QED BY <2>4, <2>5, <2>6, <2>7 DEF s
  <1>4. owes => sent # <<>> /\ Len(stream') = c[N]
    <2> SUFFICES ASSUME owes PROVE sent # <<>> /\ Len(stream') = c[N]
      OBVIOUS
    <2>1. sent # <<>> /\ L = b[N] /\ sent \in Seq(Lengths)
      BY DEF LaidOut, RecordsTypeOK
    <2>2. N \in 1 .. N + 1
      <3>1. N # 0
        BY <2>1, EmptySeq
      <3> QED BY <1>1, <3>1
    <2> QED BY <2>1, <2>2
  <1>5. ~owes => Len(stream') = c[N + 1] - 1
    <2> SUFFICES ASSUME ~owes PROVE Len(stream') = c[N + 1] - 1
      OBVIOUS
    <2> DEFINE q == b[N + 1]
    <2>1. N + 1 \in 1 .. N + 1 /\ q \in Int
      BY <1>1
    <2>2. L = q - 1 /\ c[N + 1] = q - k
      BY <2>1 DEF LaidOut
    <2> HIDE DEF q
    <2>3. Len(stream') = q - 1 - k
      BY <2>2
    <2> QED BY <1>1, <2>1, <2>2, <2>3
  <1> QED BY <1>1, <1>3, <1>4, <1>5 DEF LaidOut

LEMMA RecordsRecv ==
  ASSUME RecordsInv, Recv
  PROVE  RecordsInv'
  <1> DEFINE N == Len(sent)
             i == Len(read) + 1
             L == Len(stream)
             cnt == reader.cnt
             taken == reader.got
             T == Len(taken)
             s == sent[i]
  <1>1. PICK k \in 1 .. cnt :
           /\ k <= L
           /\ reader' = [reader EXCEPT !.cnt = cnt - k, !.got = taken \o SubSeq(stream, 1, k)]
           /\ stream' = SubSeq(stream, k + 1, L)
    BY DEF Recv
  <1>2. sent' = sent /\ owes' = owes /\ closed' = closed /\ read' = read
    BY DEF Recv
  <1>3. RecordsTypeOK /\ RecordsWhole
    BY DEF RecordsInv
  <1>4. PICK b \in [1 .. N + 1 -> Int] : LaidOut(b) /\ Reading(b)
    BY DEF RecordsInv
  <1>5. /\ N \in Nat /\ DOMAIN sent = 1 .. N /\ L \in Nat /\ cnt \in Nat /\ cnt <= Room
        /\ T \in Nat /\ Room \in Nat /\ i \in Nat /\ i >= 1 /\ taken \in Seq(Bytes)
        /\ \A j \in 1 .. N : sent[j] \in Nat /\ sent[j] > 0
        /\ reader.len \in Nat /\ reader.reclen \in Nat
    BY <1>3, RecordsShape
  <1>6. k \in Nat /\ k >= 1 /\ k <= cnt /\ cnt - k \in 0 .. Room /\ k \in 1 .. L
    <2> HIDE DEF L, cnt
    <2> QED BY <1>1, <1>5
  <1> DEFINE front == SubSeq(stream, 1, k)
             more == taken \o front
  <1>7. /\ stream \in Seq(Bytes)
        /\ front \in Seq(Bytes) /\ Len(front) = k /\ \A p \in 1 .. k : front[p] = stream[p]
        /\ stream' \in Seq(Bytes) /\ Len(stream') = L - k
        /\ \A p \in 1 .. L - k : stream'[p] = stream[p + k]
    <2>1. stream \in Seq(Bytes)
      BY <1>3 DEF RecordsTypeOK
    <2>2. /\ front \in Seq(Bytes) /\ Len(front) = k /\ \A p \in 1 .. k : front[p] = stream[p]
      BY <1>5, <1>6, <2>1
    <2>3. stream' \in Seq(Bytes) /\ Len(stream') = L - k
      BY SMTT(30), <1>1, <1>5, <1>6, <2>1
    <2>4. \A p \in 1 .. L - k : stream'[p] = stream[p + k]
      BY <1>1, <1>5, <1>6, <2>1
    <2> QED BY <2>1, <2>2, <2>3, <2>4
  <1>8. /\ more \in Seq(Bytes) /\ Len(more) = T + k
        /\ \A p \in 1 .. T : more[p] = taken[p]
        /\ \A p \in T + 1 .. T + k : more[p] = stream[p - T]
    <2> HIDE DEF front
    <2>1. /\ more \in Seq(Bytes) /\ Len(more) = T + k
          /\ \A p \in 1 .. T + k : more[p] = IF p <= T THEN taken[p] ELSE front[p - T]
      BY <1>5, <1>7, ConcatProperties
    <2> HIDE DEF more, T
    <2>2. \A p \in 1 .. T : more[p] = taken[p]
      BY <1>5, <1>6, <2>1
    <2>3. ASSUME NEW p \in T + 1 .. T + k PROVE more[p] = stream[p - T]
      <3>1. p \in 1 .. T + k /\ ~(p <= T) /\ p - T \in 1 .. k
        BY <1>5, <1>6
      <3>2. more[p] = front[p - T]
        BY <2>1, <3>1
      <3> QED BY <1>7, <3>1, <3>2
    <2> QED BY <2>1, <2>2, <2>3
  <1> HIDE DEF front
  <1>9. reader' = [reader EXCEPT !.cnt = cnt - k, !.got = more]
    BY <1>1 DEF front
  <1> HIDE DEF more
  <1>10. /\ reader' \in [at : {"out", "length", "data", "discard"}, cnt : 0 .. Room,
                         got : Seq(Bytes), reclen : Nat, len : 1 .. Room]
         /\ reader'.at = reader.at /\ reader'.cnt = cnt - k /\ reader'.got = more
         /\ reader'.reclen = reader.reclen /\ reader'.len = reader.len
    <2>1. reader \in [at : {"out", "length", "data", "discard"}, cnt : 0 .. Room,
                      got : Seq(Bytes), reclen : Nat, len : 1 .. Room]
      BY <1>3 DEF RecordsTypeOK
    <2> QED BY <1>6, <1>8, <1>9, <2>1
  <1>11. PICK c \in [1 .. N + 1 -> Int] : \A j \in 1 .. N + 1 : c[j] = b[j] - k
    <2> DEFINE f == [j \in 1 .. N + 1 |-> b[j] - k]
    <2>1. f \in [1 .. N + 1 -> Int] /\ \A j \in 1 .. N + 1 : f[j] = b[j] - k
      BY <1>4, <1>6
    <2> QED BY <2>1
  <1>12. LaidOut(c)'
    BY <1>2, <1>3, <1>4, <1>6, <1>7, <1>11, LaidOutEarlier
  <1>13. reader.at # "out" /\ i \in 1 .. N /\ s \in Nat
    <2>1. reader.at # "out" /\ i <= N
      BY <1>4, <1>5, <1>6 DEF Reading
    <2> QED BY <1>5, <2>1
  <1>14. c[i] = b[i] - k /\ b[i] \in Int
    BY <1>4, <1>5, <1>11, <1>13
  <1>15. /\ b[i] \in 1 .. L => stream[b[i]] = <<0, s>>
         /\ \A m \in 1 .. s : b[i] + m \in 1 .. L => stream[b[i] + m] = <<i, m>>
    BY <1>4, <1>5, <1>13 DEF LaidOut
  <1>16. reader'.at = "length" =>
            /\ reader'.cnt + Len(reader'.got) = 1 /\ c[i] = 1 - Len(reader'.got)
            /\ Len(reader'.got) = 1 => reader'.got[1] = <<0, s>>
    <2> SUFFICES ASSUME reader.at = "length"
                 PROVE  /\ (cnt - k) + (T + k) = 1 /\ c[i] = 1 - (T + k)
                        /\ more[1] = <<0, s>>
      BY <1>8, <1>10
    <2>1. cnt + T = 1 /\ b[i] = 1 - T
      BY <1>4 DEF Reading
    <2>2. cnt = 1 /\ k = 1 /\ T = 0 /\ b[i] = 1
      <3> HIDE DEF cnt, T
      <3> QED BY <1>5, <1>6, <2>1
    <2>3. more[1] = stream[1]
      BY <1>8, <2>2
    <2>4. 1 \in 1 .. L
      BY <1>6, <2>2
    <2>5. stream[1] = <<0, s>>
      BY <1>15, <2>2, <2>4
    <2> QED BY <1>14, <2>2, <2>3, <2>5
  <1>17. reader'.at = "data" =>
            /\ s <= Room /\ reader'.cnt + Len(reader'.got) = s /\ c[i] + Len(reader'.got) = 0
            /\ \A m \in 1 .. Len(reader'.got) : reader'.got[m] = <<i, m>>
    <2> SUFFICES ASSUME reader.at = "data"
                 PROVE  /\ s <= Room /\ (cnt - k) + (T + k) = s /\ c[i] + (T + k) = 0
                        /\ \A m \in 1 .. T + k : more[m] = <<i, m>>
      BY <1>8, <1>10
    <2>1. /\ s <= Room /\ cnt + T = s /\ b[i] + T = 0
          /\ \A m \in 1 .. T : taken[m] = <<i, m>>
      BY <1>4 DEF Reading
    <2> HIDE DEF cnt, T, s, L
    <2>2. (cnt - k) + (T + k) = s /\ c[i] + (T + k) = 0
      BY <1>5, <1>6, <1>14, <2>1
    <2>3. ASSUME NEW m \in T + 1 .. T + k PROVE more[m] = <<i, m>>
      <3>1. m \in 1 .. s /\ m - T \in 1 .. L /\ b[i] + m = m - T
        <4> DEFINE d == b[i]
        <4>1. d + T = 0 /\ d \in Int /\ cnt + T = s
          BY <1>14, <2>1
        <4>2. T \in Nat /\ k \in Nat /\ k <= cnt /\ k \in 1 .. L /\ cnt \in Nat /\ L \in Nat
          BY <1>5, <1>6
        <4> HIDE DEF d
        <4>3. m \in 1 .. s /\ m - T \in 1 .. L
          BY <4>1, <4>2
        <4>4. d + m = m - T
          BY <4>1, <4>2
        <4> QED BY <4>3, <4>4 DEF d
      <3>2. stream[m - T] = <<i, m>>
        BY <1>15, <3>1
      <3> QED BY <1>8, <3>2
    <2>4. \A m \in 1 .. T : more[m] = <<i, m>>
      BY <1>8, <2>1
    <2>5. \A m \in 1 .. T + k : m \in 1 .. T \/ m \in T + 1 .. T + k
      BY <1>5, <1>6
    <2> QED BY <2>1, <2>2, <2>3, <2>4, <2>5
  <1>18. reader'.at = "discard" =>
            /\ s > Room /\ reader'.cnt + Len(reader'.got) = reader.len
            /\ reader.len <= reader.reclen
            /\ c[i] = reader.reclen - s - Len(reader'.got)
    <2> SUFFICES ASSUME reader.at = "discard"
                 PROVE  /\ s > Room /\ (cnt - k) + (T + k) = reader.len
                        /\ reader.len <= reader.reclen
                        /\ c[i] = reader.reclen - s - (T + k)
      BY <1>8, <1>10
    <2> DEFINE len == reader.len
               rec == reader.reclen
    <2>1. s > Room /\ cnt + T = len /\ len <= rec /\ b[i] = rec - s - T
      BY <1>4 DEF Reading
    <2>2. len \in Nat /\ rec \in Nat
      BY <1>5
    <2> HIDE DEF cnt, T, s, len, rec
    <2>3. (cnt - k) + (T + k) = len /\ c[i] = rec - s - (T + k)
      BY <1>5, <1>6, <1>13, <1>14, <2>1, <2>2
    <2> QED BY <2>1, <2>3 DEF len, rec
  <1>19. Reading(c)'
    <2>1. reader'.at # "discard" => reader'.len = Room
      BY <1>4, <1>10 DEF Reading
    <2>2. Len(read') + 1 = i /\ i <= N /\ i <= N + 1 /\ sent'[i] = s /\ Len(sent') = N
      BY <1>2, <1>5, <1>13
    <2> HIDE DEF i, N, s
    <2> QED BY <1>10, <1>13, <1>16, <1>17, <1>18, <2>1, <2>2 DEF Reading
  <1> QED BY <1>2, <1>3, <1>7, <1>10, <1>12, <1>19, ReaderSteps

(* A whole read is over: what it returns is the record, or an error, and   *)
(* what is left of the stream begins with the next length.                 *)
LEMMA RecordsReturn ==
  ASSUME RecordsInv, NEW r \in Seq(Bytes), Return(r), UNCHANGED <<sent, owes, closed, stream>>,
         NEW b \in [1 .. Len(sent) + 1 -> Int], LaidOut(b),
         Len(read) + 1 \in 1 .. Len(sent), b[Len(read) + 1] + sent[Len(read) + 1] = 0,
         r = IF sent[Len(read) + 1] > Room THEN TooLong ELSE BytesOf(Len(read) + 1)
  PROVE  RecordsInv'
  <1> DEFINE n == Len(read)
             i == n + 1
             s == sent[i]
  <1>1. /\ RecordsTypeOK /\ RecordsWhole /\ read' = Append(read, r) /\ reader' = NotReading
    BY DEF RecordsInv, Return
  <1>2. /\ Len(sent) \in Nat /\ DOMAIN sent = 1 .. Len(sent) /\ n \in Nat /\ DOMAIN read = 1 .. n
        /\ s \in Nat
    BY <1>1, RecordsShape
  <1>3. /\ read' \in Seq(Seq(Bytes)) /\ Len(read') = n + 1 /\ DOMAIN read' = 1 .. n + 1
        /\ read'[n + 1] = r /\ \A j \in 1 .. n : read'[j] = read[j]
    <2>1. read \in Seq(Seq(Bytes))
      BY <1>1 DEF RecordsTypeOK
    <2> QED BY <1>1, <2>1, AppendProperties
  <1>4. reader' \in [at : {"out", "length", "data", "discard"}, cnt : 0 .. Room,
                     got : Seq(Bytes), reclen : Nat, len : 1 .. Room]
    <2>1. 0 \in 0 .. Room /\ Room \in 1 .. Room /\ <<>> \in Seq(Bytes)
      BY RecordsAssumption
    <2> QED BY <1>1, <2>1 DEF NotReading
  <1>5. RecordsTypeOK'
    BY <1>1, <1>3, <1>4 DEF RecordsTypeOK
  <1>6. RecordsWhole'
    <2> SUFFICES ASSUME NEW j \in 1 .. n + 1
                 PROVE  /\ j <= Len(sent)
                        /\ read'[j] = IF sent[j] > Room THEN TooLong ELSE BytesOf(j)
      BY <1>3 DEF RecordsWhole, BytesOf
    <2>1. CASE j = n + 1
      BY <1>2, <1>3, <2>1
    <2>2. CASE j \in 1 .. n
      <3>1. j \in DOMAIN read /\ read'[j] = read[j]
        BY <1>2, <1>3, <2>2
      <3> QED BY <1>1, <3>1 DEF RecordsWhole
    <2> QED BY <1>2, <2>1, <2>2
  <1>7. b[i + 1] = 1 /\ i + 1 <= Len(sent) + 1
    <2> DEFINE q == b[i + 1]
    <2>1. q = b[i] + 1 + s /\ b[i] + s = 0 /\ b[i] \in Int
      <3>1. i \in 1 .. Len(sent) + 1 /\ i \in DOMAIN sent
        BY <1>2
      <3> QED BY <3>1 DEF LaidOut
    <2> HIDE DEF s, q
    <2>2. q = 1
      BY <1>2, <2>1
    <2> QED BY <1>2, <2>2 DEF q
  <1>8. LaidOut(b)'
    BY DEF LaidOut
  <1>9. Reading(b)'
    <2>1. /\ reader'.at = "out" /\ reader'.cnt = 0 /\ reader'.len = Room
      BY <1>1 DEF NotReading
    <2>2. Len(read') + 1 = i + 1
      BY <1>3
    <2> HIDE DEF i
    <2> QED BY <1>7, <2>1, <2>2 DEF Reading
  <1> QED BY <1>5, <1>6, <1>8, <1>9 DEF RecordsInv

(* The length has come: the data follows, or what is thrown away.          *)
LEMMA RecordsHaveLength ==
  ASSUME RecordsInv, HaveAll, reader.at = "length"
  PROVE  RecordsInv'
  <1> DEFINE N == Len(sent)
             i == Len(read) + 1
             s == sent[i]
             T == Len(reader.got)
  <1>1. /\ reader.cnt = 0 /\ reader' = HaveLength /\ read' = read
        /\ sent' = sent /\ owes' = owes /\ closed' = closed /\ stream' = stream
    BY DEF HaveAll
  <1>2. RecordsTypeOK /\ RecordsWhole
    BY DEF RecordsInv
  <1>3. PICK b \in [1 .. N + 1 -> Int] : LaidOut(b) /\ Reading(b)
    BY DEF RecordsInv
  <1>4. /\ N \in Nat /\ T \in Nat /\ i \in Nat /\ i >= 1 /\ Room \in Nat /\ 1 <= Room
        /\ \A j \in 1 .. N : sent[j] \in Nat /\ sent[j] > 0
    BY <1>2, RecordsShape
  <1>5. /\ i <= N /\ reader.len = Room /\ T = 1 /\ b[i] = 0 /\ reader.got[1] = <<0, s>>
    <2>1. /\ i <= N /\ reader.len = Room /\ 0 + T = 1 /\ b[i] = 1 - T
          /\ T = 1 => reader.got[1] = <<0, s>>
      BY <1>1, <1>3 DEF Reading
    <2>2. T = 1
      <3> HIDE DEF T
      <3> QED BY <1>4, <2>1
    <2> QED BY <2>1, <2>2
  <1>6. s \in Nat /\ s > 0
    BY <1>4, <1>5
  <1>7. reader.got[1][2] = s
    BY <1>5
  <1>8. /\ reader \in [at : {"out", "length", "data", "discard"}, cnt : 0 .. Room,
                       got : Seq(Bytes), reclen : Nat, len : 1 .. Room]
        /\ stream' \in Seq(Bytes) /\ <<>> \in Seq(Bytes)
    BY <1>1, <1>2 DEF RecordsTypeOK
  <1>9. LaidOut(b)'
    BY <1>1, <1>3 DEF LaidOut
  <1>10. Len(<<>>) = 0
    OBVIOUS
  <1>11. CASE s > Room
    <2>1. reader' = [reader EXCEPT !.at = "discard", !.cnt = Room, !.got = <<>>, !.reclen = s]
      BY <1>1, <1>7, <1>8, <1>11 DEF HaveLength, Readn
    <2>2. Room \in 0 .. Room
      BY <1>4
    <2> HIDE DEF s
    <2>3. /\ reader' \in [at : {"out", "length", "data", "discard"}, cnt : 0 .. Room,
                          got : Seq(Bytes), reclen : Nat, len : 1 .. Room]
          /\ reader'.at = "discard" /\ reader'.cnt = Room /\ reader'.got = <<>>
          /\ reader'.reclen = s /\ reader'.len = Room
      BY <1>5, <1>6, <1>8, <2>1, <2>2
    <2>4. /\ Room + 0 = Room /\ Room <= s /\ 0 = s - s - 0
      BY <1>4, <1>6, <1>11
    <2>5. Reading(b)'
      <3>1. /\ Len(read') + 1 = i /\ i <= Len(sent') /\ i <= Len(sent') + 1 /\ sent'[i] = s
            /\ Len(reader'.got) = 0 /\ b[i] = s - s - 0
        BY <1>1, <1>4, <1>5, <1>10, <2>3, <2>4 DEF s
      <3> HIDE DEF i
      <3> QED BY <1>11, <2>3, <2>4, <3>1 DEF Reading
    <2> QED BY <1>1, <1>2, <1>3, <1>8, <1>9, <2>3, <2>5, ReaderSteps
  <1>12. CASE ~(s > Room)
    <2>1. reader' = [reader EXCEPT !.at = "data", !.cnt = s, !.got = <<>>]
      BY <1>1, <1>7, <1>8, <1>12 DEF HaveLength, Readn
    <2> HIDE DEF s
    <2>2. s \in 0 .. Room /\ s <= Room
      BY <1>4, <1>6, <1>12
    <2>3. /\ reader' \in [at : {"out", "length", "data", "discard"}, cnt : 0 .. Room,
                          got : Seq(Bytes), reclen : Nat, len : 1 .. Room]
          /\ reader'.at = "data" /\ reader'.cnt = s /\ reader'.got = <<>> /\ reader'.len = Room
      BY <1>5, <1>6, <1>8, <2>1, <2>2
    <2>4. Reading(b)'
      <3>1. /\ Len(read') + 1 = i /\ i <= Len(sent') /\ sent'[i] = s
            /\ Len(reader'.got) = 0
        BY <1>1, <1>5, <1>10, <2>3 DEF s
      <3>2. i <= Len(sent') + 1
        BY <1>1, <1>4, <1>5
      <3>3. b[i] + Len(reader'.got) = 0
        BY <1>5, <3>1
      <3>4. s + 0 = s
        BY <1>6
      <3>5. \A m \in 1 .. 0 : reader'.got[m] = <<i, m>>
        OBVIOUS
      <3> HIDE DEF i
      <3> QED BY <2>2, <2>3, <3>1, <3>5, <3>4, <3>2, <3>3 DEF Reading
    <2> QED BY <1>1, <1>2, <1>3, <1>8, <1>9, <2>3, <2>4, ReaderSteps
  <1> QED BY <1>11, <1>12

(* The data has come, all of it and nothing else.                          *)
LEMMA RecordsHaveData ==
  ASSUME RecordsInv, HaveAll, reader.at = "data"
  PROVE  RecordsInv'
  <1> DEFINE N == Len(sent)
             i == Len(read) + 1
             s == sent[i]
             taken == reader.got
             T == Len(taken)
  <1>1. /\ reader.cnt = 0 /\ Return(taken)
        /\ sent' = sent /\ owes' = owes /\ closed' = closed /\ stream' = stream
    BY DEF HaveAll
  <1>2. RecordsTypeOK
    BY DEF RecordsInv
  <1>3. PICK b \in [1 .. N + 1 -> Int] : LaidOut(b) /\ Reading(b)
    BY DEF RecordsInv
  <1>4. /\ N \in Nat /\ T \in Nat /\ i \in Nat /\ i >= 1 /\ Room \in Nat /\ taken \in Seq(Bytes)
        /\ \A j \in 1 .. N : sent[j] \in Nat /\ sent[j] > 0
    BY <1>2, RecordsShape
  <1>5. i <= N /\ s <= Room /\ 0 + T = s /\ b[i] + T = 0 /\ \A m \in 1 .. T : taken[m] = <<i, m>>
    BY <1>1, <1>3 DEF Reading
  <1>6. i \in 1 .. N /\ s \in Nat /\ T = s /\ ~(s > Room)
    <2>1. i \in 1 .. N /\ s \in Nat
      BY <1>4, <1>5
    <2> HIDE DEF s, T
    <2> QED BY <1>4, <1>5, <2>1
  <1>7. taken = BytesOf(i)
    <2>1. DOMAIN taken = 1 .. s /\ taken = [m \in 1 .. s |-> taken[m]]
      BY <1>4, <1>6
    <2>2. \A m \in 1 .. s : taken[m] = <<i, m>>
      BY <1>5, <1>6
    <2> HIDE DEF taken
    <2>3. taken = [m \in 1 .. s |-> <<i, m>>]
      BY <2>1, <2>2
    <2> QED BY <2>3 DEF BytesOf
  <1>8. taken = IF s > Room THEN TooLong ELSE BytesOf(i)
    BY <1>6, <1>7
  <1>9. b[i] + s = 0
    BY <1>5, <1>6
  <1> QED BY <1>1, <1>3, <1>4, <1>6, <1>8, <1>9, RecordsReturn

(* A round of the discarding loop has come: what is left of the record     *)
(* shrinks by it, and the last round ends where the record does.           *)
LEMMA RecordsDiscard ==
  ASSUME RecordsInv, HaveAll, reader.at = "discard"
  PROVE  RecordsInv'
  <1> DEFINE N == Len(sent)
             i == Len(read) + 1
             s == sent[i]
             T == Len(reader.got)
             rec == reader.reclen
             len == reader.len
             left == rec - len
             next == LenLeft(left, len)
  <1>1. /\ reader.cnt = 0
        /\ sent' = sent /\ owes' = owes /\ closed' = closed /\ stream' = stream
        /\ left = 0 => Return(TooLong)
        /\ left # 0 =>
              /\ reader' = [Readn("discard", next) EXCEPT !.reclen = left, !.len = next]
              /\ read' = read
    BY DEF HaveAll, Discarded
  <1>2. RecordsTypeOK /\ RecordsWhole
    BY DEF RecordsInv
  <1>3. PICK b \in [1 .. N + 1 -> Int] : LaidOut(b) /\ Reading(b)
    BY DEF RecordsInv
  <1>4. /\ N \in Nat /\ T \in Nat /\ i \in Nat /\ i >= 1 /\ Room \in Nat
        /\ rec \in Nat /\ len \in Nat /\ 1 <= len /\ len <= Room
        /\ \A j \in 1 .. N : sent[j] \in Nat /\ sent[j] > 0
    BY <1>2, RecordsShape
  <1>5. i <= N /\ s > Room /\ 0 + T = len /\ len <= rec /\ b[i] = rec - s - T
    BY <1>1, <1>3 DEF Reading
  <1>6. i \in 1 .. N /\ s \in Nat
    BY <1>4, <1>5
  <1>7. left \in Nat /\ b[i] = left - s /\ T = len
    <2> HIDE DEF s, T, rec, len
    <2> QED BY <1>4, <1>5, <1>6
  <1>8. CASE left = 0
    <2>1. TooLong \in Seq(Bytes) /\ TooLong = IF s > Room THEN TooLong ELSE BytesOf(i)
      BY <1>5 DEF TooLong
    <2>2. b[i] + s = 0
      <3> HIDE DEF left, s
      <3> QED BY <1>6, <1>7, <1>8
    <2> HIDE DEF left
    <2> QED BY <1>1, <1>3, <1>6, <1>8, <2>1, <2>2, RecordsReturn
  <1>9. CASE left # 0
    <2>1. next \in Nat /\ next >= 1 /\ next <= Room /\ next <= left
      <3> HIDE DEF left, len
      <3> QED BY <1>4, <1>7, <1>9 DEF LenLeft
    <2> HIDE DEF next, left
    <2>2. reader' = [Readn("discard", next) EXCEPT !.reclen = left, !.len = next] /\ read' = read
      BY <1>1, <1>9
    <2>3. /\ reader \in [at : {"out", "length", "data", "discard"}, cnt : 0 .. Room,
                         got : Seq(Bytes), reclen : Nat, len : 1 .. Room]
          /\ <<>> \in Seq(Bytes) /\ stream' \in Seq(Bytes) /\ Len(<<>>) = 0
      BY <1>1, <1>2 DEF RecordsTypeOK
    <2>4. next \in 0 .. Room /\ next \in 1 .. Room
      BY <1>4, <2>1
    <2>5. /\ reader' \in [at : {"out", "length", "data", "discard"}, cnt : 0 .. Room,
                          got : Seq(Bytes), reclen : Nat, len : 1 .. Room]
          /\ reader'.at = "discard" /\ reader'.cnt = next /\ reader'.got = <<>>
          /\ reader'.reclen = left /\ reader'.len = next
      BY <1>7, <2>2, <2>3, <2>4 DEF Readn
    <2>6. LaidOut(b)'
      BY <1>1, <1>3 DEF LaidOut
    <2>7. Reading(b)'
      <3>1. /\ Len(read') + 1 = i /\ i <= Len(sent') /\ sent'[i] = s
            /\ Len(reader'.got) = 0
        BY <1>1, <1>5, <2>2, <2>3, <2>5
      <3>2. i <= Len(sent') + 1
        BY <1>1, <1>4, <1>5
      <3> HIDE DEF i, s
      <3>3. next + 0 = next /\ b[i] = left - s - 0
        BY <1>6, <1>7, <2>1
      <3> QED BY <1>5, <2>1, <2>5, <3>1, <3>2, <3>3 DEF Reading
    <2> QED BY <1>1, <1>2, <1>3, <2>2, <2>3, <2>5, <2>6, <2>7, ReaderSteps
  <1> QED BY <1>8, <1>9

LEMMA RecordsStand == RecordsInv /\ UNCHANGED recordVars => RecordsInv'
  <1> SUFFICES ASSUME RecordsInv, UNCHANGED recordVars PROVE RecordsInv'
    OBVIOUS
  <1>1. /\ sent' = sent /\ owes' = owes /\ closed' = closed /\ stream' = stream
        /\ reader' = reader /\ read' = read
    BY DEF recordVars
  <1>2. RecordsTypeOK' /\ RecordsWhole'
    BY <1>1 DEF RecordsInv, RecordsTypeOK, RecordsWhole, BytesOf
  <1>3. PICK b \in [1 .. Len(sent) + 1 -> Int] : LaidOut(b) /\ Reading(b)
    BY DEF RecordsInv
  <1>4. LaidOut(b)' /\ Reading(b)'
    BY <1>1, <1>3 DEF LaidOut, Reading
  <1> QED BY <1>1, <1>2, <1>3, <1>4 DEF RecordsInv

LEMMA RecordsSteps == RecordsInv /\ [Next]_vars => RecordsInv'
  <1> SUFFICES ASSUME RecordsInv, [Next]_vars PROVE RecordsInv'
    OBVIOUS
  <1>1. CASE HaveAll
    <2>1. reader.at \in {"length", "data", "discard"}
      BY <1>1 DEF HaveAll
    <2> QED BY <1>1, <2>1, RecordsHaveLength, RecordsHaveData, RecordsDiscard
  <1>2. CASE RecordsNext
    BY <1>1, <1>2, RecordsSendLength, RecordsSendData, RecordsEndSender, RecordsStartRead,
       RecordsRecv, RecordsRecvEnd DEF RecordsNext, Reads
  <1>3. CASE UNCHANGED recordVars
    BY <1>3, RecordsStand
  <1> QED BY <1>2, <1>3 DEF Next, vars

(* However recv cuts the stream up, and wherever the sender ends, a call   *)
(* of netReadVRec returns the next record whole, or an error in the place  *)
(* of one that is longer than the buffer, for every buffer, all lengths    *)
(* and any number of records (Networking.cpp:52-126).                      *)
THEOREM RecordsAreWhole == Spec => []RecordsOK
  <1>1. Init => RecordsInv
    BY RecordsInitially DEF Init
  <1>2. RecordsInv => RecordsOK
    BY DEF RecordsInv, RecordsOK
  <1> QED BY <1>1, <1>2, RecordsSteps, PTL DEF Spec

-----------------------------------------------------------------------------
(* The games over TCP and UDP.                                             *)

LEMMA NetworkFacts ==
  ASSUME NetworkTypeOK
  PROVE  /\ net \in Networks /\ net.transport \in Transports
         /\ net.lengths \subseteq Nat \ {0} /\ IsFiniteSet(net.lengths)
         /\ net.maxSends \in Nat /\ net.maxCopies \in Nat
         /\ sends \in Nat /\ copies \in Nat
         /\ players \in Seq(Players) /\ DOMAIN players = 1 .. Len(players) /\ Len(players) \in Nat
         /\ \A p \in DOMAIN players :
               /\ players[p] \in Players /\ players[p].client \in Clients
               /\ players[p].isConnected \in BOOLEAN
         /\ Server \notin Clients
         /\ \A c \in Clients : NickName[c] \in Range(NickName)
         /\ ~tcp => net.transport = "udp"
  <1>1. net \in Networks /\ players \in Seq(Players) /\ sends \in 0 .. net.maxSends
        /\ copies \in 0 .. net.maxCopies
    BY DEF NetworkTypeOK
  <1>2. /\ net.transport \in Transports
        /\ net.lengths \subseteq Nat \ {0} /\ IsFiniteSet(net.lengths)
        /\ net.maxSends \in Nat /\ net.maxCopies \in Nat
        /\ Server \notin Clients /\ DOMAIN NickName = Clients
    BY <1>1, GameNetworkAssumption
  <1>3. DOMAIN players = 1 .. Len(players) /\ Len(players) \in Nat
    BY <1>1
  <1>4. \A p \in DOMAIN players : players[p] \in Players
    BY <1>1, <1>3
  <1>5. \A q \in Players : q.client \in Clients /\ q.isConnected \in BOOLEAN
    BY DEF Players
  <1>6. \A c \in Clients : NickName[c] \in Range(NickName)
    BY <1>2 DEF Range
  <1>7. ~tcp => net.transport = "udp"
    BY <1>2 DEF tcp, Transports
  <1>8. sends \in Nat /\ copies \in Nat
    <2> DEFINE a == net.maxSends
               b == net.maxCopies
    <2>1. sends \in 0 .. a /\ copies \in 0 .. b /\ a \in Nat /\ b \in Nat
      BY <1>1, <1>2
    <2> HIDE DEF a, b
    <2> QED BY <2>1
  <1> QED BY <1>1, <1>2, <1>3, <1>4, <1>5, <1>6, <1>7, <1>8

(* What is on the wire has the type of a message.                          *)
LEMMA MessageTypes ==
  ASSUME NetworkTypeOK, NEW n \in net.lengths
  PROVE  /\ \A c \in Clients : Details(c, n) \in Messages
         /\ Pong(n) \in Messages
         /\ \A c \in Clients, type \in {"PlayerMoved", "ping"}, id \in Nat :
               Message(type, IF type = "ping" THEN "" ELSE NickName[c], c, n, id) \in Messages
         /\ \A type \in {"PlayerMoved", "StartNetworkLevel"}, id \in Nat :
               Message(type, ServerName, Server, n, id) \in Messages
  <1>1. \A c \in Clients : NickName[c] \in Range(NickName)
    BY NetworkFacts
  <1> QED BY <1>1 DEF Messages, Message, Details, Pong, Types

(* What does not touch the players, the traffic, or the messages.          *)
LEMMA PlayersStay ==
  ASSUME NetworkInv, UNCHANGED <<net, players, backlog, frame, named>>,
         \A c \in Clients : link[c] # "none" => link'[c] # "none"
  PROVE  RegisteredOnce' /\ NamesAreOwn' /\ Listed'
  <1>1. RegisteredOnce /\ NamesAreOwn /\ Listed /\ NetworkTypeOK
    BY DEF NetworkInv, PlayersOK
  <1>2. \A p \in DOMAIN players : players[p].client \in Clients
    BY <1>1, NetworkFacts
  <1>3. \A i \in DOMAIN backlog : backlog[i] \in Clients
    BY <1>1 DEF NetworkTypeOK
  <1>4. tcp' = tcp
    BY DEF tcp
  <1>5. RegisteredOnce' /\ NamesAreOwn'
    BY <1>1, <1>4 DEF RegisteredOnce, NamesAreOwn, Port
  <1>6. Listed'
    BY <1>1, <1>2, <1>3, <1>4 DEF Listed
  <1> QED BY <1>5, <1>6

LEMMA TrafficStays ==
  ASSUME NetworkInv, UNCHANGED <<net, given, owed>>
  PROVE  UdpOthersHear' /\ NeverEchoed'
  BY DEF NetworkInv, TrafficOK, UdpOthersHear, OthersHear, NeverEchoed, tcp

LEMMA MessagesStay ==
  ASSUME NetworkInv,
         \A c \in Clients : \A i \in DOMAIN toServer'[c] :
            \E j \in DOMAIN toServer[c] : toServer'[c][i] = toServer[c][j]
  PROVE  OwnMessages'
  <1> SUFFICES ASSUME NEW c \in Clients, NEW i \in DOMAIN toServer'[c]
               PROVE  /\ toServer'[c][i].from = c
                      /\ toServer'[c][i].type \in {"requestPlayerDetails", "ping", "PlayerMoved"}
                      /\ toServer'[c][i].type # "ping" => toServer'[c][i].target = NickName[c]
    BY DEF OwnMessages
  <1>1. PICK j \in DOMAIN toServer[c] : toServer'[c][i] = toServer[c][j]
    OBVIOUS
  <1> QED BY <1>1 DEF NetworkInv, OwnMessages

(* The five parts of InOrder, by what is read and written.                 *)
LEMMA OrderFacts ==
  ASSUME NEW past \in Seq(Messages), NEW coming \in Seq(Messages)
  PROVE  /\ DOMAIN past = 1 .. Len(past) /\ Len(past) \in Nat
         /\ DOMAIN coming = 1 .. Len(coming) /\ Len(coming) \in Nat
         /\ \A i \in DOMAIN past : past[i] \in Messages /\ past[i].id \in Nat
         /\ \A i \in DOMAIN coming : coming[i] \in Messages /\ coming[i].id \in Nat
  <1>1. \A m \in Messages : m.id \in Nat
    BY DEF Messages
  <1> QED BY <1>1

LEMMA OrderOfLess ==
  ASSUME NEW past \in Seq(Messages), NEW coming \in Seq(Messages), NEW n \in Nat,
         NEW m \in Nat, InOrder(past, coming, n), n <= m
  PROVE  InOrder(past, coming, m) /\ InOrder(past, <<>>, m)
  <1>1. \A i \in DOMAIN past : past[i].id \in Nat
    BY OrderFacts
  <1>2. \A i \in DOMAIN coming : coming[i].id \in Nat
    BY OrderFacts
  <1>3. \A i \in DOMAIN past : Raised(past[i]) => past[i].id <= m
    BY <1>1 DEF InOrder
  <1>4. \A i \in DOMAIN coming : Raised(coming[i]) => coming[i].id <= m
    BY <1>2 DEF InOrder
  <1>5. DOMAIN <<>> = {}
    OBVIOUS
  <1>6. InOrder(past, coming, m)
    BY <1>3, <1>4 DEF InOrder
  <1>7. InOrder(past, <<>>, m)
    BY <1>3, <1>5 DEF InOrder, Ascending
  <1> QED BY <1>6, <1>7

(* The reader takes the first message, and keeps it if it is an event.     *)
LEMMA OrderOfReading ==
  ASSUME NEW past \in Seq(Messages), NEW coming \in Seq(Messages), NEW n \in Nat,
         InOrder(past, coming, n), 1 \in DOMAIN coming,
         NEW rest \in Seq(Messages), Len(rest) = Len(coming) - 1,
         \A k \in 1 .. Len(coming) - 1 : rest[k] = coming[k + 1]
  PROVE  /\ InOrder(past, rest, n)
         /\ IsEvent(coming[1]) => InOrder(Append(past, coming[1]), rest, n)
  <1> DEFINE m == coming[1]
             more == Append(past, m)
             P == Len(past)
             C == Len(coming)
  <1>1. /\ DOMAIN past = 1 .. P /\ P \in Nat /\ DOMAIN coming = 1 .. C /\ C \in Nat
        /\ DOMAIN rest = 1 .. C - 1 /\ m \in Messages
    BY OrderFacts
  <1>2. \A k \in DOMAIN rest : k + 1 \in DOMAIN coming /\ rest[k] = coming[k + 1] /\ 1 < k + 1
    BY <1>1
  <1>3. \A i, j \in DOMAIN rest : i < j => i + 1 < j + 1
    BY <1>1
  <1>4. /\ more \in Seq(Messages) /\ DOMAIN more = 1 .. P + 1 /\ more[P + 1] = m
        /\ \A i \in 1 .. P : more[i] = past[i]
    BY <1>1, AppendProperties
  <1>5. \A i \in DOMAIN more : i \in DOMAIN past \/ i = P + 1
    BY <1>1, <1>4
  <1>6. Ascending(rest)
    BY <1>2, <1>3 DEF InOrder, Ascending
  <1>7. InOrder(past, rest, n)
    BY <1>2, <1>6 DEF InOrder
  <1>8. ASSUME IsEvent(m) PROVE InOrder(more, rest, n)
    <2>1. Ascending(more)
      <3> SUFFICES ASSUME NEW i \in DOMAIN more, NEW j \in DOMAIN more, i < j,
                          Raised(more[i]), Raised(more[j])
                   PROVE  more[i].id < more[j].id
        BY DEF Ascending
      <3>1. i \in DOMAIN past /\ more[i] = past[i]
        BY <1>1, <1>4
      <3>2. CASE j \in DOMAIN past
        BY <1>1, <1>4, <3>1, <3>2 DEF InOrder, Ascending
      <3>3. CASE j = P + 1
        <4>1. more[j] = m /\ m = coming[1]
          BY <1>4, <3>3
        <4> HIDE DEF m, more
        <4> QED BY <3>1, <4>1 DEF InOrder
      <3> QED BY <1>5, <3>2, <3>3
    <2>2. \A i \in DOMAIN more : IsEvent(more[i]) /\ (Raised(more[i]) => more[i].id <= n)
      BY <1>1, <1>4, <1>5, <1>8 DEF InOrder
    <2>3. ASSUME NEW i \in DOMAIN more, NEW j \in DOMAIN rest, Raised(more[i]), Raised(rest[j])
          PROVE  more[i].id < rest[j].id
      <3>1. j + 1 \in DOMAIN coming /\ rest[j] = coming[j + 1] /\ 1 < j + 1
        BY <1>2
      <3>2. CASE i \in DOMAIN past
        BY <1>1, <1>4, <2>3, <3>1, <3>2 DEF InOrder
      <3>3. CASE i = P + 1
        <4>1. more[i] = coming[1]
          BY <1>4, <3>3
        <4> HIDE DEF more
        <4> QED BY <2>3, <3>1, <4>1 DEF InOrder, Ascending
      <3> QED BY <1>5, <3>2, <3>3
    <2> QED BY <1>7, <2>1, <2>2, <2>3 DEF InOrder
  <1> QED BY <1>7, <1>8

(* Copies of a message go behind the rest: any number of one that the      *)
(* server did not raise, one at most of what it raises now.                *)
LEMMA OrderOfSending ==
  ASSUME NEW past \in Seq(Messages), NEW coming \in Seq(Messages), NEW n \in Nat,
         InOrder(past, coming, n), NEW m \in Messages, NEW k \in Nat,
         NEW more \in Seq(Messages), Len(more) = Len(coming) + k,
         \A i \in 1 .. Len(coming) : more[i] = coming[i],
         \A i \in Len(coming) + 1 .. Len(coming) + k : more[i] = m,
         NEW last \in Nat, n <= last, Raised(m) => k <= 1 /\ n < m.id /\ m.id <= last
  PROVE  InOrder(past, more, last)
  <1> DEFINE C == Len(coming)
  <1>1. /\ DOMAIN past = 1 .. Len(past) /\ DOMAIN coming = 1 .. C /\ C \in Nat
        /\ DOMAIN more = 1 .. C + k /\ m.id \in Nat
        /\ \A i \in DOMAIN past : past[i].id \in Nat
        /\ \A i \in DOMAIN coming : coming[i].id \in Nat
    BY OrderFacts DEF Messages
  <1>2. \A i \in DOMAIN more : (i \in DOMAIN coming /\ more[i] = coming[i])
                               \/ (i \in C + 1 .. C + k /\ more[i] = m)
    BY <1>1
  <1>3. /\ Ascending(past) /\ Ascending(coming)
        /\ \A i \in DOMAIN past : IsEvent(past[i])
        /\ \A i \in DOMAIN past : Raised(past[i]) => past[i].id <= n
        /\ \A i \in DOMAIN coming : Raised(coming[i]) => coming[i].id <= n
        /\ \A i \in DOMAIN past : \A j \in DOMAIN coming :
              (Raised(past[i]) /\ Raised(coming[j])) => past[i].id < coming[j].id
    BY DEF InOrder
  <1> HIDE DEF C
  <1>4. Ascending(more)
    <2> SUFFICES ASSUME NEW i \in DOMAIN more, NEW j \in DOMAIN more, i < j,
                        Raised(more[i]), Raised(more[j])
                 PROVE  more[i].id < more[j].id
      BY DEF Ascending
    <2>1. CASE j \in DOMAIN coming
      BY <1>1, <1>2, <1>3, <2>1 DEF Ascending
    <2>2. CASE j \in C + 1 .. C + k /\ more[j] = m
      <3>1. k <= 1 /\ n < m.id
        BY <2>2
      <3>2. i \in DOMAIN coming /\ more[i] = coming[i]
        BY <1>1, <1>2, <2>2, <3>1
      <3>3. coming[i].id <= n /\ coming[i].id \in Nat
        BY <1>1, <1>3, <3>2
      <3>4. coming[i].id < m.id
        BY <1>1, <3>1, <3>3
      <3> QED BY <2>2, <3>2, <3>4
    <2> QED BY <1>2, <2>1, <2>2
  <1>5. ASSUME NEW i \in DOMAIN more, Raised(more[i]) PROVE more[i].id <= last
    <2>1. CASE i \in DOMAIN coming /\ more[i] = coming[i]
      BY <1>1, <1>3, <1>5, <2>1
    <2>2. CASE more[i] = m
      BY <1>5, <2>2
    <2> QED BY <1>2, <2>1, <2>2
  <1>6. ASSUME NEW i \in DOMAIN past, NEW j \in DOMAIN more, Raised(past[i]), Raised(more[j])
        PROVE  past[i].id < more[j].id
    <2>1. CASE j \in DOMAIN coming /\ more[j] = coming[j]
      BY <1>3, <1>6, <2>1
    <2>2. CASE more[j] = m
      <3>1. past[i].id <= n /\ past[i].id \in Nat /\ n < m.id
        BY <1>1, <1>3, <1>6, <2>2
      <3>2. past[i].id < m.id
        BY <1>1, <3>1
      <3> QED BY <2>2, <3>2
    <2> QED BY <1>2, <2>1, <2>2
  <1>7. \A i \in DOMAIN past : Raised(past[i]) => past[i].id <= last
    BY <1>1, <1>3
  <1> QED BY <1>3, <1>4, <1>5, <1>6, <1>7 DEF InOrder

LEMMA OrderStays ==
  ASSUME NetworkInv, UNCHANGED <<net, heard>>, sends' \in Nat, sends <= sends',
         \A c \in Clients : toClient'[c] = toClient[c] \/ toClient'[c] = <<>>
  PROVE  EventsInOrder'
  <1>1. NetworkTypeOK /\ EventsInOrder
    BY DEF NetworkInv, PlayersOK
  <1>2. tcp' = tcp /\ sends \in Nat
    BY <1>1, NetworkFacts DEF tcp
  <1>3. \A c \in Clients : heard[c] \in Seq(Messages) /\ toClient[c] \in Seq(Messages)
    BY <1>1 DEF NetworkTypeOK
  <1>4. ASSUME tcp', NEW c \in Clients PROVE InOrder(heard[c], toClient'[c], sends')
    <2>1. InOrder(heard[c], toClient[c], sends)
      BY <1>1, <1>2, <1>4 DEF EventsInOrder
    <2>2. InOrder(heard[c], toClient[c], sends') /\ InOrder(heard[c], <<>>, sends')
      BY <1>2, <1>3, <2>1, OrderOfLess
    <2> QED BY <2>2
  <1>5. heard' = heard
    OBVIOUS
  <1> QED BY <1>4, <1>5 DEF EventsInOrder, InOrder, Ascending, Raised, IsEvent

LEMMA OrderIsHeard == EventsInOrder => HeardInOrder
  <1> SUFFICES ASSUME EventsInOrder, tcp, NEW c \in Clients, NEW i \in DOMAIN heard[c], NEW j \in DOMAIN heard[c],
                      i < j, heard[c][i].from = Server, heard[c][j].from = Server
               PROVE  heard[c][i].id < heard[c][j].id
    BY DEF HeardInOrder
  <1>1. InOrder(heard[c], toClient[c], sends)
    BY DEF EventsInOrder
  <1> QED BY <1>1 DEF InOrder, Ascending, Raised

LEMMA OrderWillBeHeard == EventsInOrder' => HeardInOrder'
  BY OrderIsHeard, PTL

LEMMA NetworkTogether ==
  ASSUME NetworkTypeOK', RegisteredOnce', NamesAreOwn', ServerStaysUp', GivesUpRightly',
         UdpOthersHear', NeverEchoed', OwnMessages', Listed', LinksHold', EventsInOrder'
  PROVE  NetworkInv'
  BY OrderWillBeHeard DEF NetworkInv, PlayersOK, TrafficOK

LEMMA NetworkInitially == NetworkInit => NetworkInv
  <1> SUFFICES ASSUME NetworkInit PROVE NetworkInv
    OBVIOUS
  <1>1. /\ net \in Networks /\ server = "up" /\ players = <<>> /\ frame = {} /\ backlog = <<>>
        /\ toServer = [c \in Clients |-> <<>>] /\ toClient = [c \in Clients |-> <<>>]
        /\ link = [c \in Clients |-> "none"] /\ disconnected = [c \in Clients |-> TRUE]
        /\ running = Clients /\ longest = [p \in Clients \cup {Server} |-> 0]
        /\ sends = 0 /\ copies = 0 /\ heard = [c \in Clients |-> <<>>]
        /\ owed = [c \in Clients |-> {}] /\ given = [c \in Clients |-> {}] /\ named = {}
    BY DEF NetworkInit
  <1>2. DOMAIN players = {} /\ DOMAIN backlog = {}
    BY <1>1
  <1>3. \A c \in Clients : DOMAIN heard[c] = {} /\ DOMAIN toClient[c] = {} /\ DOMAIN toServer[c] = {}
    BY <1>1
  <1>4. NetworkTypeOK
    <2>1. players \in Seq(Players) /\ backlog \in Seq(Clients) /\ frame \subseteq DOMAIN players
      BY <1>1
    <2>2. toServer \in [Clients -> Seq(Messages)] /\ toClient \in [Clients -> Seq(Messages)]
          /\ heard \in [Clients -> Seq(Messages)]
      <3>1. <<>> \in Seq(Messages)
        OBVIOUS
      <3> QED BY <1>1, <3>1
    <2>3. link \in [Clients -> LinkStates] /\ disconnected \in [Clients -> BOOLEAN]
          /\ longest \in [Clients \cup {Server} -> net.lengths \cup {0}]
      BY <1>1 DEF LinkStates
    <2>4. sends \in 0 .. net.maxSends /\ copies \in 0 .. net.maxCopies
      <3> DEFINE a == net.maxSends
                 b == net.maxCopies
      <3>1. a \in Nat /\ b \in Nat
        BY <1>1, GameNetworkAssumption
      <3> HIDE DEF a, b
      <3>2. 0 \in 0 .. a /\ 0 \in 0 .. b
        BY <3>1
      <3> QED BY <1>1, <3>2 DEF a, b
    <2> QED BY <1>1, <2>1, <2>2, <2>3, <2>4 DEF NetworkTypeOK
  <1>5. RegisteredOnce /\ NamesAreOwn /\ Listed
    BY <1>1, <1>2 DEF RegisteredOnce, NamesAreOwn, Listed, IsInjective
  <1>6. ServerStaysUp /\ GivesUpRightly /\ LinksHold
    BY <1>1 DEF ServerStaysUp, GivesUpRightly, LinksHold
  <1>7. UdpOthersHear /\ NeverEchoed /\ HeardInOrder /\ EventsInOrder /\ OwnMessages
    BY <1>1, <1>3 DEF UdpOthersHear, OthersHear, NeverEchoed, HeardInOrder, EventsInOrder,
       InOrder, Ascending, OwnMessages
  <1> QED BY <1>4, <1>5, <1>6, <1>7 DEF NetworkInv, PlayersOK, TrafficOK

LEMMA ConnectKeeps ==
  ASSUME NetworkInv, NEW c \in Clients, Connect(c)
  PROVE  NetworkInv'
  <1>1. /\ c \in running /\ link[c] = "none" /\ server = "up"
        /\ link' = [link EXCEPT ![c] = "open"]
        /\ backlog' = IF tcp THEN Append(backlog, c) ELSE backlog
        /\ disconnected' = [disconnected EXCEPT ![c] = FALSE]
        /\ net' = net /\ server' = server /\ players' = players /\ frame' = frame
        /\ running' = running /\ toClient' = toClient /\ copies' = copies
        /\ longest' = longest /\ sends' = sends /\ heard' = heard /\ owed' = owed
        /\ given' = given /\ named' = named
    BY DEF Connect, observers
  <1>2. PICK n \in net.lengths :
           toServer' = [toServer EXCEPT ![c] = Append(toServer[c], Details(c, n))]
    BY DEF Connect
  <1>3. NetworkTypeOK /\ Listed /\ LinksHold /\ OwnMessages /\ RegisteredOnce /\ NamesAreOwn
        /\ ServerStaysUp /\ GivesUpRightly
    BY DEF NetworkInv, PlayersOK
  <1>4. tcp' = tcp /\ Messages' = Messages
    BY <1>1 DEF tcp, Messages
  <1>5. /\ toServer \in [Clients -> Seq(Messages)] /\ link \in [Clients -> LinkStates]
        /\ disconnected \in [Clients -> BOOLEAN] /\ backlog \in Seq(Clients)
    BY <1>3 DEF NetworkTypeOK
  <1> DEFINE d == Details(c, n)
  <1>6. d \in Messages /\ d.from = c /\ d.type = "requestPlayerDetails" /\ d.target = NickName[c]
    BY <1>3, MessageTypes DEF Details, Message
  <1> HIDE DEF d
  <1>7. /\ Append(toServer[c], d) \in Seq(Messages)
        /\ toServer' = [toServer EXCEPT ![c] = Append(toServer[c], d)]
    BY <1>2, <1>5, <1>6 DEF d
  <1>8. NetworkTypeOK'
    <2>1. toServer' \in [Clients -> Seq(Messages)]
      BY <1>5, <1>7
    <2>2. link' \in [Clients -> LinkStates] /\ disconnected' \in [Clients -> BOOLEAN]
      BY <1>1, <1>5 DEF LinkStates
    <2>3. backlog' \in Seq(Clients)
      BY <1>1, <1>5
    <2> QED BY <1>1, <1>3, <1>4, <2>1, <2>2, <2>3 DEF NetworkTypeOK
  <1>9. \A x \in Clients : (link[x] # "none" => link'[x] # "none") /\ link'[c] # "none"
    BY <1>1, <1>5
  <1>10. OwnMessages'
    <2> SUFFICES ASSUME NEW x \in Clients, NEW i \in DOMAIN toServer'[x]
                 PROVE  /\ toServer'[x][i].from = x
                        /\ toServer'[x][i].type \in {"requestPlayerDetails", "ping", "PlayerMoved"}
                        /\ toServer'[x][i].type # "ping" => toServer'[x][i].target = NickName[x]
      BY DEF OwnMessages
    <2>1. CASE i \in DOMAIN toServer[x] /\ toServer'[x][i] = toServer[x][i]
      BY <1>3, <2>1 DEF OwnMessages
    <2>2. CASE x = c /\ toServer'[x][i] = d
      BY <1>6, <2>2
    <2>3. (i \in DOMAIN toServer[x] /\ toServer'[x][i] = toServer[x][i])
          \/ (x = c /\ toServer'[x][i] = d)
      <3>1. CASE x # c
        BY <1>5, <1>7, <3>1
      <3>2. CASE x = c
        <4>1. toServer'[x] = Append(toServer[c], d)
          BY <1>5, <1>7, <3>2
        <4> QED BY <1>5, <1>6, <3>2, <4>1, AppendProperties
      <3> QED BY <3>1, <3>2
    <2> QED BY <2>1, <2>2, <2>3
  <1>11. Listed'
    <2>1. CASE ~tcp
      BY <1>1, <1>3, <1>4, <2>1 DEF Listed
    <2>2. CASE tcp
      <3>1. /\ backlog' \in Seq(Clients) /\ Len(backlog') = Len(backlog) + 1
            /\ backlog'[Len(backlog) + 1] = c /\ DOMAIN backlog' = 1 .. Len(backlog) + 1
            /\ \A i \in 1 .. Len(backlog) : backlog'[i] = backlog[i]
        BY <1>1, <1>5, <2>2, AppendProperties
      <3>2. Len(backlog) \in Nat /\ DOMAIN backlog = 1 .. Len(backlog)
            /\ \A i \in DOMAIN backlog : backlog[i] \in Clients
        BY <1>5
      <3>3. \A p \in DOMAIN players : players[p].client \in Clients
        BY <1>3, NetworkFacts
      <3>4. \A i \in DOMAIN backlog' : i \in DOMAIN backlog \/ i = Len(backlog) + 1
        BY <3>1, <3>2
      <3>5. \A i \in DOMAIN backlog : backlog'[i] = backlog[i] /\ backlog[i] # c
        BY <1>1, <1>3, <2>2, <3>1, <3>2 DEF Listed
      <3>6. IsInjective(backlog')
        BY <1>3, <2>2, <3>1, <3>4, <3>5 DEF Listed, IsInjective
      <3>7. \A i \in DOMAIN backlog' : \A p \in DOMAIN players : players[p].client # backlog'[i]
        BY <1>1, <1>3, <2>2, <3>1, <3>4, <3>5 DEF Listed
      <3>8. \A i \in DOMAIN backlog' : link'[backlog'[i]] # "none"
        BY <1>3, <1>9, <2>2, <3>1, <3>2, <3>4, <3>5 DEF Listed
      <3>9. \A p \in DOMAIN players : link'[players[p].client] # "none"
        BY <1>3, <1>9, <2>2, <3>3 DEF Listed
      <3> QED BY <1>1, <1>3, <1>4, <2>2, <3>6, <3>7, <3>8, <3>9 DEF Listed
    <2> QED BY <2>1, <2>2
  <1>12. LinksHold' /\ ServerStaysUp'
    BY <1>1, <1>3, <1>4, <1>5 DEF LinksHold, ServerStaysUp
  <1>13. GivesUpRightly'
    BY <1>1, <1>3, <1>5 DEF GivesUpRightly
  <1>14. RegisteredOnce' /\ NamesAreOwn'
    BY <1>1, <1>3, <1>4 DEF RegisteredOnce, NamesAreOwn, Port
  <1>15. UdpOthersHear' /\ NeverEchoed'
    BY <1>1, TrafficStays
  <1>16. EventsInOrder'
    <2>1. sends' \in Nat /\ sends <= sends'
      BY <1>1, <1>3, NetworkFacts
    <2> QED BY <1>1, <2>1, OrderStays
  <1> QED BY <1>8, <1>10, <1>11, <1>12, <1>13, <1>14, <1>15, <1>16, NetworkTogether

LEMMA ClientSendsKeeps ==
  ASSUME NetworkInv, NEW c \in Clients, NEW type \in {"PlayerMoved", "ping"},
         ClientSends(c, type)
  PROVE  NetworkInv'
  <1>1. /\ c \in running /\ sends < net.maxSends /\ sends' = sends + 1
        /\ net' = net /\ server' = server /\ players' = players /\ frame' = frame
        /\ backlog' = backlog /\ disconnected' = disconnected /\ toClient' = toClient
        /\ copies' = copies /\ longest' = longest /\ heard' = heard /\ owed' = owed
        /\ given' = given /\ named' = named
    BY DEF ClientSends, observers, serverVars
  <1>2. NetworkTypeOK /\ LinksHold /\ OwnMessages /\ ServerStaysUp /\ GivesUpRightly
    BY DEF NetworkInv, PlayersOK
  <1>3. tcp' = tcp /\ Messages' = Messages
    BY <1>1 DEF tcp, Messages
  <1>4. /\ toServer \in [Clients -> Seq(Messages)] /\ link \in [Clients -> LinkStates]
        /\ running \subseteq Clients
    BY <1>2 DEF NetworkTypeOK
  <1>5. sends' \in Nat /\ sends <= sends' /\ sends' \in 0 .. net.maxSends
    <2> DEFINE b == net.maxSends
    <2>1. sends \in Nat /\ b \in Nat /\ sends < b /\ sends' = sends + 1
      BY <1>1, <1>2, NetworkFacts
    <2> HIDE DEF b
    <2>2. sends' \in Nat /\ sends <= sends' /\ sends' \in 0 .. b
      BY <2>1
    <2> QED BY <2>2 DEF b
  <1>6. /\ toServer' \in [Clients -> Seq(Messages)] /\ OwnMessages'
        /\ link' \in [Clients -> LinkStates] /\ running' \subseteq Clients
        /\ LinksHold' /\ ServerStaysUp' /\ GivesUpRightly'
        /\ \A x \in Clients : link[x] # "none" => link'[x] # "none"
    <2>1. CASE link[c] = "open" /\ link' = link /\ running' = running
      <3>1. PICK n \in net.lengths :
               toServer' = [toServer EXCEPT ![c] = Append(toServer[c],
                  Message(type, IF type = "ping" THEN "" ELSE NickName[c], c, n, sends'))]
        BY <2>1, <1>4 DEF ClientSends
      <3> DEFINE m == Message(type, IF type = "ping" THEN "" ELSE NickName[c], c, n, sends')
      <3>2. /\ m \in Messages /\ m.from = c /\ m.type \in {"PlayerMoved", "ping"}
            /\ m.type # "ping" => m.target = NickName[c]
        BY <1>2, <1>5, MessageTypes DEF Message
      <3>3. toServer' = [toServer EXCEPT ![c] = Append(toServer[c], m)]
        BY <3>1
      <3> HIDE DEF m
      <3>4. toServer' \in [Clients -> Seq(Messages)]
        <4>1. Append(toServer[c], m) \in Seq(Messages)
          BY <1>4, <3>2
        <4> QED BY <1>4, <3>3, <4>1
      <3>5. OwnMessages'
        <4> SUFFICES ASSUME NEW x \in Clients, NEW i \in DOMAIN toServer'[x]
                     PROVE  /\ toServer'[x][i].from = x
                            /\ toServer'[x][i].type \in {"requestPlayerDetails", "ping", "PlayerMoved"}
                            /\ toServer'[x][i].type # "ping" => toServer'[x][i].target = NickName[x]
          BY DEF OwnMessages
        <4>1. CASE i \in DOMAIN toServer[x] /\ toServer'[x][i] = toServer[x][i]
          BY <1>2, <4>1 DEF OwnMessages
        <4>2. CASE x = c /\ toServer'[x][i] = m
          BY <3>2, <4>2
        <4>3. (i \in DOMAIN toServer[x] /\ toServer'[x][i] = toServer[x][i])
              \/ (x = c /\ toServer'[x][i] = m)
          <5>1. CASE x # c
            BY <1>4, <3>3, <5>1
          <5>2. CASE x = c
            <6>1. toServer'[x] = Append(toServer[c], m)
              BY <1>4, <3>3, <5>2
            <6> QED BY <1>4, <3>2, <5>2, <6>1, AppendProperties
          <5> QED BY <5>1, <5>2
        <4> QED BY <4>1, <4>2, <4>3
      <3>6. LinksHold' /\ ServerStaysUp' /\ GivesUpRightly'
        BY <1>1, <1>2, <1>3, <2>1 DEF LinksHold, ServerStaysUp, GivesUpRightly
      <3> QED BY <1>4, <2>1, <3>4, <3>5, <3>6
    <2>2. CASE /\ link[c] \in {"server ended", "server reset"} /\ toServer' = toServer
               /\ \/ /\ link' = [link EXCEPT ![c] = IF type = "ping" THEN "closed" ELSE "server ended"]
                     /\ running' = running
                  \/ running' = running \ {c} /\ link' = link
      <3>1. server # "up"
        BY <1>2, <2>2 DEF LinksHold
      <3>2. link' \in [Clients -> LinkStates] /\ running' \subseteq running
            /\ \A x \in Clients : link[x] # "none" => link'[x] # "none"
        BY <1>4, <2>2 DEF LinkStates
      <3>3. LinksHold' /\ GivesUpRightly'
        BY <1>1, <3>1 DEF LinksHold, GivesUpRightly
      <3>4. ServerStaysUp'
        <4>1. running' # Clients \/ running' = running
          BY <1>1, <1>4, <3>2
        <4> QED BY <1>1, <1>2, <1>3, <4>1 DEF ServerStaysUp
      <3>5. OwnMessages'
        BY <1>2, <2>2 DEF OwnMessages
      <3> QED BY <1>4, <2>2, <3>2, <3>3, <3>4, <3>5
    <2> QED BY <2>1, <2>2 DEF ClientSends
  <1>7. NetworkTypeOK'
    BY <1>1, <1>2, <1>3, <1>5, <1>6 DEF NetworkTypeOK
  <1>8. RegisteredOnce' /\ NamesAreOwn' /\ Listed'
    BY <1>1, <1>6, PlayersStay
  <1>9. UdpOthersHear' /\ NeverEchoed'
    BY <1>1, TrafficStays
  <1>10. EventsInOrder'
    BY <1>1, <1>5, OrderStays
  <1> QED BY <1>6, <1>7, <1>8, <1>9, <1>10, NetworkTogether

(* A client's process ends, and its connection with it.                    *)
LEMMA EndsFacts ==
  ASSUME NetworkInv, NEW c \in running, Ends(c), UNCHANGED <<net, server, disconnected>>
  PROVE  /\ running' \subseteq Clients /\ link' \in [Clients -> LinkStates]
         /\ toClient' \in [Clients -> Seq(Messages)]
         /\ \A x \in Clients : toClient'[x] = toClient[x] \/ toClient'[x] = <<>>
         /\ \A x \in Clients : link[x] # "none" => link'[x] # "none"
         /\ LinksHold' /\ ServerStaysUp' /\ GivesUpRightly'
  <1>1. NetworkTypeOK /\ LinksHold /\ ServerStaysUp /\ GivesUpRightly
    BY DEF NetworkInv, PlayersOK
  <1>2. /\ running' = running \ {c} /\ running \subseteq Clients /\ c \in Clients
        /\ link \in [Clients -> LinkStates] /\ toClient \in [Clients -> Seq(Messages)]
        /\ toClient' = [toClient EXCEPT ![c] = <<>>]
        /\ tcp' = tcp
    BY <1>1 DEF Ends, NetworkTypeOK, tcp
  <1>3. /\ link' \in [Clients -> LinkStates] /\ \A x \in Clients : x # c => link'[x] = link[x]
        /\ link[c] # "open" \/ ~tcp => link'[c] = link[c]
        /\ link[c] = "open" /\ tcp => link'[c] \in {"client ended", "client reset"}
    <2>1. PICK new \in LinkStates :
             /\ link' = [link EXCEPT ![c] = new]
             /\ link[c] # "open" \/ ~tcp => new = link[c]
             /\ link[c] = "open" /\ tcp => new \in {"client ended", "client reset"}
      BY <1>2 DEF Ends, LinkStates
    <2> QED BY <1>2, <2>1
  <1>4. <<>> \in Seq(Messages)
    OBVIOUS
  <1>5. /\ toClient' \in [Clients -> Seq(Messages)]
        /\ \A x \in Clients : toClient'[x] = toClient[x] \/ toClient'[x] = <<>>
    BY <1>2, <1>4
  <1>6. \A x \in Clients : link[x] # "none" => link'[x] # "none"
    BY <1>3
  <1>7. LinksHold'
    <2> SUFFICES ASSUME server = "up", NEW x \in Clients
                 PROVE  \/ link'[x] \in {"none", "open"}
                        \/ tcp /\ link'[x] \in {"client ended", "client reset"} /\ x \notin running'
      BY <1>2 DEF LinksHold
    <2>1. \/ link[x] \in {"none", "open"}
          \/ tcp /\ link[x] \in {"client ended", "client reset"} /\ x \notin running
      BY <1>1 DEF LinksHold
    <2>2. CASE x = c
      BY <1>2, <1>3, <2>1, <2>2
    <2>3. CASE x # c
      BY <1>2, <1>3, <2>1, <2>3
    <2> QED BY <2>2, <2>3
  <1>8. ServerStaysUp'
    BY <1>1, <1>2 DEF ServerStaysUp
  <1>9. GivesUpRightly'
    <2> SUFFICES ASSUME NEW x \in Clients, disconnected[x]
                 PROVE  link'[x] = "none" \/ server # "up" \/ x \notin running'
      BY DEF GivesUpRightly
    <2>1. link[x] = "none" \/ server # "up" \/ x \notin running
      BY <1>1 DEF GivesUpRightly
    <2> QED BY <1>2, <1>3, <2>1
  <1> QED BY <1>2, <1>3, <1>5, <1>6, <1>7, <1>8, <1>9

LEMMA HeldFacts ==
  ASSUME NetworkTypeOK, NEW r \in Clients \cup {Server}, NEW m \in Messages, Held(r, m)
  PROVE  /\ longest' \in [Clients \cup {Server} -> net.lengths \cup {0}]
         /\ \A x \in Clients \cup {Server} : x # r => longest'[x] = longest[x]
  <1>1. longest \in [Clients \cup {Server} -> net.lengths \cup {0}] /\ m.length \in net.lengths
    BY DEF NetworkTypeOK, Messages
  <1>2. PICK n \in net.lengths \cup {0} : longest' = [longest EXCEPT ![r] = n]
    BY <1>1 DEF Held
  <1> QED BY <1>1, <1>2

(* A message is taken from a queue, the first one if the network is TCP.   *)
LEMMA TakenFacts ==
  ASSUME NetworkTypeOK, NEW q \in Seq(Messages), NEW i \in DOMAIN q, NEW rest, Taken(q, i, rest)
  PROVE  /\ rest \in Seq(Messages) /\ copies' \in 0 .. net.maxCopies
         /\ \A k \in DOMAIN rest : \E j \in DOMAIN q : rest[k] = q[j]
         /\ tcp => /\ i = 1 /\ Len(rest) = Len(q) - 1
                   /\ \A k \in 1 .. Len(q) - 1 : rest[k] = q[k + 1]
  <1>1. DOMAIN q = 1 .. Len(q) /\ Len(q) \in Nat /\ i \in 1 .. Len(q)
    OBVIOUS
  <1> DEFINE r == RemoveAt(q, i)
  <1>2. /\ r \in Seq(Messages) /\ Len(r) = Len(q) - 1
        /\ \A k \in 1 .. Len(q) - 1 : r[k] = q[IF k < i THEN k ELSE k + 1]
    BY <1>1, RemoveAtFacts
  <1>3. \A k \in DOMAIN r : \E j \in DOMAIN q : r[k] = q[j]
    <2> SUFFICES ASSUME NEW k \in DOMAIN r PROVE \E j \in DOMAIN q : r[k] = q[j]
      OBVIOUS
    <2> HIDE DEF r
    <2>1. k \in 1 .. Len(q) - 1
      BY <1>1, <1>2
    <2>2. (IF k < i THEN k ELSE k + 1) \in DOMAIN q
      BY <1>1, <2>1
    <2> QED BY <1>2, <2>1, <2>2
  <1>4. i = 1 => \A k \in 1 .. Len(q) - 1 : r[k] = q[k + 1]
    <2> SUFFICES ASSUME i = 1, NEW k \in 1 .. Len(q) - 1 PROVE r[k] = q[k + 1]
      OBVIOUS
    <2>1. ~(k < i)
      BY <1>1
    <2> HIDE DEF r
    <2> QED BY <1>2, <2>1
  <1>5. \/ rest = r /\ copies' = copies
        \/ rest = q /\ ~tcp /\ copies' = copies + 1 /\ copies < net.maxCopies
    BY DEF Taken
  <1>6. copies' \in 0 .. net.maxCopies
    <2> DEFINE b == net.maxCopies
    <2>1. copies \in 0 .. b /\ b \in Nat /\ (copies' = copies \/ (copies' = copies + 1 /\ copies < b))
      BY <1>5, NetworkFacts DEF NetworkTypeOK
    <2> HIDE DEF b
    <2>2. copies' \in 0 .. b
      BY <2>1
    <2> QED BY <2>2 DEF b
  <1>7. tcp => i = 1
    BY DEF Taken
  <1> HIDE DEF r
  <1>8. CASE rest = r
    BY <1>2, <1>3, <1>4, <1>6, <1>7, <1>8
  <1>9. CASE rest = q /\ ~tcp
    BY <1>6, <1>9
  <1> QED BY <1>5, <1>8, <1>9

LEMMA LeaveKeeps ==
  ASSUME NetworkInv, NEW c \in Clients, Leave(c)
  PROVE  NetworkInv'
  <1>1. /\ c \in running /\ Ends(c) /\ net' = net /\ server' = server /\ players' = players
        /\ frame' = frame /\ backlog' = backlog /\ disconnected' = disconnected
        /\ toServer' = toServer /\ copies' = copies /\ longest' = longest /\ sends' = sends
        /\ heard' = heard /\ owed' = owed /\ given' = given /\ named' = named
    BY DEF Leave, serverVars, observers
  <1>2. NetworkTypeOK /\ Messages' = Messages /\ OwnMessages
    BY <1>1 DEF NetworkInv, PlayersOK, Messages
  <1>3. /\ running' \subseteq Clients /\ link' \in [Clients -> LinkStates]
        /\ toClient' \in [Clients -> Seq(Messages)]
        /\ \A x \in Clients : toClient'[x] = toClient[x] \/ toClient'[x] = <<>>
        /\ \A x \in Clients : link[x] # "none" => link'[x] # "none"
        /\ LinksHold' /\ ServerStaysUp' /\ GivesUpRightly'
    BY <1>1, EndsFacts
  <1>4. NetworkTypeOK'
    BY <1>1, <1>2, <1>3 DEF NetworkTypeOK
  <1>5. RegisteredOnce' /\ NamesAreOwn' /\ Listed'
    BY <1>1, <1>3, PlayersStay
  <1>6. UdpOthersHear' /\ NeverEchoed'
    BY <1>1, TrafficStays
  <1>7. OwnMessages'
    BY <1>1, <1>2 DEF OwnMessages
  <1>8. EventsInOrder'
    <2>1. sends' \in Nat /\ sends <= sends'
      BY <1>1, <1>2, NetworkFacts
    <2> QED BY <1>1, <1>3, <2>1, OrderStays
  <1> QED BY <1>3, <1>4, <1>5, <1>6, <1>7, <1>8, NetworkTogether

LEMMA ReadResetKeeps ==
  ASSUME NetworkInv, NEW c \in Clients, ReadReset(c)
  PROVE  NetworkInv'
  <1>1. /\ link[c] = "server reset" /\ disconnected' = [disconnected EXCEPT ![c] = TRUE]
        /\ link' = [link EXCEPT ![c] = "server ended"]
        /\ net' = net /\ server' = server /\ players' = players /\ frame' = frame
        /\ backlog' = backlog /\ running' = running /\ toServer' = toServer
        /\ toClient' = toClient /\ copies' = copies /\ longest' = longest /\ sends' = sends
        /\ heard' = heard /\ owed' = owed /\ given' = given /\ named' = named
    BY DEF ReadReset, IsReset, serverVars, wires, observers
  <1>2. /\ NetworkTypeOK /\ Messages' = Messages /\ OwnMessages /\ LinksHold /\ ServerStaysUp
        /\ tcp' = tcp
    BY <1>1 DEF NetworkInv, PlayersOK, Messages, tcp
  <1>3. server # "up"
    BY <1>1, <1>2 DEF LinksHold
  <1>4. /\ link' \in [Clients -> LinkStates] /\ disconnected' \in [Clients -> BOOLEAN]
        /\ \A x \in Clients : link[x] # "none" => link'[x] # "none"
    BY <1>1, <1>2 DEF NetworkTypeOK, LinkStates
  <1>5. NetworkTypeOK'
    BY <1>1, <1>2, <1>4 DEF NetworkTypeOK
  <1>6. LinksHold' /\ ServerStaysUp' /\ GivesUpRightly'
    BY <1>1, <1>2, <1>3 DEF LinksHold, ServerStaysUp, GivesUpRightly
  <1>7. RegisteredOnce' /\ NamesAreOwn' /\ Listed'
    BY <1>1, <1>4, PlayersStay
  <1>8. UdpOthersHear' /\ NeverEchoed'
    BY <1>1, TrafficStays
  <1>9. OwnMessages'
    BY <1>1, <1>2 DEF OwnMessages
  <1>10. EventsInOrder'
    <2>1. sends \in Nat
      BY <1>2, NetworkFacts
    <2>2. sends' = sends
      BY <1>1
    <2>3. sends' \in Nat /\ sends <= sends'
      BY <2>1, <2>2
    <2> QED BY <1>1, <2>3, OrderStays
  <1> QED BY <1>5, <1>6, <1>7, <1>8, <1>9, <1>10, NetworkTogether

LEMMA ReadKeeps ==
  ASSUME NetworkInv, NEW c \in Clients, Read(c)
  PROVE  NetworkInv'
  <1>1. /\ c \in running /\ net' = net /\ server' = server /\ players' = players
        /\ frame' = frame /\ backlog' = backlog /\ disconnected' = disconnected
        /\ toServer' = toServer /\ sends' = sends
        /\ owed' = owed /\ given' = given /\ named' = named
    BY DEF Read, serverVars
  <1>2. PICK i \in DOMAIN toClient[c] :
          LET m == toClient[c][i] IN
          /\ Held(c, m)
          /\ \/ /\ Parses(c, m)
                /\ \E rest \in {RemoveAt(toClient[c], i), toClient[c]} :
                      Taken(toClient[c], i, rest) /\ toClient' = [toClient EXCEPT ![c] = rest]
                /\ heard' = [heard EXCEPT ![c] = IF IsEvent(m) THEN Append(heard[c], m) ELSE heard[c]]
                /\ UNCHANGED <<link, running>>
             \/ ~Parses(c, m) /\ (tcp => i = 1) /\ Ends(c) /\ UNCHANGED <<copies, heard>>
    BY DEF Read
  <1> DEFINE m == toClient[c][i]
  <1>3. /\ NetworkTypeOK /\ Messages' = Messages /\ OwnMessages /\ LinksHold /\ ServerStaysUp
        /\ GivesUpRightly /\ tcp' = tcp /\ EventsInOrder
    BY <1>1 DEF NetworkInv, PlayersOK, Messages, tcp
  <1>4. /\ toClient \in [Clients -> Seq(Messages)] /\ heard \in [Clients -> Seq(Messages)]
        /\ m \in Messages /\ sends \in Nat
    BY <1>3, NetworkFacts DEF NetworkTypeOK
  <1>5. longest' \in [Clients \cup {Server} -> net.lengths \cup {0}]
    BY <1>2, <1>3, <1>4, HeldFacts
  <1>6. UdpOthersHear' /\ NeverEchoed'
    BY <1>1, TrafficStays
  <1>7. OwnMessages'
    BY <1>1, <1>3 DEF OwnMessages
  <1>8. CASE Ends(c) /\ UNCHANGED <<copies, heard>>
    <2>1. /\ running' \subseteq Clients /\ link' \in [Clients -> LinkStates]
          /\ toClient' \in [Clients -> Seq(Messages)]
          /\ \A x \in Clients : toClient'[x] = toClient[x] \/ toClient'[x] = <<>>
          /\ \A x \in Clients : link[x] # "none" => link'[x] # "none"
          /\ LinksHold' /\ ServerStaysUp' /\ GivesUpRightly'
      BY <1>1, <1>8, EndsFacts
    <2>2. NetworkTypeOK'
      BY <1>1, <1>3, <1>5, <1>8, <2>1 DEF NetworkTypeOK
    <2>3. RegisteredOnce' /\ NamesAreOwn' /\ Listed'
      BY <1>1, <2>1, PlayersStay
    <2>4. EventsInOrder'
      <3>1. sends' \in Nat /\ sends <= sends'
        BY <1>1, <1>4
      <3> QED BY <1>1, <1>8, <2>1, <3>1, OrderStays
    <2> QED BY <1>6, <1>7, <2>1, <2>2, <2>3, <2>4, NetworkTogether
  <1>9. CASE \E rest : /\ Taken(toClient[c], i, rest)
                       /\ toClient' = [toClient EXCEPT ![c] = rest]
                       /\ heard' = [heard EXCEPT ![c] = IF IsEvent(m) THEN Append(heard[c], m) ELSE heard[c]]
                       /\ UNCHANGED <<link, running>>
    <2>1. PICK rest : /\ Taken(toClient[c], i, rest)
                      /\ toClient' = [toClient EXCEPT ![c] = rest]
                      /\ heard' = [heard EXCEPT ![c] = IF IsEvent(m) THEN Append(heard[c], m) ELSE heard[c]]
                      /\ UNCHANGED <<link, running>>
      BY <1>9
    <2>2. /\ rest \in Seq(Messages) /\ copies' \in 0 .. net.maxCopies
          /\ tcp => /\ i = 1 /\ Len(rest) = Len(toClient[c]) - 1
                    /\ \A k \in 1 .. Len(toClient[c]) - 1 : rest[k] = toClient[c][k + 1]
      <3>1. toClient[c] \in Seq(Messages)
        BY <1>4
      <3> QED BY <1>3, <2>1, <3>1, TakenFacts
    <2>3. PICK more \in Seq(Messages) : /\ heard' = [heard EXCEPT ![c] = more]
                                        /\ IsEvent(m) => more = Append(heard[c], m)
                                        /\ ~IsEvent(m) => more = heard[c]
      <3> HIDE DEF m
      <3>1. heard[c] \in Seq(Messages) /\ Append(heard[c], m) \in Seq(Messages)
        BY <1>4
      <3> QED BY <2>1, <3>1
    <2>4. /\ toClient' \in [Clients -> Seq(Messages)] /\ heard' \in [Clients -> Seq(Messages)]
          /\ toClient'[c] = rest /\ heard'[c] = more
          /\ \A x \in Clients : x # c => toClient'[x] = toClient[x] /\ heard'[x] = heard[x]
      BY <1>4, <2>1, <2>2, <2>3
    <2>5. NetworkTypeOK'
      BY <1>1, <1>3, <1>5, <2>1, <2>2, <2>4 DEF NetworkTypeOK
    <2>6. RegisteredOnce' /\ NamesAreOwn' /\ Listed'
      BY <1>1, <2>1, PlayersStay
    <2>7. LinksHold' /\ ServerStaysUp' /\ GivesUpRightly'
      BY <1>1, <1>3, <2>1 DEF LinksHold, ServerStaysUp, GivesUpRightly
    <2>8. ASSUME tcp, NEW x \in Clients PROVE InOrder(heard'[x], toClient'[x], sends)
      <3>1. InOrder(heard[x], toClient[x], sends)
        BY <1>3, <2>8 DEF EventsInOrder
      <3>2. CASE x # c
        BY <2>4, <3>1, <3>2
      <3>3. CASE x = c
        <4> DEFINE past == heard[c]
                   coming == toClient[c]
        <4>1. /\ past \in Seq(Messages) /\ coming \in Seq(Messages) /\ InOrder(past, coming, sends)
              /\ 1 \in DOMAIN coming /\ m = coming[1] /\ Len(rest) = Len(coming) - 1
              /\ \A k \in 1 .. Len(coming) - 1 : rest[k] = coming[k + 1]
          BY <1>4, <2>2, <2>8, <3>1, <3>3
        <4>2. IsEvent(m) => more = Append(past, m)
          BY <2>3
        <4>3. ~IsEvent(m) => more = past
          BY <2>3
        <4> HIDE DEF past, coming, m
        <4>4. /\ InOrder(past, rest, sends)
              /\ IsEvent(coming[1]) => InOrder(Append(past, coming[1]), rest, sends)
          BY <1>4, <2>2, <4>1, OrderOfReading
        <4> QED BY <2>4, <3>3, <4>1, <4>2, <4>3, <4>4
      <3> QED BY <3>2, <3>3
    <2>9. EventsInOrder'
      BY <1>1, <1>3, <2>8 DEF EventsInOrder, InOrder, Ascending, Raised, IsEvent
    <2> QED BY <1>6, <1>7, <2>5, <2>6, <2>7, <2>9, NetworkTogether
  <1> QED BY <1>2, <1>8, <1>9

LEMMA LoseKeeps ==
  ASSUME NetworkInv, NEW c \in Clients, Lose(c)
  PROVE  NetworkInv'
  <1>1. /\ ~tcp /\ net' = net /\ server' = server /\ players' = players /\ frame' = frame
        /\ backlog' = backlog /\ link' = link /\ disconnected' = disconnected
        /\ running' = running /\ copies' = copies /\ longest' = longest /\ sends' = sends
        /\ heard' = heard /\ owed' = owed /\ given' = given /\ named' = named
    BY DEF Lose, serverVars, clientVars, observers
  <1>2. /\ NetworkTypeOK /\ Messages' = Messages /\ OwnMessages /\ LinksHold /\ ServerStaysUp
        /\ GivesUpRightly /\ tcp' = tcp
    BY <1>1 DEF NetworkInv, PlayersOK, Messages, tcp
  <1>3. /\ toServer \in [Clients -> Seq(Messages)] /\ toClient \in [Clients -> Seq(Messages)]
    BY <1>2 DEF NetworkTypeOK
  <1>4. /\ toServer' \in [Clients -> Seq(Messages)] /\ toClient' \in [Clients -> Seq(Messages)]
        /\ OwnMessages'
    <2>1. CASE \E i \in DOMAIN toServer[c] :
                  toServer' = [toServer EXCEPT ![c] = RemoveAt(toServer[c], i)] /\ toClient' = toClient
      <3>1. PICK i \in DOMAIN toServer[c] :
                  toServer' = [toServer EXCEPT ![c] = RemoveAt(toServer[c], i)] /\ toClient' = toClient
        BY <2>1
      <3> DEFINE q == toServer[c]
                 rest == RemoveAt(q, i)
      <3>2. q \in Seq(Messages) /\ i \in 1 .. Len(q) /\ Len(q) \in Nat /\ DOMAIN q = 1 .. Len(q)
        BY <1>3
      <3>3. /\ rest \in Seq(Messages) /\ Len(rest) = Len(q) - 1
            /\ \A k \in 1 .. Len(q) - 1 : rest[k] = q[IF k < i THEN k ELSE k + 1]
        BY <3>2, RemoveAtFacts
      <3> HIDE DEF rest
      <3>4. /\ toServer' \in [Clients -> Seq(Messages)] /\ toServer'[c] = rest
            /\ \A x \in Clients : x # c => toServer'[x] = toServer[x]
        BY <1>3, <3>1, <3>3 DEF rest
      <3>5. \A k \in DOMAIN rest : \E j \in DOMAIN q : rest[k] = q[j]
        <4> SUFFICES ASSUME NEW k \in DOMAIN rest PROVE \E j \in DOMAIN q : rest[k] = q[j]
          OBVIOUS
        <4>1. k \in 1 .. Len(q) - 1
          BY <3>2, <3>3
        <4>2. (IF k < i THEN k ELSE k + 1) \in DOMAIN q
          BY <3>2, <4>1
        <4> QED BY <3>3, <4>1, <4>2
      <3>6. \A x \in Clients : \A k \in DOMAIN toServer'[x] :
               \E j \in DOMAIN toServer[x] : toServer'[x][k] = toServer[x][j]
        BY <3>4, <3>5
      <3> QED BY <1>3, <3>1, <3>4, <3>6, MessagesStay
    <2>2. CASE \E i \in DOMAIN toClient[c] :
                  toClient' = [toClient EXCEPT ![c] = RemoveAt(toClient[c], i)] /\ toServer' = toServer
      <3>1. PICK i \in DOMAIN toClient[c] :
                  toClient' = [toClient EXCEPT ![c] = RemoveAt(toClient[c], i)] /\ toServer' = toServer
        BY <2>2
      <3> DEFINE q == toClient[c]
                 rest == RemoveAt(q, i)
      <3>2. q \in Seq(Messages) /\ i \in 1 .. Len(q)
        BY <1>3
      <3>3. rest \in Seq(Messages)
        BY <3>2, RemoveAtFacts
      <3> HIDE DEF rest
      <3>4. toClient' \in [Clients -> Seq(Messages)]
        BY <1>3, <3>1, <3>3 DEF rest
      <3>5. OwnMessages'
        BY <1>2, <3>1 DEF OwnMessages
      <3> QED BY <1>3, <3>1, <3>4, <3>5
    <2> QED BY <2>1, <2>2 DEF Lose
  <1>5. NetworkTypeOK'
    BY <1>1, <1>2, <1>4 DEF NetworkTypeOK
  <1>6. RegisteredOnce' /\ NamesAreOwn' /\ Listed'
    BY <1>1, PlayersStay
  <1>7. UdpOthersHear' /\ NeverEchoed'
    BY <1>1, TrafficStays
  <1>8. LinksHold' /\ ServerStaysUp' /\ GivesUpRightly'
    BY <1>1, <1>2 DEF LinksHold, ServerStaysUp, GivesUpRightly
  <1>9. EventsInOrder'
    BY <1>1, <1>2 DEF EventsInOrder
  <1> QED BY <1>4, <1>5, <1>6, <1>7, <1>8, <1>9, NetworkTogether

(* What the server sends.                                                  *)
LEMMA CopiesFacts ==
  ASSUME NEW m \in Messages, NEW c, NEW to, IsFiniteSet(DOMAIN to)
  PROVE  \E k \in Nat :
           /\ Copies(m, c, to) \in Seq(Messages) /\ Len(Copies(m, c, to)) = k
           /\ \A i \in 1 .. k : Copies(m, c, to)[i] = m
           /\ (\A p, q \in DOMAIN to : to[p] = to[q] => p = q) => k <= 1
  <1> DEFINE S == {p \in DOMAIN to : to[p] = c}
             k == Cardinality(S)
  <1>1. IsFiniteSet(S)
    BY FS_Subset
  <1>2. k \in Nat
    BY <1>1, FS_CardinalityType
  <1>3. ASSUME \A p, q \in DOMAIN to : to[p] = to[q] => p = q PROVE k <= 1
    <2>1. CASE S = {}
      BY <2>1, FS_EmptySet
    <2>2. CASE S # {}
      <3>1. PICK p \in S : TRUE
        BY <2>2
      <3>2. S = {p}
        BY <1>3, <3>1
      <3>3. k = 1
        BY <3>2, FS_Singleton
      <3> QED BY <3>3
    <2> QED BY <2>1, <2>2
  <1>4. Copies(m, c, to) = [i \in 1 .. k |-> m]
    BY DEF Copies
  <1> HIDE DEF k
  <1>5. [i \in 1 .. k |-> m] \in Seq(Messages) /\ Len([i \in 1 .. k |-> m]) = k
        /\ \A i \in 1 .. k : [j \in 1 .. k |-> m][i] = m
    BY <1>2
  <1> QED BY <1>2, <1>3, <1>4, <1>5

LEMMA ServerSendsFacts ==
  ASSUME NetworkInv, server = "up", NEW m \in Messages, NEW to, IsFiniteSet(DOMAIN to),
         \A p \in DOMAIN to : to[p] \in Clients /\ (tcp => link[to[p]] # "none"),
         ServerSends(to, m), UNCHANGED <<net, running, disconnected>>
  PROVE  /\ link' \in [Clients -> LinkStates] /\ toClient' \in [Clients -> Seq(Messages)]
         /\ server' \in {"up", "failed"}
         /\ \A c \in Clients : link[c] # "none" => link'[c] # "none"
         /\ \A c \in Clients : given[c] \subseteq given'[c]
         /\ \A c \in Clients : \A x \in given'[c] : x \in given[c] \/ (x = m /\ c \in Range(to))
         /\ \A c \in Clients : c \in Range(to) => m \in given'[c]
         /\ LinksHold' /\ ServerStaysUp' /\ GivesUpRightly'
  <1>1. /\ NetworkTypeOK /\ LinksHold /\ ServerStaysUp /\ GivesUpRightly /\ tcp' = tcp
        /\ link \in [Clients -> LinkStates] /\ toClient \in [Clients -> Seq(Messages)]
        /\ running \subseteq Clients
    BY DEF NetworkInv, PlayersOK, NetworkTypeOK, tcp
  <1> DEFINE gone == {c \in Range(to) : ~Alive(c)}
  <1>2. /\ link' = [c \in Clients |-> IF c \in gone THEN "client ended" ELSE link[c]]
        /\ server' \in {"up"} \cup {x \in {"failed"} : gone # {}}
        /\ given' = [c \in Clients |-> given[c] \cup {x \in {m} : c \in Range(to)}]
        /\ toClient' = [c \in Clients |->
             IF Alive(c) /\ c \in running THEN toClient[c] \o Copies(m, c, to) ELSE toClient[c]]
    BY DEF ServerSends
  <1>3. \A c \in gone : c \in Clients /\ tcp /\ link[c] # "none" /\ c \notin running
    BY <1>1 DEF Range, Alive, LinksHold
  <1>4. \A c \in Clients : link'[c] = link[c] \/ (c \in gone /\ link'[c] = "client ended")
    BY <1>2
  <1>5. link' \in [Clients -> LinkStates]
    BY <1>1, <1>2 DEF LinkStates
  <1>6. \A c \in Clients : link[c] # "none" => link'[c] # "none"
    BY <1>4
  <1>7. toClient' \in [Clients -> Seq(Messages)]
    <2>1. \A c \in Clients : toClient[c] \o Copies(m, c, to) \in Seq(Messages)
      <3> TAKE c \in Clients
      <3>1. Copies(m, c, to) \in Seq(Messages)
        BY CopiesFacts
      <3> QED BY <1>1, <3>1, ConcatProperties
    <2> QED BY <1>1, <1>2, <2>1
  <1>8. server' \in {"up", "failed"} /\ (server' = "failed" => gone # {})
    BY <1>2
  <1>9. /\ \A c \in Clients : given[c] \subseteq given'[c]
        /\ \A c \in Clients : \A x \in given'[c] : x \in given[c] \/ (x = m /\ c \in Range(to))
        /\ \A c \in Clients : c \in Range(to) => m \in given'[c]
    BY <1>2
  <1> HIDE DEF gone
  <1>10. LinksHold'
    <2> SUFFICES ASSUME NEW c \in Clients
                 PROVE  \/ link'[c] \in {"none", "open"}
                        \/ tcp /\ link'[c] \in {"client ended", "client reset"} /\ c \notin running
      BY <1>1 DEF LinksHold
    <2> QED BY <1>1, <1>3, <1>4 DEF LinksHold
  <1>11. ServerStaysUp'
    <2> SUFFICES ASSUME server' = "failed" PROVE tcp /\ running # Clients
      BY <1>1 DEF ServerStaysUp
    <2> QED BY <1>3, <1>8
  <1>12. GivesUpRightly'
    <2> SUFFICES ASSUME NEW c \in Clients, disconnected[c]
                 PROVE  link'[c] = "none" \/ server' # "up" \/ c \notin running
      BY DEF GivesUpRightly
    <2>1. link[c] = "none" \/ c \notin running
      BY <1>1 DEF GivesUpRightly
    <2> QED BY <1>3, <1>4, <2>1
  <1> QED BY <1>5, <1>6, <1>7, <1>8, <1>9, <1>10, <1>11, <1>12

LEMMA OrderOfTheSent ==
  ASSUME NetworkInv, NEW m \in Messages, NEW to, IsFiniteSet(DOMAIN to), ServerSends(to, m),
         UNCHANGED <<net, heard>>, sends' \in Nat, sends <= sends',
         Raised(m) => /\ \A p, q \in DOMAIN to : to[p] = to[q] => p = q
                      /\ sends < m.id /\ m.id <= sends'
  PROVE  EventsInOrder'
  <1>1. NetworkTypeOK /\ EventsInOrder
    BY DEF NetworkInv, PlayersOK
  <1>2. tcp' = tcp /\ sends \in Nat
    BY <1>1, NetworkFacts DEF tcp
  <1>3. \A c \in Clients : heard[c] \in Seq(Messages) /\ toClient[c] \in Seq(Messages)
    BY <1>1 DEF NetworkTypeOK
  <1>4. ASSUME tcp, NEW c \in Clients PROVE InOrder(heard[c], toClient'[c], sends')
    <2> DEFINE past == heard[c]
               coming == toClient[c]
               last == sends'
               n == sends
    <2>1. past \in Seq(Messages) /\ coming \in Seq(Messages) /\ n \in Nat /\ last \in Nat
          /\ n <= last /\ InOrder(past, coming, n)
      BY <1>1, <1>2, <1>3, <1>4 DEF EventsInOrder
    <2>2. toClient'[c] = coming \/ toClient'[c] = coming \o Copies(m, c, to)
      BY DEF ServerSends
    <2>3. CASE toClient'[c] = coming
      <3> HIDE DEF past, coming, last, n
      <3>1. InOrder(past, coming, last)
        BY <2>1, OrderOfLess
      <3> QED BY <2>3, <3>1 DEF past, last
    <2>4. CASE toClient'[c] = coming \o Copies(m, c, to)
      <3> DEFINE new == Copies(m, c, to)
                 more == coming \o new
      <3>1. PICK k \in Nat :
              /\ new \in Seq(Messages) /\ Len(new) = k /\ \A i \in 1 .. k : new[i] = m
              /\ (\A p, q \in DOMAIN to : to[p] = to[q] => p = q) => k <= 1
        BY CopiesFacts
      <3>2. Raised(m) => k <= 1 /\ n < m.id /\ m.id <= last
        BY <3>1
      <3> HIDE DEF new, past, coming, last, n
      <3>3. /\ more \in Seq(Messages) /\ Len(more) = Len(coming) + Len(new)
            /\ \A i \in 1 .. Len(coming) + Len(new) :
                 more[i] = IF i <= Len(coming) THEN coming[i] ELSE new[i - Len(coming)]
        <4>1. coming \in Seq(Messages) /\ new \in Seq(Messages)
          BY <2>1, <3>1
        <4> QED BY ONLY <4>1, ConcatProperties
      <3> HIDE DEF more
      <3>4. Len(coming) \in Nat
        BY <2>1
      <3>5. \A i \in 1 .. Len(coming) : more[i] = coming[i]
        BY <3>1, <3>3, <3>4
      <3>6. \A i \in Len(coming) + 1 .. Len(coming) + k : more[i] = m
        <4> SUFFICES ASSUME NEW i \in Len(coming) + 1 .. Len(coming) + k PROVE more[i] = m
          OBVIOUS
        <4>1. ~(i <= Len(coming)) /\ i - Len(coming) \in 1 .. k /\ i \in 1 .. Len(coming) + k
          BY <3>4
        <4> QED BY <3>1, <3>3, <4>1
      <3>7. InOrder(past, more, last)
        BY <2>1, <3>1, <3>2, <3>3, <3>5, <3>6, OrderOfSending
      <3> QED BY <2>4, <3>7 DEF past, last, more, new
    <2> QED BY <2>2, <2>3, <2>4
  <1>5. heard' = heard
    OBVIOUS
  <1> QED BY <1>2, <1>4, <1>5 DEF EventsInOrder, InOrder, Ascending, Raised, IsEvent

(* GameServer over TCP. *)
LEMMA ListenKeeps ==
  ASSUME NetworkInv, Listen
  PROVE  NetworkInv'
  <1>1. /\ tcp /\ server = "up" /\ frame = {} /\ frame' = Selected
        /\ net' = net /\ server' = server /\ link' = link /\ disconnected' = disconnected
        /\ running' = running /\ toServer' = toServer /\ toClient' = toClient
        /\ copies' = copies /\ longest' = longest /\ sends' = sends
        /\ heard' = heard /\ owed' = owed /\ given' = given /\ named' = named
    BY DEF Listen, clientVars, wires, observers
  <1>2. \/ backlog = <<>> /\ players' = players /\ backlog' = backlog
        \/ /\ backlog # <<>> /\ backlog' = Tail(backlog)
           /\ players' = Append(players, NewPlayer(Head(backlog), "", GetsWatched))
    BY DEF Listen
  <1>3. /\ NetworkTypeOK /\ Messages' = Messages /\ OwnMessages /\ LinksHold /\ ServerStaysUp
        /\ GivesUpRightly /\ RegisteredOnce /\ NamesAreOwn /\ Listed /\ EventsInOrder /\ tcp' = tcp
    BY <1>1 DEF NetworkInv, PlayersOK, Messages, tcp
  <1>4. /\ players \in Seq(Players) /\ backlog \in Seq(Clients)
        /\ DOMAIN players = 1 .. Len(players) /\ Len(players) \in Nat
        /\ DOMAIN backlog = 1 .. Len(backlog) /\ Len(backlog) \in Nat
    BY <1>3, NetworkFacts DEF NetworkTypeOK
  <1>5. \A p \in Selected : p \in DOMAIN players /\ players[p].isConnected
    BY DEF Selected, Readable, InSelect
  <1>6. /\ players' \in Seq(Players) /\ backlog' \in Seq(Clients)
        /\ frame' \subseteq DOMAIN players' /\ RegisteredOnce' /\ NamesAreOwn' /\ Listed'
    <2>1. CASE backlog = <<>> /\ players' = players /\ backlog' = backlog
      <3>1. RegisteredOnce' /\ NamesAreOwn' /\ frame' \subseteq DOMAIN players'
        BY <1>1, <1>3, <1>5, <2>1 DEF RegisteredOnce, NamesAreOwn, Port
      <3>2. Listed'
        BY <1>1, <1>3, <1>5, <2>1 DEF Listed
      <3> QED BY <1>4, <2>1, <3>1, <3>2
    <2>2. CASE /\ backlog # <<>> /\ backlog' = Tail(backlog)
               /\ players' = Append(players, NewPlayer(Head(backlog), "", GetsWatched))
      <3> DEFINE c == backlog[1]
                 r == NewPlayer(c, "", GetsWatched)
                 N == Len(players)
                 rest == Tail(backlog)
      <3>1. 1 \in DOMAIN backlog /\ c \in Clients /\ Head(backlog) = c
        <4>1. backlog \in Seq(Clients) /\ backlog # <<>>
          BY <1>4, <2>2
        <4> QED BY ONLY <4>1
      <3>2. r \in Players /\ r.client = c /\ r.nickname = "" /\ r.isConnected
        BY <3>1 DEF NewPlayer, Players, GetsWatched
      <3>3. /\ rest \in Seq(Clients) /\ DOMAIN rest = 1 .. Len(backlog) - 1
            /\ \A i \in DOMAIN rest : i + 1 \in DOMAIN backlog /\ rest[i] = backlog[i + 1] /\ i + 1 # 1
        BY <1>4, <3>1
      <3>4. \A i, j \in DOMAIN rest : i + 1 = j + 1 => i = j
        BY <1>4, <3>3
      <3> HIDE DEF c, r, rest
      <3>5. players' = Append(players, r) /\ backlog' = rest
        BY <2>2, <3>1 DEF r, c, rest
      <3>6. /\ players' \in Seq(Players) /\ players'[N + 1] = r
            /\ DOMAIN players' = 1 .. N + 1
            /\ \A p \in 1 .. N : players'[p] = players[p]
        <4>1. players \in Seq(Players) /\ r \in Players /\ N \in Nat /\ DOMAIN players = 1 .. N
              /\ players' = Append(players, r)
          BY <1>4, <3>2, <3>5
        <4> HIDE DEF N
        <4>2. N = Len(players)
          BY <1>4 DEF N
        <4> QED BY ONLY <4>1, <4>2, AppendProperties
      <3>7. \A p \in DOMAIN players' : \/ p \in DOMAIN players /\ players'[p] = players[p]
                                       \/ p = N + 1 /\ players'[p] = r
        BY <1>4, <3>6
      <3>8. \A p \in DOMAIN players : /\ players'[p] = players[p] /\ p \in DOMAIN players'
                                      /\ players[p].client # c /\ link[players[p].client] # "none"
        BY <1>1, <1>3, <1>4, <3>1, <3>6 DEF Listed, c
      <3>9. RegisteredOnce'
        BY <1>1, <1>3, <3>2, <3>7, <3>8 DEF RegisteredOnce
      <3>10. NamesAreOwn'
        BY <1>1, <1>3, <3>2, <3>7 DEF NamesAreOwn, Port
      <3>11. IsInjective(backlog)
             /\ (\A i \in DOMAIN backlog : link[backlog[i]] # "none")
             /\ \A i \in DOMAIN backlog : \A p \in DOMAIN players : players[p].client # backlog[i]
        BY <1>1, <1>3 DEF Listed
      <3>12. \A i \in DOMAIN rest : rest[i] # c
        BY <3>1, <3>3, <3>11 DEF IsInjective, c
      <3>13. IsInjective(rest)
        BY <3>3, <3>4, <3>11 DEF IsInjective
      <3>14. \A i \in DOMAIN rest : \A p \in DOMAIN players' : players'[p].client # rest[i]
        BY <3>2, <3>3, <3>7, <3>11, <3>12
      <3>15. \A i \in DOMAIN rest : link[rest[i]] # "none"
        BY <3>3, <3>11
      <3>16. \A p \in DOMAIN players' : link[players'[p].client] # "none"
        BY ZenonT(40), <3>1, <3>2, <3>7, <3>8, <3>11 DEF c
      <3>17. \A p \in frame' : p \in DOMAIN players' /\ players'[p].isConnected
        BY <1>1, <1>5, <3>8
      <3>18. Listed'
        BY <1>1, <1>3, <3>5, <3>13, <3>14, <3>15, <3>16, <3>17 DEF Listed
      <3> QED BY <3>3, <3>5, <3>6, <3>9, <3>10, <3>17, <3>18
    <2> QED BY <1>2, <2>1, <2>2
  <1>7. NetworkTypeOK'
    BY <1>1, <1>3, <1>6 DEF NetworkTypeOK
  <1>8. LinksHold' /\ ServerStaysUp' /\ GivesUpRightly'
    BY <1>1, <1>3 DEF LinksHold, ServerStaysUp, GivesUpRightly
  <1>9. UdpOthersHear' /\ NeverEchoed'
    BY <1>1, TrafficStays
  <1>10. OwnMessages'
    BY <1>1, <1>3 DEF OwnMessages
  <1>11. EventsInOrder'
    BY <1>1, <1>3 DEF EventsInOrder, InOrder, Ascending, Raised, IsEvent
  <1> QED BY <1>6, <1>7, <1>8, <1>9, <1>10, <1>11, NetworkTogether

(* A player whose turn it is gets its name, or is found to have gone.      *)
LEMMA PlayersChange ==
  ASSUME NetworkInv, tcp, NEW p \in frame, frame' = frame \ {p},
         UNCHANGED <<net, backlog, named>>,
         NEW r \in Players, players' = [players EXCEPT ![p] = r],
         r.client = players[p].client, r.nickname \in {"", NickName[r.client]},
         \A c \in Clients : link[c] # "none" => link'[c] # "none"
  PROVE  /\ players' \in Seq(Players) /\ frame' \subseteq DOMAIN players'
         /\ RegisteredOnce' /\ NamesAreOwn' /\ Listed'
  <1>1. NetworkTypeOK /\ RegisteredOnce /\ NamesAreOwn /\ Listed /\ tcp' = tcp
    BY DEF NetworkInv, PlayersOK, tcp
  <1>2. /\ players \in Seq(Players) /\ DOMAIN players = 1 .. Len(players) /\ Len(players) \in Nat
        /\ frame \subseteq DOMAIN players /\ backlog \in Seq(Clients)
        /\ \A q \in DOMAIN players : players[q].client \in Clients
    BY <1>1, NetworkFacts DEF NetworkTypeOK
  <1>3. /\ players' \in Seq(Players) /\ DOMAIN players' = DOMAIN players
        /\ \A q \in DOMAIN players : q # p => players'[q] = players[q]
        /\ players'[p] = r
    BY ONLY <1>2, p \in frame, r \in Players, players' = [players EXCEPT ![p] = r]
  <1>4. \A q \in DOMAIN players : players'[q].client = players[q].client
    BY ONLY <1>3, r.client = players[p].client
  <1>5. RegisteredOnce'
    BY ONLY <1>1, <1>3, <1>4, tcp DEF RegisteredOnce
  <1>6. NamesAreOwn'
    BY <1>1, <1>3 DEF NamesAreOwn, Port
  <1>7. \A i \in DOMAIN backlog : backlog[i] \in Clients
    BY ONLY <1>2
  <1>8. \A q \in frame' : players'[q].isConnected
    BY <1>1, <1>2, <1>3 DEF Listed
  <1>9. /\ tcp /\ tcp' /\ backlog' = backlog
        /\ \A c \in Clients : link[c] # "none" => link'[c] # "none"
    BY <1>1
  <1>10. /\ IsInjective(backlog)
         /\ (\A i \in DOMAIN backlog : \A q \in DOMAIN players : players[q].client # backlog[i])
         /\ (\A i \in DOMAIN backlog : link[backlog[i]] # "none")
         /\ \A q \in DOMAIN players : link[players[q].client] # "none"
    BY <1>1, <1>9 DEF Listed
  <1>11. /\ (\A i \in DOMAIN backlog : \A q \in DOMAIN players' : players'[q].client # backlog[i])
         /\ (\A i \in DOMAIN backlog : link'[backlog[i]] # "none")
         /\ \A q \in DOMAIN players' : link'[players'[q].client] # "none"
    BY ONLY <1>2, <1>3, <1>4, <1>7, <1>9, <1>10
  <1>12. Listed'
    BY ONLY <1>8, <1>9, <1>10, <1>11 DEF Listed, IsInjective
  <1> QED BY <1>2, <1>3, <1>5, <1>6, <1>12

LEMMA FiniteMany ==
  ASSUME NetworkTypeOK
  PROVE  \A S \in SUBSET DOMAIN players : IsFiniteSet(S)
  <1>1. DOMAIN players = 1 .. Len(players) /\ Len(players) \in Int
    BY NetworkFacts
  <1>2. IsFiniteSet(DOMAIN players)
    BY <1>1, FS_Interval
  <1> QED BY <1>2, FS_Subset

(* What stays in a stream when its first message has been taken.           *)
LEMMA TailStays ==
  ASSUME NetworkInv, NEW c \in Clients, toServer[c] # <<>>,
         toServer' = [toServer EXCEPT ![c] = Tail(toServer[c])]
  PROVE  /\ toServer' \in [Clients -> Seq(Messages)] /\ OwnMessages'
         /\ Head(toServer[c]) \in Messages /\ 1 \in DOMAIN toServer[c]
         /\ Head(toServer[c]) = toServer[c][1]
  <1> DEFINE q == toServer[c]
             rest == Tail(q)
  <1>1. toServer \in [Clients -> Seq(Messages)] /\ q # <<>>
    BY DEF NetworkInv, PlayersOK, NetworkTypeOK
  <1>2. q \in Seq(Messages)
    BY <1>1
  <1> HIDE DEF q
  <1>3. /\ Head(q) \in Messages /\ 1 \in DOMAIN q /\ Head(q) = q[1]
        /\ rest \in Seq(Messages) /\ \A k \in DOMAIN rest : k + 1 \in DOMAIN q /\ rest[k] = q[k + 1]
    BY ONLY <1>1, <1>2
  <1> HIDE DEF rest
  <1>4. toServer' = [toServer EXCEPT ![c] = rest]
    BY DEF rest, q
  <1>5. /\ toServer' \in [Clients -> Seq(Messages)] /\ toServer'[c] = rest
        /\ \A x \in Clients : x # c => toServer'[x] = toServer[x]
    BY ONLY <1>1, <1>3, <1>4, c \in Clients
  <1>6. \A x \in Clients : \A k \in DOMAIN toServer'[x] :
           \E j \in DOMAIN toServer[x] : toServer'[x][k] = toServer[x][j]
    BY ONLY <1>3, <1>5 DEF q
  <1>7. OwnMessages'
    BY <1>6, MessagesStay
  <1> QED BY <1>3, <1>5, <1>7 DEF q

LEMMA CheckPlayerKeeps ==
  ASSUME NetworkInv, CheckPlayer
  PROVE  NetworkInv'
  <1>1. /\ tcp /\ server = "up" /\ net' = net /\ backlog' = backlog
        /\ disconnected' = disconnected /\ running' = running /\ copies' = copies
        /\ sends' = sends /\ heard' = heard /\ named' = named
    BY DEF CheckPlayer
  <1>2. /\ NetworkTypeOK /\ Messages' = Messages /\ OwnMessages /\ LinksHold /\ ServerStaysUp
        /\ GivesUpRightly /\ RegisteredOnce /\ NamesAreOwn /\ Listed /\ EventsInOrder /\ tcp' = tcp
    BY <1>1 DEF NetworkInv, PlayersOK, Messages, tcp
  <1>3. PICK p \in frame :
          /\ frame' = frame \ {p}
          /\ IF toServer[players[p].client] # <<>>
             THEN LET m == Head(toServer[players[p].client]) IN
                  /\ toServer' = [toServer EXCEPT ![players[p].client] =
                                     Tail(toServer[players[p].client])]
                  /\ Held(Server, m)
                  /\ IF ServerParses(m) THEN FromPlayer(p, m)
                     ELSE Throws /\ UNCHANGED players
             ELSE /\ IF link[players[p].client] = "client reset"
                     THEN players' = [players EXCEPT ![p].isConnected = FALSE]
                     ELSE UNCHANGED players
                  /\ UNCHANGED <<toServer, toClient, given, link, server, owed, longest>>
    BY DEF CheckPlayer
  <1> DEFINE c == players[p].client
             m == Head(toServer[c])
  <1>4. /\ p \in DOMAIN players /\ players[p] \in Players /\ c \in Clients /\ link[c] # "none"
        /\ c # Server /\ sends \in Nat /\ players \in Seq(Players)
        /\ players[p].nickname \in {"", NickName[c]}
    BY <1>1, <1>2, NetworkFacts DEF NetworkTypeOK, Listed, NamesAreOwn
  <1>5. UdpOthersHear' /\ NeverEchoed'
    BY <1>1, <1>2 DEF UdpOthersHear, NeverEchoed
  <1>6. ASSUME NEW r \in Players, players' = [players EXCEPT ![p] = r],
               r.client = c, r.nickname \in {"", NickName[c]},
               toServer' \in [Clients -> Seq(Messages)], OwnMessages',
               longest' \in [Clients \cup {Server} -> net.lengths \cup {0}],
               link' \in [Clients -> LinkStates], toClient' \in [Clients -> Seq(Messages)],
               server' \in {"up", "failed"},
               \A x \in Clients : link[x] # "none" => link'[x] # "none",
               LinksHold', ServerStaysUp', GivesUpRightly', EventsInOrder'
        PROVE  NetworkInv'
    <2>1. /\ players' \in Seq(Players) /\ frame' \subseteq DOMAIN players'
          /\ RegisteredOnce' /\ NamesAreOwn' /\ Listed'
      BY <1>1, <1>3, <1>6, PlayersChange
    <2>2. NetworkTypeOK'
      BY <1>1, <1>2, <1>6, <2>1 DEF NetworkTypeOK
    <2> QED BY <1>5, <1>6, <2>1, <2>2, NetworkTogether
  <1>7. players = [players EXCEPT ![p] = players[p]]
    <2>1. players \in Seq(Players)
      BY <1>4
    <2>2. players \in [1 .. Len(players) -> Players]
      BY ONLY <2>1
    <2> QED BY ONLY <2>2
  <1>8. ASSUME UNCHANGED <<toClient, given, link, server>>
        PROVE  /\ link' \in [Clients -> LinkStates] /\ toClient' \in [Clients -> Seq(Messages)]
               /\ server' \in {"up", "failed"}
               /\ \A x \in Clients : link[x] # "none" => link'[x] # "none"
               /\ LinksHold' /\ ServerStaysUp' /\ GivesUpRightly' /\ EventsInOrder'
    <2>1. LinksHold' /\ ServerStaysUp' /\ GivesUpRightly'
      BY <1>1, <1>2, <1>8 DEF LinksHold, ServerStaysUp, GivesUpRightly
    <2>2. EventsInOrder'
      BY <1>1, <1>2, <1>8 DEF EventsInOrder, InOrder, Ascending, Raised, IsEvent
    <2> QED BY <1>1, <1>2, <1>8, <2>1, <2>2 DEF NetworkTypeOK
  <1>9. ASSUME NEW x \in Messages, ~Raised(x), NEW to, IsFiniteSet(DOMAIN to),
               \A q \in DOMAIN to : to[q] \in Clients /\ link[to[q]] # "none",
               ServerSends(to, x)
        PROVE  /\ link' \in [Clients -> LinkStates] /\ toClient' \in [Clients -> Seq(Messages)]
               /\ server' \in {"up", "failed"}
               /\ \A y \in Clients : link[y] # "none" => link'[y] # "none"
               /\ LinksHold' /\ ServerStaysUp' /\ GivesUpRightly' /\ EventsInOrder'
    <2>1. sends' \in Nat /\ sends <= sends'
      <3>1. sends' = sends /\ sends \in Nat
        BY <1>1, <1>4
      <3> QED BY ONLY <3>1
    <2>2. EventsInOrder'
      BY <1>1, <1>9, <2>1, OrderOfTheSent
    <2> QED BY <1>1, <1>9, <2>2, ServerSendsFacts
  <1>10. CASE toServer[c] # <<>>
    <2>1. /\ toServer' = [toServer EXCEPT ![c] = Tail(toServer[c])]
          /\ Held(Server, m) /\ FromPlayer(p, m)
      BY <1>1, <1>3, <1>10 DEF ServerParses
    <2>2. /\ toServer' \in [Clients -> Seq(Messages)] /\ OwnMessages'
          /\ m \in Messages /\ 1 \in DOMAIN toServer[c] /\ m = toServer[c][1]
      BY <1>4, <1>10, <2>1, TailStays
    <2> HIDE DEF m
    <2>3. m.from = c /\ (m.type # "ping" => m.target = NickName[c])
      BY <1>2, <1>4, <2>2 DEF OwnMessages
    <2>4. longest' \in [Clients \cup {Server} -> net.lengths \cup {0}]
      BY <1>2, <2>1, <2>2, HeldFacts
    <2>5. CASE (\E n \in net.lengths : ServerSends(<<c>>, Pong(n))) /\ players' = players
      <3>1. PICK n \in net.lengths : ServerSends(<<c>>, Pong(n))
        BY <2>5
      <3>2. Pong(n) \in Messages /\ ~Raised(Pong(n))
        BY <1>2, MessageTypes DEF Pong, Message, Raised, IsEvent
      <3> DEFINE to == <<c>>
      <3>3. DOMAIN to = {1} /\ to[1] = c
        OBVIOUS
      <3> HIDE DEF c, to
      <3>4. /\ IsFiniteSet(DOMAIN to)
            /\ \A q \in DOMAIN to : to[q] \in Clients /\ link[to[q]] # "none"
        BY <1>4, <3>3, FS_Singleton
      <3>5. ServerSends(to, Pong(n))
        BY <3>1 DEF to
      <3> QED BY <1>4, <1>6, <1>7, <1>9, <2>2, <2>4, <2>5, <3>2, <3>4, <3>5 DEF c
    <2>6. CASE /\ m.type = "requestPlayerDetails"
               /\ players' = [players EXCEPT ![p].nickname = m.target]
               /\ UNCHANGED <<toClient, given, link, server, owed>>
      <3> DEFINE r == [players[p] EXCEPT !.nickname = m.target]
      <3>1. m.target = NickName[c] /\ NickName[c] \in Range(NickName)
        BY <1>2, <1>4, <2>3, <2>6, NetworkFacts
      <3>2. r \in Players /\ r.client = c /\ r.nickname = NickName[c]
        BY <1>4, <3>1 DEF Players
      <3>3. players' = [players EXCEPT ![p] = r]
        BY <2>6
      <3> QED BY <1>6, <1>8, <2>2, <2>4, <2>6, <3>2, <3>3
    <2>7. CASE PassOnTcp(p, m) /\ players' = players
      <3> DEFINE to == [q \in OthersOf(m) |-> c]
      <3>1. DOMAIN to = OthersOf(m) /\ OthersOf(m) \subseteq DOMAIN players
        BY DEF OthersOf, Connected
      <3>2. IsFiniteSet(DOMAIN to)
        BY <1>2, <3>1, FiniteMany
      <3>3. \A q \in DOMAIN to : to[q] \in Clients /\ link[to[q]] # "none"
        BY <1>4
      <3>4. ServerSends(to, m)
        BY <2>7 DEF PassOnTcp
      <3>5. ~Raised(m)
        BY <1>4, <2>3 DEF Raised
      <3> HIDE DEF to
      <3> QED BY <1>4, <1>6, <1>7, <1>9, <2>2, <2>4, <2>7, <3>2, <3>3, <3>4, <3>5
    <2> QED BY <2>1, <2>5, <2>6, <2>7 DEF FromPlayer
  <1>11. CASE toServer[c] = <<>>
    <2>1. /\ players' = players \/ players' = [players EXCEPT ![p].isConnected = FALSE]
          /\ UNCHANGED <<toServer, toClient, given, link, server, longest>>
      BY <1>3, <1>11
    <2>2. /\ toServer' \in [Clients -> Seq(Messages)] /\ OwnMessages'
          /\ longest' \in [Clients \cup {Server} -> net.lengths \cup {0}]
      BY <1>2, <2>1 DEF OwnMessages, NetworkTypeOK
    <2>3. CASE players' = players
      BY <1>4, <1>6, <1>7, <1>8, <2>1, <2>2, <2>3
    <2>4. CASE players' = [players EXCEPT ![p].isConnected = FALSE]
      <3> DEFINE r == [players[p] EXCEPT !.isConnected = FALSE]
      <3>1. r \in Players /\ r.client = c /\ r.nickname \in {"", NickName[c]}
        BY <1>4 DEF Players
      <3>2. players' = [players EXCEPT ![p] = r]
        BY <2>4
      <3> QED BY <1>6, <1>8, <2>1, <2>2, <3>1, <3>2
    <2> QED BY <2>1, <2>3, <2>4
  <1> QED BY <1>10, <1>11

(* GameServer over UDP. *)
LEMMA TwoLengths ==
  ASSUME NetworkTypeOK, NEW m \in Messages, ~ServerParses(m)
  PROVE  ~tcp /\ Cardinality(net.lengths) > 1
  <1> DEFINE S == net.lengths
             a == m.length
             b == longest[Server]
  <1>1. ~tcp /\ ~(a >= b)
    BY DEF ServerParses, Parses
  <1>2. S \subseteq Nat \ {0} /\ IsFiniteSet(S) /\ a \in S /\ b \in S \cup {0}
    BY NetworkFacts DEF Messages, NetworkTypeOK
  <1> HIDE DEF S, a, b
  <1>3. b \in S /\ a # b
    BY <1>1, <1>2
  <1>4. IsFiniteSet({a}) /\ Cardinality({a}) = 1
    BY FS_Singleton
  <1>5. Cardinality({a} \cup {b}) = 2 /\ IsFiniteSet({a} \cup {b})
    BY <1>3, <1>4, FS_AddElement
  <1>6. {a} \cup {b} \in SUBSET S
    BY <1>2, <1>3
  <1>7. Cardinality({a} \cup {b}) <= Cardinality(S) /\ Cardinality(S) \in Nat
    BY <1>2, <1>6, FS_Subset, FS_CardinalityType
  <1>8. Cardinality(S) > 1
    BY <1>5, <1>7
  <1> QED BY <1>1, <1>8 DEF S

(* A datagram of a client's makes it a player, once and under its name.    *)
LEMMA NewcomerFacts ==
  ASSUME NetworkInv, ~tcp, NEW c \in Clients, UNCHANGED <<net, backlog, frame>>,
         players' = IF PlayersAt(Port[c], players) # {} THEN players
                    ELSE Append(players, NewPlayer(c, NickName[c], FALSE))
  PROVE  /\ players' \in Seq(Players) /\ frame' \subseteq DOMAIN players'
         /\ RegisteredOnce' /\ Listed'
         /\ \A p \in DOMAIN players' : players'[p].nickname = NickName[players'[p].client]
  <1>1. NetworkTypeOK /\ RegisteredOnce /\ Listed /\ tcp' = tcp
    BY DEF NetworkInv, PlayersOK, tcp
  <1>2. /\ players \in Seq(Players) /\ DOMAIN players = 1 .. Len(players) /\ Len(players) \in Nat
        /\ NickName[c] \in Range(NickName)
    BY <1>1, NetworkFacts
  <1>3. \A p \in DOMAIN players :
           players[p].isConnected /\ players[p].nickname = NickName[players[p].client]
    BY <1>1 DEF Listed
  <1>4. frame = {}
    BY <1>1 DEF Listed
  <1>5. CASE players' = players
    BY <1>1, <1>2, <1>3, <1>4, <1>5 DEF Listed, RegisteredOnce, Port
  <1>6. CASE /\ PlayersAt(Port[c], players) = {}
             /\ players' = Append(players, NewPlayer(c, NickName[c], FALSE))
    <2> DEFINE r == NewPlayer(c, NickName[c], FALSE)
               N == Len(players)
    <2>1. r \in Players /\ r.client = c /\ r.nickname = NickName[c] /\ r.isConnected
      BY <1>2 DEF NewPlayer, Players
    <2>2. \A p \in DOMAIN players :
            Port[players[p].client] # Port[c] /\ players[p].client # c
      BY <1>6 DEF PlayersAt
    <2>3. players' = Append(players, r)
      BY <1>6
    <2> HIDE DEF r
    <2>4. /\ players' \in Seq(Players) /\ players'[N + 1] = r
          /\ DOMAIN players' = 1 .. N + 1
          /\ \A p \in 1 .. N : players'[p] = players[p]
      BY ONLY <1>2, <2>1, <2>3, AppendProperties
    <2>5. \A p \in DOMAIN players' : \/ p \in DOMAIN players /\ players'[p] = players[p]
                                     \/ p = N + 1 /\ players'[p] = r
      BY ONLY <1>2, <2>4
    <2>6. RegisteredOnce'
      <3> SUFFICES ASSUME NEW p \in DOMAIN players', NEW q \in DOMAIN players',
                          \/ players'[p].client = players'[q].client
                          \/ Port[players'[p].client] = Port[players'[q].client]
                   PROVE  p = q
        BY DEF RegisteredOnce, Port
      <3>1. Port[players'[p].client] = Port[players'[q].client]
        OBVIOUS
      <3>2. CASE p \in DOMAIN players /\ q \in DOMAIN players
        <4>1. players'[p] = players[p] /\ players'[q] = players[q]
          BY <1>2, <2>4, <3>2
        <4> QED BY <1>1, <3>1, <3>2, <4>1 DEF RegisteredOnce
      <3>3. CASE p \notin DOMAIN players /\ q \notin DOMAIN players
        BY <2>5, <3>3
      <3>4. CASE p \in DOMAIN players /\ q \notin DOMAIN players
        <4>1. players'[p] = players[p] /\ players'[q] = r
          BY <1>2, <2>4, <2>5, <3>4
        <4> QED BY <2>1, <2>2, <3>1, <3>4, <4>1
      <3>5. CASE p \notin DOMAIN players /\ q \in DOMAIN players
        <4>1. players'[q] = players[q] /\ players'[p] = r
          BY <1>2, <2>4, <2>5, <3>5
        <4> QED BY <2>1, <2>2, <3>1, <3>5, <4>1
      <3> QED BY <3>2, <3>3, <3>4, <3>5
    <2>7. \A p \in DOMAIN players' :
             players'[p].isConnected /\ players'[p].nickname = NickName[players'[p].client]
      BY <1>3, <2>1, <2>5
    <2>8. Listed'
      BY <1>1, <1>4, <2>7 DEF Listed
    <2> QED BY <1>4, <2>4, <2>6, <2>7, <2>8
  <1> QED BY <1>5, <1>6

LEMMA TrafficFacts ==
  ASSUME NetworkInv, NEW c \in Clients, Traffic(c), net' = net,
         \A p \in DOMAIN players' :
            players'[p].client \in Clients /\ players'[p].nickname = NickName[players'[p].client]
  PROVE  NamesAreOwn'
  <1> DEFINE MayName(n, d) == n = "unknown" \/ \E x \in Clients :
                                 Port[x] = Port[d] /\ n = NickName[x]
  <1>1. \A t \in named : MayName(t[1], t[2])
    BY DEF NetworkInv, PlayersOK, NamesAreOwn
  <1>2. PICK name : named' = named \cup {<<name, c>>} /\ MayName(name, c)
    <2> DEFINE found == PlayersAt(Port[c], players')
               p == CHOOSE q \in found : TRUE
               name == IF found = {} THEN "unknown" ELSE players'[p].nickname
    <2>1. named' = named \cup {<<name, c>>}
      BY DEF Traffic
    <2>2. \A q \in found : q \in DOMAIN players' /\ Port[players'[q].client] = Port[c]
      BY DEF PlayersAt
    <2>3. found # {} => p \in found
      OBVIOUS
    <2> HIDE DEF found, p
    <2>4. found # {} => /\ players'[p].client \in Clients
                        /\ Port[players'[p].client] = Port[c]
                        /\ players'[p].nickname = NickName[players'[p].client]
      BY <2>2, <2>3
    <2>5. MayName(name, c)
      BY <2>4
    <2> HIDE DEF name, MayName
    <2> QED BY <2>1, <2>5
  <1>3. \A t \in named' : MayName(t[1], t[2])
    <2> HIDE DEF MayName
    <2> QED BY <1>1, <1>2
  <1>4. Port' = Port
    BY DEF Port
  <1> QED BY <1>3, <1>4 DEF NamesAreOwn

LEMMA DatagramKeeps ==
  ASSUME NetworkInv, NEW c \in Clients, Datagram(c)
  PROVE  NetworkInv'
  <1>1. /\ ~tcp /\ server = "up" /\ net' = net /\ frame' = frame /\ backlog' = backlog
        /\ disconnected' = disconnected /\ running' = running /\ sends' = sends /\ heard' = heard
    BY DEF Datagram
  <1>2. /\ NetworkTypeOK /\ Messages' = Messages /\ OwnMessages /\ LinksHold /\ ServerStaysUp
        /\ GivesUpRightly /\ RegisteredOnce /\ NamesAreOwn /\ Listed /\ UdpOthersHear
        /\ NeverEchoed /\ tcp' = tcp
    BY <1>1 DEF NetworkInv, PlayersOK, TrafficOK, Messages, tcp
  <1>3. PICK i \in DOMAIN toServer[c] :
          /\ \E rest \in {RemoveAt(toServer[c], i), toServer[c]} :
               /\ Taken(toServer[c], i, rest)
               /\ toServer' = [toServer EXCEPT ![c] = rest]
          /\ Held(Server, toServer[c][i])
          /\ IF ServerParses(toServer[c][i]) THEN FromDatagram(c, toServer[c][i]) /\ Traffic(c)
             ELSE Throws /\ UNCHANGED <<players, named>>
    BY DEF Datagram
  <1> DEFINE q == toServer[c]
             m == q[i]
  <1>4. toServer \in [Clients -> Seq(Messages)] /\ q \in Seq(Messages) /\ m \in Messages
    BY <1>2 DEF NetworkTypeOK
  <1>5. PICK rest : Taken(q, i, rest) /\ toServer' = [toServer EXCEPT ![c] = rest]
    BY <1>3
  <1>6. /\ Held(Server, m)
        /\ ServerParses(m) => FromDatagram(c, m) /\ Traffic(c)
        /\ ~ServerParses(m) => Throws /\ UNCHANGED <<players, named>>
    BY <1>3
  <1>7. /\ m.from = c /\ m.type \in {"requestPlayerDetails", "ping", "PlayerMoved"}
        /\ m.type # "ping" => m.target = NickName[c]
    BY <1>2 DEF OwnMessages
  <1>8. /\ rest \in Seq(Messages) /\ copies' \in 0 .. net.maxCopies
        /\ \A k \in DOMAIN rest : \E j \in DOMAIN q : rest[k] = q[j]
    <2> HIDE DEF q
    <2> QED BY <1>2, <1>4, <1>5, TakenFacts DEF q
  <1>9. /\ toServer' \in [Clients -> Seq(Messages)] /\ toServer'[c] = rest
        /\ \A x \in Clients : x # c => toServer'[x] = toServer[x]
    BY ONLY <1>4, <1>5, <1>8, c \in Clients
  <1>10. OwnMessages'
    <2>1. \A x \in Clients : \A k \in DOMAIN toServer'[x] :
             \E j \in DOMAIN toServer[x] : toServer'[x][k] = toServer[x][j]
      BY ONLY <1>8, <1>9
    <2> QED BY <2>1, MessagesStay
  <1> HIDE DEF m, q
  <1>11. longest' \in [Clients \cup {Server} -> net.lengths \cup {0}]
    BY <1>2, <1>4, <1>6, HeldFacts
  <1>12. EventsInOrder'
    BY <1>1, <1>2 DEF EventsInOrder
  <1>13. ASSUME players' \in Seq(Players), frame' \subseteq DOMAIN players',
                RegisteredOnce', NamesAreOwn', Listed',
                link' \in [Clients -> LinkStates], toClient' \in [Clients -> Seq(Messages)],
                server' \in {"up", "failed"}, LinksHold', ServerStaysUp', GivesUpRightly',
                UdpOthersHear', NeverEchoed'
         PROVE  NetworkInv'
    <2>1. NetworkTypeOK'
      BY <1>1, <1>2, <1>8, <1>9, <1>11, <1>13 DEF NetworkTypeOK
    <2> QED BY <1>10, <1>12, <1>13, <2>1, NetworkTogether
  <1>14. ASSUME players' = players
         PROVE  /\ players' \in Seq(Players) /\ frame' \subseteq DOMAIN players'
                /\ RegisteredOnce' /\ Listed'
                /\ \A p \in DOMAIN players' :
                      /\ players'[p].client \in Clients
                      /\ players'[p].nickname = NickName[players'[p].client]
    <2>1. players' \in Seq(Players) /\ frame' \subseteq DOMAIN players'
      BY <1>1, <1>2, <1>14 DEF NetworkTypeOK
    <2>2. RegisteredOnce' /\ Listed'
      BY <1>1, <1>2, <1>14 DEF RegisteredOnce, Listed, Port
    <2>3. \A p \in DOMAIN players :
            players[p].client \in Clients /\ players[p].nickname = NickName[players[p].client]
      BY <1>1, <1>2, NetworkFacts DEF Listed
    <2> QED BY <1>14, <2>1, <2>2, <2>3
  <1>15. ASSUME NEW x \in Messages, NEW to, IsFiniteSet(DOMAIN to),
                \A p \in DOMAIN to : to[p] \in Clients, ServerSends(to, x),
                x.type = "pong" \/ \A y \in Range(to) : x.from # y
         PROVE  /\ link' \in [Clients -> LinkStates] /\ toClient' \in [Clients -> Seq(Messages)]
                /\ server' \in {"up", "failed"}
                /\ LinksHold' /\ ServerStaysUp' /\ GivesUpRightly' /\ NeverEchoed'
                /\ \A y \in Clients : given[y] \subseteq given'[y]
                /\ \A y \in Clients : y \in Range(to) => x \in given'[y]
    <2>1. /\ link' \in [Clients -> LinkStates] /\ toClient' \in [Clients -> Seq(Messages)]
          /\ server' \in {"up", "failed"}
          /\ LinksHold' /\ ServerStaysUp' /\ GivesUpRightly'
          /\ \A y \in Clients : given[y] \subseteq given'[y]
          /\ \A y \in Clients : \A z \in given'[y] : z \in given[y] \/ (z = x /\ y \in Range(to))
          /\ \A y \in Clients : y \in Range(to) => x \in given'[y]
      BY <1>1, <1>15, ServerSendsFacts
    <2>2. NeverEchoed'
      BY <1>1, <1>2, <1>15, <2>1 DEF NeverEchoed
    <2> QED BY <2>1, <2>2
  <1>16. CASE ~ServerParses(m)
    <2>1. /\ players' = players /\ named' = named /\ server' = "failed" /\ toClient' = toClient
          /\ given' = given /\ link' = link /\ owed' = owed
      BY <1>6, <1>16 DEF Throws
    <2>2. Cardinality(net.lengths) > 1
      BY <1>2, <1>4, <1>16, TwoLengths
    <2>3. LinksHold' /\ ServerStaysUp' /\ GivesUpRightly'
      BY <1>1, <1>2, <2>1, <2>2 DEF LinksHold, ServerStaysUp, GivesUpRightly
    <2>4. NamesAreOwn'
      BY <1>1, <1>2, <2>1 DEF NamesAreOwn, Port
    <2>5. UdpOthersHear' /\ NeverEchoed'
      BY <1>1, <2>1, TrafficStays
    <2>6. link' \in [Clients -> LinkStates] /\ toClient' \in [Clients -> Seq(Messages)]
      BY <1>2, <2>1 DEF NetworkTypeOK
    <2> QED BY <1>13, <1>14, <2>1, <2>3, <2>4, <2>5, <2>6
  <1>17. CASE /\ \E n \in net.lengths : ServerSends(<<c>>, Pong(n))
              /\ players' = players /\ owed' = owed /\ Traffic(c)
    <2>1. PICK n \in net.lengths : ServerSends(<<c>>, Pong(n))
      BY <1>17
    <2>2. Pong(n) \in Messages /\ Pong(n).type = "pong"
      BY <1>2, MessageTypes DEF Pong, Message
    <2> DEFINE to == <<c>>
               x == Pong(n)
    <2>3. DOMAIN to = {1} /\ to[1] = c
      OBVIOUS
    <2> HIDE DEF to, x
    <2>4. /\ IsFiniteSet(DOMAIN to)
          /\ \A p \in DOMAIN to : to[p] \in Clients
      BY <2>3, FS_Singleton
    <2>5. ServerSends(to, x) /\ x \in Messages /\ x.type = "pong"
      BY <2>1, <2>2 DEF to, x
    <2>6. /\ link' \in [Clients -> LinkStates] /\ toClient' \in [Clients -> Seq(Messages)]
          /\ server' \in {"up", "failed"}
          /\ LinksHold' /\ ServerStaysUp' /\ GivesUpRightly' /\ NeverEchoed'
          /\ \A y \in Clients : given[y] \subseteq given'[y]
      BY <1>15, <2>4, <2>5
    <2>7. UdpOthersHear'
      BY <1>1, <1>2, <1>17, <2>6 DEF UdpOthersHear, OthersHear
    <2>8. NamesAreOwn'
      BY <1>1, <1>14, <1>17, TrafficFacts
    <2> QED BY <1>13, <1>14, <1>17, <2>6, <2>7, <2>8
  <1>18. CASE /\ m.type = "requestPlayerDetails"
              /\ players' = IF PlayersAt(Port[c], players) # {} THEN players
                            ELSE Append(players, NewPlayer(c, m.target, FALSE))
              /\ UNCHANGED <<toClient, given, link, server, owed>> /\ Traffic(c)
    <2>1. players' = IF PlayersAt(Port[c], players) # {} THEN players
                     ELSE Append(players, NewPlayer(c, NickName[c], FALSE))
      BY <1>7, <1>18
    <2>2. /\ players' \in Seq(Players) /\ frame' \subseteq DOMAIN players'
          /\ RegisteredOnce' /\ Listed'
          /\ \A p \in DOMAIN players' : players'[p].nickname = NickName[players'[p].client]
      BY <1>1, <2>1, NewcomerFacts
    <2>3. \A p \in DOMAIN players' : players'[p].client \in Clients
      <3>1. \A p \in DOMAIN players' : players'[p] \in Players
        BY ONLY <2>2
      <3>2. \A r \in Players : r.client \in Clients
        BY ONLY DEF Players
      <3> QED BY <3>1, <3>2
    <2>4. NamesAreOwn'
      BY <1>1, <1>18, <2>2, <2>3, TrafficFacts
    <2>5. LinksHold' /\ ServerStaysUp' /\ GivesUpRightly'
      BY <1>1, <1>2, <1>18 DEF LinksHold, ServerStaysUp, GivesUpRightly
    <2>6. UdpOthersHear' /\ NeverEchoed'
      BY <1>1, <1>18, TrafficStays
    <2>7. link' \in [Clients -> LinkStates] /\ toClient' \in [Clients -> Seq(Messages)]
          /\ server' \in {"up", "failed"}
      BY <1>1, <1>2, <1>18 DEF NetworkTypeOK
    <2> QED BY <1>13, <2>2, <2>4, <2>5, <2>6, <2>7
  <1>19. CASE /\ m.type \notin {"ping", "requestPlayerDetails"}
              /\ ServerSends(Sockets(PassOnUdp(m)), m) /\ Owe(m)
              /\ players' = players /\ Traffic(c)
    <2> DEFINE to == Sockets(PassOnUdp(m))
    <2>1. /\ DOMAIN to = PassOnUdp(m) /\ PassOnUdp(m) \subseteq DOMAIN players
          /\ \A p \in DOMAIN to : to[p] = players[p].client /\ players[p].nickname # m.target
      BY DEF Sockets, PassOnUdp
    <2>2. IsFiniteSet(DOMAIN to)
      BY <1>2, <2>1, FiniteMany
    <2>3. \A p \in DOMAIN to : to[p] \in Clients /\ to[p] # c
      BY <1>1, <1>2, <1>7, <1>19, <2>1, NetworkFacts DEF Listed
    <2>4. ServerSends(to, m)
      BY <1>19
    <2>5. \A x \in Clients : \A y \in owed'[x] : y \in owed[x] \/ (y = m /\ x \in Range(to))
      <3> SUFFICES ASSUME NEW x \in Clients, NEW y \in owed'[x], y \notin owed[x]
                   PROVE  y = m /\ x \in Range(to)
        OBVIOUS
      <3>1. y = m /\ \E p \in DOMAIN players :
               players[p].client = x /\ players[p].isConnected /\ players[p].nickname # m.target
        BY <1>19 DEF Owe
      <3>2. PICK p \in PassOnUdp(m) : players[p].client = x
        BY <3>1 DEF PassOnUdp
      <3> QED BY <2>1, <3>1, <3>2 DEF Range
    <2> HIDE DEF to
    <2>6. \A y \in Range(to) : m.from # y
      BY <1>7, <2>3 DEF Range
    <2>7. /\ link' \in [Clients -> LinkStates] /\ toClient' \in [Clients -> Seq(Messages)]
          /\ server' \in {"up", "failed"}
          /\ LinksHold' /\ ServerStaysUp' /\ GivesUpRightly' /\ NeverEchoed'
          /\ \A y \in Clients : given[y] \subseteq given'[y]
          /\ \A y \in Clients : y \in Range(to) => m \in given'[y]
      BY <1>4, <1>15, <2>2, <2>3, <2>4, <2>6
    <2>8. UdpOthersHear'
      <3> SUFFICES ASSUME NEW x \in Clients, NEW y \in owed'[x] PROVE y \in given'[x]
        BY DEF UdpOthersHear, OthersHear
      <3>1. owed[x] \subseteq given[x]
        BY <1>1, <1>2 DEF UdpOthersHear, OthersHear
      <3> QED BY <2>5, <2>7, <3>1
    <2>9. NamesAreOwn'
      BY <1>1, <1>14, <1>19, TrafficFacts
    <2> QED BY <1>13, <1>14, <1>19, <2>7, <2>8, <2>9
  <1>20. CASE ServerParses(m)
    BY <1>6, <1>17, <1>18, <1>19, <1>20 DEF FromDatagram
  <1> QED BY <1>16, <1>20

(* GameServer over either. *)
LEMMA ServerRaisesKeeps ==
  ASSUME NetworkInv, ServerRaises
  PROVE  NetworkInv'
  <1>1. /\ server = "up" /\ frame = {} /\ sends < net.maxSends /\ sends' = sends + 1
        /\ net' = net /\ players' = players /\ frame' = frame /\ backlog' = backlog
        /\ disconnected' = disconnected /\ running' = running /\ toServer' = toServer
        /\ copies' = copies /\ longest' = longest /\ heard' = heard /\ owed' = owed
        /\ named' = named
    BY DEF ServerRaises
  <1>2. /\ NetworkTypeOK /\ Messages' = Messages /\ OwnMessages /\ RegisteredOnce /\ Listed
        /\ UdpOthersHear /\ NeverEchoed /\ tcp' = tcp
    BY <1>1 DEF NetworkInv, PlayersOK, TrafficOK, Messages, tcp
  <1>3. PICK type \in {"PlayerMoved", "StartNetworkLevel"}, n \in net.lengths :
          ServerSends(Sockets(Connected), Message(type, ServerName, Server, n, sends'))
    BY DEF ServerRaises
  <1>4. sends \in Nat /\ sends' \in Nat /\ sends < sends' /\ sends' \in 0 .. net.maxSends
    <2> DEFINE b == net.maxSends
    <2>1. sends \in Nat /\ b \in Nat
      BY <1>2, NetworkFacts
    <2>2. sends < b /\ sends' = sends + 1
      BY <1>1
    <2> HIDE DEF b
    <2>3. sends \in Nat /\ sends' \in Nat /\ sends < sends' /\ sends' \in 0 .. b
      BY ONLY <2>1, <2>2
    <2> QED BY <2>3 DEF b
  <1> DEFINE m == Message(type, ServerName, Server, n, sends')
             to == Sockets(Connected)
  <1>5. m \in Messages /\ m.from = Server /\ m.id = sends'
    BY <1>2, <1>4, MessageTypes DEF Message
  <1>6. /\ DOMAIN to = Connected /\ Connected \subseteq DOMAIN players
        /\ \A p \in DOMAIN to : to[p] = players[p].client
    BY DEF Sockets, Connected
  <1>7. IsFiniteSet(DOMAIN to)
    BY <1>2, <1>6, FiniteMany
  <1>8. \A p \in DOMAIN to : to[p] \in Clients /\ (tcp => link[to[p]] # "none")
    BY <1>2, <1>6, NetworkFacts DEF Listed
  <1>9. \A p, q \in DOMAIN to : to[p] = to[q] => p = q
    BY <1>2, <1>6 DEF RegisteredOnce
  <1>10. ServerSends(to, m)
    BY <1>3
  <1> HIDE DEF to, m
  <1>11. /\ link' \in [Clients -> LinkStates] /\ toClient' \in [Clients -> Seq(Messages)]
         /\ server' \in {"up", "failed"}
         /\ \A c \in Clients : link[c] # "none" => link'[c] # "none"
         /\ \A c \in Clients : given[c] \subseteq given'[c]
         /\ \A c \in Clients : \A x \in given'[c] : x \in given[c] \/ (x = m /\ c \in Range(to))
         /\ LinksHold' /\ ServerStaysUp' /\ GivesUpRightly'
    BY <1>1, <1>5, <1>7, <1>8, <1>10, ServerSendsFacts
  <1>12. NetworkTypeOK'
    BY <1>1, <1>2, <1>4, <1>11 DEF NetworkTypeOK
  <1>13. RegisteredOnce' /\ NamesAreOwn' /\ Listed'
    BY <1>1, <1>11, PlayersStay
  <1>14. UdpOthersHear'
    BY <1>1, <1>2, <1>11 DEF UdpOthersHear, OthersHear
  <1>15. NeverEchoed'
    <2>1. \A c \in Clients : m.from # c
      BY <1>2, <1>5, NetworkFacts
    <2> QED BY <1>2, <1>11, <2>1 DEF NeverEchoed
  <1>16. OwnMessages'
    BY <1>1, <1>2 DEF OwnMessages
  <1>17. EventsInOrder'
    <2>1. sends <= sends' /\ sends < m.id /\ m.id <= sends'
      BY ONLY <1>4, <1>5
    <2> QED BY <1>1, <1>4, <1>5, <1>7, <1>9, <1>10, <2>1, OrderOfTheSent
  <1> QED BY <1>11, <1>12, <1>13, <1>14, <1>15, <1>16, <1>17, NetworkTogether

LEMMA ServerEndsKeeps ==
  ASSUME NetworkInv, ServerEnds
  PROVE  NetworkInv'
  <1>1. /\ server' = "stopped" /\ frame' = {} /\ backlog' = <<>>
        /\ toServer' = [c \in Clients |-> <<>>]
        /\ net' = net /\ players' = players /\ disconnected' = disconnected
        /\ running' = running /\ toClient' = toClient /\ copies' = copies
        /\ longest' = longest /\ sends' = sends /\ heard' = heard /\ owed' = owed
        /\ given' = given /\ named' = named
    BY DEF ServerEnds, observers
  <1>2. /\ NetworkTypeOK /\ Messages' = Messages /\ RegisteredOnce /\ NamesAreOwn /\ Listed
        /\ EventsInOrder /\ tcp' = tcp
    BY <1>1 DEF NetworkInv, PlayersOK, Messages, tcp
  <1>3. /\ link' \in [Clients -> LinkStates]
        /\ \A c \in Clients : link[c] # "none" => link'[c] # "none"
    <2>1. link' = [c \in Clients |->
            IF link[c] # "open" \/ ~tcp THEN link[c]
            ELSE IF toServer[c] = <<>> THEN "server ended" ELSE "server reset"]
      BY DEF ServerEnds
    <2>2. link \in [Clients -> LinkStates]
      BY <1>2 DEF NetworkTypeOK
    <2> QED BY <2>1, <2>2 DEF LinkStates
  <1>4. /\ toServer' \in [Clients -> Seq(Messages)]
        /\ \A c \in Clients : DOMAIN toServer'[c] = {}
    <2>1. <<>> \in Seq(Messages) /\ DOMAIN <<>> = {}
      OBVIOUS
    <2> QED BY <1>1, <2>1
  <1>5. NetworkTypeOK'
    <2>1. backlog' \in Seq(Clients) /\ frame' \subseteq DOMAIN players'
      BY <1>1
    <2> QED BY <1>1, <1>2, <1>3, <1>4, <2>1 DEF NetworkTypeOK
  <1>6. RegisteredOnce' /\ NamesAreOwn'
    BY <1>1, <1>2 DEF RegisteredOnce, NamesAreOwn, Port
  <1>7. Listed'
    <2>1. DOMAIN backlog' = {}
      BY <1>1
    <2>2. \A p \in DOMAIN players : players[p].client \in Clients
      BY <1>2, NetworkFacts
    <2> QED BY <1>1, <1>2, <1>3, <2>1, <2>2 DEF Listed, IsInjective
  <1>8. LinksHold' /\ ServerStaysUp' /\ GivesUpRightly'
    BY <1>1 DEF LinksHold, ServerStaysUp, GivesUpRightly
  <1>9. UdpOthersHear' /\ NeverEchoed'
    BY <1>1, TrafficStays
  <1>10. OwnMessages'
    BY <1>4 DEF OwnMessages
  <1>11. EventsInOrder'
    BY <1>1, <1>2 DEF EventsInOrder, InOrder, Ascending, Raised, IsEvent
  <1> QED BY <1>5, <1>6, <1>7, <1>8, <1>9, <1>10, <1>11, NetworkTogether

LEMMA NetworkStands ==
  ASSUME NetworkInv, UNCHANGED netVars
  PROVE  NetworkInv'
  <1>1. /\ net' = net /\ server' = server /\ players' = players /\ frame' = frame
        /\ backlog' = backlog /\ link' = link /\ disconnected' = disconnected
        /\ running' = running /\ toServer' = toServer /\ toClient' = toClient
        /\ copies' = copies /\ longest' = longest /\ sends' = sends /\ heard' = heard
        /\ owed' = owed /\ given' = given /\ named' = named
    BY DEF netVars, serverVars, clientVars, wires, observers
  <1>2. NetworkTypeOK /\ OwnMessages /\ LinksHold /\ ServerStaysUp /\ GivesUpRightly
        /\ EventsInOrder /\ tcp' = tcp /\ Messages' = Messages
    BY <1>1 DEF NetworkInv, PlayersOK, tcp, Messages
  <1>3. NetworkTypeOK'
    BY <1>1, <1>2 DEF NetworkTypeOK
  <1>4. RegisteredOnce' /\ NamesAreOwn' /\ Listed'
    BY <1>1, PlayersStay
  <1>5. UdpOthersHear' /\ NeverEchoed'
    BY <1>1, TrafficStays
  <1>6. OwnMessages'
    BY <1>1, <1>2 DEF OwnMessages
  <1>7. LinksHold' /\ ServerStaysUp' /\ GivesUpRightly'
    BY <1>1, <1>2 DEF LinksHold, ServerStaysUp, GivesUpRightly
  <1>8. EventsInOrder'
    BY <1>1, <1>2 DEF EventsInOrder, InOrder, Ascending, Raised, IsEvent
  <1> QED BY <1>3, <1>4, <1>5, <1>6, <1>7, <1>8, NetworkTogether

LEMMA NetworkSteps == NetworkInv /\ [Next]_vars => NetworkInv'
  <1> SUFFICES ASSUME NetworkInv, [Next]_vars PROVE NetworkInv'
    OBVIOUS
  <1>1. CASE NetworkNext
    <2>1. ASSUME NEW c \in Clients,
                 Connect(c) \/ ClientSends(c, "PlayerMoved") \/ ClientSends(c, "ping")
          PROVE  NetworkInv'
      BY <2>1, ConnectKeeps, ClientSendsKeeps
    <2>2. ASSUME NEW c \in Clients, Read(c) \/ ReadReset(c) \/ Leave(c)
          PROVE  NetworkInv'
      BY <2>2, ReadKeeps, ReadResetKeeps, LeaveKeeps
    <2>3. ASSUME NEW c \in Clients, Datagram(c) \/ Lose(c)
          PROVE  NetworkInv'
      BY <2>3, DatagramKeeps, LoseKeeps
    <2>4. CASE Listen \/ CheckPlayer \/ ServerRaises \/ ServerEnds
      BY <2>4, ListenKeeps, CheckPlayerKeeps, ServerRaisesKeeps, ServerEndsKeeps
    <2> QED BY <1>1, <2>1, <2>2, <2>3, <2>4 DEF NetworkNext
  <1>2. CASE UNCHANGED netVars
    BY <1>2, NetworkStands
  <1> QED BY <1>1, <1>2 DEF Next, vars

LEMMA NetworkAlways == Spec => []NetworkInv
  <1>1. Init => NetworkInv
    BY NetworkInitially DEF Init
  <1> QED BY <1>1, NetworkSteps, PTL DEF Spec

(* Every client is one player under its own name, and the server and its   *)
(* clients stay together until one of them has to end, however many        *)
(* clients there are, whatever is lost, repeated or reordered              *)
(* (UdpGameServerConnection.cpp:73-187, TcpGameServerConnection.cpp:34-180,*)
(* GameClient.cpp:150-172).                                                *)
THEOREM EachPlaysAsItself == Spec => []PlayersOK
  <1>1. NetworkInv => PlayersOK
    BY DEF NetworkInv
  <1> QED BY <1>1, NetworkAlways, PTL

(* Over UDP a client hears the others and not itself, and over TCP what    *)
(* the server raised reaches it once and in order                          *)
(* (UdpGameServerConnection.cpp:105-150, TcpGameServerConnection.cpp:236-  *)
(* 247).                                                                   *)
THEOREM HeardAsSent == Spec => []TrafficOK
  <1>1. NetworkInv => TrafficOK
    BY DEF NetworkInv
  <1> QED BY <1>1, NetworkAlways, PTL

(* Who was sent something by a step: a player the server takes for         *)
(* connected.                                                              *)
LEMMA SilentStep ==
  ASSUME NetworkInv, NEW p \in DOMAIN players, ~players[p].isConnected, [Next]_vars
  PROVE  given'[players[p].client] = given[players[p].client]
  <1> DEFINE c == players[p].client
  <1> SUFFICES given'[c] = given[c]
    OBVIOUS
  <1>1. /\ NetworkTypeOK /\ RegisteredOnce /\ Listed
    BY DEF NetworkInv, PlayersOK
  <1>2. c \in Clients /\ tcp
    BY <1>1, NetworkFacts DEF Listed
  <1>3. ASSUME NEW m, NEW to, ServerSends(to, m),
               \A q \in DOMAIN to : \E r \in DOMAIN players :
                  players[r].isConnected /\ to[q] = players[r].client
        PROVE  given'[c] = given[c]
    <2>1. c \notin Range(to)
      <3> SUFFICES ASSUME NEW q \in DOMAIN to, to[q] = c PROVE FALSE
        BY DEF Range
      <3>1. PICK r \in DOMAIN players : players[r].isConnected /\ c = players[r].client
        BY <1>3
      <3> QED BY <1>1, <3>1 DEF RegisteredOnce
    <2>2. given'[c] = given[c] \cup {x \in {m} : c \in Range(to)}
      BY <1>2, <1>3 DEF ServerSends
    <2> QED BY <2>1, <2>2
  <1> HIDE DEF c
  <1>4. CASE CheckPlayer
    <2>1. PICK q \in frame :
            \/ given' = given
            \/ FromPlayer(q, Head(toServer[players[q].client]))
      BY <1>4 DEF CheckPlayer, Throws
    <2>2. q \in DOMAIN players /\ players[q].isConnected
      BY <1>1, <2>1 DEF Listed, NetworkTypeOK
    <2> DEFINE m == Head(toServer[players[q].client])
               d == players[q].client
    <2> HIDE DEF m
    <2>3. CASE \E n \in net.lengths : ServerSends(<<d>>, Pong(n))
      <3>1. PICK n \in net.lengths : ServerSends(<<d>>, Pong(n))
        BY <2>3
      <3> DEFINE to == <<d>>
      <3>2. DOMAIN to = {1} /\ to[1] = d
        OBVIOUS
      <3>3. ServerSends(to, Pong(n))
        BY <3>1
      <3> HIDE DEF to
      <3> QED BY <1>3, <2>2, <3>2, <3>3
    <2>4. CASE PassOnTcp(q, m)
      <3> DEFINE to == [r \in OthersOf(m) |-> d]
      <3>1. ServerSends(to, m)
        BY <2>4 DEF PassOnTcp
      <3>2. \A r \in DOMAIN to : to[r] = d
        OBVIOUS
      <3> HIDE DEF to
      <3> QED BY <1>3, <2>2, <3>1, <3>2
    <2>5. CASE given' = given
      BY <2>5
    <2>6. FromPlayer(q, m) => \/ given' = given
                              \/ \E n \in net.lengths : ServerSends(<<d>>, Pong(n))
                              \/ PassOnTcp(q, m)
      BY DEF FromPlayer
    <2> QED BY <2>1, <2>3, <2>4, <2>5, <2>6 DEF m
  <1>5. CASE ServerRaises
    <2>1. PICK m : ServerSends(Sockets(Connected), m)
      BY <1>5 DEF ServerRaises
    <2> DEFINE to == Sockets(Connected)
    <2>2. \A q \in DOMAIN to : q \in DOMAIN players /\ players[q].isConnected
                              /\ to[q] = players[q].client
      BY DEF Sockets, Connected
    <2>3. ServerSends(to, m)
      BY <2>1
    <2> HIDE DEF to
    <2> QED BY <1>3, <2>2, <2>3
  <1>6. CASE \E x \in Clients : \/ Connect(x) \/ ClientSends(x, "PlayerMoved")
                               \/ ClientSends(x, "ping") \/ Read(x) \/ ReadReset(x)
                               \/ Leave(x) \/ Datagram(x) \/ Lose(x)
    BY <1>2, <1>6 DEF Connect, ClientSends, Read, ReadReset, Leave, Datagram, Lose, observers
  <1>7. CASE Listen \/ ServerEnds
    BY <1>7 DEF Listen, ServerEnds, observers
  <1>8. CASE UNCHANGED netVars
    BY <1>8 DEF netVars, observers
  <1>9. CASE NetworkNext
    BY <1>4, <1>5, <1>6, <1>7, <1>9 DEF NetworkNext
  <1> QED BY <1>8, <1>9 DEF Next, vars

(* The server sends nothing to a player whose reset it has seen, however   *)
(* many players it has (TcpGameServerConnection.cpp:157, 221, 240).        *)
THEOREM TheForgottenHearNothing == Spec => ForgottenStaysSilent
  <1>1. NetworkInv /\ [Next]_vars =>
          [\A p \in DOMAIN players :
             ~players[p].isConnected => given'[players[p].client] = given[players[p].client]]_netVars
    BY SilentStep
  <1> QED BY <1>1, NetworkAlways, PTL DEF Spec, ForgottenStaysSilent

-----------------------------------------------------------------------------
(* Packing and reading.                                                    *)

Widths == {8, 16, 32}

(* A unit, and a unit of which only the first n bits are used.             *)
IsUnit(width, f) == f = [b \in 0 .. width - 1 |-> f[b]]
Clean(width, f, n) == IsUnit(width, f) /\ \A b \in n .. width - 1 : f[b] = Zero

(* The places of a buffer of units, their order, and their numbers.        *)
Places(width) == [unit : Nat, bit : 0 .. width - 1]
Upto(a, b) == a.unit < b.unit \/ (a.unit = b.unit /\ a.bit <= b.bit)
Before(a, b) == a.unit < b.unit \/ (a.unit = b.unit /\ a.bit < b.bit)
BitNumber(width, a) == a.unit * width + a.bit

(* Buffers that agree before a place.                                      *)
Same(width, f, g, a) ==
  \A u \in 0 .. a.unit, b \in 0 .. width - 1 : Before(Place(u, b), a) => f[u][b] = g[u][b]

-----------------------------------------------------------------------------
(* Numbers of bits.                                                        *)

LEMMA Divided ==
  ASSUME NEW width \in Widths, NEW j \in Nat
  PROVE  /\ j \div width \in Nat /\ j % width \in 0 .. width - 1
         /\ j = (j \div width) * width + (j % width)
  <1>1. CASE width = 8 BY <1>1
  <1>2. CASE width = 16 BY <1>2
  <1>3. CASE width = 32 BY <1>3
  <1> QED BY <1>1, <1>2, <1>3 DEF Widths

LEMMA DividedBelow ==
  ASSUME NEW width \in Widths, NEW j \in Nat, NEW k \in Nat, j < k
  PROVE  j \div width < k \div width \/ (j \div width = k \div width /\ j % width < k % width)
  <1>1. CASE width = 8 BY <1>1
  <1>2. CASE width = 16 BY <1>2
  <1>3. CASE width = 32 BY <1>3
  <1> QED BY <1>1, <1>2, <1>3 DEF Widths

LEMMA PlaceNumbers ==
  ASSUME NEW width \in Widths, NEW u \in Int, NEW b \in 0 .. width - 1,
         NEW v \in Int, NEW c \in 0 .. width - 1
  PROVE  /\ u * width + b \in Int
         /\ u < v => u * width + b < v * width + c
         /\ u * width + b = v * width + c => u = v /\ b = c
         /\ u * width + b < v * width + c => u < v \/ (u = v /\ b < c)
  <1>1. CASE width = 8 BY <1>1
  <1>2. CASE width = 16 BY <1>2
  <1>3. CASE width = 32 BY <1>3
  <1> QED BY <1>1, <1>2, <1>3 DEF Widths

(* The count of bits is a multiple of the unit when the unit is full.      *)
LEMMA FullUnit ==
  ASSUME NEW width \in Widths, NEW u \in Nat, NEW c \in 1 .. width
  PROVE  /\ (u * width + c) % width = 0 <=> c = width
         /\ u * width + width = (u + 1) * width
         /\ c % width = 0 <=> c = width
  <1>1. CASE width = 8 BY <1>1
  <1>2. CASE width = 16 BY <1>2
  <1>3. CASE width = 32 BY <1>3
  <1> QED BY <1>1, <1>2, <1>3 DEF Widths

-----------------------------------------------------------------------------
(* The bits of a unit.                                                     *)

LEMMA OrZero == \A x : Or(x, Zero) = x
  BY DEF Or

(* A unit has n bits of a value from low on, and below it those it had.    *)
HasBits(r, low, n, value) == \A j \in 0 .. n - 1 : r[low + j] = value[j]
KeepsBits(r, low, number) == \A b \in 0 .. low - 1 : r[b] = number[b]

(* BitFiddler::SetBits puts the first bits of a value where it is told to, *)
(* and leaves the bits below them alone.                                   *)
LEMMA SetBitsFacts ==
  ASSUME NEW width \in Widths, NEW number, NEW start \in 0 .. width - 1,
         NEW n \in 1 .. start + 1, NEW value,
         NEW low, low = (start + 1) - n
  PROVE  LET r == SetBits(width, number, start, n, value)
         IN IsUnit(width, r) /\ HasBits(r, low, n, value) /\ KeepsBits(r, low, number)
  <1> DEFINE r == SetBits(width, number, start, n, value)
  <1>1. width \in Nat /\ start \in Nat /\ n \in Nat /\ low \in Nat /\ start - (n - 1) = low
        /\ low <= start /\ start < width
    BY DEF Widths
  <1>2. r = [b \in 0 .. width - 1 |->
               IF b \in low .. start
               THEN IF b >= low /\ b - low < width THEN value[b - low] ELSE Zero
               ELSE Or(number[b], IF b >= low /\ b - low < width THEN value[b - low] ELSE Zero)]
    BY <1>1 DEF SetBits
  <1>3. IsUnit(width, r)
    BY <1>2 DEF IsUnit
  <1>4. ASSUME NEW j \in 0 .. n - 1 PROVE r[low + j] = value[j]
    <2>1. low + j \in 0 .. width - 1 /\ low + j \in low .. start /\ (low + j) - low = j /\ j < width
          /\ low + j >= low
      BY <1>1
    <2> QED BY <1>2, <2>1
  <1>5. ASSUME NEW b \in 0 .. low - 1 PROVE r[b] = number[b]
    <2>1. b \in 0 .. width - 1 /\ b \notin low .. start /\ ~ (b >= low)
      BY <1>1
    <2> QED BY <1>2, <2>1, OrZero
  <1> QED BY <1>3, <1>4, <1>5 DEF HasBits, KeepsBits

LEMMA GetBitsFacts ==
  ASSUME NEW width \in Widths, NEW number, NEW start \in 0 .. width - 1,
         NEW n \in 1 .. start + 1, IsUnit(width, number)
  PROVE  LET r == GetBitsValue(width, number, start, n)
         IN /\ Clean(width, r, n)
            /\ \A j \in 0 .. n - 1 : r[j] = number[(start + 1 - n) + j]
  <1> DEFINE r == GetBitsValue(width, number, start, n)
  <1>1. width \in Nat /\ start \in Nat /\ n \in Nat /\ n <= width
    BY DEF Widths
  <1>2. CASE n = width
    <2>1. r = number /\ start + 1 - n = 0
      BY <1>1, <1>2 DEF GetBitsValue
    <2>2. \A b \in n .. width - 1 : r[b] = Zero
      BY <1>1, <1>2
    <2> QED BY <1>1, <1>2, <2>1, <2>2 DEF Clean
  <1>3. CASE n # width
    <2>1. r = [b \in 0 .. width - 1 |-> IF b < n THEN number[start + 1 - n + b] ELSE Zero]
      BY <1>3 DEF GetBitsValue
    <2>2. IsUnit(width, r)
      BY <2>1 DEF IsUnit
    <2>3. \A b \in n .. width - 1 : r[b] = Zero
      BY <1>1, <2>1
    <2>4. \A j \in 0 .. n - 1 : r[j] = number[(start + 1 - n) + j]
      BY <1>1, <2>1
    <2> QED BY <2>2, <2>3, <2>4 DEF Clean
  <1> QED BY <1>2, <1>3

LEMMA EmptyUnit ==
  ASSUME NEW width \in Widths
  PROVE  IsUnit(width, Empty(width)) /\ \A b \in 0 .. width - 1 : Empty(width)[b] = Zero
  BY DEF IsUnit, Empty
-----------------------------------------------------------------------------
(* Where values lie.                                                       *)

IsValue(width, v) ==
  /\ v \in [type : ValueTypes, size : Nat]
  /\ v.type = "bits" => v.size \in 1 .. width

(* The place of bit j of the bytes of a value that begins at a.            *)
ByteBit(width, a, j) == Place(BytesAt(width, a).unit + j \div width, j % width)

LEMMA PlaceFacts ==
  ASSUME NEW width \in Widths, NEW u \in Nat, NEW b \in 0 .. width - 1
  PROVE  Place(u, b) \in Places(width) /\ Place(u, b).unit = u /\ Place(u, b).bit = b
  BY DEF Place, Places

LEMMA BehindFacts ==
  ASSUME NEW width \in Widths, NEW a \in Places(width), NEW n \in 0 .. width
  PROVE  LET b == Behind(width, a, n)
         IN /\ b \in Places(width) /\ Upto(a, b)
            /\ b = IF a.bit + n < width THEN Place(a.unit, a.bit + n)
                   ELSE Place(a.unit + 1, (a.bit + n) - width)
            /\ BitNumber(width, b) = BitNumber(width, a) + n
            /\ n = width => b.unit = a.unit + 1 /\ b.bit = a.bit
  <1>1. a.unit \in Nat /\ a.bit \in 0 .. width - 1 /\ a = Place(a.unit, a.bit) /\ width \in Nat
    BY DEF Places, Place, Widths
  <1>2. (a.unit + 1) * width = a.unit * width + width
    <2>1. CASE width = 8 BY <1>1, <2>1
    <2>2. CASE width = 16 BY <1>1, <2>2
    <2>3. CASE width = 32 BY <1>1, <2>3
    <2> QED BY <2>1, <2>2, <2>3 DEF Widths
  <1>3. a.unit * width \in Int
    BY <1>1
  <1>4. CASE a.bit + n < width
    <2>1. Behind(width, a, n) = Place(a.unit, a.bit + n) /\ a.bit + n \in 0 .. width - 1
      BY <1>1, <1>4 DEF Behind
    <2> QED BY <1>1, <1>3, <1>4, <2>1, PlaceFacts DEF Upto, BitNumber
  <1>5. CASE ~ (a.bit + n < width)
    <2>1. Behind(width, a, n) = Place(a.unit + 1, (a.bit + n) - width)
          /\ (a.bit + n) - width \in 0 .. width - 1
      BY <1>1, <1>5 DEF Behind
    <2> QED BY <1>1, <1>2, <1>3, <1>5, <2>1, PlaceFacts DEF Upto, BitNumber
  <1> QED BY <1>4, <1>5

LEMMA BehindInOrder ==
  ASSUME NEW width \in Widths, NEW a \in Places(width), NEW n \in 1 .. width, NEW j \in 0 .. n - 1
  PROVE  Before(Behind(width, a, j), Behind(width, a, n))
  <1>1. j \in 0 .. width /\ n \in 0 .. width /\ width \in Nat
    BY DEF Widths
  <1>2. a.unit \in Nat /\ a.bit \in 0 .. width - 1
    BY DEF Places
  <1>3. Behind(width, a, j) = IF a.bit + j < width THEN Place(a.unit, a.bit + j)
                   ELSE Place(a.unit + 1, (a.bit + j) - width)
    BY <1>1, BehindFacts
  <1>4. Behind(width, a, n) = IF a.bit + n < width THEN Place(a.unit, a.bit + n)
                   ELSE Place(a.unit + 1, (a.bit + n) - width)
    BY <1>1, BehindFacts
  <1> QED BY <1>1, <1>2, <1>3, <1>4 DEF Before, Place

LEMMA BytesAtFacts ==
  ASSUME NEW width \in Widths, NEW a \in Places(width)
  PROVE  LET b == BytesAt(width, a)
         IN /\ b \in Places(width) /\ b.bit = 0 /\ Upto(Behind(width, a, width), b)
            /\ b.unit = a.unit + (IF a.bit = 0 THEN 1 ELSE 2)
  <1> DEFINE e == Behind(width, a, width)
  <1>1. width \in 0 .. width /\ width \in Nat \ {0} /\ a.unit \in Nat /\ a.bit \in 0 .. width - 1
    BY DEF Widths, Places
  <1>2. e \in Places(width) /\ e.unit = a.unit + 1 /\ e.bit = a.bit
    BY <1>1, BehindFacts
  <1>3. BytesAt(width, a) = IF e.bit = 0 THEN e ELSE Place(e.unit + 1, 0)
    BY DEF BytesAt, NextUnit
  <1>4. Place(e.unit + 1, 0) \in Places(width) /\ Place(e.unit + 1, 0).unit = e.unit + 1
        /\ Place(e.unit + 1, 0).bit = 0
    BY <1>1, <1>2, PlaceFacts
  <1> HIDE DEF e
  <1>5. BytesAt(width, a) \in Places(width) /\ BytesAt(width, a).bit = 0 /\ Upto(e, BytesAt(width, a))
        /\ BytesAt(width, a).unit = a.unit + (IF a.bit = 0 THEN 1 ELSE 2)
    BY <1>1, <1>2, <1>3, <1>4 DEF Upto
  <1> QED BY <1>5 DEF e

LEMMA UptoIsOrder ==
  ASSUME NEW width \in Widths, NEW a \in Places(width), NEW b \in Places(width), NEW c \in Places(width)
  PROVE  /\ Upto(a, a) /\ (Upto(a, b) /\ Upto(b, c) => Upto(a, c))
         /\ Before(a, b) /\ Upto(b, c) => Before(a, c)
         /\ Upto(a, b) /\ Before(b, c) => Before(a, c)
         /\ Before(a, b) => Upto(a, b) /\ BitNumber(width, a) < BitNumber(width, b)
         /\ Upto(a, b) => BitNumber(width, a) <= BitNumber(width, b) /\ a.unit <= b.unit
  <1>1. /\ a.unit \in Nat /\ a.bit \in 0 .. width - 1 /\ b.unit \in Nat /\ b.bit \in 0 .. width - 1
        /\ c.unit \in Nat /\ c.bit \in 0 .. width - 1 /\ width \in Nat
    BY DEF Places, Widths
  <1>2. a.unit < b.unit => BitNumber(width, a) < BitNumber(width, b)
    BY <1>1, PlaceNumbers DEF BitNumber
  <1>3. BitNumber(width, a) = a.unit * width + a.bit /\ BitNumber(width, b) = b.unit * width + b.bit
        /\ a.unit * width \in Int /\ (a.unit = b.unit => a.unit * width = b.unit * width)
    BY <1>1 DEF BitNumber
  <1>4. Upto(a, b) => BitNumber(width, a) <= BitNumber(width, b)
    <2>1. BitNumber(width, a) \in Int /\ BitNumber(width, b) \in Int
      BY <1>1, PlaceNumbers DEF BitNumber
    <2>2. CASE a.unit < b.unit
      BY <1>2, <2>1, <2>2
    <2>3. CASE a.unit = b.unit /\ a.bit <= b.bit
      BY <1>1, <1>3, <2>3
    <2> QED BY <2>2, <2>3 DEF Upto
  <1>5. Before(a, b) => BitNumber(width, a) < BitNumber(width, b)
    <2>1. CASE a.unit = b.unit /\ a.bit < b.bit
      BY <1>1, <1>3, <2>1
    <2> QED BY <1>2, <2>1 DEF Before
  <1> QED BY <1>1, <1>4, <1>5 DEF Upto, Before

(* Where a value ends, and that all its bits lie before.                   *)
LEMMA EndOfValueFacts ==
  ASSUME NEW width \in Widths, NEW a \in Places(width), NEW v, IsValue(width, v)
  PROVE  LET e == EndOfValue(width, a, v)
         IN /\ e \in Places(width) /\ Upto(a, e)
            /\ v.type = "bits" =>
                  e = Behind(width, a, v.size) /\ \A j \in 0 .. v.size - 1 : Before(Behind(width, a, j), e)
            /\ v.type \in {"finish", "flush"} => e = Place(a.unit + 1, 0)
            /\ v.type \in {"string", "array"} =>
                  /\ Upto(Behind(width, a, width), e)
                  /\ \A j \in 0 .. width - 1 : Before(Behind(width, a, j), e)
                  /\ \A j \in 0 .. 8 * v.size - 1 :
                        ByteBit(width, a, j) \in Places(width) /\ Before(ByteBit(width, a, j), e)
            /\ v.type # "bits" => a.unit < e.unit
  <1> DEFINE e == EndOfValue(width, a, v)
             s == BytesAt(width, a)
             h == Behind(width, a, width)
  <1>1. /\ v.type \in ValueTypes /\ v.size \in Nat /\ 8 * v.size \in Nat /\ a.unit \in Nat
        /\ a.bit \in 0 .. width - 1 /\ width \in Nat \ {0} /\ width \in 1 .. width /\ width \in 0 .. width
        /\ v.type = "bits" => v.size \in 1 .. width
    BY DEF IsValue, Widths, Places
  <1>2. CASE v.type = "bits"
    <2>1. e = Behind(width, a, v.size) /\ v.size \in 0 .. width
      BY <1>1, <1>2 DEF EndOfValue
    <2>2. e \in Places(width) /\ Upto(a, e)
      BY <2>1, BehindFacts
    <2>3. \A j \in 0 .. v.size - 1 : Before(Behind(width, a, j), e)
      BY <1>1, <1>2, <2>1, BehindInOrder
    <2> QED BY <1>2, <2>1, <2>2, <2>3
  <1>3. CASE v.type \in {"finish", "flush"}
    <2>1. e = Place(a.unit + 1, 0)
      BY <1>3 DEF EndOfValue, NextUnit
    <2>2. e \in Places(width) /\ e.unit = a.unit + 1
      BY <1>1, <2>1, PlaceFacts
    <2> QED BY <1>1, <1>3, <2>1, <2>2 DEF Upto
  <1>4. s \in Places(width) /\ s.bit = 0 /\ Upto(h, s) /\ h \in Places(width)
        /\ h.unit = a.unit + 1 /\ Upto(a, h)
    BY <1>1, BytesAtFacts, BehindFacts
  <1>5. CASE v.type = "string" /\ v.size = 0
    <2>1. e = h
      BY <1>5 DEF EndOfValue
    <2>2. \A j \in 0 .. width - 1 : Before(Behind(width, a, j), e)
      BY <1>1, <2>1, BehindInOrder
    <2>3. Upto(h, h)
      BY <1>4, UptoIsOrder
    <2> QED BY <1>1, <1>4, <1>5, <2>1, <2>2, <2>3
  <1>6. CASE v.type \in {"string", "array"} /\ ~ (v.type = "string" /\ v.size = 0)
    <2>1. e = Place(s.unit + (8 * v.size) \div width, (8 * v.size) % width)
      BY <1>6 DEF EndOfValue
    <2>2. (8 * v.size) \div width \in Nat /\ (8 * v.size) % width \in 0 .. width - 1 /\ s.unit \in Nat
      BY <1>1, <1>4, Divided DEF Places
    <2>3. e \in Places(width) /\ e.unit = s.unit + (8 * v.size) \div width /\ e.bit = (8 * v.size) % width
      BY <2>1, <2>2, PlaceFacts
    <2> HIDE DEF e, s, h
    <2>4. Upto(s, e)
      BY <1>4, <2>2, <2>3 DEF Upto
    <2>5. Upto(h, e) /\ Upto(a, e) /\ a.unit < e.unit
      <3>1. Upto(h, e) /\ Upto(a, e)
        BY <1>4, <2>3, <2>4, UptoIsOrder
      <3>2. h.unit <= e.unit
        BY <1>4, <2>3, <3>1, UptoIsOrder
      <3>3. h.unit \in Nat /\ e.unit \in Nat
        BY <1>4, <2>3 DEF Places
      <3> QED BY <1>1, <1>4, <3>1, <3>2, <3>3
    <2>6. ASSUME NEW j \in 0 .. width - 1 PROVE Before(Behind(width, a, j), e)
      <3>1. Before(Behind(width, a, j), h)
        BY <1>1, BehindInOrder DEF h
      <3>2. Behind(width, a, j) \in Places(width)
        <4>1. j \in 0 .. width
          BY <1>1
        <4> QED BY <4>1, BehindFacts
      <3> QED BY <1>4, <2>3, <2>5, <3>1, <3>2, UptoIsOrder
    <2>7. ASSUME NEW j \in 0 .. 8 * v.size - 1
          PROVE  ByteBit(width, a, j) \in Places(width) /\ Before(ByteBit(width, a, j), e)
      <3>1. j \in Nat /\ j < 8 * v.size
        BY <1>1
      <3>2. j \div width \in Nat /\ j % width \in 0 .. width - 1
        BY <3>1, Divided
      <3>3. j \div width < (8 * v.size) \div width
            \/ (j \div width = (8 * v.size) \div width /\ j % width < (8 * v.size) % width)
        BY <1>1, <3>1, DividedBelow
      <3>4. ByteBit(width, a, j) = Place(s.unit + j \div width, j % width)
        BY DEF ByteBit, s
      <3>5. s.unit + j \div width \in Nat
        BY <2>2, <3>2
      <3>6. /\ ByteBit(width, a, j) \in Places(width) /\ ByteBit(width, a, j).unit = s.unit + j \div width
            /\ ByteBit(width, a, j).bit = j % width
        BY <3>2, <3>4, <3>5, PlaceFacts
      <3> QED BY <2>2, <2>3, <3>2, <3>3, <3>6 DEF Before
    <2> QED BY <1>6, <2>3, <2>5, <2>6, <2>7 DEF e, h
  <1> QED BY <1>1, <1>2, <1>3, <1>5, <1>6 DEF ValueTypes

-----------------------------------------------------------------------------
(* Where the values of a list lie.                                         *)

ValuesOn(width) == {v \in [type : ValueTypes, size : Nat] : IsValue(width, v)}

LEMMA EndOfEach ==
  ASSUME NEW width \in Widths, NEW vs \in Seq(ValuesOn(width))
  PROVE  /\ EndOf(width, vs, 0) = Place(0, 0)
         /\ \A n \in 0 .. Len(vs) : EndOf(width, vs, n) \in Places(width)
         /\ \A n \in 1 .. Len(vs) : EndOf(width, vs, n) = EndOfValue(width, EndOf(width, vs, n - 1), vs[n])
  <1> DEFINE V == Places(width)
             T == ValuesOn(width)
             N == Len(vs)
             op == [x \in V \X T |-> EndOfValue(width, x[1], x[2])]
             Def(g) == [k \in 0 .. N |-> IF k = 0 THEN Place(0, 0) ELSE EndOfValue(width, g[k - 1], vs[k])]
             end == CHOOSE g : g = Def(g)
  <1>1. N \in Nat /\ \A k \in 1 .. N : vs[k] \in T
    OBVIOUS
  <1>2. \A a \in V, v \in T : EndOfValue(width, a, v) \in V
    BY EndOfValueFacts DEF ValuesOn
  <1>3. Place(0, 0) \in V
    <2>1. 0 \in 0 .. width - 1
      BY DEF Widths
    <2> QED BY <2>1, PlaceFacts
  <1>4. op \in [V \X T -> V]
    <2> HIDE DEF V, T
    <2> QED BY <1>2
  <1>5. PICK r : r \in [0 .. N -> V] /\ IsRun(r, N, op, Place(0, 0), vs)
    <2> HIDE DEF op, V
    <2> QED BY <1>3, <1>4, RunExists
  <1>6. ASSUME NEW n \in 1 .. N PROVE r[n] = EndOfValue(width, r[n - 1], vs[n])
    <2>1. n - 1 \in 0 .. N /\ n \in 0 .. N
      BY <1>1
    <2>2. r[n - 1] \in V /\ vs[n] \in T
      BY <1>1, <1>5, <2>1
    <2>3. r[n] = op[<<r[n - 1], vs[n]>>]
      <3> HIDE DEF op
      <3> QED BY <1>5 DEF IsRun
    <2> HIDE DEF V, T
    <2> QED BY <2>2, <2>3
  <1>7. r[0] = Place(0, 0) /\ r = [n \in 0 .. N |-> r[n]]
    BY <1>5 DEF IsRun
  <1> HIDE DEF op
  <1>8. r = Def(r)
    <2>1. ASSUME NEW n \in 0 .. N
          PROVE  r[n] = IF n = 0 THEN Place(0, 0) ELSE EndOfValue(width, r[n - 1], vs[n])
      <3>1. CASE n = 0
        BY <1>7, <3>1
      <3>2. CASE n # 0
        <4>1. n \in 1 .. N
          BY <1>1, <3>2
        <4> QED BY <1>6, <3>2, <4>1
      <3> QED BY <3>1, <3>2
    <2> QED BY <1>7, <2>1
  <1>9. end = Def(end)
    <2> HIDE DEF Def
    <2> QED BY <1>8
  <1>10. \A n : EndOf(width, vs, n) = end[n]
    BY DEF EndOf
  <1> HIDE DEF end
  <1>11. /\ end[0] = Place(0, 0)
         /\ \A n \in 1 .. N : end[n] = EndOfValue(width, end[n - 1], vs[n])
    <2>1. 0 \in 0 .. N /\ \A n \in 1 .. N : n \in 0 .. N /\ n # 0
      BY <1>1
    <2> QED BY <1>9, <2>1
  <1> DEFINE Stray == {n \in 0 .. N : end[n] \notin V}
  <1>12. ASSUME NEW n \in Stray PROVE \E k \in Stray : k < n
    <2>1. n \in 0 .. N /\ end[n] \notin V
      OBVIOUS
    <2>2. n # 0
      BY <1>3, <1>11, <2>1
    <2>3. n \in 1 .. N /\ n - 1 \in 0 .. N /\ n - 1 < n
      BY <1>1, <2>1, <2>2
    <2>4. end[n - 1] \notin V
      BY <1>1, <1>2, <1>11, <2>1, <2>3
    <2> QED BY <2>3, <2>4
  <1>13. Stray = {}
    <2>1. Stray \in SUBSET Nat
      BY <1>1
    <2> HIDE DEF Stray
    <2> QED BY <1>12, <2>1, NoDescent
  <1>14. \A n \in 0 .. N : end[n] \in V
    BY <1>13
  <1> HIDE DEF V
  <1> QED BY <1>10, <1>11, <1>14 DEF V

(* A later value ends no earlier.                                          *)
LEMMA EndsInOrder ==
  ASSUME NEW width \in Widths, NEW vs \in Seq(ValuesOn(width)), NEW n \in 0 .. Len(vs), NEW m \in 0 .. n
  PROVE  Upto(EndOf(width, vs, m), EndOf(width, vs, n))
  <1> DEFINE End(k) == EndOf(width, vs, k)
             Wrong == {k \in m .. Len(vs) : ~ Upto(End(m), End(k))}
  <1>1. Len(vs) \in Nat /\ m \in 0 .. Len(vs) /\ m \in Nat
    OBVIOUS
  <1>2. \A k \in 0 .. Len(vs) : End(k) \in Places(width)
    BY EndOfEach
  <1>3. ASSUME NEW k \in Wrong PROVE \E l \in Wrong : l < k
    <2>1. k \in m .. Len(vs) /\ ~ Upto(End(m), End(k))
      OBVIOUS
    <2>2. k # m
      BY <1>1, <1>2, <2>1, UptoIsOrder
    <2>3. k - 1 \in m .. Len(vs) /\ k - 1 < k /\ k \in 1 .. Len(vs) /\ k - 1 \in 0 .. Len(vs) /\ k \in 0 .. Len(vs)
      BY <1>1, <2>1, <2>2
    <2>4. vs[k] \in ValuesOn(width) /\ End(k) = EndOfValue(width, End(k - 1), vs[k])
      BY <2>3, EndOfEach
    <2>5. Upto(End(k - 1), End(k))
      BY <1>2, <2>3, <2>4, EndOfValueFacts DEF ValuesOn
    <2>6. ~ Upto(End(m), End(k - 1))
      <3> HIDE DEF End
      <3> QED BY <1>1, <1>2, <2>1, <2>3, <2>5, UptoIsOrder
    <2> QED BY <2>3, <2>6
  <1>4. Wrong = {}
    <2>1. Wrong \in SUBSET Nat
      BY <1>1
    <2> HIDE DEF Wrong
    <2> QED BY <1>3, <2>1, NoDescent
  <1>5. n \in m .. Len(vs)
    OBVIOUS
  <1> QED BY <1>4, <1>5

-----------------------------------------------------------------------------
(* The packer.                                                             *)

IsBuffer(width, f) ==
  /\ f = [u \in 0 .. BufferUnits - 1 |-> f[u]]
  /\ \A u \in 0 .. BufferUnits - 1 : IsUnit(width, f[u])

(* A packer stands at a place: its counters tell the same place, and left  *)
(* is what it takes to be left of its unit.                                *)
PackerFields == {"dest", "buffer", "writeBit", "overflowed", "packed", "bitsLeft", "segments"}
Standing(width, p, a, left) ==
  /\ DOMAIN p = PackerFields
  /\ p.writeBit = a.bit /\ p.overflowed = a.unit /\ p.segments = a.unit
  /\ p.packed = BitNumber(width, a) /\ p.bitsLeft = left
  /\ IsUnit(width, p.buffer) /\ IsBuffer(width, p.dest)

(* What is packed: the unit that was begun is not in the buffer yet.       *)
Packed(p) == [p.dest EXCEPT ![p.overflowed] = p.buffer]

FitsAt(width, a) ==
  a.unit < BufferUnits /\ UInt8(a.unit) = a.unit /\ UIntT(width, BitNumber(width, a)) = BitNumber(width, a)

At(f, a) == f[a.unit][a.bit]

LEMMA PackedFacts ==
  ASSUME NEW width \in Widths, NEW a \in Places(width), NEW left, NEW p,
         Standing(width, p, a, left), a.unit < BufferUnits, BufferUnits \in Nat
  PROVE  /\ IsBuffer(width, Packed(p)) /\ IsBuffer(width, p.dest)
         /\ \A u \in 0 .. BufferUnits - 1 : Packed(p)[u] = IF u = a.unit THEN p.buffer ELSE p.dest[u]
  <1>1. a.unit \in 0 .. BufferUnits - 1
    BY DEF Places
  <1>2. IsBuffer(width, p.dest) /\ p.overflowed = a.unit /\ IsUnit(width, p.buffer)
    BY DEF Standing
  <1>3. DOMAIN p.dest = 0 .. BufferUnits - 1
    BY <1>2 DEF IsBuffer
  <1>4. Packed(p) = [u \in 0 .. BufferUnits - 1 |-> IF u = a.unit THEN p.buffer ELSE p.dest[u]]
    BY <1>2, <1>3 DEF Packed
  <1>5. \A u \in 0 .. BufferUnits - 1 : IsUnit(width, p.dest[u])
    BY <1>2 DEF IsBuffer
  <1>6. \A u \in 0 .. BufferUnits - 1 : Packed(p)[u] = IF u = a.unit THEN p.buffer ELSE p.dest[u]
    BY <1>4
  <1>7. IsBuffer(width, Packed(p))
    BY <1>2, <1>4, <1>5, <1>6 DEF IsBuffer
  <1> QED BY <1>2, <1>6, <1>7

(* A value within a unit.                                                  *)
LEMMA PacksInside ==
  ASSUME NEW width \in Widths, NEW a \in Places(width), NEW n \in 1 .. width, a.bit + n <= width,
         NEW p, NEW left, Standing(width, p, a, left), NEW v, IsUnit(width, v), BufferUnits \in Nat,
         FitsAt(width, a), FitsAt(width, Behind(width, a, n))
  PROVE  LET q == PackInside(width, p, n, v)
             b == Behind(width, a, n)
         IN /\ Standing(width, q, b, width - b.bit) /\ Same(width, Packed(p), Packed(q), a)
            /\ \A j \in 0 .. n - 1 : At(Packed(q), Behind(width, a, j)) = v[j]
            /\ n = width => Same(width, q.dest, Packed(q), b)
  <1> DEFINE q == PackInside(width, p, n, v)
             b == Behind(width, a, n)
             unit == SetBits(width, p.buffer, a.bit + n - 1, n, v)
             full == a.bit + n = width
             dest == [p.dest EXCEPT ![a.unit] = unit]
  <1>1. /\ a.unit \in Nat /\ a.bit \in 0 .. width - 1 /\ width \in Nat \ {0} /\ n \in Nat \ {0}
        /\ a.unit < BufferUnits /\ n \in 0 .. width /\ a.bit + n \in 1 .. width
        /\ a.unit \in 0 .. BufferUnits - 1
    BY DEF Places, Widths, FitsAt
  <1>2. /\ DOMAIN p = PackerFields
        /\ p.writeBit = a.bit /\ p.overflowed = a.unit /\ p.segments = a.unit
        /\ p.packed = BitNumber(width, a) /\ p.bitsLeft = left
        /\ IsUnit(width, p.buffer) /\ IsBuffer(width, p.dest)
    BY DEF Standing
  <1>3. b \in Places(width) /\ BitNumber(width, b) = BitNumber(width, a) + n
        /\ b = IF full THEN Place(a.unit + 1, 0) ELSE Place(a.unit, a.bit + n)
    <2>1. b \in Places(width) /\ BitNumber(width, b) = BitNumber(width, a) + n
          /\ b = IF a.bit + n < width THEN Place(a.unit, a.bit + n)
                   ELSE Place(a.unit + 1, (a.bit + n) - width)
      BY <1>1, BehindFacts
    <2> HIDE DEF b
    <2> QED BY <1>1, <2>1
  <1>4. b.unit = (IF full THEN a.unit + 1 ELSE a.unit) /\ b.bit = (IF full THEN 0 ELSE a.bit + n)
    BY <1>3 DEF Place
  <1>5. UIntT(width, p.packed + n) = BitNumber(width, b) /\ UInt8(b.unit) = b.unit
        /\ b.unit \in 0 .. BufferUnits - 1
    <2>1. UIntT(width, BitNumber(width, b)) = BitNumber(width, b) /\ UInt8(b.unit) = b.unit
          /\ b.unit < BufferUnits
      BY DEF FitsAt
    <2>2. p.packed + n = BitNumber(width, b)
      BY <1>2, <1>3
    <2>3. b.unit \in Nat
      BY <1>1, <1>4
    <2> HIDE DEF b
    <2> QED BY <2>1, <2>2, <2>3
  <1>6. BitNumber(width, b) % width = 0 <=> full
    <2>1. BitNumber(width, b) = a.unit * width + (a.bit + n)
      <3>1. BitNumber(width, a) = a.unit * width + a.bit /\ a.unit * width \in Int
        BY <1>1 DEF BitNumber
      <3> QED BY <1>1, <1>3, <3>1
    <2>2. \A c \in 1 .. width : (a.unit * width + c) % width = 0 <=> c = width
      BY <1>1, FullUnit
    <2> HIDE DEF b
    <2> QED BY <1>1, <2>1, <2>2
  <1>7. /\ IsUnit(width, unit) /\ \A j \in 0 .. n - 1 : unit[a.bit + j] = v[j]
        /\ \A c \in 0 .. a.bit - 1 : unit[c] = p.buffer[c]
    <2>1. a.bit + n - 1 \in 0 .. width - 1 /\ n \in 1 .. (a.bit + n - 1) + 1
          /\ (a.bit + n - 1) + 1 - n = a.bit
      BY <1>1
    <2>2. IsUnit(width, unit) /\ HasBits(unit, a.bit, n, v) /\ KeepsBits(unit, a.bit, p.buffer)
      BY <2>1, SetBitsFacts
    <2> QED BY <2>2 DEF HasBits, KeepsBits
  <1>8. /\ DOMAIN q = PackerFields /\ q.dest = (IF full THEN dest ELSE p.dest) /\ q.buffer = unit
        /\ q.writeBit = b.bit /\ q.overflowed = b.unit /\ q.segments = b.unit
        /\ q.packed = BitNumber(width, b) /\ q.bitsLeft = width - b.bit
    <2>1. a.bit + n - 1 = p.writeBit + n - 1
      BY <1>2
    <2> HIDE DEF b
    <2>2. CASE full
      <3>1. UIntT(width, p.packed + n) % width = 0 /\ b.unit = a.unit + 1 /\ b.bit = 0 /\ width - 0 = width
            /\ UInt8(a.unit + 1) = a.unit + 1
        BY <1>1, <1>4, <1>5, <1>6, <2>2
      <3>2. Write(p, unit) = dest
        BY <1>2 DEF Write
      <3> HIDE DEF unit, dest
      <3>3. PackInside(width, p, n, v) =
              [[p EXCEPT !.buffer = unit, !.packed = BitNumber(width, b)]
                 EXCEPT !.dest = dest, !.overflowed = a.unit + 1, !.segments = a.unit + 1,
                        !.bitsLeft = width, !.writeBit = 0]
        BY <1>2, <1>5, <2>1, <3>1, <3>2 DEF PackInside, unit
      <3> HIDE DEF full
      <3> QED BY <1>2, <2>2, <3>1, <3>3 DEF PackerFields, q
    <2>3. CASE ~full
      <3>1. UIntT(width, p.packed + n) % width # 0 /\ b.unit = a.unit /\ b.bit = a.bit + n
        BY <1>1, <1>4, <1>5, <1>6, <2>3
      <3> HIDE DEF unit, dest
      <3>2. PackInside(width, p, n, v) =
              [[p EXCEPT !.buffer = unit, !.packed = BitNumber(width, b)]
                 EXCEPT !.writeBit = a.bit + n, !.bitsLeft = width - (a.bit + n)]
        BY <1>2, <1>5, <2>1, <3>1 DEF PackInside, unit
      <3> HIDE DEF full
      <3> QED BY <1>2, <2>3, <3>1, <3>2 DEF PackerFields, q
    <2> QED BY <2>2, <2>3
  <1> HIDE DEF q, b, unit
  <1>9. dest = [u \in 0 .. BufferUnits - 1 |-> IF u = a.unit THEN unit ELSE p.dest[u]] /\ IsBuffer(width, dest)
    <2>1. DOMAIN p.dest = 0 .. BufferUnits - 1
      BY <1>2 DEF IsBuffer
    <2> QED BY <1>2, <1>7, <2>1 DEF IsBuffer
  <1> HIDE DEF dest
  <1>10. Standing(width, q, b, width - b.bit)
    BY <1>2, <1>7, <1>8, <1>9 DEF Standing
  <1>11. \A u \in 0 .. BufferUnits - 1 : Packed(q)[u] = IF u = b.unit THEN unit
                                                        ELSE IF full THEN dest[u] ELSE p.dest[u]
    <2>1. b.unit < BufferUnits
      BY DEF FitsAt, b
    <2>2. \A u \in 0 .. BufferUnits - 1 : Packed(q)[u] = IF u = b.unit THEN q.buffer ELSE q.dest[u]
      BY <1>3, <1>10, <2>1, PackedFacts
    <2> QED BY <1>8, <2>2
  <1>12. \A u \in 0 .. BufferUnits - 1 : Packed(p)[u] = IF u = a.unit THEN p.buffer ELSE p.dest[u]
    BY <1>1, PackedFacts
  <1>13. Packed(q)[a.unit] = unit
    BY <1>1, <1>4, <1>9, <1>11
  <1>14. Same(width, Packed(p), Packed(q), a)
    <2>1. ASSUME NEW u \in 0 .. a.unit, NEW c \in 0 .. width - 1, Before(Place(u, c), a)
          PROVE  Packed(p)[u][c] = Packed(q)[u][c]
      <3>1. u \in 0 .. BufferUnits - 1 /\ (u < a.unit \/ (u = a.unit /\ c \in 0 .. a.bit - 1))
        BY <1>1, <2>1 DEF Before, Place
      <3>2. CASE u < a.unit
        BY <1>1, <1>4, <1>9, <1>11, <1>12, <3>1, <3>2
      <3>3. CASE u = a.unit /\ c \in 0 .. a.bit - 1
        BY <1>1, <1>7, <1>12, <1>13, <3>1, <3>3
      <3> QED BY <3>1, <3>2, <3>3
    <2> QED BY <2>1 DEF Same
  <1>15. ASSUME NEW j \in 0 .. n - 1 PROVE At(Packed(q), Behind(width, a, j)) = v[j]
    <2>1. a.bit + j < width /\ j \in 0 .. width
      BY <1>1
    <2>2. Behind(width, a, j) = Place(a.unit, a.bit + j)
      BY <2>1, BehindFacts
    <2> QED BY <1>7, <1>13, <2>2 DEF At, Place
  <1>16. ASSUME n = width PROVE Same(width, q.dest, Packed(q), b)
    <2>1. b.bit = 0 /\ full
      BY <1>1, <1>4, <1>16
    <2>2. ASSUME NEW u \in 0 .. b.unit, NEW c \in 0 .. width - 1, Before(Place(u, c), b)
          PROVE  q.dest[u][c] = Packed(q)[u][c]
      <3>1. u \in 0 .. BufferUnits - 1 /\ u # b.unit
        BY <1>1, <1>4, <1>5, <2>1, <2>2 DEF Before, Place
      <3> QED BY <1>8, <1>11, <2>1, <3>1
    <2> QED BY <2>2 DEF Same
  <1> QED BY <1>10, <1>14, <1>15, <1>16 DEF q, b

(* A value that goes on in the next unit.                                  *)
LEMMA PacksAcross ==
  ASSUME NEW width \in Widths, NEW a \in Places(width), NEW n \in 1 .. width, a.bit + n > width,
         NEW p, NEW left, Standing(width, p, a, left), NEW v, IsUnit(width, v), BufferUnits \in Nat,
         FitsAt(width, a), FitsAt(width, Behind(width, a, n))
  PROVE  LET q == PackAcross(width, p, n, v)
             b == Behind(width, a, n)
         IN /\ Standing(width, q, b, width - b.bit) /\ Same(width, Packed(p), Packed(q), a)
            /\ \A j \in 0 .. n - 1 : At(Packed(q), Behind(width, a, j)) = v[j]
            /\ Same(width, q.dest, Packed(q), b)
  <1> DEFINE q == PackAcross(width, p, n, v)
             b == Behind(width, a, n)
             room == width - a.bit
             more == n - room
             first == SetBits(width, p.buffer, width - 1, room, v)
             rest == SetBits(width, Empty(width), more - 1, more, GetBitsValue(width, v, n - 1, more))
             dest == [p.dest EXCEPT ![a.unit] = first, ![a.unit + 1] = rest]
  <1>1. /\ a.unit \in Nat /\ a.bit \in 0 .. width - 1 /\ width \in Nat \ {0} /\ n \in Nat \ {0} /\ n <= width
        /\ a.unit < BufferUnits /\ n \in 0 .. width /\ room \in 1 .. width - 1 /\ more \in 1 .. width - 1
        /\ a.unit \in 0 .. BufferUnits - 1 /\ more = (a.bit + n) - width /\ ~ (a.bit + n < width)
    BY DEF Places, Widths, FitsAt
  <1>2. /\ DOMAIN p = PackerFields
        /\ p.writeBit = a.bit /\ p.overflowed = a.unit /\ p.segments = a.unit
        /\ p.packed = BitNumber(width, a) /\ p.bitsLeft = left
        /\ IsUnit(width, p.buffer) /\ IsBuffer(width, p.dest)
    BY DEF Standing
  <1>3. b \in Places(width) /\ BitNumber(width, b) = BitNumber(width, a) + n
        /\ b = Place(a.unit + 1, more)
    BY <1>1, BehindFacts
  <1>4. b.unit = a.unit + 1 /\ b.bit = more
    BY <1>3 DEF Place
  <1>5. UIntT(width, p.packed + n) = BitNumber(width, b) /\ UInt8(a.unit + 1) = a.unit + 1
        /\ a.unit + 1 \in 0 .. BufferUnits - 1 /\ b.unit < BufferUnits
    <2>1. UIntT(width, BitNumber(width, b)) = BitNumber(width, b) /\ UInt8(b.unit) = b.unit
          /\ b.unit < BufferUnits
      BY DEF FitsAt
    <2>2. p.packed + n = BitNumber(width, b)
      BY <1>2, <1>3
    <2> HIDE DEF b
    <2> QED BY <1>1, <1>4, <2>1, <2>2
  <1>6. /\ IsUnit(width, first) /\ \A j \in 0 .. room - 1 : first[a.bit + j] = v[j]
        /\ \A c \in 0 .. a.bit - 1 : first[c] = p.buffer[c]
    <2>1. width - 1 \in 0 .. width - 1 /\ room \in 1 .. (width - 1) + 1 /\ (width - 1) + 1 - room = a.bit
      BY <1>1
    <2> HIDE DEF room
    <2>2. IsUnit(width, first) /\ HasBits(first, a.bit, room, v) /\ KeepsBits(first, a.bit, p.buffer)
      BY <2>1, SetBitsFacts
    <2> QED BY <2>2 DEF HasBits, KeepsBits
  <1>7. IsUnit(width, rest) /\ \A j \in 0 .. more - 1 : rest[j] = v[room + j]
    <2> DEFINE tail == GetBitsValue(width, v, n - 1, more)
    <2>1. n - 1 \in 0 .. width - 1 /\ more \in 1 .. (n - 1) + 1 /\ (n - 1) + 1 - more = room
      BY <1>1
    <2>2. \A j \in 0 .. more - 1 : tail[j] = v[room + j]
      <3> HIDE DEF more, room
      <3> QED BY <2>1, GetBitsFacts
    <2>3. more - 1 \in 0 .. width - 1 /\ more \in 1 .. (more - 1) + 1 /\ (more - 1) + 1 - more = 0
      BY <1>1
    <2> HIDE DEF more, tail
    <2>4. IsUnit(width, rest) /\ \A j \in 0 .. more - 1 : rest[0 + j] = tail[j]
      <3>1. IsUnit(width, rest) /\ HasBits(rest, 0, more, tail)
        BY <2>3, SetBitsFacts DEF tail
      <3> QED BY <3>1 DEF HasBits
    <2>5. \A j \in 0 .. more - 1 : 0 + j = j
      BY <1>1
    <2> QED BY <2>2, <2>4, <2>5
  <1> HIDE DEF rest, first
  <1>8. q = [dest |-> dest, buffer |-> rest, writeBit |-> b.bit, overflowed |-> b.unit,
             packed |-> BitNumber(width, b), bitsLeft |-> width - b.bit, segments |-> b.unit]
    <2> HIDE DEF b
    <2>1. UInt8(p.overflowed + 1) = a.unit + 1 /\ UInt8(p.segments + 1) = a.unit + 1
          /\ p.overflowed = a.unit /\ width - p.writeBit = room /\ n - room = more
      BY <1>2, <1>5
    <2> HIDE DEF room, more
    <2> QED BY <1>4, <1>5, <2>1 DEF PackAcross, first, rest
  <1> HIDE DEF q, b, room
  <1>9. /\ dest = [u \in 0 .. BufferUnits - 1 |-> IF u = a.unit + 1 THEN rest
                                                  ELSE IF u = a.unit THEN first ELSE p.dest[u]]
        /\ IsBuffer(width, dest)
    <2>1. DOMAIN p.dest = 0 .. BufferUnits - 1
      BY <1>2 DEF IsBuffer
    <2>2. dest = [u \in 0 .. BufferUnits - 1 |-> IF u = a.unit + 1 THEN rest
                                                 ELSE IF u = a.unit THEN first ELSE p.dest[u]]
      BY <1>1, <1>5, <2>1
    <2>3. \A u \in 0 .. BufferUnits - 1 : IsUnit(width, p.dest[u])
      BY <1>2 DEF IsBuffer
    <2> QED BY <1>6, <1>7, <2>2, <2>3 DEF IsBuffer
  <1> HIDE DEF dest
  <1>10. Standing(width, q, b, width - b.bit)
    BY <1>7, <1>8, <1>9 DEF Standing, PackerFields
  <1>11. \A u \in 0 .. BufferUnits - 1 : Packed(q)[u] = q.dest[u] /\ q.dest[u] = dest[u]
    <2>1. \A u \in 0 .. BufferUnits - 1 : Packed(q)[u] = IF u = b.unit THEN q.buffer ELSE q.dest[u]
      BY <1>3, <1>5, <1>10, PackedFacts
    <2>2. dest[b.unit] = rest
      BY <1>4, <1>5, <1>9
    <2> QED BY <1>8, <2>1, <2>2
  <1>12. \A u \in 0 .. BufferUnits - 1 : Packed(p)[u] = IF u = a.unit THEN p.buffer ELSE p.dest[u]
    BY <1>1, PackedFacts
  <1>13. Packed(q)[a.unit] = first /\ Packed(q)[a.unit + 1] = rest
    BY <1>1, <1>5, <1>9, <1>11
  <1>14. Same(width, Packed(p), Packed(q), a)
    <2>1. ASSUME NEW u \in 0 .. a.unit, NEW c \in 0 .. width - 1, Before(Place(u, c), a)
          PROVE  Packed(p)[u][c] = Packed(q)[u][c]
      <3>1. u \in 0 .. BufferUnits - 1 /\ (u < a.unit \/ (u = a.unit /\ c \in 0 .. a.bit - 1))
        BY <1>1, <2>1 DEF Before, Place
      <3>2. CASE u < a.unit
        BY <1>1, <1>9, <1>11, <1>12, <3>1, <3>2
      <3>3. CASE u = a.unit /\ c \in 0 .. a.bit - 1
        BY <1>1, <1>6, <1>12, <1>13, <3>1, <3>3
      <3> QED BY <3>1, <3>2, <3>3
    <2> QED BY <2>1 DEF Same
  <1>15. ASSUME NEW j \in 0 .. n - 1 PROVE At(Packed(q), Behind(width, a, j)) = v[j]
    <2>1. j \in 0 .. width /\ room = width - a.bit
      BY <1>1 DEF room
    <2>2. Behind(width, a, j) = IF a.bit + j < width THEN Place(a.unit, a.bit + j)
                                ELSE Place(a.unit + 1, (a.bit + j) - width)
      BY <2>1, BehindFacts
    <2>3. CASE a.bit + j < width
      <3>1. j \in 0 .. room - 1
        BY <1>1, <2>1, <2>3
      <3> QED BY <1>6, <1>13, <2>2, <2>3, <3>1 DEF At, Place
    <2>4. CASE ~ (a.bit + j < width)
      <3>1. (a.bit + j) - width \in 0 .. more - 1 /\ room + ((a.bit + j) - width) = j
        BY <1>1, <2>1, <2>4
      <3> QED BY <1>7, <1>13, <2>2, <2>4, <3>1 DEF At, Place
    <2> QED BY <2>3, <2>4
  <1>16. Same(width, q.dest, Packed(q), b)
    <2>1. \A u \in 0 .. b.unit : u \in 0 .. BufferUnits - 1
      BY <1>1, <1>4, <1>5
    <2> QED BY <1>11, <2>1 DEF Same
  <1> QED BY <1>10, <1>14, <1>15, <1>16 DEF q, b

LEMMA PackFacts ==
  ASSUME NEW width \in Widths, NEW a \in Places(width), NEW n \in 1 .. width,
         NEW p, NEW left, Standing(width, p, a, left), NEW v, IsUnit(width, v), BufferUnits \in Nat,
         FitsAt(width, a), FitsAt(width, Behind(width, a, n))
  PROVE  LET q == Pack(width, p, n, v)
             b == Behind(width, a, n)
         IN /\ Standing(width, q, b, width - b.bit) /\ Same(width, Packed(p), Packed(q), a)
            /\ \A j \in 0 .. n - 1 : At(Packed(q), Behind(width, a, j)) = v[j]
            /\ n = width => Same(width, q.dest, Packed(q), b)
  <1>1. p.writeBit = a.bit /\ a.bit \in Nat /\ n \in Nat /\ width \in Nat
    BY DEF Standing, Places, Widths
  <1>2. CASE a.bit + n > width
    <2>1. Pack(width, p, n, v) = PackAcross(width, p, n, v)
      BY <1>1, <1>2 DEF Pack
    <2> QED BY <1>2, <2>1, PacksAcross
  <1>3. CASE ~ (a.bit + n > width)
    <2>1. Pack(width, p, n, v) = PackInside(width, p, n, v) /\ a.bit + n <= width
      BY <1>1, <1>3 DEF Pack
    <2> QED BY <2>1, PacksInside
  <1> QED BY <1>2, <1>3

(* Finish writes the unit that was begun.                                  *)
LEMMA FlushFacts ==
  ASSUME NEW width \in Widths, NEW a \in Places(width), NEW p, Standing(width, p, a, width - a.bit),
         BufferUnits \in Nat, FitsAt(width, a), FitsAt(width, NextUnit(a))
  PROVE  LET q == Flush(width, p)
         IN /\ Standing(width, q, NextUnit(a), width) /\ Same(width, Packed(p), Packed(q), a)
            /\ Same(width, q.dest, Packed(q), NextUnit(a))
  <1> DEFINE q == Flush(width, p)
             b == NextUnit(a)
             dest == [p.dest EXCEPT ![a.unit] = p.buffer]
  <1>1. /\ a.unit \in Nat /\ a.bit \in 0 .. width - 1 /\ width \in Nat \ {0} /\ a.unit \in 0 .. BufferUnits - 1
        /\ a.unit < BufferUnits
    BY DEF Places, Widths, FitsAt
  <1>2. /\ DOMAIN p = PackerFields
        /\ p.writeBit = a.bit /\ p.overflowed = a.unit /\ p.segments = a.unit
        /\ p.packed = BitNumber(width, a) /\ p.bitsLeft = width - a.bit
        /\ IsUnit(width, p.buffer) /\ IsBuffer(width, p.dest)
    BY DEF Standing
  <1>3. b \in Places(width) /\ b.unit = a.unit + 1 /\ b.bit = 0
    <2>1. 0 \in 0 .. width - 1 /\ a.unit + 1 \in Nat
      BY <1>1
    <2> QED BY <2>1, PlaceFacts DEF NextUnit
  <1>4. BitNumber(width, a) + (width - a.bit) = BitNumber(width, b)
    <2>1. a.unit * width + width = (a.unit + 1) * width
      <3>1. 1 \in 1 .. width
        BY <1>1
      <3> QED BY <1>1, <3>1, FullUnit
    <2>2. a.unit * width \in Int /\ (a.unit + 1) * width \in Int
      BY <1>1
    <2>3. BitNumber(width, b) = (a.unit + 1) * width + 0
      BY <1>3 DEF BitNumber
    <2>4. BitNumber(width, a) = a.unit * width + a.bit
      BY DEF BitNumber
    <2> QED BY <1>1, <2>1, <2>2, <2>3, <2>4
  <1>5. UIntT(width, p.packed + p.bitsLeft) = BitNumber(width, b) /\ UInt8(p.overflowed + 1) = a.unit + 1
        /\ a.unit + 1 \in 0 .. BufferUnits - 1 /\ b.unit < BufferUnits
    <2>1. UIntT(width, BitNumber(width, b)) = BitNumber(width, b) /\ UInt8(b.unit) = b.unit
          /\ b.unit < BufferUnits
      BY DEF FitsAt
    <2> HIDE DEF b
    <2> QED BY <1>1, <1>2, <1>3, <1>4, <2>1
  <1>6. /\ DOMAIN q = PackerFields /\ q.dest = dest /\ q.buffer = Empty(width)
        /\ q.writeBit = b.bit /\ q.overflowed = b.unit /\ q.segments = b.unit
        /\ q.packed = BitNumber(width, b) /\ q.bitsLeft = width
    <2>1. Write(p, p.buffer) = dest
      BY <1>2 DEF Write
    <2> HIDE DEF dest, b
    <2> QED BY <1>2, <1>3, <1>5, <2>1 DEF Flush, PackerFields
  <1> HIDE DEF q, b
  <1>7. /\ dest = [u \in 0 .. BufferUnits - 1 |-> IF u = a.unit THEN p.buffer ELSE p.dest[u]]
        /\ IsBuffer(width, dest)
    <2>1. DOMAIN p.dest = 0 .. BufferUnits - 1
      BY <1>2 DEF IsBuffer
    <2>2. \A u \in 0 .. BufferUnits - 1 : IsUnit(width, p.dest[u])
      BY <1>2 DEF IsBuffer
    <2> QED BY <1>2, <2>1, <2>2 DEF IsBuffer
  <1> HIDE DEF dest
  <1>8. Standing(width, q, b, width)
    BY <1>6, <1>7, EmptyUnit DEF Standing
  <1>9. \A u \in 0 .. BufferUnits - 1 : Packed(q)[u] = IF u = b.unit THEN q.buffer ELSE q.dest[u]
    BY <1>3, <1>5, <1>8, PackedFacts
  <1>10. \A u \in 0 .. BufferUnits - 1 : Packed(p)[u] = IF u = a.unit THEN p.buffer ELSE p.dest[u]
    BY <1>1, PackedFacts
  <1>11. \A u \in 0 .. a.unit : Packed(q)[u] = Packed(p)[u] /\ q.dest[u] = Packed(q)[u]
    <2>1. ASSUME NEW u \in 0 .. a.unit
          PROVE  Packed(q)[u] = Packed(p)[u] /\ q.dest[u] = Packed(q)[u]
      <3>1. u \in 0 .. BufferUnits - 1 /\ u # b.unit
        BY <1>1, <1>3
      <3> QED BY <1>6, <1>7, <1>9, <1>10, <3>1
    <2> QED BY <2>1
  <1>12. Same(width, Packed(p), Packed(q), a)
    BY <1>11 DEF Same
  <1>13. Same(width, q.dest, Packed(q), b)
    <2>1. ASSUME NEW u \in 0 .. b.unit, NEW c \in 0 .. width - 1, Before(Place(u, c), b)
          PROVE  u \in 0 .. a.unit
      BY <1>1, <1>3, <2>1 DEF Before, Place
    <2> QED BY <1>11, <2>1 DEF Same
  <1> QED BY <1>8, <1>12, <1>13 DEF q, b

LEMMA SameChain ==
  ASSUME NEW width \in Widths, NEW a \in Places(width), NEW b \in Places(width), Upto(a, b),
         NEW f, NEW g, NEW h, Same(width, f, g, a), Same(width, g, h, b)
  PROVE  Same(width, f, h, a)
  <1> SUFFICES ASSUME NEW u \in 0 .. a.unit, NEW c \in 0 .. width - 1, Before(Place(u, c), a)
               PROVE  f[u][c] = h[u][c]
    BY DEF Same
  <1>1. a.unit \in Nat /\ b.unit \in Nat /\ u \in Nat /\ u \in 0 .. b.unit
    BY DEF Places, Upto
  <1>2. Place(u, c) \in Places(width)
    BY <1>1, PlaceFacts
  <1>3. Before(Place(u, c), b)
    BY <1>2, UptoIsOrder
  <1> QED BY <1>1, <1>3 DEF Same

(* What fits does so with all that is before it.                           *)
LEMMA FitsBefore ==
  ASSUME NEW width \in Widths, NEW a \in Places(width), NEW b \in Places(width), Upto(a, b),
         BufferUnits \in Nat, FitsAt(width, b)
  PROVE  FitsAt(width, a)
  <1>1. a.unit \in Nat /\ b.unit \in Nat /\ a.unit <= b.unit /\ a.bit \in Nat /\ b.bit \in Nat
    BY UptoIsOrder DEF Places
  <1>2. BitNumber(width, a) \in Nat /\ BitNumber(width, b) \in Nat
    <2>1. CASE width = 8 BY <1>1, <2>1 DEF BitNumber
    <2>2. CASE width = 16 BY <1>1, <2>2 DEF BitNumber
    <2>3. CASE width = 32 BY <1>1, <2>3 DEF BitNumber
    <2> QED BY <2>1, <2>2, <2>3 DEF Widths
  <1>3. BitNumber(width, a) <= BitNumber(width, b)
    BY UptoIsOrder
  <1>4. b.unit < BufferUnits /\ b.unit % 256 = b.unit
        /\ UIntT(width, BitNumber(width, b)) = BitNumber(width, b)
    BY DEF FitsAt, UInt8
  <1>5. a.unit < BufferUnits /\ a.unit % 256 = a.unit
    BY <1>1, <1>4
  <1>6. UIntT(width, BitNumber(width, a)) = BitNumber(width, a)
    <2>1. CASE width = 8
      BY <1>2, <1>3, <1>4, <2>1 DEF UIntT
    <2>2. CASE width = 16
      BY <1>2, <1>3, <1>4, <2>2 DEF UIntT
    <2>3. CASE width = 32
      BY <2>3 DEF UIntT
    <2> QED BY <2>1, <2>2, <2>3 DEF Widths
  <1> QED BY <1>5, <1>6 DEF FitsAt, UInt8

(* Bytes begin with a unit, and what follows them is written over.         *)
LEMMA PushBytesFacts ==
  ASSUME NEW width \in Widths, NEW a \in Places(width), NEW p, Standing(width, p, a, width - a.bit),
         BufferUnits \in Nat, NEW size \in Nat, NEW bytes,
         NEW s, s = IF a.bit = 0 THEN a ELSE NextUnit(a),
         NEW e, e = Place(s.unit + size \div width, size % width), FitsAt(width, e)
  PROVE  LET q == PushBytes(width, p, bytes, size)
         IN /\ Standing(width, q, e, width - e.bit) /\ Same(width, Packed(p), Packed(q), a)
            /\ \A j \in 0 .. size - 1 : At(Packed(q), Place(s.unit + j \div width, j % width)) = bytes[j]
            /\ Same(width, q.dest, Packed(q), e)
  <1> DEFINE q == PushBytes(width, p, bytes, size)
             q0 == IF p.bitsLeft # width THEN Flush(width, p) ELSE p
             dest == Copied(width, q0.dest, q0.overflowed, bytes, size)
             units == size \div width
             left == size % width
  <1>1. /\ a.unit \in Nat /\ a.bit \in 0 .. width - 1 /\ width \in Nat \ {0} /\ 0 \in 0 .. width - 1
        /\ NextUnit(a) \in Places(width) /\ NextUnit(a).unit = a.unit + 1 /\ NextUnit(a).bit = 0
    <2>1. /\ a.unit \in Nat /\ a.bit \in 0 .. width - 1 /\ width \in Nat \ {0} /\ 0 \in 0 .. width - 1
          /\ a.unit + 1 \in Nat
      BY DEF Places, Widths
    <2> QED BY <2>1, PlaceFacts DEF NextUnit
  <1>2. s \in Places(width) /\ s.unit \in Nat /\ s.bit = 0 /\ Upto(a, s)
    BY <1>1 DEF Upto
  <1>3. units \in Nat /\ left \in 0 .. width - 1 /\ size = units * width + left
    BY Divided
  <1>4. e \in Places(width) /\ e.unit = s.unit + units /\ e.bit = left
    <2>1. s.unit + units \in Nat
      BY <1>2, <1>3
    <2> QED BY <1>3, <2>1, PlaceFacts
  <1>5. Upto(s, e) /\ FitsAt(width, s) /\ FitsAt(width, a)
    <2>1. Upto(s, e)
      BY <1>2, <1>3, <1>4 DEF Upto
    <2> QED BY <1>2, <1>4, <2>1, FitsBefore
  <1>6. Standing(width, q0, s, width) /\ Same(width, Packed(p), Packed(q0), a)
    <2>1. p.bitsLeft = width - a.bit
      BY DEF Standing
    <2>2. CASE a.bit = 0
      <3>1. q0 = p /\ s = a /\ width - a.bit = width
        BY <1>1, <2>1, <2>2
      <3> QED BY <3>1 DEF Same
    <2>3. CASE a.bit # 0
      <3>1. q0 = Flush(width, p) /\ s = NextUnit(a)
        BY <1>1, <2>1, <2>3
      <3> QED BY <1>5, <3>1, FlushFacts
    <2> QED BY <2>2, <2>3
  <1> HIDE DEF q0, units, left
  <1>7. /\ DOMAIN q0 = PackerFields
        /\ q0.writeBit = 0 /\ q0.overflowed = s.unit /\ q0.segments = s.unit
        /\ q0.packed = BitNumber(width, s) /\ q0.bitsLeft = width
        /\ IsUnit(width, q0.buffer) /\ IsBuffer(width, q0.dest)
    BY <1>2, <1>6 DEF Standing
  <1>8. BitNumber(width, s) + size = BitNumber(width, e)
    <2>1. BitNumber(width, e) = (s.unit + units) * width + left /\ BitNumber(width, s) = s.unit * width + 0
      BY <1>2, <1>4 DEF BitNumber
    <2>2. (s.unit + units) * width = s.unit * width + units * width
      <3>1. CASE width = 8 BY <1>2, <1>3, <3>1
      <3>2. CASE width = 16 BY <1>2, <1>3, <3>2
      <3>3. CASE width = 32 BY <1>2, <1>3, <3>3
      <3> QED BY <3>1, <3>2, <3>3 DEF Widths
    <2>3. s.unit * width \in Int /\ units * width \in Int
      BY <1>1, <1>2, <1>3
    <2> QED BY <1>3, <2>1, <2>2, <2>3
  <1>9. UIntT(width, q0.packed + size) = BitNumber(width, e) /\ UInt8(q0.segments + units) = e.unit
        /\ e.unit \in 0 .. BufferUnits - 1 /\ e.unit < BufferUnits
    <2>1. UIntT(width, BitNumber(width, e)) = BitNumber(width, e) /\ UInt8(e.unit) = e.unit
          /\ e.unit < BufferUnits
      BY DEF FitsAt
    <2> QED BY <1>2, <1>3, <1>4, <1>7, <1>8, <2>1
  <1>10. /\ DOMAIN q = PackerFields /\ q.dest = dest /\ q.buffer = dest[e.unit]
         /\ q.writeBit = e.bit /\ q.overflowed = e.unit /\ q.segments = e.unit
         /\ q.packed = BitNumber(width, e) /\ q.bitsLeft = width - e.bit
    <2>1. UInt8(q0.segments + size \div width) = e.unit /\ size % width = e.bit
      BY <1>4, <1>9 DEF units, left
    <2> HIDE DEF dest
    <2>2. q = [q0 EXCEPT !.dest = dest, !.writeBit = e.bit, !.packed = BitNumber(width, e),
                 !.bitsLeft = width - e.bit, !.segments = e.unit, !.overflowed = e.unit,
                 !.buffer = dest[e.unit]]
      BY <1>9, <2>1 DEF PushBytes, q0, dest
    <2> HIDE DEF q
    <2> QED BY <1>7, <2>2 DEF PackerFields
  <1> HIDE DEF q
  <1>11. /\ DOMAIN q0.dest = 0 .. BufferUnits - 1
         /\ \A u \in 0 .. BufferUnits - 1 : \A b \in 0 .. width - 1 : dest[u][b] =
               IF (u - s.unit) * width + b \in 0 .. size - 1 THEN bytes[(u - s.unit) * width + b]
               ELSE q0.dest[u][b]
         /\ IsBuffer(width, dest)
    <2>1. DOMAIN q0.dest = 0 .. BufferUnits - 1
      BY <1>7 DEF IsBuffer
    <2>2. dest = [u \in 0 .. BufferUnits - 1 |-> [b \in 0 .. width - 1 |->
                    IF (u - s.unit) * width + b \in 0 .. size - 1 THEN bytes[(u - s.unit) * width + b]
                    ELSE q0.dest[u][b]]]
      BY <1>7, <2>1 DEF Copied
    <2>3. \A u \in 0 .. BufferUnits - 1 : \A b \in 0 .. width - 1 : dest[u][b] =
               IF (u - s.unit) * width + b \in 0 .. size - 1 THEN bytes[(u - s.unit) * width + b]
               ELSE q0.dest[u][b]
      BY <2>2
    <2>4. dest = [u \in 0 .. BufferUnits - 1 |-> dest[u]]
      BY <2>2
    <2>5. \A u \in 0 .. BufferUnits - 1 : IsUnit(width, dest[u])
      BY <2>2 DEF IsUnit
    <2> QED BY <2>1, <2>3, <2>4, <2>5 DEF IsBuffer
  <1> HIDE DEF dest
  <1>12. Standing(width, q, e, width - e.bit)
    <2>1. IsUnit(width, dest[e.unit])
      BY <1>9, <1>11 DEF IsBuffer
    <2> QED BY <1>10, <1>11, <2>1 DEF Standing
  <1>13. \A u \in 0 .. BufferUnits - 1 : Packed(q)[u] = dest[u] /\ q.dest[u] = dest[u]
    <2>1. \A u \in 0 .. BufferUnits - 1 : Packed(q)[u] = IF u = e.unit THEN q.buffer ELSE q.dest[u]
      BY <1>4, <1>9, <1>12, PackedFacts
    <2> QED BY <1>10, <2>1
  <1>14. \A u \in 0 .. BufferUnits - 1 : Packed(q0)[u] = IF u = s.unit THEN q0.buffer ELSE q0.dest[u]
    <2>1. s.unit < BufferUnits
      BY <1>5 DEF FitsAt
    <2> QED BY <1>2, <1>6, <2>1, PackedFacts
  <1>15. Same(width, Packed(q0), Packed(q), s)
    <2>1. ASSUME NEW u \in 0 .. s.unit, NEW c \in 0 .. width - 1, Before(Place(u, c), s)
          PROVE  Packed(q0)[u][c] = Packed(q)[u][c]
      <3>1. u < s.unit /\ u \in 0 .. BufferUnits - 1 /\ u # s.unit
        BY <1>2, <1>3, <1>4, <1>9, <2>1 DEF Before, Place
      <3>2. (u - s.unit) * width + c < 0 * width + 0
        <4>1. u - s.unit \in Int /\ u - s.unit < 0 /\ 0 \in Int
          BY <1>2, <3>1
        <4> QED BY <1>1, <4>1, PlaceNumbers
      <3>3. (u - s.unit) * width + c \notin 0 .. size - 1
        BY <1>1, <3>2
      <3> QED BY <1>11, <1>13, <1>14, <3>1, <3>3
    <2> QED BY <2>1 DEF Same
  <1>16. Same(width, Packed(p), Packed(q), a)
    BY <1>2, <1>6, <1>15, SameChain
  <1>17. ASSUME NEW j \in 0 .. size - 1
         PROVE  At(Packed(q), Place(s.unit + j \div width, j % width)) = bytes[j]
    <2> DEFINE u == s.unit + j \div width
               b == j % width
    <2>1. j \in Nat /\ j < size
      OBVIOUS
    <2>2. j \div width \in Nat /\ b \in 0 .. width - 1 /\ j = (j \div width) * width + b
      BY <2>1, Divided
    <2>3. j \div width <= units
      <3>1. j \div width < size \div width \/ j \div width = size \div width
        BY <2>1, DividedBelow
      <3>2. size \div width = units
        BY DEF units
      <3> QED BY <1>3, <2>2, <3>1, <3>2
    <2>4. u \in 0 .. BufferUnits - 1 /\ (u - s.unit) = j \div width
      BY <1>2, <1>3, <1>4, <1>9, <2>2, <2>3
    <2> HIDE DEF u, b
    <2>5. dest[u][b] = bytes[j]
      BY <1>11, <2>2, <2>4
    <2>6. At(Packed(q), Place(u, b)) = bytes[j]
      BY <1>13, <2>4, <2>5 DEF At, Place
    <2> QED BY <2>6 DEF u, b
  <1>18. Same(width, q.dest, Packed(q), e)
    <2>1. \A u \in 0 .. e.unit : u \in 0 .. BufferUnits - 1
      BY <1>9
    <2> QED BY <1>13, <2>1 DEF Same
  <1> QED BY <1>12, <1>16, <1>17, <1>18 DEF q

-----------------------------------------------------------------------------
(* The values.                                                             *)

(* A value lies in a buffer, from a place on.                              *)
Lies(width, f, a, val, v) ==
  /\ val.type = "bits" => \A j \in 0 .. val.size - 1 : At(f, Behind(width, a, j)) = v.value[j]
  /\ val.type \in {"string", "array"} =>
        /\ \A j \in 0 .. width - 1 : At(f, Behind(width, a, j)) = v.length[j]
        /\ \A j \in 0 .. 8 * val.size - 1 : At(f, ByteBit(width, a, j)) = v.value[j]

(* A value has the bits of its size and no more.                           *)
Shaped(width, val, v) ==
  CASE val.type = "bits" -> v = [length |-> Empty(width), value |-> v.value] /\ Clean(width, v.value, val.size)
    [] val.type \in {"finish", "flush"} -> v = [length |-> Empty(width), value |-> <<>>]
    [] OTHER -> /\ v = [length |-> v.length, value |-> v.value] /\ IsUnit(width, v.length)
                /\ v.value = [b \in 0 .. 8 * val.size - 1 |-> v.value[b]]

LEMMA SameAt ==
  ASSUME NEW width \in Widths, NEW a \in Places(width), NEW c \in Places(width), Before(c, a),
         NEW f, NEW g, Same(width, f, g, a)
  PROVE  At(f, c) = At(g, c)
  <1>1. c.unit \in Nat /\ c.bit \in 0 .. width - 1 /\ a.unit \in Nat /\ c.unit \in 0 .. a.unit
    BY DEF Places, Before
  <1>2. Before(Place(c.unit, c.bit), a)
    BY DEF Before, Place
  <1> QED BY <1>1, <1>2 DEF Same, At

(* It goes on to lie there while the packer goes on.                       *)
LEMMA LiesOn ==
  ASSUME NEW width \in Widths, NEW a \in Places(width), NEW val, IsValue(width, val),
         NEW f, NEW g, NEW v, Lies(width, f, a, val, v),
         NEW e \in Places(width), Upto(EndOfValue(width, a, val), e), Same(width, f, g, e)
  PROVE  Lies(width, g, a, val, v)
  <1> DEFINE d == EndOfValue(width, a, val)
  <1>1. d \in Places(width) /\ val.size \in Nat /\ width \in Nat
    BY EndOfValueFacts DEF IsValue, Widths
  <1>2. ASSUME NEW c \in Places(width), Before(c, d) PROVE At(f, c) = At(g, c)
    <2> HIDE DEF d
    <2>1. Before(c, e)
      BY <1>1, <1>2, UptoIsOrder DEF d
    <2> QED BY <2>1, SameAt
  <1>3. ASSUME val.type = "bits", NEW j \in 0 .. val.size - 1 PROVE At(g, Behind(width, a, j)) = v.value[j]
    <2>1. val.size \in 1 .. width /\ j \in 0 .. width
      BY <1>1, <1>3 DEF IsValue
    <2>2. Behind(width, a, j) \in Places(width) /\ Before(Behind(width, a, j), d)
      BY <1>3, <2>1, BehindFacts, EndOfValueFacts
    <2>3. At(f, Behind(width, a, j)) = v.value[j]
      BY <1>3 DEF Lies
    <2> QED BY <1>2, <2>2, <2>3
  <1>4. ASSUME val.type \in {"string", "array"}, NEW j \in 0 .. width - 1
        PROVE  At(g, Behind(width, a, j)) = v.length[j]
    <2>1. j \in 0 .. width
      BY <1>1
    <2>2. Behind(width, a, j) \in Places(width) /\ Before(Behind(width, a, j), d)
      BY <1>4, <2>1, BehindFacts, EndOfValueFacts
    <2>3. At(f, Behind(width, a, j)) = v.length[j]
      BY <1>4 DEF Lies
    <2> QED BY <1>2, <2>2, <2>3
  <1>5. ASSUME val.type \in {"string", "array"}, NEW j \in 0 .. 8 * val.size - 1
        PROVE  At(g, ByteBit(width, a, j)) = v.value[j]
    <2>1. ByteBit(width, a, j) \in Places(width) /\ Before(ByteBit(width, a, j), d)
      BY <1>5, EndOfValueFacts
    <2>2. At(f, ByteBit(width, a, j)) = v.value[j]
      BY <1>5 DEF Lies
    <2> QED BY <1>2, <2>1, <2>2
  <1> QED BY <1>3, <1>4, <1>5 DEF Lies

(* What lies there determines the value.                                   *)
LEMMA Determined ==
  ASSUME NEW width \in Widths, NEW a, NEW val, IsValue(width, val), NEW f, NEW v, NEW u,
         Lies(width, f, a, val, v), Lies(width, f, a, val, u), Shaped(width, val, v), Shaped(width, val, u)
  PROVE  v = u
  <1>1. val.type \in ValueTypes /\ val.size \in Nat /\ width \in Nat
    BY DEF IsValue, Widths
  <1>2. CASE val.type = "bits"
    <2>1. /\ v = [length |-> Empty(width), value |-> v.value] /\ Clean(width, v.value, val.size)
          /\ u = [length |-> Empty(width), value |-> u.value] /\ Clean(width, u.value, val.size)
      BY <1>2 DEF Shaped
    <2>2. \A j \in 0 .. val.size - 1 : v.value[j] = u.value[j]
      BY <1>2 DEF Lies
    <2>3. \A b \in val.size .. width - 1 : v.value[b] = u.value[b]
      BY <2>1 DEF Clean
    <2>4. \A b \in 0 .. width - 1 : v.value[b] = u.value[b]
      <3>1. \A b \in 0 .. width - 1 : b \in 0 .. val.size - 1 \/ b \in val.size .. width - 1
        BY <1>1
      <3> QED BY <2>2, <2>3, <3>1
    <2>5. v.value = u.value
      BY <2>1, <2>4 DEF Clean, IsUnit
    <2> QED BY <2>1, <2>5
  <1>3. CASE val.type \in {"finish", "flush"}
    BY <1>3 DEF Shaped
  <1>4. CASE val.type \in {"string", "array"}
    <2>1. /\ v = [length |-> v.length, value |-> v.value] /\ IsUnit(width, v.length)
          /\ v.value = [b \in 0 .. 8 * val.size - 1 |-> v.value[b]]
          /\ u = [length |-> u.length, value |-> u.value] /\ IsUnit(width, u.length)
          /\ u.value = [b \in 0 .. 8 * val.size - 1 |-> u.value[b]]
      BY <1>4 DEF Shaped
    <2>2. /\ \A j \in 0 .. width - 1 : v.length[j] = u.length[j]
          /\ \A j \in 0 .. 8 * val.size - 1 : v.value[j] = u.value[j]
      BY <1>4 DEF Lies
    <2>3. v.length = u.length
      BY <2>1, <2>2 DEF IsUnit
    <2>4. v.value = u.value
      BY <2>1, <2>2
    <2> QED BY <2>1, <2>3, <2>4
  <1> QED BY <1>1, <1>2, <1>3, <1>4 DEF ValueTypes

(* A value is packed where it has to lie, and the packer stands behind it. *)
LEMMA PacksValue ==
  ASSUME NEW width \in Widths, width = w, NEW a \in Places(width), NEW p, NEW left,
         Standing(width, p, a, left), NEW val, IsValue(width, val), NEW v, Shaped(width, val, v),
         BufferUnits \in Nat, FitsAt(width, EndOfValue(width, a, val)),
         val.type \in {"finish", "flush"} => left = width - a.bit
  PROVE  LET q == PackValue(p, val.type, val.size, v)
             e == EndOfValue(width, a, val)
         IN /\ Standing(width, q, e, width - e.bit) /\ Same(width, Packed(p), Packed(q), a)
            /\ Lies(width, Packed(q), a, val, v)
            /\ val.type # "bits" => Same(width, q.dest, Packed(q), e)
  <1> DEFINE q == PackValue(p, val.type, val.size, v)
             e == EndOfValue(width, a, val)
             h == Behind(width, a, width)
  <1>1. val.type \in ValueTypes /\ val.size \in Nat /\ width \in Nat \ {0} /\ width \in 1 .. width
        /\ width \in 0 .. width /\ 8 * val.size \in Nat
    BY DEF IsValue, Widths
  <1>2. e \in Places(width) /\ Upto(a, e) /\ FitsAt(width, a)
    BY EndOfValueFacts, FitsBefore
  <1>3. CASE val.type = "bits"
    <2>1. q = Pack(width, p, val.size, v.value) /\ e = Behind(width, a, val.size) /\ val.size \in 1 .. width
      BY <1>3 DEF PackValue, EndOfValue, IsValue
    <2>2. IsUnit(width, v.value)
      BY <1>3 DEF Shaped, Clean
    <2> HIDE DEF q, e
    <2>3. FitsAt(width, Behind(width, a, val.size))
      BY <2>1 DEF e
    <2>4. /\ Standing(width, q, e, width - e.bit) /\ Same(width, Packed(p), Packed(q), a)
          /\ \A j \in 0 .. val.size - 1 : At(Packed(q), Behind(width, a, j)) = v.value[j]
      BY <1>2, <2>1, <2>2, <2>3, PackFacts
    <2> QED BY <1>3, <2>4 DEF Lies, q, e
  <1>4. CASE val.type \in {"finish", "flush"}
    <2>1. q = Flush(width, p) /\ e = NextUnit(a)
      BY <1>4 DEF PackValue, EndOfValue
    <2>2. Standing(width, p, a, width - a.bit)
      BY <1>4
    <2>3. width - 0 = width /\ NextUnit(a).bit = 0
      BY <1>1 DEF NextUnit, Place
    <2> HIDE DEF q, e
    <2>4. FitsAt(width, NextUnit(a))
      BY <2>1 DEF e
    <2>5. Standing(width, q, e, width - e.bit) /\ Same(width, Packed(p), Packed(q), a)
          /\ Same(width, q.dest, Packed(q), e)
      BY <1>2, <2>1, <2>2, <2>3, <2>4, FlushFacts
    <2> QED BY <1>4, <2>5 DEF Lies, q, e
  <1>5. ASSUME val.type \in {"string", "array"}
        PROVE  LET q1 == Pack(width, p, width, v.length)
               IN /\ Standing(width, q1, h, width - h.bit) /\ Same(width, Packed(p), Packed(q1), a)
                  /\ \A j \in 0 .. width - 1 : At(Packed(q1), Behind(width, a, j)) = v.length[j]
                  /\ Same(width, q1.dest, Packed(q1), h)
    <2>1. IsUnit(width, v.length)
      BY <1>5 DEF Shaped
    <2>2. Upto(h, e) /\ h \in Places(width)
      BY <1>1, <1>5, EndOfValueFacts, BehindFacts
    <2>3. FitsAt(width, h)
      BY <1>2, <2>2, FitsBefore
    <2> QED BY <1>1, <1>2, <2>1, <2>3, PackFacts
  <1>6. CASE val.type = "string" /\ val.size = 0
    <2>1. q = Pack(width, p, width, v.length) /\ e = h
      BY <1>6 DEF PackValue, EndOfValue
    <2>2. /\ Standing(width, q, h, width - h.bit) /\ Same(width, Packed(p), Packed(q), a)
          /\ \A j \in 0 .. width - 1 : At(Packed(q), Behind(width, a, j)) = v.length[j]
          /\ Same(width, q.dest, Packed(q), h)
      BY <1>5, <1>6, <2>1
    <2>3. Lies(width, Packed(q), a, val, v)
      <3>1. \A j \in 0 .. 8 * val.size - 1 : FALSE
        BY <1>6
      <3> HIDE DEF q
      <3> QED BY <1>6, <2>2, <3>1 DEF Lies
    <2> QED BY <2>1, <2>2, <2>3
  <1>7. CASE val.type \in {"string", "array"} /\ ~ (val.type = "string" /\ val.size = 0)
    <2> DEFINE q1 == Pack(width, p, width, v.length)
               s == BytesAt(width, a)
    <2>1. q = PushBytes(width, q1, v.value, 8 * val.size)
          /\ e = Place(s.unit + (8 * val.size) \div width, (8 * val.size) % width)
      BY <1>7 DEF PackValue, EndOfValue
    <2>2. /\ Standing(width, q1, h, width - h.bit) /\ Same(width, Packed(p), Packed(q1), a)
          /\ \A j \in 0 .. width - 1 : At(Packed(q1), Behind(width, a, j)) = v.length[j]
      BY <1>5, <1>7
    <2>3. h \in Places(width) /\ Upto(a, h) /\ s = IF h.bit = 0 THEN h ELSE NextUnit(h)
      BY <1>1, BehindFacts DEF BytesAt
    <2> HIDE DEF q1, q, e, h, s
    <2>4. FitsAt(width, e)
      BY DEF e
    <2>5. /\ Standing(width, q, e, width - e.bit) /\ Same(width, Packed(q1), Packed(q), h)
          /\ \A j \in 0 .. 8 * val.size - 1 :
                At(Packed(q), Place(s.unit + j \div width, j % width)) = v.value[j]
          /\ Same(width, q.dest, Packed(q), e)
      BY <1>1, <2>1, <2>2, <2>3, <2>4, PushBytesFacts
    <2>6. Same(width, Packed(p), Packed(q), a)
      BY <2>2, <2>3, <2>5, SameChain
    <2>7. ASSUME NEW j \in 0 .. width - 1 PROVE At(Packed(q), Behind(width, a, j)) = v.length[j]
      <3>1. j \in 0 .. width /\ j \in 0 .. width - 1
        BY <1>1
      <3>2. Behind(width, a, j) \in Places(width) /\ Before(Behind(width, a, j), h)
        BY <1>1, <3>1, BehindFacts, BehindInOrder DEF h
      <3>3. At(Packed(q1), Behind(width, a, j)) = At(Packed(q), Behind(width, a, j))
        BY <2>3, <2>5, <3>2, SameAt
      <3> QED BY <2>2, <3>3
    <2>8. \A j \in 0 .. 8 * val.size - 1 : At(Packed(q), ByteBit(width, a, j)) = v.value[j]
      BY <2>5 DEF ByteBit, s
    <2>9. Lies(width, Packed(q), a, val, v)
      BY <1>7, <2>7, <2>8 DEF Lies
    <2> QED BY <2>5, <2>6, <2>9 DEF q, e
  <1> QED BY <1>1, <1>3, <1>4, <1>6, <1>7 DEF ValueTypes

-----------------------------------------------------------------------------
(* Packing all values.                                                     *)

(* The packers that packing goes through, one after another.               *)
IsPacking(r, dest, chosen, vs) ==
  /\ r[0] = Packer(dest, w)
  /\ \A n \in 1 .. Len(chosen) :
        r[n] = PackValue(r[n - 1], values[chosen[n]].type, values[chosen[n]].size, vs[chosen[n]])

LEMMA PackingRuns ==
  ASSUME NEW dest, NEW chosen, NEW vs, Len(chosen) \in Nat
  PROVE  \E r : IsPacking(r, dest, chosen, vs) /\ PackAll(dest, chosen, vs) = r[Len(chosen)]
  <1> DEFINE N == Len(chosen)
             Start == Packer(dest, w)
             Step(q, n) == PackValue(q, values[chosen[n]].type, values[chosen[n]].size, vs[chosen[n]])
             Def(g, m) == [n \in 0 .. m |-> IF n = 0 THEN Start ELSE Step(g[n - 1], n)]
             Without == {m \in 0 .. N : ~ \E g : g = Def(g, m)}
             run == CHOOSE g : g = Def(g, N)
  <1>1. N \in Nat
    OBVIOUS
  <1>2. PackAll(dest, chosen, vs) = run[N]
    BY DEF PackAll
  <1> HIDE DEF Step, Start
  <1>3. \E g : g = Def(g, 0)
    <2> DEFINE g == [n \in 0 .. 0 |-> Start]
    <2>1. g = Def(g, 0)
      OBVIOUS
    <2> HIDE DEF g
    <2> QED BY <2>1
  <1>4. ASSUME NEW m \in 1 .. N, \E g : g = Def(g, m - 1) PROVE \E g : g = Def(g, m)
    <2>1. PICK g : g = Def(g, m - 1)
      BY <1>4
    <2> DEFINE h == [n \in 0 .. m |-> IF n = m THEN Step(g[m - 1], m) ELSE g[n]]
    <2>2. m \in Nat /\ m >= 1
      BY <1>1
    <2>3. \A n \in 0 .. m - 1 : g[n] = IF n = 0 THEN Start ELSE Step(g[n - 1], n)
      BY <2>1
    <2>4. ASSUME NEW n \in 0 .. m PROVE h[n] = IF n = 0 THEN Start ELSE Step(h[n - 1], n)
      <3>1. CASE n = m
        <4>1. h[n] = Step(g[m - 1], m) /\ m # 0 /\ m - 1 \in 0 .. m /\ m - 1 # m
          BY <2>2, <3>1
        <4>2. h[m - 1] = g[m - 1]
          BY <4>1
        <4> HIDE DEF h
        <4> QED BY <3>1, <4>1, <4>2
      <3>2. CASE n # m /\ n = 0
        <4>1. n \in 0 .. m - 1
          BY <2>2, <3>2
        <4> QED BY <2>3, <3>2, <4>1
      <3>3. CASE n # m /\ n # 0
        <4>1. n \in 0 .. m - 1 /\ n - 1 \in 0 .. m /\ n - 1 # m
          BY <2>2, <3>3
        <4>2. h[n] = g[n] /\ h[n - 1] = g[n - 1]
          BY <3>3, <4>1
        <4> HIDE DEF h
        <4> QED BY <2>3, <3>3, <4>1, <4>2
      <3> QED BY <3>1, <3>2, <3>3
    <2>5. h = [n \in 0 .. m |-> h[n]]
      OBVIOUS
    <2> HIDE DEF h
    <2>6. h = Def(h, m)
      BY <2>4, <2>5
    <2> HIDE DEF Def
    <2> QED BY <2>6
  <1>5. ASSUME NEW m \in Without PROVE \E k \in Without : k < m
    <2> HIDE DEF Def
    <2>1. m \in 0 .. N /\ ~ \E g : g = Def(g, m)
      OBVIOUS
    <2>2. m # 0
      BY <1>3, <2>1
    <2>3. m \in 1 .. N /\ m - 1 \in 0 .. N /\ m - 1 < m
      BY <1>1, <2>1, <2>2
    <2>4. ~ \E g : g = Def(g, m - 1)
      BY <1>4, <2>1, <2>3
    <2> QED BY <2>3, <2>4
  <1>6. Without = {}
    <2>1. Without \in SUBSET Nat
      BY <1>1
    <2> HIDE DEF Without
    <2> QED BY <1>5, <2>1, NoDescent
  <1>7. run = Def(run, N)
    <2> HIDE DEF Def
    <2>1. N \in 0 .. N
      BY <1>1
    <2>2. \E g : g = Def(g, N)
      BY <1>6, <2>1
    <2> QED BY <2>2
  <1> HIDE DEF run
  <1>8. run[0] = Start /\ \A n \in 1 .. N : run[n] = Step(run[n - 1], n)
    <2>1. 0 \in 0 .. N /\ \A n \in 1 .. N : n \in 0 .. N /\ n # 0
      BY <1>1
    <2>2. \A n \in 0 .. N : run[n] = IF n = 0 THEN Start ELSE Step(run[n - 1], n)
      BY <1>7
    <2> HIDE DEF Def
    <2> QED BY <2>1, <2>2
  <1>9. IsPacking(run, dest, chosen, vs)
    BY <1>8 DEF IsPacking, Step, Start
  <1> QED BY <1>2, <1>9

(* What can be packed: values of these types and sizes.                    *)
IsPackable(width, dest, chosen, vals, vs) ==
  /\ BufferUnits \in Nat /\ IsBuffer(width, dest) /\ Fits(width, vals)
  /\ vals \in Seq(ValuesOn(width)) /\ Len(chosen) = Len(vals)
  /\ \A k \in 1 .. Len(vals) :
        /\ values[chosen[k]] = vals[k] /\ Shaped(width, vals[k], vs[chosen[k]])
        /\ vals[k].type \in {"finish", "flush"} => k > 1

(* The first n values lie where they have to, and the packer behind them.  *)
IsPackedTo(width, p, chosen, vals, vs, n) ==
  LET e == EndOf(width, vals, n) IN
  /\ Standing(width, p, e, IF n = 0 THEN 0 ELSE width - e.bit)
  /\ \A k \in 1 .. n : Lies(width, Packed(p), EndOf(width, vals, k - 1), vals[k], vs[chosen[k]])
  /\ n # 0 /\ vals[n].type # "bits" => Same(width, p.dest, Packed(p), e)

LEMMA FitsEach ==
  ASSUME NEW width \in Widths, NEW vals \in Seq(ValuesOn(width)), Fits(width, vals), NEW n \in 0 .. Len(vals)
  PROVE  FitsAt(width, EndOf(width, vals, n))
  BY DEF Fits, FitsAt, BitNumber

LEMMA PackerStands ==
  ASSUME NEW width \in Widths, BufferUnits \in Nat, NEW dest, IsBuffer(width, dest)
  PROVE  Standing(width, Packer(dest, width), Place(0, 0), 0)
  <1> DEFINE p == Packer(dest, width)
  <1>1. p = [dest |-> dest, buffer |-> Empty(width), writeBit |-> 0, overflowed |-> 0,
             packed |-> 0, bitsLeft |-> 0, segments |-> 0]
    BY DEF Packer
  <1>2. BitNumber(width, Place(0, 0)) = 0 /\ Place(0, 0).unit = 0 /\ Place(0, 0).bit = 0
    BY DEF BitNumber, Place, Widths
  <1> HIDE DEF p
  <1> QED BY <1>1, <1>2, EmptyUnit DEF Standing, PackerFields, p

LEMMA PacksAll ==
  ASSUME NEW width \in Widths, width = w, NEW dest, NEW chosen, NEW vals, NEW vs,
         IsPackable(width, dest, chosen, vals, vs)
  PROVE  IsPackedTo(width, PackAll(dest, chosen, vs), chosen, vals, vs, Len(vals))
  <1> DEFINE N == Len(vals)
             End(n) == EndOf(width, vals, n)
             Done(p, n) == IsPackedTo(width, p, chosen, vals, vs, n)
  <1>1. /\ BufferUnits \in Nat /\ IsBuffer(width, dest) /\ Fits(width, vals)
        /\ vals \in Seq(ValuesOn(width)) /\ Len(chosen) = N /\ N \in Nat
        /\ \A k \in 1 .. N :
              /\ values[chosen[k]] = vals[k] /\ Shaped(width, vals[k], vs[chosen[k]])
              /\ vals[k].type \in {"finish", "flush"} => k > 1
    BY DEF IsPackable
  <1>2. PICK r : IsPacking(r, dest, chosen, vs) /\ PackAll(dest, chosen, vs) = r[N]
    BY <1>1, PackingRuns
  <1>3. /\ End(0) = Place(0, 0) /\ \A n \in 0 .. N : End(n) \in Places(width) /\ FitsAt(width, End(n))
        /\ \A n \in 1 .. N : End(n) = EndOfValue(width, End(n - 1), vals[n]) /\ IsValue(width, vals[n])
    <2>1. \A n \in 1 .. N : IsValue(width, vals[n])
      BY <1>1 DEF ValuesOn
    <2> QED BY <1>1, <2>1, EndOfEach, FitsEach
  <1>4. \A n \in 1 .. N : r[n] = PackValue(r[n - 1], vals[n].type, vals[n].size, vs[chosen[n]])
    BY <1>1, <1>2 DEF IsPacking
  <1>5. Done(r[0], 0)
    <2>1. r[0] = Packer(dest, width)
      BY <1>2 DEF IsPacking
    <2> QED BY <1>1, <1>3, <2>1, PackerStands DEF IsPackedTo
  <1>6. ASSUME NEW n \in 1 .. N, Done(r[n - 1], n - 1) PROVE Done(r[n], n)
    <2> DEFINE p == r[n - 1]
               q == r[n]
               a == End(n - 1)
               e == End(n)
               left == IF n - 1 = 0 THEN 0 ELSE width - a.bit
    <2>1. n \in Nat /\ n # 0 /\ n - 1 \in 0 .. N /\ n \in 0 .. N
      BY <1>1
    <2>2. Standing(width, p, a, left) /\ a \in Places(width) /\ e \in Places(width)
          /\ e = EndOfValue(width, a, vals[n]) /\ FitsAt(width, e) /\ IsValue(width, vals[n])
      BY <1>3, <1>6, <2>1 DEF IsPackedTo
    <2>3. q = PackValue(p, vals[n].type, vals[n].size, vs[chosen[n]]) /\ Shaped(width, vals[n], vs[chosen[n]])
      BY <1>1, <1>4
    <2>4. vals[n].type \in {"finish", "flush"} => left = width - a.bit
      <3>1. vals[n].type \in {"finish", "flush"} => n - 1 # 0
        BY <1>1, <2>1
      <3> QED BY <3>1
    <2> HIDE DEF left
    <2>5. /\ Standing(width, q, e, width - e.bit) /\ Same(width, Packed(p), Packed(q), a)
          /\ Lies(width, Packed(q), a, vals[n], vs[chosen[n]])
          /\ vals[n].type # "bits" => Same(width, q.dest, Packed(q), e)
      <3> HIDE DEF p, q, a, e
      <3> QED BY <1>1, <2>2, <2>3, <2>4, PacksValue
    <2>6. ASSUME NEW k \in 1 .. n
          PROVE  Lies(width, Packed(q), End(k - 1), vals[k], vs[chosen[k]])
      <3>1. CASE k = n
        BY <2>5, <3>1
      <3>2. CASE k # n
        <4>1. k \in 1 .. n - 1 /\ k \in 1 .. N /\ k - 1 \in 0 .. N /\ k \in 0 .. n - 1
          BY <2>1, <3>2
        <4>2. Lies(width, Packed(p), End(k - 1), vals[k], vs[chosen[k]])
          BY <1>6, <4>1 DEF IsPackedTo
        <4>3. Upto(End(k), a) /\ End(k) = EndOfValue(width, End(k - 1), vals[k]) /\ IsValue(width, vals[k])
              /\ End(k - 1) \in Places(width)
          BY <1>1, <1>3, <2>1, <4>1, EndsInOrder
        <4> HIDE DEF p, q, a, End
        <4> QED BY <2>2, <2>5, <4>2, <4>3, LiesOn
      <3> QED BY <3>1, <3>2
    <2> QED BY <2>1, <2>5, <2>6 DEF IsPackedTo
  <1> DEFINE Undone == {n \in 0 .. N : ~ Done(r[n], n)}
  <1> HIDE DEF Done
  <1>7. ASSUME NEW n \in Undone PROVE \E k \in Undone : k < n
    <2>1. n \in 0 .. N /\ ~ Done(r[n], n)
      OBVIOUS
    <2>2. n # 0
      BY <1>5, <2>1
    <2>3. n \in 1 .. N /\ n - 1 \in 0 .. N /\ n - 1 < n
      BY <1>1, <2>1, <2>2
    <2>4. ~ Done(r[n - 1], n - 1)
      BY <1>6, <2>1, <2>3
    <2> QED BY <2>3, <2>4
  <1>8. Undone = {}
    <2>1. Undone \in SUBSET Nat
      BY <1>1
    <2> HIDE DEF Undone
    <2> QED BY <1>7, <2>1, NoDescent
  <1>9. N \in 0 .. N
    BY <1>1
  <1> QED BY <1>2, <1>8, <1>9 DEF Done

-----------------------------------------------------------------------------
(* The reader.                                                             *)

ReaderFields ==
  {"bitsRead", "segments", "bitsLeft", "total", "overflowed", "elements", "threw", "unmasked"}

ReaderOK(width, r) ==
  /\ DOMAIN r = ReaderFields /\ r.bitsRead \in 0 .. width - 1 /\ r.bitsLeft \in 0 .. width
  /\ r.threw \in BOOLEAN /\ r.unmasked \in BOOLEAN

(* A reader stands at a place.                                             *)
ReaderAt(r, a) ==
  /\ DOMAIN r = ReaderFields /\ r.overflowed = a.unit /\ r.segments = a.unit /\ r.bitsRead = a.bit
  /\ r.threw = FALSE /\ r.unmasked \in BOOLEAN /\ r.elements \in Int

(* Whatever it reads, its counters stay within the unit.                   *)
LEMMA ReadNextOK ==
  ASSUME NEW width \in Widths, NEW r, ReaderOK(width, r), NEW n \in 0 .. width, NEW f
  PROVE  LET q == ReadNext(width, f, r, n).reader
         IN ReaderOK(width, q) /\ q.elements = r.elements /\ (r.unmasked => q.unmasked)
            /\ (r.threw => q.threw)
  <1> DEFINE q == ReadNext(width, f, r, n).reader
             lhs == (r.bitsRead + n - 1) - (width - 1)
  <1>1. /\ DOMAIN r = ReaderFields /\ r.bitsRead \in 0 .. width - 1 /\ r.bitsLeft \in 0 .. width
        /\ r.threw \in BOOLEAN /\ r.unmasked \in BOOLEAN /\ width \in Nat \ {0} /\ n \in Nat /\ n <= width
    BY DEF ReaderOK, Widths
  <1>2. CASE r.threw \/ r.overflowed >= r.elements
    <2>1. q = [r EXCEPT !.threw = TRUE]
      BY <1>2 DEF ReadNext
    <2> HIDE DEF q
    <2> QED BY <1>1, <2>1 DEF ReaderOK, ReaderFields, q
  <1>3. CASE ~ (r.threw \/ r.overflowed >= r.elements) /\ r.bitsRead + n > width
    <2>1. q = MergedUnit(width, f, r, n).reader
      BY <1>3 DEF ReadNext
    <2>2. lhs \in 0 .. width - 1 /\ width - lhs \in 0 .. width
      BY <1>1, <1>3
    <2> HIDE DEF lhs
    <2>3. PICK flag \in BOOLEAN :
            q = [r EXCEPT !.overflowed = UInt8(@ + 1), !.segments = UInt8(@ + 1), !.bitsRead = lhs,
                          !.bitsLeft = width - lhs, !.total = UInt8(@ + n), !.unmasked = @ \/ flag]
      BY <2>1 DEF MergedUnit, lhs
    <2> HIDE DEF q
    <2>4. DOMAIN q = ReaderFields /\ q.bitsRead = lhs /\ q.bitsLeft = width - lhs /\ q.threw = r.threw
          /\ q.unmasked = (r.unmasked \/ flag) /\ q.elements = r.elements
      BY <1>1, <2>3 DEF ReaderFields
    <2> QED BY <1>1, <2>2, <2>4 DEF ReaderOK, q
  <1>4. CASE ~ (r.threw \/ r.overflowed >= r.elements) /\ ~ (r.bitsRead + n > width)
    <2>1. q = NextWithinUnit(width, f, r, n).reader
      BY <1>4 DEF ReadNext
    <2> DEFINE q0 == [r EXCEPT !.bitsRead = @ + n, !.total = UInt8(@ + n), !.bitsLeft = width - (r.bitsRead + n)]
    <2>2. q = IF q0.bitsRead % width = 0
              THEN [q0 EXCEPT !.overflowed = UInt8(@ + 1), !.segments = UInt8(@ + 1),
                              !.bitsLeft = width, !.bitsRead = 0]
              ELSE q0
      BY <2>1 DEF NextWithinUnit
    <2>3. DOMAIN q0 = ReaderFields /\ q0.bitsRead = r.bitsRead + n /\ q0.bitsLeft = width - (r.bitsRead + n)
          /\ q0.threw = r.threw /\ q0.unmasked = r.unmasked /\ q0.elements = r.elements
      BY <1>1 DEF ReaderFields
    <2> HIDE DEF q0, q
    <2>4. CASE q0.bitsRead % width = 0
      <3>1. q = [q0 EXCEPT !.overflowed = UInt8(@ + 1), !.segments = UInt8(@ + 1),
                              !.bitsLeft = width, !.bitsRead = 0]
        BY <2>2, <2>4
      <3>2. DOMAIN q = ReaderFields /\ q.bitsRead = 0 /\ q.bitsLeft = width /\ q.threw = q0.threw
            /\ q.unmasked = q0.unmasked /\ q.elements = q0.elements
        BY <2>3, <3>1 DEF ReaderFields
      <3>3. 0 \in 0 .. width - 1 /\ width \in 0 .. width
        BY <1>1
      <3> QED BY <1>1, <2>3, <3>2, <3>3 DEF ReaderOK, q
    <2>5. CASE q0.bitsRead % width # 0
      <3>1. width % width = 0
        BY DEF Widths
      <3>2. r.bitsRead + n # width
        BY <2>3, <2>5, <3>1
      <3>3. r.bitsRead + n \in 0 .. width - 1 /\ width - (r.bitsRead + n) \in 0 .. width
        BY <1>1, <1>4, <3>2
      <3> QED BY <1>1, <2>2, <2>3, <2>5, <3>3 DEF ReaderOK, q
    <2> QED BY <2>4, <2>5
  <1> QED BY <1>2, <1>3, <1>4

LEMMA FetchBytesOK ==
  ASSUME NEW width \in Widths, NEW r, ReaderOK(width, r), NEW size \in Nat, NEW f
  PROVE  LET q == FetchBytes(width, f, r, size).reader
         IN /\ ReaderOK(width, q) /\ q.elements = r.elements /\ q.unmasked = r.unmasked /\ q.threw = r.threw
  <1> DEFINE x == FetchBytes(width, f, r, size)
             q == x.reader
  <1>1. size % width \in 0 .. width - 1 /\ width \in Nat \ {0}
    BY Divided DEF Widths
  <1>2. \E o, t : q = [r EXCEPT !.segments = o, !.overflowed = o, !.total = t, !.bitsRead = size % width,
                       !.bitsLeft = IF size % width = 0 THEN width ELSE size % width]
    BY DEF FetchBytes
  <1> HIDE DEF q
  <1>3. PICK o, t : q = [r EXCEPT !.segments = o, !.overflowed = o, !.total = t, !.bitsRead = size % width,
                       !.bitsLeft = IF size % width = 0 THEN width ELSE size % width]
    BY <1>2
  <1>4. DOMAIN q = ReaderFields /\ q.bitsRead = size % width /\ q.threw = r.threw /\ q.unmasked = r.unmasked
        /\ q.elements = r.elements /\ q.bitsLeft = IF size % width = 0 THEN width ELSE size % width
    BY <1>3 DEF ReaderOK, ReaderFields
  <1> QED BY <1>1, <1>4 DEF ReaderOK, q

(* Bits are read where they lie; those that are not masked can be told.    *)
LEMMA ReadNextFacts ==
  ASSUME NEW width \in Widths, NEW a \in Places(width), NEW n \in 1 .. width, NEW r, ReaderAt(r, a),
         a.unit < r.elements, BufferUnits \in Nat, NEW f, IsBuffer(width, f),
         FitsAt(width, Behind(width, a, n))
  PROVE  LET x == ReadNext(width, f, r, n)
             b == Behind(width, a, n)
         IN /\ ReaderAt(x.reader, b) /\ x.reader.elements = r.elements
            /\ x.reader.bitsLeft = width - b.bit
            /\ IsUnit(width, x.value) /\ \A j \in 0 .. n - 1 : x.value[j] = At(f, Behind(width, a, j))
            /\ (r.unmasked => x.reader.unmasked) /\ (x.reader.unmasked \/ Clean(width, x.value, n))
            /\ n = width => Clean(width, x.value, n)
            /\ x.reader.unmasked => r.unmasked \/ (n # width /\ a.bit + n = width + 1)
  <1> DEFINE x == ReadNext(width, f, r, n)
             q == x.reader
             b == Behind(width, a, n)
             end == a.bit + n - 1
             lhs == end - (width - 1)
             rhs == n - lhs
             head == GetBitsValue(width, f[a.unit], width - 1, rhs)
             merged == SetBits(width, head, n - 1, lhs, f[a.unit + 1])
             bad == (end - 1) % (width - 1) = 0
  <1>1. /\ a.unit \in Nat /\ a.bit \in 0 .. width - 1 /\ width \in Nat \ {0} /\ n \in Nat \ {0} /\ n <= width
        /\ n \in 0 .. width
    BY DEF Places, Widths
  <1>2. /\ DOMAIN r = ReaderFields /\ r.overflowed = a.unit /\ r.segments = a.unit /\ r.bitsRead = a.bit
        /\ r.threw = FALSE /\ r.unmasked \in BOOLEAN /\ r.elements \in Int
    BY DEF ReaderAt
  <1>3. ~ (r.threw \/ r.overflowed >= r.elements)
    BY <1>1, <1>2
  <1>4. /\ b \in Places(width) /\ Upto(a, b)
        /\ b = IF a.bit + n < width THEN Place(a.unit, a.bit + n)
               ELSE Place(a.unit + 1, (a.bit + n) - width)
    BY <1>1, BehindFacts
  <1>5. FitsAt(width, a) /\ FitsAt(width, b)
    BY <1>4, FitsBefore
  <1> HIDE DEF b
  <1>6. UInt8(b.unit) = b.unit /\ b.unit \in Nat /\ b.unit < BufferUnits /\ a.unit < BufferUnits
    BY <1>4, <1>5 DEF FitsAt, Places
  <1>7. IsUnit(width, f[a.unit])
    BY <1>1, <1>6 DEF IsBuffer
  <1>8. CASE a.bit + n > width
    <2>1. b.unit = a.unit + 1 /\ b.bit = (a.bit + n) - width /\ lhs = b.bit /\ rhs = width - a.bit
          /\ lhs \in 1 .. width - 1 /\ rhs \in 1 .. width - 1 /\ lhs + rhs = n
      BY <1>1, <1>4, <1>8 DEF Place
    <2>2. x = MergedUnit(width, f, r, n)
      BY <1>2, <1>3, <1>8 DEF ReadNext
    <2>3. /\ q = [r EXCEPT !.overflowed = UInt8(@ + 1), !.segments = UInt8(@ + 1), !.bitsRead = lhs,
                          !.bitsLeft = width - lhs, !.total = UInt8(@ + n), !.unmasked = @ \/ (bad /\ n # width)]
          /\ x.value = IF bad THEN merged ELSE GetBitsValue(width, merged, n - 1, n)
      <3> HIDE DEF x
      <3> QED BY <1>2, <2>2 DEF MergedUnit
    <2> HIDE DEF x
    <2>4. IsUnit(width, merged) /\ \A j \in 0 .. n - 1 : merged[j] = At(f, Behind(width, a, j))
      <3>1. width - 1 \in 0 .. width - 1 /\ rhs \in 1 .. (width - 1) + 1 /\ (width - 1) + 1 - rhs = a.bit
        BY <1>1, <2>1
      <3>2. \A j \in 0 .. rhs - 1 : head[j] = f[a.unit][a.bit + j]
        <4> HIDE DEF rhs
        <4> QED BY <1>7, <3>1, GetBitsFacts
      <3>3. n - 1 \in 0 .. width - 1 /\ lhs \in 1 .. (n - 1) + 1 /\ (n - 1) + 1 - lhs = rhs
        BY <1>1, <2>1
      <3> HIDE DEF lhs, rhs, head
      <3>4. /\ IsUnit(width, merged) /\ \A j \in 0 .. lhs - 1 : merged[rhs + j] = f[a.unit + 1][j]
            /\ \A c \in 0 .. rhs - 1 : merged[c] = head[c]
        <4>1. IsUnit(width, merged) /\ HasBits(merged, rhs, lhs, f[a.unit + 1]) /\ KeepsBits(merged, rhs, head)
          BY <3>3, SetBitsFacts
        <4> HIDE DEF merged
        <4> QED BY <4>1 DEF HasBits, KeepsBits
      <3> HIDE DEF merged
      <3>5. ASSUME NEW j \in 0 .. n - 1 PROVE merged[j] = At(f, Behind(width, a, j))
        <4>1. j \in 0 .. width
          BY <1>1
        <4>2. Behind(width, a, j) = IF a.bit + j < width THEN Place(a.unit, a.bit + j)
                                    ELSE Place(a.unit + 1, (a.bit + j) - width)
          BY <4>1, BehindFacts
        <4>3. CASE a.bit + j < width
          <5>1. j \in 0 .. rhs - 1
            BY <1>1, <2>1, <4>3
          <5> QED BY <3>2, <3>4, <4>2, <4>3, <5>1 DEF At, Place
        <4>4. CASE ~ (a.bit + j < width)
          <5>1. (a.bit + j) - width \in 0 .. lhs - 1 /\ rhs + ((a.bit + j) - width) = j
            BY <1>1, <2>1, <4>4
          <5> QED BY <3>4, <4>2, <4>4, <5>1 DEF At, Place
        <4> QED BY <4>3, <4>4
      <3> QED BY <3>4, <3>5
    <2>5. LET masked == GetBitsValue(width, merged, n - 1, n)
          IN Clean(width, masked, n) /\ \A j \in 0 .. n - 1 : masked[j] = merged[j]
      <3>1. n - 1 \in 0 .. width - 1 /\ n \in 1 .. (n - 1) + 1 /\ (n - 1) + 1 - n = 0
        BY <1>1
      <3>2. \A j \in 0 .. n - 1 : 0 + j = j
        BY <1>1
      <3> HIDE DEF merged
      <3> QED BY <2>4, <3>1, <3>2, GetBitsFacts
    <2>6. bad => a.bit + n = width + 1
      <3>1. end - 1 \in width - 1 .. 2 * (width - 1) - 1
        BY <1>1, <1>8
      <3>2. end - 1 # width - 1 => (end - 1) % (width - 1) # 0
        <4> HIDE DEF end
        <4>1. CASE width = 8 BY <3>1, <4>1
        <4>2. CASE width = 16 BY <3>1, <4>2
        <4>3. CASE width = 32 BY <3>1, <4>3
        <4> QED BY <4>1, <4>2, <4>3 DEF Widths
      <3> QED BY <1>1, <3>2
    <2> HIDE DEF merged, bad, lhs, rhs, q
    <2>7. UInt8(r.overflowed + 1) = b.unit /\ UInt8(r.segments + 1) = b.unit
      BY <1>2, <1>6, <2>1
    <2>8. /\ DOMAIN q = ReaderFields /\ q.overflowed = b.unit /\ q.segments = b.unit /\ q.bitsRead = b.bit
          /\ q.threw = FALSE /\ q.unmasked = (r.unmasked \/ (bad /\ n # width)) /\ q.elements = r.elements
          /\ q.bitsLeft = width - b.bit
      BY <1>2, <2>1, <2>3, <2>7 DEF ReaderFields
    <2>9. q.unmasked \in BOOLEAN /\ (r.unmasked => q.unmasked)
          /\ (q.unmasked => r.unmasked \/ (n # width /\ a.bit + n = width + 1))
      BY <1>2, <2>6, <2>8
    <2>10. ReaderAt(q, b)
      BY <1>2, <2>8, <2>9 DEF ReaderAt
    <2>11. IsUnit(width, x.value) /\ \A j \in 0 .. n - 1 : x.value[j] = At(f, Behind(width, a, j))
      <3>1. CASE bad
        BY <2>3, <2>4, <3>1
      <3>2. CASE ~bad
        BY <2>3, <2>4, <2>5, <3>2 DEF Clean
      <3> QED BY <3>1, <3>2
    <2>12. n = width => Clean(width, x.value, n)
      <3>1. n = width => \A c \in n .. width - 1 : FALSE
        BY <1>1
      <3> QED BY <2>11, <3>1 DEF Clean
    <2>13. q.unmasked \/ Clean(width, x.value, n)
      <3>1. CASE bad /\ n # width
        BY <2>8, <3>1
      <3>2. CASE ~bad
        BY <2>3, <2>5, <3>2
      <3> QED BY <2>12, <3>1, <3>2
    <2> QED BY <1>2, <2>8, <2>9, <2>10, <2>11, <2>12, <2>13 DEF q, x, b
  <1>9. CASE ~ (a.bit + n > width)
    <2> DEFINE full == a.bit + n = width
               q0 == [r EXCEPT !.bitsRead = @ + n, !.total = UInt8(@ + n), !.bitsLeft = width - (r.bitsRead + n)]
    <2>1. b.unit = (IF full THEN a.unit + 1 ELSE a.unit) /\ b.bit = (IF full THEN 0 ELSE a.bit + n)
      BY <1>1, <1>4, <1>9 DEF Place
    <2>2. x = NextWithinUnit(width, f, r, n)
      BY <1>2, <1>3, <1>9 DEF ReadNext
    <2>3. /\ q = IF q0.bitsRead % width = 0
                 THEN [q0 EXCEPT !.overflowed = UInt8(@ + 1), !.segments = UInt8(@ + 1),
                                 !.bitsLeft = width, !.bitsRead = 0]
                 ELSE q0
          /\ x.value = GetBitsValue(width, f[a.unit], a.bit + n - 1, n)
      <3> HIDE DEF x
      <3> QED BY <1>2, <2>2 DEF NextWithinUnit
    <2>4. /\ DOMAIN q0 = ReaderFields /\ q0.bitsRead = a.bit + n /\ q0.bitsLeft = width - (a.bit + n)
          /\ q0.threw = FALSE /\ q0.unmasked = r.unmasked /\ q0.elements = r.elements
          /\ q0.overflowed = a.unit /\ q0.segments = a.unit
      BY <1>2 DEF ReaderFields
    <2>5. q0.bitsRead % width = 0 <=> full
      <3>1. a.bit + n \in 1 .. width /\ a.bit + n \in Nat
        BY <1>1, <1>9
      <3>2. \A c \in 1 .. width : (c % width = 0 <=> c = width)
        BY <1>1, FullUnit
      <3> QED BY <2>4, <3>1, <3>2
    <2> HIDE DEF q0, q
    <2>6. /\ DOMAIN q = ReaderFields /\ q.overflowed = b.unit /\ q.segments = b.unit /\ q.bitsRead = b.bit
          /\ q.threw = FALSE /\ q.unmasked = r.unmasked /\ q.elements = r.elements
          /\ q.bitsLeft = width - b.bit
      <3>1. CASE full
        <4>1. UInt8(q0.overflowed + 1) = b.unit /\ UInt8(q0.segments + 1) = b.unit /\ b.bit = 0 /\ width - 0 = width
          BY <1>1, <1>6, <2>1, <2>4, <3>1
        <4>2. q = [q0 EXCEPT !.overflowed = UInt8(@ + 1), !.segments = UInt8(@ + 1),
                             !.bitsLeft = width, !.bitsRead = 0]
          BY <2>3, <2>5, <3>1
        <4> QED BY <2>4, <4>1, <4>2 DEF ReaderFields
      <3>2. CASE ~full
        BY <1>1, <2>1, <2>3, <2>4, <2>5, <3>2
      <3> QED BY <3>1, <3>2
    <2>7. ReaderAt(q, b)
      BY <1>2, <2>6 DEF ReaderAt
    <2>8. Clean(width, x.value, n) /\ \A j \in 0 .. n - 1 : x.value[j] = f[a.unit][a.bit + j]
      <3>1. a.bit + n - 1 \in 0 .. width - 1 /\ n \in 1 .. (a.bit + n - 1) + 1
            /\ (a.bit + n - 1) + 1 - n = a.bit
        BY <1>1, <1>9
      <3> HIDE DEF x
      <3> QED BY <1>7, <2>3, <3>1, GetBitsFacts
    <2>9. ASSUME NEW j \in 0 .. n - 1 PROVE x.value[j] = At(f, Behind(width, a, j))
      <3>1. a.bit + j < width /\ j \in 0 .. width
        BY <1>1, <1>9
      <3>2. Behind(width, a, j) = Place(a.unit, a.bit + j)
        BY <3>1, BehindFacts
      <3> HIDE DEF x
      <3> QED BY <2>8, <3>2 DEF At, Place
    <2> HIDE DEF x
    <2> QED BY <1>2, <2>6, <2>7, <2>8, <2>9 DEF Clean, q, x, b
  <1> QED BY <1>8, <1>9

(* Bytes are read where they lie.                                          *)
LEMMA FetchBytesFacts ==
  ASSUME NEW width \in Widths, NEW a \in Places(width), NEW r, ReaderAt(r, a), r.bitsLeft = width - a.bit,
         BufferUnits \in Nat, NEW f, NEW size \in Nat,
         NEW s, s = IF a.bit = 0 THEN a ELSE NextUnit(a),
         NEW e, e = Place(s.unit + size \div width, size % width), FitsAt(width, e)
  PROVE  LET x == FetchBytes(width, f, r, size)
         IN /\ ReaderAt(x.reader, e) /\ x.reader.elements = r.elements /\ x.reader.unmasked = r.unmasked
            /\ x.reader.bitsLeft = (IF size % width = 0 THEN width ELSE size % width)
            /\ x.value = [b \in 0 .. size - 1 |-> f[s.unit + b \div width][b % width]]
  <1> DEFINE x == FetchBytes(width, f, r, size)
             q == x.reader
             skips == r.bitsLeft # width
             at == IF skips THEN UInt8(r.overflowed + 1) ELSE r.overflowed
             segments == UInt8((IF skips THEN UInt8(r.segments + 1) ELSE r.segments) + size \div width)
  <1>1. /\ a.unit \in Nat /\ a.bit \in 0 .. width - 1 /\ width \in Nat \ {0}
    BY DEF Places, Widths
  <1>2. /\ DOMAIN r = ReaderFields /\ r.overflowed = a.unit /\ r.segments = a.unit /\ r.bitsRead = a.bit
        /\ r.threw = FALSE /\ r.unmasked \in BOOLEAN /\ r.elements \in Int
    BY DEF ReaderAt
  <1>3. size \div width \in Nat /\ size % width \in 0 .. width - 1
    BY Divided
  <1>4. s.unit = (IF skips THEN a.unit + 1 ELSE a.unit) /\ s.unit \in Nat
    BY <1>1 DEF NextUnit, Place
  <1>5. e.unit = s.unit + size \div width /\ e.bit = size % width
    BY DEF Place
  <1>6. e.unit % 256 = e.unit
    BY DEF FitsAt, UInt8
  <1>7. s.unit % 256 = s.unit
    BY <1>3, <1>4, <1>5, <1>6
  <1>8. at = s.unit /\ segments = e.unit
    BY <1>2, <1>4, <1>5, <1>6, <1>7 DEF UInt8
  <1>9. /\ q = [r EXCEPT !.segments = segments, !.overflowed = segments,
                         !.total = UInt8((IF skips THEN @ + r.bitsLeft ELSE @) + size),
                         !.bitsRead = size % width,
                         !.bitsLeft = IF size % width = 0 THEN width ELSE size % width]
        /\ x.value = [b \in 0 .. size - 1 |-> f[at + b \div width][b % width]]
    BY DEF FetchBytes
  <1> HIDE DEF x, q, at, segments, skips
  <1>10. /\ DOMAIN q = ReaderFields /\ q.overflowed = e.unit /\ q.segments = e.unit /\ q.bitsRead = e.bit
         /\ q.threw = FALSE /\ q.unmasked = r.unmasked /\ q.elements = r.elements
         /\ q.bitsLeft = IF size % width = 0 THEN width ELSE size % width
    BY <1>2, <1>5, <1>8, <1>9 DEF ReaderFields
  <1>11. ReaderAt(q, e)
    BY <1>2, <1>10 DEF ReaderAt
  <1> QED BY <1>8, <1>9, <1>10, <1>11 DEF q, x

-----------------------------------------------------------------------------
(* Reading all values.                                                     *)

LEMMA OriginalIsShaped ==
  ASSUME NEW width \in Widths, width = w, NEW n, IsValue(width, values[n])
  PROVE  Shaped(width, values[n], Original(n))
  <1> DEFINE val == values[n]
  <1>1. val.type \in ValueTypes /\ val.size \in Nat /\ width \in Nat
    BY DEF IsValue, Widths
  <1>2. CASE val.type = "bits"
    <2> DEFINE u == Value(width, n, val.size)
    <2>1. Original(n) = [length |-> Empty(width), value |-> u]
      BY <1>2 DEF Original
    <2>2. u = [b \in 0 .. width - 1 |-> IF b < val.size THEN <<n, b>> ELSE Zero]
      BY DEF Value
    <2>3. IsUnit(width, u)
      BY <2>2 DEF IsUnit
    <2>4. \A b \in val.size .. width - 1 : u[b] = Zero
      BY <1>1, <2>2
    <2> HIDE DEF u
    <2> QED BY <1>2, <2>1, <2>3, <2>4 DEF Shaped, Clean
  <1>3. CASE val.type \in {"finish", "flush"}
    BY <1>3 DEF Original, Shaped, Lost
  <1>4. CASE val.type \in {"string", "array"}
    <2> DEFINE len == IF val.size = 0 THEN Empty(width) ELSE Value(width, n + 1000, width)
               u == [b \in 0 .. 8 * val.size - 1 |-> <<n, b>>]
    <2>1. Original(n) = [length |-> len, value |-> u]
      BY <1>4 DEF Original
    <2>2. IsUnit(width, len)
      <3>1. IsUnit(width, Value(width, n + 1000, width))
        BY DEF IsUnit, Value
      <3> QED BY <3>1, EmptyUnit
    <2>3. u = [b \in 0 .. 8 * val.size - 1 |-> u[b]]
      OBVIOUS
    <2> HIDE DEF u, len
    <2> QED BY <1>4, <2>1, <2>2, <2>3 DEF Shaped
  <1> QED BY <1>1, <1>2, <1>3, <1>4 DEF ValueTypes

LEMMA AppendAny ==
  ASSUME NEW n \in Nat, NEW g, g = [k \in 1 .. n |-> g[k]], NEW v
  PROVE  LET h == Append(g, v)
         IN /\ h = [k \in 1 .. n + 1 |-> h[k]] /\ h[n + 1] = v
            /\ \A k \in 1 .. n : h[k] = g[k]
  <1> DEFINE T == {g[k] : k \in 1 .. n} \cup {v}
             h == Append(g, v)
  <1>1. g \in [1 .. n -> T]
    OBVIOUS
  <1>2. g \in Seq(T) /\ Len(g) = n
    BY <1>1
  <1>3. v \in T
    OBVIOUS
  <1> HIDE DEF T
  <1>4. /\ h \in Seq(T) /\ Len(h) = n + 1 /\ h[n + 1] = v
        /\ \A k \in 1 .. n : h[k] = g[k]
    BY <1>2, <1>3, AppendProperties
  <1> HIDE DEF h
  <1>5. h = [k \in 1 .. n + 1 |-> h[k]]
    BY <1>4
  <1> QED BY <1>4, <1>5 DEF h

IsReading(r) ==
  /\ r[0] = [reader |-> Reader(Elements), got |-> <<>>, lost |-> FALSE]
  /\ \A n \in 1 .. Len(values) : r[n] = ReadValue(r[n - 1], n)

LEMMA ReadingRuns ==
  ASSUME Len(values) \in Nat
  PROVE  \E r : IsReading(r) /\ ReadAll = r[Len(values)]
  <1> DEFINE N == Len(values)
             Start == [reader |-> Reader(Elements), got |-> <<>>, lost |-> FALSE]
             Step(s, n) == ReadValue(s, n)
             Def(g, m) == [n \in 0 .. m |-> IF n = 0 THEN Start ELSE Step(g[n - 1], n)]
             Without == {m \in 0 .. N : ~ \E g : g = Def(g, m)}
             run == CHOOSE g : g = Def(g, N)
  <1>1. N \in Nat
    OBVIOUS
  <1>2. ReadAll = run[N]
    BY DEF ReadAll
  <1> HIDE DEF Step, Start
  <1>3. \E g : g = Def(g, 0)
    <2> DEFINE g == [n \in 0 .. 0 |-> Start]
    <2>1. g = Def(g, 0)
      OBVIOUS
    <2> HIDE DEF g
    <2> QED BY <2>1
  <1>4. ASSUME NEW m \in 1 .. N, \E g : g = Def(g, m - 1) PROVE \E g : g = Def(g, m)
    <2>1. PICK g : g = Def(g, m - 1)
      BY <1>4
    <2> DEFINE h == [n \in 0 .. m |-> IF n = m THEN Step(g[m - 1], m) ELSE g[n]]
    <2>2. m \in Nat /\ m >= 1
      BY <1>1
    <2>3. \A n \in 0 .. m - 1 : g[n] = IF n = 0 THEN Start ELSE Step(g[n - 1], n)
      BY <2>1
    <2>4. ASSUME NEW n \in 0 .. m PROVE h[n] = IF n = 0 THEN Start ELSE Step(h[n - 1], n)
      <3>1. CASE n = m
        <4>1. h[n] = Step(g[m - 1], m) /\ m # 0 /\ m - 1 \in 0 .. m /\ m - 1 # m
          BY <2>2, <3>1
        <4>2. h[m - 1] = g[m - 1]
          BY <4>1
        <4> HIDE DEF h
        <4> QED BY <3>1, <4>1, <4>2
      <3>2. CASE n # m /\ n = 0
        <4>1. n \in 0 .. m - 1
          BY <2>2, <3>2
        <4> QED BY <2>3, <3>2, <4>1
      <3>3. CASE n # m /\ n # 0
        <4>1. n \in 0 .. m - 1 /\ n - 1 \in 0 .. m /\ n - 1 # m
          BY <2>2, <3>3
        <4>2. h[n] = g[n] /\ h[n - 1] = g[n - 1]
          BY <3>3, <4>1
        <4> HIDE DEF h
        <4> QED BY <2>3, <3>3, <4>1, <4>2
      <3> QED BY <3>1, <3>2, <3>3
    <2>5. h = [n \in 0 .. m |-> h[n]]
      OBVIOUS
    <2> HIDE DEF h
    <2>6. h = Def(h, m)
      BY <2>4, <2>5
    <2> HIDE DEF Def
    <2> QED BY <2>6
  <1>5. ASSUME NEW m \in Without PROVE \E k \in Without : k < m
    <2> HIDE DEF Def
    <2>1. m \in 0 .. N /\ ~ \E g : g = Def(g, m)
      OBVIOUS
    <2>2. m # 0
      BY <1>3, <2>1
    <2>3. m \in 1 .. N /\ m - 1 \in 0 .. N /\ m - 1 < m
      BY <1>1, <2>1, <2>2
    <2>4. ~ \E g : g = Def(g, m - 1)
      BY <1>4, <2>1, <2>3
    <2> QED BY <2>3, <2>4
  <1>6. Without = {}
    <2>1. Without \in SUBSET Nat
      BY <1>1
    <2> HIDE DEF Without
    <2> QED BY <1>5, <2>1, NoDescent
  <1>7. run = Def(run, N)
    <2> HIDE DEF Def
    <2>1. N \in 0 .. N
      BY <1>1
    <2>2. \E g : g = Def(g, N)
      BY <1>6, <2>1
    <2> QED BY <2>2
  <1> HIDE DEF run
  <1>8. run[0] = Start /\ \A n \in 1 .. N : run[n] = Step(run[n - 1], n)
    <2>1. 0 \in 0 .. N /\ \A n \in 1 .. N : n \in 0 .. N /\ n # 0
      BY <1>1
    <2>2. \A n \in 0 .. N : run[n] = IF n = 0 THEN Start ELSE Step(run[n - 1], n)
      BY <1>7
    <2> HIDE DEF Def
    <2> QED BY <2>1, <2>2
  <1>9. IsReading(run)
    BY <1>8 DEF IsReading, Step, Start
  <1> QED BY <1>2, <1>9

(* Whatever arrives, reading counts the values and keeps its counters.     *)
IsReadingState(width, s, n) ==
  /\ DOMAIN s = {"reader", "got", "lost"} /\ s.lost \in BOOLEAN
  /\ ReaderOK(width, s.reader) /\ s.reader.elements = Elements
  /\ s.got = [k \in 1 .. n |-> s.got[k]]

LEMMA ReadingGoesOn ==
  ASSUME NEW width \in Widths, width = w, NEW n \in Nat \ {0}, IsValue(width, values[n]),
         NEW s, IsReadingState(width, s, n - 1)
  PROVE  LET t == ReadValue(s, n)
         IN /\ IsReadingState(width, t, n) /\ \A k \in 1 .. n - 1 : t.got[k] = s.got[k]
            /\ s.reader.unmasked => t.reader.unmasked
  <1> DEFINE t == ReadValue(s, n)
             val == values[n]
             bits == ReadNext(width, field, s.reader, IF val.type = "bits" THEN val.size ELSE width)
             bytes == FetchBytes(width, field, bits.reader, 8 * val.size)
             more(r, v) == [reader |-> r, got |-> Append(s.got, v), lost |-> s.lost \/ r.threw]
             Grown(r) == ReaderOK(width, r) /\ r.elements = Elements /\ (s.reader.unmasked => r.unmasked)
             Grows == \E r, v, lost : /\ Grown(r) /\ lost \in BOOLEAN
                                      /\ t = [reader |-> r, got |-> Append(s.got, v), lost |-> lost]
  <1>1. /\ val.type \in ValueTypes /\ val.size \in Nat /\ 8 * val.size \in Nat
        /\ (IF val.type = "bits" THEN val.size ELSE width) \in 0 .. width /\ n - 1 \in Nat /\ (n - 1) + 1 = n
    BY DEF IsValue, Widths
  <1>2. /\ DOMAIN s = {"reader", "got", "lost"} /\ s.lost \in BOOLEAN
        /\ ReaderOK(width, s.reader) /\ s.reader.elements = Elements
        /\ s.got = [k \in 1 .. n - 1 |-> s.got[k]]
    BY DEF IsReadingState
  <1>3. Grown(s.reader)
    BY <1>2
  <1>4. Grown(bits.reader)
    <2> DEFINE m == IF val.type = "bits" THEN val.size ELSE width
    <2>1. m \in 0 .. width
      BY <1>1
    <2> HIDE DEF m
    <2>2. Grown(ReadNext(width, field, s.reader, m).reader)
      BY <1>2, <2>1, ReadNextOK
    <2> QED BY <2>2 DEF m
  <1>5. Grown(bytes.reader)
    <2> HIDE DEF bits
    <2> QED BY <1>1, <1>4, FetchBytesOK
  <1>6. Grown(Finish(width, field, s.reader).reader)
    <2>1. s.reader.bitsLeft \in 0 .. width
      BY <1>2 DEF ReaderOK
    <2>2. Finish(width, field, s.reader) = ReadNext(width, field, s.reader, s.reader.bitsLeft)
      BY DEF Finish
    <2> QED BY <1>2, <2>1, <2>2, ReadNextOK
  <1>7. Grows
    <2>1. ASSUME NEW r, NEW v, Grown(r), t = more(r, v) PROVE Grows
      <3>1. s.lost \/ r.threw \in BOOLEAN
        BY <1>2, <2>1 DEF ReaderOK
      <3> HIDE DEF t, Grown
      <3> QED BY <2>1, <3>1 DEF Grows
    <2>2. ASSUME NEW r, NEW v, NEW b \in BOOLEAN, Grown(r), t = [more(r, v) EXCEPT !.lost = b] PROVE Grows
      <3>1. t = [reader |-> r, got |-> Append(s.got, v), lost |-> b]
        BY <2>2
      <3> HIDE DEF t, Grown
      <3> QED BY <2>2, <3>1 DEF Grows
    <2> HIDE DEF Grown, more, Grows
    <2>3. CASE s.lost
      <3>1. t = more(s.reader, Lost)
        BY <2>3 DEF ReadValue, more
      <3> QED BY <1>3, <2>1, <3>1
    <2>4. CASE ~s.lost /\ val.type = "finish"
      <3>1. t = more(Finish(width, field, s.reader).reader, Lost)
        BY <2>4 DEF ReadValue, more
      <3> QED BY <1>6, <2>1, <3>1
    <2>5. CASE ~s.lost /\ val.type = "flush"
      <3>1. t = more(s.reader, Lost)
        BY <2>5 DEF ReadValue, more
      <3> QED BY <1>3, <2>1, <3>1
    <2>6. CASE ~s.lost /\ val.type = "bits"
      <3> DEFINE v == [length |-> Empty(width), value |-> bits.value]
                 b == more(bits.reader, v).lost \/ (isMessage /\ n = 8 /\ bits.value # Original(8).value)
      <3>1. t = [more(bits.reader, v) EXCEPT !.lost = b]
        BY <2>6 DEF ReadValue, more
      <3>2. b \in BOOLEAN
        OBVIOUS
      <3> HIDE DEF b, v, t, bits
      <3> QED BY <1>4, <2>2, <3>1, <3>2
    <2>7. CASE ~s.lost /\ val.type \in {"string", "array"} /\ bits.value # Original(n).length
      <3>1. t = [more(bits.reader, Lost) EXCEPT !.lost = TRUE]
        BY <2>7 DEF ReadValue, more
      <3> HIDE DEF t, bits
      <3> QED BY <1>4, <2>2, <3>1
    <2>8. CASE ~s.lost /\ val.type \in {"string", "array"} /\ ~ (bits.value # Original(n).length)
      <3> DEFINE r == IF val.type = "string" /\ val.size = 0 THEN bits.reader ELSE bytes.reader
                 v == [length |-> bits.value, value |-> bytes.value]
      <3>1. t = more(r, v)
        BY <2>8 DEF ReadValue, more
      <3>2. Grown(r)
        BY <1>4, <1>5
      <3> HIDE DEF t, r, v
      <3> QED BY <2>1, <3>1, <3>2
    <2> QED BY <1>1, <2>3, <2>4, <2>5, <2>6, <2>7, <2>8 DEF ValueTypes
  <1> HIDE DEF t
  <1>8. PICK r, v, lost : /\ Grown(r) /\ lost \in BOOLEAN
                          /\ t = [reader |-> r, got |-> Append(s.got, v), lost |-> lost]
    BY <1>7
  <1>9. LET h == Append(s.got, v)
        IN h = [k \in 1 .. n |-> h[k]] /\ \A k \in 1 .. n - 1 : h[k] = s.got[k]
    BY <1>1, <1>2, AppendAny
  <1>10. t.got = Append(s.got, v) /\ t.reader = r /\ t.lost = lost /\ DOMAIN t = {"reader", "got", "lost"}
    BY <1>8
  <1> QED BY <1>8, <1>9, <1>10 DEF IsReadingState, t

(* What can be read, bit for bit, where the reader and the packer agree.   *)
IsReadable(width) ==
  /\ BufferUnits \in Nat /\ IsBuffer(width, field) /\ Fits(width, values) /\ ~FinishAfterBytes
  /\ values \in Seq(ValuesOn(width))
  /\ \A k \in 1 .. Len(values) :
        /\ values[k].type = "bits" => k < Len(values)
        /\ values[k].type \in {"finish", "flush"} => k > 1
        /\ values[k].type = "flush" => k = Len(values)
  /\ Elements \in Int /\ EndOf(width, values, Len(values)).unit <= Elements
  /\ isMessage => \A k \in 1 .. Len(values) : values[k].type = "bits" /\ values[k].size # width =>
                     EndOf(width, values, k - 1).bit + values[k].size # width + 1

(* A value that arrived as it was sent, or was read by other bits.         *)
IsRead(width, s, k) ==
  /\ Lies(width, field, EndOf(width, values, k - 1), values[k], s.got[k])
  /\ s.reader.unmasked \/ Shaped(width, values[k], s.got[k])

Partial(width, val) == val.type \in {"string", "array"} /\ (8 * val.size) % width # 0

(* Until something is lost, the values are those that lie in the field,    *)
(* and the reader stands behind them.                                      *)
IsReadTo(width, s, n) ==
  /\ n = 0 \/ values[n].type # "flush" => ReaderAt(s.reader, EndOf(width, values, n))
  /\ n # 0 /\ values[n].type # "flush" /\ ~Partial(width, values[n]) =>
        s.reader.bitsLeft = width - EndOf(width, values, n).bit
  /\ \A k \in 1 .. n : IsRead(width, s, k)
  /\ isMessage => ~s.reader.unmasked

(* The field has the values that were sent.                                *)
IsIntact(width) ==
  \A k \in 1 .. Len(values) : Lies(width, field, EndOf(width, values, k - 1), values[k], Original(k))

(* There are elements for every value.                                     *)
LEMMA ElementsForEach ==
  ASSUME NEW width \in Widths, IsReadable(width), NEW n \in 1 .. Len(values)
  PROVE  EndOf(width, values, n - 1).unit < Elements
  <1> DEFINE N == Len(values)
             End(k) == EndOf(width, values, k)
  <1>1. values \in Seq(ValuesOn(width)) /\ N \in Nat /\ n \in 1 .. N /\ N \in 1 .. N /\ N - 1 \in 0 .. N
        /\ N \in 0 .. N /\ n - 1 \in 0 .. N - 1 /\ n - 1 \in 0 .. N /\ Elements \in Int /\ End(N).unit <= Elements
    BY DEF IsReadable
  <1>2. values[N].type # "bits" /\ IsValue(width, values[N])
    BY <1>1 DEF IsReadable, ValuesOn
  <1>3. End(N - 1) \in Places(width) /\ End(N) \in Places(width) /\ End(n - 1) \in Places(width)
        /\ End(N) = EndOfValue(width, End(N - 1), values[N])
    BY <1>1, EndOfEach
  <1>4. End(N - 1).unit < End(N).unit
    BY <1>2, <1>3, EndOfValueFacts
  <1>5. Upto(End(n - 1), End(N - 1))
    BY <1>1, EndsInOrder
  <1>6. End(n - 1).unit <= End(N - 1).unit
    BY <1>3, <1>5, UptoIsOrder
  <1> HIDE DEF End
  <1>7. End(n - 1).unit \in Nat /\ End(N - 1).unit \in Nat /\ End(N).unit \in Nat
    BY <1>3 DEF Places
  <1> QED BY <1>1, <1>4, <1>6, <1>7 DEF End

(* The values before are still there.                                      *)
LEMMA ReadStays ==
  ASSUME NEW width \in Widths, width = w, NEW n \in 1 .. Len(values), IsReadable(width),
         NEW s, IsReadingState(width, s, n - 1), IsReadTo(width, s, n - 1), NEW k \in 1 .. n - 1
  PROVE  IsRead(width, ReadValue(s, n), k)
  <1>1. n \in Nat \ {0} /\ IsValue(width, values[n])
    BY DEF IsReadable, ValuesOn
  <1>2. ReadValue(s, n).got[k] = s.got[k] /\ (s.reader.unmasked => ReadValue(s, n).reader.unmasked)
    BY <1>1, ReadingGoesOn
  <1>3. IsRead(width, s, k)
    BY DEF IsReadTo
  <1> QED BY <1>2, <1>3 DEF IsRead

(* One value more.                                                         *)
LEMMA ReadsValue ==
  ASSUME NEW width \in Widths, width = w, NEW n \in 1 .. Len(values), IsReadable(width),
         NEW s, IsReadingState(width, s, n - 1), ~s.lost, IsReadTo(width, s, n - 1)
  PROVE  LET t == ReadValue(s, n)
         IN /\ t.lost \/ IsReadTo(width, t, n)
            /\ IsIntact(width) => ~t.lost \/ t.reader.unmasked
  <1> DEFINE t == ReadValue(s, n)
             val == values[n]
             a == EndOf(width, values, n - 1)
             e == EndOf(width, values, n)
             h == Behind(width, a, width)
             r == s.reader
             Goal == (t.lost \/ IsReadTo(width, t, n)) /\ (IsIntact(width) => ~t.lost \/ t.reader.unmasked)
  <1> SUFFICES Goal
    OBVIOUS
  <1>1. /\ BufferUnits \in Nat /\ IsBuffer(width, field) /\ values \in Seq(ValuesOn(width)) /\ Len(values) \in Nat
        /\ n \in Nat \ {0} /\ n - 1 \in 0 .. Len(values) /\ n \in 0 .. Len(values) /\ n - 1 \in Nat
        /\ (n - 1) + 1 = n /\ width \in Nat \ {0} /\ width \in 1 .. width /\ width \in 0 .. width
    BY DEF IsReadable, Widths
  <1>2. /\ IsValue(width, val) /\ val.type \in ValueTypes /\ val.size \in Nat /\ 8 * val.size \in Nat
        /\ val.type = "bits" => val.size \in 1 .. width
    BY <1>1 DEF ValuesOn, IsValue
  <1>3. /\ a \in Places(width) /\ e \in Places(width) /\ e = EndOfValue(width, a, val)
        /\ FitsAt(width, e) /\ FitsAt(width, a) /\ a.unit < Elements
    BY <1>1, EndOfEach, FitsEach, ElementsForEach DEF IsReadable
  <1>4. ReaderAt(r, a) /\ r.elements = Elements
        /\ (n # 1 /\ ~Partial(width, values[n - 1]) => r.bitsLeft = width - a.bit)
    <2>1. n - 1 = 0 \/ values[n - 1].type # "flush"
      <3>1. n # 1 => n - 1 \in 1 .. Len(values) /\ n - 1 # Len(values)
        BY <1>1
      <3> QED BY <1>1, <3>1 DEF IsReadable
    <2>2. n # 1 <=> n - 1 # 0
      BY <1>1
    <2> QED BY <2>1, <2>2 DEF IsReadTo, IsReadingState
  <1>5. \A k \in 1 .. n : k # n => IsRead(width, t, k)
    <2>1. \A k \in 1 .. n : k # n => k \in 1 .. n - 1
      BY <1>1
    <2> HIDE DEF t
    <2> QED BY <2>1, ReadStays DEF t
  <1>6. isMessage => ~r.unmasked
    BY DEF IsReadTo
  <1>7. s.got = [k \in 1 .. n - 1 |-> s.got[k]]
    BY DEF IsReadingState
  <1>8. \A v : Append(s.got, v)[n] = v
    BY <1>1, <1>7, AppendAny
  <1>9. ASSUME NEW q, NEW v, t.reader = q, t.got = Append(s.got, v), t.lost = FALSE,
               ReaderAt(q, e), Partial(width, val) \/ q.bitsLeft = width - e.bit,
               Lies(width, field, a, val, v), q.unmasked \/ Shaped(width, val, v),
               isMessage => ~q.unmasked
        PROVE  Goal
    <2>1. t.got[n] = v
      BY <1>8, <1>9
    <2> HIDE DEF t, a, e
    <2>2. IsRead(width, t, n)
      BY <1>9, <2>1 DEF IsRead, a
    <2>3. \A k \in 1 .. n : IsRead(width, t, k)
      BY <1>5, <2>2
    <2>4. IsReadTo(width, t, n)
      BY <1>9, <2>3 DEF IsReadTo, e
    <2> QED BY <1>9, <2>4
  <1>10. CASE val.type = "finish"
    <2> DEFINE x == ReadNext(width, field, r, r.bitsLeft)
               m == width - a.bit
    <2>1. n # 1 /\ ~Partial(width, values[n - 1])
      <3>1. n > 1
        BY <1>1, <1>10 DEF IsReadable
      <3>2. n - 1 \in 1 .. Len(values) - 1
        BY <1>1, <3>1
      <3> QED BY <1>1, <1>10, <3>1, <3>2 DEF IsReadable, FinishAfterBytes, Partial
    <2>2. r.bitsLeft = m /\ m \in 1 .. width /\ m \in 0 .. width /\ a.bit + m = width /\ a.unit \in Nat
      <3>1. a.bit \in 0 .. width - 1 /\ a.unit \in Nat
        BY <1>3 DEF Places
      <3> QED BY <1>1, <1>4, <2>1, <3>1
    <2>3. Behind(width, a, m) = e
      <3> HIDE DEF m, a, e
      <3>1. Behind(width, a, m) = IF a.bit + m < width THEN Place(a.unit, a.bit + m)
                                  ELSE Place(a.unit + 1, (a.bit + m) - width)
        BY <1>3, <2>2, BehindFacts
      <3>2. e = Place(a.unit + 1, 0)
        BY <1>2, <1>3, <1>10, EndOfValueFacts
      <3> QED BY <1>1, <2>2, <3>1, <3>2
    <2>4. /\ ReaderAt(x.reader, e) /\ x.reader.bitsLeft = width - e.bit
          /\ x.reader.unmasked => r.unmasked \/ (m # width /\ a.bit + m = width + 1)
      <3> HIDE DEF m, a, e, r
      <3> QED BY <1>1, <1>3, <1>4, <2>2, <2>3, ReadNextFacts
    <2>5. isMessage => ~x.reader.unmasked
      <3> HIDE DEF m, x
      <3> QED BY <1>1, <1>6, <2>2, <2>4
    <2>6. t.reader = x.reader /\ t.got = Append(s.got, Lost) /\ t.lost = (s.lost \/ x.reader.threw)
      BY <1>10 DEF ReadValue, Finish
    <2>7. t.lost = FALSE
      BY <2>4, <2>6 DEF ReaderAt
    <2>8. Lies(width, field, a, val, Lost) /\ Shaped(width, val, Lost)
      BY <1>10 DEF Lies, Shaped, Lost
    <2> HIDE DEF t, x, e, Goal
    <2> QED BY <1>9, <2>4, <2>5, <2>6, <2>7, <2>8
  <1>11. CASE val.type = "flush"
    <2>1. t.reader = r /\ t.got = Append(s.got, Lost) /\ t.lost = (s.lost \/ r.threw)
      BY <1>11 DEF ReadValue
    <2>2. t.lost = FALSE
      BY <1>4, <2>1 DEF ReaderAt
    <2>3. Lies(width, field, a, val, Lost) /\ Shaped(width, val, Lost)
      BY <1>11 DEF Lies, Shaped, Lost
    <2> HIDE DEF t
    <2>4. IsRead(width, t, n)
      BY <1>8, <2>1, <2>3 DEF IsRead
    <2>5. \A k \in 1 .. n : IsRead(width, t, k)
      BY <1>5, <2>4
    <2>6. IsReadTo(width, t, n)
      BY <1>1, <1>6, <1>11, <2>1, <2>5 DEF IsReadTo
    <2> QED BY <2>2, <2>6
  <1>12. CASE val.type = "bits"
    <2> DEFINE x == ReadNext(width, field, r, val.size)
               v == [length |-> Empty(width), value |-> x.value]
    <2>1. e = Behind(width, a, val.size) /\ val.size \in 1 .. width
      BY <1>2, <1>3, <1>12, EndOfValueFacts
    <2>2. /\ ReaderAt(x.reader, e) /\ x.reader.bitsLeft = width - e.bit
          /\ \A j \in 0 .. val.size - 1 : x.value[j] = At(field, Behind(width, a, j))
          /\ x.reader.unmasked \/ Clean(width, x.value, val.size)
          /\ x.reader.unmasked => r.unmasked \/ (val.size # width /\ a.bit + val.size = width + 1)
      <3> HIDE DEF a, e, r, val
      <3> QED BY <1>1, <1>3, <1>4, <2>1, ReadNextFacts
    <2>3. isMessage => ~x.reader.unmasked
      <3>1. isMessage /\ val.size # width => a.bit + val.size # width + 1
        BY <1>12 DEF IsReadable
      <3> HIDE DEF x, a, r
      <3> QED BY <1>6, <2>2, <3>1
    <2>4. Lies(width, field, a, val, v) /\ (x.reader.unmasked \/ Shaped(width, val, v))
      <3>1. v.value = x.value /\ v = [length |-> Empty(width), value |-> v.value]
        OBVIOUS
      <3> HIDE DEF v, x
      <3> QED BY <1>12, <2>2, <3>1 DEF Lies, Shaped
    <2>5. /\ t.reader = x.reader /\ t.got = Append(s.got, v)
          /\ t.lost = ((s.lost \/ x.reader.threw) \/ (isMessage /\ n = 8 /\ x.value # Original(8).value))
      BY <1>12 DEF ReadValue
    <2>6. IsIntact(width) /\ ~x.reader.unmasked => x.value = Original(n).value
      <3>1. SUFFICES ASSUME IsIntact(width), ~x.reader.unmasked PROVE x.value = Original(n).value
        OBVIOUS
      <3>2. Lies(width, field, a, val, Original(n)) /\ Shaped(width, val, Original(n))
        BY <1>2, <3>1, OriginalIsShaped DEF IsIntact
      <3>3. v = Original(n)
        <4> HIDE DEF v, a, val, x
        <4> QED BY <1>2, <2>4, <3>1, <3>2, Determined
      <3> QED BY <3>3
    <2>7. x.reader.threw = FALSE
      BY <2>2 DEF ReaderAt
    <2> HIDE DEF t, x, v, e
    <2>8. CASE t.lost
      <3>1. n = 8 /\ x.value # Original(8).value
        BY <2>5, <2>7, <2>8
      <3> QED BY <2>5, <2>6, <2>8, <3>1
    <2>9. CASE ~t.lost
      <3>1. t.lost = FALSE
        BY <2>5, <2>9
      <3> HIDE DEF Goal
      <3>2. Goal
        BY <1>9, <2>2, <2>3, <2>4, <2>5, <3>1
      <3> QED BY <3>2 DEF Goal
    <2> QED BY <2>8, <2>9
  <1>13. CASE val.type \in {"string", "array"}
    <2> DEFINE x == ReadNext(width, field, r, width)
               y == FetchBytes(width, field, x.reader, 8 * val.size)
               v == [length |-> x.value, value |-> y.value]
               q == IF val.type = "string" /\ val.size = 0 THEN x.reader ELSE y.reader
    <2>1. h \in Places(width) /\ Upto(h, e) /\ FitsAt(width, h)
      <3>1. h \in Places(width) /\ Upto(h, e)
        BY SMTT(30), <1>1, <1>2, <1>3, <1>13, BehindFacts, EndOfValueFacts
      <3> HIDE DEF h, e
      <3> QED BY <1>1, <1>3, <3>1, FitsBefore
    <2>2. /\ ReaderAt(x.reader, h) /\ x.reader.bitsLeft = width - h.bit
          /\ IsUnit(width, x.value) /\ \A j \in 0 .. width - 1 : x.value[j] = At(field, Behind(width, a, j))
          /\ x.reader.unmasked => r.unmasked
      <3>1. FitsAt(width, Behind(width, a, width))
        BY <2>1
      <3> HIDE DEF a, e, r, val
      <3> QED BY <1>1, <1>3, <1>4, <3>1, ReadNextFacts DEF h
    <2>3. CASE x.value # Original(n).length
      <3>1. t.lost = TRUE /\ t.reader = x.reader
        BY <1>13, <2>3 DEF ReadValue
      <3>2. ~IsIntact(width)
        <4>1. SUFFICES ASSUME IsIntact(width) PROVE FALSE
          OBVIOUS
        <4>2. Lies(width, field, a, val, Original(n)) /\ Shaped(width, val, Original(n))
          BY <1>2, <4>1, OriginalIsShaped DEF IsIntact
        <4>3. IsUnit(width, Original(n).length)
          BY <1>13, <4>2 DEF Shaped
        <4>4. \A j \in 0 .. width - 1 : Original(n).length[j] = At(field, Behind(width, a, j))
          BY <1>13, <4>2 DEF Lies
        <4>5. x.value = Original(n).length
          <5> HIDE DEF x
          <5> QED BY <2>2, <4>3, <4>4 DEF IsUnit
        <4> QED BY <2>3, <4>5
      <3> HIDE DEF t
      <3> QED BY <3>1, <3>2
    <2>4. CASE ~ (x.value # Original(n).length)
      <3>1. t.reader = q /\ t.got = Append(s.got, v) /\ t.lost = (s.lost \/ q.threw)
        BY <1>13, <2>4 DEF ReadValue
      <3>2. /\ ReaderAt(q, e) /\ (Partial(width, val) \/ q.bitsLeft = width - e.bit)
            /\ q.unmasked => r.unmasked
            /\ \A j \in 0 .. 8 * val.size - 1 : y.value[j] = At(field, ByteBit(width, a, j))
            /\ y.value = [b \in 0 .. 8 * val.size - 1 |-> y.value[b]]
        <4>1. y.value = [b \in 0 .. 8 * val.size - 1 |-> y.value[b]]
          BY DEF FetchBytes
        <4>2. CASE val.type = "string" /\ val.size = 0
          <5>1. q = x.reader /\ e = h /\ \A j \in 0 .. 8 * val.size - 1 : FALSE
            BY <1>3, <4>2 DEF EndOfValue
          <5> HIDE DEF q, x, y, h, e
          <5> QED BY <2>2, <4>1, <5>1
        <4>3. CASE ~ (val.type = "string" /\ val.size = 0)
          <5> DEFINE b == BytesAt(width, a)
          <5>1. q = y.reader /\ e = Place(b.unit + (8 * val.size) \div width, (8 * val.size) % width)
            BY <1>3, <1>13, <4>3 DEF EndOfValue
          <5>2. b = IF h.bit = 0 THEN h ELSE NextUnit(h)
            BY DEF BytesAt
          <5> HIDE DEF b, q, x, h, e
          <5>3. /\ ReaderAt(y.reader, e) /\ y.reader.unmasked = x.reader.unmasked
                /\ y.reader.bitsLeft = (IF (8 * val.size) % width = 0 THEN width ELSE (8 * val.size) % width)
                /\ y.value = [c \in 0 .. 8 * val.size - 1 |-> field[b.unit + c \div width][c % width]]
            <6>1. PICK size \in Nat : size = 8 * val.size
              BY <1>2
            <6>2. ReaderAt(x.reader, h) /\ x.reader.bitsLeft = width - h.bit /\ h \in Places(width)
                  /\ e = Place(b.unit + size \div width, size % width) /\ FitsAt(width, e)
                  /\ b = (IF h.bit = 0 THEN h ELSE NextUnit(h)) /\ BufferUnits \in Nat
              BY <1>1, <1>3, <2>1, <2>2, <5>1, <5>2, <6>1
            <6>3. LET z == FetchBytes(width, field, x.reader, size)
                  IN /\ ReaderAt(z.reader, e) /\ z.reader.unmasked = x.reader.unmasked
                     /\ z.reader.bitsLeft = (IF size % width = 0 THEN width ELSE size % width)
                     /\ z.value = [c \in 0 .. size - 1 |-> field[b.unit + c \div width][c % width]]
              BY <6>2, FetchBytesFacts
            <6> QED BY <6>1, <6>3
          <5>4. Partial(width, val) \/ y.reader.bitsLeft = width - e.bit
            <6>1. e.bit = (8 * val.size) % width
              BY <5>1 DEF Place
            <6> QED BY <1>1, <1>13, <5>3, <6>1 DEF Partial
          <5>5. \A j \in 0 .. 8 * val.size - 1 : y.value[j] = At(field, ByteBit(width, a, j))
            BY <5>3 DEF ByteBit, At, Place, b
          <5> QED BY <2>2, <4>1, <5>1, <5>3, <5>4, <5>5
        <4> QED BY <4>2, <4>3
      <3> HIDE DEF q
      <3>3. t.lost = FALSE
        BY <3>1, <3>2 DEF ReaderAt
      <3>4. Lies(width, field, a, val, v) /\ Shaped(width, val, v)
        <4>1. v.length = x.value /\ v.value = y.value /\ v = [length |-> v.length, value |-> v.value]
          OBVIOUS
        <4> HIDE DEF v, x, y
        <4> QED BY <1>13, <2>2, <3>2, <4>1 DEF Lies, Shaped
      <3>5. isMessage => ~q.unmasked
        BY <1>6, <3>2
      <3> HIDE DEF t, v, e, Goal
      <3> QED BY <1>9, <3>1, <3>2, <3>3, <3>4, <3>5
    <2> HIDE DEF x, t
    <2> QED BY <2>3, <2>4
  <1> QED BY <1>2, <1>10, <1>11, <1>12, <1>13 DEF ValueTypes

(* Whatever the field holds: what is not lost is what lies in it, and what *)
(* was sent is not lost.                                                   *)
LEMMA ReadsAll ==
  ASSUME NEW width \in Widths, width = w, values \in Seq(ValuesOn(width)), Elements \in Int
  PROVE  LET s == ReadAll
         IN /\ IsReadingState(width, s, Len(values))
            /\ IsReadable(width) => /\ s.lost \/ IsReadTo(width, s, Len(values))
                                    /\ IsIntact(width) => ~s.lost \/ s.reader.unmasked
  <1> DEFINE N == Len(values)
             Done(s, n) == /\ IsReadingState(width, s, n)
                           /\ IsReadable(width) => /\ s.lost \/ IsReadTo(width, s, n)
                                                   /\ IsIntact(width) => ~s.lost \/ s.reader.unmasked
  <1>1. N \in Nat /\ \A n \in 1 .. N : IsValue(width, values[n])
    BY DEF ValuesOn
  <1>2. PICK r : IsReading(r) /\ ReadAll = r[N]
    BY <1>1, ReadingRuns
  <1>3. \A n \in 1 .. N : r[n] = ReadValue(r[n - 1], n)
    BY <1>2 DEF IsReading
  <1>4. Done(r[0], 0)
    <2> DEFINE s == r[0]
               q == Reader(Elements)
    <2>1. s = [reader |-> q, got |-> <<>>, lost |-> FALSE]
      BY <1>2 DEF IsReading
    <2>2. /\ DOMAIN q = ReaderFields /\ q.bitsRead = 0 /\ q.segments = 0 /\ q.overflowed = 0 /\ q.bitsLeft = 0
          /\ q.elements = Elements /\ q.threw = FALSE /\ q.unmasked = FALSE
      BY DEF Reader, ReaderFields
    <2>3. 0 \in 0 .. width - 1 /\ 0 \in 0 .. width
      BY DEF Widths
    <2> HIDE DEF q, s
    <2>4. DOMAIN s = {"reader", "got", "lost"} /\ s.lost = FALSE /\ s.reader = q /\ s.got = <<>>
      BY <2>1
    <2>5. ReaderOK(width, q)
      BY <2>2, <2>3 DEF ReaderOK
    <2>6. s.got = [k \in 1 .. 0 |-> s.got[k]]
      BY <2>4
    <2>7. IsReadingState(width, s, 0)
      BY <2>2, <2>4, <2>5, <2>6 DEF IsReadingState
    <2>8. ReaderAt(q, Place(0, 0)) /\ EndOf(width, values, 0) = Place(0, 0)
      <3>1. ReaderAt(q, Place(0, 0))
        BY <2>2 DEF ReaderAt, Place
      <3> QED BY <3>1, EndOfEach
    <2>9. IsReadTo(width, s, 0)
      BY <2>2, <2>4, <2>8 DEF IsReadTo
    <2> QED BY <2>4, <2>7, <2>9 DEF s
  <1>5. ASSUME NEW n \in 1 .. N, Done(r[n - 1], n - 1) PROVE Done(r[n], n)
    <2> DEFINE s == r[n - 1]
    <2>1. r[n] = ReadValue(s, n) /\ n \in Nat \ {0} /\ IsValue(width, values[n])
      BY <1>1, <1>3
    <2>2. IsReadingState(width, s, n - 1)
      BY <1>5
    <2> HIDE DEF s
    <2>3. IsReadingState(width, r[n], n) /\ (s.reader.unmasked => r[n].reader.unmasked)
      BY <2>1, <2>2, ReadingGoesOn
    <2>4. CASE s.lost
      <3>1. r[n].lost
        <4>1. s.lost = TRUE
          BY <2>2, <2>4 DEF IsReadingState
        <4>2. PICK b : r[n] = [reader |-> s.reader, got |-> Append(s.got, Lost), lost |-> b]
                       /\ b = (s.lost \/ s.reader.threw)
          BY <2>1, <2>4 DEF ReadValue
        <4>3. b = TRUE
          BY ONLY <4>1, <4>2, Zenon
        <4> QED BY <4>2, <4>3
      <3>2. IsReadable(width) /\ IsIntact(width) => s.reader.unmasked
        BY <1>5, <2>4 DEF s
      <3> QED BY <2>3, <3>1, <3>2
    <2>5. CASE ~s.lost
      <3>1. SUFFICES ASSUME IsReadable(width)
                     PROVE  /\ r[n].lost \/ IsReadTo(width, r[n], n)
                            /\ IsIntact(width) => ~r[n].lost \/ r[n].reader.unmasked
        BY <2>3
      <3>2. IsReadTo(width, s, n - 1)
        BY <1>5, <2>5, <3>1 DEF s
      <3> QED BY <2>1, <2>2, <2>5, <3>1, <3>2, ReadsValue
    <2> QED BY <2>4, <2>5
  <1> DEFINE Undone == {n \in 0 .. N : ~ Done(r[n], n)}
  <1> HIDE DEF Done
  <1>6. ASSUME NEW n \in Undone PROVE \E k \in Undone : k < n
    <2>1. n \in 0 .. N /\ ~ Done(r[n], n)
      OBVIOUS
    <2>2. n # 0
      BY <1>4, <2>1
    <2>3. n \in 1 .. N /\ n - 1 \in 0 .. N /\ n - 1 < n
      BY <1>1, <2>1, <2>2
    <2>4. ~ Done(r[n - 1], n - 1)
      BY <1>5, <2>1, <2>3
    <2> QED BY <2>3, <2>4
  <1>7. Undone = {}
    <2>1. Undone \in SUBSET Nat
      BY <1>1
    <2> HIDE DEF Undone
    <2> QED BY <1>6, <2>1, NoDescent
  <1>8. N \in 0 .. N
    BY <1>1
  <1> QED BY <1>2, <1>7, <1>8 DEF Done

-----------------------------------------------------------------------------
(* What is sent.                                                           *)

LEMMA LayoutFacts ==
  ASSUME layout \in Layouts
  PROVE  /\ w \in Widths /\ BufferUnits \in Nat /\ layout.extra \in Nat /\ layout.maxFlips \in Nat
         /\ values \in Seq(ValuesOn(w)) /\ Len(values) \in Nat \ {0} /\ DOMAIN values = 1 .. Len(values)
         /\ Fits(w, values)
         /\ \A k \in 1 .. Len(values) :
               /\ IsValue(w, values[k])
               /\ values[k].type = "bits" => k < Len(values)
               /\ values[k].type \in {"finish", "flush"} => k > 1
               /\ values[k].type = "flush" => k = Len(values)
         /\ layout.lengths \in Seq(Nat)
         /\ isMessage => w = 32 /\ values = MessageValues(layout.lengths)
  <1> DEFINE T == [type : ValueTypes, size : Nat]
  <1>1. /\ layout.w \in {8, 16, 32} /\ {layout.extra, layout.maxFlips} \subseteq Nat
        /\ layout.values \in Seq(T) /\ layout.values # <<>>
        /\ \A i \in DOMAIN layout.values :
              /\ layout.values[i].type = "bits" => layout.values[i].size \in 1 .. layout.w
                                                   /\ i < Len(layout.values)
              /\ layout.values[i].type \in {"finish", "flush"} => i > 1
              /\ layout.values[i].type = "flush" => i = Len(layout.values)
        /\ layout.lengths \in Seq(Nat)
        /\ layout.lengths # <<>> => layout.w = 32 /\ layout.values = MessageValues(layout.lengths)
        /\ Fits(layout.w, layout.values) /\ BufferUnits \in Nat
    BY WireAssumption
  <1>2. values = layout.values /\ w = layout.w
    BY DEF values, w
  <1>3. Len(values) \in Nat /\ DOMAIN values = 1 .. Len(values) /\ \A k \in 1 .. Len(values) : values[k] \in T
    <2> HIDE DEF T
    <2> QED BY <1>1, <1>2
  <1>4. Len(values) # 0
    <2> HIDE DEF T
    <2> QED BY <1>1, <1>2, EmptySeq
  <1>5. \A k \in 1 .. Len(values) : IsValue(w, values[k]) /\ values[k] \in ValuesOn(w)
    BY <1>1, <1>2, <1>3 DEF IsValue, ValuesOn
  <1>6. values \in Seq(ValuesOn(w))
    <2>1. values \in [1 .. Len(values) -> ValuesOn(w)]
      <3>1. values = [k \in 1 .. Len(values) |-> values[k]]
        <4>1. \A s \in Seq(T) : s = [k \in 1 .. Len(s) |-> s[k]]
          <5> HIDE DEF T
          <5> QED OBVIOUS
        <4>2. values \in Seq(T)
          BY <1>1, <1>2
        <4> HIDE DEF T
        <4> QED BY ONLY <4>1, <4>2
      <3> QED BY <1>5, <3>1
    <2> QED BY <1>3, <2>1
  <1> QED BY <1>1, <1>2, <1>3, <1>4, <1>5, <1>6 DEF Widths, isMessage

LEMMA OriginalsFacts ==
  ASSUME layout \in Layouts
  PROVE  /\ Originals = [k \in 1 .. Len(values) |-> Original(k)]
         /\ \A k \in 1 .. Len(values) : Originals[k] = Original(k) /\ Shaped(w, values[k], Originals[k])
         /\ Len(All) = Len(values) /\ All \in Seq(1 .. Len(values)) /\ \A k \in 1 .. Len(values) : All[k] = k
  <1>1. DOMAIN values = 1 .. Len(values) /\ Len(values) \in Nat /\ w \in Widths
        /\ \A k \in 1 .. Len(values) : IsValue(w, values[k])
    BY LayoutFacts
  <1>2. Originals = [k \in 1 .. Len(values) |-> Original(k)]
    BY <1>1 DEF Originals
  <1>3. All \in [1 .. Len(values) -> 1 .. Len(values)] /\ \A k \in 1 .. Len(values) : All[k] = k
    BY <1>1 DEF All
  <1>4. All \in Seq(1 .. Len(values)) /\ Len(All) = Len(values)
    BY <1>1, <1>3
  <1>5. \A k \in 1 .. Len(values) : Shaped(w, values[k], Original(k))
    BY <1>1, OriginalIsShaped
  <1> QED BY <1>2, <1>3, <1>4, <1>5

LEMMA SameBack ==
  ASSUME NEW width, NEW f, NEW g, NEW a, Same(width, f, g, a)
  PROVE  Same(width, g, f, a)
  BY DEF Same

(* What is packed lies in the destination, when its end was written.       *)
LEMMA PackedLies ==
  ASSUME NEW width \in Widths, NEW p, NEW chosen, NEW vals \in Seq(ValuesOn(width)), NEW vs,
         IsPackedTo(width, p, chosen, vals, vs, Len(vals)), Len(vals) # 0, vals[Len(vals)].type # "bits",
         NEW k \in 1 .. Len(vals)
  PROVE  Lies(width, p.dest, EndOf(width, vals, k - 1), vals[k], vs[chosen[k]])
  <1> DEFINE N == Len(vals)
             End(n) == EndOf(width, vals, n)
  <1>1. N \in Nat /\ N \in 0 .. N /\ k - 1 \in 0 .. N /\ k \in 0 .. N /\ k \in 1 .. N /\ IsValue(width, vals[k])
    BY DEF ValuesOn
  <1>2. Same(width, p.dest, Packed(p), End(N)) /\ Lies(width, Packed(p), End(k - 1), vals[k], vs[chosen[k]])
    BY DEF IsPackedTo
  <1>3. End(k - 1) \in Places(width) /\ End(N) \in Places(width) /\ End(k) = EndOfValue(width, End(k - 1), vals[k])
        /\ Upto(End(k), End(N))
    BY <1>1, EndOfEach, EndsInOrder
  <1>4. Same(width, Packed(p), p.dest, End(N))
    BY <1>2, SameBack
  <1> HIDE DEF End
  <1>5. Lies(width, p.dest, End(k - 1), vals[k], vs[chosen[k]])
    BY <1>1, <1>2, <1>3, <1>4, LiesOn
  <1> QED BY <1>5 DEF End

(* Send packs all values, and sends the bytes that hold them.              *)
LEMMA SendPacks ==
  ASSUME layout \in Layouts, NEW p, p = PackAll(OldBuffer, All, Originals),
         NEW f, f = [u \in 0 .. BufferUnits - 1 |-> [b \in 0 .. w - 1 |->
                       IF u * w + b < 8 * TotalBytesPacked(p) THEN p.dest[u][b] ELSE Garbage]]
  PROVE  /\ Standing(w, p, EndOf(w, values, Len(values)), w - EndOf(w, values, Len(values)).bit)
         /\ IsBuffer(w, f)
         /\ \A k \in 1 .. Len(values) : Lies(w, f, EndOf(w, values, k - 1), values[k], Original(k))
  <1> DEFINE N == Len(values)
             End(n) == EndOf(w, values, n)
  <1>1. /\ w \in Widths /\ BufferUnits \in Nat /\ values \in Seq(ValuesOn(w)) /\ N \in Nat \ {0} /\ Fits(w, values)
        /\ N \in 1 .. N /\ N \in 0 .. N /\ w \in Nat \ {0}
        /\ \A k \in 1 .. N : /\ IsValue(w, values[k])
                             /\ values[k].type = "bits" => k < N
                             /\ values[k].type \in {"finish", "flush"} => k > 1
    <2>1. /\ w \in Widths /\ BufferUnits \in Nat /\ values \in Seq(ValuesOn(w)) /\ N \in Nat \ {0} /\ Fits(w, values)
          /\ \A k \in 1 .. N : /\ IsValue(w, values[k])
                               /\ values[k].type = "bits" => k < N
                               /\ values[k].type \in {"finish", "flush"} => k > 1
      BY LayoutFacts
    <2>2. w \in Nat \ {0}
      BY <2>1 DEF Widths
    <2> HIDE DEF N
    <2>3. N \in 1 .. N /\ N \in 0 .. N
      BY <2>1
    <2> QED BY <2>1, <2>2, <2>3
  <1>2. IsBuffer(w, OldBuffer)
    BY DEF IsBuffer, IsUnit, OldBuffer
  <1>3. IsPackable(w, OldBuffer, All, values, Originals)
    BY <1>1, <1>2, OriginalsFacts DEF IsPackable
  <1>4. IsPackedTo(w, p, All, values, Originals, N)
    <2> HIDE DEF N
    <2> QED BY <1>1, <1>3, PacksAll DEF N
  <1>5. Standing(w, p, End(N), w - End(N).bit) /\ End(N) \in Places(w)
    BY <1>1, <1>4, EndOfEach DEF IsPackedTo
  <1>6. values[N].type # "bits"
    <2> HIDE DEF N
    <2>1. \A k \in 1 .. N : values[k].type = "bits" => k < N
      BY <1>1
    <2>2. N \in 1 .. N /\ ~(N < N)
      BY <1>1
    <2> QED BY ONLY <2>1, <2>2
  <1>7. ASSUME NEW k \in 1 .. N PROVE Lies(w, p.dest, End(k - 1), values[k], Original(k))
    <2>1. Lies(w, p.dest, End(k - 1), values[k], Originals[All[k]])
      BY <1>1, <1>4, <1>6, PackedLies
    <2> QED BY <2>1, OriginalsFacts
  <1>8. IsBuffer(w, f)
    BY DEF IsBuffer, IsUnit
  <1>9. Same(w, p.dest, f, End(N))
    <2>1. ASSUME NEW u \in 0 .. End(N).unit, NEW b \in 0 .. w - 1, Before(Place(u, b), End(N))
          PROVE  p.dest[u][b] = f[u][b]
      <3>1. End(N).unit \in Nat /\ End(N).unit < BufferUnits
        BY <1>1, <1>5, FitsEach DEF Places, FitsAt
      <3>2. u \in Nat /\ u \in 0 .. BufferUnits - 1 /\ Place(u, b) \in Places(w)
        <4>1. u \in Nat /\ u \in 0 .. BufferUnits - 1
          BY <1>1, <3>1
        <4> QED BY <1>1, <4>1, PlaceFacts
      <3>3. BitNumber(w, Place(u, b)) < BitNumber(w, End(N))
        BY <1>1, <1>5, <2>1, <3>2, UptoIsOrder
      <3>4. BitNumber(w, Place(u, b)) = u * w + b
        BY DEF BitNumber, Place
      <3>5. p.packed = BitNumber(w, End(N)) /\ BitNumber(w, End(N)) \in Int
        <4>1. End(N).unit \in Int /\ End(N).bit \in 0 .. w - 1
          BY <1>5, <3>1 DEF Places
        <4>2. BitNumber(w, End(N)) \in Int
          BY <1>1, <4>1, PlaceNumbers DEF BitNumber
        <4> QED BY <1>5, <4>2 DEF Standing
      <3>6. u * w + b \in Int
        BY <1>1, <3>2, PlaceNumbers
      <3>7. u * w + b < 8 * TotalBytesPacked(p)
        BY <3>3, <3>4, <3>5, <3>6 DEF TotalBytesPacked
      <3> QED BY <3>2, <3>7
    <2> QED BY <2>1 DEF Same
  <1>10. ASSUME NEW k \in 1 .. N PROVE Lies(w, f, End(k - 1), values[k], Original(k))
    <2>1. k \in 0 .. N /\ k - 1 \in 0 .. N
      BY <1>1
    <2>2. Upto(End(k), End(N)) /\ End(k - 1) \in Places(w) /\ End(k) = EndOfValue(w, End(k - 1), values[k])
      BY <1>1, <2>1, EndOfEach, EndsInOrder
    <2> HIDE DEF End, N
    <2> QED BY <1>1, <1>5, <1>7, <1>9, <2>2, LiesOn
  <1> QED BY <1>5, <1>8, <1>10

LEMMA ElementsEnough ==
  ASSUME layout \in Layouts, NEW left, Standing(w, packer, EndOf(w, values, Len(values)), left)
  PROVE  Elements \in Int /\ EndOf(w, values, Len(values)).unit <= Elements
  <1> DEFINE e == EndOf(w, values, Len(values))
  <1>1. w \in Widths /\ layout.extra \in Nat /\ e \in Places(w)
    <2>1. w \in Widths /\ layout.extra \in Nat /\ values \in Seq(ValuesOn(w)) /\ Len(values) \in Nat \ {0}
      BY LayoutFacts
    <2>2. Len(values) \in 0 .. Len(values)
      BY <2>1
    <2> QED BY <2>1, <2>2, EndOfEach
  <1>2. e.unit \in Nat /\ e.bit \in Nat
    BY <1>1 DEF Places
  <1>3. packer.packed = e.unit * w + e.bit
    BY DEF Standing, BitNumber
  <1>4. Elements = ((((packer.packed + 7) \div 8) + layout.extra) * 8) \div w
    BY DEF Elements, TotalBytesPacked
  <1> HIDE DEF e
  <1>5. PICK u \in Nat, b \in Nat, x \in Nat : u = e.unit /\ b = e.bit /\ x = layout.extra
    BY <1>1, <1>2
  <1>6. CASE w = 8
    <2>1. ((u * 8 + b) + 7) \div 8 \in Int /\ ((u * 8 + b) + 7) \div 8 >= u
      OBVIOUS
    <2>2. PICK y \in Int : y = (((u * 8 + b) + 7) \div 8) + x /\ y >= u
      BY <2>1
    <2>3. (y * 8) \div 8 \in Int /\ u <= (y * 8) \div 8
      BY <2>2
    <2>4. Elements = (y * 8) \div 8
      BY <1>3, <1>4, <1>5, <1>6, <2>2
    <2> QED BY <1>5, <2>3, <2>4 DEF e
  <1>7. CASE w = 16
    <2>1. ((u * 16 + b) + 7) \div 8 \in Int /\ ((u * 16 + b) + 7) \div 8 >= 2 * u
      OBVIOUS
    <2>2. PICK y \in Int : y = (((u * 16 + b) + 7) \div 8) + x /\ y >= 2 * u
      BY <2>1
    <2>3. (y * 8) \div 16 \in Int /\ u <= (y * 8) \div 16
      BY <2>2
    <2>4. Elements = (y * 8) \div 16
      BY <1>3, <1>4, <1>5, <1>7, <2>2
    <2> QED BY <1>5, <2>3, <2>4 DEF e
  <1>8. CASE w = 32
    <2>1. ((u * 32 + b) + 7) \div 8 \in Int /\ ((u * 32 + b) + 7) \div 8 >= 4 * u
      OBVIOUS
    <2>2. PICK y \in Int : y = (((u * 32 + b) + 7) \div 8) + x /\ y >= 4 * u
      BY <2>1
    <2>3. (y * 8) \div 32 \in Int /\ u <= (y * 8) \div 32
      BY <2>2
    <2>4. Elements = (y * 8) \div 32
      BY <1>3, <1>4, <1>5, <1>8, <2>2
    <2> QED BY <1>5, <2>3, <2>4 DEF e
  <1> QED BY <1>1, <1>6, <1>7, <1>8 DEF Widths

-----------------------------------------------------------------------------
(* Messages.                                                               *)

(* The values of a message: the header's, the number of packets, and two   *)
(* bits, a length and a string for each of them.                           *)
IsMessageValue(v, k) ==
  /\ k \in 1 .. 8 /\ k # 7 => v.type = "bits" /\ v.size \in {2, 16, 32}
  /\ k = 6 => v = BitsValue(32)
  /\ k = 7 => v = FinishValue
  /\ k > 8 /\ k % 4 \in {1, 2} => v = BitsValue(1)
  /\ k > 8 /\ k % 4 = 3 => v = BitsValue(16)
  /\ k > 8 /\ k % 4 = 0 => v.type = "string" /\ v.size \in Nat

LEMMA MessageShape ==
  ASSUME NEW lengths \in Seq(Nat)
  PROVE  LET vs == MessageValues(lengths)
         IN Len(vs) = 8 + 4 * Len(lengths) /\ \A k \in 1 .. Len(vs) : IsMessageValue(vs[k], k)
  <1> DEFINE V == [type : ValueTypes, size : Nat]
             datum(k) == PacketDatumValues(lengths[(k + 3) \div 4])[((k - 1) % 4) + 1]
             rest == [k \in 1 .. 4 * Len(lengths) |-> datum(k)]
             head == HeaderValues \o <<BitsValue(16)>>
  <1>1. Len(lengths) \in Nat /\ \A j \in 1 .. Len(lengths) : lengths[j] \in Nat
    OBVIOUS
  <1>2. \A k \in 1 .. 4 * Len(lengths) :
           /\ (k + 3) \div 4 \in 1 .. Len(lengths) /\ (k - 1) % 4 \in 0 .. 3
           /\ (k + 8) % 4 = IF (k - 1) % 4 = 3 THEN 0 ELSE ((k - 1) % 4) + 1
    BY <1>1
  <1>3. \A n \in Nat : LET d == PacketDatumValues(n)
                       IN d[1] = BitsValue(1) /\ d[2] = BitsValue(1) /\ d[3] = BitsValue(16) /\ d[4] = StringValue(n)
    BY DEF PacketDatumValues
  <1>4. \A n \in Nat : BitsValue(n) \in V /\ StringValue(n) \in V /\ FinishValue \in V
    BY DEF BitsValue, StringValue, FinishValue, ValueTypes
  <1>5. ASSUME NEW k \in 1 .. 4 * Len(lengths)
        PROVE  datum(k) \in V /\ IsMessageValue(datum(k), k + 8)
    <2> DEFINE j == (k - 1) % 4
               n == lengths[(k + 3) \div 4]
    <2>1. n \in Nat /\ j \in 0 .. 3 /\ (k + 8) % 4 = (IF j = 3 THEN 0 ELSE j + 1) /\ k + 8 > 8
      BY <1>1, <1>2
    <2>2. datum(k) = PacketDatumValues(n)[j + 1]
      OBVIOUS
    <2> HIDE DEF j, n, V, datum
    <2>3. PICK m \in Nat, x \in 0 .. 3 : m = k + 8 /\ x = m % 4 /\ x = (IF j = 3 THEN 0 ELSE j + 1) /\ m > 8
      BY <2>1
    <2>4. m \notin 1 .. 8 /\ m # 6 /\ m # 7
      BY <2>3
    <2>5. CASE j \in {0, 1}
      <3>1. datum(k) = BitsValue(1)
        BY <1>3, <2>1, <2>2, <2>5
      <3>2. x \in {1, 2} /\ x # 3 /\ x # 0
        BY <2>5, <2>3
      <3> QED BY <1>4, <2>3, <2>4, <3>1, <3>2 DEF IsMessageValue
    <2>6. CASE j = 2
      <3>1. datum(k) = BitsValue(16)
        BY <1>3, <2>1, <2>2, <2>6
      <3>2. x \notin {1, 2} /\ x = 3 /\ x # 0
        BY <2>6, <2>3
      <3> QED BY <1>4, <2>3, <2>4, <3>1, <3>2 DEF IsMessageValue
    <2>7. CASE j = 3
      <3>1. datum(k) = StringValue(n)
        BY <1>3, <2>1, <2>2, <2>7
      <3>2. x \notin {1, 2} /\ x # 3 /\ x = 0
        BY <2>7, <2>3
      <3>3. datum(k).type = "string" /\ datum(k).size \in Nat /\ datum(k) \in V
        BY <1>4, <2>1, <3>1 DEF StringValue
      <3> QED BY <2>3, <2>4, <3>2, <3>3 DEF IsMessageValue
    <2> QED BY <2>1, <2>5, <2>6, <2>7
  <1> HIDE DEF datum, V
  <1>6. rest \in Seq(V) /\ Len(rest) = 4 * Len(lengths) /\ \A k \in 1 .. 4 * Len(lengths) : rest[k] = datum(k)
    BY <1>1, <1>5
  <1>7. /\ head \in Seq(V) /\ Len(head) = 8
        /\ \A k \in 1 .. 8 : IsMessageValue(head[k], k)
    <2>1. HeaderValues \in Seq(V) /\ Len(HeaderValues) = 7 /\ <<BitsValue(16)>> \in Seq(V)
          /\ Len(<<BitsValue(16)>>) = 1 /\ <<BitsValue(16)>>[1] = BitsValue(16)
      BY <1>4 DEF HeaderValues
    <2>2. /\ head \in Seq(V) /\ Len(head) = 8
          /\ \A k \in 1 .. 8 : head[k] = IF k <= 7 THEN HeaderValues[k] ELSE BitsValue(16)
      <3> DEFINE f == HeaderValues
                 g == <<BitsValue(16)>>
      <3>1. f \in Seq(V) /\ Len(f) = 7 /\ g \in Seq(V) /\ Len(g) = 1 /\ head = f \o g
        BY <2>1
      <3> HIDE DEF f, g, head
      <3>2. /\ f \o g \in Seq(V) /\ Len(f \o g) = Len(f) + Len(g)
            /\ \A k \in 1 .. Len(f) + Len(g) : (f \o g)[k] = IF k <= Len(f) THEN f[k] ELSE g[k - Len(f)]
        BY <3>1, ConcatProperties
      <3>3. /\ head \in Seq(V) /\ Len(head) = 7 + 1
            /\ \A k \in 1 .. 7 + 1 : head[k] = IF k <= 7 THEN HeaderValues[k] ELSE <<BitsValue(16)>>[k - 7]
        BY <3>1, <3>2 DEF f, g
      <3>4. \A k \in 1 .. 8 : k \in 1 .. 7 + 1 /\ (k <= 7 \/ k - 7 = 1)
        OBVIOUS
      <3> QED BY <2>1, <3>3, <3>4
    <2>3. \A k \in 1 .. 7 : IsMessageValue(HeaderValues[k], k)
      BY DEF HeaderValues, IsMessageValue, BitsValue
    <2>4. IsMessageValue(BitsValue(16), 8)
      BY DEF IsMessageValue, BitsValue
    <2> HIDE DEF head
    <2>5. \A k \in 1 .. 8 : k \in 1 .. 7 \/ k = 8
      OBVIOUS
    <2> QED BY <2>2, <2>3, <2>4, <2>5
  <1> HIDE DEF head, rest
  <1>8. /\ Len(head \o rest) = 8 + 4 * Len(lengths)
        /\ \A k \in 1 .. 8 + 4 * Len(lengths) : (head \o rest)[k] = IF k <= 8 THEN head[k] ELSE rest[k - 8]
    <2>1. PICK m \in Nat : m = 4 * Len(lengths)
      BY <1>1
    <2>2. head \in Seq(V) /\ rest \in Seq(V) /\ Len(head) = 8 /\ Len(rest) = m /\ 8 \in Nat
      BY <1>6, <1>7, <2>1
    <2>3. /\ Len(head \o rest) = Len(head) + Len(rest)
          /\ \A k \in 1 .. Len(head) + Len(rest) :
                (head \o rest)[k] = IF k <= Len(head) THEN head[k] ELSE rest[k - Len(head)]
      BY <2>2, ConcatProperties
    <2> QED BY <2>1, <2>2, <2>3
  <1>9. MessageValues(lengths) = head \o rest
    BY DEF MessageValues, head, rest, datum
  <1>10. ASSUME NEW k \in 1 .. 8 + 4 * Len(lengths) PROVE IsMessageValue((head \o rest)[k], k)
    <2>1. CASE k <= 8
      <3>1. k \in 1 .. 8
        BY <1>1, <2>1
      <3> QED BY <1>7, <1>8, <2>1, <3>1
    <2>2. CASE k > 8
      <3>1. k - 8 \in 1 .. 4 * Len(lengths) /\ (k - 8) + 8 = k /\ ~(k <= 8)
        BY <1>1, <2>2
      <3>2. IsMessageValue(datum(k - 8), (k - 8) + 8) /\ (head \o rest)[k] = datum(k - 8)
        BY <1>5, <1>6, <1>8, <3>1
      <3> QED BY <3>1, <3>2
    <2>3. k \in Nat
      BY <1>1
    <2>4. k <= 8 \/ k > 8
      BY <2>3
    <2> QED BY <2>1, <2>2, <2>4
  <1> QED BY <1>8, <1>9, <1>10

(* Bits of a message begin at an even bit, but for the second bit of a     *)
(* packet, so that the reader masks all of them.                           *)
LEMMA MessageBits ==
  ASSUME NEW vs \in Seq(ValuesOn(32)), \A k \in 1 .. Len(vs) : IsMessageValue(vs[k], k)
  PROVE  \A k \in 1 .. Len(vs) : vs[k].type = "bits" /\ vs[k].size # 32 =>
            EndOf(32, vs, k - 1).bit + vs[k].size # 33
  <1> DEFINE N == Len(vs)
             End(n) == EndOf(32, vs, n)
             Even(n) == End(n).bit % 2 = IF n > 8 /\ n % 4 = 1 THEN 1 ELSE 0
             Not == {n \in 0 .. N : ~ Even(n)}
  <1>1. N \in Nat /\ 32 \in Widths
    BY DEF Widths
  <1>2. /\ End(0) = Place(0, 0) /\ \A n \in 0 .. N : End(n) \in Places(32)
        /\ \A n \in 1 .. N : End(n) = EndOfValue(32, End(n - 1), vs[n])
    BY <1>1, EndOfEach
  <1>3. \A n \in 0 .. N : End(n).bit \in 0 .. 31 /\ End(n).unit \in Nat
    BY <1>2 DEF Places
  <1> HIDE DEF End
  <1>4. ASSUME NEW n \in 1 .. N, Even(n - 1) PROVE Even(n)
    <2>1. IsMessageValue(vs[n], n) /\ n \in Nat /\ n - 1 \in 0 .. N /\ n \in 0 .. N
      BY <1>1
    <2>2. PICK a \in Places(32) : a = End(n - 1) /\ a.bit \in 0 .. 31 /\ a.unit \in Nat
      BY <1>2, <1>3, <2>1
    <2>3. End(n) = EndOfValue(32, a, vs[n])
      BY <1>2, <2>2
    <2>4. a.bit % 2 = IF n - 1 > 8 /\ (n - 1) % 4 = 1 THEN 1 ELSE 0
      BY <1>4, <2>2
    <2>5. ASSUME NEW s \in {1, 2, 16, 32}, vs[n].type = "bits", vs[n].size = s
          PROVE  End(n).bit % 2 = (a.bit + s) % 2
      <3>1. End(n).bit = IF a.bit + s < 32 THEN a.bit + s ELSE (a.bit + s) - 32
        BY <2>3, <2>5 DEF EndOfValue, Behind, Place
      <3>2. PICK x \in 0 .. 31 : x = a.bit
        BY <2>2
      <3>3. ((x + s) - 32) % 2 = (x + s) % 2
        OBVIOUS
      <3> QED BY <3>1, <3>2, <3>3
    <2>6. CASE n \in 1 .. 8 /\ n # 7
      <3>1. vs[n].type = "bits" /\ vs[n].size \in {2, 16, 32} /\ a.bit % 2 = 0
        BY <2>1, <2>4, <2>6 DEF IsMessageValue
      <3>2. PICK x \in 0 .. 31, s \in {2, 16, 32} : x = a.bit /\ s = vs[n].size
        BY <2>2, <3>1
      <3>3. End(n).bit % 2 = (x + s) % 2 /\ x % 2 = 0
        BY <2>5, <3>1, <3>2
      <3>4. End(n).bit % 2 = 0
        BY <3>2, <3>3
      <3> QED BY <2>6, <3>4 DEF Even
    <2>7. CASE n = 7
      BY <2>1, <2>3, <2>7 DEF IsMessageValue, FinishValue, EndOfValue, NextUnit, Place
    <2>8. CASE n > 8 /\ n % 4 \in {1, 2}
      <3>1. vs[n].type = "bits" /\ vs[n].size = 1
        BY <2>1, <2>8 DEF IsMessageValue, BitsValue
      <3>2. a.bit % 2 = IF n % 4 = 1 THEN 0 ELSE 1
        BY <2>1, <2>4, <2>8
      <3>3. PICK x \in 0 .. 31 : x = a.bit
        BY <2>2
      <3>4. End(n).bit % 2 = (x + 1) % 2 /\ x % 2 = IF n % 4 = 1 THEN 0 ELSE 1
        BY <2>5, <3>1, <3>2, <3>3
      <3>5. (x + 1) % 2 = IF n % 4 = 1 THEN 1 ELSE 0
        BY <3>4
      <3> QED BY <2>8, <3>4, <3>5 DEF Even
    <2>9. CASE n > 8 /\ n % 4 = 3
      <3>1. vs[n].type = "bits" /\ vs[n].size = 16
        BY <2>1, <2>9 DEF IsMessageValue, BitsValue
      <3>2. a.bit % 2 = 0
        BY <2>1, <2>4, <2>9
      <3>3. PICK x \in 0 .. 31 : x = a.bit
        BY <2>2
      <3>4. End(n).bit % 2 = (x + 16) % 2 /\ x % 2 = 0
        BY <2>5, <3>1, <3>2, <3>3
      <3>5. (x + 16) % 2 = 0
        BY <3>4
      <3> QED BY <2>9, <3>4, <3>5 DEF Even
    <2>10. CASE n > 8 /\ n % 4 = 0
      <3>1. vs[n].type = "string" /\ vs[n].size \in Nat
        BY <2>1, <2>10 DEF IsMessageValue
      <3>2. a.bit % 2 = 0
        BY <2>1, <2>4, <2>10
      <3>3. CASE vs[n].size = 0
        <4>1. End(n) = Behind(32, a, 32)
          BY <2>3, <3>1, <3>3 DEF EndOfValue
        <4>2. End(n).bit = a.bit
          BY <1>1, <2>2, <4>1, BehindFacts
        <4> QED BY <2>10, <3>2, <4>2
      <3>4. CASE vs[n].size # 0
        <4>1. End(n).bit = (8 * vs[n].size) % 32
          BY <2>3, <3>1, <3>4 DEF EndOfValue, Place
        <4>2. \A x \in Nat : ((8 * x) % 32) % 2 = 0
          OBVIOUS
        <4> QED BY <2>10, <3>1, <4>1, <4>2
      <3> QED BY <3>3, <3>4
    <2>11. n % 4 \in 0 .. 3
      BY <2>1
    <2> QED BY <2>1, <2>6, <2>7, <2>8, <2>9, <2>10, <2>11
  <1>5. Even(0)
    BY <1>2 DEF Place
  <1> HIDE DEF Even
  <1>6. ASSUME NEW n \in Not PROVE \E k \in Not : k < n
    <2>1. n \in 1 .. N /\ n - 1 \in 0 .. N
      BY <1>1, <1>5
    <2> QED BY <1>4, <2>1
  <1>7. Not = {}
    <2>1. Not \in SUBSET Nat
      BY <1>1
    <2> HIDE DEF Not
    <2> QED BY <1>6, <2>1, NoDescent
  <1>8. ASSUME NEW k \in 1 .. N, vs[k].type = "bits", vs[k].size # 32 PROVE End(k - 1).bit + vs[k].size # 33
    <2>1. IsMessageValue(vs[k], k) /\ k - 1 \in 0 .. N /\ Even(k - 1) /\ k \in Nat
      BY <1>1, <1>7
    <2>2. PICK x \in 0 .. 31 : x = End(k - 1).bit
      BY <1>3, <2>1
    <2>3. x % 2 = IF k - 1 > 8 /\ (k - 1) % 4 = 1 THEN 1 ELSE 0
      BY <2>1, <2>2 DEF Even
    <2>4. CASE k \in 1 .. 8
      <3>1. vs[k].size \in {2, 16} /\ x % 2 = 0
        BY <1>8, <2>1, <2>3, <2>4 DEF IsMessageValue, FinishValue
      <3>2. 31 % 2 = 1 /\ 17 % 2 = 1
        OBVIOUS
      <3>3. x # 31 /\ x # 17
        BY <3>1, <3>2
      <3>4. x + 2 # 33 /\ x + 16 # 33
        BY <3>3
      <3> QED BY <2>2, <3>1, <3>4
    <2>5. CASE k > 8 /\ k % 4 \in {1, 2}
      <3>1. vs[k] = BitsValue(1)
        BY <2>1, <2>5 DEF IsMessageValue
      <3>2. vs[k].size = 1
        BY <3>1 DEF BitsValue
      <3>3. x + 1 # 33
        OBVIOUS
      <3> QED BY <2>2, <3>2, <3>3
    <2>6. CASE k > 8 /\ k % 4 = 3
      <3>1. vs[k].size = 16
        <4>1. vs[k] = BitsValue(16)
          BY <2>1, <2>6 DEF IsMessageValue
        <4> QED BY <4>1 DEF BitsValue
      <3>2. x % 2 = 0 /\ 17 % 2 = 1
        BY <2>1, <2>3, <2>6
      <3>3. x # 17
        BY <3>2
      <3>4. x + 16 # 33
        BY <3>3
      <3> QED BY <2>2, <3>1, <3>4
    <2>7. CASE k > 8 /\ k % 4 = 0
      BY <1>8, <2>1, <2>7 DEF IsMessageValue
    <2>8. k % 4 \in 0 .. 3
      BY <2>1
    <2> QED BY <2>1, <2>4, <2>5, <2>6, <2>7, <2>8
  <1> QED BY <1>8 DEF End

LEMMA MessageFacts ==
  ASSUME layout \in Layouts, isMessage
  PROVE  /\ w = 32 /\ Len(values) \in Nat /\ Len(values) > 8
         /\ \A k \in 1 .. Len(values) : IsMessageValue(values[k], k)
         /\ \A k \in 1 .. Len(values) : values[k].type = "bits" /\ values[k].size # 32 =>
               EndOf(32, values, k - 1).bit + values[k].size # 33
         /\ ~ FinishAfterBytes /\ values[Len(values)].type \notin {"bits", "flush"}
  <1>1. /\ layout.lengths \in Seq(Nat) /\ layout.lengths # <<>> /\ w = 32
        /\ values = MessageValues(layout.lengths) /\ values \in Seq(ValuesOn(32))
    BY LayoutFacts DEF isMessage
  <1>2. Len(values) = 8 + 4 * Len(layout.lengths) /\ \A k \in 1 .. Len(values) : IsMessageValue(values[k], k)
    BY <1>1, MessageShape
  <1>3. PICK m \in Nat \ {0} : m = Len(layout.lengths)
    BY <1>1, EmptySeq
  <1>4. PICK n \in Nat : n = Len(values) /\ n = 8 + 4 * m /\ n > 8
    BY <1>2, <1>3
  <1>5. \A k \in 1 .. Len(values) : values[k].type = "bits" /\ values[k].size # 32 =>
           EndOf(32, values, k - 1).bit + values[k].size # 33
    BY <1>1, <1>2, MessageBits
  <1>6. values[n].type = "string"
    <2>1. n \in 1 .. Len(values) /\ n > 8 /\ n % 4 = 0
      BY <1>4
    <2> QED BY <1>2, <2>1 DEF IsMessageValue
  <1>7. ASSUME NEW i \in 1 .. n - 1, values[i + 1].type = "finish" PROVE values[i].type = "bits"
    <2>1. i \in 1 .. Len(values) /\ i + 1 \in 1 .. Len(values) /\ i + 1 \in Nat /\ i \in Nat
      BY <1>4
    <2>2. IsMessageValue(values[i + 1], i + 1) /\ IsMessageValue(values[i], i)
      BY <1>2, <2>1
    <2>3. i + 1 = 7
      <3>1. CASE i + 1 \in 1 .. 8 /\ i + 1 # 7
        BY <1>7, <2>2, <3>1 DEF IsMessageValue
      <3>2. CASE i + 1 > 8
        <4>1. (i + 1) % 4 \in {1, 2} \/ (i + 1) % 4 = 3 \/ (i + 1) % 4 = 0
          BY <2>1
        <4> QED BY <1>7, <2>2, <3>2, <4>1 DEF IsMessageValue, BitsValue
      <3> QED BY <2>1, <3>1, <3>2
    <2>4. i \in 1 .. 8 /\ i # 7
      BY <2>1, <2>3
    <2> QED BY <2>2, <2>4 DEF IsMessageValue
  <1>8. ~ FinishAfterBytes
    BY <1>4, <1>7 DEF FinishAfterBytes
  <1> QED BY <1>1, <1>2, <1>4, <1>5, <1>6, <1>8

LEMMA FieldReadable ==
  ASSUME layout \in Layouts, NEW left, Standing(w, packer, EndOf(w, values, Len(values)), left),
         IsBuffer(w, field), ~ FinishAfterBytes
  PROVE  IsReadable(w)
  <1>1. isMessage => \A k \in 1 .. Len(values) : values[k].type = "bits" /\ values[k].size # w =>
           EndOf(w, values, k - 1).bit + values[k].size # w + 1
    <2>1. SUFFICES ASSUME isMessage
                   PROVE  \A k \in 1 .. Len(values) : values[k].type = "bits" /\ values[k].size # w =>
                             EndOf(w, values, k - 1).bit + values[k].size # w + 1
      OBVIOUS
    <2>2. w = 32 /\ \A k \in 1 .. Len(values) : values[k].type = "bits" /\ values[k].size # 32 =>
             EndOf(32, values, k - 1).bit + values[k].size # 33
      BY <2>1, MessageFacts
    <2>3. w + 1 = 33
      BY <2>2
    <2> QED BY <2>2, <2>3
  <1>2. Elements \in Int /\ EndOf(w, values, Len(values)).unit <= Elements
    BY ElementsEnough
  <1> QED BY <1>1, <1>2, LayoutFacts DEF IsReadable

-----------------------------------------------------------------------------
(* The checksum.                                                           *)

Earlier(a) == Place(a.unit - 1, a.bit)

LEMMA EarlierPlace ==
  ASSUME NEW a \in Places(32), a.unit > 0
  PROVE  Earlier(a) \in Places(32) /\ Earlier(a).unit = a.unit - 1 /\ Earlier(a).bit = a.bit
  BY PlaceFacts DEF Earlier, Places, Place

(* Values lie in the same way a unit earlier.                              *)
LEMMA EarlierEnd ==
  ASSUME NEW a \in Places(32), a.unit > 0, NEW v, IsValue(32, v)
  PROVE  EndOfValue(32, Earlier(a), v) = Earlier(EndOfValue(32, a, v))
  <1>1. a.unit \in Nat /\ a.bit \in 0 .. 31 /\ (a.unit - 1) + 1 = (a.unit + 1) - 1 /\ v.size \in Nat
    BY DEF Places, IsValue
  <1>2. Earlier(a).unit = a.unit - 1 /\ Earlier(a).bit = a.bit /\ Earlier(a) \in Places(32)
    BY EarlierPlace
  <1>3. \A n \in 0 .. 32 : Behind(32, Earlier(a), n) = Earlier(Behind(32, a, n))
    <2>1. SUFFICES ASSUME NEW n \in 0 .. 32 PROVE Behind(32, Earlier(a), n) = Earlier(Behind(32, a, n))
      OBVIOUS
    <2>2. CASE a.bit + n < 32
      BY <1>1, <1>2, <2>2 DEF Behind, Place, Earlier
    <2>3. CASE ~(a.bit + n < 32)
      BY <1>1, <1>2, <2>3 DEF Behind, Place, Earlier
    <2> QED BY <2>2, <2>3
  <1>4. NextUnit(Earlier(a)) = Earlier(NextUnit(a))
    BY <1>1, <1>2 DEF NextUnit, Place, Earlier
  <1>5. BytesAt(32, Earlier(a)).unit = BytesAt(32, a).unit - 1 /\ BytesAt(32, a).unit \in Nat
    <2>1. 32 \in Widths
      BY DEF Widths
    <2>2. /\ BytesAt(32, Earlier(a)).unit = Earlier(a).unit + (IF Earlier(a).bit = 0 THEN 1 ELSE 2)
          /\ BytesAt(32, a).unit = a.unit + (IF a.bit = 0 THEN 1 ELSE 2)
      BY <1>2, <2>1, BytesAtFacts
    <2> QED BY <1>1, <1>2, <2>2
  <1>6. CASE v.type = "bits"
    <2>1. v.size \in 0 .. 32
      BY <1>6 DEF IsValue
    <2> QED BY <1>3, <1>6, <2>1 DEF EndOfValue
  <1>7. CASE v.type \in {"finish", "flush"}
    BY <1>4, <1>7 DEF EndOfValue
  <1>8. CASE v.type = "string" /\ v.size = 0
    BY <1>3, <1>8 DEF EndOfValue
  <1>9. CASE v.type \in {"string", "array"} /\ ~(v.type = "string" /\ v.size = 0)
    <2>1. (8 * v.size) \div 32 \in Int
      BY <1>1
    <2>2. /\ EndOfValue(32, a, v) = Place(BytesAt(32, a).unit + (8 * v.size) \div 32, (8 * v.size) % 32)
          /\ EndOfValue(32, Earlier(a), v) =
                Place(BytesAt(32, Earlier(a)).unit + (8 * v.size) \div 32, (8 * v.size) % 32)
      BY <1>9 DEF EndOfValue
    <2>3. BytesAt(32, Earlier(a)).unit + (8 * v.size) \div 32 = (BytesAt(32, a).unit + (8 * v.size) \div 32) - 1
      BY <1>5, <2>1
    <2> QED BY <2>2, <2>3 DEF Earlier, Place
  <1> QED BY <1>6, <1>7, <1>8, <1>9 DEF IsValue, ValueTypes

(* The values that the checksum is taken of.                               *)
Rest == [k \in 1 .. Len(values) - 1 |-> values[WithoutChecksum[k]]]

LEMMA RestFacts ==
  ASSUME layout \in Layouts, isMessage
  PROVE  /\ Len(values) \in Nat /\ Len(values) > 8 /\ Len(WithoutChecksum) = Len(values) - 1
         /\ \A k \in 1 .. Len(values) - 1 :
               /\ WithoutChecksum[k] = (IF k < 6 THEN k ELSE k + 1)
               /\ WithoutChecksum[k] \in 1 .. Len(values) /\ WithoutChecksum[k] # 6
               /\ Rest[k] = values[WithoutChecksum[k]] /\ IsValue(32, Rest[k])
         /\ Rest \in Seq(ValuesOn(32)) /\ Len(Rest) = Len(values) - 1
  <1> DEFINE N == Len(values)
             c == WithoutChecksum
  <1>1. N \in Nat /\ N > 8 /\ w = 32
    BY MessageFacts
  <1>2. All \in Seq(1 .. N) /\ Len(All) = N /\ \A k \in 1 .. N : All[k] = k
    BY OriginalsFacts
  <1>3. \A k \in 1 .. N : IsValue(32, values[k]) /\ values[k] \in ValuesOn(32)
    <2>1. \A k \in 1 .. N : IsValue(w, values[k])
      BY LayoutFacts
    <2> QED BY <1>1, <2>1 DEF ValuesOn, IsValue
  <1>4. Len(c) = N - 1 /\ \A k \in 1 .. N - 1 : c[k] = All[IF k < 6 THEN k ELSE k + 1]
    <2>1. 6 \in 1 .. Len(All)
      BY <1>1, <1>2
    <2> HIDE DEF N
    <2>2. /\ Len(RemoveAt(All, 6)) = Len(All) - 1
          /\ \A i \in 1 .. Len(All) - 1 : RemoveAt(All, 6)[i] = All[IF i < 6 THEN i ELSE i + 1]
      BY ONLY <1>2, <2>1, RemoveAtFacts
    <2> QED BY <1>2, <2>2 DEF WithoutChecksum, CheckSum
  <1> HIDE DEF N, c
  <1>5. \A k \in 1 .. N - 1 : c[k] = (IF k < 6 THEN k ELSE k + 1) /\ c[k] \in 1 .. N /\ c[k] # 6
    <2>1. SUFFICES ASSUME NEW k \in 1 .. N - 1
                   PROVE  c[k] = (IF k < 6 THEN k ELSE k + 1) /\ c[k] \in 1 .. N /\ c[k] # 6
      OBVIOUS
    <2>2. PICK j \in 1 .. N : j = (IF k < 6 THEN k ELSE k + 1) /\ j # 6
      BY <1>1
    <2>3. c[k] = j
      BY <1>2, <1>4, <2>2
    <2> QED BY <2>2, <2>3
  <1>6. \A k \in 1 .. N - 1 : Rest[k] = values[c[k]] /\ IsValue(32, Rest[k]) /\ Rest[k] \in ValuesOn(32)
    BY <1>3, <1>5 DEF Rest, N, c
  <1>7. Rest \in Seq(ValuesOn(32)) /\ Len(Rest) = N - 1
    <2>1. N - 1 \in Nat /\ Rest = [k \in 1 .. N - 1 |-> Rest[k]]
      BY <1>1 DEF Rest, N
    <2>2. PICK m \in Nat : m = N - 1
      BY <2>1
    <2>3. Rest \in [1 .. m -> ValuesOn(32)]
      BY <1>6, <2>1, <2>2
    <2> QED BY <2>2, <2>3
  <1> QED BY <1>1, <1>4, <1>5, <1>6, <1>7 DEF N, c

LEMMA EndOfRest ==
  ASSUME layout \in Layouts, isMessage
  PROVE  /\ \A n \in 0 .. Len(values) - 1 :
               EndOf(32, Rest, n) = IF n <= 5 THEN EndOf(32, values, n) ELSE Earlier(EndOf(32, values, n + 1))
         /\ \A n \in 6 .. Len(values) : EndOf(32, values, n).unit > 0
  <1> DEFINE N == Len(values)
             End(n) == EndOf(32, values, n)
             New(n) == EndOf(32, Rest, n)
             Right(n) == New(n) = IF n <= 5 THEN End(n) ELSE Earlier(End(n + 1))
             Wrong == {n \in 0 .. N - 1 : ~ Right(n)}
  <1>1. N \in Nat /\ N > 8 /\ w = 32 /\ 32 \in Widths /\ values \in Seq(ValuesOn(32))
    BY MessageFacts, LayoutFacts DEF Widths
  <1>2. /\ End(0) = Place(0, 0) /\ \A n \in 0 .. N : End(n) \in Places(32)
        /\ \A n \in 1 .. N : End(n) = EndOfValue(32, End(n - 1), values[n])
    BY <1>1, EndOfEach
  <1>3. /\ New(0) = Place(0, 0)
        /\ \A n \in 1 .. N - 1 : New(n) = EndOfValue(32, New(n - 1), Rest[n])
    BY <1>1, RestFacts, EndOfEach
  <1>4. \A n \in 1 .. N - 1 : Rest[n] = values[IF n < 6 THEN n ELSE n + 1] /\ IsValue(32, Rest[n])
    BY RestFacts
  <1>5. \A n \in 0 .. N, m \in 0 .. N : m <= n => Upto(End(m), End(n))
    <2>1. SUFFICES ASSUME NEW n \in 0 .. N, NEW m \in 0 .. N, m <= n PROVE Upto(End(m), End(n))
      OBVIOUS
    <2>2. m \in 0 .. n
      BY <1>1, <2>1
    <2> QED BY <1>1, <2>2, EndsInOrder
  <1>6. End(6) = Place(End(5).unit + 1, End(5).bit) /\ End(5).unit \in Nat
    <2>1. values[6] = BitsValue(32)
      <3>1. IsMessageValue(values[6], 6)
        BY <1>1, MessageFacts
      <3> QED BY <3>1 DEF IsMessageValue
    <2>2. End(6) = Behind(32, End(5), 32)
      <3>1. 6 \in 1 .. N /\ 6 - 1 = 5
        BY <1>1
      <3> QED BY <1>2, <2>1, <3>1 DEF EndOfValue, BitsValue
    <2>3. End(5) \in Places(32)
      BY <1>1, <1>2
    <2> QED BY <2>2, <2>3 DEF Behind, Places, Place
  <1>7. \A n \in 6 .. N : End(n).unit > 0 /\ End(n) \in Places(32)
    <2>1. SUFFICES ASSUME NEW n \in 6 .. N PROVE End(n).unit > 0 /\ End(n) \in Places(32)
      OBVIOUS
    <2>2. n \in 0 .. N /\ 6 \in 0 .. N /\ 6 <= n
      BY <1>1
    <2>3. Upto(End(6), End(n)) /\ End(n) \in Places(32)
      BY <1>2, <1>5, <2>2
    <2> QED BY <1>6, <2>3 DEF Upto, Places, Place
  <1> HIDE DEF End, New, N
  <1>8. ASSUME NEW n \in 1 .. N - 1, Right(n - 1) PROVE Right(n)
    <2>1. n \in Nat /\ n \in 1 .. N /\ n - 1 \in 0 .. N /\ n + 1 \in 1 .. N /\ (n + 1) - 1 = n /\ (n - 1) + 1 = n
      BY <1>1
    <2>2. CASE n <= 5
      <3>1. New(n - 1) = End(n - 1) /\ Rest[n] = values[n]
        BY <1>4, <1>8, <2>1, <2>2
      <3> QED BY <1>2, <1>3, <2>1, <2>2, <3>1
    <2>3. CASE n > 5
      <3>1. n \in 6 .. N /\ End(n) \in Places(32) /\ End(n).unit > 0 /\ n >= 6
        BY <1>1, <1>7, <2>1, <2>3
      <3>2. New(n - 1) = Earlier(End(n))
        <4>1. CASE n = 6
          <5>1. New(5) = End(5)
            <6>1. n - 1 = 5
              BY <4>1
            <6> QED BY <1>8, <6>1
          <5>2. Earlier(End(6)) = End(5)
            <6>1. End(5) \in Places(32)
              BY <1>1, <1>2
            <6> QED BY <1>6, <6>1 DEF Earlier, Place, Places
          <5> QED BY <4>1, <5>1, <5>2
        <4>2. CASE n > 6
          <5>1. ~(n - 1 <= 5)
            BY <2>1, <4>2
          <5> QED BY <1>8, <2>1, <5>1
        <4> QED BY <3>1, <4>1, <4>2
      <3>3. Rest[n] = values[n + 1] /\ IsValue(32, Rest[n])
        BY <1>4, <3>1
      <3>4. EndOfValue(32, Earlier(End(n)), Rest[n]) = Earlier(EndOfValue(32, End(n), Rest[n]))
        BY <3>1, <3>3, EarlierEnd
      <3>5. End(n + 1) = EndOfValue(32, End(n), values[n + 1])
        BY <1>2, <2>1
      <3>6. ~(n <= 5) /\ New(n) = EndOfValue(32, New(n - 1), Rest[n])
        BY <1>3, <3>1
      <3> QED BY <3>2, <3>3, <3>4, <3>5, <3>6
    <2> QED BY <2>1, <2>2, <2>3
  <1>9. Right(0)
    BY <1>2, <1>3
  <1> HIDE DEF Right
  <1>10. ASSUME NEW n \in Wrong PROVE \E k \in Wrong : k < n
    <2>1. n \in 0 .. N - 1 /\ ~ Right(n)
      OBVIOUS
    <2>2. n # 0
      BY <1>9, <2>1
    <2>3. n \in 1 .. N - 1 /\ n - 1 \in 0 .. N - 1 /\ n - 1 < n
      BY <1>1, <2>1, <2>2
    <2> QED BY <1>8, <2>1, <2>3
  <1>11. Wrong = {}
    <2>1. Wrong \in SUBSET Nat
      BY <1>1
    <2> HIDE DEF Wrong
    <2> QED BY <1>10, <2>1, NoDescent
  <1> QED BY <1>7, <1>11 DEF Right, End, New, N

LEMMA RestFits ==
  ASSUME layout \in Layouts, isMessage
  PROVE  Fits(32, Rest)
  <1> DEFINE N == Len(values)
             End(n) == EndOf(32, values, n)
  <1>1. N \in Nat /\ N > 8 /\ w = 32 /\ 32 \in Widths /\ values \in Seq(ValuesOn(32)) /\ Fits(32, values)
        /\ BufferUnits \in Nat /\ Len(Rest) = N - 1
    BY MessageFacts, LayoutFacts, RestFacts DEF Widths
  <1>2. \A n \in 0 .. N : End(n) \in Places(32) /\ FitsAt(32, End(n))
    BY <1>1, EndOfEach, FitsEach
  <1>3. ASSUME NEW a \in Places(32), FitsAt(32, a), a.unit > 0 PROVE FitsAt(32, Earlier(a))
    <2>1. a.unit \in Nat /\ a.unit % 256 = a.unit /\ a.unit < BufferUnits
      BY <1>3 DEF Places, FitsAt, UInt8
    <2>2. a.unit - 1 < BufferUnits /\ (a.unit - 1) % 256 = a.unit - 1
      BY <1>1, <1>3, <2>1
    <2> QED BY <1>3, <2>2, EarlierPlace DEF FitsAt, UInt8, UIntT
  <1>4. ASSUME NEW n \in 0 .. N - 1 PROVE FitsAt(32, EndOf(32, Rest, n))
    <2>1. n \in 0 .. N /\ n + 1 \in 0 .. N /\ n \in Nat
      BY <1>1
    <2>2. CASE n <= 5
      <3>1. EndOf(32, Rest, n) = End(n)
        BY <2>2, EndOfRest
      <3> QED BY <1>2, <2>1, <3>1
    <2>3. CASE ~(n <= 5)
      <3>1. EndOf(32, Rest, n) = Earlier(End(n + 1))
        BY <2>3, EndOfRest
      <3>2. n + 1 \in 6 .. N
        BY <2>1, <2>3
      <3>3. End(n + 1).unit > 0
        BY <3>2, EndOfRest
      <3> QED BY <1>2, <1>3, <2>1, <3>1, <3>3
    <2> QED BY <2>2, <2>3
  <1> QED BY <1>1, <1>4 DEF Fits, FitsAt, BitNumber

(* What is packed is told by the values that are chosen.                   *)
LEMMA PackedAlike ==
  ASSUME NEW dest, NEW chosen, Len(chosen) \in Nat, NEW vs, NEW us,
         \A n \in 1 .. Len(chosen) : vs[chosen[n]] = us[chosen[n]]
  PROVE  PackAll(dest, chosen, vs) = PackAll(dest, chosen, us)
  <1>1. PICK r : IsPacking(r, dest, chosen, vs) /\ PackAll(dest, chosen, vs) = r[Len(chosen)]
    BY PackingRuns
  <1>2. PICK s : IsPacking(s, dest, chosen, us) /\ PackAll(dest, chosen, us) = s[Len(chosen)]
    BY PackingRuns
  <1> DEFINE Unlike == {n \in 0 .. Len(chosen) : r[n] # s[n]}
  <1>3. ASSUME NEW n \in Unlike PROVE \E k \in Unlike : k < n
    <2>1. n \in 0 .. Len(chosen) /\ r[n] # s[n] /\ r[0] = s[0]
      BY <1>1, <1>2 DEF IsPacking
    <2>2. n \in 1 .. Len(chosen) /\ n - 1 \in 0 .. Len(chosen) /\ n - 1 < n
      BY <2>1
    <2>3. r[n - 1] # s[n - 1]
      <3>1. /\ r[n] = PackValue(r[n - 1], values[chosen[n]].type, values[chosen[n]].size, vs[chosen[n]])
            /\ s[n] = PackValue(s[n - 1], values[chosen[n]].type, values[chosen[n]].size, us[chosen[n]])
        BY <1>1, <1>2, <2>2 DEF IsPacking
      <3> QED BY <2>1, <2>2, <3>1
    <2> QED BY <2>2, <2>3
  <1>4. Unlike = {}
    <2>1. Unlike \in SUBSET Nat
      OBVIOUS
    <2> HIDE DEF Unlike
    <2> QED BY <1>3, <2>1, NoDescent
  <1> QED BY <1>1, <1>2, <1>4

(* The buffer of the checksum holds every value but the checksum.          *)
LEMMA ChecksumHolds ==
  ASSUME layout \in Layouts, isMessage, NEW vs,
         \A k \in 1 .. Len(values) : k # 6 => Shaped(32, values[k], vs[k])
  PROVE  \A k \in 1 .. Len(values) - 1 :
            Lies(32, GenerateCheckSum(vs), EndOf(32, Rest, k - 1), Rest[k], vs[WithoutChecksum[k]])
  <1> DEFINE N == Len(values)
             c == WithoutChecksum
             p == PackAll(ZeroBuffer, c, vs)
  <1>1. /\ N \in Nat /\ N > 8 /\ w = 32 /\ 32 \in Widths /\ BufferUnits \in Nat
        /\ values \in Seq(ValuesOn(32)) /\ Rest \in Seq(ValuesOn(32)) /\ Len(Rest) = N - 1 /\ Len(c) = N - 1
        /\ Fits(32, Rest)
    BY MessageFacts, LayoutFacts, RestFacts, RestFits DEF Widths
  <1>2. IsBuffer(32, ZeroBuffer)
    <2>1. IsUnit(32, Empty(32))
      BY <1>1, EmptyUnit
    <2> QED BY <1>1, <2>1 DEF IsBuffer, ZeroBuffer
  <1>3. \A k \in 1 .. N - 1 : /\ Rest[k] = values[c[k]] /\ c[k] \in 1 .. N /\ c[k] # 6
                              /\ c[k] = IF k < 6 THEN k ELSE k + 1
    BY RestFacts
  <1>4. ASSUME NEW k \in 1 .. N - 1 PROVE Rest[k].type \in {"finish", "flush"} => k > 1
    <2>1. SUFFICES ASSUME k = 1 PROVE Rest[1].type = "bits"
      BY <1>1
    <2>2. 1 \in 1 .. N - 1 /\ 1 \in 1 .. N
      BY <1>1
    <2>3. Rest[1] = values[1] /\ IsMessageValue(values[1], 1)
      BY <1>3, <2>2, MessageFacts
    <2> QED BY <2>3 DEF IsMessageValue
  <1>5. IsPackable(32, ZeroBuffer, c, Rest, vs)
    <2> HIDE DEF N, c
    <2>1. \A k \in 1 .. N - 1 : Shaped(32, Rest[k], vs[c[k]])
      BY <1>3 DEF N
    <2> QED BY <1>1, <1>2, <1>3, <1>4, <2>1 DEF IsPackable
  <1> HIDE DEF c, p
  <1>6. IsPackedTo(32, p, c, Rest, vs, Len(Rest))
    BY <1>1, <1>5, PacksAll DEF p
  <1>7. Rest[Len(Rest)].type # "bits" /\ Len(Rest) # 0
    <2>1. Len(Rest) \in 1 .. N - 1 /\ Len(Rest) # 0
      BY <1>1
    <2>2. c[Len(Rest)] = N
      <3>1. ~(N - 1 < 6) /\ (N - 1) + 1 = N
        BY <1>1
      <3> QED BY <1>1, <1>3, <2>1, <3>1
    <2> QED BY <1>3, <2>1, <2>2, MessageFacts
  <1>8. ASSUME NEW k \in 1 .. N - 1 PROVE Lies(32, p.dest, EndOf(32, Rest, k - 1), Rest[k], vs[c[k]])
    <2>1. k \in 1 .. Len(Rest)
      BY <1>1
    <2> QED BY <1>1, <1>6, <1>7, <2>1, PackedLies
  <1> QED BY <1>8 DEF GenerateCheckSum, p, c, N

(* A right checksum proves that everything is what was sent.               *)
LEMMA RightChecksum ==
  ASSUME layout \in Layouts, isMessage, NEW vs, DOMAIN vs = 1 .. Len(values)
  PROVE  /\ (\A k \in 1 .. Len(values) : Shaped(32, values[k], vs[k])) /\ ValidateChecksum(vs) =>
               \A k \in 1 .. Len(values) : vs[k] = Original(k)
         /\ (\A k \in 1 .. Len(values) : vs[k] = Original(k)) => ValidateChecksum(vs)
  <1> DEFINE N == Len(values)
             c == WithoutChecksum
             blank == [Originals EXCEPT ![CheckSum].value = Empty(w)]
  <1>1. N \in Nat /\ N > 8 /\ w = 32 /\ 32 \in Widths /\ Len(c) = N - 1
    BY MessageFacts, RestFacts DEF Widths
  <1>2. \A k \in 1 .. N - 1 : /\ Rest[k] = values[c[k]] /\ c[k] \in 1 .. N /\ c[k] # 6 /\ IsValue(32, Rest[k])
                              /\ c[k] = IF k < 6 THEN k ELSE k + 1
    BY RestFacts
  <1>3. \A k \in 1 .. N : k # 6 => blank[k] = Original(k) /\ Shaped(32, values[k], blank[k])
    BY <1>1, OriginalsFacts DEF CheckSum
  <1>4. ValidateChecksum(vs) <=>
           vs[6] = Original(6) /\ PackAll(ZeroBuffer, c, vs).dest = PackAll(ZeroBuffer, c, blank).dest
    BY DEF ValidateChecksum, GenerateCheckSum, CheckSum
  <1> HIDE DEF blank, c, N
  <1>5. ASSUME \A k \in 1 .. N : Shaped(32, values[k], vs[k]), ValidateChecksum(vs), NEW k \in 1 .. N
        PROVE  vs[k] = Original(k)
    <2>1. CASE k = 6
      BY <1>4, <1>5, <2>1
    <2>2. CASE k # 6
      <3>1. PICK j \in 1 .. N - 1 : k = IF j < 6 THEN j ELSE j + 1
        <4>1. CASE k < 6
          <5>1. k \in 1 .. N - 1
            BY <1>1, <4>1
          <5> QED BY <4>1, <5>1
        <4>2. CASE k > 6
          <5>1. k - 1 \in 1 .. N - 1 /\ ~(k - 1 < 6) /\ (k - 1) + 1 = k
            BY <1>1, <4>2
          <5> QED BY <5>1
        <4> QED BY <1>1, <2>2, <4>1, <4>2
      <3>2. c[j] = k
        BY <1>2, <3>1
      <3>3. Lies(32, PackAll(ZeroBuffer, c, vs).dest, EndOf(32, Rest, j - 1), Rest[j], vs[k])
        BY <1>5, <3>2, ChecksumHolds DEF GenerateCheckSum, c, N
      <3>4. Lies(32, PackAll(ZeroBuffer, c, blank).dest, EndOf(32, Rest, j - 1), Rest[j], blank[k])
        BY <1>3, <3>2, ChecksumHolds DEF GenerateCheckSum, c, N
      <3>5. PackAll(ZeroBuffer, c, vs).dest = PackAll(ZeroBuffer, c, blank).dest
        BY <1>4, <1>5
      <3>6. Rest[j] = values[k] /\ IsValue(32, Rest[j])
        BY <1>2, <3>2
      <3>7. Shaped(32, Rest[j], vs[k]) /\ Shaped(32, Rest[j], blank[k]) /\ blank[k] = Original(k)
        BY <1>3, <1>5, <2>2, <3>6
      <3> QED BY <1>1, <3>3, <3>4, <3>5, <3>6, <3>7, Determined
    <2> QED BY <2>1, <2>2
  <1>6. ASSUME \A k \in 1 .. N : vs[k] = Original(k) PROVE ValidateChecksum(vs)
    <2>1. 6 \in 1 .. N /\ Len(c) \in Nat
      BY <1>1
    <2>2. \A n \in 1 .. Len(c) : vs[c[n]] = blank[c[n]]
      BY <1>1, <1>2, <1>3, <1>6
    <2>3. PackAll(ZeroBuffer, c, vs) = PackAll(ZeroBuffer, c, blank)
      BY <2>1, <2>2, PackedAlike
    <2> QED BY <1>4, <1>6, <2>1, <2>3
  <1> QED BY <1>5, <1>6 DEF N

-----------------------------------------------------------------------------
(* What is read.                                                           *)

LEMMA ReadOfField ==
  ASSUME layout \in Layouts, NEW left, Standing(w, packer, EndOf(w, values, Len(values)), left),
         IsBuffer(w, field), NEW s, s = ReadAll
  PROVE  /\ IsReadingState(w, s, Len(values))
         /\ IsIntact(w) /\ ~ s.reader.unmasked /\ ~ FinishAfterBytes =>
               /\ s.got = Originals
               /\ values[Len(values)].type # "flush" => ReaderAt(s.reader, EndOf(w, values, Len(values)))
               /\ isMessage => ~ s.lost /\ ValidateChecksum(s.got) /\ ~ s.reader.threw
         /\ isMessage /\ ~ s.lost /\ ValidateChecksum(s.got) => s.got = Originals
  <1> DEFINE N == Len(values)
             End(n) == EndOf(w, values, n)
  <1>1. /\ w \in Widths /\ values \in Seq(ValuesOn(w)) /\ N \in Nat \ {0} /\ \A k \in 1 .. N : IsValue(w, values[k])
    BY LayoutFacts
  <1>2. Elements \in Int
    BY ElementsEnough
  <1>3. IsReadingState(w, s, N)
    BY <1>1, <1>2, ReadsAll
  <1>4. s.got = [k \in 1 .. N |-> s.got[k]] /\ Originals = [k \in 1 .. N |-> Original(k)]
    BY <1>3, OriginalsFacts DEF IsReadingState
  <1>5. DOMAIN s.got = 1 .. N
    BY <1>4
  <1>6. ~ FinishAfterBytes => IsReadable(w)
    BY FieldReadable
  <1>7. IsReadable(w) => s.lost \/ IsReadTo(w, s, N)
    BY <1>1, <1>2, ReadsAll
  <1>8. IsReadable(w) /\ IsIntact(w) => ~ s.lost \/ s.reader.unmasked
    BY <1>1, <1>2, ReadsAll
  <1> HIDE DEF N
  <1>9. ASSUME IsIntact(w), ~ s.reader.unmasked, ~ FinishAfterBytes
        PROVE  /\ s.got = Originals
               /\ values[N].type # "flush" => ReaderAt(s.reader, End(N))
               /\ isMessage => ~ s.lost /\ ValidateChecksum(s.got) /\ ~ s.reader.threw
    <2>1. IsReadTo(w, s, N) /\ ~ s.lost
      BY <1>6, <1>7, <1>8, <1>9
    <2>2. ASSUME NEW k \in 1 .. N PROVE s.got[k] = Original(k)
      <3>1. Lies(w, field, End(k - 1), values[k], s.got[k]) /\ Shaped(w, values[k], s.got[k])
        BY <1>9, <2>1 DEF IsReadTo, IsRead
      <3>2. Lies(w, field, End(k - 1), values[k], Original(k))
        BY <1>9 DEF IsIntact, N
      <3>3. Shaped(w, values[k], Original(k)) /\ IsValue(w, values[k])
        BY <1>1, OriginalIsShaped
      <3> HIDE DEF End
      <3> QED BY <1>1, <3>1, <3>2, <3>3, Determined
    <2>3. s.got = Originals
      BY <1>4, <2>2
    <2>4. values[N].type # "flush" => ReaderAt(s.reader, End(N))
      BY <2>1 DEF IsReadTo
    <2>5. ASSUME isMessage PROVE ValidateChecksum(s.got) /\ ~ s.reader.threw
      <3>1. ValidateChecksum(s.got)
        BY <1>5, <2>2, <2>5, RightChecksum DEF N
      <3>2. values[N].type # "flush"
        BY <2>5, MessageFacts DEF N
      <3> QED BY <2>4, <3>1, <3>2 DEF ReaderAt
    <2> QED BY <2>1, <2>3, <2>4, <2>5
  <1>10. ASSUME isMessage, ~ s.lost, ValidateChecksum(s.got) PROVE s.got = Originals
    <2>1. IsReadTo(w, s, N) /\ w = 32
      BY <1>6, <1>7, <1>10, MessageFacts
    <2>2. \A k \in 1 .. N : Shaped(32, values[k], s.got[k])
      BY <1>10, <2>1 DEF IsReadTo, IsRead
    <2>3. \A k \in 1 .. N : s.got[k] = Original(k)
      BY <1>5, <1>10, <2>2, RightChecksum DEF N
    <2> QED BY <1>4, <2>3
  <1> QED BY <1>3, <1>9, <1>10 DEF N

LEMMA DirectionRead == \A d \in Directions : FromDirectionString(DirectionToString[d]) = d
  <1>1. SUFFICES ASSUME NEW d \in Directions PROVE FromDirectionString(DirectionToString[d]) = d
    OBVIOUS
  <1>2. /\ DirectionToString["up"] = "Up" /\ DirectionToString["down"] = "Down"
        /\ DirectionToString["left"] = "Left" /\ DirectionToString["right"] = "Right"
        /\ DirectionToString["none"] = "None"
    BY DEF DirectionToString
  <1>3. \A c \in Directions : DirectionToString[c] = DirectionToString[d] => c = d
    BY <1>2 DEF Directions
  <1>4. CASE d = "none"
    BY <1>3, <1>4 DEF FromDirectionString
  <1>5. CASE d # "none"
    <2>1. \E c \in Directions \ {"none"} : DirectionToString[c] = DirectionToString[d]
      BY <1>5
    <2>2. (CHOOSE c \in Directions : DirectionToString[c] = DirectionToString[d]) = d
      BY <1>3
    <2> QED BY <2>1, <2>2 DEF FromDirectionString
  <1> QED BY <1>4, <1>5

(* What the receiver makes of an event.                                    *)
LEMMA EventRead ==
  ASSUME NEW enc \in Encodings, NEW evt \in SentEvents \cup {Nothing},
         NEW ev, ev = Deserialize(Serialize(enc, evt, "Ann"))
  PROVE  /\ ev \notin {Nothing, Thrown} => ev = evt
         /\ ev = Thrown => evt = PingMessage /\ enc # "json"
         /\ evt.type \in {"PlayerMovedEventType", "StartNetworkLevel"} => ev = evt
  <1> DEFINE text == Serialize(enc, evt, "Ann")
  <1>1. CASE \E d \in Directions : evt = PlayerMoved(d)
    <2>1. PICK d \in Directions : evt = PlayerMoved(d)
      BY <1>1
    <2>2. text.syntax = "json" /\ text.messageType = "PlayerMovedEventType" /\ text.direction = DirectionToString[d]
      BY <2>1 DEF Serialize, PlayerMoved
    <2> HIDE DEF text
    <2>3. ev = PlayerMoved(d)
      BY <2>2, DirectionRead DEF Deserialize, HasHeader, text
    <2> QED BY <2>1, <2>3 DEF PlayerMoved, Nothing, Thrown
  <1>2. CASE \E d \in Directions : evt = ControllerMove(d)
    <2>1. PICK d \in Directions : evt = ControllerMove(d)
      BY <1>2
    <2>2. text.syntax = "json" /\ text.messageType = "ControllerMoveEvent"
      BY <2>1 DEF Serialize, ControllerMove
    <2> HIDE DEF text
    <2>3. ev = Nothing
      BY <2>2 DEF Deserialize, HasHeader, text
    <2> QED BY <2>1, <2>3 DEF ControllerMove, Nothing, Thrown
  <1>3. CASE evt \in [type : {"StartNetworkLevel"}, level : Int]
    <2>1. text.syntax = "json" /\ text.messageType = "StartNetworkLevel" /\ text.level = evt.level
      BY <1>3 DEF Serialize
    <2>2. evt = [type |-> "StartNetworkLevel", level |-> evt.level]
      BY <1>3
    <2> HIDE DEF text
    <2>3. ev = StartNetworkLevel(evt.level)
      BY <2>1 DEF Deserialize, HasHeader, text
    <2> QED BY <2>2, <2>3 DEF StartNetworkLevel, Nothing, Thrown
  <1>4. CASE evt \in {OtherEvent, Nothing}
    <2>1. text.syntax = "json" /\ text.messageType = "unknown" /\ evt.type \in {"SomeOtherEvent", "nothing"}
      BY <1>4 DEF Serialize, OtherEvent, Nothing
    <2> HIDE DEF text
    <2>2. ev = Nothing
      BY <2>1 DEF Deserialize, HasHeader, text
    <2> QED BY <2>1, <2>2 DEF Nothing, Thrown
  <1>5. CASE evt = PingMessage
    <2>1. text.syntax = PingSyntax[enc] /\ text.messageType = "ping"
      BY <1>5 DEF Serialize, PingMessage
    <2>2. PingSyntax["json"] = "json"
      BY DEF PingSyntax, Encodings
    <2> HIDE DEF text
    <2>3. ev = IF PingSyntax[enc] # "json" THEN Thrown ELSE Nothing
      BY <2>1 DEF Deserialize, HasHeader, text
    <2> QED BY <1>5, <2>2, <2>3 DEF Nothing, Thrown, PingMessage
  <1> QED BY <1>1, <1>2, <1>3, <1>4, <1>5 DEF SentEvents

-----------------------------------------------------------------------------
(* The invariant: before it is sent nothing is packed, then the packer     *)
(* stands behind the last value, and a field of which no bit was flipped   *)
(* holds every value where the layout puts it.                             *)
WireInv ==
  /\ layout \in Layouts /\ phase \in {"packing", "sent", "read"} /\ flips \in 0 .. layout.maxFlips
  /\ phase = "packing" => packer = Packer(OldBuffer, w) /\ field = OldBuffer /\ flips = 0
  /\ phase # "packing" =>
        /\ Standing(w, packer, EndOf(w, values, Len(values)), w - EndOf(w, values, Len(values)).bit)
        /\ IsBuffer(w, field)
        /\ flips = 0 => IsIntact(w)
  /\ phase # "read" => bitReader = Reader(0) /\ got = <<>> /\ accepted = FALSE /\ event = Nothing
  /\ phase = "read" => BitsOK /\ MessagesOK

LEMMA SameLayout ==
  ASSUME layout' = layout
  PROVE  /\ w' = w /\ values' = values /\ (isMessage <=> isMessage') /\ Originals' = Originals
         /\ (FinishAfterBytes <=> FinishAfterBytes') /\ OldBuffer' = OldBuffer
  <1>1. w' = w /\ values' = values
    BY DEF w, values
  <1>2. isMessage <=> isMessage'
    BY DEF isMessage
  <1>3. Lost' = Lost
    BY <1>1 DEF Lost
  <1>4. Originals' = Originals
    BY <1>1, <1>3 DEF Originals, Original
  <1>5. FinishAfterBytes <=> FinishAfterBytes'
    BY <1>1 DEF FinishAfterBytes
  <1> QED BY <1>1, <1>2, <1>4, <1>5 DEF OldBuffer

LEMMA SameIntact ==
  ASSUME layout' = layout
  PROVE  /\ \A width : IsIntact(width)' <=>
               \A k \in 1 .. Len(values) :
                  Lies(width, field', EndOf(width, values, k - 1), values[k], Original(k))
  <1>1. w' = w /\ values' = values
    BY DEF w, values
  <1>2. Lost' = Lost
    BY <1>1 DEF Lost
  <1>3. \A k : Original(k)' = Original(k)
    BY <1>1, <1>2 DEF Original
  <1> QED BY <1>1, <1>3 DEF IsIntact

LEMMA WireStarts == WireInit => WireInv
  <1> SUFFICES ASSUME WireInit PROVE WireInv
    OBVIOUS
  <1>1. layout \in Layouts /\ flips = 0
    BY DEF WireInit
  <1>2. layout.maxFlips \in Nat
    BY <1>1, LayoutFacts
  <1>3. 0 \in 0 .. layout.maxFlips
    BY <1>2
  <1> QED BY <1>1, <1>3 DEF WireInit, WireInv

LEMMA WireSends == WireInv /\ Send => WireInv'
  <1> SUFFICES ASSUME WireInv, Send PROVE WireInv'
    OBVIOUS
  <1> DEFINE p == PackAll(OldBuffer, All, Originals)
             end == EndOf(w, values, Len(values))
  <1>1. /\ layout \in Layouts /\ phase = "packing" /\ phase' = "sent" /\ flips = 0 /\ field = OldBuffer
        /\ packer' = p /\ layout' = layout /\ flips' = flips
        /\ bitReader' = bitReader /\ got' = got /\ accepted' = accepted /\ event' = event
        /\ bitReader = Reader(0) /\ got = <<>> /\ accepted = FALSE /\ event = Nothing
        /\ flips \in 0 .. layout.maxFlips
    BY DEF WireInv, Send
  <1> HIDE DEF p, end
  <1>2. field' = [u \in 0 .. BufferUnits - 1 |-> [b \in 0 .. w - 1 |->
                    IF u * w + b < 8 * TotalBytesPacked(p) THEN p.dest[u][b] ELSE Garbage]]
    <2>1. DOMAIN field = 0 .. BufferUnits - 1
      BY <1>1 DEF OldBuffer
    <2>2. field' = [u \in DOMAIN field |-> [b \in 0 .. w - 1 |->
                      IF u * w + b < 8 * TotalBytesPacked(packer') THEN packer'.dest[u][b] ELSE Garbage]]
      BY DEF Send
    <2> QED BY <1>1, <2>1, <2>2
  <1>3. /\ Standing(w, p, end, w - end.bit) /\ IsBuffer(w, field')
        /\ \A k \in 1 .. Len(values) : Lies(w, field', EndOf(w, values, k - 1), values[k], Original(k))
    BY <1>1, <1>2, SendPacks DEF p, end
  <1>4. w' = w /\ values' = values /\ IsIntact(w)'
    BY <1>1, <1>3, SameLayout, SameIntact DEF IsIntact
  <1>5. Standing(w, packer, end, w - end.bit)'
    BY <1>1, <1>3, <1>4 DEF Standing, end
  <1>6. IsBuffer(w, field)'
    BY <1>3, <1>4
  <1> QED BY <1>1, <1>4, <1>5, <1>6 DEF WireInv, end

LEMMA WireFlips == WireInv /\ Flip => WireInv'
  <1> SUFFICES ASSUME WireInv, Flip PROVE WireInv'
    OBVIOUS
  <1> DEFINE end == EndOf(w, values, Len(values))
  <1>1. /\ layout \in Layouts /\ phase = "sent" /\ flips < layout.maxFlips /\ flips' = flips + 1
        /\ flips \in 0 .. layout.maxFlips
        /\ layout' = layout /\ phase' = phase /\ packer' = packer /\ bitReader' = bitReader /\ got' = got
        /\ accepted' = accepted /\ event' = event
        /\ bitReader = Reader(0) /\ got = <<>> /\ accepted = FALSE /\ event = Nothing
        /\ Standing(w, packer, end, w - end.bit) /\ IsBuffer(w, field)
    BY DEF WireInv, Flip
  <1>2. w' = w /\ values' = values
    BY <1>1, SameLayout
  <1>3. IsBuffer(w, field')
    <2>1. PICK u \in DOMAIN field, b \in 0 .. w - 1 :
             field' = [field EXCEPT ![u][b] = IF @ = Zero THEN <<-2, -2>> ELSE Zero]
      BY DEF Flip
    <2>2. field = [v \in 0 .. BufferUnits - 1 |-> field[v]] /\ \A v \in 0 .. BufferUnits - 1 : IsUnit(w, field[v])
      BY <1>1 DEF IsBuffer
    <2> DEFINE unit == [field[u] EXCEPT ![b] = IF @ = Zero THEN <<-2, -2>> ELSE Zero]
    <2>3. field' = [field EXCEPT ![u] = unit]
      BY <2>1
    <2>4. u \in 0 .. BufferUnits - 1
      BY <2>2
    <2>5. IsUnit(w, unit)
      BY <2>2, <2>4 DEF IsUnit
    <2> HIDE DEF unit
    <2>6. DOMAIN field' = 0 .. BufferUnits - 1 /\ field' = [v \in 0 .. BufferUnits - 1 |-> field'[v]]
      BY <2>2, <2>3
    <2>7. \A v \in 0 .. BufferUnits - 1 : field'[v] = IF v = u THEN unit ELSE field[v]
      BY <2>2, <2>3
    <2> QED BY <2>2, <2>5, <2>6, <2>7 DEF IsBuffer
  <1>4. flips' \in 0 .. layout.maxFlips /\ flips' # 0
    <2>1. layout.maxFlips \in Nat
      BY <1>1, LayoutFacts
    <2> QED BY <1>1, <2>1
  <1>5. Standing(w, packer, end, w - end.bit)' /\ IsBuffer(w, field)'
    BY <1>1, <1>2, <1>3
  <1> QED BY <1>1, <1>4, <1>5 DEF WireInv, end

(* Where the packer stands.                                                *)
LEMMA PackerOK ==
  ASSUME layout \in Layouts, Standing(w, packer, EndOf(w, values, Len(values)), w - EndOf(w, values, Len(values)).bit)
  PROVE  /\ packer.writeBit \in 0 .. w - 1 /\ packer.bitsLeft \in 0 .. w
         /\ packer.overflowed \in 0 .. BufferUnits - 1 /\ packer.segments = packer.overflowed
         /\ packer.packed = packer.overflowed * w + packer.writeBit
  <1> DEFINE end == EndOf(w, values, Len(values))
  <1>1. w \in Widths /\ BufferUnits \in Nat /\ values \in Seq(ValuesOn(w)) /\ Fits(w, values)
        /\ Len(values) \in Nat
    BY LayoutFacts
  <1>2. Len(values) \in 0 .. Len(values)
    BY <1>1
  <1>3. end \in Places(w) /\ FitsAt(w, end)
    BY <1>1, <1>2, EndOfEach, FitsEach
  <1>4. end.unit \in Nat /\ end.bit \in 0 .. w - 1 /\ end.unit < BufferUnits /\ w \in Nat
    BY <1>1, <1>3 DEF Places, FitsAt, Widths
  <1>5. /\ packer.writeBit = end.bit /\ packer.overflowed = end.unit /\ packer.segments = end.unit
        /\ packer.packed = BitNumber(w, end) /\ packer.bitsLeft = w - end.bit
    BY DEF Standing
  <1> HIDE DEF end
  <1> QED BY <1>1, <1>4, <1>5 DEF BitNumber

LEMMA WireReceives == WireInv /\ Receive => WireInv'
  <1> SUFFICES ASSUME WireInv, Receive PROVE WireInv'
    OBVIOUS
  <1> DEFINE N == Len(values)
             end == EndOf(w, values, Len(values))
             c == layout.content
  <1>1. PICK s : s = ReadAll
    OBVIOUS
  <1>2. /\ layout \in Layouts /\ phase = "sent" /\ phase' = "read" /\ flips \in 0 .. layout.maxFlips
        /\ layout' = layout /\ packer' = packer /\ field' = field /\ flips' = flips
        /\ bitReader' = s.reader /\ got' = s.got
        /\ accepted' = (isMessage /\ ~ s.lost /\ ValidateChecksum(s.got))
        /\ event' = IF accepted' /\ c # NoContent THEN Deserialize(Serialize(c.encoding, c.event, "Ann"))
                    ELSE Nothing
        /\ Standing(w, packer, end, w - end.bit) /\ IsBuffer(w, field) /\ (flips = 0 => IsIntact(w))
    BY <1>1 DEF WireInv, Receive
  <1>3. w' = w /\ values' = values /\ (isMessage <=> isMessage') /\ Originals' = Originals
        /\ (FinishAfterBytes <=> FinishAfterBytes')
    BY <1>2, SameLayout
  <1>4. w \in Widths /\ N \in Nat \ {0} /\ w \in Nat
    <2>1. w \in Widths /\ N \in Nat \ {0}
      BY <1>2, LayoutFacts
    <2> QED BY <2>1 DEF Widths
  <1>5. /\ IsReadingState(w, s, N)
        /\ IsIntact(w) /\ ~ s.reader.unmasked /\ ~ FinishAfterBytes =>
              /\ s.got = Originals
              /\ values[N].type # "flush" => ReaderAt(s.reader, end)
              /\ isMessage => ~ s.lost /\ ValidateChecksum(s.got) /\ ~ s.reader.threw
        /\ isMessage /\ ~ s.lost /\ ValidateChecksum(s.got) => s.got = Originals
    BY <1>1, <1>2, ReadOfField
  <1>6. accepted' \in BOOLEAN /\ (accepted' => isMessage /\ ~ s.lost /\ ValidateChecksum(s.got))
        /\ (isMessage /\ ~ s.lost /\ ValidateChecksum(s.got) => accepted')
    BY <1>2
  <1> HIDE DEF N, end, c
  <1>7. Agreed' => IsIntact(w) /\ ~ s.reader.unmasked /\ ~ FinishAfterBytes
    BY <1>2, <1>3 DEF Agreed
  <1>8. BitsOK'
    <2>1. TypeOK'
      <3>1. /\ packer.writeBit \in 0 .. w - 1 /\ packer.bitsLeft \in 0 .. w
            /\ packer.overflowed \in 0 .. BufferUnits - 1 /\ packer.segments = packer.overflowed
        BY <1>2, PackerOK DEF end
      <3>2. /\ s.reader.bitsRead \in 0 .. w - 1 /\ s.reader.bitsLeft \in 0 .. w /\ s.reader.threw \in BOOLEAN
            /\ s.got = [k \in 1 .. N |-> s.got[k]]
        BY <1>5 DEF IsReadingState, ReaderOK
      <3>3. Len(s.got) <= Len(values)
        <4>1. DOMAIN s.got = 1 .. N
          BY <3>2
        <4>2. s.got \in Seq({s.got[k] : k \in 1 .. N})
          <5> DEFINE T == {s.got[k] : k \in 1 .. N}
          <5>1. PICK m \in Nat : m = N
            BY <1>4
          <5>2. PICK g : g = s.got
            OBVIOUS
          <5>3. g = [k \in 1 .. m |-> g[k]] /\ \A k \in 1 .. m : g[k] \in T
            BY <3>2, <5>1, <5>2
          <5> HIDE DEF T
          <5>4. g \in Seq(T)
            BY ONLY <5>3, m \in Nat
          <5> QED BY <5>2, <5>4 DEF T
        <4>3. Len(s.got) = N
          BY <1>4, <4>1, <4>2
        <4> QED BY <1>4, <4>3 DEF N
      <3> QED BY <1>2, <1>3, <1>6, <3>1, <3>2, <3>3 DEF TypeOK
    <2>2. ReadsBack'
      BY <1>2, <1>3, <1>5, <1>7 DEF ReadsBack
    <2>3. EndsInStep'
      <3>1. SUFFICES ASSUME Agreed', Last(values').type # "flush"
                     PROVE  bitReader'.overflowed = packer'.overflowed /\ bitReader'.bitsRead = packer'.writeBit
        BY DEF EndsInStep
      <3>2. values[N].type # "flush"
        BY <1>3, <3>1 DEF Last, N
      <3>3. ReaderAt(s.reader, end)
        BY <1>5, <1>7, <3>1, <3>2
      <3> QED BY <1>2, <3>3 DEF ReaderAt, Standing
    <2>4. CountsWhatIsWritten'
      <3>1. packer.packed = packer.overflowed * w + packer.writeBit
        BY <1>2, PackerOK DEF end
      <3> QED BY <1>2, <1>3, <3>1 DEF CountsWhatIsWritten
    <2> QED BY <2>1, <2>2, <2>3, <2>4 DEF BitsOK
  <1>9. MessagesOK'
    <2>1. IntactIsAccepted'
      BY <1>2, <1>3, <1>5, <1>6, <1>7 DEF IntactIsAccepted
    <2>2. AcceptedIsIntact'
      BY <1>2, <1>3, <1>5, <1>6 DEF AcceptedIsIntact
    <2>3. EventsSurvive'
      <3>1. c.encoding \in Encodings /\ c.event \in SentEvents \cup {Nothing}
        BY <1>2, WireAssumption DEF c
      <3>2. layout'.content = c
        BY <1>2 DEF c
      <3>3. CASE accepted' /\ c # NoContent
        <4>1. event' = Deserialize(Serialize(c.encoding, c.event, "Ann"))
          BY <1>2, <3>3
        <4>2. /\ event' \notin {Nothing, Thrown} => event' = c.event
              /\ event' = Thrown => c.event = PingMessage /\ c.encoding # "json"
              /\ c.event.type \in {"PlayerMovedEventType", "StartNetworkLevel"} => event' = c.event
          BY <3>1, <4>1, EventRead
        <4> QED BY <3>2, <4>2 DEF EventsSurvive
      <3>4. CASE ~(accepted' /\ c # NoContent)
        <4>1. event' = Nothing /\ Nothing # Thrown
          BY <1>2, <3>4 DEF Nothing, Thrown
        <4>2. accepted' => c.event.type \notin {"PlayerMovedEventType", "StartNetworkLevel"}
          BY <3>4 DEF NoContent, Nothing
        <4> QED BY <3>2, <4>1, <4>2 DEF EventsSurvive
      <3> QED BY <3>3, <3>4
    <2> QED BY <2>1, <2>2, <2>3 DEF MessagesOK
  <1>10. Standing(w, packer, end, w - end.bit)' /\ IsBuffer(w, field)' /\ (flips' = 0 => IsIntact(w)')
    <2>1. IsIntact(w) => IsIntact(w)'
      BY <1>2, <1>3, SameIntact DEF IsIntact
    <2> QED BY <1>2, <1>3, <2>1 DEF end
  <1> QED BY <1>2, <1>8, <1>9, <1>10 DEF WireInv, end

LEMMA WireRests == WireInv /\ UNCHANGED wireVars => WireInv'
  <1> SUFFICES ASSUME WireInv, UNCHANGED wireVars PROVE WireInv'
    OBVIOUS
  <1> DEFINE end == EndOf(w, values, Len(values))
  <1>1. /\ layout' = layout /\ phase' = phase /\ packer' = packer /\ field' = field /\ bitReader' = bitReader
        /\ got' = got /\ flips' = flips /\ accepted' = accepted /\ event' = event
    BY DEF wireVars
  <1>2. w' = w /\ values' = values /\ (isMessage <=> isMessage') /\ Originals' = Originals
        /\ (FinishAfterBytes <=> FinishAfterBytes') /\ OldBuffer' = OldBuffer
    BY <1>1, SameLayout
  <1>3. IsIntact(w) => IsIntact(w)'
    BY <1>1, <1>2, SameIntact DEF IsIntact
  <1>4. Agreed <=> Agreed'
    BY <1>1, <1>2 DEF Agreed
  <1>5. BitsOK => BitsOK'
    BY <1>1, <1>2, <1>4 DEF BitsOK, TypeOK, ReadsBack, EndsInStep, CountsWhatIsWritten
  <1>6. MessagesOK => MessagesOK'
    BY <1>1, <1>2, <1>4 DEF MessagesOK, IntactIsAccepted, AcceptedIsIntact, EventsSurvive
  <1>7. (phase # "packing" => Standing(w, packer, end, w - end.bit) /\ IsBuffer(w, field)) =>
           (phase # "packing" => Standing(w, packer, end, w - end.bit) /\ IsBuffer(w, field))'
    BY <1>1, <1>2
  <1> QED BY <1>1, <1>2, <1>3, <1>5, <1>6, <1>7 DEF WireInv, end

LEMMA WireInvHolds == WireSpec => []WireInv
  <1>1. WireInv /\ [WireNext]_wireVars => WireInv'
    BY WireSends, WireFlips, WireReceives, WireRests DEF WireNext
  <1> QED BY <1>1, WireStarts, PTL DEF WireSpec

LEMMA InvBits == WireInv => BitsOK
  <1> SUFFICES ASSUME WireInv, phase # "read" PROVE BitsOK
    BY DEF WireInv
  <1>1. layout \in Layouts /\ bitReader = Reader(0) /\ got = <<>> /\ accepted = FALSE /\ flips \in 0 .. layout.maxFlips
        /\ phase \in {"packing", "sent", "read"}
    BY DEF WireInv
  <1>2. w \in Nat \ {0} /\ Len(values) \in Nat /\ BufferUnits \in Nat \ {0}
    <2>1. w \in Widths /\ Len(values) \in Nat /\ BufferUnits \in Nat /\ values \in Seq(ValuesOn(w)) /\ Fits(w, values)
      BY <1>1, LayoutFacts
    <2>2. 0 \in 0 .. Len(values) /\ EndOf(w, values, 0) = Place(0, 0)
      BY <2>1, EndOfEach
    <2>3. EndOf(w, values, 0).unit < BufferUnits
      BY <2>1, <2>2, FitsEach DEF FitsAt
    <2> QED BY <2>1, <2>2, <2>3 DEF Widths, Place
  <1>3. /\ packer.writeBit \in 0 .. w - 1 /\ packer.bitsLeft \in 0 .. w
        /\ packer.overflowed \in 0 .. BufferUnits - 1 /\ packer.segments = packer.overflowed
        /\ phase # "packing" => packer.packed = packer.overflowed * w + packer.writeBit
    <2>1. CASE phase = "packing"
      <3>1. packer = Packer(OldBuffer, w)
        BY <2>1 DEF WireInv
      <3>2. packer.writeBit = 0 /\ packer.bitsLeft = 0 /\ packer.overflowed = 0 /\ packer.segments = 0
        BY <3>1 DEF Packer
      <3> QED BY <1>2, <2>1, <3>2
    <2>2. CASE phase # "packing"
      BY <1>1, <2>2, PackerOK DEF WireInv
    <2> QED BY <2>1, <2>2
  <1>4. bitReader.bitsRead \in 0 .. w - 1 /\ bitReader.bitsLeft \in 0 .. w /\ bitReader.threw \in BOOLEAN /\ Len(got) <= Len(values)
    BY <1>1, <1>2 DEF Reader
  <1>5. TypeOK
    BY <1>1, <1>3, <1>4 DEF TypeOK
  <1> QED BY <1>3, <1>5 DEF BitsOK, ReadsBack, EndsInStep, CountsWhatIsWritten, Agreed

LEMMA InvMessages == WireInv => MessagesOK
  <1> SUFFICES ASSUME WireInv, phase # "read" PROVE MessagesOK
    BY DEF WireInv
  <1>1. accepted = FALSE /\ event = Nothing
    BY DEF WireInv
  <1> QED BY <1>1 DEF MessagesOK, IntactIsAccepted, Agreed, AcceptedIsIntact, EventsSurvive, Nothing, Thrown

(* Whatever values a layout has, in whatever order and however they lie    *)
(* across units of 8, 16 or 32 bits, BitfieldReader reads the bits that    *)
(* BitPacker packed and ends where it ended, if no bit was flipped and     *)
(* none was left unmasked; and as many bytes are sent as were written      *)
(* (BitPacker.h:31-167, BitfieldReader.h:33-180, BitPackingTypes.h).       *)
THEOREM BitsAreReadBack == WireSpec => []BitsOK
  BY WireInvHolds, InvBits, PTL

(* However many packets a message has, and of whatever lengths, it is      *)
(* accepted when it arrives as it was sent, and only then, however many    *)
(* bits are flipped (Message.cpp:16-98); and its event is the one that was *)
(* raised, in every encoding (SerializationManager.cpp:47-96).             *)
THEOREM MessagesArriveIntact == WireSpec => []MessagesOK
  BY WireInvHolds, InvMessages, PTL
=============================================================================
