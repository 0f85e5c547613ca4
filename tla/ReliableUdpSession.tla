-------------------------- MODULE ReliableUdpSession --------------------------
(***************************************************************************)
(* The game clients' ReliableUdpProtocolManager and the game server's      *)
(* ReliableUdpGameServerConnection: the exchange of public keys that       *)
(* establishes a session, the data, and the acknowledgements, over UDP.    *)
(*                                                                         *)
(* The server has ONE ReliableUdp object and ONE session, whichever client *)
(* a message comes from; each client has its own.                          *)
(*                                                                         *)
(* A message sealed with session keys opens only with the same keys; a     *)
(* receiver that has no session, or does not encrypt, reads the bytes of a *)
(* sealed message as a message and its checksum fails.  A message that     *)
(* does not open, or is damaged on the way, changes no state of these      *)
(* classes (what ReceiveInternal then returns to the game client is not    *)
(* modelled): it is like a lost one, and a lost message is one that is     *)
(* never received.                                                         *)
(***************************************************************************)
EXTENDS ReliableUdp, Sequences, FiniteSets

CONSTANTS
    Clients,
    Setups   \* the setups of a run: who plays, with which settings and bounds

Server == "server"
NoOne  == "no one"

ASSUME ClientsAssumption == Server \notin Clients /\ NoOne \notin Clients

ASSUME SetupsAssumption ==
    \A s \in Setups :
        /\ s.clients \subseteq Clients
        /\ s.useEncryption \in BOOLEAN  \* the setting, the same on both sides
        /\ s.repeats \in BOOLEAN        \* whether a message may be delivered twice
        /\ s.maxClientSeq \in Nat       \* bound: the sequence numbers a client uses
        /\ s.maxServerSeq \in Nat       \* bound: the sequence numbers the server uses
        /\ s.cutKeys \subseteq Clients \cup Nat  \* owners of keys cut on their way
        /\ s.memory \subseteq FreshBuffers       \* what the memory of a new ring holds

(* What a datum says.  A public key names its owner: a client, or the      *)
(* number of the key pair the server generated.                            *)
KeyText(owner) == <<"key", owner>>
DataText(c, n) == <<"data", <<c, n>>>>
AckText        == <<"ack", 0>>
NoText         == <<"none", 0>>

ASSUME NoTextAssumption == NoPayload = NoText

NoKeys == <<>>

VARIABLES
    setup,        \* one of Setups; it never changes
    clientUdp,    \* clientUdp[c]: the ReliableUdp object of client c
    connected,    \* connected[c]: Connect was called
    clientKeys,   \* clientKeys[c]: the session keys, NoKeys before the session
    clientDown,   \* clientDown[c]: c's program dereferenced a null pointer
    serverUdp,    \* the server's ReliableUdp object
    serverKeys,   \* the server's session keys, NoKeys before the session
    keyPairs,     \* how many key pairs the server generated
    serverDown,   \* the server's program dereferenced a null pointer
    net,          \* the messages that may still be received
    accepted,     \* observer: how many datums c's Send put in a General message
    raised        \* observer: the texts of the NetworkTrafficReceived events

clientVars == <<clientUdp, connected, clientKeys, clientDown, accepted>>
serverVars == <<serverUdp, serverKeys, keyPairs, serverDown, raised>>
vars == <<setup, clientVars, serverVars, net>>

(* The session keys a side derives come from its own key pair and the      *)
(* other's public key: they name the client, the server's key pair, and    *)
(* the side that has them alone.  Keys are sent as C strings, so one with  *)
(* a 0 byte before its last is cut there; its receiver copies 32 bytes all *)
(* the same, and what follows the text in its memory does not complete it. *)
ClientDerives(c, n) == <<c, n, IF n \in setup.cutKeys THEN "client" ELSE "shared">>
ServerDerives(c, n) == <<c, n, IF c \in setup.cutKeys THEN "server" ELSE "shared">>

(* Mutant: nothing is ever encrypted. *)
SealNothing(keys) == NoKeys

Seal(keys) == IF setup.useEncryption THEN keys ELSE NoKeys

Packet(from, to, keys, m) == [from |-> from, to |-> to, seal |-> Seal(keys), body |-> m]

Datum(text, acked) == [Sequence |-> 0, IsAcked |-> acked, payload |-> text, bytes |-> 1]

After(pkt) == IF setup.repeats THEN net ELSE net \ {pkt}

Init ==
    /\ setup \in Setups
    /\ clientUdp \in [Clients -> {FreshEndpoint(s, r) : s, r \in setup.memory}]
    /\ connected = [c \in Clients |-> FALSE]
    /\ clientKeys = [c \in Clients |-> NoKeys]
    /\ clientDown = [c \in Clients |-> FALSE]
    /\ serverUdp \in {FreshEndpoint(s, r) : s, r \in setup.memory}
    /\ serverKeys = NoKeys
    /\ keyPairs = 0
    /\ serverDown = FALSE
    /\ net = {}
    /\ accepted = [c \in Clients |-> 0]
    /\ raised = <<>>

-----------------------------------------------------------------------------
(* The client.                                                             *)

Fits(c, n) == clientUdp[c].sequence + n <= setup.maxClientSeq

(* SendInternal: number, bundle, seal if there is a session, send. *)
SendInternal(c, text, type) ==
    /\ Fits(c, 1)
    /\ clientUdp' = [clientUdp EXCEPT ![c] = AfterMarkSent(@, Datum(text, FALSE))]
    /\ net' = net \cup {Packet(c, Server, clientKeys[c],
                               MessageOf(clientUdp[c], Datum(text, FALSE), type))}

(* Connect: the socket, then the client's public key. *)
Connect(c) ==
    /\ ~connected[c]
    /\ connected' = [connected EXCEPT ![c] = TRUE]
    /\ SendInternal(c, KeyText(c), "SendPubKey")
    /\ UNCHANGED <<setup, serverVars, clientKeys, clientDown, accepted>>

(* Send without a session: the caller's data is not sent, now or later;    *)
(* the public key goes out instead.                                        *)
SendKeyInstead(c) ==
    /\ connected[c] /\ ~clientDown[c] /\ clientKeys[c] = NoKeys
    /\ SendInternal(c, KeyText(c), "SendPubKey")
    /\ UNCHANGED <<setup, serverVars, connected, clientKeys, clientDown, accepted>>

(* Mutant: Send does not look at the session. *)
SendDataAnyway(c) ==
    /\ connected[c] /\ ~clientDown[c]
    /\ SendInternal(c, DataText(c, accepted[c] + 1), "General")
    /\ accepted' = [accepted EXCEPT ![c] = @ + 1]
    /\ UNCHANGED <<setup, serverVars, connected, clientKeys, clientDown>>

(* Send with a session. *)
SendData(c) ==
    /\ connected[c] /\ ~clientDown[c] /\ clientKeys[c] # NoKeys
    /\ SendInternal(c, DataText(c, accepted[c] + 1), "General")
    /\ accepted' = [accepted EXCEPT ![c] = @ + 1]
    /\ UNCHANGED <<setup, serverVars, connected, clientKeys, clientDown>>

(* A message of net that c can open. *)
ClientOpens(c, pkt) ==
    /\ connected[c] /\ ~clientDown[c]
    /\ pkt.to = c /\ pkt.seal = Seal(clientKeys[c])

(* The dereferences of null that receiving m may run into: MarkReceived,   *)
(* and CalculateRttStats, which looks the SERVER's number of an ack up in  *)
(* the client's own send buffer.                                           *)
ClientCrashes(c, m) ==
    \/ DereferencesNull(clientUdp[c], m)
    \/ /\ m.messageType = "Ack"
       /\ ~Holds(AfterMarkReceived(clientUdp[c], m).SendBuffer, m.Sequence)

ClientCrash(c, pkt) ==
    /\ ClientOpens(c, pkt)
    /\ ClientCrashes(c, pkt.body)
    /\ clientDown' = [clientDown EXCEPT ![c] = TRUE]
    /\ net' = After(pkt)
    /\ UNCHANGED <<setup, serverVars, clientUdp, connected, clientKeys, accepted>>

(* An ack: nothing to do but the bookkeeping. *)
ClientReceiveAck(c, pkt) ==
    /\ ClientOpens(c, pkt)
    /\ ~ClientCrashes(c, pkt.body)
    /\ pkt.body.messageType = "Ack"
    /\ clientUdp' = [clientUdp EXCEPT ![c] = AfterMarkReceived(@, pkt.body)]
    /\ net' = After(pkt)
    /\ UNCHANGED <<setup, serverVars, connected, clientKeys, clientDown, accepted>>

FirstText(m) == (CHOOSE d \in m.data : d.Sequence = m.Sequence).payload  \* Data()[0]

(* Mutant: SendAck does not number its own message. *)
NoGhost(heard) == heard

(* SendAck first calls MarkSent for a pre-acked datum whose message is     *)
(* thrown away: it only takes a number and a slot of the send buffer.      *)
Ghost(heard) == AfterMarkSent(heard, Datum(AckText, TRUE))

(* The server's public key: the session keys are derived, the session      *)
(* flag is set, and the message is acknowledged: SendInternal numbers and  *)
(* sends an empty datum, sealed with the new keys.                         *)
ClientReceiveKey(c, pkt) ==
    LET m     == pkt.body
        keys  == ClientDerives(c, FirstText(m)[2])
        heard == AfterMarkReceived(clientUdp[c], m)
        ghost == Ghost(heard)
    IN
    /\ ClientOpens(c, pkt)
    /\ ~ClientCrashes(c, m)
    /\ m.messageType = "SendPubKey"
    /\ Fits(c, 2)
    /\ clientKeys' = [clientKeys EXCEPT ![c] = keys]
    /\ clientUdp' = [clientUdp EXCEPT ![c] = AfterMarkSent(ghost, Datum(NoText, FALSE))]
    /\ net' = After(pkt) \cup
              {Packet(c, Server, keys, MessageOf(ghost, Datum(NoText, FALSE), "Ack"))}
    /\ UNCHANGED <<setup, serverVars, connected, clientDown, accepted>>

-----------------------------------------------------------------------------
(* The server: CheckForPlayerTraffic.                                      *)

(* Mutant: a server that cannot decrypt a message reads it as it is. *)
ServerOpensAny(pkt) == ~serverDown /\ pkt.to = Server

ServerOpens(pkt) == ~serverDown /\ pkt.to = Server /\ pkt.seal = Seal(serverKeys)

ServerCrash(pkt) ==
    /\ ServerOpens(pkt)
    /\ DereferencesNull(serverUdp, pkt.body)
    /\ serverDown' = TRUE
    /\ net' = After(pkt)
    /\ UNCHANGED <<setup, clientVars, serverUdp, serverKeys, keyPairs, raised>>

ServerReceiveAck(pkt) ==
    /\ ServerOpens(pkt)
    /\ ~DereferencesNull(serverUdp, pkt.body)
    /\ pkt.body.messageType = "Ack"
    /\ serverUdp' = AfterMarkReceived(serverUdp, pkt.body)
    /\ net' = After(pkt)
    /\ UNCHANGED <<setup, clientVars, serverKeys, keyPairs, serverDown, raised>>

(* RaiseNetworkTrafficReceivedEvent for every datum of the message, from   *)
(* the last, which has the lowest number, to the first.                    *)
Texts(m) ==
    [i \in 1 .. Cardinality(m.data) |->
        (CHOOSE d \in m.data :
            Cardinality({x \in m.data : x.Sequence < d.Sequence}) = i - 1).payload]

ServerAck(heard, pkt) ==
    Packet(Server, pkt.from, serverKeys, MessageOf(heard, Datum(AckText, FALSE), "Ack"))

ServerReceiveData(pkt) ==
    LET heard == AfterMarkReceived(serverUdp, pkt.body) IN
    /\ ServerOpens(pkt)
    /\ ~DereferencesNull(serverUdp, pkt.body)
    /\ pkt.body.messageType = "General"
    /\ serverUdp.sequence + 1 <= setup.maxServerSeq
    /\ raised' = raised \o Texts(pkt.body)
    /\ serverUdp' = AfterMarkSent(heard, Datum(AckText, FALSE))
    /\ net' = After(pkt) \cup {ServerAck(heard, pkt)}
    /\ UNCHANGED <<setup, clientVars, serverKeys, keyPairs, serverDown>>

NewKeyPair == keyPairs + 1

(* A client's public key: it is raised and acknowledged like data, then a  *)
(* new key pair is made and its public key sent with the keys of the       *)
(* session so far; only then are the new session keys derived.             *)
ServerReceiveKey(pkt) ==
    LET m     == pkt.body
        heard == AfterMarkReceived(serverUdp, m)
        acked == AfterMarkSent(heard, Datum(AckText, FALSE))
        key   == Datum(KeyText(NewKeyPair), FALSE)
    IN
    /\ ServerOpens(pkt)
    /\ ~DereferencesNull(serverUdp, m)
    /\ m.messageType = "SendPubKey"
    /\ serverUdp.sequence + 2 <= setup.maxServerSeq
    /\ raised' = raised \o Texts(m)
    /\ serverUdp' = AfterMarkSent(acked, key)
    /\ net' = After(pkt) \cup
              {ServerAck(heard, pkt),
               Packet(Server, pkt.from, serverKeys, MessageOf(acked, key, "SendPubKey"))}
    /\ keyPairs' = keyPairs + 1
    /\ serverKeys' = ServerDerives(FirstText(m)[2], NewKeyPair)
    /\ UNCHANGED <<setup, clientVars, serverDown>>

-----------------------------------------------------------------------------
Next ==
    \/ \E c \in setup.clients : Connect(c) \/ SendKeyInstead(c) \/ SendData(c)
    \/ \E c \in setup.clients, pkt \in net :
          ClientCrash(c, pkt) \/ ClientReceiveAck(c, pkt) \/ ClientReceiveKey(c, pkt)
    \/ \E pkt \in net :
          ServerCrash(pkt) \/ ServerReceiveAck(pkt) \/ ServerReceiveData(pkt)
              \/ ServerReceiveKey(pkt)

Spec == Init /\ [][Next]_vars

-----------------------------------------------------------------------------
AllTexts == ({"key"} \X (Clients \cup Nat)) \cup ({"data"} \X (Clients \X Nat))
            \cup {AckText, NoText}

Holders == {"client", "server", "shared"}

Keys == {NoKeys} \cup (Clients \X Nat \X Holders)

Datums(texts) == [Sequence : Seqs, IsAcked : BOOLEAN, payload : texts, bytes : {0, 1}]

Buffers(texts) == [Slots -> [tag : {Unset} \cup Seqs, datum : Datums(texts)]]

(* An endpoint whose side sends only these texts; it may hear any. *)
Endpoints(texts) == [sequence : Seqs, lastAcked : Seqs,
                     SendBuffer : Buffers(texts), ReceiveBuffer : Buffers(AllTexts)]

Messages(texts) == [Sequence : Seqs, LastAckedSequence : Seqs,
                    LastAckedBits : SUBSET (0 .. AckBits - 1),
                    messageType : {"SendPubKey", "General", "Ack"},
                    data : SUBSET Datums(texts)]

Packets == [from : Clients \cup {Server}, to : Clients \cup {Server},
            seal : Keys, body : Messages(AllTexts)]

(* Every variable keeps its type: the handlers only ever put texts of the  *)
(* protocol into messages and buffers, under keys of one client and one    *)
(* key pair of the server.                                                 *)
TypeOK ==
    /\ setup \in Setups
    /\ clientUdp \in [Clients -> Endpoints(AllTexts)] /\ serverUdp \in Endpoints(AllTexts)
    /\ connected \in [Clients -> BOOLEAN]
    /\ clientDown \in [Clients -> BOOLEAN]
    /\ clientKeys \in [Clients -> Keys] /\ serverKeys \in Keys
    /\ keyPairs \in Nat /\ serverDown \in BOOLEAN
    /\ net \subseteq Packets
    /\ accepted \in [Clients -> Nat]
    /\ raised \in Seq(AllTexts)

(* With encryption, a client that has session keys has them from the       *)
(* exchange the server has its own from, and they are the server's if, and *)
(* only if, neither of the two public keys was cut: no order of repeated   *)
(* keys, replies and acknowledgements pairs keys of different exchanges,   *)
(* and a cut key leaves two sides that never open what the other seals     *)
(* (PacketDatum.cpp:9, ReliableUdpProtocolManager.cpp:181,                 *)
(* ReliableUdpGameServerConnection.cpp:139).                               *)
KeysAgree ==
    setup.useEncryption =>
        \A c \in Clients : clientKeys[c] # NoKeys =>
            /\ serverKeys # NoKeys
            /\ serverKeys[1] = c /\ serverKeys[2] = clientKeys[c][2]
            /\ (serverKeys = clientKeys[c])
                  <=> (c \notin setup.cutKeys /\ serverKeys[2] \notin setup.cutKeys)

(* With encryption, no datum of a caller ever leaves a client unsealed,    *)
(* neither first nor bundled with a later message.  (Send: "Do not send    *)
(* the data if the session is not encrypted.")                             *)
NoDataInTheClear ==
    setup.useEncryption =>
        \A pkt \in net, c \in Clients, n \in 1 .. setup.maxClientSeq :
            (\E d \in pkt.body.data : d.payload = DataText(c, n)) => pkt.seal # NoKeys

TextAt(e, s) == Get(e.SendBuffer, s).payload

(* A datum of a client that its send buffer holds as acknowledged, so that *)
(* it is not sent again, was handed to the server's game: it was raised as *)
(* a NetworkTrafficReceived event.                                         *)
AckedDataWasRaised ==
    \A c \in Clients, i \in Slots, n \in 1 .. setup.maxClientSeq :
        LET d == clientUdp[c].SendBuffer[i].datum IN
        d.IsAcked /\ d.payload = DataText(c, n)
            => \E j \in DOMAIN raised : raised[j] = d.payload

(* An object finds, in memory it never wrote, a number that its peer's     *)
(* SendAck took for a message it threw away.                               *)
FindsGhost(e, peer) ==
    \E s \in 1 .. peer.sequence :
        /\ Holds(peer.SendBuffer, s) /\ TextAt(peer, s) = AckText
        /\ Holds(e.ReceiveBuffer, s)

(* So it is while one client plays: the acknowledgement of its number is   *)
(* then never one for somebody else's.  The exception is a ghost found by  *)
(* chance: GenerateAcknowledgedBits (ReliableUdp.cpp:103-123) stops at a   *)
(* number it does not hold, and the ghosts are what stops it before data   *)
(* that came bundled with an acknowledgement and was not raised.           *)
AloneAckedDataWasRaised ==
    Cardinality(setup.clients) = 1 =>
        AckedDataWasRaised \/ \E c \in setup.clients : FindsGhost(serverUdp, clientUdp[c])

(* With encryption, and while the network repeats nothing, no client's     *)
(* program follows a null pointer: what a message names, a client that     *)
(* receives it still has in its send buffer.  (A key that is heard twice,  *)
(* because it arrived twice or, without encryption, because the client     *)
(* sent it again, makes the server send more than the client has numbers   *)
(* for, and CalculateRttStats finds nothing.)                              *)
ClientsStayUp ==
    setup.useEncryption /\ ~setup.repeats => \A c \in Clients : ~clientDown[c]

(* Nor does the server's. *)
ServerStaysUp == ~serverDown

(* Both programs stay up, with every variable of its type, through keys,   *)
(* data and acknowledgements in any order                                  *)
(* (ReliableUdp.cpp:54, 71, PacketDatumUtils.h:37-39).                     *)
EndpointsOK == TypeOK /\ ServerStaysUp /\ ClientsStayUp

-----------------------------------------------------------------------------
(* The session as Handshake sees it. *)
Owner(keys) == IF keys = NoKeys THEN NoOne ELSE keys[1]

OnWire(pkt) ==
    [client |-> IF pkt.from = Server THEN pkt.to ELSE pkt.from,
     to     |-> IF pkt.to = Server THEN "server" ELSE "client",
     type   |-> pkt.body.messageType,
     seal   |-> Owner(pkt.seal)]

HS == INSTANCE Handshake
          WITH useEncryption <- setup.useEncryption,
               established <- [c \in Clients |-> clientKeys[c] # NoKeys],
               peer  <- Owner(serverKeys),
               down  <- clientDown,
               wire  <- {OnWire(pkt) : pkt \in net},
               NoClient <- NoOne,
               Lossy <- FALSE

(* With sequence numbers, bundles, pre-acked datums and null pointers the  *)
(* two classes do no more with sessions than Handshake says.               *)
HandshakeSafety == HS!Safety

-----------------------------------------------------------------------------
(* The invariants behind KeysAgree, NoDataInTheClear and HandshakeSafety.  *)

(* No side uses a number, and the server's ring a slot, twice. *)
NoWraparound == \A s \in Setups : s.maxClientSeq < SeqModulus /\ s.maxServerSeq < SeqModulus
NoOverwriting == \A s \in Setups : s.maxClientSeq <= BufferSize /\ s.maxServerSeq <= BufferSize

(* What the two sides say; a client without a session says nothing of its  *)
(* caller's.                                                               *)
ServerTexts == {AckText, NoText} \cup ({"key"} \X Nat)
PlainTexts(c) == {AckText, NoText, KeyText(c)}
ClientTexts(c) == PlainTexts(c) \cup ({"data"} \X ({c} \X Nat))
KeysOf(c) == {c} \X Nat \X Holders

(* A datum that is found under a number that was given has that number. *)
Genuine(e) ==
    \A s \in 0 .. e.sequence : Holds(e.SendBuffer, s) => Get(e.SendBuffer, s).Sequence = s

(* What each object keeps to send again is of its own side. *)
OwnTexts ==
    /\ Genuine(serverUdp) /\ serverUdp \in Endpoints(ServerTexts)
    /\ \A c \in Clients :
          /\ Genuine(clientUdp[c])
          /\ clientUdp[c] \in Endpoints(IF clientKeys[c] = NoKeys THEN PlainTexts(c)
                                                              ELSE ClientTexts(c))

(* The datums of a message have numbers of their own, and the first is the *)
(* one the message is named for.                                           *)
WellNumbered(m) ==
    /\ \A d, x \in m.data : d.Sequence = x.Sequence => d = x
    /\ \E d \in m.data : d.Sequence = m.Sequence

FromClient(pkt) ==
    /\ pkt.from \in Clients /\ pkt.to = Server
    /\ pkt.seal \in {NoKeys} \cup KeysOf(pkt.from)
    /\ pkt.body \in Messages(IF setup.useEncryption /\ pkt.seal = NoKeys
                             THEN PlainTexts(pkt.from) ELSE ClientTexts(pkt.from))
    /\ pkt.body.messageType = "SendPubKey" => FirstText(pkt.body) = KeyText(pkt.from)

FromServer(pkt) ==
    /\ pkt.from = Server /\ pkt.to \in Clients
    /\ pkt.seal \in Keys /\ pkt.body \in Messages(ServerTexts)
    /\ pkt.body.messageType = "SendPubKey" =>
          FirstText(pkt.body) \in {"key"} \X Nat

OwnPackets == \A pkt \in net : WellNumbered(pkt.body) /\ (FromClient(pkt) \/ FromServer(pkt))

(* A session is with oneself, and with somebody who connected. *)
OwnKeys ==
    \A c \in Clients : /\ clientKeys[c] \in {NoKeys} \cup KeysOf(c)
                       /\ clientKeys[c] # NoKeys \/ clientDown[c] => connected[c]

(* With encryption keys travel in the clear only, and the server's names   *)
(* the key pair and the client of its session: it answered the first key   *)
(* it heard, and opens no other.                                           *)
KeysInTheClear ==
    setup.useEncryption =>
        \A pkt \in net : pkt.body.messageType = "SendPubKey" =>
            /\ pkt.seal = NoKeys
            /\ pkt.from = Server =>
                  serverKeys = ServerDerives(pkt.to, FirstText(pkt.body)[2])

SessionInv ==
    /\ TypeOK /\ OwnTexts /\ OwnPackets /\ OwnKeys
    /\ KeysInTheClear /\ KeysAgree

-----------------------------------------------------------------------------
(* The invariants behind EndpointsOK.                                      *)

(* The endpoint has all it sent. *)
AllHeld(e) == \A s \in 1 .. e.sequence : Holds(e.SendBuffer, s)

(* The endpoint heard no number above n, the message names none to its     *)
(* receiver, and is numbered by none.                                      *)
HeardUpTo(e, n) ==
    /\ e.lastAcked <= n
    /\ \A i \in Slots : e.ReceiveBuffer[i].datum.IsAcked => e.ReceiveBuffer[i].tag \in 1 .. n
NamesUpTo(m, n) == m.LastAckedSequence <= n /\ NamedByBits(m) \subseteq 1 .. n
NumberedUpTo(m, n) == m.Sequence \in 1 .. n /\ \A d \in m.data : d.Sequence \in 1 .. n

(* The server has what its clients can name. *)
ServerHolds ==
    /\ AllHeld(serverUdp)
    /\ \A c \in Clients : HeardUpTo(clientUdp[c], serverUdp.sequence)
    /\ \A pkt \in net : IF pkt.from = Server
                        THEN NumberedUpTo(pkt.body, serverUdp.sequence)
                        ELSE NamesUpTo(pkt.body, serverUdp.sequence)

(* With encryption only keys travel in the clear, so the server hears only *)
(* the client of its session, and names to it what it has.                 *)
SessionClientHolds ==
    /\ \A c \in Clients : AllHeld(clientUdp[c])
    /\ \A pkt \in net : pkt.from # Server =>
          /\ NumberedUpTo(pkt.body, clientUdp[pkt.from].sequence)
          /\ pkt.seal = NoKeys => pkt.body.messageType = "SendPubKey"
    /\ IF serverKeys = NoKeys
       THEN HeardUpTo(serverUdp, 0) /\ \A pkt \in net : pkt.from # Server
       ELSE /\ HeardUpTo(serverUdp, clientUdp[serverKeys[1]].sequence)
            /\ \A pkt \in net : pkt.from = Server =>
                  pkt.to = serverKeys[1] /\ NamesUpTo(pkt.body, clientUdp[pkt.to].sequence)

DataUnderWay == {pkt \in net : pkt.body.messageType = "General"}

(* With encryption, and while the network repeats nothing, the client of   *)
(* the session is ahead of the server: the server takes two numbers for    *)
(* the key and one for a datum, the client three and one.                  *)
ClientIsAhead ==
    /\ \A c \in Clients :
          /\ connected[c] => clientUdp[c].sequence >= 1
          /\ IF clientKeys[c] = NoKeys THEN accepted[c] = 0
             ELSE clientUdp[c].sequence >= accepted[c] + 3
    /\ IsFiniteSet(DataUnderWay)
    /\ IF serverKeys = NoKeys THEN serverUdp.sequence = 0 /\ DataUnderWay = {}
       ELSE serverUdp.sequence + Cardinality(DataUnderWay) <= accepted[serverKeys[1]] + 2
    /\ \A pkt \in net :
          pkt.from = Server /\ pkt.body.messageType = "Ack" /\ pkt.seal = NoKeys
              => pkt.body.Sequence = 1

StaysUpInv ==
    /\ ServerHolds /\ ServerStaysUp /\ ClientsStayUp
    /\ setup.useEncryption => SessionClientHolds
    /\ setup.useEncryption /\ ~setup.repeats => ClientIsAhead

-----------------------------------------------------------------------------
(* The invariants behind AloneAckedDataWasRaised.                          *)

(* If the text is a caller's, it is in the log of what was raised; or all  *)
(* is lost, for a ghost was found.                                         *)
Told(log, text) ==
    text[1] = "data" => log.ghost \/ \E j \in DOMAIN log.raised : log.raised[j] = text

LogOf(c) == [raised |-> raised, ghost |-> FindsGhost(serverUdp, clientUdp[c])]

(* A client's object has all it sent; what it keeps as acknowledged was    *)
(* raised, and its ghosts were acknowledged from the start.                *)
Spoken(e, log) ==
    /\ AllHeld(e)
    /\ \A i \in Slots :
          /\ e.SendBuffer[i].tag \notin 1 .. e.sequence
                => e.SendBuffer[i].datum.payload[1] # "data"
          /\ e.SendBuffer[i].datum.IsAcked => Told(log, e.SendBuffer[i].datum.payload)
    /\ \A s \in 1 .. e.sequence : TextAt(e, s) = AckText => Get(e.SendBuffer, s).IsAcked

(* Its messages say what it keeps, never a ghost; the number before that   *)
(* of its acknowledgement, which bundles data that the server stores and   *)
(* does not raise, is a ghost's.                                           *)
SaidBy(m, e) ==
    /\ m.Sequence \in 1 .. e.sequence
    /\ \A d \in m.data : /\ d.Sequence \in 1 .. m.Sequence
                         /\ d.payload = TextAt(e, d.Sequence) /\ d.payload # AckText
    /\ m.messageType = "Ack" =>
          /\ TextAt(e, m.Sequence) = NoText
          /\ m.Sequence - 1 \in 1 .. e.sequence /\ TextAt(e, m.Sequence - 1) = AckText

(* What the server heard of the client, and did not raise, has a ghost     *)
(* between it and the last number the server acknowledges: the bits stop   *)
(* there.                                                                  *)
HeardOf(e, peer, log) ==
    /\ e.lastAcked \in 0 .. peer.sequence
    /\ e.lastAcked # 0 => Told(log, TextAt(peer, e.lastAcked))
    /\ \A i \in Slots :
          LET s == e.ReceiveBuffer[i].tag IN
          IF e.ReceiveBuffer[i].datum.IsAcked
          THEN /\ s \in 1 .. e.lastAcked /\ TextAt(peer, s) # AckText
               /\ \/ Told(log, TextAt(peer, s))
                  \/ \E g \in s + 1 .. e.lastAcked - 1 : TextAt(peer, g) = AckText
          ELSE s \in {Unset} \cup Garbage

(* What a message of the server names was raised. *)
NamesTold(m, peer, log) ==
    /\ NamesUpTo(m, peer.sequence)
    /\ \A s \in NamedByBits(m) \cup ({m.LastAckedSequence} \ {0}) : Told(log, TextAt(peer, s))

AloneWith(c) ==
    /\ clientUdp[c].sequence <= setup.maxClientSeq
    /\ Spoken(clientUdp[c], LogOf(c)) /\ HeardOf(serverUdp, clientUdp[c], LogOf(c))
    /\ \A pkt \in net : IF pkt.from = Server THEN NamesTold(pkt.body, clientUdp[c], LogOf(c))
                        ELSE pkt.from = c /\ SaidBy(pkt.body, clientUdp[c])

AloneInv ==
    /\ \A x \in Clients \ setup.clients : clientKeys[x] = NoKeys
    /\ \A c \in Clients : setup.clients = {c} => AloneWith(c)
=============================================================================
