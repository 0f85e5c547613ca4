------------------------------ MODULE Handshake ------------------------------
(***************************************************************************)
(* The exchange of public keys between game clients and the game server,   *)
(* without sequence numbers, bundles and buffers: what ReliableUdpSession  *)
(* does with sessions and with the types of messages.  It is finite        *)
(* without any bound, so that what must eventually happen can be asked of  *)
(* it, and ReliableUdpSession is checked to implement it.                  *)
(*                                                                         *)
(* A packet on the wire is the client it is from or for, a direction, a    *)
(* type, and a seal: the client whose session keys seal it, or NoClient    *)
(* for plaintext.  UDP may lose a packet, or deliver it and keep a copy.   *)
(***************************************************************************)
CONSTANTS
    Clients,
    NoClient,
    Lossy     \* whether the network loses packets

ASSUME HandshakeAssumption == NoClient \notin Clients /\ Lossy \in BOOLEAN

VARIABLES
    useEncryption,  \* the setting, the same on all sides; it never changes
    established,  \* established[c]: the sessionEstablished of client c
    peer,         \* the client the server has a session with, or NoClient
    down,         \* down[c]: the program of client c crashed
    wire          \* the packets under way

handshakeVars == <<useEncryption, established, peer, down, wire>>

Packets == [client : Clients, to : {"client", "server"},
            type : {"SendPubKey", "General", "Ack"}, seal : Clients \cup {NoClient}]

Seal(p) == IF useEncryption THEN p ELSE NoClient

ClientSeal(c) == Seal(IF established[c] THEN c ELSE NoClient)

ToServer(c, type, seal) == [client |-> c, to |-> "server", type |-> type, seal |-> seal]
ToClient(c, type, seal) == [client |-> c, to |-> "client", type |-> type, seal |-> seal]

(* Every variable keeps its type. *)
HandshakeTypeOK ==
    /\ useEncryption \in BOOLEAN
    /\ established \in [Clients -> BOOLEAN]
    /\ peer \in Clients \cup {NoClient}
    /\ down \in [Clients -> BOOLEAN]
    /\ wire \subseteq Packets

HandshakeInit ==
    /\ useEncryption \in BOOLEAN
    /\ established = [c \in Clients |-> FALSE]
    /\ peer = NoClient
    /\ down = [c \in Clients |-> FALSE]
    /\ wire = {}

(* Connect, and Send: the public key until there is a session, then data. *)
ClientSend(c) ==
    /\ ~down[c]
    /\ LET type == IF established[c] THEN "General" ELSE "SendPubKey"
       IN  wire' = wire \cup {ToServer(c, type, ClientSeal(c))}
    /\ UNCHANGED <<useEncryption, established, peer, down>>

(* A packet is heard: it leaves the wire, or a copy stays. *)
Heard(pkt, replies) == wire' \in {wire \cup replies, (wire \ {pkt}) \cup replies}

(* A side with a session unseals what it hears, one without does not. *)
ClientOpens(c, pkt) ==
    /\ ~down[c]
    /\ pkt \in wire /\ pkt.client = c /\ pkt.to = "client" /\ pkt.seal = ClientSeal(c)

(* Mutant: a server that cannot decrypt a packet reads it as it is. *)
ServerOpensAny(c, pkt) == pkt \in wire /\ pkt.client = c /\ pkt.to = "server"

ServerOpens(c, pkt) ==
    pkt \in wire /\ pkt.client = c /\ pkt.to = "server" /\ pkt.seal = Seal(peer)

ClientHearKey(c, pkt) ==
    /\ ClientOpens(c, pkt) /\ pkt.type = "SendPubKey"
    /\ established' = [established EXCEPT ![c] = TRUE]
    /\ Heard(pkt, {ToServer(c, "Ack", Seal(c))})
    /\ UNCHANGED <<useEncryption, peer, down>>

ClientHearAck(c, pkt) ==
    /\ ClientOpens(c, pkt) /\ pkt.type = "Ack"
    /\ Heard(pkt, {})
    /\ UNCHANGED <<useEncryption, established, peer, down>>

(* A lookup of what a packet names may fail, and the program with it. *)
ClientCrash(c, pkt) ==
    /\ ClientOpens(c, pkt)
    /\ down' = [down EXCEPT ![c] = TRUE]
    /\ Heard(pkt, {})
    /\ UNCHANGED <<useEncryption, established, peer>>

(* Mutant: the key is only acknowledged. *)
RepliesWithoutKey(c) == {ToClient(c, "Ack", Seal(peer))}

(* A key is acknowledged like data and answered with the server's own,     *)
(* both sealed with the session the server had before.                     *)
KeyReplies(c) == {ToClient(c, type, Seal(peer)) : type \in {"Ack", "SendPubKey"}}

(* Mutant: the server does not keep the session it answers for. *)
ServerHearKeyForgets(c, pkt) ==
    /\ ServerOpens(c, pkt) /\ pkt.type = "SendPubKey"
    /\ Heard(pkt, KeyReplies(c))
    /\ UNCHANGED <<useEncryption, established, peer, down>>

ServerHearKey(c, pkt) ==
    /\ ServerOpens(c, pkt) /\ pkt.type = "SendPubKey"
    /\ peer' = c
    /\ Heard(pkt, KeyReplies(c))
    /\ UNCHANGED <<useEncryption, established, down>>

ServerHearData(c, pkt) ==
    /\ ServerOpens(c, pkt) /\ pkt.type = "General"
    /\ Heard(pkt, {ToClient(c, "Ack", Seal(peer))})
    /\ UNCHANGED <<useEncryption, established, peer, down>>

ServerHearAck(c, pkt) ==
    /\ ServerOpens(c, pkt) /\ pkt.type = "Ack"
    /\ Heard(pkt, {})
    /\ UNCHANGED <<useEncryption, established, peer, down>>

Lose(pkt) ==
    /\ Lossy
    /\ wire' = wire \ {pkt}
    /\ UNCHANGED <<useEncryption, established, peer, down>>

HandshakeNext ==
    \/ \E c \in Clients :
          \/ ClientSend(c)
          \/ \E pkt \in wire :
                \/ ClientHearKey(c, pkt) \/ ClientHearAck(c, pkt) \/ ClientCrash(c, pkt)
                \/ ServerHearKey(c, pkt) \/ ServerHearData(c, pkt) \/ ServerHearAck(c, pkt)
    \/ \E pkt \in wire : Lose(pkt)

Safety == HandshakeInit /\ [][HandshakeNext]_handshakeVars

(* Every client keeps sending (its game sends in its loop), and a packet   *)
(* that is sent again and again is heard some time.                        *)
Fairness ==
    \A c \in Clients :
        /\ WF_handshakeVars(ClientSend(c))
        /\ SF_handshakeVars(\E pkt \in wire : ServerHearKey(c, pkt))
        /\ SF_handshakeVars(\E pkt \in wire : ClientHearKey(c, pkt))

HandshakeSpec == Safety /\ Fairness

-----------------------------------------------------------------------------
(* Without encryption every client gets its session ("Send our public key  *)
(* to server. Server should respond with theirs."), unless its program     *)
(* crashes first.  (With it, a reply that is lost cannot be asked for       *)
(* again: the server no longer opens a plaintext key.)                     *)
SessionEventually ==
    ~useEncryption => \A c \in Clients : <>(established[c] \/ down[c])

(* With encryption, a client that has a session is the one the server has  *)
(* its session with; without, the server has at least some session.        *)
ServerHasSession ==
    \A c \in Clients : established[c] => peer # NoClient /\ (useEncryption => peer = c)

(* No repeated or late packet takes a session back: a client keeps its     *)
(* own, and under encryption the server keeps its client.                  *)
SessionsLast ==
    [][/\ \A c \in Clients : established[c] => established'[c]
       /\ useEncryption /\ peer # NoClient => peer' = peer]_handshakeVars

(* A handshake agrees, and is well formed.                                 *)
SessionsOK == HandshakeTypeOK /\ ServerHasSession

-----------------------------------------------------------------------------
(* The inductive invariant behind SessionsOK and SessionsLast.             *)

(* What reaches the server is sealed by the client it comes from, if at    *)
(* all: nobody else has the keys.                                          *)
SealedByOwner == \A p \in wire : p.to = "server" => p.seal \in {NoClient, p.client}

(* The server's key travels only when the server has a session, and in the *)
(* clear, under encryption, only to the client of that session.            *)
KeysComeFromSessions ==
    \A p \in wire : p.to = "client" /\ p.type = "SendPubKey" =>
        /\ peer # NoClient
        /\ useEncryption /\ p.seal = NoClient => peer = p.client

HandshakeInv == SessionsOK /\ SealedByOwner /\ KeysComeFromSessions
=============================================================================
