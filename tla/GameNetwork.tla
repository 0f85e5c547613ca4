----------------------------- MODULE GameNetwork -----------------------------
(***************************************************************************)
(* A game server and its clients without the reliability layer: GameServer *)
(* over TcpGameServerConnection or UdpGameServerConnection, and GameClient *)
(* over TcpNetworkSocket or UdpConnectedNetworkSocket, each in a process   *)
(* of its own.  A TCP connection keeps the order of its records; datagrams *)
(* are lost, repeated and reordered.                                       *)
(*                                                                         *)
(* A message is its type, its target (the JSON's "nickname"), who wrote it *)
(* and its length.  The length matters because some receive buffers are    *)
(* never cleared: a message that is shorter than an earlier one is parsed  *)
(* with the earlier one's tail behind it, which is not JSON, and           *)
(* GetMessageHeader throws through the game loop.                          *)
(***************************************************************************)
EXTENDS Naturals, Sequences, SequencesExt, FiniteSets

CONSTANTS
    Clients,
    NickName,     \* NickName[c]: the client's nickname in its settings
    ServerName,   \* the server's own nickname
    Networks      \* the networks of a run: transport, ports, lengths and bounds

Transports == {"tcp", "udp"}
Server == "server"

ASSUME GameNetworkAssumption ==
    /\ DOMAIN NickName = Clients /\ IsInjective(NickName)
    /\ \A c \in Clients : NickName[c] # ServerName /\ NickName[c] # ""
    /\ Server \notin Clients
    /\ \A n \in Networks :
        /\ n.transport \in Transports
        /\ DOMAIN n.port = Clients  \* as the server sees it; two hosts may use one
        /\ n.watched \in Nat    \* players' sockets that select can look at
        /\ n.lengths \subseteq Nat \ {0} /\ IsFiniteSet(n.lengths)
        /\ n.maxSends \in Nat    \* bound: messages after the registrations
        /\ n.maxCopies \in Nat   \* bound: datagrams the network repeats

VARIABLES
    net,           \* one of Networks; it never changes
    server,        \* "up", "failed" by an exception or a signal, or "stopped"
    players,       \* the players the server knows
    frame,         \* the players the current Listen still has to look at
    backlog,       \* connections that are not accepted yet
    toServer, toClient,
    link,          \* link[c]: the state of the client's socket
    disconnected,  \* isDisconnectedFromGameServer
    running,       \* the clients whose process runs
    longest,       \* the longest message a readBuffer has held
    sends, copies, \* counters for the bounds
    heard,         \* observer: the messages a client put on its event stack
    owed, given,   \* observers: what was to be passed on to a client, and what was sent
    named          \* observer: <<identifier, client>> of the server's traffic events

serverVars == <<server, players, frame, backlog>>
clientVars == <<link, disconnected, running>>
wires      == <<toServer, toClient, copies>>
observers  == <<heard, owed, given, named>>
netVars == <<net, serverVars, clientVars, wires, longest, sends, observers>>

tcp == net.transport = "tcp"
Port == net.port

Message(type, target, from, length, id) ==
    [type |-> type, target |-> target, from |-> from, length |-> length, id |-> id]
Details(c, length) == Message("requestPlayerDetails", NickName[c], c, length, 0)
Pong(length)       == Message("pong", "", Server, length, 0)

NetworkInit ==
    /\ net \in Networks
    /\ server = "up" /\ players = <<>> /\ frame = {} /\ backlog = <<>>
    /\ toServer = [c \in Clients |-> <<>>] /\ toClient = [c \in Clients |-> <<>>]
    /\ link = [c \in Clients |-> "none"]
    /\ disconnected = [c \in Clients |-> TRUE] /\ running = Clients
    /\ longest = [p \in Clients \cup {Server} |-> 0] /\ sends = 0 /\ copies = 0
    /\ heard = [c \in Clients |-> <<>>] /\ owed = [c \in Clients |-> {}]
    /\ given = [c \in Clients |-> {}] /\ named = {}

-----------------------------------------------------------------------------
(* Sockets, as the code meets them. *)

(* The links over which the peer's process still reads. *)
Alive(c) == link[c] = "open" \/ ~tcp

(* What is in the server's or a client's buffer parses as one message. *)
Parses(reader, m) == m.length >= longest[reader]

(* TcpGameServerConnection clears its buffer before every read. *)
UnclearedParses(m) == Parses(Server, m)
ServerParses(m) == tcp \/ Parses(Server, m)

Held(reader, m) ==
    longest' = [longest EXCEPT ![reader] = IF @ < m.length THEN m.length ELSE @]

(* GetMessageHeader throws, and nobody catches it. *)
Throws == server' = "failed" /\ UNCHANGED <<toClient, given, link, owed>>

(* The calls of send, by the players they are made for: to[p] is the       *)
(* client at the other end, who may get several copies.  On a connection   *)
(* whose client is gone the signal SIGPIPE may end the process, or the     *)
(* call eats the pending error.                                            *)
Copies(m, c, to) == [i \in 1 .. Cardinality({p \in DOMAIN to : to[p] = c}) |-> m]

ServerSends(to, m) ==
    /\ toClient' = [c \in Clients |->
         IF Alive(c) /\ c \in running THEN toClient[c] \o Copies(m, c, to) ELSE toClient[c]]
    /\ given' = [c \in Clients |-> given[c] \cup {x \in {m} : c \in Range(to)}]
    /\ LET gone == {c \in Range(to) : ~Alive(c)} IN
        /\ link' = [c \in Clients |-> IF c \in gone THEN "client ended" ELSE link[c]]
        /\ server' \in {"up"} \cup {x \in {"failed"} : gone # {}}

-----------------------------------------------------------------------------
(* GameClient. *)

(* Connect, SendPlayerDetails: the details go out before the flag is set,  *)
(* and nobody waits for an answer.                                         *)
Connect(c) ==
    /\ c \in running /\ link[c] = "none" /\ server = "up"
    /\ link' = [link EXCEPT ![c] = "open"]
    /\ backlog' = IF tcp THEN Append(backlog, c) ELSE backlog
    /\ \E n \in net.lengths :
        toServer' = [toServer EXCEPT ![c] = Append(@, Details(c, n))]
    /\ disconnected' = [disconnected EXCEPT ![c] = FALSE]
    /\ UNCHANGED <<net, server, players, frame, running, toClient, copies, longest,
                   sends, observers>>

(* InternalSend, by HandleEvent for an event of the client's own game or   *)
(* by PingGameServer.  Neither looks at the flag.  A failed ping closes    *)
(* the socket and leaves the flag alone.                                   *)
ClientSends(c, type) ==
    /\ c \in running /\ sends < net.maxSends
    /\ sends' = sends + 1
    /\ \/ /\ link[c] = "open"
          /\ \E n \in net.lengths :
              LET m == Message(type, IF type = "ping" THEN "" ELSE NickName[c], c, n, sends')
              IN  toServer' = [toServer EXCEPT ![c] = Append(@, m)]
          /\ UNCHANGED <<link, running>>
       \/ /\ link[c] \in {"server ended", "server reset"}
          /\ \/ link' = [link EXCEPT ![c] = IF type = "ping" THEN "closed" ELSE "server ended"]
                /\ UNCHANGED running
             \/ running' = running \ {c} /\ UNCHANGED link
          /\ UNCHANGED toServer
    /\ UNCHANGED <<net, serverVars, disconnected, toClient, copies, longest, observers>>

(* The client's process ends.  The server finds the end of the stream, or  *)
(* a reset when something was left unread.                                 *)
Ends(c) ==
    /\ running' = running \ {c}
    /\ link' = [link EXCEPT ![c] =
         IF @ # "open" \/ ~tcp THEN @
         ELSE IF toClient[c] = <<>> THEN "client ended" ELSE "client reset"]
    /\ toClient' = [toClient EXCEPT ![c] = <<>>]

(* The server asks for nobody's details, and a pong is no event. *)
IsEvent(m) == m.type \in {"PlayerMoved", "StartNetworkLevel"}

(* Message i of a queue is taken, and rest stays: the first one from the   *)
(* stream of a TcpNetworkSocket, any one from a UdpConnectedNetworkSocket, *)
(* and perhaps the network delivers that datagram again.                   *)
Taken(queue, i, rest) ==
    /\ tcp => i = 1
    /\ \/ rest = RemoveAt(queue, i) /\ UNCHANGED copies
       \/ ~tcp /\ copies < net.maxCopies /\ copies' = copies + 1 /\ rest = queue

(* Read, CheckSocketForTraffic and ParseReceivedServerPayload. *)
Read(c) ==
    /\ c \in running /\ ~disconnected[c]
    /\ link[c] \in {"open", "server ended", "server reset"}
    /\ \E i \in DOMAIN toClient[c] :
        LET m == toClient[c][i] IN
        /\ Held(c, m)
        /\ \/ /\ Parses(c, m)
              /\ \E rest \in {RemoveAt(toClient[c], i), toClient[c]} :
                    Taken(toClient[c], i, rest) /\ toClient' = [toClient EXCEPT ![c] = rest]
              /\ heard' = [heard EXCEPT ![c] = IF IsEvent(m) THEN Append(@, m) ELSE @]
              /\ UNCHANGED <<link, running>>
           \/ ~Parses(c, m) /\ (tcp => i = 1) /\ Ends(c) /\ UNCHANGED <<copies, heard>>
    /\ UNCHANGED <<net, serverVars, disconnected, toServer, sends, owed, given, named>>

(* The other outcome: the connection was reset.  The end of the stream is  *)
(* no error, and nothing happens then.                                     *)
IsReset(c) == toClient[c] = <<>> /\ link[c] = "server reset"

ReadReset(c) ==
    /\ c \in running /\ ~disconnected[c] /\ IsReset(c)
    /\ disconnected' = [disconnected EXCEPT ![c] = TRUE]
    /\ link' = [link EXCEPT ![c] = "server ended"]
    /\ UNCHANGED <<net, serverVars, running, wires, longest, sends, observers>>

Leave(c) ==
    /\ c \in running /\ link[c] # "none" /\ Ends(c)
    /\ UNCHANGED <<net, serverVars, disconnected, toServer, copies, longest, sends, observers>>

-----------------------------------------------------------------------------
(* GameServer over TCP. *)

(* select is given the literal 5 for nfds, and accept gives the lowest     *)
(* descriptor that is free; that of a player found reset is, since its     *)
(* shutdown fails and it is closed.                                        *)
InSelect == {p \in DOMAIN players : players[p].isConnected /\ players[p].isWatched}
GetsWatched == Cardinality(InSelect) < net.watched

NewPlayer(c, nickname, isWatched) ==
    [client |-> c, nickname |-> nickname, isConnected |-> TRUE, isWatched |-> isWatched]

HasInput(c) == toServer[c] # <<>> \/ link[c] \in {"client ended", "client reset"}
Readable(p) == p \in InSelect /\ HasInput(players[p].client)
Selected == {p \in DOMAIN players : Readable(p)}

(* Listen and CheckForNewTcpPlayers: one connection is accepted, and the   *)
(* players whose sockets were ready are looked at.                         *)
Listen ==
    /\ tcp /\ server = "up" /\ frame = {}
    /\ backlog # <<>> \/ Selected # {}
    /\ frame' = Selected
    /\ IF backlog = <<>> THEN UNCHANGED <<players, backlog>>
       ELSE /\ players' = Append(players, NewPlayer(Head(backlog), "", GetsWatched))
            /\ backlog' = Tail(backlog)
    /\ UNCHANGED <<net, server, clientVars, wires, longest, sends, observers>>

Everyone == DOMAIN players
Connected == {p \in DOMAIN players : players[p].isConnected}
Sockets(to) == [p \in to |-> players[p].client]

(* SendToConnectedPlayersExceptToSender: a copy for every other player,    *)
(* each of them written to the socket of the player it came from.          *)
OthersOf(m) == {q \in Connected : players[q].nickname # m.target}
PassOnTcp(p, m) == ServerSends([q \in OthersOf(m) |-> players[p].client], m)

Owe(m) == owed' = [c \in Clients |-> owed[c] \cup
    {x \in {m} : \E q \in DOMAIN players :
        players[q].client = c /\ players[q].isConnected /\ players[q].nickname # m.target}]

(* ParseReceivedPlayerPayload of player p's message. *)
FromPlayer(p, m) ==
    LET c == players[p].client IN
    \/ /\ m.type = "ping"
       /\ \E n \in net.lengths : ServerSends(<<c>>, Pong(n))
       /\ UNCHANGED <<players, owed>>
    \/ /\ m.type = "requestPlayerDetails"
       /\ players' = [players EXCEPT ![p].nickname = m.target]
       /\ UNCHANGED <<toClient, given, link, server, owed>>
    \/ /\ m.type \notin {"ping", "requestPlayerDetails"}
       /\ PassOnTcp(p, m) /\ Owe(m)
       /\ UNCHANGED players

(* One round of the loop of CheckForPlayerTraffic.  The end of a stream is *)
(* read as nothing, and the player stays; a reset makes it disconnected.   *)
CheckPlayer ==
    /\ tcp /\ server = "up"
    /\ \E p \in frame : LET c == players[p].client IN
        /\ \A q \in frame : p <= q
        /\ frame' = frame \ {p}
        /\ IF toServer[c] # <<>>
           THEN LET m == Head(toServer[c]) IN
                /\ toServer' = [toServer EXCEPT ![c] = Tail(@)]
                /\ Held(Server, m)
                /\ IF ServerParses(m) THEN FromPlayer(p, m)
                   ELSE Throws /\ UNCHANGED players
           ELSE /\ IF link[c] = "client reset"
                   THEN players' = [players EXCEPT ![p].isConnected = FALSE]
                   ELSE UNCHANGED players
                /\ UNCHANGED <<toServer, toClient, given, link, server, owed, longest>>
    /\ UNCHANGED <<net, backlog, disconnected, running, copies, sends, heard, named>>

-----------------------------------------------------------------------------
(* GameServer over UDP. *)

(* A player is known by its port alone, whatever its host; none has a      *)
(* socket of its own.                                                      *)
PlayersAt(port, known) == {p \in DOMAIN known : Port[known[p].client] = port}

(* RaiseNetworkTrafficReceivedEvent, after the message has been handled. *)
Traffic(c) ==
    LET found == PlayersAt(Port[c], players')
        name  == IF found = {} THEN "unknown" ELSE players'[CHOOSE p \in found : TRUE].nickname
    IN  named' = named \cup {<<name, c>>}

UpToTheSender(m) == {q \in DOMAIN players : \A r \in 1 .. q : players[r].nickname # m.target}
PassOnUdp(m) == {q \in DOMAIN players : players[q].nickname # m.target}

FromDatagram(c, m) ==
    \/ /\ m.type = "ping"
       /\ \E n \in net.lengths : ServerSends(<<c>>, Pong(n))
       /\ UNCHANGED <<players, owed>>
    \/ /\ m.type = "requestPlayerDetails"
       /\ players' = IF PlayersAt(Port[c], players) # {} THEN players
                     ELSE Append(players, NewPlayer(c, m.target, FALSE))
       /\ UNCHANGED <<toClient, given, link, server, owed>>
    \/ /\ m.type \notin {"ping", "requestPlayerDetails"}
       /\ ServerSends(Sockets(PassOnUdp(m)), m) /\ Owe(m)
       /\ UNCHANGED players

(* Listen and CheckForPlayerTraffic. *)
Datagram(c) ==
    /\ ~tcp /\ server = "up"
    /\ \E i \in DOMAIN toServer[c] :
        LET m == toServer[c][i] IN
        /\ \E rest \in {RemoveAt(toServer[c], i), toServer[c]} :
            /\ Taken(toServer[c], i, rest)
            /\ toServer' = [toServer EXCEPT ![c] = rest]
        /\ Held(Server, m)
        /\ IF ServerParses(m) THEN FromDatagram(c, m) /\ Traffic(c)
           ELSE Throws /\ UNCHANGED <<players, named>>
    /\ UNCHANGED <<net, frame, backlog, disconnected, running, sends, heard>>

Lose(c) ==
    /\ ~tcp
    /\ \/ \E i \in DOMAIN toServer[c] :
            toServer' = [toServer EXCEPT ![c] = RemoveAt(@, i)] /\ UNCHANGED toClient
       \/ \E i \in DOMAIN toClient[c] :
            toClient' = [toClient EXCEPT ![c] = RemoveAt(@, i)] /\ UNCHANGED toServer
    /\ UNCHANGED <<net, serverVars, clientVars, copies, longest, sends, observers>>

-----------------------------------------------------------------------------
(* GameServer over either. *)

(* HandleEvent for an event of the server's own game: SendEventToAllPlayers. *)
ServerRaises ==
    /\ server = "up" /\ frame = {} /\ sends < net.maxSends
    /\ sends' = sends + 1
    /\ \E type \in {"PlayerMoved", "StartNetworkLevel"}, n \in net.lengths :
        ServerSends(Sockets(Connected), Message(type, ServerName, Server, n, sends'))
    /\ UNCHANGED <<net, players, frame, backlog, disconnected, running, toServer, copies,
                   longest, heard, owed, named>>

(* The server's process ends: Disconnect, or a failure above. *)
ServerEnds ==
    /\ server # "stopped" /\ server' = "stopped"
    /\ frame' = {} /\ backlog' = <<>>
    /\ link' = [c \in Clients |->
         IF link[c] # "open" \/ ~tcp THEN link[c]
         ELSE IF toServer[c] = <<>> THEN "server ended" ELSE "server reset"]
    /\ toServer' = [c \in Clients |-> <<>>]
    /\ UNCHANGED <<net, players, disconnected, running, toClient, copies, longest, sends,
                   observers>>

NetworkNext ==
    \/ \E c \in Clients : Connect(c) \/ ClientSends(c, "PlayerMoved") \/ ClientSends(c, "ping")
    \/ \E c \in Clients : Read(c) \/ ReadReset(c) \/ Leave(c) \/ Datagram(c) \/ Lose(c)
    \/ Listen \/ CheckPlayer \/ ServerRaises \/ ServerEnds

-----------------------------------------------------------------------------
Types == {"requestPlayerDetails", "ping", "pong", "PlayerMoved", "StartNetworkLevel"}
Messages == [type : Types, target : Range(NickName) \cup {"", ServerName},
             from : Clients \cup {Server}, length : net.lengths, id : Nat]
Players == [client : Clients, nickname : Range(NickName) \cup {""}, isConnected : BOOLEAN,
            isWatched : BOOLEAN]
LinkStates == {"none", "open", "closed", "client ended", "client reset",
               "server ended", "server reset"}

NetworkTypeOK ==
    /\ net \in Networks /\ server \in {"up", "failed", "stopped"}
    /\ players \in Seq(Players) /\ frame \subseteq DOMAIN players /\ backlog \in Seq(Clients)
    /\ toServer \in [Clients -> Seq(Messages)] /\ toClient \in [Clients -> Seq(Messages)]
    /\ heard \in [Clients -> Seq(Messages)]
    /\ link \in [Clients -> LinkStates] /\ disconnected \in [Clients -> BOOLEAN]
    /\ running \subseteq Clients
    /\ longest \in [Clients \cup {Server} -> net.lengths \cup {0}]
    /\ sends \in 0 .. net.maxSends /\ copies \in 0 .. net.maxCopies

(* Whatever the network repeats or reorders, a client is one player at     *)
(* most, and of the clients of one UDP port one at most is                 *)
(* (UdpGameServerConnection.cpp:171-187; a TCP connection is accepted      *)
(* once, TcpGameServerConnection.cpp:66-76).                               *)
RegisteredOnce ==
    /\ \A p, q \in DOMAIN players : players[p].client = players[q].client => p = q
    /\ ~tcp => \A p, q \in DOMAIN players :
                  Port[players[p].client] = Port[players[q].client] => p = q

(* The server's list gives nobody another's name, and what it reports as a *)
(* client's traffic is under the client's own name, or that of another of  *)
(* the same port: a client with a port to itself is never taken for        *)
(* another (UdpGameServerConnection.cpp:93-103,                            *)
(* TcpGameServerConnection.cpp:230-234).                                   *)
NamesAreOwn ==
    /\ \A p \in DOMAIN players : players[p].nickname \in {"", NickName[players[p].client]}
    /\ \A t \in named : t[1] = "unknown" \/ \E c \in Clients :
                          Port[c] = Port[t[2]] /\ t[1] = NickName[c]

(* What one player sends goes to every other player ("Send to other        *)
(* network players", TcpGameServerConnection.cpp:190,                      *)
(* UdpGameServerConnection.cpp:146).                                       *)
OthersHear == \A c \in Clients : owed[c] \subseteq given[c]
UdpOthersHear == ~tcp => OthersHear

(* Over UDP no client is sent its own events back                          *)
(* (UdpGameServerConnection.cpp:119-122).                                  *)
NeverEchoed == ~tcp => \A c \in Clients : \A m \in given[c] : m.type # "pong" => m.from # c

(* What the server raises reaches a client of a TCP game in the order it   *)
(* was raised, and once (TcpGameServerConnection.cpp:236-247 down to       *)
(* GameClient.cpp:195-209).                                                *)
HeardInOrder == tcp => \A c \in Clients : \A i, j \in DOMAIN heard[c] :
    (i < j /\ heard[c][i].from = Server /\ heard[c][j].from = Server)
      => heard[c][i].id < heard[c][j].id

(* The server goes down only where the code lets it: by the tail of a      *)
(* longer datagram in the buffer that nobody clears                        *)
(* (UdpGameServerConnection.cpp:78-83), or by writing to a TCP player that *)
(* has gone.  Over TCP messages of any lengths are safe                    *)
(* (TcpGameServerConnection.cpp:143).                                      *)
ServerStaysUp == server = "failed" =>
    IF tcp THEN running # Clients ELSE Cardinality(net.lengths) > 1

(* A client gives a TCP server up only when that server has ended          *)
(* (GameClient.cpp:166-172).                                               *)
GivesUpRightly == \A c \in Clients :
    disconnected[c] => link[c] = "none" \/ server # "up" \/ c \notin running

(* A client that connects to a TCP game gets its name into the list of     *)
(* players, unless it or the server ends first, or the player's descriptor *)
(* is not among the five that select looks at                              *)
(* (TcpGameServerConnection.cpp:34-80).                                    *)
EveryoneIsNamed == \A c \in Clients :
    (tcp /\ link[c] = "open" /\ c \in running)
      ~> \/ server # "up" \/ c \notin running
         \/ \E p \in DOMAIN players :
               /\ players[p].client = c
               /\ players[p].nickname = NickName[c] \/ ~players[p].isWatched

(* Nothing is sent to a player whose reset the server has seen             *)
(* (TcpGameServerConnection.cpp:157, 221, 240).                            *)
ForgottenStaysSilent == [][\A p \in DOMAIN players :
    ~players[p].isConnected => given'[players[p].client] = given[players[p].client]]_netVars

(* Who plays: each client is one player under its own name, the server and *)
(* its clients stay together until one of them has to end                  *)
(* (UdpGameServerConnection.cpp:73-187, TcpGameServerConnection.cpp:34-180,*)
(* GameClient.cpp:150-172).                                                *)
PlayersOK == /\ NetworkTypeOK /\ RegisteredOnce /\ NamesAreOwn
             /\ ServerStaysUp /\ GivesUpRightly

(* What they hear: over UDP the others' events and not their own, over TCP *)
(* the server's, once and in order (UdpGameServerConnection.cpp:105-150,   *)
(* TcpGameServerConnection.cpp:236-247).                                   *)
TrafficOK == UdpOthersHear /\ NeverEchoed /\ HeardInOrder

-----------------------------------------------------------------------------
(* The invariants behind PlayersOK and TrafficOK.                          *)

(* What a client sends carries its own name.                               *)
OwnMessages == \A c \in Clients : \A i \in DOMAIN toServer[c] :
    /\ toServer[c][i].from = c
    /\ toServer[c][i].type \in {"requestPlayerDetails", "ping", "PlayerMoved"}
    /\ toServer[c][i].type # "ping" => toServer[c][i].target = NickName[c]

(* A TCP connection is waiting or a player, and a player whose socket is   *)
(* looked at is connected; a UDP player is connected and has its name.     *)
Listed ==
    /\ tcp =>
        /\ IsInjective(backlog)
        /\ \A i \in DOMAIN backlog : \A p \in DOMAIN players : players[p].client # backlog[i]
        /\ \A i \in DOMAIN backlog : link[backlog[i]] # "none"
        /\ \A p \in DOMAIN players : link[players[p].client] # "none"
    /\ ~tcp =>
        /\ frame = {}
        /\ \A p \in DOMAIN players :
            players[p].isConnected /\ players[p].nickname = NickName[players[p].client]
    /\ \A p \in frame : players[p].isConnected

(* While the server is up a connection ends by its client.                 *)
LinksHold == server = "up" => \A c \in Clients :
    \/ link[c] \in {"none", "open"}
    \/ tcp /\ link[c] \in {"client ended", "client reset"} /\ c \notin running

(* What a TCP server raised is heard in order and on its way in order, and *)
(* what is on its way is later than what was heard.                        *)
Raised(m) == m.from = Server /\ IsEvent(m)
Ascending(ms) == \A i, j \in DOMAIN ms :
    (i < j /\ Raised(ms[i]) /\ Raised(ms[j])) => ms[i].id < ms[j].id
InOrder(past, coming, last) ==
    /\ Ascending(past) /\ Ascending(coming)
    /\ \A i \in DOMAIN past : IsEvent(past[i])
    /\ \A i \in DOMAIN past : Raised(past[i]) => past[i].id <= last
    /\ \A i \in DOMAIN coming : Raised(coming[i]) => coming[i].id <= last
    /\ \A i \in DOMAIN past : \A j \in DOMAIN coming :
        (Raised(past[i]) /\ Raised(coming[j])) => past[i].id < coming[j].id
EventsInOrder == tcp => \A c \in Clients : InOrder(heard[c], toClient[c], sends)

NetworkInv ==
    PlayersOK /\ TrafficOK /\ OwnMessages /\ Listed /\ LinksHold /\ EventsInOrder
=============================================================================
