----------------------------- MODULE LocalSockets -----------------------------
(***************************************************************************)
(* The Unix socket variant: LocalSocketGameServerConnection on one side,   *)
(* LocalNetworkSocket under LocalSocketProtocolManager on the other, with  *)
(* Networking::netLocalSocketServer and netLocalSocketClient.  All of them *)
(* use one path.  A datagram socket that is bound to the path receives     *)
(* what is sent there, also by those who connected earlier to it; the path *)
(* names the socket that was bound last.                                   *)
(***************************************************************************)
EXTENDS Naturals, Sequences, SequencesExt

CONSTANTS
    LocalClients,
    LocalServer,
    Nobody,
    MaxGreetings   \* bound: the datagrams that clients send

ASSUME LocalAssumption ==
    /\ LocalServer \notin LocalClients /\ Nobody \notin LocalClients \cup {LocalServer}
    /\ MaxGreetings \in Nat

Peers == LocalClients \cup {LocalServer}

VARIABLES
    path,       \* the socket that the path names, or Nobody
    peer,       \* peer[c]: the socket that c is connected to
    bound,      \* the clients that have an address: the path
    valid,      \* the clients whose Connect gave a socket
    tried,      \* the clients that called Connect
    alive,      \* the processes that run
    inbox,      \* inbox[p]: the datagrams waiting at p, by their senders
    greetings,
    answered    \* observer: pairs <<who was answered, who got the answer>>

localVars == <<path, peer, bound, valid, tried, alive, inbox, greetings, answered>>

LocalInit ==
    /\ path = LocalServer  \* netLocalSocketServer has unlinked, and bound its own
    /\ peer = [c \in LocalClients |-> Nobody]
    /\ bound = {} /\ valid = {} /\ tried = {} /\ alive = Peers
    /\ inbox = [p \in Peers |-> <<>>] /\ greetings = 0 /\ answered = {}

(* The kernel lets c connect to a live socket that has no other peer. *)
Accepts(p) == p \in alive /\ (p \in LocalClients => peer[p] = Nobody)

(* netLocalSocketClient: connect, then unlink the path and bind to it, so  *)
(* that the server's answers have an address.  The order matters.          *)
Bind(c) == path' = c /\ bound' = bound \cup {c}
ConnectTo(c, p) == peer' = [peer EXCEPT ![c] = p] /\ valid' = valid \cup {c}

BindThenConnect(c) == Bind(c) /\ ConnectTo(c, c)
ConnectThenBind(c) ==
    IF Accepts(path) THEN ConnectTo(c, path) /\ Bind(c)
    ELSE UNCHANGED <<path, peer, bound, valid>>

LocalConnect(c) ==
    /\ c \in alive \ tried /\ tried' = tried \cup {c}
    /\ ConnectThenBind(c)
    /\ UNCHANGED <<alive, inbox, greetings, answered>>

(* LocalSocketProtocolManager::Send. *)
LocalSend(c) ==
    /\ c \in valid \cap alive /\ greetings < MaxGreetings
    /\ greetings' = greetings + 1
    /\ inbox' = IF peer[c] \in alive THEN [inbox EXCEPT ![peer[c]] = Append(@, c)] ELSE inbox
    /\ UNCHANGED <<path, peer, bound, valid, tried, alive, answered>>

(* Listen and CheckForPlayerTraffic: every datagram is answered, at the    *)
(* path it came from.  A failed sendto calls exit(1).                      *)
LocalListen ==
    /\ LocalServer \in alive /\ inbox[LocalServer] # <<>>
    /\ LET from == Head(inbox[LocalServer]) IN
        IF from \in bound /\ path \in alive
        THEN /\ inbox' = [inbox EXCEPT ![LocalServer] = Tail(@), ![path] = Append(@, LocalServer)]
             /\ answered' = answered \cup {<<from, path>>}
             /\ UNCHANGED alive
        ELSE alive' = alive \ {LocalServer} /\ UNCHANGED <<inbox, answered>>
    /\ UNCHANGED <<path, peer, bound, valid, tried, greetings>>

LocalReceive(c) ==
    /\ c \in valid \cap alive /\ inbox[c] # <<>>
    /\ inbox' = [inbox EXCEPT ![c] = Tail(@)]
    /\ UNCHANGED <<path, peer, bound, valid, tried, alive, greetings, answered>>

LocalLeave(c) ==
    /\ c \in alive \cap LocalClients /\ alive' = alive \ {c}
    /\ UNCHANGED <<path, peer, bound, valid, tried, inbox, greetings, answered>>

LocalNext ==
    \/ \E c \in LocalClients :
        LocalConnect(c) \/ LocalSend(c) \/ LocalReceive(c) \/ LocalLeave(c)
    \/ LocalListen

-----------------------------------------------------------------------------
LocalTypeOK ==
    /\ path \in Peers /\ peer \in [LocalClients -> Peers \cup {Nobody}]
    /\ bound \subseteq valid /\ valid \subseteq tried /\ tried \subseteq LocalClients /\ alive \subseteq Peers
    /\ inbox \in [Peers -> Seq(Peers)] /\ greetings \in 0 .. MaxGreetings

(* Although every client takes the server's path away, whoever has a       *)
(* socket speaks to the server and gets the server's answers: the kernel   *)
(* refuses the second client, whose Connect gives -1                       *)
(* (Networking.cpp:275-286, LocalSocketServerConnection.cpp:55).           *)
SpeaksToServer ==
    /\ \A c \in valid : peer[c] = LocalServer
    /\ \A a \in answered : a[1] = a[2]

(* The server exits only because a client left before it was answered      *)
(* (LocalSocketServerConnection.cpp:57-61).                                *)
ExitsForTheGone == LocalServer \notin alive => \E c \in valid : c \notin alive

(* Everyone on the path speaks to the server, which ends for no other      *)
(* reason than a client that has gone.                                     *)
LocalOK == LocalTypeOK /\ SpeaksToServer /\ ExitsForTheGone

-----------------------------------------------------------------------------
(* The invariant behind LocalOK: at most one client has a socket; it is    *)
(* the one on the path, and the only one the server hears.                 *)
LocalInv ==
    /\ LocalOK /\ bound = valid
    /\ valid = {} => path = LocalServer
    /\ valid # {} => valid = {path}
    /\ \A i \in DOMAIN inbox[LocalServer] : inbox[LocalServer][i] \in valid
==============================================================================
