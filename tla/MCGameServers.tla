---------------------------- MODULE MCGameServers ----------------------------
EXTENDS GameServers
CONSTANTS c1, c2

MCNickName == [c \in Clients |-> IF c = c1 THEN "Ann" ELSE "Bob"]

(* Two clients have ports of their own, or the same one on two hosts.  On  *)
(* POSIX the descriptors 0 to 3 are stdio's and the listener's, and select *)
(* can watch one player; on Windows it pays no heed to nfds.               *)
OwnPorts == [c \in Clients |-> IF c = c1 THEN 5001 ELSE 5002]
OnePort  == [c \in Clients |-> 5001]
Tcp(watched, lengths, maxSends) ==
    [transport |-> "tcp", port |-> OwnPorts, watched |-> watched, lengths |-> lengths,
     maxSends |-> maxSends, maxCopies |-> 0]
Udp(port, lengths, maxSends, maxCopies) ==
    [transport |-> "udp", port |-> port, watched |-> 0, lengths |-> lengths,
     maxSends |-> maxSends, maxCopies |-> maxCopies]
MCNetworks ==
    {Tcp(1, {1, 2}, 2), Tcp(2, {1}, 2), Udp(OwnPorts, {1}, 2, 1), Udp(OnePort, {1}, 1, 1),
     Udp(OwnPorts, {1, 2}, 1, 0)}
MCTcp == {n \in MCNetworks : n.transport = "tcp"}
=============================================================================
