----------------------------- MODULE GameServers -----------------------------
(***************************************************************************)
(* The networking of a game that does not use the reliability layer: the   *)
(* server and the clients message by message, the records under a TCP      *)
(* connection byte by byte, and the variant over Unix sockets.  They share *)
(* no state, so a behaviour looks at one of them.                          *)
(***************************************************************************)
EXTENDS GameNetwork, Records, LocalSockets

VARIABLE look  \* the one that is looked at; it never changes

vars == <<look, netVars, recordVars, localVars>>

Init ==
    /\ look \in {"network", "records", "local"}
    /\ NetworkInit /\ RecordsInit /\ LocalInit
    /\ look # "network" => net = CHOOSE n \in Networks : TRUE

Next ==
    \/ look = "network" /\ NetworkNext /\ UNCHANGED <<look, recordVars, localVars>>
    \/ look = "records" /\ RecordsNext /\ UNCHANGED <<look, netVars, localVars>>
    \/ look = "local" /\ LocalNext /\ UNCHANGED <<look, netVars, recordVars>>

(* A server's loop calls Listen in every frame; a call of netReadVRec goes *)
(* on as long as recv gives it something, and is made again.               *)
Fairness ==
    /\ WF_netVars(look = "network" /\ (Listen \/ CheckPlayer))
    /\ WF_recordVars(look = "records" /\ Reads)

Spec == Init /\ [][Next]_vars /\ Fairness

(* Whom the server serves: every connection gets a name and every record   *)
(* is read in the end, and nobody is served who is known to have gone      *)
(* (TcpGameServerConnection.cpp:34-180, Networking.cpp:52-126).            *)
ServesWhoIsThere == EveryoneIsNamed /\ RecordsArrive /\ ForgottenStaysSilent
=============================================================================
