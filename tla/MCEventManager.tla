----------------------------- MODULE MCEventManager -----------------------------
EXTENDS EventManager
CONSTANTS s1, s2, a, u
MCSameNumber == {<<s1, a>>}
MCFrameTypes == <<u>>

(* Handlers that call back into the queues and subscribe; handlers that    *)
(* take subscriptions away and empty the table; and handlers that reset    *)
(* the queues.                                                             *)
MCSetups ==
    {[reactions |-> {"return", "pass on", "raise", "raise again", "subscribe"},
      targets |-> FALSE, maxEvents |-> 2],
     [reactions |-> {"return", "raise again", "unsubscribe", "clear"},
      targets |-> TRUE, maxEvents |-> 1],
     [reactions |-> {"pass on", "raise again", "raise", "unsubscribe", "reset"},
      targets |-> FALSE, maxEvents |-> 2]}
=============================================================================
