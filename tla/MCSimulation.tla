----------------------------- MODULE MCSimulation -----------------------------
EXTENDS Simulation

MCLoops ==
    {[kind |-> k, network |-> n, tick |-> 3, maxLoops |-> 2, events |-> b[1], moves |-> b[2]] :
        k \in {"variable", "fixed"}, n \in BOOLEAN, b \in {<<2, 0>>, <<0, 2>>}}

MCTraffics ==
    {[kind |-> "traffic", amount |-> 3], [kind |-> "packet", amount |-> 2],
     [kind |-> "loss", amount |-> 0], [kind |-> "rtt", amount |-> 1]}

MCKeyFrames == <<"up", "down", "down", "left", "right">>

Keys(d, e) == [k \in Directions |->
    IF k \in {d, e} THEN "Pressed" ELSE IF k = "up" THEN "Unknown" ELSE "Released"]

MCMovements ==
    {[kind |-> "atSpeed", speed |-> s, direction |-> d] : s \in {-1, 2}, d \in {"up", "left", "none"}}
    \cup {[kind |-> "stateful", speed |-> 1, keys |-> Keys(k[1], k[2])] :
             k \in {<<"up", "right">>, <<"left", "right">>, <<"down", "down">>}}
    \cup {[kind |-> "stateful", speed |-> 1, keys |-> [d \in {"left"} |-> "Pressed"]]}
=============================================================================
