--------------------------- MODULE ReliableDelivery ---------------------------
(***************************************************************************)
(* What a pair of ReliableUdp objects promises its owners, without         *)
(* sequence numbers, rings, bundles or bits: each side submits datums      *)
(* numbered from 1; a side that hears from its peer gains some of what the *)
(* peer submitted and learns that some of its own datums arrived.  Nothing *)
(* is delivered that was not submitted, nothing counts as acknowledged     *)
(* that was not delivered, and neither is taken back, but that a side      *)
(* remembers no more than its last Window datums.                          *)
(***************************************************************************)
EXTENDS Integers

CONSTANTS Alice, Bob, MaxSent, Window

VARIABLES
    submitted,    \* submitted[p]: how many datums p submitted
    delivered,    \* delivered[p]: those of its peer's datums p got
    acknowledged  \* acknowledged[p]: those of p's datums p knows arrived

Peers == {Alice, Bob}

Other(p) == IF p = Alice THEN Bob ELSE Alice

vars == <<submitted, delivered, acknowledged>>

Init ==
    /\ submitted = [p \in Peers |-> 0]
    /\ delivered = [p \in Peers |-> {}]
    /\ acknowledged = [p \in Peers |-> {}]

(* The numbers that count among the last Window when n datums were         *)
(* submitted.                                                              *)
Recent(n) == {s \in 1 .. n : s + Window > n}

Submit(p) ==
    /\ submitted[p] < MaxSent
    /\ submitted' = [submitted EXCEPT ![p] = @ + 1]
    /\ acknowledged' = [acknowledged EXCEPT ![p] = @ \cap Recent(submitted[p] + 1)]
    /\ UNCHANGED delivered

Hear(p) ==
    /\ \E gained \in SUBSET (1 .. submitted[Other(p)]) :
           delivered' = [delivered EXCEPT ![p] = @ \cup gained]
    /\ \E learned \in SUBSET (delivered[Other(p)] \cap Recent(submitted[p])) :
           acknowledged' = [acknowledged EXCEPT ![p] = @ \cup learned]
    /\ UNCHANGED submitted

Next == \E p \in Peers : Submit(p) \/ Hear(p)

Spec == Init /\ [][Next]_vars
=============================================================================
