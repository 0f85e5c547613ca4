------------------------- MODULE MCReliableUdpLink -------------------------
EXTENDS ReliableUdpLink, TLC
(* The two peers run the same program. *)
PeersAreAlike == Permutations(Peers)
=============================================================================
