------------------------- MODULE MCReliableUdpSession -------------------------
EXTENDS ReliableUdpSession
CONSTANTS c1, c2
MCNoPayload == NoText

Slot(number) == [tag |-> number, datum |-> DefaultDatum]

Setup(clients, encrypts, repeats, maxClientSeq, maxServerSeq) ==
    [clients |-> clients, useEncryption |-> encrypts, repeats |-> repeats,
     maxClientSeq |-> maxClientSeq, maxServerSeq |-> maxServerSeq,
     cutKeys |-> {}, memory |-> {[i \in Slots |-> Slot(Unset)]}]

Cut(s, owners) == [s EXCEPT !.cutKeys = owners]

(* The memory of every new ring holds the numbers of Garbage. *)
Noisy(s) ==
    [s EXCEPT !.memory = {[i \in Slots |-> Slot(IF i \in Garbage THEN i ELSE Unset)]}]

(* One client, with and without encryption, and messages that repeat; two  *)
(* clients, with encryption, that share the server's one session; keys     *)
(* that are cut, the client's, the server's, and that of one client of     *)
(* two; memory that holds numbers of the client's.                         *)
MCSetups == {Setup({c1}, TRUE, TRUE, 7, 6), Setup({c1}, FALSE, TRUE, 7, 5),
             Setup({c1, c2}, TRUE, FALSE, 7, 6),
             Cut(Setup({c1}, TRUE, TRUE, 6, 4), {c1}),
             Cut(Setup({c1}, TRUE, TRUE, 6, 4), {1}),
             Cut(Setup({c1, c2}, TRUE, FALSE, 5, 4), {c2}),
             Noisy(Setup({c1}, FALSE, TRUE, 6, 4))}

(* Two clients without encryption. *)
MCShared == {Setup({c1, c2}, FALSE, FALSE, 5, 6)}
=============================================================================
