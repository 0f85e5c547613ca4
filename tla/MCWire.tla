-------------------------------- MODULE MCWire --------------------------------
EXTENDS Wire

Quiet(unit, vs) ==
    [w |-> unit, values |-> vs, lengths |-> <<>>, extra |-> 0, content |-> NoContent, maxFlips |-> 0]

(* Every order of up to three values, on units of 8 and of 16 bits.  Bits  *)
(* that nothing follows are only written by a Finish.                      *)
ValuesOf(unit) ==
    {[type |-> "bits", size |-> n] : n \in {1, 3, unit - 1, unit}}
    \cup {[type |-> "string", size |-> n] : n \in {0, 1, 2, 3}}
    \cup {[type |-> "array", size |-> n] : n \in {0, 1, 3}} \cup {FinishValue}
Written(vs) == IF vs[Len(vs)].type = "bits" THEN Append(vs, FinishValue) ELSE vs
Orders ==
    UNION {{Quiet(unit, Written(vs)) :
              vs \in {s \in UNION {[1..n -> ValuesOf(unit)] : n \in 1..3} : s[1] # FinishValue}} :
           unit \in {8, 16}}

Message(s) == [Quiet(32, MessageValues(s)) EXCEPT !.lengths = s]

(* Messages of up to three packets, one that is encrypted having 16 bytes  *)
(* more; three of them with bits that flip; one for every event.           *)
Lengths == UNION {[1..n -> {0, 1, 3, 4, 7}] : n \in 1..3}
Messages == {[Message(s) EXCEPT !.extra = x] : s \in Lengths, x \in {0, 16}}
Flipped ==
    {[Message(s) EXCEPT !.maxFlips = 1] : s \in {<<3, 4>>, <<0, 7>>}}
    \cup {[Message(<<1>>) EXCEPT !.maxFlips = 2]}
Events == {PlayerMoved(d) : d \in Directions} \cup {ControllerMove("up"), StartNetworkLevel(2), OtherEvent,
          PingMessage}
Contents ==
    {[Message(<<4>>) EXCEPT !.content = [encoding |-> e, event |-> v]] :
        e \in Encodings, v \in Events}

MCLayouts == Orders \cup Messages \cup Flipped \cup Contents \cup {Quiet(32, PingValues)}
=============================================================================
