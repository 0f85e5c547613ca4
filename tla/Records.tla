------------------------------- MODULE Records -------------------------------
(***************************************************************************)
(* Records over a TCP connection (net/Networking.cpp): a sender writes the *)
(* length of a record and then its bytes with two calls of send            *)
(* (netSendVRec), and a reader gets the record back with calls of recv that *)
(* return as much as there is (netReadVRec, netReadn).  A record that is   *)
(* longer than the reader's buffer is read and thrown away.                *)
(*                                                                         *)
(* A byte is a pair: <<0, n>> is the length of n bytes (its four bytes as  *)
(* one), and <<i, k>> is byte k of record i.  The records are text: no     *)
(* byte of one is zero, so strlen(data) is the length that is announced.   *)
(***************************************************************************)
EXTENDS Naturals, Sequences, SequencesExt

CONSTANTS
    Room,        \* the reader's buffer
    Lengths,     \* the lengths of the records that are sent
    MaxRecords   \* bound: the records that are sent

ASSUME RecordsAssumption ==
    Room \in Nat \ {0} /\ Lengths \subseteq Nat \ {0} /\ MaxRecords \in Nat

VARIABLES
    sent,     \* the lengths announced so far
    owes,     \* whether the second send of netSendVRec is still to come
    closed,   \* whether the sender's process has ended
    stream,   \* the bytes on their way
    reader,   \* the call of netReadVRec: where it is and its locals
    read      \* what its calls returned: the bytes of a record, or TooLong

recordVars == <<sent, owes, closed, stream, reader, read>>

TooLong == <<>>
NotReading == [at |-> "out", cnt |-> 0, got |-> <<>>, reclen |-> 0, len |-> Room]

RecordsInit ==
    /\ sent = <<>> /\ owes = FALSE /\ closed = FALSE /\ stream = <<>>
    /\ reader = NotReading /\ read = <<>>

-----------------------------------------------------------------------------
(* The sender. *)

SendLength(n) ==
    /\ ~closed /\ ~owes /\ Len(sent) < MaxRecords
    /\ sent' = Append(sent, n)
    /\ stream' = Append(stream, <<0, n>>)
    /\ owes' = TRUE
    /\ UNCHANGED <<closed, reader, read>>

BytesOf(i) == [k \in 1 .. sent[i] |-> <<i, k>>]

SendData ==
    /\ ~closed /\ owes
    /\ stream' = stream \o BytesOf(Len(sent))
    /\ owes' = FALSE
    /\ UNCHANGED <<sent, closed, reader, read>>

(* The sender's process ends, between the two sends perhaps. *)
EndSender ==
    /\ ~closed /\ closed' = TRUE
    /\ UNCHANGED <<sent, owes, stream, reader, read>>

-----------------------------------------------------------------------------
(* The reader. *)

Readn(at, cnt) == [reader EXCEPT !.at = at, !.cnt = cnt, !.got = <<>>]

StartRead ==
    /\ reader.at = "out" /\ stream # <<>>
    /\ reader' = Readn("length", 1)
    /\ UNCHANGED <<sent, owes, closed, stream, read>>

(* One recv of netReadn: between one byte and all that is wanted. *)
Recv ==
    /\ reader.cnt > 0
    /\ \E k \in 1 .. reader.cnt :
        /\ k <= Len(stream)
        /\ reader' = [reader EXCEPT !.cnt = @ - k, !.got = @ \o SubSeq(stream, 1, k)]
        /\ stream' = SubSeq(stream, k + 1, Len(stream))
    /\ UNCHANGED <<sent, owes, closed, read>>

(* The end of the stream: the short count makes netReadVRec return 0. *)
RecvEnd ==
    /\ reader.cnt > 0 /\ stream = <<>> /\ closed
    /\ reader' = NotReading
    /\ UNCHANGED <<sent, owes, closed, stream, read>>

Return(r) == reader' = NotReading /\ read' = Append(read, r)

HaveLength ==
    LET n == reader.got[1][2] IN
    IF n > Room THEN [Readn("discard", Room) EXCEPT !.reclen = n] ELSE Readn("data", n)

(* The loop that throws a long record away: its end, and its next round. *)
DiscardedFullReads(left, len) == left < len
Discarded(left, len) == left = 0
LenLeft(left, len) == IF left < len THEN left ELSE len

(* What follows a netReadn that got everything it wanted. *)
HaveAll ==
    /\ reader.at # "out" /\ reader.cnt = 0
    /\ \/ reader.at = "length" /\ reader' = HaveLength /\ UNCHANGED read
       \/ reader.at = "data" /\ Return(reader.got)
       \/ LET left == reader.reclen - reader.len
              len  == LenLeft(left, reader.len)
          IN  /\ reader.at = "discard"
              /\ IF Discarded(left, reader.len) THEN Return(TooLong)
                 ELSE /\ reader' = [Readn("discard", len) EXCEPT !.reclen = left, !.len = len]
                      /\ UNCHANGED read
    /\ UNCHANGED <<sent, owes, closed, stream>>

Reads == StartRead \/ Recv \/ RecvEnd \/ HaveAll
RecordsNext == (\E n \in Lengths : SendLength(n)) \/ SendData \/ EndSender \/ Reads

-----------------------------------------------------------------------------
Bytes == ({0} \X Lengths) \cup ((1 .. MaxRecords) \X (Nat \ {0}))

RecordsTypeOK ==
    /\ sent \in Seq(Lengths) /\ Len(sent) <= MaxRecords /\ owes \in BOOLEAN /\ closed \in BOOLEAN
    /\ stream \in Seq(Bytes) /\ read \in Seq(Seq(Bytes))
    /\ reader \in [at : {"out", "length", "data", "discard"}, cnt : 0 .. Room,
                   got : Seq(Bytes), reclen : Nat, len : 1 .. Room]

(* However recv cuts the stream up, the reader gets the records that were  *)
(* sent, whole and in order, with an error in the place of one that does   *)
(* not fit: what is thrown away ends where the next length begins          *)
(* (Networking.cpp:107-115).                                               *)
RecordsWhole ==
    \A i \in DOMAIN read :
        i <= Len(sent) /\ read[i] = IF sent[i] > Room THEN TooLong ELSE BytesOf(i)

(* A record that was sent in full is read in the end: the reader never     *)
(* waits for bytes that nobody sent (Networking.cpp:59-72).                *)
RecordsArrive == \A i \in 1 .. MaxRecords :
    (Len(sent) >= i /\ (Len(sent) = i => ~owes)) ~> Len(read) >= i

(* The reader is between two records or within one, and right in both      *)
(* (Networking.cpp:52-126).                                                *)
RecordsOK == RecordsTypeOK /\ RecordsWhole

-----------------------------------------------------------------------------
(* The invariants behind RecordsOK.                                        *)

(* The record i begins at begins[i] of the stream, or began so long before *)
(* it: the records lie one behind the other, each with its length first,   *)
(* and the stream ends with the last, or with its length.                  *)
LaidOut(begins) ==
    /\ \A i \in DOMAIN sent :
          /\ begins[i + 1] = begins[i] + 1 + sent[i]
          /\ begins[i] \in 1 .. Len(stream) => stream[begins[i]] = <<0, sent[i]>>
          /\ \A k \in 1 .. sent[i] :
                begins[i] + k \in 1 .. Len(stream) => stream[begins[i] + k] = <<i, k>>
          /\ \A j \in i + 1 .. Len(sent) + 1 : begins[i] + 1 + sent[i] <= begins[j]
    /\ owes => sent # <<>> /\ Len(stream) = begins[Len(sent)]
    /\ ~owes => Len(stream) = begins[Len(sent) + 1] - 1

(* The reader has all before the stream of the record it reads: nothing,   *)
(* or what it got, or what it got and what it threw away.  It is lost only *)
(* when the sender has gone within a record.                               *)
Reading(begins) ==
    LET i == Len(read) + 1
        taken == Len(reader.got)
    IN
    /\ i <= Len(sent) + 1 /\ (reader.at # "out" => i <= Len(sent))
    /\ reader.at # "discard" => reader.len = Room
    /\ reader.at = "out" =>
          reader.cnt = 0 /\ (begins[i] = 1 \/ (closed /\ stream = <<>>))
    /\ reader.at = "length" =>
          /\ reader.cnt + taken = 1 /\ begins[i] = 1 - taken
          /\ taken = 1 => reader.got[1] = <<0, sent[i]>>
    /\ reader.at = "data" =>
          /\ sent[i] <= Room /\ reader.cnt + taken = sent[i] /\ begins[i] + taken = 0
          /\ \A k \in 1 .. taken : reader.got[k] = <<i, k>>
    /\ reader.at = "discard" =>
          /\ sent[i] > Room /\ reader.cnt + taken = reader.len /\ reader.len <= reader.reclen
          /\ begins[i] = reader.reclen - sent[i] - taken

RecordsInv ==
    /\ RecordsTypeOK /\ RecordsWhole
    /\ \E begins \in [1 .. Len(sent) + 1 -> Int] : LaidOut(begins) /\ Reading(begins)
==============================================================================
