------------------------------ MODULE BitPacking ------------------------------
(***************************************************************************)
(* BitPacker, BitfieldReader and BitFiddler (net/, utils/), as functions   *)
(* of the packer's and the reader's fields.  A unit is a function from its *)
(* width bits; a bit is a token that tells which bit of which value it is, *)
(* so that what is read back can be compared with what was packed,         *)
(* whatever the values are.                                                *)
(***************************************************************************)
EXTENDS Integers, Sequences

Zero == <<0, 0>>
Garbage == <<-1, -1>>    \* memory that nobody wrote, or two bits in one place

Empty(width) == [b \in 0..(width - 1) |-> Zero]

(* The n bits of value i, in a unit. *)
Value(width, i, n) == [b \in 0..(width - 1) |-> IF b < n THEN <<i, b>> ELSE Zero]

UInt8(n) == n % 256
(* An integer of type T, the unit's; 32 bits are more than a message has.  *)
UIntT(width, n) == CASE width = 8 -> n % 256 [] width = 16 -> n % 65536 [] OTHER -> n

-----------------------------------------------------------------------------
Or(a, b) == IF a = Zero THEN b ELSE IF b = Zero THEN a ELSE Garbage

(* BitFiddler::SetBits: the value is shifted as a whole; the interval is   *)
(* cleared first.                                                          *)
SetBits(width, number, startBit, length, value) ==
    LET low == startBit - (length - 1)
        shifted(b) == IF b >= low /\ b - low < width THEN value[b - low] ELSE Zero
    IN [b \in 0..(width - 1) |-> IF b \in low..startBit THEN shifted(b) ELSE Or(number[b], shifted(b))]

GetBitsValue(width, number, startBit, length) ==
    IF length = width THEN number
    ELSE [b \in 0..(width - 1) |-> IF b < length THEN number[startBit + 1 - length + b] ELSE Zero]

-----------------------------------------------------------------------------
(* A BitPacker on a destination of units.  bitsLeft is 0 until the first   *)
(* Pack.                                                                   *)
Packer(destination, width) ==
    [dest |-> destination, buffer |-> Empty(width), writeBit |-> 0, overflowed |-> 0,
     packed |-> 0, bitsLeft |-> 0, segments |-> 0]

Write(p, unit) == [p.dest EXCEPT ![p.overflowed] = unit]

PackAcrossLowBits(width, p, n, value) ==
    LET left == width - p.writeBit
        extra == n - left
        rest == SetBits(width, Empty(width), extra - 1, extra, GetBitsValue(width, value, extra - 1, extra))
    IN [dest |-> [p.dest EXCEPT ![p.overflowed] = SetBits(width, p.buffer, width - 1, left, value),
                                ![UInt8(p.overflowed + 1)] = rest],
        buffer |-> rest, writeBit |-> extra, overflowed |-> UInt8(p.overflowed + 1),
        packed |-> UIntT(width, p.packed + n), bitsLeft |-> width - extra,
        segments |-> UInt8(p.segments + 1)]

(* The value does not fit into the unit: the rest of it begins the next,   *)
(* which is written too.                                                   *)
PackAcross(width, p, n, value) ==
    LET left == width - p.writeBit
        extra == n - left
        rest == SetBits(width, Empty(width), extra - 1, extra, GetBitsValue(width, value, n - 1, extra))
    IN [dest |-> [p.dest EXCEPT ![p.overflowed] = SetBits(width, p.buffer, width - 1, left, value),
                                ![UInt8(p.overflowed + 1)] = rest],
        buffer |-> rest, writeBit |-> extra, overflowed |-> UInt8(p.overflowed + 1),
        packed |-> UIntT(width, p.packed + n), bitsLeft |-> width - extra,
        segments |-> UInt8(p.segments + 1)]

PackInside(width, p, n, value) ==
    LET unit == SetBits(width, p.buffer, p.writeBit + n - 1, n, value)
        packed == UIntT(width, p.packed + n)
        q == [p EXCEPT !.buffer = unit, !.packed = packed]
    IN IF packed % width = 0
       THEN [q EXCEPT !.dest = Write(p, unit), !.overflowed = UInt8(@ + 1),
                      !.segments = UInt8(@ + 1), !.bitsLeft = width, !.writeBit = 0]
       ELSE [q EXCEPT !.writeBit = @ + n, !.bitsLeft = width - (p.writeBit + n)]

Pack(width, p, n, value) ==
    IF p.writeBit + n > width THEN PackAcross(width, p, n, value) ELSE PackInside(width, p, n, value)

Flush(width, p) ==
    [p EXCEPT !.dest = Write(p, p.buffer), !.overflowed = UInt8(@ + 1), !.buffer = Empty(width),
              !.packed = UIntT(width, @ + p.bitsLeft), !.writeBit = 0, !.bitsLeft = width,
              !.segments = UInt8(p.overflowed + 1)]

(* memcpy of the bits 0..size-1 of bytes to the unit at. *)
Copied(width, dest, at, bytes, size) ==
    [u \in DOMAIN dest |-> [b \in 0..(width - 1) |->
        IF (u - at) * width + b \in 0..(size - 1) THEN bytes[(u - at) * width + b] ELSE dest[u][b]]]

PushBytes(width, p, bytes, size) ==
    LET q == IF p.bitsLeft # width THEN Flush(width, p) ELSE p
        dest == Copied(width, q.dest, q.overflowed, bytes, size)
        segments == UInt8(q.segments + size \div width)
    IN [q EXCEPT !.dest = dest, !.writeBit = size % width, !.packed = UIntT(width, @ + size),
                 !.bitsLeft = width - (size % width), !.segments = segments, !.overflowed = segments,
                 !.buffer = dest[segments]]

TotalBytesPacked(p) == (p.packed + 7) \div 8

-----------------------------------------------------------------------------
(* A BitfieldReader of elements units. *)
Reader(elements) ==
    [bitsRead |-> 0, segments |-> 0, bitsLeft |-> 0, total |-> 0, overflowed |-> 0,
     elements |-> elements, threw |-> FALSE, unmasked |-> FALSE]

(* ReadNext where the bits go on in the next unit.  They are not masked    *)
(* when (startBit-1) is a multiple of width-1.                             *)
MergedUnit(width, field, r, n) ==
    LET startBit == r.bitsRead + n - 1
        lhs == startBit - (width - 1)
        rhs == n - lhs
        merged == SetBits(width, GetBitsValue(width, field[r.overflowed], width - 1, rhs), n - 1, lhs,
                          field[r.overflowed + 1])
        isMultipleOfT == (startBit - 1) % (width - 1) = 0
    IN [reader |-> [r EXCEPT !.overflowed = UInt8(@ + 1), !.segments = UInt8(@ + 1), !.bitsRead = lhs,
                             !.bitsLeft = width - lhs, !.total = UInt8(@ + n),
                             !.unmasked = @ \/ (isMultipleOfT /\ n # width)],
        value |-> IF isMultipleOfT THEN merged ELSE GetBitsValue(width, merged, n - 1, n)]

NextWithinUnit(width, field, r, n) ==
    LET q == [r EXCEPT !.bitsRead = @ + n, !.total = UInt8(@ + n), !.bitsLeft = width - (r.bitsRead + n)]
    IN [reader |-> IF q.bitsRead % width = 0
                   THEN [q EXCEPT !.overflowed = UInt8(@ + 1), !.segments = UInt8(@ + 1),
                                  !.bitsLeft = width, !.bitsRead = 0]
                   ELSE q,
        value |-> GetBitsValue(width, field[r.overflowed], r.bitsRead + n - 1, n)]

ReadNext(width, field, r, n) ==
    IF r.threw \/ r.overflowed >= r.elements THEN [reader |-> [r EXCEPT !.threw = TRUE], value |-> Empty(width)]
    ELSE IF r.bitsRead + n > width THEN MergedUnit(width, field, r, n)
    ELSE NextWithinUnit(width, field, r, n)

(* FetchBytes.  What is left in the unit is what was read of it. *)
FetchBytes(width, field, r, size) ==
    LET skips == r.bitsLeft # width
        at == IF skips THEN UInt8(r.overflowed + 1) ELSE r.overflowed
        segments == UInt8((IF skips THEN UInt8(r.segments + 1) ELSE r.segments) + size \div width)
    IN [reader |-> [r EXCEPT !.segments = segments, !.overflowed = segments,
                             !.total = UInt8((IF skips THEN @ + r.bitsLeft ELSE @) + size),
                             !.bitsRead = size % width,
                             !.bitsLeft = IF size % width = 0 THEN width ELSE size % width],
        value |-> [b \in 0..(size - 1) |-> field[at + b \div width][b % width]]]

Finish(width, field, r) == ReadNext(width, field, r, r.bitsLeft)
=============================================================================
