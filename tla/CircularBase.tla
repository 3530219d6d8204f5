---------------------------- MODULE CircularBase ----------------------------
(***************************************************************************)
(* Circular_Buffer.Base (src/data_structures/circular_buffer): a ring of   *)
(* Size bytes that byte strings are pushed to and popped from, each in at  *)
(* most two contiguous copies.  The operators take a buffer and return the *)
(* buffer a subprogram leaves behind and what it returns.  The high water  *)
(* mark, which nothing reads but a percentage, is left out.                *)
(***************************************************************************)
EXTENDS Integers, Sequences

CONSTANTS
    Size,       \* Self.Bytes'Length, a positive number
    Byte        \* the values of a byte

Smaller(m, n) == IF m < n THEN m ELSE n
Larger(m, n)  == IF m < n THEN n ELSE m

\* The n bytes at start, start + 1, ... of the array, without wrapping.
Slice(b, start, n) == [i \in 1 .. n |-> b.bytes[start + i - 1]]

NumBytesFree(b) == Size - b.count

\* A buffer just initialized over an array of the given bytes.
Fresh(bytes) == [bytes |-> bytes, head |-> 0, count |-> 0]

Cleared(b) == [b EXCEPT !.head = 0, !.count = 0]

\* Where a push starts to write.
TailIndex(b) == (b.head + b.count) % Size

\* The array after data is copied to the tail: up to the end of the array,
\* then from its beginning.
Written(b, data) ==
    LET first == Smaller(Len(data), Size - TailIndex(b))
    IN  [i \in 0 .. Size - 1 |->
            IF i >= TailIndex(b) /\ i < TailIndex(b) + first
            THEN data[i - TailIndex(b) + 1]
            ELSE IF i < Len(data) - first
            THEN data[first + i + 1]
            ELSE b.bytes[i]]

TooFull(b, data, overwrite) ==
    \/ Len(data) > Size
    \/ ~overwrite /\ NumBytesFree(b) < Len(data)

\* Faulty: an overwrite leaves the head where it was.
PushedOverHead(b, data) ==
    IF Len(data) = 0 THEN b
    ELSE [b EXCEPT !.bytes = Written(b, data),
                   !.count = Smaller(b.count + Len(data), Size)]

\* The buffer after a push that is not Too_Full.  Only an overwrite can take
\* the count past the size: the head then skips the bytes written over.
Pushed(b, data) ==
    LET excess == Larger(0, b.count + Len(data) - Size)
    IN  IF Len(data) = 0 THEN b
        ELSE [bytes |-> Written(b, data),
              head  |-> IF excess > 0 THEN (b.head + excess) % Size ELSE b.head,
              count |-> b.count + Len(data) - excess]

\* Peek finds nothing beyond the offset; an empty request always succeeds.
NothingToPeek(b, n, offset) == n > 0 /\ b.count <= offset

\* The bytes a successful Peek of at most n bytes returns: a first copy up to
\* the end of the array, and a second from its beginning, or from further on
\* when the offset already took the first index past the end.
Peeked(b, n, offset) ==
    LET returned == IF n = 0 THEN 0 ELSE Smaller(n, b.count - offset)
        start    == b.head + offset
        end      == Smaller(start + returned - 1, Size - 1)
        first    == Larger(0, end - start + 1)
        skipped  == Larger(0, -(end - start + 1))
    IN  IF returned = 0 THEN <<>>
        ELSE Slice(b, start, first) \o Slice(b, skipped, returned - first)

\* The buffer after the n bytes a Pop returned are gone.
Popped(b, n) ==
    LET count == b.count - n
    IN  [b EXCEPT !.head  = IF count = 0 THEN 0 ELSE (b.head + n) % Size,
                  !.count = count]

\* Make_Full declares every byte of the array stored, whatever it holds.
MadeFull(b, index) == [b EXCEPT !.head = index % Size, !.count = Size]

-----------------------------------------------------------------------------
(* Dumps name the stored bytes as at most two pieces of the array.         *)

\* Do_Dump: the bytes from index head up to, not including, index tail.
DoDump(b, head, tail) ==
    IF b.count = 0 THEN <<>>
    ELSE IF tail > head THEN Slice(b, head, tail - head)
    ELSE Slice(b, head, Size - head) \o Slice(b, 0, tail)

Dump(b) == DoDump(b, b.head, TailIndex(b))

DumpNewest(b, n) ==
    LET k == Smaller(n, b.count)
    IN  IF k = 0 THEN <<>>
        ELSE DoDump(b, (b.head + (b.count - k)) % Size, TailIndex(b))

DumpOldest(b, n) ==
    LET k == Smaller(n, b.count)
    IN  IF k = 0 THEN <<>>
        ELSE DoDump(b, b.head, (TailIndex(b) - (b.count - k)) % Size)

-----------------------------------------------------------------------------
\* The byte string a buffer stands for, oldest byte first.
Contents(b) == [i \in 1 .. b.count |-> b.bytes[(b.head + i - 1) % Size]]

=============================================================================
