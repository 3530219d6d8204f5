------------------------ MODULE CircularBufferProofs ------------------------
(***************************************************************************)
(* The ring of bytes is a byte string, for every size of the ring, every   *)
(* set of bytes, whatever is pushed and whatever is asked for: each        *)
(* operation of Circular_Buffer.Circular is the operation of ByteFifo on   *)
(* the string that the ring holds.                                         *)
(*                                                                         *)
(* The invariant is only that the head is an index of the array and the    *)
(* count at most its size.  The work is in what the operations do to the   *)
(* string where it wraps: a push that is written in two pieces and may     *)
(* overwrite the oldest bytes, a peek of two pieces, a dump named by two   *)
(* indices that may be equal.  The string is read byte by byte at the      *)
(* turned index, and two strings of one length with the same bytes are the *)
(* same.                                                                   *)
(*                                                                         *)
(* The queues of CircularQueue are queues of elements, for every width of  *)
(* the serialized lengths and labels.  Their invariant says that the ring  *)
(* holds nothing but the strings of Item_Count elements, one behind the    *)
(* other.  The refinement finds each element by the length that the one    *)
(* before begins with; that these are the elements stored is an induction  *)
(* over their ends, done by the least one that would differ.               *)
(***************************************************************************)
EXTENDS CircularBuffer, SequenceTheorems, WellFoundedInduction, TLAPS

\* A ring in the array.
Ring == [bytes : [0 .. Size - 1 -> Byte], head : 0 .. Size - 1, count : 0 .. Size]

\* The inductive invariant.
TypeOK == buf \in Ring

\* An index that is past the end of the array by less than its size.
Turn(i) == IF i < Size THEN i ELSE i - Size

\* A remainder of what is less than twice the divisor.
LEMMA WrapsBefore ==
    ASSUME NEW n \in Nat \ {0}, NEW h \in 0 .. n - 1, NEW k \in 1 .. n
    PROVE  (h + k - 1) % n = IF h + k - 1 < n THEN h + k - 1 ELSE h + k - 1 - n
OBVIOUS

\* The head, the count and the tail of a ring.
LEMMA RingIs ==
    ASSUME BufferAssumption, NEW b \in Ring
    PROVE  /\ Size \in Nat \ {0}
           /\ b.head \in 0 .. Size - 1
           /\ b.count \in 0 .. Size
           /\ b.bytes \in [0 .. Size - 1 -> Byte]
           /\ TailIndex(b) = Turn(b.head + b.count)
           /\ TailIndex(b) \in 0 .. Size - 1
<1>1. /\ Size \in Nat \ {0} /\ b.head \in 0 .. Size - 1 /\ b.count \in 0 .. Size
      /\ b.bytes \in [0 .. Size - 1 -> Byte]
  BY DEF BufferAssumption, Ring
<1>2. TailIndex(b) = Turn(b.head + b.count)
  <2>1. SUFFICES ASSUME NEW h \in 0 .. Size - 1, NEW k \in 0 .. Size, Size \in Nat \ {0}
                 PROVE  (h + k) % Size = Turn(h + k)
    BY <1>1 DEF TailIndex
  <2>. QED
    BY <2>1 DEF Turn
<1>3. TailIndex(b) \in 0 .. Size - 1
  BY <1>1, <1>2 DEF Turn
<1>. QED
  BY <1>1, <1>2, <1>3

\* The string of a ring is as long as its count, and its bytes are those of the
\* array from the head on.
LEMMA ContentsAre ==
    ASSUME BufferAssumption, NEW b \in Ring
    PROVE  /\ Contents(b) \in Seq(Byte)
           /\ Len(Contents(b)) = b.count
           /\ \A i \in 1 .. b.count : Contents(b)[i] = b.bytes[Turn(b.head + i - 1)]
<1>1. ASSUME NEW i \in 1 .. b.count
      PROVE  /\ (b.head + i - 1) % Size = Turn(b.head + i - 1)
             /\ Turn(b.head + i - 1) \in 0 .. Size - 1
  <2>1. /\ Size \in Nat \ {0} /\ b.head \in 0 .. Size - 1 /\ i \in 1 .. Size
    BY RingIs
  <2>2. (b.head + i - 1) % Size = IF b.head + i - 1 < Size THEN b.head + i - 1
                                  ELSE b.head + i - 1 - Size
    BY <2>1, WrapsBefore
  <2>. QED
    BY <2>1, <2>2 DEF Turn
<1>2. \A i \in 1 .. b.count : b.bytes[(b.head + i - 1) % Size] \in Byte
  BY <1>1, RingIs
<1>3. Contents(b) \in Seq(Byte) /\ Len(Contents(b)) = b.count
  <2>1. b.count \in Nat
    BY RingIs
  <2>2. \A n \in Nat : \A s \in [1 .. n -> Byte] : s \in Seq(Byte) /\ Len(s) = n
    OBVIOUS
  <2>3. Contents(b) \in [1 .. b.count -> Byte]
    BY <1>2 DEF Contents
  <2>. QED
    BY <2>1, <2>2, <2>3
<1>. QED
  BY <1>1, <1>3 DEF Contents

\* A piece of the array that does not wrap.
LEMMA SliceIs ==
    ASSUME BufferAssumption, NEW b \in Ring, NEW start \in Nat, NEW n \in Nat,
           n > 0 => start + n <= Size
    PROVE  /\ Slice(b, start, n) \in Seq(Byte)
           /\ Len(Slice(b, start, n)) = n
           /\ \A i \in 1 .. n : Slice(b, start, n)[i] = b.bytes[start + i - 1]
<1>1. \A i \in 1 .. n : b.bytes[start + i - 1] \in Byte
  BY RingIs
<1>. QED
  BY <1>1 DEF Slice

\* A write, in one copy or two, puts the bytes behind the tail and leaves the
\* others alone.
LEMMA WrittenIs ==
    ASSUME BufferAssumption, NEW b \in Ring, NEW data \in Seq(Byte), Len(data) <= Size
    PROVE  /\ Written(b, data) \in [0 .. Size - 1 -> Byte]
           /\ \A i \in 1 .. Len(data) :
                Written(b, data)[Turn(TailIndex(b) + i - 1)] = data[i]
           /\ \A i \in Len(data) + 1 .. Size :
                Written(b, data)[Turn(TailIndex(b) + i - 1)]
                    = b.bytes[Turn(TailIndex(b) + i - 1)]
<1> DEFINE first == IF Len(data) < Size - TailIndex(b) THEN Len(data) ELSE Size - TailIndex(b)
<1>1. /\ Size \in Nat \ {0} /\ TailIndex(b) \in 0 .. Size - 1 /\ Len(data) \in 0 .. Size
      /\ b.bytes \in [0 .. Size - 1 -> Byte]
      /\ \A i \in 1 .. Len(data) : data[i] \in Byte
  BY RingIs
<1>2. ASSUME NEW i \in 0 .. Size - 1
      PROVE  /\ i >= TailIndex(b) /\ i < TailIndex(b) + first => i - TailIndex(b) + 1 \in 1 .. Len(data)
             /\ i < Len(data) - first => first + i + 1 \in 1 .. Len(data)
             /\ b.bytes[i] \in Byte
  <2>1. i >= TailIndex(b) /\ i < TailIndex(b) + first => i - TailIndex(b) + 1 \in 1 .. Len(data)
    BY <1>1
  <2>2. i < Len(data) - first => first + i + 1 \in 1 .. Len(data)
    BY <1>1
  <2>3. b.bytes[i] \in Byte
    BY <1>1
  <2>. QED
    BY <2>1, <2>2, <2>3
<1>4. Written(b, data) = [i \in 0 .. Size - 1 |->
            IF i >= TailIndex(b) /\ i < TailIndex(b) + first
            THEN data[i - TailIndex(b) + 1]
            ELSE IF i < Len(data) - first
            THEN data[first + i + 1]
            ELSE b.bytes[i]]
  BY DEF Written, Smaller
<1>5. Written(b, data) \in [0 .. Size - 1 -> Byte]
  BY <1>1, <1>2, <1>4
<1>6. ASSUME NEW i \in 1 .. Len(data)
      PROVE  Written(b, data)[Turn(TailIndex(b) + i - 1)] = data[i]
  <2>1. CASE TailIndex(b) + i - 1 < Size
    <3> DEFINE k == TailIndex(b) + i - 1
    <3>1. /\ k \in 0 .. Size - 1 /\ k >= TailIndex(b) /\ k < TailIndex(b) + first
          /\ k - TailIndex(b) + 1 = i
      BY <1>1, <2>1
    <3>2. Turn(TailIndex(b) + i - 1) = k
      BY <2>1 DEF Turn
    <3> HIDE DEF k, first
    <3>. QED
      BY <1>4, <3>1, <3>2
  <2>2. CASE ~(TailIndex(b) + i - 1 < Size)
    <3>1. /\ TailIndex(b) + i - 1 - Size \in 0 .. Size - 1
          /\ first = Size - TailIndex(b)
          /\ TailIndex(b) + i - 1 - Size < TailIndex(b)
          /\ first + (TailIndex(b) + i - 1 - Size) + 1 = i
      BY <1>1, <2>2
    <3>2. Turn(TailIndex(b) + i - 1) = TailIndex(b) + i - 1 - Size
      BY <1>1, <2>2 DEF Turn
    <3> DEFINE k == TailIndex(b) + i - 1 - Size
    <3>3. k \in 0 .. Size - 1 /\ ~(k >= TailIndex(b)) /\ k < Len(data) - first /\ first + k + 1 = i
      BY <1>1, <3>1
    <3> HIDE DEF k, first
    <3>4. Written(b, data)[k] = data[i]
      BY <1>4, <3>3
    <3>. QED
      BY <3>2, <3>4 DEF k
  <2>. QED
    BY <2>1, <2>2
<1>7. ASSUME NEW i \in Len(data) + 1 .. Size
      PROVE  Written(b, data)[Turn(TailIndex(b) + i - 1)]
                 = b.bytes[Turn(TailIndex(b) + i - 1)]
  <2>1. /\ Turn(TailIndex(b) + i - 1) \in 0 .. Size - 1
        /\ ~(/\ Turn(TailIndex(b) + i - 1) >= TailIndex(b)
             /\ Turn(TailIndex(b) + i - 1) < TailIndex(b) + first)
        /\ ~(Turn(TailIndex(b) + i - 1) < Len(data) - first)
    BY <1>1 DEF Turn
  <2>. QED
    BY <1>4, <2>1
<1>. QED
  BY <1>5, <1>6, <1>7

\* A push adds to the end of the string, which loses its beginning as far as it
\* would be too long.
LEMMA PushedIs ==
    ASSUME BufferAssumption, NEW b \in Ring, NEW data \in Seq(Byte), Len(data) <= Size
    PROVE  /\ Pushed(b, data) \in Ring
           /\ Contents(Pushed(b, data)) =
                LET all  == Contents(b) \o data
                    lost == Len(all) - Size
                IN  IF lost > 0 THEN SubSeq(all, lost + 1, Len(all)) ELSE all
<1> DEFINE new == Pushed(b, data)
           all == Contents(b) \o data
           lost == b.count + Len(data) - Size
           written == Written(b, data)
           h == b.head
           c == b.count
           n == Len(data)
           tail == TailIndex(b)
<1>1. /\ Size \in Nat \ {0} /\ h \in 0 .. Size - 1 /\ c \in 0 .. Size /\ n \in 0 .. Size
      /\ tail \in 0 .. Size - 1 /\ tail = Turn(h + c)
  BY RingIs
<1>2. /\ all \in Seq(Byte)
      /\ Len(all) = c + n
      /\ \A i \in 1 .. c : all[i] = b.bytes[Turn(h + i - 1)]
      /\ \A i \in c + 1 .. c + n : all[i] = data[i - c]
  <2>1. Contents(b) \in Seq(Byte) /\ Len(Contents(b)) = c
    BY ContentsAre
  <2>2. /\ all \in Seq(Byte) /\ Len(all) = c + n
        /\ \A i \in 1 .. c + n :
             all[i] = IF i <= c THEN Contents(b)[i] ELSE data[i - c]
    <3>1. /\ Contents(b) \o data \in Seq(Byte)
          /\ Len(Contents(b) \o data) = Len(Contents(b)) + Len(data)
          /\ \A i \in 1 .. Len(Contents(b)) + Len(data) : (Contents(b) \o data)[i] =
               IF i <= Len(Contents(b)) THEN Contents(b)[i] ELSE data[i - Len(Contents(b))]
      BY ContentsAre, ConcatProperties
    <3>. QED
      BY <2>1, <3>1
  <2>3. \A i \in 1 .. c : Contents(b)[i] = b.bytes[Turn(h + i - 1)]
    BY ContentsAre
  <2> HIDE DEF all, h, c, n
  <2>4. ASSUME NEW i \in 1 .. c
        PROVE  all[i] = b.bytes[Turn(h + i - 1)]
    <3>1. i \in 1 .. c + n /\ i <= c
      BY ONLY <1>1, i \in 1 .. c
    <3>. QED
      BY <2>2, <2>3, <3>1
  <2>5. ASSUME NEW i \in c + 1 .. c + n
        PROVE  all[i] = data[i - c]
    <3>1. i \in 1 .. c + n /\ ~(i <= c)
      BY ONLY <1>1, i \in c + 1 .. c + n
    <3>. QED
      BY <2>2, <3>1
  <2>. QED
    BY <2>2, <2>4, <2>5
<1>3. /\ written \in [0 .. Size - 1 -> Byte]
      /\ \A i \in 1 .. n : written[Turn(tail + i - 1)] = data[i]
      /\ \A i \in n + 1 .. Size :
           written[Turn(tail + i - 1)] = b.bytes[Turn(tail + i - 1)]
  BY WrittenIs
<1>0. /\ h = b.head /\ c = b.count /\ n = Len(data) /\ tail = TailIndex(b)
      /\ written = Written(b, data) /\ all = Contents(b) \o data
  OBVIOUS
<1>. lost = c + n - Size
  OBVIOUS
<1>. HIDE DEF h, c, n, tail, lost, written, all
<1>4. CASE n = 0
  <2>1. data = <<>> /\ new = b
    BY <1>0, <1>4, EmptySeq DEF Pushed
  <2>2. all = Contents(b)
    BY <1>0, <2>1, ContentsAre, ConcatEmptySeq
  <2>3. ~(Len(all) - Size > 0)
    BY <1>1, <1>2, <1>4
  <2>. QED
    BY <2>1, <2>2, <2>3
<1>5. CASE n # 0 /\ lost <= 0
  <2>1. new = [bytes |-> written, head |-> h, count |-> c + n]
    BY <1>0, <1>1, <1>5 DEF Pushed, Larger
  <2>2. new \in Ring
    BY <1>1, <1>3, <1>5, <2>1 DEF Ring
  <2>3. /\ Contents(new) \in Seq(Byte) /\ Len(Contents(new)) = c + n
        /\ \A i \in 1 .. c + n : Contents(new)[i] = written[Turn(h + i - 1)]
    BY <2>1, <2>2, ContentsAre
  <2>4. ASSUME NEW i \in 1 .. c + n
        PROVE  Contents(new)[i] = all[i]
    <3>1. CASE i <= c
      <4> DEFINE j == i - c + Size
      <4>1. /\ i \in 1 .. c
            /\ i > c + n - Size
        BY <1>1, <1>5, <3>1
      <4>2. j \in n + 1 .. Size /\ Turn(h + i - 1) = Turn(tail + j - 1)
        BY <1>1, <4>1 DEF Turn
      <4>3. written[Turn(h + i - 1)] = b.bytes[Turn(h + i - 1)]
        BY <1>3, <4>2
      <4>. QED
        BY <1>2, <2>3, <4>1, <4>3
    <3>2. CASE ~(i <= c)
      <4> DEFINE j == i - c
      <4>1. i \in c + 1 .. c + n /\ c + n <= Size
        BY <1>1, <1>5, <3>2
      <4>2. j \in 1 .. n /\ Turn(h + i - 1) = Turn(tail + j - 1)
        BY <1>1, <4>1 DEF Turn
      <4>3. written[Turn(h + i - 1)] = data[j]
        BY <1>3, <4>2
      <4>. QED
        BY <1>2, <2>3, <4>1, <4>3
    <3>. QED
      BY <3>1, <3>2
  <2>5. Contents(new) = all
    BY <1>2, <2>3, <2>4, SeqEqual
  <2>6. ~(Len(all) - Size > 0)
    BY <1>1, <1>2, <1>5
  <2>. QED
    BY <1>0, <2>2, <2>5, <2>6
<1>6. CASE n # 0 /\ lost > 0
  <2> DEFINE kept == SubSeq(all, lost + 1, Len(all))
             head == Turn(h + lost)
  <2>0. head = Turn(h + lost) /\ Len(all) = c + n
    BY <1>2
  <2>. HIDE DEF head
  <2>1. /\ head \in 0 .. Size - 1 /\ lost \in 1 .. Size
        /\ \A i \in 1 .. Size : i + lost <= c =>
              Turn(head + i - 1) = Turn(h + (i + lost) - 1)
        /\ \A i \in 1 .. Size : i + lost > c =>
              Turn(head + i - 1) = Turn(tail + (i + lost - c) - 1)
    BY <1>1, <1>6, <2>0 DEF Turn
  <2>2. (h + lost) % Size = head
    BY <1>1, <2>0, <2>1 DEF Turn
  <2>3. new = [bytes |-> written, head |-> head, count |-> Size]
    <3>1. Larger(0, c + n - Size) = lost /\ lost > 0 /\ n # 0
      BY <1>1, <1>6 DEF Larger
    <3>2. c + n - lost = Size
      BY <1>1
    <3>. QED
      BY <1>0, <2>2, <3>1, <3>2 DEF Pushed
  <2>4. new \in Ring
    <3>1. Size \in 0 .. Size
      BY <1>1
    <3>. QED
      BY <1>3, <2>1, <2>3, <3>1 DEF Ring
  <2>5. /\ Contents(new) \in Seq(Byte) /\ Len(Contents(new)) = Size
        /\ \A i \in 1 .. Size : Contents(new)[i] = written[Turn(head + i - 1)]
    BY <2>3, <2>4, ContentsAre
  <2>6. kept \in Seq(Byte) /\ Len(kept) = Size /\ \A i \in 1 .. Size : kept[i] = all[lost + i]
    <3>1. /\ lost + 1 \in Int /\ Len(all) \in Int /\ lost + 1 <= Len(all)
          /\ Len(all) - (lost + 1) + 1 = Size
          /\ \A i \in lost + 1 .. Len(all) : all[i] \in Byte
          /\ \A i \in 1 .. Size : (lost + 1) + i - 1 = lost + i
      BY <1>1, <1>2, <2>1
    <3>. QED
      BY <3>1, SubSeqProperties
  <2>7. ASSUME NEW i \in 1 .. Size
        PROVE  Contents(new)[i] = kept[i]
    <3>1. CASE i + lost <= c
      <4> DEFINE k == i + lost
                 j == k - c + Size
      <4>0. k = i + lost
        OBVIOUS
      <4> HIDE DEF k
      <4>1. k \in 1 .. c /\ k > c + n - Size /\ lost + i = k
        BY <1>1, <2>1, <3>1, <4>0
      <4>2. j \in n + 1 .. Size /\ Turn(h + k - 1) = Turn(tail + j - 1)
        BY <1>1, <4>1 DEF Turn
      <4>3. written[Turn(h + k - 1)] = b.bytes[Turn(h + k - 1)]
        BY <1>3, <4>2
      <4>4. Turn(head + i - 1) = Turn(h + k - 1)
        BY <2>1, <3>1, <4>0
      <4>. QED
        BY <1>2, <2>5, <2>6, <4>1, <4>3, <4>4
    <3>2. CASE i + lost > c
      <4> DEFINE k == i + lost
                 j == k - c
      <4>0. k = i + lost
        OBVIOUS
      <4> HIDE DEF k
      <4>1. /\ k \in c + 1 .. c + n /\ lost + i = k
            /\ j \in 1 .. n /\ i + lost - c = j
        BY <1>1, <2>1, <3>2, <4>0
      <4>2. Turn(head + i - 1) = Turn(tail + j - 1)
        BY <2>1, <3>2, <4>1, Zenon
      <4>3. written[Turn(tail + j - 1)] = data[j]
        BY <1>3, <4>1
      <4>. QED
        BY <1>2, <2>5, <2>6, <4>1, <4>2, <4>3
    <3>3. i + lost <= c \/ i + lost > c
      BY <1>1, <2>1
    <3>. QED
      BY <3>1, <3>2, <3>3
  <2>8. Contents(new) = kept
    BY <2>5, <2>6, <2>7, SeqEqual
  <2>9. Len(all) - Size = lost
    BY <1>1, <2>0
  <2>. QED
    BY <1>0, <1>6, <2>4, <2>8, <2>9
<1>. QED
  BY <1>1, <1>4, <1>5, <1>6

\* The n bytes of the array at start are those of the string after the
\* first skip ones.
IsPiece(b, start, n, skip) ==
    /\ start \in Nat /\ n \in Nat /\ skip \in Nat
    /\ n > 0 => start + n <= Size
    /\ skip + n <= b.count
    /\ \A i \in 1 .. n : Turn(b.head + (skip + i) - 1) = start + i - 1

\* A piece of the array that is a piece of the string has its bytes.
LEMMA PieceIs ==
    ASSUME BufferAssumption, NEW b \in Ring, NEW start, NEW n, NEW skip,
           IsPiece(b, start, n, skip)
    PROVE  /\ Slice(b, start, n) \in Seq(Byte)
           /\ Len(Slice(b, start, n)) = n
           /\ \A i \in 1 .. n : Slice(b, start, n)[i] = Contents(b)[skip + i]
<1>. /\ start \in Nat /\ n \in Nat /\ skip \in Nat
     /\ n > 0 => start + n <= Size
  BY DEF IsPiece
<1>1. /\ Slice(b, start, n) \in Seq(Byte)
      /\ Len(Slice(b, start, n)) = n
      /\ \A i \in 1 .. n : Slice(b, start, n)[i] = b.bytes[start + i - 1]
  BY SliceIs
<1>2. ASSUME NEW i \in 1 .. n
      PROVE  Contents(b)[skip + i] = b.bytes[start + i - 1]
  <2>1. skip + i \in 1 .. b.count /\ Turn(b.head + (skip + i) - 1) = start + i - 1
    BY RingIs DEF IsPiece
  <2>. QED
    BY <2>1, ContentsAre
<1>. QED
  BY <1>1, <1>2

\* The n bytes of the string after the first skip ones.
Part(b, skip, n) == SubSeq(Contents(b), skip + 1, skip + n)

\* The bytes of a part of the string.
LEMMA PartIs ==
    ASSUME BufferAssumption, NEW b \in Ring, NEW skip \in Nat, NEW n \in Nat,
           skip + n <= b.count
    PROVE  /\ Part(b, skip, n) \in Seq(Byte)
           /\ Len(Part(b, skip, n)) = n
           /\ \A i \in 1 .. n : Part(b, skip, n)[i] = Contents(b)[skip + i]
<1> DEFINE part == Part(b, skip, n)
<1>1. /\ skip + 1 \in Int /\ skip + n \in Int
      /\ \A i \in skip + 1 .. skip + n : Contents(b)[i] \in Byte
  BY RingIs, ContentsAre
<1>2. /\ part \in Seq(Byte)
      /\ Len(part) = IF skip + 1 <= skip + n THEN (skip + n) - (skip + 1) + 1 ELSE 0
      /\ \A i \in 1 .. (skip + n) - (skip + 1) + 1 : part[i] = Contents(b)[(skip + 1) + i - 1]
  BY <1>1, SubSeqProperties DEF Part
<1>3. ASSUME NEW i \in 1 .. n
      PROVE  part[i] = Contents(b)[skip + i]
  <2>1. i \in 1 .. (skip + n) - (skip + 1) + 1 /\ (skip + 1) + i - 1 = skip + i
    OBVIOUS
  <2>. QED
    BY <1>2, <2>1
<1>. QED
  BY <1>2, <1>3

\* Two pieces of the array that follow each other in the string.
LEMMA PiecesAre ==
    ASSUME BufferAssumption, NEW b \in Ring, NEW start, NEW n, NEW again, NEW more, NEW skip,
           NEW past, past = skip + n, NEW total, total = n + more,
           IsPiece(b, start, n, skip), IsPiece(b, again, more, past)
    PROVE  Slice(b, start, n) \o Slice(b, again, more) = Part(b, skip, total)
<1> DEFINE first  == Slice(b, start, n)
           second == Slice(b, again, more)
           part   == Part(b, skip, total)
<1>1. /\ b.count \in Nat /\ n \in Nat /\ more \in Nat /\ skip \in Nat
      /\ (skip + n) + more <= b.count /\ total \in Nat
  BY RingIs DEF IsPiece
<1>2. first \in Seq(Byte) /\ Len(first) = n /\ \A i \in 1 .. n : first[i] = Contents(b)[skip + i]
  BY PieceIs
<1>3. /\ second \in Seq(Byte) /\ Len(second) = more
      /\ \A i \in 1 .. more : second[i] = Contents(b)[(skip + n) + i]
  BY PieceIs
<1>4. /\ part \in Seq(Byte) /\ Len(part) = n + more
      /\ \A i \in 1 .. n + more : part[i] = Contents(b)[skip + i]
  <2>1. total \in Nat /\ skip + total <= b.count
    BY <1>1
  <2>. QED
    BY <1>1, <2>1, PartIs
<1> HIDE DEF first, second, part
<1>5. /\ first \o second \in Seq(Byte) /\ Len(first \o second) = n + more
      /\ \A i \in 1 .. n + more :
           (first \o second)[i] = IF i <= n THEN first[i] ELSE second[i - n]
  <2>1. /\ first \o second \in Seq(Byte)
        /\ Len(first \o second) = Len(first) + Len(second)
        /\ \A i \in 1 .. Len(first) + Len(second) : (first \o second)[i] =
             IF i <= Len(first) THEN first[i] ELSE second[i - Len(first)]
    BY <1>2, <1>3, ConcatProperties
  <2>. QED
    BY <1>2, <1>3, <2>1
<1>6. ASSUME NEW i \in 1 .. n + more
      PROVE  (first \o second)[i] = part[i]
  <2>1. CASE i <= n
    <3>1. i \in 1 .. n
      BY <2>1
    <3>. QED
      BY <1>2, <1>4, <1>5, <2>1, <3>1
  <2>2. CASE ~(i <= n)
    <3>1. i - n \in 1 .. more /\ (skip + n) + (i - n) = skip + i
      BY <1>1, <2>2
    <3>2. second[i - n] = Contents(b)[skip + i]
      BY <1>3, <3>1
    <3>. QED
      BY <1>4, <1>5, <2>2, <3>2
  <2>. QED
    BY <2>1, <2>2
<1>7. first \o second = part
  BY <1>4, <1>5, <1>6, SeqEqual
<1>. QED
  BY <1>7 DEF first, second, part

\* One piece alone.
LEMMA OnePieceIs ==
    ASSUME BufferAssumption, NEW b \in Ring, NEW start, NEW n, NEW skip,
           IsPiece(b, start, n, skip)
    PROVE  Slice(b, start, n) = Part(b, skip, n)
<1>1. n \in Nat /\ skip \in Nat /\ skip + n <= b.count
  BY DEF IsPiece
<1> DEFINE piece == Slice(b, start, n)
           part  == Part(b, skip, n)
<1>2. part \in Seq(Byte) /\ Len(part) = n /\ \A i \in 1 .. n : part[i] = Contents(b)[skip + i]
  BY <1>1, PartIs
<1>3. piece \in Seq(Byte) /\ Len(piece) = n /\ \A i \in 1 .. n : piece[i] = Contents(b)[skip + i]
  BY PieceIs
<1> HIDE DEF piece, part
<1>4. piece = part
  BY <1>2, <1>3, SeqEqual
<1>. QED
  BY <1>4 DEF piece, part

\* The numbers a peek is computed from, one after the other.
LEMMA PeekedParts ==
    ASSUME NEW b, NEW n, n # 0, NEW offset, Smaller(n, b.count - offset) # 0
    PROVE  LET returned == Smaller(n, b.count - offset)
               end      == Smaller(b.head + offset + returned - 1, Size - 1)
               first    == Larger(0, end - (b.head + offset) + 1)
               skipped  == Larger(0, -(end - (b.head + offset) + 1))
           IN  Peeked(b, n, offset)
               = Slice(b, b.head + offset, first) \o Slice(b, skipped, returned - first)
BY DEF Peeked

\* A peek gives a part of the string, the end of the array in it or not.
LEMMA PeekedIs ==
    ASSUME BufferAssumption, NEW b \in Ring, NEW n \in Nat, NEW offset \in Nat,
           n > 0 => offset < b.count,
           NEW total, total = IF n < b.count - offset THEN n ELSE b.count - offset
    PROVE  Peeked(b, n, offset) = IF n = 0 THEN <<>> ELSE Part(b, offset, total)
<1>1. CASE n = 0
  BY <1>1 DEF Peeked
<1>2. CASE n > 0
  <2> DEFINE h        == b.head
             c        == b.count
             returned == IF n < c - offset THEN n ELSE c - offset
             start    == h + offset
             end      == IF start + returned - 1 < Size - 1 THEN start + returned - 1 ELSE Size - 1
             first    == IF 0 < end - start + 1 THEN end - start + 1 ELSE 0
             skipped  == IF 0 < -(end - start + 1) THEN -(end - start + 1) ELSE 0
             more     == returned - first
  <2>1. Size \in Nat \ {0} /\ h \in 0 .. Size - 1 /\ c \in 0 .. Size /\ offset \in 0 .. c - 1
    BY <1>2, RingIs
  <2>a. returned # 0
    BY <1>2, <2>1
  <2>b. Peeked(b, n, offset) = Slice(b, start, first) \o Slice(b, skipped, more)
    <3>1. /\ Smaller(n, b.count - offset) = returned
          /\ Smaller(b.head + offset + returned - 1, Size - 1) = end
          /\ Larger(0, end - (b.head + offset) + 1) = first
          /\ Larger(0, -(end - (b.head + offset) + 1)) = skipped
          /\ start = b.head + offset /\ more = returned - first
      BY DEF Smaller, Larger
    <3>2. n # 0
      BY <1>2
    <3> HIDE DEF returned, end, first, skipped, start, more
    <3>3. Peeked(b, n, offset)
          = Slice(b, b.head + offset, first) \o Slice(b, skipped, returned - first)
      BY ONLY <2>a, <3>1, <3>2, PeekedParts
    <3>. QED
      BY <3>1, <3>3
  <2>2. h = b.head /\ c = b.count
    OBVIOUS
  <2>c. returned = total
    OBVIOUS
  <2> HIDE DEF h, c
  <2>3. returned \in 1 .. c - offset
    BY <1>2, <2>1
  <2>4. /\ start < Size => /\ first = IF start + returned <= Size THEN returned ELSE Size - start
                           /\ skipped = 0
        /\ start >= Size => first = 0 /\ skipped = start - Size
    BY <2>1, <2>3
  <2>5. start \in Nat /\ first \in Nat /\ skipped \in Nat /\ more \in Nat /\ first + more = returned
    BY <2>1, <2>3, <2>4
  <2>6. start = h + offset
    OBVIOUS
  <2> HIDE DEF returned, start, end, first, skipped, more
  <2>7. IsPiece(b, start, first, offset)
    <3>1. first > 0 => start + first <= Size
      BY <2>1, <2>3, <2>4, <2>5
    <3>2. offset + first <= c
      BY <2>1, <2>3, <2>5
    <3>3. ASSUME NEW i \in 1 .. first
          PROVE  Turn(h + (offset + i) - 1) = start + i - 1
      BY <2>1, <2>5, <2>6, <3>1 DEF Turn
    <3>. QED
      BY <2>2, <2>5, <3>1, <3>2, <3>3 DEF IsPiece
  <2>8. IsPiece(b, skipped, more, offset + first)
    <3>1. more > 0 => skipped + more <= Size
      BY <2>1, <2>3, <2>4, <2>5, <2>6
    <3>2. offset + first \in Nat /\ (offset + first) + more <= c
      BY <2>1, <2>3, <2>5
    <3>3. ASSUME NEW i \in 1 .. more
          PROVE  Turn(h + ((offset + first) + i) - 1) = skipped + i - 1
      BY <2>1, <2>3, <2>4, <2>5, <2>6 DEF Turn
    <3>. QED
      BY <2>2, <2>5, <3>1, <3>2, <3>3 DEF IsPiece
  <2>9. Slice(b, start, first) \o Slice(b, skipped, more) = Part(b, offset, total)
    <3> DEFINE past == offset + first
    <3>1. past = offset + first /\ total = first + more /\ IsPiece(b, skipped, more, past)
      BY <2>5, <2>8, <2>c
    <3> HIDE DEF past
    <3>. QED
      BY <2>7, <3>1, PiecesAre
  <2>. QED
    BY <1>2, <2>b, <2>9
<1>. QED
  BY <1>1, <1>2

\* The bytes from the one after the first skip ones, up to the index past
\* the last of n.
LEMMA DoDumpIs ==
    ASSUME BufferAssumption, NEW b \in Ring, NEW n \in Nat \ {0}, NEW skip \in Nat,
           skip + n <= b.count
    PROVE  DoDump(b, Turn(b.head + skip), Turn(b.head + skip + n)) = Part(b, skip, n)
<1> DEFINE h    == b.head
           c    == b.count
           head == Turn(b.head + skip)
           tail == Turn(b.head + skip + n)
<1>. SUFFICES DoDump(b, head, tail) = Part(b, skip, n)
  OBVIOUS
<1>1. /\ Size \in Nat \ {0} /\ h \in 0 .. Size - 1 /\ c \in 1 .. Size
      /\ skip + n <= c /\ skip \in Nat /\ n \in Nat \ {0}
      /\ head = Turn(h + skip) /\ tail = Turn(h + skip + n)
  BY RingIs
<1>2. h = b.head /\ c = b.count
  OBVIOUS
<1> HIDE DEF h, c, head, tail
<1>3. head \in 0 .. Size - 1 /\ tail \in 0 .. Size - 1
  BY <1>1 DEF Turn
<1>4. CASE tail > head
  <2>1. tail - head = n
    BY <1>1, <1>4 DEF Turn
  <2>3. DoDump(b, head, tail) = Slice(b, head, tail - head)
    BY <1>1, <1>2, <1>4 DEF DoDump
  <2>2. IsPiece(b, head, n, skip)
    <3>1. ASSUME NEW i \in 1 .. n
          PROVE  Turn(h + (skip + i) - 1) = head + i - 1
      BY <1>1, <1>4 DEF Turn
    <3>2. head + n <= Size
      BY <1>1, <1>3, <2>1
    <3>. QED
      BY <1>1, <1>2, <1>3, <3>1, <3>2 DEF IsPiece
  <2>. QED
    BY <2>1, <2>2, <2>3, OnePieceIs
<1>5. CASE ~(tail > head)
  <2> DEFINE first == Size - head
  <2>1. DoDump(b, head, tail) = Slice(b, head, first) \o Slice(b, 0, tail)
    <3>1. b.count # 0
      BY <1>1, <1>2
    <3>. QED
      BY <1>5, <3>1 DEF DoDump
  <2>2. first = Size - head /\ first \in Nat /\ first + tail = n
    BY <1>1, <1>5 DEF Turn
  <2> HIDE DEF first
  <2>3. IsPiece(b, head, first, skip)
    <3>1. ASSUME NEW i \in 1 .. first
          PROVE  Turn(h + (skip + i) - 1) = head + i - 1
      BY <1>1, <1>5, <2>2 DEF Turn
    <3>2. head + first <= Size /\ skip + first <= c
      BY <1>1, <1>3, <2>2
    <3>. QED
      BY <1>1, <1>2, <1>3, <2>2, <3>1, <3>2 DEF IsPiece
  <2>4. IsPiece(b, 0, tail, skip + first)
    <3>1. ASSUME NEW i \in 1 .. tail
          PROVE  Turn(h + ((skip + first) + i) - 1) = 0 + i - 1
      BY <1>1, <1>5, <2>2 DEF Turn
    <3>2. 0 + tail <= Size /\ (skip + first) + tail <= c /\ skip + first \in Nat
      BY <1>1, <1>3, <2>2
    <3>. QED
      BY <1>1, <1>2, <1>3, <2>2, <3>1, <3>2 DEF IsPiece
  <2>. QED
    <3> DEFINE past  == skip + first
    <3>1. past = skip + first /\ n = first + tail /\ IsPiece(b, 0, tail, past)
      BY <2>2, <2>4
    <3> HIDE DEF past
    <3>3. Slice(b, head, first) \o Slice(b, 0, tail) = Part(b, skip, n)
      BY <2>3, <3>1, PiecesAre
    <3>. QED
      BY <2>1, <3>3
<1>. QED
  BY <1>4, <1>5

\* What the byte string gives when it is asked for n bytes after skip ones.
LEMMA AskedPartIs ==
    ASSUME BufferAssumption, NEW b \in Ring, NEW n \in Nat, NEW skip \in Nat,
           NEW total, total = IF n < b.count - skip THEN n ELSE b.count - skip
    PROVE  LET asked == SubSeq(Contents(b), skip + 1,
                               IF n + skip < b.count THEN n + skip ELSE b.count)
           IN  /\ n = 0 \/ skip >= b.count => asked = <<>>
               /\ skip < b.count => /\ asked = Part(b, skip, total)
                                   /\ asked \in Seq(Byte) /\ Len(asked) = total
<1> DEFINE last == IF n + skip < b.count THEN n + skip ELSE b.count
<1>1. b.count \in Nat /\ last \in Int
  BY RingIs
<1>2. ASSUME n = 0 \/ skip >= b.count
      PROVE  SubSeq(Contents(b), skip + 1, last) = <<>>
  <2>1. last < skip + 1 /\ skip + 1 \in Int
    BY <1>1, <1>2
  <2> HIDE DEF last
  <2>. QED
    BY <1>1, <2>1, SubSeqEmpty
<1>3. ASSUME skip < b.count
      PROVE  /\ SubSeq(Contents(b), skip + 1, last) = Part(b, skip, total)
             /\ Part(b, skip, total) \in Seq(Byte) /\ Len(Part(b, skip, total)) = total
  <2>1. last = skip + total /\ total \in Nat /\ skip + total <= b.count
    BY <1>1, <1>3
  <2> HIDE DEF last
  <2>2. SubSeq(Contents(b), skip + 1, last) = Part(b, skip, total)
    BY <2>1 DEF Part
  <2>. QED
    BY <2>1, <2>2, PartIs
<1>. QED
  BY <1>2, <1>3

\* The part that is the whole string.
LEMMA WholeIs ==
    ASSUME BufferAssumption, NEW b \in Ring
    PROVE  Part(b, 0, b.count) = Contents(b)
<1>1. Contents(b) \in Seq(Byte) /\ Len(Contents(b)) = b.count /\ b.count \in Nat
  BY RingIs, ContentsAre
<1>2. /\ Part(b, 0, b.count) \in Seq(Byte) /\ Len(Part(b, 0, b.count)) = b.count
      /\ \A i \in 1 .. b.count : Part(b, 0, b.count)[i] = Contents(b)[0 + i]
  <2>1. 0 \in Nat /\ 0 + b.count <= b.count
    BY <1>1
  <2>. QED
    BY <1>1, <2>1, PartIs
<1>3. \A i \in 1 .. b.count : Part(b, 0, b.count)[i] = Contents(b)[i]
  BY <1>1, <1>2
<1>. QED
  BY <1>1, <1>2, <1>3, SeqEqual

\* The string is empty when the count is zero.
LEMMA EmptyIs ==
    ASSUME BufferAssumption, NEW b \in Ring
    PROVE  Contents(b) = <<>> <=> b.count = 0
BY ContentsAre, EmptySeq

\* A pop of n bytes takes the first n of the string.
LEMMA PoppedIs ==
    ASSUME BufferAssumption, NEW b \in Ring, NEW n \in 0 .. b.count
    PROVE  /\ Popped(b, n) \in Ring
           /\ Contents(Popped(b, n)) = SubSeq(Contents(b), n + 1, Len(Contents(b)))
<1> DEFINE h    == b.head
           c    == b.count
           new  == Popped(b, n)
           rest == c - n
           head == IF rest = 0 THEN 0 ELSE Turn(h + n)
<1>1. /\ Size \in Nat \ {0} /\ h \in 0 .. Size - 1 /\ c \in 0 .. Size
      /\ n \in 0 .. c /\ rest \in 0 .. c /\ n + rest = c
      /\ b.bytes \in [0 .. Size - 1 -> Byte]
  BY RingIs
<1>2. h = b.head /\ c = b.count
  OBVIOUS
<1> HIDE DEF h, c
<1>4. (h + n) % Size = Turn(h + n) /\ Turn(h + n) \in 0 .. Size - 1
  BY <1>1 DEF Turn
<1>5. new = [b EXCEPT !.head = head, !.count = rest]
  BY <1>2, <1>4 DEF Popped
<1>6. head \in 0 .. Size - 1 /\ rest \in 0 .. Size
  BY <1>1, <1>4
<1>7. new \in Ring /\ new.count = rest /\ new.bytes = b.bytes /\ new.head = head
  BY <1>5, <1>6 DEF Ring
<1>8. rest \in Nat /\ (rest # 0 => head = Turn(h + n))
  BY <1>1
<1> HIDE DEF new, rest, head
<1>9. /\ Contents(new) \in Seq(Byte) /\ Len(Contents(new)) = rest
      /\ \A i \in 1 .. rest : Contents(new)[i] = b.bytes[Turn(head + i - 1)]
  BY <1>7, ContentsAre
<1>10. /\ Part(b, n, rest) \in Seq(Byte) /\ Len(Part(b, n, rest)) = rest
       /\ \A i \in 1 .. rest : Part(b, n, rest)[i] = Contents(b)[n + i]
  BY <1>1, <1>2, <1>8, PartIs
<1>11. ASSUME NEW i \in 1 .. rest
       PROVE  Contents(new)[i] = Part(b, n, rest)[i]
  <2>1. n + i \in 1 .. c /\ Turn(head + i - 1) = Turn(h + (n + i) - 1)
    BY <1>1, <1>8 DEF Turn
  <2>2. Contents(b)[n + i] = b.bytes[Turn(h + (n + i) - 1)]
    BY <1>2, <2>1, ContentsAre
  <2>. QED
    BY <1>9, <1>10, <2>1, <2>2
<1>12. Contents(new) = Part(b, n, rest)
  BY <1>8, <1>9, <1>10, <1>11, SeqEqual
<1>13. Part(b, n, rest) = SubSeq(Contents(b), n + 1, Len(Contents(b)))
  BY <1>1, <1>2, ContentsAre DEF Part
<1>. QED
  BY <1>7, <1>12, <1>13 DEF new

\* A ring that is made full holds a string of its size.
LEMMA MadeFullIs ==
    ASSUME BufferAssumption, NEW b \in Ring, NEW index \in Nat
    PROVE  /\ MadeFull(b, index) \in Ring
           /\ Contents(MadeFull(b, index)) \in [1 .. Size -> Byte]
<1>1. Size \in Nat \ {0} /\ index % Size \in 0 .. Size - 1
  BY RingIs
<1>2. Size \in 0 .. Size
  BY <1>1
<1>3. MadeFull(b, index) \in Ring /\ MadeFull(b, index).count = Size
  BY <1>1, <1>2 DEF MadeFull, Ring
<1>4. /\ Contents(MadeFull(b, index)) \in Seq(Byte)
      /\ Len(Contents(MadeFull(b, index))) = Size
  BY <1>3, ContentsAre
<1>. QED
  BY <1>3, <1>4, LenProperties

\* A ring over any array is empty at first.
LEMMA FreshIs ==
    ASSUME BufferAssumption, NEW bytes \in [0 .. Size - 1 -> Byte]
    PROVE  Fresh(bytes) \in Ring /\ Contents(Fresh(bytes)) = <<>>
<1>1. Size \in Nat \ {0}
  BY DEF BufferAssumption
<1>2. Fresh(bytes) \in Ring /\ Fresh(bytes).count = 0
  BY <1>1 DEF Fresh, Ring
<1>. QED
  BY <1>2, EmptyIs

\* A ring that is cleared is empty.
LEMMA ClearedIs ==
    ASSUME BufferAssumption, NEW b \in Ring
    PROVE  Cleared(b) \in Ring /\ Contents(Cleared(b)) = <<>>
<1>1. 0 \in 0 .. Size - 1 /\ 0 \in 0 .. Size
  BY RingIs
<1>2. Cleared(b) \in Ring /\ Cleared(b).count = 0
  BY <1>1 DEF Cleared, Ring
<1>. QED
  BY <1>2, EmptyIs

\* What the three dumps name: the string, its oldest and its newest bytes.
LEMMA DumpsAre ==
    ASSUME BufferAssumption, NEW b \in Ring, NEW n \in Nat
    PROVE  /\ Dump(b) = Contents(b)
           /\ DumpOldest(b, n) = Part(b, 0, Smaller(n, b.count))
           /\ DumpNewest(b, n) = Part(b, b.count - Smaller(n, b.count), Smaller(n, b.count))
<1> DEFINE h == b.head
           c == b.count
           k == Smaller(n, c)
<1>1. /\ Size \in Nat \ {0} /\ h \in 0 .. Size - 1 /\ c \in 0 .. Size
      /\ TailIndex(b) = Turn(h + c) /\ k \in 0 .. c
  BY RingIs DEF Smaller
<1>2. h = b.head /\ c = b.count /\ k = Smaller(n, c)
  OBVIOUS
<1> HIDE DEF h, c, k
<1>3. /\ Turn(h + 0) = h /\ h + 0 + c = h + c /\ h + 0 + k = h + k
      /\ h + (c - k) + k = h + c
  BY <1>1 DEF Turn
<1>4. Dump(b) = Contents(b)
  <2>1. CASE c = 0
    BY <1>2, <2>1, EmptyIs DEF Dump, DoDump
  <2>2. CASE c # 0
    <3>1. c \in Nat \ {0} /\ 0 \in Nat /\ 0 + c <= c
      BY <1>1, <2>2
    <3>2. DoDump(b, Turn(h + 0), Turn(h + 0 + c)) = Part(b, 0, c)
      BY <1>2, <3>1, DoDumpIs
    <3>. QED
      BY <1>1, <1>2, <1>3, <3>2, WholeIs DEF Dump
  <2>. QED
    BY <2>1, <2>2
<1>5. DumpOldest(b, n) = Part(b, 0, k)
  <2>1. CASE k = 0
    BY <1>1, <1>2, <2>1, SubSeqEmpty DEF DumpOldest, Part
  <2>2. CASE k # 0
    <3>1. k \in Nat \ {0} /\ 0 \in Nat /\ 0 + k <= c
      BY <1>1, <2>2
    <3>2. DoDump(b, Turn(h + 0), Turn(h + 0 + k)) = Part(b, 0, k)
      BY <1>2, <3>1, DoDumpIs
    <3>3. (Turn(h + c) - (c - k)) % Size = Turn(h + k)
      BY <1>1 DEF Turn
    <3>. QED
      BY <1>1, <1>2, <1>3, <2>2, <3>2, <3>3 DEF DumpOldest
  <2>. QED
    BY <2>1, <2>2
<1>6. DumpNewest(b, n) = Part(b, c - k, k)
  <2>1. CASE k = 0
    BY <1>1, <1>2, <2>1, SubSeqEmpty DEF DumpNewest, Part
  <2>2. CASE k # 0
    <3> DEFINE skip == c - k
    <3>1. k \in Nat \ {0} /\ skip \in Nat /\ skip + k <= c /\ skip = c - k
      BY <1>1, <2>2
    <3>2. (h + skip) % Size = Turn(h + skip)
      BY <1>1, <2>2 DEF Turn
    <3> HIDE DEF skip
    <3>3. DoDump(b, Turn(h + skip), Turn(h + skip + k)) = Part(b, skip, k)
      BY <1>2, <3>1, DoDumpIs
    <3>4. h + skip + k = h + c
      BY <1>1, <3>1
    <3>. QED
      BY <1>1, <1>2, <2>2, <3>1, <3>2, <3>3, <3>4 DEF DumpNewest
  <2>. QED
    BY <2>1, <2>2
<1>. QED
  BY <1>2, <1>4, <1>5, <1>6

-----------------------------------------------------------------------------
(* Each operation of the ring is the operation of the byte string, and      *)
(* leaves a ring.                                                           *)

\* Push is Put.
LEMMA PushImplements ==
    ASSUME BufferAssumption, buf \in Ring, NEW data \in Inputs, NEW overwrite \in BOOLEAN,
           Push(data, overwrite)
    PROVE  buf' \in Ring /\ Fifo!Put(data, overwrite)
<1> DEFINE all  == Contents(buf) \o data
           lost == Len(all) - Size
<1>1. data \in Seq(Byte) /\ Len(data) \in Nat /\ Size \in Nat \ {0} /\ buf.count \in 0 .. Size
  BY RingIs DEF BufferAssumption
<1>2. lost = buf.count + Len(data) - Size
  <2>1. Contents(buf) \in Seq(Byte) /\ Len(Contents(buf)) = buf.count
    BY ContentsAre
  <2>2. Len(all) = Len(Contents(buf)) + Len(data)
    BY ONLY <1>1, <2>1, ConcatProperties
  <2>. QED
    BY <1>1, <2>1, <2>2
<1>3. TooFull(buf, data, overwrite)
        <=> Len(data) > Size \/ (~overwrite /\ Len(data) > 0 /\ lost > 0)
  BY <1>1, <1>2 DEF TooFull, NumBytesFree
<1>4. CASE TooFull(buf, data, overwrite)
  BY <1>3, <1>4 DEF Push, Fifo!Put, Result, Fifo!Result
<1>5. CASE ~TooFull(buf, data, overwrite)
  <2>1. buf' = Pushed(buf, data) /\ out' = Result(<<"Push", data, overwrite>>, "Success", <<>>)
    BY <1>5 DEF Push
  <2>2. Len(data) <= Size
    BY <1>1, <1>5 DEF TooFull
  <2>3. /\ buf' \in Ring
        /\ Contents(buf') = IF lost > 0 THEN SubSeq(all, lost + 1, Len(all)) ELSE all
    BY <1>1, <2>1, <2>2, PushedIs
  <2>. QED
    BY <1>3, <1>5, <2>1, <2>3 DEF Fifo!Put, Result, Fifo!Result
<1>. QED
  BY <1>4, <1>5

\* Peek and Pop ask the ring for what the byte string is asked for.
LEMMA AskedIsPeeked ==
    ASSUME BufferAssumption, buf \in Ring, NEW n \in Nat, NEW offset \in Nat
    PROVE  /\ NothingToPeek(buf, n, offset) <=> n > 0 /\ Fifo!Part(n, offset) = <<>>
           /\ ~NothingToPeek(buf, n, offset) =>
                /\ Peeked(buf, n, offset) = IF n = 0 THEN <<>> ELSE Fifo!Part(n, offset)
                /\ n = 0 => Fifo!Part(n, offset) = <<>>
                /\ Len(Peeked(buf, n, offset)) \in 0 .. buf.count
<1> DEFINE total == IF n < buf.count - offset THEN n ELSE buf.count - offset
           asked == SubSeq(Contents(buf), offset + 1,
                           IF n + offset < buf.count THEN n + offset ELSE buf.count)
<1>1. buf.count \in Nat /\ Len(Contents(buf)) = buf.count
  BY RingIs, ContentsAre
<1>2. Fifo!Part(n, offset) = asked
  BY <1>1 DEF Fifo!Part
<1>3. total = IF n < buf.count - offset THEN n ELSE buf.count - offset
  OBVIOUS
<1>4. offset < buf.count => total \in 0 .. buf.count /\ (total = 0 <=> n = 0)
  BY <1>1
<1> HIDE DEF total
<1>5. /\ n = 0 \/ offset >= buf.count => asked = <<>>
      /\ offset < buf.count => /\ asked = Part(buf, offset, total)
                              /\ asked \in Seq(Byte) /\ Len(asked) = total
  BY <1>3, AskedPartIs
<1>6. (n > 0 => offset < buf.count) =>
        Peeked(buf, n, offset) = IF n = 0 THEN <<>> ELSE Part(buf, offset, total)
  BY <1>3, PeekedIs
<1> HIDE DEF asked
<1>7. CASE n = 0
  BY <1>1, <1>2, <1>5, <1>6, <1>7, EmptySeq DEF NothingToPeek
<1>8. CASE n # 0 /\ buf.count <= offset
  BY <1>1, <1>2, <1>5, <1>8 DEF NothingToPeek
<1>9. CASE n # 0 /\ offset < buf.count
  <2>1. asked # <<>>
    BY <1>4, <1>5, <1>9, EmptySeq
  <2>. QED
    BY <1>1, <1>2, <1>4, <1>5, <1>6, <1>9, <2>1 DEF NothingToPeek
<1>. QED
  BY <1>1, <1>7, <1>8, <1>9

\* Peek is Look.
LEMMA PeekImplements ==
    ASSUME BufferAssumption, buf \in Ring, NEW n \in Nat, NEW offset \in Nat, Peek(n, offset)
    PROVE  buf' \in Ring /\ Fifo!Look(n, offset)
BY AskedIsPeeked DEF Peek, Fifo!Look, Result, Fifo!Result

\* Pop is Take.
LEMMA PopImplements ==
    ASSUME BufferAssumption, buf \in Ring, NEW n \in Nat, Pop(n)
    PROVE  buf' \in Ring /\ Fifo!Take(n)
<1>1. NothingToPeek(buf, n, 0) <=> n > 0 /\ Contents(buf) = <<>>
  BY RingIs, EmptyIs DEF NothingToPeek
<1>2. CASE NothingToPeek(buf, n, 0)
  BY <1>1, <1>2 DEF Pop, Fifo!Take, Result, Fifo!Result
<1>3. CASE ~NothingToPeek(buf, n, 0)
  <2> DEFINE data == Peeked(buf, n, 0)
  <2>1. data = Fifo!Part(n, 0) /\ Len(data) \in 0 .. buf.count
    BY <1>3, AskedIsPeeked
  <2>2. buf' = Popped(buf, Len(data)) /\ out' = Result(<<"Pop", n>>, "Success", data)
    BY <1>3 DEF Pop
  <2> HIDE DEF data
  <2>3. buf' \in Ring /\ Contents(buf') = SubSeq(Contents(buf), Len(data) + 1, Len(Contents(buf)))
    BY <2>1, <2>2, PoppedIs
  <2>. QED
    BY <1>1, <1>3, <2>1, <2>2, <2>3 DEF Fifo!Take, Result, Fifo!Result
<1>. QED
  BY <1>2, <1>3

\* The dumps tell of the string.
LEMMA TellImplements ==
    ASSUME BufferAssumption, buf \in Ring, Tell
    PROVE  buf' \in Ring /\ Fifo!Tell
<1> DEFINE c == buf.count
<1>1. c \in Nat /\ Len(Contents(buf)) = c /\ 0 .. MaxRequest \subseteq Nat /\ c = buf.count
  BY RingIs, ContentsAre DEF BufferAssumption
<1>2. UNCHANGED buf /\ buf' \in Ring
  BY DEF Tell
<1>3. Dump(buf) = Contents(buf)
  BY DumpsAre
<1> HIDE DEF c
<1>4. ASSUME NEW n \in Nat
      PROVE  DumpOldest(buf, n) = Fifo!Part(n, 0)
  <2> DEFINE k == Smaller(n, c)
  <2>1. DumpOldest(buf, n) = Part(buf, 0, k)
    BY <1>1, DumpsAre
  <2>2. k \in Nat /\ 0 + k = k /\ n + 0 = n /\ k = IF n < c THEN n ELSE c
    BY <1>1 DEF Smaller
  <2> HIDE DEF k
  <2>3. Fifo!Part(n, 0) = SubSeq(Contents(buf), 0 + 1, k)
    BY <1>1, <2>2 DEF Fifo!Part
  <2>. QED
    BY <2>1, <2>2, <2>3 DEF Part
<1>5. ASSUME NEW n \in Nat
      PROVE  DumpNewest(buf, n) = IF n < Len(Contents(buf))
                                  THEN Fifo!Part(n, Len(Contents(buf)) - n) ELSE Contents(buf)
  <2>1. CASE n < c
    <3> DEFINE skip == c - n
    <3>1. Smaller(n, c) = n
      BY <1>1, <2>1 DEF Smaller
    <3>2. DumpNewest(buf, n) = Part(buf, skip, n)
      BY <1>1, <3>1, DumpsAre
    <3>3. skip \in Nat /\ n + skip = c /\ skip + n = c
      BY <1>1, <2>1
    <3>4. skip = Len(Contents(buf)) - n
      BY <1>1
    <3> HIDE DEF skip
    <3>5. Fifo!Part(n, skip) = SubSeq(Contents(buf), skip + 1, c)
      BY <1>1, <3>3 DEF Fifo!Part
    <3>. QED
      BY <1>1, <2>1, <3>2, <3>3, <3>4, <3>5 DEF Part
  <2>2. CASE ~(n < c)
    <3>1. Smaller(n, c) = c /\ c - c = 0
      BY <1>1, <2>2 DEF Smaller
    <3>2. DumpNewest(buf, n) = Part(buf, 0, c)
      BY <1>1, <3>1, DumpsAre
    <3>. QED
      BY <1>1, <2>2, <3>2, WholeIs
  <2>. QED
    BY <2>1, <2>2
<1>6. CASE out' = Result(<<"Dump">>, "Success", Dump(buf))
  BY <1>2, <1>3, <1>6 DEF Fifo!Tell, Result, Fifo!Result
<1>7. ASSUME NEW n \in 0 .. MaxRequest,
             out' = Result(<<"Dump_Oldest", n>>, "Success", DumpOldest(buf, n))
      PROVE  Fifo!Tell
  BY <1>1, <1>2, <1>4, <1>7 DEF Fifo!Tell, Result, Fifo!Result
<1>8. ASSUME NEW n \in 0 .. MaxRequest,
             out' = Result(<<"Dump_Newest", n>>, "Success", DumpNewest(buf, n))
      PROVE  Fifo!Tell
  BY <1>1, <1>2, <1>5, <1>8 DEF Fifo!Tell, Result, Fifo!Result
<1>. QED
  BY <1>2, <1>6, <1>7, <1>8 DEF Tell

\* Every call is one of the byte string.
LEMMA NextImplements ==
    ASSUME BufferAssumption, buf \in Ring, [Next]_vars
    PROVE  buf' \in Ring /\ [Fifo!Next]_(Fifo!vars)
<1>1. MaxRequest \in Nat /\ 0 .. MaxRequest \subseteq Nat
  BY DEF BufferAssumption
<1>2. ASSUME NEW data \in Inputs, NEW overwrite \in BOOLEAN, Push(data, overwrite)
      PROVE  buf' \in Ring /\ Fifo!Next
  BY <1>2, PushImplements DEF Fifo!Next
<1>3. ASSUME NEW n \in 0 .. MaxRequest, NEW offset \in 0 .. MaxRequest, Peek(n, offset)
      PROVE  buf' \in Ring /\ Fifo!Next
  BY <1>1, <1>3, PeekImplements DEF Fifo!Next
<1>4. ASSUME NEW n \in 0 .. MaxRequest, Pop(n)
      PROVE  buf' \in Ring /\ Fifo!Next
  BY <1>1, <1>4, PopImplements DEF Fifo!Next
<1>5. ASSUME NEW index \in 0 .. MaxRequest, MakeFull(index)
      PROVE  buf' \in Ring /\ Fifo!Next
  <2>1. buf' \in Ring /\ Contents(buf') \in [1 .. Size -> Byte]
    BY <1>1, <1>5, MadeFullIs DEF MakeFull
  <2>2. Fifo!Refill(index)
    BY <1>5, <2>1 DEF MakeFull, Fifo!Refill, Result, Fifo!Result
  <2>. QED
    BY <2>1, <2>2 DEF Fifo!Next
<1>6. ASSUME Clear
      PROVE  buf' \in Ring /\ Fifo!Next
  <2>1. buf' \in Ring /\ Contents(buf') = <<>>
    BY <1>6, ClearedIs DEF Clear
  <2>2. Fifo!Reset
    BY <1>6, <2>1 DEF Clear, Fifo!Reset, Result, Fifo!Result
  <2>. QED
    BY <2>1, <2>2 DEF Fifo!Next
<1>7. ASSUME Tell
      PROVE  buf' \in Ring /\ Fifo!Next
  BY <1>7, TellImplements DEF Fifo!Next
<1>8. ASSUME Reinit
      PROVE  buf' \in Ring /\ Fifo!Next
  <2>1. buf' \in Ring /\ Contents(buf') = <<>>
    BY <1>8, FreshIs DEF Reinit
  <2>2. Fifo!Reset
    BY <1>8, <2>1 DEF Reinit, Fifo!Reset, Result, Fifo!Result
  <2>. QED
    BY <2>1, <2>2 DEF Fifo!Next
<1>9. ASSUME UNCHANGED vars
      PROVE  buf' \in Ring /\ UNCHANGED Fifo!vars
  BY <1>9 DEF vars, Fifo!vars
<1>. QED
  BY <1>2, <1>3, <1>4, <1>5, <1>6, <1>7, <1>8, <1>9 DEF Next

\* Whatever is pushed, peeked, popped, dumped, cleared or made full, in whatever
\* order and however often the string turns around the array
\* (data_structures/circular_buffer.adb): the calls return what the bounded byte
\* string returns.
THEOREM RingIsByteFifo ==
    ASSUME BufferAssumption
    PROVE  Spec => ImplementsByteFifo
<1>1. Init => TypeOK /\ Fifo!Init
  BY FreshIs DEF Init, TypeOK, Fifo!Init, Result, Fifo!Result
<1>2. TypeOK /\ [Next]_vars => TypeOK' /\ [Fifo!Next]_(Fifo!vars)
  BY NextImplements DEF TypeOK
<1>. QED
  BY <1>1, <1>2, PTL DEF Spec, ImplementsByteFifo, Fifo!Spec

-----------------------------------------------------------------------------
(* Queues of elements in the ring.                                         *)

CONSTANTS LengthBytes, LabelBytes, Labels, Data

VARIABLES queue, items, queueOut

Queue == INSTANCE CircularQueue WITH buf <- queue, itemCount <- items, out <- queueOut

LEMMA QueueHasRing ==
    ASSUME Queue!QueueAssumption
    PROVE  BufferAssumption
BY DEF Queue!QueueAssumption, BufferAssumption

\* The queue uses the operations of the ring.
LEMMA SameRing ==
    /\ \A b : Queue!Contents(b) = Contents(b) /\ Queue!Cleared(b) = Cleared(b)
    /\ \A b, n, skip : Queue!Peeked(b, n, skip) = Peeked(b, n, skip)
    /\ \A b, n : Queue!Popped(b, n) = Popped(b, n)
    /\ \A b, data : Queue!Pushed(b, data) = Pushed(b, data)
    /\ \A b, data, o : Queue!TooFull(b, data, o) = TooFull(b, data, o)
    /\ \A bytes : Queue!Fresh(bytes) = Fresh(bytes)
    /\ \A b : Queue!NumBytesFree(b) = NumBytesFree(b)
    /\ \A m, n : Queue!Smaller(m, n) = Smaller(m, n)
<1>1. \A m, n : Queue!Smaller(m, n) = Smaller(m, n) /\ Queue!Larger(m, n) = Larger(m, n)
  BY DEF Queue!Smaller, Smaller, Queue!Larger, Larger
<1>2. \A b : Queue!Contents(b) = Contents(b) /\ Queue!Cleared(b) = Cleared(b)
  BY DEF Queue!Contents, Contents, Queue!Cleared, Cleared
<1>3. \A b, start, n : Queue!Slice(b, start, n) = Slice(b, start, n)
  BY DEF Queue!Slice, Slice
<1>4. \A b, n, skip : Queue!Peeked(b, n, skip) = Peeked(b, n, skip)
  BY <1>1, <1>3 DEF Queue!Peeked, Peeked
<1>5. \A b, n : Queue!Popped(b, n) = Popped(b, n)
  BY DEF Queue!Popped, Popped
<1>6. \A b : Queue!TailIndex(b) = TailIndex(b) /\ Queue!NumBytesFree(b) = NumBytesFree(b)
  BY DEF Queue!TailIndex, TailIndex, Queue!NumBytesFree, NumBytesFree
<1>7. \A b, data : Queue!Written(b, data) = Written(b, data)
  BY <1>1, <1>6 DEF Queue!Written, Written
<1>8. \A b, data : Queue!Pushed(b, data) = Pushed(b, data)
  BY <1>1, <1>7 DEF Queue!Pushed, Pushed
<1>9. \A b, data, o : Queue!TooFull(b, data, o) = TooFull(b, data, o)
  BY <1>6 DEF Queue!TooFull, TooFull
<1>10. \A bytes : Queue!Fresh(bytes) = Fresh(bytes)
  BY DEF Queue!Fresh, Fresh
<1>. QED
  BY <1>1, <1>2, <1>4, <1>5, <1>6, <1>8, <1>9, <1>10

\* An element, and the string that it is stored as behind the first p bytes.
Elements == [label : Labels, data : Seq(Data)]

StoredAt(s, p, e) ==
    LET length == LabelBytes + Len(e.data) IN
    /\ \A i \in 1 .. LengthBytes : s[p + i] = <<"length", length, i>>
    /\ \A i \in 1 .. LabelBytes : s[p + LengthBytes + i] = <<"label", e.label, i>>
    /\ \A i \in 1 .. Len(e.data) : s[p + LengthBytes + LabelBytes + i] = e.data[i]

StringLength(e) == LengthBytes + LabelBytes + Len(e.data)

\* The string s is that of the elements es, which end where ends says.
Stored(s, es, ends) ==
    /\ es \in Seq(Elements)
    /\ ends \in [0 .. Len(es) -> Nat]
    /\ ends[0] = 0
    /\ ends[Len(es)] = Len(s)
    /\ \A k \in 1 .. Len(es) :
           ends[k] = ends[k - 1] + StringLength(es[k]) /\ StoredAt(s, ends[k - 1], es[k])

\* A set of numbers has a least one.
LEMMA LeastExists ==
    ASSUME NEW T \in SUBSET Nat, T # {}
    PROVE  \E m \in T : \A n \in T : m <= n
<1> DEFINE Less == {p \in Nat \X Nat : p[1] < p[2]}
<1>1. OpToRel(<, Nat) = Less
  BY DEF OpToRel
<1>2. IsWellFoundedOn(Less, Nat)
  BY <1>1, NatLessThanWellFounded
<1>3. PICK m \in T : \A n \in T : ~(<<n, m>> \in Less)
  BY <1>2, WFMin
<1>4. ASSUME NEW n \in T PROVE m <= n
  <2>1. m \in Nat /\ n \in Nat
    OBVIOUS
  <2>2. ~(n < m)
    BY <1>3, <2>1
  <2>. QED BY <2>1, <2>2
<1>. QED BY <1>4

\* Elements end one after the other.
LEMMA EndsAscend ==
    ASSUME NEW n \in Nat, NEW ends \in [0 .. n -> Nat], \A k \in 1 .. n : ends[k - 1] <= ends[k]
    PROVE  \A j \in 0 .. n : \A k \in j .. n : ends[j] <= ends[k]
<1> SUFFICES ASSUME NEW j \in 0 .. n, NEW k \in j .. n, ~(ends[j] <= ends[k]) PROVE FALSE
  OBVIOUS
<1> DEFINE T == {m \in Nat : m \in j .. n /\ ~(ends[j] <= ends[m])}
<1>1. T \in SUBSET Nat /\ k \in T
  OBVIOUS
<1>2. PICK m \in T : \A i \in T : m <= i
  BY <1>1, LeastExists
<1>3. m \in j .. n /\ ~(ends[j] <= ends[m]) /\ m # j
  OBVIOUS
<1>4. m - 1 \in j .. n /\ m - 1 \notin T /\ m \in 1 .. n
  BY <1>2, <1>3
<1>5. ends[j] <= ends[m - 1] /\ ends[m - 1] <= ends[m]
  BY <1>4
<1>6. ends[j] \in Nat /\ ends[m - 1] \in Nat /\ ends[m] \in Nat
  BY <1>3, <1>4
<1>. QED BY <1>3, <1>5, <1>6

\* Functions on the numbers up to n, and two that begin and go on alike.
OnUpTo(f, n) == f = [k \in 0 .. n |-> f[k]]
GoOnAlike(f, g, n) == f[0] = g[0] /\ \A k \in 1 .. n : f[k - 1] = g[k - 1] => f[k] = g[k]

LEMMA SameUpTo ==
    ASSUME NEW n \in Nat, NEW f, NEW g, OnUpTo(f, n), OnUpTo(g, n), GoOnAlike(f, g, n)
    PROVE  f = g
<1> SUFFICES ASSUME f # g PROVE FALSE
  OBVIOUS
<1> DEFINE T == {m \in 0 .. n : f[m] # g[m]}
<1>1. T \in SUBSET Nat /\ T # {}
  BY DEF OnUpTo
<1>2. PICK m \in T : \A i \in T : m <= i
  BY <1>1, LeastExists
<1>3. m \in 1 .. n /\ f[m] # g[m]
  BY DEF GoOnAlike
<1>4. m - 1 \in 0 .. n /\ m - 1 \notin T
  BY <1>2, <1>3
<1>. QED BY <1>3, <1>4 DEF GoOnAlike

\* What is read of an element e between p and q.
ReadAt(s, e, p, q) ==
    /\ e.label \in Labels /\ e.data \in Seq(Data) /\ Len(e.data) \in Nat
    /\ e = [label |-> e.label, data |-> e.data]
    /\ p \in Nat /\ q \in Nat /\ q = p + LengthBytes + LabelBytes + Len(e.data) /\ q <= Len(s)
    /\ s[p + 1] = <<"length", LabelBytes + Len(e.data), 1>>
    /\ s[p + LengthBytes + 1] = <<"label", e.label, 1>>
    /\ SubSeq(s, p + LengthBytes + LabelBytes + 1, q) = e.data

\* Where an element of the string begins and ends.
LEMMA ElementIs ==
    ASSUME Queue!QueueAssumption, NEW s \in Seq(Byte), NEW es, NEW ends, Stored(s, es, ends),
           NEW k \in 1 .. Len(es)
    PROVE  ReadAt(s, es[k], ends[k - 1], ends[k])
<1>1. /\ es \in Seq(Elements) /\ Len(es) \in Nat /\ k - 1 \in 0 .. Len(es) /\ k \in 0 .. Len(es)
      /\ ends \in [0 .. Len(es) -> Nat] /\ ends[Len(es)] = Len(s)
      /\ LengthBytes \in Nat \ {0} /\ LabelBytes \in Nat \ {0}
  BY DEF Stored, Queue!QueueAssumption
<1>2. \A j \in 1 .. Len(es) :
          ends[j] = ends[j - 1] + StringLength(es[j]) /\ StoredAt(s, ends[j - 1], es[j])
  BY DEF Stored
<1>3. ASSUME NEW j \in 1 .. Len(es)
      PROVE  /\ es[j].label \in Labels /\ es[j].data \in Seq(Data) /\ Len(es[j].data) \in Nat
             /\ es[j] = [label |-> es[j].label, data |-> es[j].data]
             /\ ends[j - 1] \in Nat /\ ends[j] \in Nat
             /\ ends[j] = ends[j - 1] + LengthBytes + LabelBytes + Len(es[j].data)
  <2>1. es[j] \in Elements
    BY <1>1, ElementOfSeq
  <2>2. /\ es[j].label \in Labels /\ es[j].data \in Seq(Data)
        /\ es[j] = [label |-> es[j].label, data |-> es[j].data]
    BY <2>1 DEF Elements
  <2>3. Len(es[j].data) \in Nat
    BY <2>2, LenProperties
  <2>4. ends[j - 1] \in Nat /\ ends[j] \in Nat
    <3>1. j - 1 \in 0 .. Len(es) /\ j \in 0 .. Len(es)
      BY ONLY <1>1, j \in 1 .. Len(es)
    <3>. QED BY <1>1, <3>1
  <2>5. StringLength(es[j]) = LengthBytes + LabelBytes + Len(es[j].data)
    BY DEF StringLength
  <2>6. ends[j] = ends[j - 1] + StringLength(es[j])
    BY <1>2
  <2>. PICK m, a, b : m = Len(es[j].data) /\ a = ends[j - 1] /\ b = ends[j]
    OBVIOUS
  <2>7. b = a + LengthBytes + LabelBytes + m
    <3>1. b = a + (LengthBytes + LabelBytes + m) /\ a \in Nat /\ m \in Nat
      BY <2>3, <2>4, <2>5, <2>6
    <3>. QED BY ONLY <1>1, <3>1
  <2>. QED BY <2>2, <2>3, <2>4, <2>7
<1>4. ends[k] <= Len(s)
  <2>1. \A j \in 1 .. Len(es) : ends[j - 1] <= ends[j]
    <3> SUFFICES ASSUME NEW j \in 1 .. Len(es) PROVE ends[j - 1] <= ends[j]
      OBVIOUS
    <3>1. /\ ends[j - 1] \in Nat /\ Len(es[j].data) \in Nat
          /\ ends[j] = ends[j - 1] + LengthBytes + LabelBytes + Len(es[j].data)
      BY <1>3
    <3>. QED BY <1>1, <3>1
  <2>2. \A j \in 0 .. Len(es) : \A i \in j .. Len(es) : ends[j] <= ends[i]
    BY <1>1, <2>1, EndsAscend
  <2>3. Len(es) \in k .. Len(es)
    BY <1>1
  <2>. QED BY <1>1, <2>2, <2>3
<1>5. StoredAt(s, ends[k - 1], es[k])
  BY <1>2
<1>6. 1 \in 1 .. LengthBytes /\ 1 \in 1 .. LabelBytes
  BY <1>1
<1>7. s[ends[k - 1] + 1] = <<"length", LabelBytes + Len(es[k].data), 1>>
  BY <1>5, <1>6 DEF StoredAt
<1>8. s[ends[k - 1] + LengthBytes + 1] = <<"label", es[k].label, 1>>
  BY <1>5, <1>6 DEF StoredAt
<1>9. SubSeq(s, ends[k - 1] + LengthBytes + LabelBytes + 1, ends[k]) = es[k].data
  <2> DEFINE p == ends[k - 1] + LengthBytes + LabelBytes
             d == es[k].data
             n == Len(d)
             q == ends[k]
  <2>1. /\ p \in Nat /\ n \in Nat /\ q = p + n /\ d \in Seq(Data) /\ Len(d) = n
        /\ q <= Len(s) /\ Len(s) \in Nat
    <3>1. Len(s) \in Nat /\ s \in Seq(Byte)
      BY LenProperties
    <3>2. /\ es[k].data \in Seq(Data) /\ Len(es[k].data) \in Nat /\ ends[k - 1] \in Nat
          /\ ends[k] = ends[k - 1] + LengthBytes + LabelBytes + Len(es[k].data)
      BY <1>3
    <3>. QED BY <1>1, <1>4, <3>1, <3>2
  <2>2. \A i \in 1 .. n : s[p + i] = d[i]
    BY <1>5 DEF StoredAt
  <2> HIDE DEF p, d, n, q
  <2>3. SubSeq(s, p + 1, q) \in Seq(Byte) /\ Len(SubSeq(s, p + 1, q)) = n
    BY <2>1, SubSeqProperties
  <2>4. \A i \in 1 .. n : SubSeq(s, p + 1, q)[i] = s[p + i]
    BY <2>1
  <2>5. Data \subseteq Byte
    BY DEF Queue!QueueAssumption
  <2>6. SubSeq(s, p + 1, q) = d
    BY <2>1, <2>2, <2>3, <2>4, <2>5, SeqEqual
  <2>. QED BY <2>6 DEF p, d, q
<1>. QED BY <1>3, <1>4, <1>7, <1>8, <1>9 DEF ReadAt

\* The elements that are found in the ring are those whose string it holds.
LEMMA FoundAsStored ==
    ASSUME Queue!QueueAssumption, NEW es, NEW ends, Stored(Contents(queue), es, ends),
           Contents(queue) \in Seq(Byte), items = Len(es)
    PROVE  Queue!ElementsOfQueue = es
<1> PICK s : s = Contents(queue)
  OBVIOUS
<1> DEFINE next(f) == [k \in 0 .. items |->
                          IF k = 0 THEN 0 ELSE f[k - 1] + LengthBytes + s[f[k - 1] + 1][2]]
<1>1. /\ items \in Nat /\ ends \in [0 .. items -> Nat] /\ ends[0] = 0
      /\ es \in Seq(Elements) /\ DOMAIN es = 1 .. items /\ LengthBytes \in Nat \ {0}
      /\ LabelBytes \in Nat \ {0}
  BY DEF Stored, Queue!QueueAssumption
<1>2. ASSUME NEW k \in 1 .. items
      PROVE  ends[k] = ends[k - 1] + LengthBytes + s[ends[k - 1] + 1][2]
  <2>1. /\ ends[k] = ends[k - 1] + LengthBytes + LabelBytes + Len(es[k].data)
        /\ s[ends[k - 1] + 1] = <<"length", LabelBytes + Len(es[k].data), 1>>
        /\ ends[k - 1] \in Nat /\ Len(es[k].data) \in Nat
    <3>1. k \in 1 .. Len(es) /\ s \in Seq(Byte) /\ Stored(s, es, ends)
      OBVIOUS
    <3>2. ReadAt(s, es[k], ends[k - 1], ends[k])
      BY <3>1, ElementIs
    <3>. QED BY <3>2 DEF ReadAt
  <2>2. s[ends[k - 1] + 1][2] = LabelBytes + Len(es[k].data)
    BY <2>1
  <2>. PICK a, b, m : a = ends[k - 1] /\ b = ends[k] /\ m = Len(es[k].data)
    OBVIOUS
  <2>3. b = a + LengthBytes + LabelBytes + m /\ a \in Nat /\ m \in Nat
    BY <2>1
  <2>4. b = a + LengthBytes + (LabelBytes + m)
    BY ONLY <1>1, <2>3
  <2>. QED BY <2>2, <2>4
<1>3. Queue!End = CHOOSE f : f = next(f)
  BY SameRing DEF Queue!End
<1>4. ends = next(ends)
  BY <1>1, <1>2
<1>5. Queue!End = next(Queue!End)
  BY <1>3, <1>4
<1>6. Queue!End = ends
  <2> PICK f : f = Queue!End
    OBVIOUS
  <2>1. f = next(f)
    BY <1>5
  <2>2. f = [k \in 0 .. items |-> f[k]] /\ f[0] = 0
    BY <1>1, <2>1
  <2>3. ASSUME NEW k \in 1 .. items PROVE f[k - 1] = ends[k - 1] => f[k] = ends[k]
    <3>1. f[k] = next(f)[k]
      BY <2>1
    <3>2. k \in 0 .. items /\ k # 0
      OBVIOUS
    <3>3. f[k] = f[k - 1] + LengthBytes + s[f[k - 1] + 1][2]
      BY <3>1, <3>2
    <3>. QED BY <1>2, <3>3
  <2>4. OnUpTo(ends, items) /\ OnUpTo(f, items)
    BY <1>1, <2>2 DEF OnUpTo
  <2>5. GoOnAlike(f, ends, items)
    BY <1>1, <2>2, <2>3 DEF GoOnAlike
  <2>6. f = ends
    BY <1>1, <2>4, <2>5, SameUpTo
  <2>. QED BY <2>6
<1>7. Queue!ElementsOfQueue =
          [k \in 1 .. items |->
              [label |-> s[ends[k - 1] + LengthBytes + 1][2],
               data  |-> SubSeq(s, ends[k - 1] + LengthBytes + LabelBytes + 1, ends[k])]]
  BY <1>6, SameRing DEF Queue!ElementsOfQueue
<1>8. ASSUME NEW k \in 1 .. items
      PROVE  /\ es[k] = [label |-> es[k].label, data |-> es[k].data]
             /\ s[ends[k - 1] + LengthBytes + 1][2] = es[k].label
             /\ SubSeq(s, ends[k - 1] + LengthBytes + LabelBytes + 1, ends[k]) = es[k].data
  <2>1. k \in 1 .. Len(es) /\ s \in Seq(Byte) /\ Stored(s, es, ends)
    OBVIOUS
  <2>2. /\ es[k] = [label |-> es[k].label, data |-> es[k].data]
        /\ s[ends[k - 1] + LengthBytes + 1] = <<"label", es[k].label, 1>>
        /\ SubSeq(s, ends[k - 1] + LengthBytes + LabelBytes + 1, ends[k]) = es[k].data
    <3>1. ReadAt(s, es[k], ends[k - 1], ends[k])
      BY <2>1, ElementIs
    <3>. QED BY <3>1 DEF ReadAt
  <2>. QED BY <2>2
<1>9. es = [k \in 1 .. items |-> es[k]]
  BY <1>1
<1>10. ASSUME NEW k \in 1 .. items
       PROVE  es[k] = [label |-> s[ends[k - 1] + LengthBytes + 1][2],
                       data  |-> SubSeq(s, ends[k - 1] + LengthBytes + LabelBytes + 1, ends[k])]
  BY <1>8
<1>. QED BY ONLY <1>7, <1>9, <1>10

\* The bytes that the elements take are those of their string.
LEMMA UsedIsStored ==
    ASSUME Queue!QueueAssumption, NEW s \in Seq(Byte), NEW es, NEW ends, Stored(s, es, ends),
           Queue!ElementsOfQueue = es
    PROVE  Queue!Fifo!Used = Len(s)
<1> DEFINE n == Len(es)
           next(f) == [k \in 0 .. n |->
               IF k = 0 THEN 0 ELSE f[k - 1] + (LengthBytes + LabelBytes) + Len(es[k].data)]
<1>1. /\ n \in Nat /\ ends \in [0 .. n -> Nat] /\ ends[0] = 0 /\ ends[n] = Len(s)
      /\ es \in Seq(Elements) /\ LengthBytes \in Nat \ {0}
      /\ LabelBytes \in Nat \ {0}
  BY DEF Stored, Queue!QueueAssumption
<1>2. ASSUME NEW k \in 1 .. n
      PROVE  ends[k] = ends[k - 1] + (LengthBytes + LabelBytes) + Len(es[k].data)
  <2>1. /\ ends[k] = ends[k - 1] + LengthBytes + LabelBytes + Len(es[k].data)
        /\ ends[k - 1] \in Nat /\ Len(es[k].data) \in Nat
    <3>1. k \in 1 .. Len(es)
      OBVIOUS
    <3>2. ReadAt(s, es[k], ends[k - 1], ends[k])
      BY <3>1, ElementIs
    <3>. QED BY <3>2 DEF ReadAt
  <2>. QED BY <1>1, <2>1
<1>3. Queue!Fifo!UpTo = CHOOSE f : f = next(f)
  BY DEF Queue!Fifo!UpTo
<1>4. ends = next(ends)
  BY <1>1, <1>2
<1>5. Queue!Fifo!UpTo = next(Queue!Fifo!UpTo)
  BY <1>3, <1>4
<1>6. Queue!Fifo!UpTo = ends
  <2> PICK f : f = Queue!Fifo!UpTo
    OBVIOUS
  <2>1. f = next(f)
    BY <1>5
  <2>2. f = [k \in 0 .. n |-> f[k]] /\ f[0] = 0
    BY <1>1, <2>1
  <2>3. ASSUME NEW k \in 1 .. n PROVE f[k - 1] = ends[k - 1] => f[k] = ends[k]
    <3>1. f[k] = next(f)[k]
      BY <2>1
    <3>2. k \in 0 .. n /\ k # 0
      OBVIOUS
    <3>3. f[k] = f[k - 1] + (LengthBytes + LabelBytes) + Len(es[k].data)
      BY <3>1, <3>2
    <3>. QED BY <1>2, <3>3
  <2>4. OnUpTo(ends, n) /\ OnUpTo(f, n)
    BY <1>1, <2>2 DEF OnUpTo
  <2>5. GoOnAlike(f, ends, n)
    BY <1>1, <2>2, <2>3 DEF GoOnAlike
  <2>6. f = ends
    BY <1>1, <2>4, <2>5, SameUpTo
  <2>. QED BY <2>6
<1>. QED BY <1>1, <1>6 DEF Queue!Fifo!Used

\* The bytes of an element's string.
LEMMA StringLengthIs ==
    ASSUME Queue!QueueAssumption, NEW e \in Elements, NEW m, m = Len(e.data)
    PROVE  /\ m \in Nat /\ LengthBytes \in Nat /\ LabelBytes \in Nat
           /\ StringLength(e) = LengthBytes + LabelBytes + m /\ StringLength(e) \in Nat
<1>1. e.data \in Seq(Data) /\ LengthBytes \in Nat /\ LabelBytes \in Nat
  BY DEF Queue!QueueAssumption, Elements
<1>2. m \in Nat
  BY <1>1, LenProperties
<1>3. StringLength(e) = LengthBytes + LabelBytes + m
  BY DEF StringLength
<1>4. LengthBytes + LabelBytes + m \in Nat
  BY ONLY <1>1, <1>2
<1>. QED BY <1>1, <1>2, <1>3, <1>4

\* An element that is stored in one string is in another one with the same bytes.
LEMMA StoredThere ==
    ASSUME Queue!QueueAssumption, NEW e \in Elements, NEW s, NEW t, NEW p \in Int, NEW q \in Int,
           StoredAt(s, p, e), \A i \in 1 .. StringLength(e) : t[q + i] = s[p + i]
    PROVE  StoredAt(t, q, e)
<1> PICK m : m = Len(e.data)
  OBVIOUS
<1>1. /\ LengthBytes \in Nat /\ LabelBytes \in Nat /\ m \in Nat
      /\ StringLength(e) = LengthBytes + LabelBytes + m
  BY StringLengthIs
<1>2. ASSUME NEW i \in 1 .. LengthBytes PROVE t[q + i] = <<"length", LabelBytes + Len(e.data), i>>
  <2>1. i \in 1 .. StringLength(e)
    BY ONLY <1>1, i \in 1 .. LengthBytes
  <2>2. t[q + i] = s[p + i]
    BY <2>1
  <2>3. s[p + i] = <<"length", LabelBytes + Len(e.data), i>>
    BY DEF StoredAt
  <2>. QED BY <2>2, <2>3
<1>3. ASSUME NEW i \in 1 .. LabelBytes PROVE t[q + LengthBytes + i] = <<"label", e.label, i>>
  <2>1. LengthBytes + i \in 1 .. StringLength(e)
    BY ONLY <1>1, i \in 1 .. LabelBytes
  <2>3. q + LengthBytes + i = q + (LengthBytes + i) /\ p + LengthBytes + i = p + (LengthBytes + i)
    BY <1>1
  <2>2. s[p + LengthBytes + i] = <<"label", e.label, i>>
    BY DEF StoredAt
  <2>. QED BY <2>1, <2>2, <2>3
<1>4. ASSUME NEW i \in 1 .. Len(e.data) PROVE t[q + LengthBytes + LabelBytes + i] = e.data[i]
  <2>1. /\ LengthBytes + LabelBytes + i \in 1 .. StringLength(e)
        /\ i \in 1 .. m
        /\ q + LengthBytes + LabelBytes + i = q + (LengthBytes + LabelBytes + i)
        /\ p + LengthBytes + LabelBytes + i = p + (LengthBytes + LabelBytes + i)
    BY <1>1
  <2>2. s[p + LengthBytes + LabelBytes + i] = e.data[i]
    BY DEF StoredAt
  <2>. QED BY <2>1, <2>2
<1>. QED BY <1>2, <1>3, <1>4 DEF StoredAt

\* One more element at the end of the string.
LEMMA StoredMore ==
    ASSUME Queue!QueueAssumption, NEW s \in Seq(Byte), NEW es, NEW ends, Stored(s, es, ends),
           NEW e \in Elements, NEW t \in Seq(Byte), Len(t) = Len(s) + StringLength(e),
           \A i \in 1 .. Len(s) : t[i] = s[i], StoredAt(t, Len(s), e)
    PROVE  \E further \in [0 .. Len(Append(es, e)) -> Nat] : Stored(t, Append(es, e), further)
<1> DEFINE n == Len(es)
           more == Append(es, e)
           further == [k \in 0 .. n + 1 |-> IF k = n + 1 THEN Len(t) ELSE ends[k]]
<1>1. /\ es \in Seq(Elements) /\ n \in Nat /\ ends \in [0 .. n -> Nat]
      /\ ends[0] = 0 /\ ends[n] = Len(s) /\ Len(s) \in Nat /\ Len(t) \in Nat
      /\ LengthBytes \in Nat /\ LabelBytes \in Nat
  BY LenProperties DEF Stored, Queue!QueueAssumption
<1>2. /\ more \in Seq(Elements) /\ Len(more) = n + 1 /\ more[n + 1] = e
      /\ \A k \in 1 .. n : more[k] = es[k]
  BY <1>1, AppendProperties
<1>3. further \in [0 .. n + 1 -> Nat] /\ further[0] = 0 /\ further[n + 1] = Len(t)
  BY <1>1
<1>4. ASSUME NEW k \in 1 .. n
      PROVE  /\ further[k] = further[k - 1] + StringLength(more[k])
             /\ StoredAt(t, further[k - 1], more[k])
  <2>1. further[k] = ends[k] /\ further[k - 1] = ends[k - 1] /\ more[k] = es[k]
    BY <1>1, <1>2
  <2>2. ends[k] = ends[k - 1] + StringLength(es[k]) /\ StoredAt(s, ends[k - 1], es[k])
    BY DEF Stored
  <2>3. ReadAt(s, es[k], ends[k - 1], ends[k])
    BY ElementIs
  <2>4. es[k] \in Elements /\ ends[k - 1] \in Nat /\ ends[k] \in Nat /\ ends[k] <= Len(s)
    BY <1>1, <2>3, ElementOfSeq DEF ReadAt
  <2>5. Len(es[k].data) \in Nat
    BY <2>3 DEF ReadAt
  <2>6. ASSUME NEW i \in 1 .. StringLength(es[k]) PROVE t[ends[k - 1] + i] = s[ends[k - 1] + i]
    <3>1. StringLength(es[k]) \in Nat
      BY <2>4, StringLengthIs
    <3>2. ends[k - 1] + i \in 1 .. Len(s)
      BY <1>1, <2>2, <2>4, <3>1
    <3>. QED BY <3>2
  <2>7. StoredAt(t, ends[k - 1], es[k])
    <3>. PICK x : x = es[k]
      OBVIOUS
    <3>. PICK p : p = ends[k - 1]
      OBVIOUS
    <3>1. x \in Elements /\ p \in Int /\ StoredAt(s, p, x)
      BY <2>2, <2>4
    <3>2. \A i \in 1 .. StringLength(x) : t[p + i] = s[p + i]
      BY <2>6
    <3>3. StoredAt(t, p, x)
      BY ONLY <3>1, <3>2, Queue!QueueAssumption, StoredThere
    <3>. QED BY <3>3
  <2> HIDE DEF further, more
  <2>. QED BY <2>1, <2>2, <2>7
<1>5. /\ further[n + 1] = further[n] + StringLength(more[n + 1])
      /\ StoredAt(t, further[n], more[n + 1])
  BY <1>1, <1>2
<1>6. \A k \in 1 .. n + 1 : /\ further[k] = further[k - 1] + StringLength(more[k])
                            /\ StoredAt(t, further[k - 1], more[k])
  <2> SUFFICES ASSUME NEW k \in 1 .. n + 1
               PROVE  /\ further[k] = further[k - 1] + StringLength(more[k])
                      /\ StoredAt(t, further[k - 1], more[k])
    OBVIOUS
  <2> HIDE DEF further, more
  <2>1. CASE k \in 1 .. n
    BY <1>4, <2>1
  <2>2. CASE k = n + 1
    <3>1. k - 1 = n
      BY <1>1, <2>2
    <3>. QED BY <1>5, <2>2, <3>1
  <2>. QED BY <1>1, <2>1, <2>2
<1> HIDE DEF further, more
<1>7. Stored(t, more, further)
  BY <1>2, <1>3, <1>6 DEF Stored
<1>8. further \in [0 .. Len(more) -> Nat]
  BY <1>2, <1>3
<1>9. \E f \in [0 .. Len(more) -> Nat] : Stored(t, more, f)
  BY <1>7, <1>8
<1>. QED BY <1>9 DEF more

\* The first element gone, with its string.
LEMMA StoredLess ==
    ASSUME Queue!QueueAssumption, NEW s \in Seq(Byte), NEW es, NEW ends, Stored(s, es, ends),
           es # <<>>, NEW t, t = SubSeq(s, StringLength(es[1]) + 1, Len(s))
    PROVE  \E nearer \in [0 .. Len(Tail(es)) -> Nat] : Stored(t, Tail(es), nearer)
<1> DEFINE n == Len(es)
           less == Tail(es)
           m == StringLength(es[1])
           nearer == [k \in 0 .. n - 1 |-> ends[k + 1] - m]
<1>1. /\ es \in Seq(Elements) /\ n \in Nat \ {0} /\ ends \in [0 .. n -> Nat]
      /\ ends[0] = 0 /\ ends[n] = Len(s) /\ Len(s) \in Nat
      /\ LengthBytes \in Nat /\ LabelBytes \in Nat
  BY LenProperties, EmptySeq DEF Stored, Queue!QueueAssumption
<1>2. ASSUME NEW k \in 1 .. n
      PROVE  /\ ends[k] = ends[k - 1] + StringLength(es[k]) /\ StoredAt(s, ends[k - 1], es[k])
             /\ es[k] \in Elements /\ ends[k - 1] \in Nat /\ ends[k] \in Nat /\ ends[k] <= Len(s)
             /\ StringLength(es[k]) \in Nat
  <2>1. ends[k] = ends[k - 1] + StringLength(es[k]) /\ StoredAt(s, ends[k - 1], es[k])
    BY DEF Stored
  <2>2. ReadAt(s, es[k], ends[k - 1], ends[k])
    BY ElementIs
  <2>3. es[k] \in Elements
    BY <1>1, ElementOfSeq
  <2>4. /\ ends[k - 1] \in Nat /\ ends[k] \in Nat /\ ends[k] <= Len(s) /\ Len(es[k].data) \in Nat
    BY <2>2 DEF ReadAt
  <2>5. StringLength(es[k]) \in Nat
    BY <2>3, StringLengthIs
  <2>. QED BY <2>1, <2>3, <2>4, <2>5
<1>3. m \in Nat /\ ends[1] = m /\ m <= Len(s) /\ 1 \in 1 .. n
  <2>1. 1 \in 1 .. n /\ 1 - 1 = 0
    BY <1>1
  <2>. QED BY <1>1, <1>2, <2>1
<1>4. \A k \in 1 .. n : m <= ends[k]
  <2>1. \A k \in 1 .. n : ends[k - 1] <= ends[k]
    <3> SUFFICES ASSUME NEW k \in 1 .. n PROVE ends[k - 1] <= ends[k]
      OBVIOUS
    <3>1. /\ ends[k - 1] \in Nat /\ StringLength(es[k]) \in Nat
          /\ ends[k] = ends[k - 1] + StringLength(es[k])
      BY <1>2
    <3>. QED BY <3>1
  <2>2. \A j \in 0 .. n : \A i \in j .. n : ends[j] <= ends[i]
    BY <1>1, <2>1, EndsAscend
  <2>. QED BY <1>1, <1>3, <2>2
<1>5. /\ less \in Seq(Elements) /\ Len(less) = n - 1
      /\ \A k \in 1 .. n - 1 : less[k] = es[k + 1]
  BY <1>1, HeadTailProperties
<1> HIDE DEF less, m, n
<1>6. /\ Len(t) = Len(s) - m
      /\ \A i \in 1 .. Len(s) - m : t[i] = s[m + i]
  <2>1. m + 1 \in Int /\ \A i \in m + 1 .. Len(s) : s[i] \in Byte
    BY <1>1, <1>3
  <2>2. /\ Len(t) = IF m + 1 <= Len(s) THEN Len(s) - (m + 1) + 1 ELSE 0
        /\ \A i \in 1 .. Len(s) - (m + 1) + 1 : t[i] = s[(m + 1) + i - 1]
    <3>1. m + 1 \in Int /\ Len(s) \in Int /\ t = SubSeq(s, m + 1, Len(s))
      BY <1>1, <2>1 DEF m
    <3>. QED BY ONLY <2>1, <3>1, SubSeqProperties
  <2>3. ASSUME NEW i \in 1 .. Len(s) - m PROVE t[i] = s[m + i]
    <3>1. i \in 1 .. Len(s) - (m + 1) + 1 /\ (m + 1) + i - 1 = m + i
      BY <1>1, <1>3
    <3>2. t[i] = s[(m + 1) + i - 1]
      BY <2>2, <3>1
    <3>. QED BY <3>1, <3>2
  <2>4. Len(t) = Len(s) - m
    BY ONLY <1>1, <1>3, <2>2
  <2>. QED BY <2>3, <2>4
<1>7. nearer \in [0 .. n - 1 -> Nat] /\ nearer[0] = 0 /\ nearer[n - 1] = Len(t)
  <2>1. ASSUME NEW k \in 0 .. n - 1 PROVE ends[k + 1] - m \in Nat
    <3>1. k + 1 \in 1 .. n /\ k + 1 \in 0 .. n
      BY <1>1
    <3>2. ends[k + 1] \in Nat /\ m <= ends[k + 1]
      BY <1>1, <1>4, <3>1
    <3>. QED BY <1>3, <3>2
  <2>2. nearer \in [0 .. n - 1 -> Nat]
    BY <2>1
  <2>3. 0 \in 0 .. n - 1 /\ n - 1 \in 0 .. n - 1 /\ (n - 1) + 1 = n /\ 0 + 1 = 1
    BY <1>1
  <2>4. nearer[0] = ends[1] - m /\ nearer[n - 1] = ends[n] - m
    BY <2>3
  <2> HIDE DEF nearer
  <2>5. nearer[0] = 0
    BY <1>3, <2>4
  <2>6. nearer[n - 1] = Len(t)
    BY <1>1, <1>6, <2>4
  <2>. QED BY <2>2, <2>5, <2>6
<1>8. ASSUME NEW k \in 1 .. n - 1
      PROVE  /\ nearer[k] = nearer[k - 1] + StringLength(less[k])
             /\ StoredAt(t, nearer[k - 1], less[k])
  <2>1. k + 1 \in 1 .. n /\ (k + 1) - 1 = k /\ k \in 1 .. n /\ k - 1 \in 0 .. n - 1 /\ k \in 0 .. n - 1
    BY <1>1
  <2>2. /\ nearer[k] = ends[k + 1] - m /\ nearer[k - 1] = ends[k] - m /\ less[k] = es[k + 1]
    BY <1>5, <2>1
  <2>3. /\ ends[k + 1] = ends[k] + StringLength(es[k + 1]) /\ StoredAt(s, ends[k], es[k + 1])
        /\ es[k + 1] \in Elements /\ ends[k] \in Nat /\ ends[k + 1] \in Nat /\ ends[k + 1] <= Len(s)
        /\ StringLength(es[k + 1]) \in Nat
    BY <1>2, <2>1
  <2>4. m <= ends[k]
    BY <1>4, <2>1
  <2> HIDE DEF nearer
  <2>5. ASSUME NEW i \in 1 .. StringLength(es[k + 1])
        PROVE  t[(ends[k] - m) + i] = s[ends[k] + i]
    <3>. PICK a, b, c, d : a = ends[k] /\ b = ends[k + 1] /\ c = Len(s) /\ d = StringLength(es[k + 1])
      OBVIOUS
    <3>1. /\ a \in Nat /\ b \in Nat /\ c \in Nat /\ d \in Nat /\ m \in Nat
          /\ b = a + d /\ b <= c /\ m <= a /\ i \in 1 .. d
      BY <1>1, <1>3, <2>3, <2>4
    <3>2. (a - m) + i \in 1 .. c - m /\ m + ((a - m) + i) = a + i
      BY ONLY <3>1
    <3>3. t[(a - m) + i] = s[m + ((a - m) + i)]
      BY <1>6, <3>2
    <3>. QED BY <3>2, <3>3
  <2>6. StoredAt(t, ends[k] - m, es[k + 1])
    <3>1. ends[k] - m \in Int /\ ends[k] \in Int
      BY <1>3, <2>3
    <3> PICK q \in Int : q = ends[k] - m
      BY <3>1
    <3>2. \A i \in 1 .. StringLength(es[k + 1]) : t[q + i] = s[ends[k] + i]
      BY <2>5
    <3> PICK e \in Elements : e = es[k + 1]
      BY <2>3
    <3> PICK p \in Int : p = ends[k]
      BY <3>1
    <3>3. StoredAt(s, p, e) /\ \A i \in 1 .. StringLength(e) : t[q + i] = s[p + i]
      BY <2>3, <3>2
    <3>4. StoredAt(t, q, e)
      BY ONLY <3>3, Queue!QueueAssumption, e \in Elements, p \in Int, q \in Int, StoredThere
    <3>. QED BY <3>4
  <2>. QED BY <1>3, <2>2, <2>3, <2>6
<1> HIDE DEF nearer
<1>9. Stored(t, less, nearer) /\ nearer \in [0 .. Len(less) -> Nat]
  BY <1>5, <1>7, <1>8 DEF Stored
<1>10. \E f \in [0 .. Len(less) -> Nat] : Stored(t, less, f)
  BY <1>9
<1>. QED BY <1>10 DEF less

\* The string of no elements is empty.
LEMMA StoredNone ==
    ASSUME Queue!QueueAssumption, NEW s, s = <<>>
    PROVE  \E ends \in [0 .. Len(<<>>) -> Nat] : Stored(s, <<>>, ends)
<1> DEFINE ends == [k \in 0 .. 0 |-> 0]
<1>1. ends \in [0 .. Len(<<>>) -> Nat] /\ Stored(s, <<>>, ends)
  BY DEF Stored
<1>. QED BY <1>1

-----------------------------------------------------------------------------
(* The calls of the queue.                                                 *)

\* The inductive invariant: the ring holds the string of Item_Count elements.
QueueInv ==
    /\ queue \in Ring
    /\ \E es \in Seq(Elements) : \E ends \in [0 .. Len(es) -> Nat] :
           items = Len(es) /\ Stored(Contents(queue), es, ends)

\* A part of the string, byte by byte.
Reads(b, skip, n, string) ==
    /\ skip \in Nat /\ n \in Nat /\ skip + n <= b.count
    /\ string = [i \in 1 .. n |-> string[i]]
    /\ \A i \in 1 .. n : Contents(b)[skip + i] = string[i]

LEMMA PartEquals ==
    ASSUME BufferAssumption, NEW b \in Ring, NEW skip, NEW n, NEW string, Reads(b, skip, n, string)
    PROVE  Part(b, skip, n) = string
<1>. USE DEF Reads
<1> PICK part : part = Part(b, skip, n)
  OBVIOUS
<1>1. /\ part \in Seq(Byte) /\ Len(part) = n
      /\ \A i \in 1 .. n : part[i] = Contents(b)[skip + i]
  BY PartIs
<1>2. part = [i \in 1 .. n |-> part[i]]
  BY <1>1
<1>3. \A i \in 1 .. n : part[i] = string[i]
  BY <1>1
<1>. QED BY <1>2, <1>3

\* What the peeks find at the head.
LEMMA HeadIs ==
    ASSUME Queue!QueueAssumption, queue \in Ring, NEW es, NEW ends,
           Stored(Contents(queue), es, ends), items = Len(es), es # <<>>,
           NEW e, e = es[1], NEW m, m = Len(e.data)
    PROVE  /\ e.label \in Labels /\ e.data \in Seq(Data) /\ m \in Nat
           /\ e = [label |-> e.label, data |-> e.data]
           /\ LengthBytes + LabelBytes + m <= queue.count
           /\ StoredAt(Contents(queue), 0, e)
           /\ Queue!HeadLength = LabelBytes + m /\ Queue!HeadLabel = e.label
           /\ Queue!LengthStatus = "Success" /\ Queue!LabelStatus = "Success"
<1> PICK s : s = Contents(queue)
  OBVIOUS
<1> PICK c : c = queue.count
  OBVIOUS
<1>1. /\ BufferAssumption /\ LengthBytes \in Nat \ {0} /\ LabelBytes \in Nat \ {0}
      /\ LengthBytes \in Nat /\ LabelBytes \in Nat
  BY QueueHasRing DEF Queue!QueueAssumption
<1>2. s \in Seq(Byte) /\ Len(s) = c /\ c \in 0 .. Size /\ c \in Nat /\ Size \in Nat
  BY <1>1, ContentsAre, RingIs
<1>3. es \in Seq(Elements) /\ Len(es) \in Nat \ {0} /\ 1 \in 1 .. Len(es) /\ ends[0] = 0
  BY EmptySeq, LenProperties DEF Stored
<1>4. ReadAt(s, e, 0, ends[1])
  <2>1. ReadAt(s, es[1], ends[1 - 1], ends[1])
    BY <1>2, <1>3, ElementIs
  <2>. QED BY <1>3, <2>1
<1>5. /\ e.label \in Labels /\ e.data \in Seq(Data) /\ m \in Nat
      /\ e = [label |-> e.label, data |-> e.data]
  BY <1>4 DEF ReadAt
<1>6. LengthBytes + LabelBytes + m <= c
  <2> PICK q : q = ends[1]
    OBVIOUS
  <2>1. q \in Nat /\ q = 0 + LengthBytes + LabelBytes + m /\ q <= c
    BY <1>2, <1>4 DEF ReadAt
  <2>. QED BY ONLY <1>1, <1>5, <2>1
<1>7. StoredAt(s, 0, e)
  <2>1. StoredAt(s, ends[1 - 1], es[1])
    BY <1>3 DEF Stored
  <2>. QED BY <1>3, <2>1
<1>8. /\ LengthBytes <= c /\ LengthBytes + LabelBytes <= c /\ LabelBytes + m \in 0 .. Size
      /\ LengthBytes # 0 /\ LabelBytes # 0
  BY ONLY <1>1, <1>2, <1>5, <1>6
<1>9. Queue!HeadLengthString = Queue!LengthString(LabelBytes + m)
  <2> DEFINE string == [i \in 1 .. LengthBytes |-> <<"length", LabelBytes + m, i>>]
  <2>1. \A i \in 1 .. LengthBytes : s[0 + i] = string[i]
    BY <1>7 DEF StoredAt
  <2>2. string = [i \in 1 .. LengthBytes |-> string[i]]
    OBVIOUS
  <2>3. Queue!LengthString(LabelBytes + m) = string
    BY DEF Queue!LengthString
  <2> HIDE DEF string
  <2>4. Part(queue, 0, LengthBytes) = string
    <3>1. /\ 0 \in Nat /\ LengthBytes \in Nat /\ 0 + LengthBytes <= queue.count
          /\ \A i \in 1 .. LengthBytes : Contents(queue)[0 + i] = string[i]
      BY <1>1, <1>2, <1>8, <2>1
    <3>2. Reads(queue, 0, LengthBytes, string)
      BY ONLY <2>2, <3>1 DEF Reads
    <3>. QED BY ONLY <1>1, <3>2, queue \in Ring, PartEquals
  <2>5. Peeked(queue, LengthBytes, 0) = Part(queue, 0, LengthBytes)
    <3>1. /\ LengthBytes > 0 => 0 < queue.count
          /\ LengthBytes = IF LengthBytes < queue.count - 0 THEN LengthBytes ELSE queue.count - 0
      BY <1>1, <1>2, <1>8
    <3>. QED BY <1>1, <1>8, <3>1, PeekedIs
  <2>. QED BY <2>3, <2>4, <2>5, SameRing DEF Queue!HeadLengthString
<1>10. Queue!HeadLength = LabelBytes + m
  BY <1>1, <1>9 DEF Queue!HeadLength, Queue!ValueOf, Queue!LengthString
<1>11. Queue!HeadLabelString = Queue!LabelString(e.label)
  <2> DEFINE string == [i \in 1 .. LabelBytes |-> <<"label", e.label, i>>]
  <2>1. \A i \in 1 .. LabelBytes : s[LengthBytes + i] = string[i]
    <3> SUFFICES ASSUME NEW i \in 1 .. LabelBytes PROVE s[LengthBytes + i] = string[i]
      OBVIOUS
    <3>1. s[0 + LengthBytes + i] = <<"label", e.label, i>>
      BY <1>7 DEF StoredAt
    <3>2. 0 + LengthBytes + i = LengthBytes + i
      BY ONLY <1>1, i \in 1 .. LabelBytes
    <3>. QED BY <3>1, <3>2
  <2>2. string = [i \in 1 .. LabelBytes |-> string[i]]
    OBVIOUS
  <2>3. Queue!LabelString(e.label) = string
    BY DEF Queue!LabelString
  <2> HIDE DEF string
  <2>4. Part(queue, LengthBytes, LabelBytes) = string
    <3>1. /\ LengthBytes \in Nat /\ LabelBytes \in Nat /\ LengthBytes + LabelBytes <= queue.count
          /\ \A i \in 1 .. LabelBytes : Contents(queue)[LengthBytes + i] = string[i]
      BY <1>1, <1>8, <2>1
    <3>2. Reads(queue, LengthBytes, LabelBytes, string)
      BY ONLY <2>2, <3>1 DEF Reads
    <3>. QED BY ONLY <1>1, <3>2, queue \in Ring, PartEquals
  <2>5. Peeked(queue, LabelBytes, LengthBytes) = Part(queue, LengthBytes, LabelBytes)
    <3>1. /\ LabelBytes > 0 => LengthBytes < queue.count
          /\ LabelBytes = IF LabelBytes < queue.count - LengthBytes THEN LabelBytes
                          ELSE queue.count - LengthBytes
      BY <1>1, <1>2, <1>8
    <3>. QED BY <1>1, <1>8, <3>1, PeekedIs
  <2>. QED BY <2>3, <2>4, <2>5, SameRing DEF Queue!HeadLabelString
<1>12. Queue!HeadLabel = e.label
  BY <1>1, <1>11 DEF Queue!HeadLabel, Queue!ValueOf, Queue!LabelString
<1>13. Queue!LengthStatus = "Success"
  <2>1. items # 0 /\ queue.count >= LengthBytes
    BY <1>1, <1>2, <1>3, <1>8
  <2>2. Queue!LengthIsSound
    BY <1>8, <1>9, <2>1 DEF Queue!LengthIsSound
  <2>. QED BY <2>1, <2>2 DEF Queue!LengthStatus
<1>14. Queue!LabelStatus = "Success"
  <2>1. LabelBytes + m >= LabelBytes /\ queue.count >= LengthBytes + LabelBytes
    BY <1>1, <1>2, <1>5, <1>8
  <2>2. Queue!LabelIsSound
    BY <1>5, <1>10, <1>11, <2>1 DEF Queue!LabelIsSound
  <2>. QED BY <1>13, <2>2 DEF Queue!LabelStatus
<1>. QED BY <1>5, <1>6, <1>7, <1>10, <1>12, <1>13, <1>14

\* At most n bytes of the data after the offset.
AskedOf(data, n, offset) ==
    SubSeq(data, offset + 1, IF n + offset < Len(data) THEN n + offset ELSE Len(data))

HowMany(m, n, offset) == IF m > offset THEN IF m - offset < n THEN m - offset ELSE n ELSE 0

CutAt(data, part, offset, k) ==
    /\ k \in Nat /\ (k # 0 => k + offset <= Len(data))
    /\ part \in Seq(Data) /\ Len(part) = k
    /\ \A i \in 1 .. k : part[i] = data[offset + i]

\* How many they are.
LEMMA AskedOfIs ==
    ASSUME NEW data \in Seq(Data), NEW n \in Nat, NEW offset \in Nat
    PROVE  CutAt(data, AskedOf(data, n, offset), offset, HowMany(Len(data), n, offset))
<1> PICK m : m = Len(data)
  OBVIOUS
<1> PICK k : k = IF m > offset THEN IF m - offset < n THEN m - offset ELSE n ELSE 0
  OBVIOUS
<1>1. m \in Nat
  BY LenProperties
<1>2. k \in Nat /\ (k # 0 => k + offset <= m)
  BY ONLY <1>1, n \in Nat, offset \in Nat,
          k = IF m > offset THEN IF m - offset < n THEN m - offset ELSE n ELSE 0
<1> PICK last : last = IF n + offset < m THEN n + offset ELSE m
  OBVIOUS
<1>3. /\ last \in Int /\ last <= m /\ offset + 1 \in Int /\ offset + 1 \in Nat /\ last \in Nat
      /\ k = IF offset + 1 <= last THEN last - (offset + 1) + 1 ELSE 0
  BY ONLY <1>1, n \in Nat, offset \in Nat, last = IF n + offset < m THEN n + offset ELSE m,
          k = IF m > offset THEN IF m - offset < n THEN m - offset ELSE n ELSE 0
<1>4. \A i \in offset + 1 .. last : data[i] \in Data
  <2> SUFFICES ASSUME NEW i \in offset + 1 .. last PROVE data[i] \in Data
    OBVIOUS
  <2>1. i \in 1 .. m
    BY ONLY <1>1, <1>3, i \in offset + 1 .. last, offset \in Nat
  <2>. QED BY <2>1, ElementOfSeq
<1> PICK part : part = SubSeq(data, offset + 1, last)
  OBVIOUS
<1>5. part = AskedOf(data, n, offset)
  BY DEF AskedOf
<1>6. part \in Seq(Data) /\ Len(part) = k
  <2>1. /\ SubSeq(data, offset + 1, last) \in Seq(Data)
        /\ Len(SubSeq(data, offset + 1, last)) =
               IF offset + 1 <= last THEN last - (offset + 1) + 1 ELSE 0
    BY <1>3, <1>4, SubSeqProperties
  <2>. QED BY <1>3, <2>1
<1>7. ASSUME NEW i \in 1 .. k PROVE part[i] = data[offset + i]
  <2>1. i \in 1 .. last - (offset + 1) + 1 /\ (offset + 1) + i - 1 = offset + i
    BY ONLY <1>2, <1>3, i \in 1 .. k, offset \in Nat
  <2>2. \A j \in 1 .. last - (offset + 1) + 1 :
            SubSeq(data, offset + 1, last)[j] = data[(offset + 1) + j - 1]
    BY <1>3, <1>4, SubSeqProperties
  <2>. QED BY <2>1, <2>2
<1>8. k = HowMany(m, n, offset)
  BY DEF HowMany
<1>. QED BY <1>2, <1>5, <1>6, <1>7, <1>8 DEF CutAt

ReadHead(asked, n, offset) ==
    /\ Queue!HeadData(n, offset) = asked
    /\ Queue!DataToPeek(n, offset) = Len(asked)
    /\ Queue!HeadStatus(n, offset) = "Success"

\* The data that Peek and Pop read at the head are those asked for.
LEMMA HeadDataIs ==
    ASSUME Queue!QueueAssumption, queue \in Ring, NEW es, NEW ends,
           Stored(Contents(queue), es, ends), items = Len(es), es # <<>>,
           NEW n \in Nat, NEW offset \in Nat
    PROVE  ReadHead(AskedOf(es[1].data, n, offset), n, offset)
<1> PICK asked : asked = AskedOf(es[1].data, n, offset)
  OBVIOUS
<1> PICK e : e = es[1]
  OBVIOUS
<1> PICK m : m = Len(e.data)
  OBVIOUS
<1> PICK k : k = IF m > offset THEN IF m - offset < n THEN m - offset ELSE n ELSE 0
  OBVIOUS
<1>1. /\ BufferAssumption /\ LengthBytes \in Nat /\ LabelBytes \in Nat
  BY QueueHasRing DEF Queue!QueueAssumption
<1>2. /\ e.data \in Seq(Data) /\ m \in Nat
      /\ LengthBytes + LabelBytes + m <= queue.count
      /\ StoredAt(Contents(queue), 0, e)
      /\ Queue!HeadLength = LabelBytes + m
      /\ Queue!LabelStatus = "Success"
  BY HeadIs
<1>3. /\ k \in Nat /\ (k # 0 => k + offset <= m)
      /\ asked \in Seq(Data) /\ Len(asked) = k
      /\ \A i \in 1 .. k : asked[i] = e.data[offset + i]
  <2> PICK d : d = e.data
    OBVIOUS
  <2>1. d \in Seq(Data) /\ m = Len(d) /\ asked = AskedOf(d, n, offset) /\ k = HowMany(m, n, offset)
    BY <1>2 DEF HowMany
  <2>2. CutAt(d, AskedOf(d, n, offset), offset, HowMany(Len(d), n, offset))
    BY ONLY <2>1, n \in Nat, offset \in Nat, AskedOfIs
  <2>3. CutAt(d, asked, offset, k)
    BY <2>1, <2>2
  <2>. QED BY <2>1, <2>3 DEF CutAt
<1>4. Queue!DataToPeek(n, offset) = k
  <2> PICK length : length = LabelBytes + m
    OBVIOUS
  <2>1. Queue!DataToPeek(n, offset) =
            IF length > LabelBytes + offset THEN Smaller(length - (LabelBytes + offset), n) ELSE 0
    BY <1>2, SameRing DEF Queue!DataToPeek
  <2>2. /\ (length > LabelBytes + offset) <=> (m > offset)
        /\ length - (LabelBytes + offset) = m - offset
    BY ONLY <1>1, m \in Nat, offset \in Nat, length = LabelBytes + m, <1>2
  <2>3. Smaller(m - offset, n) = IF m - offset < n THEN m - offset ELSE n
    BY DEF Smaller
  <2>. QED BY <2>1, <2>2, <2>3
<1>5. Queue!HeadData(n, offset) = asked
  <2>1. CASE k = 0
    <3>1. asked = <<>>
      BY <1>3, <2>1, EmptySeq
    <3>. QED BY <1>4, <2>1, <3>1 DEF Queue!HeadData
  <2>2. CASE k # 0
    <3> PICK skip : skip = LengthBytes + LabelBytes + offset
      OBVIOUS
    <3> PICK c : c = queue.count
      OBVIOUS
    <3>1. c \in Nat
      BY <1>1, RingIs
    <3>9. LengthBytes + LabelBytes + m <= c /\ m \in Nat /\ k \in Nat /\ k + offset <= m
      BY <1>2, <1>3, <2>2
    <3>2. skip \in Nat /\ skip + k <= c /\ skip < c /\ k > 0
      BY ONLY <1>1, <2>2, <3>1, <3>9, offset \in Nat, skip = LengthBytes + LabelBytes + offset
    <3>3. /\ k = IF k < queue.count - skip THEN k ELSE queue.count - skip
          /\ k > 0 => skip < queue.count
          /\ skip + k <= queue.count /\ skip \in Nat /\ k \in Nat
      BY ONLY <3>1, <3>2, <3>9, c = queue.count
    <3>4. Peeked(queue, k, skip) = Part(queue, skip, k)
      BY ONLY <1>1, <2>2, <3>3, queue \in Ring, PeekedIs
    <3>5. \A i \in 1 .. k : Contents(queue)[skip + i] = asked[i]
      <4> SUFFICES ASSUME NEW i \in 1 .. k PROVE Contents(queue)[skip + i] = asked[i]
        OBVIOUS
      <4>1. offset + i \in 1 .. m /\ 0 + LengthBytes + LabelBytes + (offset + i) = skip + i
        BY ONLY <1>1, <1>2, <1>3, <2>2, offset \in Nat, i \in 1 .. k,
                skip = LengthBytes + LabelBytes + offset
      <4>2. Contents(queue)[0 + LengthBytes + LabelBytes + (offset + i)] = e.data[offset + i]
        BY <1>2, <4>1 DEF StoredAt
      <4>. QED BY <1>3, <4>1, <4>2
    <3>6. asked = [i \in 1 .. k |-> asked[i]]
      <4>1. asked \in Seq(Data) /\ Len(asked) = k
        BY <1>3
      <4>. QED BY ONLY <4>1
    <3>10. Reads(queue, skip, k, asked)
      BY ONLY <3>3, <3>5, <3>6 DEF Reads
    <3>7. Part(queue, skip, k) = asked
      BY ONLY <1>1, <3>10, queue \in Ring, PartEquals
    <3>8. Queue!HeadData(n, offset) = Queue!Peeked(queue, k, skip)
      BY <1>4, <2>2 DEF Queue!HeadData
    <3>. QED BY <3>4, <3>7, <3>8, SameRing
  <2>. QED BY <2>1, <2>2
<1>6. Queue!DataIsSound(n, offset)
  BY <1>3, <1>4, <1>5 DEF Queue!DataIsSound
<1>7. Queue!HeadStatus(n, offset) = "Success"
  BY <1>2, <1>6 DEF Queue!HeadStatus
<1>. QED BY <1>3, <1>4, <1>5, <1>7 DEF ReadHead

\* The whole element leaves the ring.
LEMMA HeadLeaves ==
    ASSUME Queue!QueueAssumption, queue \in Ring, NEW es, NEW ends,
           Stored(Contents(queue), es, ends), items = Len(es), es # <<>>
    PROVE  /\ Queue!PopIsSound
           /\ Popped(queue, Len(Queue!HeadString)) \in Ring
           /\ Contents(Popped(queue, Len(Queue!HeadString))) =
                  SubSeq(Contents(queue), StringLength(es[1]) + 1, Len(Contents(queue)))
<1> PICK e : e = es[1]
  OBVIOUS
<1> PICK m : m = Len(e.data)
  OBVIOUS
<1> PICK c : c = queue.count
  OBVIOUS
<1> PICK k : k = LengthBytes + LabelBytes + m
  OBVIOUS
<1>1. BufferAssumption /\ LengthBytes \in Nat \ {0} /\ LabelBytes \in Nat
  BY QueueHasRing DEF Queue!QueueAssumption
<1>2. /\ m \in Nat /\ k <= c /\ Queue!HeadLength = LabelBytes + m
  BY HeadIs
<1>3. c \in Nat
  BY <1>1, RingIs
<1>4. /\ k \in Nat /\ k # 0 /\ k > 0 /\ 0 < c /\ k \in 0 .. c /\ 0 + k <= c
      /\ k = IF k < c - 0 THEN k ELSE c - 0
      /\ LabelBytes + m + LengthBytes = k
  BY ONLY <1>1, <1>2, <1>3, k = LengthBytes + LabelBytes + m
<1>5. StringLength(e) = k
  BY DEF StringLength
<1>6. Queue!HeadString = Part(queue, 0, k)
  <2>1. Peeked(queue, k, 0) = Part(queue, 0, k)
    <3>1. /\ k = IF k < queue.count - 0 THEN k ELSE queue.count - 0
          /\ k > 0 => 0 < queue.count
          /\ 0 \in Nat
      BY <1>4
    <3>. QED BY ONLY <1>1, <1>4, <3>1, queue \in Ring, PeekedIs
  <2>. QED BY <1>2, <1>4, <2>1, SameRing DEF Queue!HeadString
<1>7. Len(Queue!HeadString) = k
  <2>1. 0 + k <= queue.count /\ 0 \in Nat
    BY <1>4
  <2>2. Len(Part(queue, 0, k)) = k
    BY ONLY <1>1, <1>4, <2>1, queue \in Ring, PartIs
  <2>. QED BY <1>6, <2>2
<1>8. Queue!PopIsSound
  BY <1>2, <1>4, <1>7 DEF Queue!PopIsSound
<1>9. /\ Popped(queue, k) \in Ring
      /\ Contents(Popped(queue, k)) = SubSeq(Contents(queue), k + 1, Len(Contents(queue)))
  BY <1>1, <1>4, PoppedIs
<1>. QED BY <1>5, <1>7, <1>8, <1>9

\* With nothing in the queue every call that reads it says so.
LEMMA NothingIs ==
    ASSUME items = 0
    PROVE  /\ Queue!LengthStatus = "Empty" /\ Queue!LabelStatus = "Empty"
           /\ \A n, offset : Queue!HeadStatus(n, offset) = "Empty"
BY DEF Queue!LengthStatus, Queue!LabelStatus, Queue!HeadStatus

\* The answer with the oldest element is that of the abstract queue.
LEMMA HeadResultIs ==
    ASSUME Queue!QueueAssumption, queue \in Ring, NEW es, NEW ends,
           Stored(Contents(queue), es, ends), items = Len(es), Queue!ElementsOfQueue = es,
           NEW n \in Nat, NEW offset \in Nat, NEW call
    PROVE  Queue!HeadResult(call, n, offset) = Queue!Fifo!HeadPart(call, n, offset)
<1>1. \A status, label, data, length :
          /\ Queue!Result(call, status, label, data, length) =
                 Queue!Fifo!Result(call, status, label, data, length)
          /\ Queue!Bare(call, status) = Queue!Fifo!Bare(call, status)
  BY DEF Queue!Result, Queue!Bare, Queue!Fifo!Result, Queue!Fifo!Bare
<1>2. CASE es = <<>>
  <2>1. items = 0
    BY <1>2
  <2>2. Queue!HeadStatus(n, offset) = "Empty"
    BY <2>1, NothingIs
  <2>. QED BY <1>1, <1>2, <2>2 DEF Queue!HeadResult, Queue!Fifo!HeadPart
<1>3. CASE es # <<>>
  <2> PICK asked : asked = AskedOf(es[1].data, n, offset)
    OBVIOUS
  <2>1. /\ Queue!HeadData(n, offset) = asked
        /\ Queue!DataToPeek(n, offset) = Len(asked)
        /\ Queue!HeadStatus(n, offset) = "Success"
    BY <1>3, HeadDataIs DEF ReadHead
  <2>2. Queue!HeadLabel = es[1].label
    BY <1>3, HeadIs
  <2>3. Head(es) = es[1]
    <3>1. es \in Seq(Elements)
      BY DEF Stored
    <3>. QED BY <1>3, <3>1
  <2>4. Queue!Fifo!Part(n, offset) = asked
    BY <2>3 DEF Queue!Fifo!Part, AskedOf
  <2>5. Queue!HeadResult(call, n, offset) = Queue!Result(call, "Success", es[1].label, asked, Len(asked))
    BY <2>1, <2>2 DEF Queue!HeadResult
  <2>6. Queue!Fifo!HeadPart(call, n, offset) =
            Queue!Fifo!Result(call, "Success", es[1].label, asked, Len(asked))
    BY <1>3, <2>3, <2>4 DEF Queue!Fifo!HeadPart
  <2>. QED BY <1>1, <2>5, <2>6
<1>. QED BY <1>2, <1>3

\* The ring is found as stored after a step, too.
Found ==
    \A es, ends :
        Contents(queue) \in Seq(Byte) /\ Stored(Contents(queue), es, ends) /\ items = Len(es)
            => Queue!ElementsOfQueue = es

LEMMA FoundNext ==
    ASSUME Queue!QueueAssumption
    PROVE  Found'
<1>1. Found
  BY FoundAsStored DEF Found
<1>. QED BY <1>1, PTL

\* A ring with the string of these elements.
Holds(b, n, es) ==
    /\ b \in Ring
    /\ \E ends \in [0 .. Len(es) -> Nat] : n = Len(es) /\ Stored(Contents(b), es, ends)

LEMMA HoldsNow ==
    ASSUME Queue!QueueAssumption, NEW es, Holds(queue, items, es)
    PROVE  Queue!ElementsOfQueue = es /\ QueueInv
<1> PICK ends \in [0 .. Len(es) -> Nat] : items = Len(es) /\ Stored(Contents(queue), es, ends)
  BY DEF Holds
<1>1. queue \in Ring /\ es \in Seq(Elements) /\ Contents(queue) \in Seq(Byte)
  BY QueueHasRing, ContentsAre DEF Holds, Stored
<1>. QED BY <1>1, FoundAsStored DEF QueueInv

LEMMA HoldsNext ==
    ASSUME Queue!QueueAssumption, NEW es, Holds(queue', items', es)
    PROVE  Queue!ElementsOfQueue' = es /\ QueueInv'
<1> PICK ends \in [0 .. Len(es) -> Nat] : items' = Len(es) /\ Stored(Contents(queue'), es, ends)
  BY DEF Holds
<1>1. queue' \in Ring /\ es \in Seq(Elements) /\ Contents(queue') \in Seq(Byte)
  BY QueueHasRing, ContentsAre DEF Holds, Stored
<1>2. Queue!ElementsOfQueue' = es
  BY <1>1, FoundNext DEF Found, Contents, Stored
<1>3. QueueInv'
  BY <1>1 DEF QueueInv, Contents, Stored, Ring
<1>. QED BY <1>2, <1>3

LEMMA HoldsSome ==
    ASSUME QueueInv
    PROVE  \E es \in Seq(Elements) : Holds(queue, items, es)
BY DEF QueueInv, Holds

\* A push with room adds its bytes to the end of the string.
Joined(b, data, new) ==
    /\ new \in Ring /\ new.count = b.count + Len(data) /\ new.count \in Nat
    /\ \A i \in 1 .. b.count : Contents(new)[i] = Contents(b)[i]
    /\ \A i \in 1 .. Len(data) : Contents(new)[b.count + i] = data[i]

LEMMA PushedFits ==
    ASSUME BufferAssumption, NEW b \in Ring, NEW data \in Seq(Byte), b.count + Len(data) <= Size
    PROVE  Joined(b, data, Pushed(b, data)) /\ ~TooFull(b, data, FALSE)
<1> PICK n : n = Len(data)
  OBVIOUS
<1> PICK c : c = b.count
  OBVIOUS
<1> PICK new : new = Pushed(b, data)
  OBVIOUS
<1> PICK s : s = Contents(b)
  OBVIOUS
<1> PICK t : t = s \o data
  OBVIOUS
<1>1. n \in Nat /\ c \in Nat /\ Size \in Nat /\ c + n <= Size /\ s \in Seq(Byte) /\ Len(s) = c
  BY LenProperties, RingIs, ContentsAre
<1>2. n <= Size /\ ~(c + n > Size) /\ ~(n > Size) /\ ~(Size - c < n) /\ ~(c + n - Size > 0)
  BY ONLY <1>1
<1>3. ~TooFull(b, data, FALSE)
  BY <1>2 DEF TooFull, NumBytesFree
<1>4. /\ t \in Seq(Byte) /\ Len(t) = c + n
      /\ \A i \in 1 .. c : t[i] = s[i]
      /\ \A i \in 1 .. n : t[c + i] = data[i]
  <2>1. /\ t \in Seq(Byte) /\ Len(t) = c + n
        /\ \A i \in 1 .. c + n : t[i] = IF i <= c THEN s[i] ELSE data[i - c]
    <3>1. /\ s \o data \in Seq(Byte)
          /\ Len(s \o data) = Len(s) + Len(data)
          /\ \A i \in 1 .. Len(s) + Len(data) : (s \o data)[i] =
                IF i <= Len(s) THEN s[i] ELSE data[i - Len(s)]
      BY <1>1, ConcatProperties
    <3>. QED BY <1>1, <3>1
  <2>2. ASSUME NEW i \in 1 .. n PROVE t[c + i] = data[i]
    <3>1. c + i \in 1 .. c + n /\ ~(c + i <= c) /\ (c + i) - c = i
      BY ONLY <1>1, i \in 1 .. n
    <3>. QED BY <2>1, <3>1
  <2>3. ASSUME NEW i \in 1 .. c PROVE t[i] = s[i]
    <3>1. i \in 1 .. c + n /\ i <= c
      BY ONLY <1>1, i \in 1 .. c
    <3>. QED BY <2>1, <3>1
  <2>. QED BY <2>1, <2>2, <2>3
<1>5. new \in Ring /\ Contents(new) = t
  <2>1. Len(t) - Size = c + n - Size /\ ~(Len(t) - Size > 0)
    BY ONLY <1>2, <1>4, <1>1
  <2>. QED BY <1>2, <2>1, PushedIs
<1>6. new.count = c + n
  BY <1>4, <1>5, ContentsAre
<1>7. Joined(b, data, new)
  BY <1>1, <1>4, <1>5, <1>6 DEF Joined
<1>. QED BY <1>3, <1>7

\* The strings of the header are bytes of the ring.
LEMMA HeaderIs ==
    ASSUME Queue!QueueAssumption, NEW n \in 0 .. Size, NEW label \in Labels
    PROVE  /\ Queue!LengthString(n) \in Seq(Byte) /\ Len(Queue!LengthString(n)) = LengthBytes
           /\ \A i \in 1 .. LengthBytes : Queue!LengthString(n)[i] = <<"length", n, i>>
           /\ Queue!LabelString(label) \in Seq(Byte) /\ Len(Queue!LabelString(label)) = LabelBytes
           /\ \A i \in 1 .. LabelBytes : Queue!LabelString(label)[i] = <<"label", label, i>>
<1>1. LengthBytes \in Nat /\ LabelBytes \in Nat
  BY DEF Queue!QueueAssumption
<1> DEFINE one == [i \in 1 .. LengthBytes |-> <<"length", n, i>>]
           two == [i \in 1 .. LabelBytes |-> <<"label", label, i>>]
<1>2. /\ \A i \in 1 .. LengthBytes : <<"length", n, i>> \in Byte
      /\ \A i \in 1 .. LabelBytes : <<"label", label, i>> \in Byte
  BY DEF Queue!QueueAssumption
<1>3. one \in Seq(Byte) /\ Len(one) = LengthBytes
  BY <1>1, <1>2
<1>4. two \in Seq(Byte) /\ Len(two) = LabelBytes
  BY <1>1, <1>2
<1>. QED BY <1>3, <1>4 DEF Queue!LengthString, Queue!LabelString

\* The three pushes of an element with room for it.
AllJoined(b, e, new) ==
    /\ new \in Ring
    /\ Len(Contents(new)) = Len(Contents(b)) + StringLength(e)
    /\ \A i \in 1 .. Len(Contents(b)) : Contents(new)[i] = Contents(b)[i]
    /\ StoredAt(Contents(new), Len(Contents(b)), e)

LEMMA ElementPushed ==
    ASSUME Queue!QueueAssumption, NEW b \in Ring, NEW e \in Elements,
           b.count + StringLength(e) <= Size,
           NEW length, length = Queue!LengthString(LabelBytes + Len(e.data)),
           NEW label, label = Queue!LabelString(e.label),
           NEW one, one = Pushed(b, length),
           NEW two, two = Pushed(one, label),
           NEW three, three = Pushed(two, e.data)
    PROVE  /\ ~TooFull(b, length, FALSE) /\ ~TooFull(one, label, FALSE)
           /\ ~TooFull(two, e.data, FALSE)
           /\ AllJoined(b, e, three)
<1> PICK m : m = Len(e.data)
  OBVIOUS
<1> PICK c : c = b.count
  OBVIOUS
<1>1. /\ BufferAssumption /\ LengthBytes \in Nat /\ LabelBytes \in Nat /\ m \in Nat
      /\ StringLength(e) = LengthBytes + LabelBytes + m /\ c \in Nat /\ Size \in Nat
  BY QueueHasRing, StringLengthIs, RingIs
<1>2. c + (LengthBytes + LabelBytes + m) <= Size
  BY <1>1
<1>3. /\ LabelBytes + m \in 0 .. Size /\ c + LengthBytes <= Size
      /\ (c + LengthBytes) + LabelBytes <= Size
      /\ (c + LengthBytes + LabelBytes) + m <= Size
  BY ONLY <1>1, <1>2
<1>4. e.label \in Labels /\ e.data \in Seq(Data) /\ e.data \in Seq(Byte)
  BY DEF Elements, Queue!QueueAssumption
<1>5. /\ length \in Seq(Byte) /\ Len(length) = LengthBytes
      /\ \A i \in 1 .. LengthBytes : length[i] = <<"length", LabelBytes + m, i>>
      /\ label \in Seq(Byte) /\ Len(label) = LabelBytes
      /\ \A i \in 1 .. LabelBytes : label[i] = <<"label", e.label, i>>
  <2> PICK n : n = LabelBytes + m
    OBVIOUS
  <2>1. n \in 0 .. Size
    BY <1>3
  <2>. QED BY <1>4, <2>1, HeaderIs
<1>6. Joined(b, length, one) /\ ~TooFull(b, length, FALSE)
  BY <1>1, <1>3, <1>5, PushedFits
<1>7. one \in Ring /\ one.count = c + LengthBytes
  BY <1>5, <1>6 DEF Joined
<1>8. Joined(one, label, two) /\ ~TooFull(one, label, FALSE)
  <2>1. one.count + Len(label) <= Size
    BY <1>3, <1>5, <1>7
  <2>. QED BY <1>1, <1>5, <1>7, <2>1, PushedFits
<1>9. two \in Ring /\ two.count = c + LengthBytes + LabelBytes
  BY <1>5, <1>7, <1>8 DEF Joined
<1>10. Joined(two, e.data, three) /\ ~TooFull(two, e.data, FALSE)
  <2>1. two.count + Len(e.data) <= Size
    BY <1>3, <1>9
  <2>. QED BY <1>1, <1>4, <1>9, <2>1, PushedFits
<1>11. three \in Ring /\ three.count = c + LengthBytes + LabelBytes + m
  BY <1>9, <1>10 DEF Joined
<1> PICK s : s = Contents(b)
  OBVIOUS
<1> PICK t : t = Contents(three)
  OBVIOUS
<1>12. Len(s) = c /\ Len(t) = c + LengthBytes + LabelBytes + m
  BY <1>1, <1>11, ContentsAre
<1>13. ASSUME NEW i \in 1 .. c + LengthBytes PROVE t[i] = Contents(one)[i]
  <2>1. i \in 1 .. one.count
    BY <1>7
  <2>2. i \in 1 .. two.count
    BY ONLY <1>1, <1>9, i \in 1 .. c + LengthBytes
  <2>. QED BY <1>8, <1>10, <2>1, <2>2 DEF Joined
<1>14. ASSUME NEW i \in 1 .. c PROVE t[i] = s[i]
  <2>1. i \in 1 .. c + LengthBytes
    BY ONLY <1>1, i \in 1 .. c
  <2>. QED BY <1>6, <1>13, <2>1 DEF Joined
<1>15. ASSUME NEW i \in 1 .. LengthBytes PROVE t[c + i] = <<"length", LabelBytes + m, i>>
  <2>1. c + i \in 1 .. c + LengthBytes
    BY ONLY <1>1, i \in 1 .. LengthBytes
  <2>2. Contents(one)[c + i] = length[i]
    BY <1>5, <1>6 DEF Joined
  <2>. QED BY <1>5, <1>13, <2>1, <2>2
<1>16. ASSUME NEW i \in 1 .. LabelBytes PROVE t[c + LengthBytes + i] = <<"label", e.label, i>>
  <2>1. c + LengthBytes + i \in 1 .. c + LengthBytes + LabelBytes
    BY ONLY <1>1, i \in 1 .. LabelBytes
  <2>2. Contents(two)[c + LengthBytes + i] = label[i]
    BY <1>5, <1>7, <1>8 DEF Joined
  <2>3. t[c + LengthBytes + i] = Contents(two)[c + LengthBytes + i]
    BY <1>9, <1>10, <2>1 DEF Joined
  <2>. QED BY <1>5, <2>2, <2>3
<1>17. ASSUME NEW i \in 1 .. m PROVE t[c + LengthBytes + LabelBytes + i] = e.data[i]
  BY <1>9, <1>10 DEF Joined
<1>18. StoredAt(t, c, e)
  BY <1>15, <1>16, <1>17 DEF StoredAt
<1>19. Len(t) = c + StringLength(e)
  BY ONLY <1>1, <1>12
<1>20. AllJoined(b, e, three)
  BY <1>11, <1>12, <1>14, <1>18, <1>19 DEF AllJoined
<1>. QED BY <1>6, <1>8, <1>10, <1>20

\* What a call does not touch stays.
LEMMA StaysHeld ==
    ASSUME Queue!QueueAssumption, NEW es, Holds(queue, items, es), UNCHANGED <<queue, items>>
    PROVE  Queue!ElementsOfQueue' = es /\ QueueInv'
<1>1. Holds(queue', items', es)
  OBVIOUS
<1>. QED BY <1>1, HoldsNext

LEMMA SameAnswers ==
    \A call, status, label, data, length :
        /\ Queue!Result(call, status, label, data, length) =
               Queue!Fifo!Result(call, status, label, data, length)
        /\ Queue!Bare(call, status) = Queue!Fifo!Bare(call, status)
BY DEF Queue!Result, Queue!Bare, Queue!Fifo!Result, Queue!Fifo!Bare

LEMMA QueuePutImplements ==
    ASSUME Queue!QueueAssumption, QueueInv, NEW label \in Labels, NEW data \in Inputs,
           Queue!Push(label, data)
    PROVE  QueueInv' /\ Queue!Fifo!Put(label, data)
<1> PICK es \in Seq(Elements) : Holds(queue, items, es)
  BY HoldsSome
<1> PICK e : e = [label |-> label, data |-> data]
  OBVIOUS
<1> PICK m : m = Len(data)
  OBVIOUS
<1> PICK c : c = queue.count
  OBVIOUS
<1> PICK s : s = Contents(queue)
  OBVIOUS
<1> PICK ends \in [0 .. Len(es) -> Nat] : items = Len(es) /\ Stored(s, es, ends)
  BY DEF Holds
<1>1. /\ BufferAssumption /\ LengthBytes \in Nat /\ LabelBytes \in Nat
      /\ data \in Seq(Data) /\ data \in Seq(Byte) /\ Data \subseteq Byte
  BY QueueHasRing DEF Queue!QueueAssumption
<1>2. queue \in Ring /\ c \in Nat /\ Size \in Nat /\ s \in Seq(Byte) /\ Len(s) = c
  BY <1>1, RingIs, ContentsAre DEF Holds
<1>3. e \in Elements /\ e.data = data /\ e.label = label /\ m \in Nat
  BY <1>1, LenProperties DEF Elements
<1>4. StringLength(e) = LengthBytes + LabelBytes + m /\ StringLength(e) \in Nat
  BY <1>3, StringLengthIs
<1>5. Queue!ElementsOfQueue = es
  BY HoldsNow
<1>6. Queue!Fifo!Used = c
  BY <1>2, <1>5, UsedIsStored
<1>7. (LengthBytes + LabelBytes + m > Size - c) <=> (c + (LengthBytes + LabelBytes) + m > Size)
  BY ONLY <1>1, <1>2, <1>3
<1>8. Queue!NumBytesFree(queue) = Size - c
  BY SameRing DEF NumBytesFree
<1> DEFINE call == <<"Push", label, data>>
<1>9. CASE LengthBytes + LabelBytes + m > Size - c
  <2>1. queueOut' = Queue!Bare(call, "Too_Full") /\ UNCHANGED <<queue, items>>
    BY <1>8, <1>9 DEF Queue!Push
  <2>2. Queue!ElementsOfQueue' = es /\ QueueInv'
    BY <2>1, StaysHeld
  <2>. QED BY <1>5, <1>6, <1>7, <1>9, <2>1, <2>2, SameAnswers DEF Queue!Fifo!Put
<1>10. CASE ~(LengthBytes + LabelBytes + m > Size - c)
  <2> PICK length : length = Queue!LengthString(LabelBytes + Len(data))
    OBVIOUS
  <2> PICK one : one = Pushed(queue, length)
    OBVIOUS
  <2> PICK tag : tag = Queue!LabelString(label)
    OBVIOUS
  <2> PICK two : two = Pushed(one, tag)
    OBVIOUS
  <2> PICK three : three = Pushed(two, data)
    OBVIOUS
  <2>1. /\ queueOut' = Queue!Bare(call, IF \/ TooFull(queue, length, FALSE)
                                           \/ TooFull(one, tag, FALSE)
                                           \/ TooFull(two, data, FALSE)
                                        THEN "Assertion" ELSE "Success")
        /\ queue' = three /\ items' = items + 1
    BY <1>8, <1>10, SameRing DEF Queue!Push
  <2>2. queue.count + StringLength(e) <= Size
    BY <1>1, <1>2, <1>3, <1>4, <1>10
  <2>3. /\ ~TooFull(queue, length, FALSE) /\ ~TooFull(one, tag, FALSE)
        /\ ~TooFull(two, data, FALSE)
        /\ AllJoined(queue, e, three)
    <3>1. /\ length = Queue!LengthString(LabelBytes + Len(e.data))
          /\ tag = Queue!LabelString(e.label) /\ three = Pushed(two, e.data)
      BY <1>3
    <3>2. /\ ~TooFull(queue, length, FALSE) /\ ~TooFull(one, tag, FALSE)
          /\ ~TooFull(two, e.data, FALSE)
          /\ AllJoined(queue, e, three)
      BY ONLY Queue!QueueAssumption, <1>2, <1>3, <2>2, <3>1, one = Pushed(queue, length),
              two = Pushed(one, tag), ElementPushed
    <3>. QED BY <1>3, <3>2
  <2> PICK t : t = Contents(three)
    OBVIOUS
  <2>4. /\ three \in Ring /\ t \in Seq(Byte) /\ Len(t) = Len(s) + StringLength(e)
        /\ \A i \in 1 .. Len(s) : t[i] = s[i]
        /\ StoredAt(t, Len(s), e)
    BY <1>1, <2>3, ContentsAre DEF AllJoined
  <2>5. PICK further \in [0 .. Len(Append(es, e)) -> Nat] : Stored(t, Append(es, e), further)
    BY ONLY <1>2, <1>3, <2>4, Queue!QueueAssumption, Stored(s, es, ends), StoredMore
  <2>6. items + 1 = Len(Append(es, e))
    OBVIOUS
  <2>7. Holds(three, items + 1, Append(es, e))
    BY <2>4, <2>5, <2>6 DEF Holds
  <2>8. Queue!ElementsOfQueue' = Append(es, e) /\ QueueInv'
    BY <2>1, <2>7, HoldsNext
  <2>9. queueOut' = Queue!Fifo!Bare(call, "Success")
    BY <2>1, <2>3, SameAnswers
  <2>10. ~(Queue!Fifo!Used + (LengthBytes + LabelBytes) + Len(data) > Size)
    BY <1>6, <1>7, <1>10
  <2>. QED BY <1>5, <2>8, <2>9, <2>10 DEF Queue!Fifo!Put
<1>. QED BY <1>9, <1>10

LEMMA QueueLookImplements ==
    ASSUME Queue!QueueAssumption, QueueInv, NEW n \in Nat, NEW offset \in Nat,
           Queue!Peek(n, offset)
    PROVE  QueueInv' /\ Queue!Fifo!Look(n, offset)
<1> PICK es \in Seq(Elements) : Holds(queue, items, es)
  BY HoldsSome
<1> PICK ends \in [0 .. Len(es) -> Nat] : items = Len(es) /\ Stored(Contents(queue), es, ends)
  BY DEF Holds
<1> DEFINE call == <<"Peek", n, offset>>
<1>1. Queue!ElementsOfQueue = es /\ queue \in Ring
  BY HoldsNow DEF Holds
<1>2. queueOut' = Queue!HeadResult(call, n, offset) /\ UNCHANGED <<queue, items>>
  BY DEF Queue!Peek
<1>3. Queue!ElementsOfQueue' = es /\ QueueInv'
  BY <1>2, StaysHeld
<1>4. Queue!HeadResult(call, n, offset) = Queue!Fifo!HeadPart(call, n, offset)
  <2> HIDE DEF call
  <2>. QED BY <1>1, HeadResultIs
<1>. QED BY <1>1, <1>2, <1>3, <1>4 DEF Queue!Fifo!Look

\* The element at the head leaves.
LEMMA QueueShortens ==
    ASSUME Queue!QueueAssumption, NEW es, Holds(queue, items, es), es # <<>>, Queue!DoPop
    PROVE  Queue!ElementsOfQueue' = Tail(es) /\ QueueInv'
<1> PICK ends \in [0 .. Len(es) -> Nat] : items = Len(es) /\ Stored(Contents(queue), es, ends)
  BY DEF Holds
<1> PICK s : s = Contents(queue)
  OBVIOUS
<1> PICK popped : popped = Popped(queue, Len(Queue!HeadString))
  OBVIOUS
<1>1. queue \in Ring /\ s \in Seq(Byte) /\ es \in Seq(Elements)
  BY QueueHasRing, ContentsAre DEF Holds, Stored
<1>2. popped \in Ring /\ Contents(popped) = SubSeq(s, StringLength(es[1]) + 1, Len(s))
  BY <1>1, HeadLeaves
<1>3. PICK nearer \in [0 .. Len(Tail(es)) -> Nat] : Stored(Contents(popped), Tail(es), nearer)
  BY <1>1, <1>2, StoredLess
<1>4. queue' = popped /\ items' = items - 1
  BY SameRing DEF Queue!DoPop
<1>5. items - 1 = Len(Tail(es))
  BY <1>1
<1>6. Holds(popped, items - 1, Tail(es))
  BY <1>2, <1>3, <1>5 DEF Holds
<1>. QED BY <1>4, <1>6, HoldsNext

LEMMA QueueTakeImplements ==
    ASSUME Queue!QueueAssumption, QueueInv, NEW n \in Nat, NEW offset \in Nat,
           Queue!Pop(n, offset)
    PROVE  QueueInv' /\ Queue!Fifo!Take(n, offset)
<1> PICK es \in Seq(Elements) : Holds(queue, items, es)
  BY HoldsSome
<1> PICK ends \in [0 .. Len(es) -> Nat] : items = Len(es) /\ Stored(Contents(queue), es, ends)
  BY DEF Holds
<1> DEFINE call == <<"Pop", n, offset>>
<1>1. Queue!ElementsOfQueue = es /\ queue \in Ring
  BY HoldsNow DEF Holds
<1>2. Queue!HeadResult(call, n, offset) = Queue!Fifo!HeadPart(call, n, offset)
  <2> HIDE DEF call
  <2>. QED BY <1>1, HeadResultIs
<1>3. CASE es = <<>>
  <2>1. items = 0
    BY <1>3
  <2>2. Queue!HeadStatus(n, offset) = "Empty"
    BY <2>1, NothingIs
  <2>3. queueOut' = Queue!HeadResult(call, n, offset) /\ queueOut'.status = "Empty"
    BY <2>2 DEF Queue!Pop, Queue!HeadResult, Queue!Bare, Queue!Result
  <2>4. UNCHANGED <<queue, items>>
    BY <2>3 DEF Queue!Pop
  <2>5. Queue!ElementsOfQueue' = es /\ QueueInv'
    BY <2>4, StaysHeld
  <2>. QED BY <1>1, <1>2, <1>3, <2>3, <2>5 DEF Queue!Fifo!Take, Queue!Fifo!Shortened
<1>4. CASE es # <<>>
  <2>1. Queue!PopIsSound
    BY <1>1, <1>4, HeadLeaves
  <2>2. Queue!HeadStatus(n, offset) = "Success"
    BY <1>1, <1>4, HeadDataIs DEF ReadHead
  <2>3. queueOut' = Queue!HeadResult(call, n, offset) /\ queueOut'.status = "Success"
    BY <2>1, <2>2 DEF Queue!Pop, Queue!HeadResult, Queue!Result
  <2>4. Queue!DoPop
    BY <2>3 DEF Queue!Pop
  <2>5. Queue!ElementsOfQueue' = Tail(es) /\ QueueInv'
    BY <1>4, <2>4, QueueShortens
  <2>. QED BY <1>1, <1>2, <1>4, <2>3, <2>5 DEF Queue!Fifo!Take, Queue!Fifo!Shortened
<1>. QED BY <1>3, <1>4

LEMMA QueueDropImplements ==
    ASSUME Queue!QueueAssumption, QueueInv, Queue!PopOnly
    PROVE  QueueInv' /\ Queue!Fifo!Drop
<1> PICK es \in Seq(Elements) : Holds(queue, items, es)
  BY HoldsSome
<1> PICK ends \in [0 .. Len(es) -> Nat] : items = Len(es) /\ Stored(Contents(queue), es, ends)
  BY DEF Holds
<1>1. Queue!ElementsOfQueue = es /\ queue \in Ring
  BY HoldsNow DEF Holds
<1>2. CASE es = <<>>
  <2>1. items = 0
    BY <1>2
  <2>2. Queue!LengthStatus = "Empty"
    BY <2>1, NothingIs
  <2>3. queueOut' = Queue!Bare(<<"Pop">>, "Empty") /\ queueOut'.status = "Empty"
    BY <2>2 DEF Queue!PopOnly, Queue!Bare, Queue!Result
  <2>4. UNCHANGED <<queue, items>>
    BY <2>3 DEF Queue!PopOnly
  <2>5. Queue!ElementsOfQueue' = es /\ QueueInv'
    BY <2>4, StaysHeld
  <2>. QED BY <1>1, <1>2, <2>3, <2>5, SameAnswers DEF Queue!Fifo!Drop, Queue!Fifo!Shortened
<1>3. CASE es # <<>>
  <2>1. Queue!PopIsSound
    BY <1>1, <1>3, HeadLeaves
  <2>2. Queue!LengthStatus = "Success"
    BY <1>1, <1>3, HeadIs
  <2>3. queueOut' = Queue!Bare(<<"Pop">>, "Success") /\ queueOut'.status = "Success"
    BY <2>1, <2>2 DEF Queue!PopOnly, Queue!Bare, Queue!Result
  <2>4. Queue!DoPop
    BY <2>3 DEF Queue!PopOnly
  <2>5. Queue!ElementsOfQueue' = Tail(es) /\ QueueInv'
    BY <1>3, <2>4, QueueShortens
  <2>. QED BY <1>1, <1>3, <2>3, <2>5, SameAnswers DEF Queue!Fifo!Drop, Queue!Fifo!Shortened
<1>. QED BY <1>2, <1>3

LEMMA QueueLengthImplements ==
    ASSUME Queue!QueueAssumption, QueueInv, Queue!PeekLength
    PROVE  QueueInv' /\ Queue!Fifo!LookLength
<1> PICK es \in Seq(Elements) : Holds(queue, items, es)
  BY HoldsSome
<1> PICK ends \in [0 .. Len(es) -> Nat] : items = Len(es) /\ Stored(Contents(queue), es, ends)
  BY DEF Holds
<1> DEFINE call == <<"Peek_Length">>
<1>1. Queue!ElementsOfQueue = es /\ queue \in Ring
  BY HoldsNow DEF Holds
<1>2. Queue!ElementsOfQueue' = es /\ QueueInv'
  BY StaysHeld DEF Queue!PeekLength
<1>3. CASE es = <<>>
  <2>1. items = 0
    BY <1>3
  <2>2. Queue!LengthStatus = "Empty"
    BY <2>1, NothingIs
  <2>3. queueOut' = Queue!Bare(call, "Empty")
    BY <2>2 DEF Queue!PeekLength
  <2>. QED BY <1>1, <1>2, <1>3, <2>3, SameAnswers DEF Queue!Fifo!LookLength
<1>4. CASE es # <<>>
  <2> PICK m : m = Len(es[1].data)
    OBVIOUS
  <2>1. Queue!LengthStatus = "Success" /\ Queue!HeadLength = LabelBytes + m /\ m \in Nat
    BY <1>1, <1>4, HeadIs
  <2>2. LabelBytes \in Nat
    BY DEF Queue!QueueAssumption
  <2>. PICK h : h = Queue!HeadLength
    OBVIOUS
  <2>3. ~(h < LabelBytes) /\ h - LabelBytes = m
    <3>1. h = LabelBytes + m /\ m \in Nat
      BY <2>1
    <3>. QED BY ONLY <2>2, <3>1
  <2>4. queueOut' = Queue!Result(call, "Success", {}, <<>>, m)
    <3>1. queueOut' = IF Queue!LengthStatus # "Success" THEN Queue!Bare(call, Queue!LengthStatus)
                      ELSE IF h < LabelBytes THEN Queue!Bare(call, "Assertion")
                      ELSE Queue!Result(call, "Success", {}, <<>>, h - LabelBytes)
      BY DEF Queue!PeekLength
    <3>2. queueOut' = Queue!Result(call, "Success", {}, <<>>, h - LabelBytes)
      BY <2>1, <2>3, <3>1
    <3>. QED BY ONLY <2>3, <3>2
  <2>5. Head(es) = es[1]
    BY <1>4
  <2>. QED BY <1>1, <1>2, <1>4, <2>4, <2>5, SameAnswers DEF Queue!Fifo!LookLength
<1>. QED BY <1>3, <1>4

LEMMA QueueLabelImplements ==
    ASSUME Queue!QueueAssumption, QueueInv, Queue!PeekLabel
    PROVE  QueueInv' /\ Queue!Fifo!LookLabel
<1> PICK es \in Seq(Elements) : Holds(queue, items, es)
  BY HoldsSome
<1> PICK ends \in [0 .. Len(es) -> Nat] : items = Len(es) /\ Stored(Contents(queue), es, ends)
  BY DEF Holds
<1> DEFINE call == <<"Peek_Label">>
<1>1. Queue!ElementsOfQueue = es /\ queue \in Ring
  BY HoldsNow DEF Holds
<1>2. Queue!ElementsOfQueue' = es /\ QueueInv'
  BY StaysHeld DEF Queue!PeekLabel
<1>3. CASE es = <<>>
  <2>1. items = 0
    BY <1>3
  <2>2. Queue!LabelStatus = "Empty"
    BY <2>1, NothingIs
  <2>3. queueOut' = Queue!Bare(call, "Empty")
    BY <2>2 DEF Queue!PeekLabel
  <2>. QED BY <1>1, <1>2, <1>3, <2>3, SameAnswers DEF Queue!Fifo!LookLabel
<1>4. CASE es # <<>>
  <2>1. Queue!LabelStatus = "Success" /\ Queue!HeadLabel = es[1].label
    BY <1>1, <1>4, HeadIs
  <2>2. queueOut' = Queue!Result(call, "Success", es[1].label, <<>>, 0)
    BY <2>1 DEF Queue!PeekLabel
  <2>3. Head(es) = es[1]
    BY <1>4
  <2>. QED BY <1>1, <1>2, <1>4, <2>2, <2>3, SameAnswers DEF Queue!Fifo!LookLabel
<1>. QED BY <1>3, <1>4

\* A ring with nothing in it.
LEMMA HoldsNothing ==
    ASSUME Queue!QueueAssumption, NEW b \in Ring, Contents(b) = <<>>
    PROVE  Holds(b, 0, <<>>)
<1>1. PICK ends \in [0 .. Len(<<>>) -> Nat] : Stored(Contents(b), <<>>, ends)
  BY StoredNone
<1>2. Len(<<>>) = 0
  OBVIOUS
<1>. QED BY <1>1, <1>2 DEF Holds

LEMMA FreshHoldsNothing ==
    ASSUME Queue!QueueAssumption, NEW byte \in Data, NEW b,
           b = Queue!Fresh([i \in 0 .. Size - 1 |-> byte])
    PROVE  Holds(b, 0, <<>>)
<1> DEFINE bytes == [i \in 0 .. Size - 1 |-> byte]
<1>1. BufferAssumption /\ Data \subseteq Byte
  BY QueueHasRing DEF Queue!QueueAssumption
<1>2. bytes \in [0 .. Size - 1 -> Byte]
  BY <1>1
<1> HIDE DEF bytes
<1>3. Fresh(bytes) \in Ring /\ Contents(Fresh(bytes)) = <<>>
  BY <1>1, <1>2, FreshIs
<1>4. b = Fresh(bytes)
  BY SameRing DEF bytes
<1>. QED BY <1>3, <1>4, HoldsNothing

LEMMA QueueResetImplements ==
    ASSUME Queue!QueueAssumption, QueueInv, Queue!Clear \/ Queue!Reinit
    PROVE  QueueInv' /\ Queue!Fifo!Reset
<1>1. BufferAssumption /\ queue \in Ring
  BY QueueHasRing DEF QueueInv
<1>2. ASSUME Holds(queue', items', <<>>), NEW call \in {"Clear", "Init"},
             queueOut' = Queue!Bare(<<call>>, "Success")
      PROVE  QueueInv' /\ Queue!Fifo!Reset
  <2>1. Queue!ElementsOfQueue' = <<>> /\ QueueInv'
    BY <1>2, HoldsNext
  <2>. QED BY <1>2, <2>1, SameAnswers DEF Queue!Fifo!Reset
<1>3. CASE Queue!Clear
  <2>1. queue' = Cleared(queue) /\ items' = 0 /\ queueOut' = Queue!Bare(<<"Clear">>, "Success")
    BY <1>3, SameRing DEF Queue!Clear
  <2>2. Cleared(queue) \in Ring /\ Contents(Cleared(queue)) = <<>>
    BY <1>1, ClearedIs
  <2>3. Holds(queue', items', <<>>)
    BY <2>1, <2>2, HoldsNothing
  <2>. QED BY <1>2, <2>1, <2>3
<1>4. CASE Queue!Reinit
  <2>1. items' = 0 /\ queueOut' = Queue!Bare(<<"Init">>, "Success")
    BY <1>4 DEF Queue!Reinit
  <2>2. PICK byte \in Data : queue' = Queue!Fresh([i \in 0 .. Size - 1 |-> byte])
    BY <1>4 DEF Queue!Reinit
  <2>3. Holds(queue', items', <<>>)
    BY <2>1, <2>2, FreshHoldsNothing
  <2>. QED BY <1>2, <2>1, <2>3
<1>. QED BY <1>3, <1>4

LEMMA QueueNextImplements ==
    ASSUME Queue!QueueAssumption, QueueInv, [Queue!Next]_(Queue!vars)
    PROVE  QueueInv' /\ [Queue!Fifo!Next]_(Queue!Fifo!vars)
<1>1. MaxRequest \in Nat /\ 0 .. MaxRequest \subseteq Nat
  BY DEF Queue!QueueAssumption
<1>2. ASSUME NEW label \in Labels, NEW data \in Inputs, Queue!Push(label, data)
      PROVE  QueueInv' /\ Queue!Fifo!Next
  BY <1>2, QueuePutImplements DEF Queue!Fifo!Next
<1>3. ASSUME NEW n \in 0 .. MaxRequest, NEW offset \in 0 .. MaxRequest, Queue!Pop(n, offset)
      PROVE  QueueInv' /\ Queue!Fifo!Next
  BY <1>1, <1>3, QueueTakeImplements DEF Queue!Fifo!Next
<1>4. ASSUME NEW n \in 0 .. MaxRequest, NEW offset \in 0 .. MaxRequest, Queue!Peek(n, offset)
      PROVE  QueueInv' /\ Queue!Fifo!Next
  BY <1>1, <1>4, QueueLookImplements DEF Queue!Fifo!Next
<1>5. ASSUME Queue!PopOnly PROVE QueueInv' /\ Queue!Fifo!Next
  BY <1>5, QueueDropImplements DEF Queue!Fifo!Next
<1>6. ASSUME Queue!PeekLength PROVE QueueInv' /\ Queue!Fifo!Next
  BY <1>6, QueueLengthImplements DEF Queue!Fifo!Next
<1>7. ASSUME Queue!PeekLabel PROVE QueueInv' /\ Queue!Fifo!Next
  BY <1>7, QueueLabelImplements DEF Queue!Fifo!Next
<1>8. ASSUME Queue!Clear \/ Queue!Reinit PROVE QueueInv' /\ Queue!Fifo!Next
  BY <1>8, QueueResetImplements DEF Queue!Fifo!Next
<1>9. ASSUME UNCHANGED Queue!vars PROVE QueueInv' /\ UNCHANGED Queue!Fifo!vars
  <2>1. UNCHANGED <<queue, items>> /\ queueOut' = queueOut
    BY <1>9 DEF Queue!vars
  <2>2. PICK es \in Seq(Elements) : Holds(queue, items, es)
    BY HoldsSome
  <2>3. Queue!ElementsOfQueue = es /\ Queue!ElementsOfQueue' = es /\ QueueInv'
    BY <2>1, <2>2, HoldsNow, StaysHeld
  <2>. QED BY <2>1, <2>3 DEF Queue!Fifo!vars
<1>. QED BY <1>2, <1>3, <1>4, <1>5, <1>6, <1>7, <1>8, <1>9 DEF Queue!Next

\* Whatever elements of whatever labels and lengths are pushed, peeked at any
\* offset, popped in part or whole, and cleared, wherever their headers and data
\* wrap in the array (data_structures/circular_buffer-queue_base.adb and
\* circular_buffer-labeled_queue.adb): the calls return what the first-in
\* first-out queue of elements returns, and no assertion of the code fails.
THEOREM QueueIsElementFifo ==
    ASSUME Queue!QueueAssumption
    PROVE  Queue!Spec => Queue!ImplementsElementFifo
<1>1. Queue!Init => QueueInv /\ Queue!Fifo!Init
  <2> SUFFICES ASSUME Queue!Init PROVE QueueInv /\ Queue!Fifo!Init
    OBVIOUS
  <2>1. items = 0 /\ queueOut = Queue!Bare(<<"Init">>, "Success")
    BY DEF Queue!Init
  <2>2. PICK byte \in Data : queue = Queue!Fresh([i \in 0 .. Size - 1 |-> byte])
    BY DEF Queue!Init
  <2>3. Holds(queue, items, <<>>)
    BY <2>1, <2>2, FreshHoldsNothing
  <2>4. Queue!ElementsOfQueue = <<>> /\ QueueInv
    BY <2>3, HoldsNow
  <2>. QED BY <2>1, <2>4, SameAnswers DEF Queue!Fifo!Init
<1>2. QueueInv /\ [Queue!Next]_(Queue!vars) => QueueInv' /\ [Queue!Fifo!Next]_(Queue!Fifo!vars)
  BY QueueNextImplements
<1>. QED BY <1>1, <1>2, PTL DEF Queue!Spec, Queue!ImplementsElementFifo, Queue!Fifo!Spec

=============================================================================
