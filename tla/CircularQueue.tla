---------------------------- MODULE CircularQueue ---------------------------
(***************************************************************************)
(* Circular_Buffer.Queue_Base and Circular_Buffer.Labeled_Queue.Instance:  *)
(* elements stored one after the other in the ring of CircularBase, each   *)
(* as the bytes of its length, the bytes of its label and its data.  The   *)
(* assertions of the code are outcomes here, so that they can be checked.  *)
(***************************************************************************)
EXTENDS CircularBase

CONSTANTS
    LengthBytes,    \* Length_Serializer.Serialized_Length
    LabelBytes,     \* Label_Serializer.Serialized_Length
    Labels,         \* the labels of elements
    Data,           \* the values of a byte of data
    Inputs,         \* the byte strings pushed
    MaxRequest      \* bound on the bytes and offsets asked for

\* Bytes of lengths, of labels and of data are bytes of the ring.
QueueAssumption ==
    /\ Size \in Nat \ {0}
    /\ LengthBytes \in Nat \ {0} /\ LabelBytes \in Nat \ {0}
    /\ \A n \in 0 .. Size, i \in 1 .. LengthBytes : <<"length", n, i>> \in Byte
    /\ \A label \in Labels, i \in 1 .. LabelBytes : <<"label", label, i>> \in Byte
    /\ Data \subseteq Byte
    /\ Inputs \subseteq Seq(Data)
    /\ MaxRequest \in Nat

VARIABLES
    buf,            \* the ring
    itemCount,      \* Self.Item_Count
    out             \* the last call, with its arguments, and what it returned

vars == <<buf, itemCount, out>>

Result(call, status, label, data, length) ==
    [call |-> call, status |-> status, label |-> label,
     data |-> data, length |-> length]

Bare(call, status) == Result(call, status, {}, <<>>, 0)

\* Serializers: the bytes a value is overlaid with, and the value back.
LengthString(n) == [i \in 1 .. LengthBytes |-> <<"length", n, i>>]
LabelString(label) == [i \in 1 .. LabelBytes |-> <<"label", label, i>>]
ValueOf(string) == string[1][2]

-----------------------------------------------------------------------------
(* The steps the calls are made of.                                        *)

\* The length of the oldest element, label included.
HeadLengthString == Peeked(buf, LengthBytes, 0)
HeadLength == ValueOf(HeadLengthString)
HeadLabelString == Peeked(buf, LabelBytes, LengthBytes)
HeadLabel == ValueOf(HeadLabelString)

\* Peek_Bytes: the data after the label and the offset, at most n bytes.
DataToPeek(n, offset) ==
    IF HeadLength > LabelBytes + offset
    THEN Smaller(HeadLength - (LabelBytes + offset), n) ELSE 0

\* Faulty: reads from the beginning of the data.
HeadDataFromStart(n, offset) ==
    LET k == DataToPeek(n, offset)
    IN  IF k = 0 THEN <<>> ELSE Peeked(buf, k, LengthBytes + LabelBytes)

HeadData(n, offset) ==
    LET k == DataToPeek(n, offset)
    IN  IF k = 0 THEN <<>> ELSE Peeked(buf, k, LengthBytes + LabelBytes + offset)

\* The assertions on the way to the length, the label and the data of the
\* oldest element: each peek finds the bytes it asks for, and they are what
\* was stored there.
LengthIsSound ==
    /\ buf.count >= LengthBytes
    /\ \E length \in 0 .. Size : HeadLengthString = LengthString(length)

LabelIsSound ==
    /\ HeadLength >= LabelBytes
    /\ buf.count >= LengthBytes + LabelBytes
    /\ \E label \in Labels : HeadLabelString = LabelString(label)

DataIsSound(n, offset) ==
    /\ Len(HeadData(n, offset)) = DataToPeek(n, offset)
    /\ HeadData(n, offset) \in Seq(Data)

\* What Peek_Length, Do_Peek_Label and Do_Peek return.
LengthStatus ==
    IF itemCount = 0 THEN "Empty"
    ELSE IF LengthIsSound THEN "Success" ELSE "Assertion"

LabelStatus ==
    IF LengthStatus = "Success" /\ ~LabelIsSound
    THEN "Assertion" ELSE LengthStatus

HeadStatus(n, offset) ==
    IF LabelStatus = "Success" /\ ~DataIsSound(n, offset)
    THEN "Assertion" ELSE LabelStatus

HeadResult(call, n, offset) ==
    IF HeadStatus(n, offset) # "Success" THEN Bare(call, HeadStatus(n, offset))
    ELSE Result(call, "Success", HeadLabel, HeadData(n, offset),
                DataToPeek(n, offset))

\* Do_Pop: the length, the label and the data leave the ring together.
HeadString == Peeked(buf, HeadLength + LengthBytes, 0)

DoPop ==
    /\ buf' = Popped(buf, Len(HeadString))
    /\ itemCount' = itemCount - 1

\* Its assertion: the whole element came out.
PopIsSound == Len(HeadString) = HeadLength + LengthBytes

-----------------------------------------------------------------------------
(* The calls.                                                              *)

Init ==
    /\ \E byte \in Data : buf = Fresh([i \in 0 .. Size - 1 |-> byte])
    /\ itemCount = 0
    /\ out = Bare(<<"Init">>, "Success")

\* Push_Length makes sure of the room for everything, then the three parts
\* are pushed.
Push(label, data) ==
    LET call   == <<"Push", label, data>>
        length == LengthString(LabelBytes + Len(data))
        one    == Pushed(buf, length)
        two    == Pushed(one, LabelString(label))
    IN  IF LengthBytes + LabelBytes + Len(data) > NumBytesFree(buf)
        THEN /\ out' = Bare(call, "Too_Full")
             /\ UNCHANGED <<buf, itemCount>>
        ELSE /\ out' = Bare(call,
                               IF \/ TooFull(buf, length, FALSE)
                                  \/ TooFull(one, LabelString(label), FALSE)
                                  \/ TooFull(two, data, FALSE)
                               THEN "Assertion" ELSE "Success")
             /\ buf' = Pushed(two, data)
             /\ itemCount' = itemCount + 1

Peek(n, offset) ==
    /\ out' = HeadResult(<<"Peek", n, offset>>, n, offset)
    /\ UNCHANGED <<buf, itemCount>>

Pop(n, offset) ==
    LET call == <<"Pop", n, offset>> IN
    /\ out' = IF HeadStatus(n, offset) = "Success" /\ ~PopIsSound
              THEN Bare(call, "Assertion") ELSE HeadResult(call, n, offset)
    /\ IF out'.status = "Success" THEN DoPop
       ELSE UNCHANGED <<buf, itemCount>>

\* The Pop of Queue_Base, which reads nothing but the length.
PopOnly ==
    /\ out' = Bare(<<"Pop">>, IF LengthStatus = "Success" /\ ~PopIsSound
                                 THEN "Assertion" ELSE LengthStatus)
    /\ IF out'.status = "Success" THEN DoPop
       ELSE UNCHANGED <<buf, itemCount>>

\* The length without the label.
PeekLength ==
    LET call == <<"Peek_Length">> IN
    /\ out' = IF LengthStatus # "Success" THEN Bare(call, LengthStatus)
              ELSE IF HeadLength < LabelBytes THEN Bare(call, "Assertion")
              ELSE Result(call, "Success", {}, <<>>, HeadLength - LabelBytes)
    /\ UNCHANGED <<buf, itemCount>>

PeekLabel ==
    LET call == <<"Peek_Label">> IN
    /\ out' = IF LabelStatus # "Success" THEN Bare(call, LabelStatus)
              ELSE Result(call, "Success", HeadLabel, <<>>, 0)
    /\ UNCHANGED <<buf, itemCount>>

Clear ==
    /\ buf' = Cleared(buf)
    /\ itemCount' = 0
    /\ out' = Bare(<<"Clear">>, "Success")

\* Destroy, then Init over an array of unknown bytes.
Reinit ==
    /\ \E byte \in Data : buf' = Fresh([i \in 0 .. Size - 1 |-> byte])
    /\ itemCount' = 0
    /\ out' = Bare(<<"Init">>, "Success")

Next ==
    \/ \E label \in Labels, data \in Inputs : Push(label, data)
    \/ \E n, offset \in 0 .. MaxRequest : Pop(n, offset) \/ Peek(n, offset)
    \/ PopOnly
    \/ PeekLength
    \/ PeekLabel
    \/ Clear
    \/ Reinit

Spec == Init /\ [][Next]_vars

-----------------------------------------------------------------------------
(* Properties.                                                             *)

\* Where the string of the first k elements ends, each found by the length that
\* it begins with.
End[k \in 0 .. itemCount] ==
    IF k = 0 THEN 0 ELSE End[k - 1] + LengthBytes + Contents(buf)[End[k - 1] + 1][2]

\* The elements in the ring.
ElementsOfQueue ==
    [k \in 1 .. itemCount |->
        [label |-> Contents(buf)[End[k - 1] + LengthBytes + 1][2],
         data  |-> SubSeq(Contents(buf), End[k - 1] + LengthBytes + LabelBytes + 1, End[k])]]

\* Headers and data that wrap around the ring, that are read from any offset
\* and popped in one go always come out as the elements that were pushed;
\* Item_Count, which decides that a queue is empty, agrees with what is in
\* the ring; and none of the assertions the code makes "by design" fails,
\* for an element has no answer of that name.
Fifo == INSTANCE ElementFifo WITH
            elements <- ElementsOfQueue,
            Capacity <- Size,
            HeaderLength <- LengthBytes + LabelBytes
ImplementsElementFifo == Fifo!Spec

=============================================================================
