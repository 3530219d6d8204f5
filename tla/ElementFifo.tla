---------------------------- MODULE ElementFifo -----------------------------
(***************************************************************************)
(* What a labeled queue promises: a first-in first-out queue of labeled    *)
(* byte strings of any length, limited by the bytes they and their headers *)
(* take together.  An element leaves whole, however few of its bytes its   *)
(* taker asks for.                                                         *)
(***************************************************************************)
EXTENDS Integers, Sequences

CONSTANTS Capacity, HeaderLength, Labels, Inputs, MaxRequest

VARIABLES elements, out

vars == <<elements, out>>

Result(call, status, label, data, length) ==
    [call |-> call, status |-> status, label |-> label,
     data |-> data, length |-> length]

Bare(call, status) == Result(call, status, {}, <<>>, 0)

\* The bytes that the first k elements take together, with their headers.
UpTo[k \in 0 .. Len(elements)] ==
    IF k = 0 THEN 0 ELSE UpTo[k - 1] + HeaderLength + Len(elements[k].data)

Used == UpTo[Len(elements)]

\* The bytes of the oldest element after the offset, at most n of them.
Part(n, offset) ==
    LET data == Head(elements).data IN
    SubSeq(data, offset + 1,
           IF n + offset < Len(data) THEN n + offset ELSE Len(data))

HeadPart(call, n, offset) ==
    IF elements = <<>> THEN Bare(call, "Empty")
    ELSE LET data == Part(n, offset)
         IN  Result(call, "Success", Head(elements).label, data, Len(data))

Init == elements = <<>> /\ out = Bare(<<"Init">>, "Success")

Put(label, data) ==
    LET call == <<"Push", label, data>> IN
    IF Used + HeaderLength + Len(data) > Capacity
    THEN out' = Bare(call, "Too_Full") /\ UNCHANGED elements
    ELSE /\ out' = Bare(call, "Success")
         /\ elements' = Append(elements, [label |-> label, data |-> data])

Shortened == IF elements = <<>> THEN <<>> ELSE Tail(elements)

Take(n, offset) ==
    /\ out' = HeadPart(<<"Pop", n, offset>>, n, offset)
    /\ elements' = Shortened

Look(n, offset) ==
    /\ out' = HeadPart(<<"Peek", n, offset>>, n, offset)
    /\ UNCHANGED elements

LookLength ==
    LET call == <<"Peek_Length">> IN
    /\ out' = IF elements = <<>> THEN Bare(call, "Empty")
              ELSE Result(call, "Success", {}, <<>>, Len(Head(elements).data))
    /\ UNCHANGED elements

LookLabel ==
    LET call == <<"Peek_Label">> IN
    /\ out' = IF elements = <<>> THEN Bare(call, "Empty")
              ELSE Result(call, "Success", Head(elements).label, <<>>, 0)
    /\ UNCHANGED elements

Drop ==
    /\ out' = Bare(<<"Pop">>, IF elements = <<>> THEN "Empty" ELSE "Success")
    /\ elements' = Shortened

Reset ==
    /\ \E call \in {"Clear", "Init"} : out' = Bare(<<call>>, "Success")
    /\ elements' = <<>>

Next ==
    \/ \E label \in Labels, data \in Inputs : Put(label, data)
    \/ \E n, offset \in 0 .. MaxRequest : Take(n, offset) \/ Look(n, offset)
    \/ LookLength
    \/ LookLabel
    \/ Drop
    \/ Reset

Spec == Init /\ [][Next]_vars

=============================================================================
