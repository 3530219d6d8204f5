--------------------------- MODULE CircularBuffer ---------------------------
(***************************************************************************)
(* Circular_Buffer.Circular: the ring of CircularBase used as a buffer of  *)
(* bytes, with every call its clients may make of it.                      *)
(***************************************************************************)
EXTENDS CircularBase

CONSTANTS
    Inputs,     \* the byte strings pushed
    MaxRequest  \* bound on the bytes and offsets asked for

BufferAssumption ==
    /\ Size \in Nat \ {0}
    /\ Inputs \subseteq Seq(Byte)
    /\ MaxRequest \in Nat

VARIABLES
    buf,        \* the instance
    out         \* the last call, with its arguments, and what it returned

vars == <<buf, out>>

Result(call, status, data) ==
    [call |-> call, status |-> status, data |-> data]

Init ==
    /\ \E bytes \in [0 .. Size - 1 -> Byte] : buf = Fresh(bytes)
    /\ out = Result(<<"Init">>, "Success", <<>>)

Push(data, overwrite) ==
    LET call == <<"Push", data, overwrite>> IN
    IF TooFull(buf, data, overwrite)
    THEN out' = Result(call, "Too_Full", <<>>) /\ UNCHANGED buf
    ELSE out' = Result(call, "Success", <<>>) /\ buf' = Pushed(buf, data)

Peek(n, offset) ==
    LET call == <<"Peek", n, offset>> IN
    /\ out' = IF NothingToPeek(buf, n, offset)
              THEN Result(call, "Empty", <<>>)
              ELSE Result(call, "Success", Peeked(buf, n, offset))
    /\ UNCHANGED buf

Pop(n) ==
    LET call == <<"Pop", n>>
        data == Peeked(buf, n, 0)
    IN  IF NothingToPeek(buf, n, 0)
        THEN out' = Result(call, "Empty", <<>>) /\ UNCHANGED buf
        ELSE /\ out' = Result(call, "Success", data)
             /\ buf' = Popped(buf, Len(data))

Clear ==
    /\ buf' = Cleared(buf)
    /\ out' = Result(<<"Clear">>, "Success", <<>>)

MakeFull(index) ==
    /\ buf' = MadeFull(buf, index)
    /\ out' = Result(<<"Make_Full", index>>, "Success", <<>>)

\* The three dumps copy nothing: what they name is read at once here.
Tell ==
    /\ \/ out' = Result(<<"Dump">>, "Success", Dump(buf))
       \/ \E n \in 0 .. MaxRequest :
            \/ out' = Result(<<"Dump_Oldest", n>>, "Success", DumpOldest(buf, n))
            \/ out' = Result(<<"Dump_Newest", n>>, "Success", DumpNewest(buf, n))
    /\ UNCHANGED buf

\* Destroy, then Init over an array of unknown bytes.
Reinit ==
    /\ \E bytes \in [0 .. Size - 1 -> Byte] : buf' = Fresh(bytes)
    /\ out' = Result(<<"Init">>, "Success", <<>>)

Next ==
    \/ \E data \in Inputs, overwrite \in BOOLEAN : Push(data, overwrite)
    \/ \E n, offset \in 0 .. MaxRequest : Peek(n, offset)
    \/ \E n \in 0 .. MaxRequest : Pop(n)
    \/ \E index \in 0 .. MaxRequest : MakeFull(index)
    \/ Clear
    \/ Tell
    \/ Reinit

Spec == Init /\ [][Next]_vars

-----------------------------------------------------------------------------
(* Properties.                                                             *)

\* The ring is a byte string: a push, in one copy or two, adds to its end or
\* overwrites its beginning; a pop or a peek at any offset, past the end of
\* the array or not, returns the bytes of the string in order; and a dump
\* names exactly the bytes it is asked for, where the string wraps in the
\* array and where it fills it.
Fifo == INSTANCE ByteFifo WITH contents <- Contents(buf)
ImplementsByteFifo == Fifo!Spec

=============================================================================
