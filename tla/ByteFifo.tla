------------------------------ MODULE ByteFifo ------------------------------
(***************************************************************************)
(* What a circular buffer promises: a byte string of bounded length.  A    *)
(* push appends, and with overwrite drops the oldest bytes to make room; a *)
(* pop takes the oldest bytes; a peek returns bytes from anywhere in the   *)
(* string and leaves it alone.                                             *)
(***************************************************************************)
EXTENDS Integers, Sequences

CONSTANTS Size, Byte, Inputs, MaxRequest

VARIABLES contents, out

vars == <<contents, out>>

Result(call, status, data) ==
    [call |-> call, status |-> status, data |-> data]

Init == contents = <<>> /\ out = Result(<<"Init">>, "Success", <<>>)

Put(data, overwrite) ==
    LET call == <<"Push", data, overwrite>>
        all  == contents \o data
        lost == Len(all) - Size
    IN  IF \/ Len(data) > Size
           \/ ~overwrite /\ Len(data) > 0 /\ lost > 0
        THEN out' = Result(call, "Too_Full", <<>>) /\ UNCHANGED contents
        ELSE /\ out' = Result(call, "Success", <<>>)
             /\ contents' = IF lost > 0 THEN SubSeq(all, lost + 1, Len(all))
                            ELSE all

\* At most n bytes starting after the first offset ones.
Part(n, offset) ==
    SubSeq(contents, offset + 1,
           IF n + offset < Len(contents) THEN n + offset ELSE Len(contents))

Look(n, offset) ==
    LET call == <<"Peek", n, offset>> IN
    /\ out' = IF n > 0 /\ Part(n, offset) = <<>>
              THEN Result(call, "Empty", <<>>)
              ELSE Result(call, "Success", IF n = 0 THEN <<>> ELSE Part(n, offset))
    /\ UNCHANGED contents

Take(n) ==
    LET call == <<"Pop", n>> IN
    IF n > 0 /\ contents = <<>>
    THEN out' = Result(call, "Empty", <<>>) /\ UNCHANGED contents
    ELSE /\ out' = Result(call, "Success", Part(n, 0))
         /\ contents' = SubSeq(contents, Len(Part(n, 0)) + 1, Len(contents))

\* The string, its beginning and its end.
Tell ==
    /\ \/ out' = Result(<<"Dump">>, "Success", contents)
       \/ \E n \in 0 .. MaxRequest :
            \/ out' = Result(<<"Dump_Oldest", n>>, "Success", Part(n, 0))
            \/ out' = Result(<<"Dump_Newest", n>>, "Success",
                       IF n < Len(contents) THEN Part(n, Len(contents) - n)
                       ELSE contents)
    /\ UNCHANGED contents

Reset ==
    /\ \E call \in {"Clear", "Init"} : out' = Result(<<call>>, "Success", <<>>)
    /\ contents' = <<>>

Refill(index) ==
    /\ out' = Result(<<"Make_Full", index>>, "Success", <<>>)
    /\ contents' \in [1 .. Size -> Byte]

Next ==
    \/ \E data \in Inputs, overwrite \in BOOLEAN : Put(data, overwrite)
    \/ \E n, offset \in 0 .. MaxRequest : Look(n, offset)
    \/ \E n \in 0 .. MaxRequest : Take(n) \/ Refill(n)
    \/ Tell
    \/ Reset

Spec == Init /\ [][Next]_vars

=============================================================================
