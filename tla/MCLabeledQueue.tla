--------------------------- MODULE MCLabeledQueue ---------------------------
(* Two element sizes, one of which fills more than half of the buffer.      *)
EXTENDS LabeledQueue, TLC

CONSTANTS short, long

MCElements == {short, long}

MCLength == short :> 1 @@ long :> 3

=============================================================================
