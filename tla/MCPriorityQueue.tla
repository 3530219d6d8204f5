--------------------------- MODULE MCPriorityQueue --------------------------
(* Two arrays that fit a slot and one that is too long.                     *)
EXTENDS PriorityQueue

CONSTANTS a, b

MCInputs == {<<a>>, <<b>>, <<a, b>>}

=============================================================================
