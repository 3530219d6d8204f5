---------------------------- MODULE MCParameters ----------------------------
(* A component with two parameters, the first of which may not exceed the   *)
(* second, and a component that shares the entry of the first.              *)
EXTENDS Parameters

CONSTANTS c1, c2, low, high, copy, t1, t2

MCParams == {low, high, copy}
MCEntries == {1, 2}
MCHome == [p \in Params |-> IF p = copy THEN c2 ELSE c1]
MCEntryOf == [p \in Params |-> IF p = high THEN 2 ELSE 1]
MCTable == [p \in Params |-> t1]

MCValid(c, v) == c = c1 => v[low] <= v[high]

(* The parameters of the first component in two tables.                     *)
MCTwoParams == {low, high}
MCTwoTable == [p \in Params |-> IF p = low THEN t1 ELSE t2]

=============================================================================
