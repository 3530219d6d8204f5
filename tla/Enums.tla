------------------------------- MODULE Enums -------------------------------
(***************************************************************************)
(* Enumerations: the modelled ones (gen/models/enums.py), whose literals   *)
(* may leave their number to the model, and the ones that a type ranges    *)
(* report tells of beside the ranges of numbers (gen/models/type_ranges.py)*)
(* A literal is its name and its number, or None where it gives none.      *)
(***************************************************************************)
EXTENDS Integers, Sequences, FiniteSets, Functions

CONSTANT None

Given(literals) == {l \in Range(literals) : l.value # None}

LiteralsTaken(literals) ==
    /\ \A i, j \in DOMAIN literals : i # j =>
           /\ literals[i].name # literals[j].name
           /\ literals[i].value # literals[j].value \/ literals[i].value = None
    /\ \A l \in Given(literals) : l.value >= 0

Lowest(taken, from) ==
    CHOOSE v \in from..(from + Cardinality(taken)) :
        v \notin taken /\ \A w \in from..(v - 1) : w \in taken

(* Faulty: a number given further on is not looked at.                     *)
FilledInTurn(literals) ==
    LET done[k \in 0..Len(literals)] ==
            IF k = 0 THEN <<>>
            ELSE LET l == literals[k]
                     before == {done[k - 1][i].value : i \in 1..(k - 1)}
                 IN  Append(done[k - 1],
                            IF l.value # None THEN l ELSE [l EXCEPT !.value = Lowest(before, 0)])
    IN  done[Len(literals)]

(* A literal without a number gets the lowest that none before it has and  *)
(* that none of the whole enumeration gives.                               *)
Numbered(done, l) ==
    IF l.value # None
    THEN [next |-> done.next, taken |-> done.taken, out |-> Append(done.out, l)]
    ELSE LET v == Lowest(done.taken, done.next) IN
         [next |-> v + 1, taken |-> done.taken \cup {v},
          out |-> Append(done.out, [name |-> l.name, value |-> v])]

Filled(literals) ==
    LET done[k \in 0..Len(literals)] ==
            IF k = 0
            THEN [next |-> 0, taken |-> {l.value : l \in Given(literals)}, out |-> <<>>]
            ELSE Numbered(done[k - 1], literals[k])
    IN  done[Len(literals)].out

(* The sort by number: the place of a literal is the count of those that   *)
(* are not behind it, of equals the earlier ones.                          *)
PlaceAmong(literals, i) ==
    Cardinality({j \in DOMAIN literals :
        \/ literals[j].value < literals[i].value
        \/ literals[j].value = literals[i].value /\ j <= i})

Sorted(literals) ==
    [k \in DOMAIN literals |->
        literals[CHOOSE i \in DOMAIN literals : PlaceAmong(literals, i) = k]]

EnumOf(literals) == Sorted(Filled(literals))

SuiteTaken(suite) ==
    /\ \A e \in Range(suite) : LiteralsTaken(e.literals)
    /\ \A i, j \in DOMAIN suite : i # j => suite[i].name # suite[j].name

(* An entry of a report tells a number's bounds or an enum's literals.     *)
EntryTaken(entry) ==
    IF entry.max # None THEN entry.min # None /\ entry.literals = None
    ELSE entry.min = None /\ entry.literals # None

ReportTaken(report) == \A e \in Range(report) : EntryTaken(e)

(* Of two entries of one name the last is meant.                           *)
TypeOf(report, name) ==
    LET of == {i \in DOMAIN report : report[i].name = name} IN
    IF of = {} THEN None
    ELSE LET e == report[CHOOSE i \in of : \A j \in of : j <= i] IN
         IF e.max # None THEN [min |-> e.min, max |-> e.max] ELSE e.literals

-----------------------------------------------------------------------------

(* A literal keeps the number it gives, no two have the same, the ones     *)
(* that give none are numbered in their order, and no number below theirs  *)
(* is left free.                                                           *)
EnumsKeepNumbers(literals) ==
    LiteralsTaken(literals) =>
        LET enum == EnumOf(literals)
            Number(l) == (CHOOSE m \in Range(enum) : m.name = l.name).value
        IN  /\ Len(enum) = Len(literals)
            /\ {m.name : m \in Range(enum)} = {l.name : l \in Range(literals)}
            /\ \A i \in 1..(Len(enum) - 1) : enum[i].value < enum[i + 1].value
            /\ \A l \in Given(literals) : Number(l) = l.value
            /\ \A i \in DOMAIN literals : literals[i].value = None =>
                   \A v \in 0..(Number(literals[i]) - 1) :
                       \/ \E l \in Given(literals) : l.value = v
                       \/ \E j \in 1..(i - 1) : Number(literals[j]) = v

=============================================================================
