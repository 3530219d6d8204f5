----------------------------- MODULE TypeRanges -----------------------------
(***************************************************************************)
(* The ranges of the Ada types that packed types are made of               *)
(* (gen/models/packed_type.py and its kinds, record.py and array.py).      *)
(*                                                                         *)
(* Only the compiler knows a range: a program is generated, built and run  *)
(* for the packed type, and its report is a file of the build.  To run few *)
(* of them, the processes of a session share the ranges by name in         *)
(* redo/database/type_ranges_cache_database.py.  A range is here the       *)
(* declaration that a name stands for where the program uses it, with the  *)
(* letter of the format that tells the program what to report.             *)
(***************************************************************************)
EXTENDS Naturals, Sequences

CONSTANTS
    PackedTypes,
    Parts,          \* [PackedTypes -> Seq(PackedTypes)]: the packed fields
    Validated,      \* [PackedTypes -> Seq(Names)]: the other validated fields
    Preamble,       \* [PackedTypes -> SUBSET Names]: what its own code declares
    Letter,         \* [PackedTypes -> [Names -> letter]]: E in the field's format, or not
    Dotted,         \* the names that give their package
    Predefined,     \* the names of ADA_PREDEFINED_SCALAR_TYPES
    Generators,     \* the processes
    DatabaseMayFail,    \* the database may fail to be read or written
    NoRange

VARIABLES
    shared,         \* the shared range of a name and whose program told it
    loading,        \* the loads a process is in, the innermost first
    loaded,         \* the packed types whose ranges a process has loaded
    ranges,         \* the range of each field in a process
    follows         \* the reports a process depends on

rangesVars == <<shared, loading, loaded, ranges, follows>>

Names == Dotted \cup Predefined \cup UNION {Preamble[t] : t \in PackedTypes}

(* The names that the program of t reports.                                *)
Used(t) == {Validated[t][i] : i \in DOMAIN Validated[t]}

Declaration(t, n) == IF n \in Preamble[t] THEN <<t, n>> ELSE <<NoRange, n>>

(* What the program of t reports of n.                                     *)
Report(t, n) == [type |-> Declaration(t, n), letter |-> Letter[t][n]]

(* Faulty: what the preamble declares is not looked at.                    *)
CacheableAlways(t, n) == n \in Dotted \cup Predefined

(* A name without a package may be one that the preamble declares.         *)
Cacheable(t, n) == n \in Dotted \/ (Preamble[t] = {} /\ n \in Predefined)

(* A name with its package is no name of a preamble, and the type that all *)
(* see under a name is an enumeration for all or for none: each field of   *)
(* an enumeration needs its E (type_ranges.py tells who leaves it out).    *)
RangesAssumption ==
    /\ Parts \in [PackedTypes -> Seq(PackedTypes)]
    /\ Validated \in [PackedTypes -> Seq(Names)]
    /\ \A t \in PackedTypes : Preamble[t] \cap Dotted = {}
    /\ \A t, u \in PackedTypes : \A n \in Used(t) \cap Used(u) :
           Cacheable(t, n) /\ Cacheable(u, n) => Letter[t][n] = Letter[u][n]

Load(t) == [type |-> t, at |-> "Parts", parts |-> Parts[t], left |-> <<>>, from |-> {}]

Inner(p) == Head(loading[p])

LoadAt(p, place) == loading[p] # <<>> /\ Inner(p).at = place

Becomes(p, load) == loading' = [loading EXCEPT ![p] = <<load>> \o Tail(@)]

(* The load of the innermost type of a process is over.                    *)
Leave(p) ==
    /\ loaded' = [loaded EXCEPT ![p] = @ \cup {Inner(p).type}]
    /\ loading' = [loading EXCEPT ![p] = Tail(@)]

Begin(p, t) ==
    /\ loading[p] = <<>> /\ loaded[p] = {}
    /\ loading' = [loading EXCEPT ![p] = <<Load(t)>>]
    /\ UNCHANGED <<shared, loaded, ranges, follows>>

(* A record first loads the ranges of its packed fields.                   *)
LoadPart(p) ==
    /\ LoadAt(p, "Parts") /\ Inner(p).parts # <<>>
    /\ LET part == Head(Inner(p).parts)
           rest == <<[Inner(p) EXCEPT !.parts = Tail(@)]>> \o Tail(loading[p])
       IN  loading' = [loading EXCEPT ![p] =
               IF part \in loaded[p] THEN rest ELSE <<Load(part)>> \o rest]
    /\ UNCHANGED <<shared, loaded, ranges, follows>>

AskCache(p) ==
    /\ LoadAt(p, "Parts") /\ Inner(p).parts = <<>>
    /\ Becomes(p, [Inner(p) EXCEPT !.at = "Cache", !.left = Validated[Inner(p).type]])
    /\ UNCHANGED <<shared, loaded, ranges, follows>>

Hit(p) ==
    /\ LoadAt(p, "Cache") /\ Inner(p).left # <<>>
    /\ LET t == Inner(p).type
           n == Head(Inner(p).left)
       IN  /\ Cacheable(t, n) /\ shared[n] # NoRange
           /\ ranges' = [ranges EXCEPT ![p][t][n] = shared[n].range]
           /\ Becomes(p, [Inner(p) EXCEPT !.left = Tail(@), !.from = @ \cup {shared[n].by}])
    /\ UNCHANGED <<shared, loaded, follows>>

(* One name that the cache cannot tell sends the type to its own program.  *)
Miss(p) ==
    /\ LoadAt(p, "Cache")
    /\ \/ /\ Inner(p).left # <<>>
          /\ LET n == Head(Inner(p).left) IN
             ~Cacheable(Inner(p).type, n) \/ shared[n] = NoRange
       \/ DatabaseMayFail
    /\ Becomes(p, [Inner(p) EXCEPT !.at = "Run"])
    /\ UNCHANGED <<shared, loaded, ranges, follows>>

AllServed(p) ==
    /\ LoadAt(p, "Cache") /\ Inner(p).left = <<>>
    /\ follows' = [follows EXCEPT ![p] = @ \cup Inner(p).from]
    /\ Leave(p)
    /\ UNCHANGED <<shared, ranges>>

RunProgram(p) ==
    /\ LoadAt(p, "Run")
    /\ follows' = [follows EXCEPT ![p] = @ \cup {Inner(p).type}]
    /\ Becomes(p, [Inner(p) EXCEPT !.at = "Save"])
    /\ UNCHANGED <<shared, loaded, ranges>>

(* The report is saved, as far as the database lets it be, and read: the   *)
(* fields that the cache has set are left alone.                           *)
SaveAndSet(p) ==
    /\ LoadAt(p, "Save")
    /\ LET t == Inner(p).type
       IN  /\ \E count \in 0 .. Len(Validated[t]) :
                  /\ count = Len(Validated[t]) \/ DatabaseMayFail
                  /\ shared' = [n \in Names |->
                         IF Cacheable(t, n) /\ \E i \in 1 .. count : Validated[t][i] = n
                         THEN [range |-> Report(t, n), by |-> t] ELSE shared[n]]
           /\ ranges' = [ranges EXCEPT ![p][t] = [n \in Names |->
                  IF @[n] = NoRange /\ n \in Used(t) THEN Report(t, n) ELSE @[n]]]
    /\ Leave(p)
    /\ UNCHANGED follows

RangesInit ==
    /\ shared = [n \in Names |-> NoRange]
    /\ loading = [p \in Generators |-> <<>>]
    /\ loaded = [p \in Generators |-> {}]
    /\ ranges = [p \in Generators |-> [t \in PackedTypes |-> [n \in Names |-> NoRange]]]
    /\ follows = [p \in Generators |-> {}]

RangesNext ==
    \E p \in Generators :
        \/ \E t \in PackedTypes : Begin(p, t)
        \/ LoadPart(p) \/ AskCache(p) \/ Hit(p) \/ Miss(p) \/ AllServed(p)
        \/ RunProgram(p) \/ SaveAndSet(p)

-----------------------------------------------------------------------------

(* Whoever told the range of a field, it is the one that the type's own    *)
(* program reports, and the process depends on a report of that very type: *)
(* a later change of the Ada source reaches it ("This preserves the redo   *)
(* dependency chain", packed_type.py).                                     *)
RangesAreOwn ==
    \A p \in Generators : \A t \in loaded[p] : \A n \in Used(t) :
        /\ ranges[p][t][n] = Report(t, n)
        /\ \E u \in follows[p] : n \in Used(u) /\ Declaration(u, n) = Declaration(t, n)

=============================================================================
