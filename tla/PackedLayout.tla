--------------------------- MODULE PackedLayout ---------------------------
(***************************************************************************)
(* How packed types are laid out in bits (src/gen/models/record.py,        *)
(* array.py, type.py and submodels/field.py), and how items of these types *)
(* are placed in memory (memory_map.py, register_map.py).  A type is a     *)
(* record [kind, fields] of fields, or an array [kind, element, length] of *)
(* one field many times.  A field has either the type that it is packed    *)
(* as, or a format of its own; enum tells that its type is an enumeration  *)
(* with a model, and a field is not named as such a type or a packed one.  *)
(***************************************************************************)
EXTENDS Integers, Sequences, SequencesExt, FiniteSetsExt, Functions

CONSTANT None

Packed(f) == f.packed # None
IsArray(t) == t.kind = "array"

\* What a type holds, as many times as it does.
Fields(t) == IF IsArray(t) THEN [i \in 1 .. t.length |-> t.element] ELSE t.fields
Kinds(t) == IF IsArray(t) THEN {t.element} ELSE Range(t.fields)

Total(numbers) == FoldSeq(LAMBDA n, sum : n + sum, 0, numbers)

\* "U8x5" is [letter |-> "U", unit |-> 8, length |-> 5]; length 0 is none.
Bits(format) == IF format.length = 0 THEN format.unit ELSE format.unit * format.length

-----------------------------------------------------------------------------
(* Sizes and positions.                                                     *)

RECURSIVE Size(_)
FieldSize(f) == IF Packed(f) THEN Size(f.packed) ELSE Bits(f.format)
Size(t) == IF IsArray(t) THEN t.length * FieldSize(t.element)
           ELSE Total([i \in DOMAIN t.fields |-> FieldSize(t.fields[i])])

\* Faulty: a field begins one bit after the end of the one before it.
StartBitGap(t, i) ==
    Total([j \in 1 .. i - 1 |-> FieldSize(Fields(t)[j])]) + (IF i > 1 THEN 1 ELSE 0)

\* start_bit and end_bit of a field of a record, from the start of the record.
StartBit(t, i) == Total([j \in 1 .. i - 1 |-> FieldSize(Fields(t)[j])])
EndBit(t, i) == StartBit(t, i) + FieldSize(Fields(t)[i]) - 1

\* The fields that a type has all in all; one with a format counts once.
RECURSIVE NumFields(_)
NumFields(t) ==
    LET Count(f) == IF Packed(f) THEN NumFields(f.packed) ELSE 1
    IN  IF IsArray(t) THEN t.length * Count(t.element)
        ELSE Total([i \in DOMAIN t.fields |-> Count(t.fields[i])])

\* The key of a field: an element of an array has its index in it.
Label(t, i) == IF IsArray(t) THEN <<t.element.name, i - 1>> ELSE <<t.fields[i].name>>

\* flatten and flattened_names: the fields with a format, in order, each
\* under the names that lead to it.
RECURSIVE Flattened(_, _)
Flattened(t, prefix) ==
    LET Name(i) == Append(prefix, Label(t, i))
        Leaves(i) == IF Packed(Fields(t)[i]) THEN Flattened(Fields(t)[i].packed, Name(i))
                     ELSE <<[name |-> Name(i), field |-> Fields(t)[i]]>>
    IN  FlattenSeq([i \in DOMAIN Fields(t) |-> Leaves(i)])

-----------------------------------------------------------------------------
(* Fields of variable length.                                               *)

\* A type has a variable length when a field has, or its type.
RECURSIVE Variable(_)
Variable(t) == \E f \in Kinds(t) : f.lengthField # None \/ (Packed(f) /\ Variable(f.packed))

\* The field that varies: the last one of the last type.
RECURSIVE LastVariable(_)
LastVariable(t) ==
    LET last == Last(t.fields)
    IN  IF Packed(last) /\ Variable(last.packed) THEN LastVariable(last.packed) ELSE last

\* min_size: what is left of a record when that is empty.
MinSize(t) == Size(t) - (IF Variable(t) THEN FieldSize(LastVariable(t)) ELSE 0)

\* The field that gives the length is found by its name among the fields up
\* to and with this one, or in a packed one among them, and is not packed
\* itself (resolve_variable_length_field).
RECURSIVE Resolved(_, _)
Resolved(t, path) ==
    \E i \in DOMAIN Fields(t) :
        /\ Label(t, i) = Head(path)
        /\ IF Packed(Fields(t)[i])
           THEN Len(path) > 1 /\ Resolved(Fields(t)[i].packed, Tail(path))
           ELSE Len(path) = 1

-----------------------------------------------------------------------------
(* What may be written.                                                     *)

\* field.__init__: a format is there unless the type is packed, and what has
\* a variable length is an array of bytes.
FieldTaken(f) ==
    /\ f.offset # 0 => f.lengthField # None
    /\ IF Packed(f)
       THEN /\ f.format = None
            /\ f.lengthField # None =>
                /\ IsArray(f.packed)
                /\ ~Packed(f.packed.element) => f.packed.element.format.unit % 8 = 0
       ELSE /\ f.format # None
            /\ f.lengthField # None => f.format.length # 0 /\ f.format.unit % 8 = 0
            /\ f.format.unit <= 64

\* The elements of a format keep their order of bytes only when they are
\* bytes.
KeepsByteOrder(f) == f.format = None \/ f.format.length <= 1 \/ f.format.unit <= 8

\* Packed fields are all of one endianness, which the type then has.
Endianness(t) ==
    LET nested == {f.endian : f \in {g \in Kinds(t) : Packed(g)}}
    IN  IF nested = {} THEN "either" ELSE IF nested = {"big"} THEN "big"
        ELSE IF nested = {"little"} THEN "little" ELSE "mixed"

\* Only the last field has a variable length, and its elements have none.
VariesLast(t) ==
    \A i \in DOMAIN t.fields :
        LET f == t.fields[i]
        IN  f.lengthField # None \/ (Packed(f) /\ Variable(f.packed)) =>
                /\ i = Len(t.fields)
                /\ f.lengthField # None =>
                    /\ Packed(f) => ~Variable(f.packed)
                    /\ Resolved(t, f.lengthField)

\* The fields are volatile, atomic or registers all or none of them.
Volatile == {"Volatile_T", "Atomic_T", "Register_T"}
Descriptor(t) ==
    LET ways == {f.access : f \in Kinds(t)}
    IN  IF ways \cap Volatile = {} THEN None
        ELSE IF ways = {"Register_T"} THEN "Register"
        ELSE IF ways = {"Atomic_T"} THEN "Atomic" ELSE "Volatile"

RecordTaken(t) ==
    /\ \A i \in DOMAIN t.fields : FieldTaken(t.fields[i]) /\ KeepsByteOrder(t.fields[i])
    /\ IsInjective([i \in DOMAIN t.fields |-> t.fields[i].name])
    /\ \A f \in Kinds(t) : Packed(f) \/ f.enum => f.name # f.typeName
    /\ Endianness(t) # "mixed"
    /\ VariesLast(t)
    /\ Variable(t) => \A i \in DOMAIN t.fields : FieldSize(t.fields[i]) % 8 = 0
    /\ Size(t) % 8 = 0
    /\ {f.access : f \in Kinds(t)} \cap Volatile # {} => \A f \in Kinds(t) : f.access \in Volatile

\* An array has no elements of variable length.
ArrayTaken(t) ==
    /\ FieldTaken(t.element) /\ KeepsByteOrder(t.element)
    /\ Endianness(t) # "mixed"
    /\ Size(t) % 8 = 0
    /\ ~Variable(t)

TypeTaken(t) == IF IsArray(t) THEN ArrayTaken(t) ELSE RecordTaken(t)

\* A type loads when it and those that it holds are taken.
RECURSIVE TypeLoads(_)
TypeLoads(t) ==
    /\ \A f \in Kinds(t) : Packed(f) => TypeLoads(f.packed)
    /\ TypeTaken(t)

-----------------------------------------------------------------------------
(* What the code of a type includes and what it is made of.                 *)

\* Of all types, the packed ones, the others, and those without a model.
Packages(fields) == {f.package : f \in fields} \ {None}
TypeIncludes(t) == Packages(Kinds(t))
PackedIncludes(t) == Packages({f \in Kinds(t) : Packed(f)})
UnpackedIncludes(t) == Packages({f \in Kinds(t) : ~Packed(f)})
SimpleIncludes(t) == Packages({f \in Kinds(t) : ~Packed(f) /\ ~f.modelled})

\* The types from which the asserted comparison is taken: not those of fields
\* that vary, unless their elements do not.
TypeUses(t) ==
    Packages({f \in Kinds(t) : f.lengthField # None /\ (Packed(f) => ~Variable(f.packed))})

\* Through all that is packed in it.
RECURSIVE TypesIn(_)
TypesIn(t) ==
    {f.typeName : f \in Kinds(t)}
    \cup UNION {TypesIn(f.packed) : f \in {g \in Kinds(t) : Packed(g)}}

RECURSIVE ModelsIn(_)
ModelsIn(t) ==
    LET packed == {f.packed : f \in {g \in Kinds(t) : Packed(g)}}
    IN  packed \cup UNION {ModelsIn(p) : p \in packed}

RECURSIVE EnumsIn(_)
EnumsIn(t) ==
    {f.typeName : f \in {g \in Kinds(t) : ~Packed(g) /\ g.enum}}
    \cup UNION {EnumsIn(f.packed) : f \in {g \in Kinds(t) : Packed(g)}}

-----------------------------------------------------------------------------
(* The alignment of an array, an upper bound of what the compiler picks.    *)

PowersOf2(n) == {2 ^ k : k \in 0 .. n}

\* The lowest bit of the bytes of an element; for elements that are not
\* bytes, the power of 2 that has room for them all.
RequiredAlignment(t) ==
    LET bytes == FieldSize(t.element) \div 8
    IN  IF Packed(t.element) /\ ~IsArray(t.element.packed) THEN 1
        ELSE IF FieldSize(t.element) % 8 = 0
        THEN Max({p \in PowersOf2(16) : bytes % p = 0})
        ELSE Min({p \in PowersOf2(16) : p >= Size(t) \div 8})

-----------------------------------------------------------------------------
(* is_always_valid: whether every pattern of bits is a value of the type.   *)
(* An element of a format without length has a range of values, <<least,    *)
(* greatest>> or the set of the values of its literals.                     *)

ValuesOf(range) == IF range.literals # {} THEN Cardinality(range.literals)
                   ELSE range.max - range.min + 1

FieldValid(f) ==
    f.skip \/ (f.format.length = 0 /\ ValuesOf(f.range) = 2 ^ f.format.unit)

RECURSIVE AlwaysValid(_)
AlwaysValid(t) ==
    \A f \in Kinds(t) : f.skip \/ IF Packed(f) THEN AlwaysValid(f.packed) ELSE FieldValid(f)

-----------------------------------------------------------------------------
(* Memory.  An item of a map has a name, a type and, in a map of registers, *)
(* an address.                                                              *)

Bytes(item) == Size(item.type) \div 8

\* The items of a memory map follow each other from its start.
AddressIn(map, i) == map.start + Total([j \in 1 .. i - 1 |-> Bytes(map.items[j])])
LastUsed(map) == AddressIn(map, Len(map.items)) + Bytes(Last(map.items)) - 1

\* The map ends before its memory does.
MemoryMapLoads(map) ==
    /\ map.items # <<>>
    /\ IsInjective([i \in DOMAIN map.items |-> map.items[i].name])
    /\ LastUsed(map) < map.start + map.length - 1

\* The registers in the order of their addresses: each one begins after the
\* one before it ends.
Overlaps(items, i, j) ==
    /\ items[i].address <= items[j].address
    /\ items[j].address < items[i].address + Bytes(items[i])

InOrder(items) == SortSeq([i \in DOMAIN items |-> i], LAMBDA i, j : items[i].address < items[j].address)

RegisterMapLoads(items) ==
    LET order == InOrder(items)
    IN  /\ IsInjective([i \in DOMAIN items |-> items[i].name])
        /\ \A i \in DOMAIN items : items[i].address % 4 = 0
        /\ \A k \in 2 .. Len(order) :
            /\ items[order[k]].address > items[order[k - 1]].address
            /\ ~Overlaps(items, order[k - 1], order[k])

\* The way that an item of four bytes is accessed: whole.
Aspect(item) ==
    CASE item.access = "Register_T" ->
            IF Bytes(item) = 4 THEN "Volatile_Full_Access" ELSE "Volatile"
      [] item.access = "Volatile_T" -> "Volatile"
      [] item.access = "Atomic_T" -> "Atomic"
      [] OTHER -> None

=============================================================================
