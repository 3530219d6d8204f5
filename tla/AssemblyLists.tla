---------------------------- MODULE AssemblyLists ----------------------------
(***************************************************************************)
(* What assembly.load (src/gen/models/assembly.py) gathers from the        *)
(* components and the submodels of an assembly when they are connected:    *)
(* the bases of ids that its files give, the lists that a component is in, *)
(* the types in the order in which a generator can declare them, and the   *)
(* files that the assembly depends on.                                     *)
(***************************************************************************)
EXTENDS Naturals, Sequences, SequencesExt, FiniteSetsExt, Functions

-----------------------------------------------------------------------------
(* The bases of ids.  A file gives pairs of the name of a base and a value. *)

\* A name has the form of a base, a value is positive, and no name is given
\* twice in a file.
IdBasesTaken(pairs) ==
    /\ \A i \in DOMAIN pairs : pairs[i].isBase /\ pairs[i].value > 0
    /\ IsInjective([i \in DOMAIN pairs |-> pairs[i].name])

IdBasesOf(pairs) == [n \in {pairs[i].name : i \in DOMAIN pairs} |->
                        (CHOOSE p \in Range(pairs) : p.name = n).value]

\* Nor is it given in two files.
IdBasesMerge(files) ==
    /\ \A i \in DOMAIN files : IdBasesTaken(files[i])
    /\ IsInjective([i \in DOMAIN FlattenSeq(files) |-> FlattenSeq(files)[i].name])

IdBases(files) == IdBasesOf(FlattenSeq(files))

-----------------------------------------------------------------------------
(* The lists of components, and who is told of the assembly.                *)

Sections == {"init", "init_base", "set_id_bases", "commands", "parameters", "events",
             "data_products", "data_dependencies", "packets", "faults", "interrupts"}

\* A component has a queue when it has a connector for one and room in it.
ListsOf(c) ==
    {c.execution} \cup (c.sections \cap Sections)
    \cup (IF c.async /\ c.queueSize # "0" THEN {"queued"} ELSE {"simple"})

ComponentKinds(components) ==
    [kind \in Sections \cup {"active", "passive", "queued", "simple"} |->
        SelectSeq(components, LAMBDA c : kind \in ListsOf(c))]

\* The components are told before the submodels, which find in them what
\* they need; set_assembly leaves out the components that are asked to be.
Told(components, submodels, left) ==
    SelectSeq(components, LAMBDA c : c.type \notin left) \o submodels

\* final is called in the same order, and of the submodels for those that
\* were told, which an assembly that is loaded shallow has none of.
Finished(shallow, components, submodels, left) ==
    IF shallow THEN <<>> ELSE Told(components, submodels, left)

-----------------------------------------------------------------------------
(* The types, each with the types it is made of.                            *)

Listed(order, t) == IF t \in Range(order) THEN order ELSE Append(order, t)

\* Faulty: a type is listed before those it is made of are looked at.
SearchedFirst(search, madeOf, order, t) ==
    LET after[k \in 0 .. Len(madeOf[t])] ==
            IF k = 0 THEN order ELSE search[madeOf[t][k]][Listed(after[k - 1], madeOf[t][k])]
    IN  after[Len(madeOf[t])]

\* _search_type: what a type is made of is searched before it is listed.
Searched(search, madeOf, order, t) ==
    LET after[k \in 0 .. Len(madeOf[t])] ==
            IF k = 0 THEN order
            ELSE Listed(search[madeOf[t][k]][after[k - 1]], madeOf[t][k])
    IN  after[Len(madeOf[t])]

\* No type is within more types than there are.
Search(madeOf) ==
    LET search[deeper \in 0 .. Cardinality(DOMAIN madeOf)] ==
            [t \in DOMAIN madeOf |-> [order \in Seq(DOMAIN madeOf) |->
                IF deeper = 0 THEN order
                ELSE Searched(search[deeper - 1], madeOf, order, t)]]
    IN  search[Cardinality(DOMAIN madeOf)]

TypesInOrder(madeOf, types) ==
    LET order[k \in 0 .. Len(types)] ==
            IF k = 0 THEN <<>>
            ELSE Listed(Search(madeOf)[types[k]][order[k - 1]], types[k])
    IN  order[Len(types)]

\* Types that a generator asks for besides.  One that is not packed leaves
\* the model of the one before it, which the first has not.
AdditionalTaken(asked) == asked # <<>> => asked[1].packed
Additional(asked) == {t.name : t \in {u \in Range(asked) : u.packed}}

\* What is come to from some by what each has within it.
Reached(within, from) ==
    {t \in DOMAIN within : \A all \in SUBSET DOMAIN within :
        from \subseteq all /\ (\A u \in all : Range(within[u]) \subseteq all) => t \in all}

\* The types of a component are its own and those they are made of.
AllTypes(madeOf, types) == Reached(madeOf, types)

\* A generator that declares the types in this order, such as that of the
\* ground system, never names a type that it has not declared.
TypesComeFirst(madeOf, types) ==
    LET order == TypesInOrder(madeOf, types)
    IN  /\ \A i \in DOMAIN order : Range(madeOf[order[i]]) \subseteq Range(SubSeq(order, 1, i - 1))
        /\ Range(order) = AllTypes(madeOf, Range(types))
        /\ IsInjective(order)

-----------------------------------------------------------------------------
(* The connections of arrays, and the files the assembly depends on.        *)

\* Those that leave an array, then those that enter one, so that one from an
\* array to an array comes twice.
ArrayedConnections(links) ==
    LET By(end(_)) ==
            SetToSortSeq({l \in links : end(l).count > 1},
                         LAMBDA x, y : \/ end(x).port < end(y).port
                                       \/ end(x).port = end(y).port /\ end(x).index < end(y).index)
    IN  By(LAMBDA l : l.from) \o By(LAMBDA l : l.to)

\* The files below an assembly, and those that its models depend on.
SubassemblyFiles(subassemblies, a) == Reached(subassemblies, Range(subassemblies[a]))

DependenciesOf(subassemblies, a, models) ==
    SubassemblyFiles(subassemblies, a) \cup UNION {{m.file} \cup m.dependencies : m \in models}

=============================================================================
