----------------------------- MODULE EntityIds -----------------------------
(***************************************************************************)
(* How the entities of one type (events, packets, data products...) of all *)
(* components of an assembly get the ids that tell them apart on the wire: *)
(* assembly._generate_component_ids over the suites of                     *)
(* src/gen/models/submodels/ided_suite.py, and the data dependencies that  *)
(* are resolved to the ids of data products at the end.                    *)
(***************************************************************************)
EXTENDS Naturals, Sequences, SequencesExt, FiniteSetsExt, Functions

CONSTANTS
    Declarations,   \* what may be written: of every suite a base and ids
    TypeBases,      \* the id_bases of the assembly for this type
    Dependencies,   \* the data dependencies of the components
    MaxId,          \* 2^16 - 1
    NoId            \* an id, or a base, that is not given

ASSUME IdsAssumption ==
    /\ MaxId \in Nat /\ NoId \notin Nat
    /\ TypeBases \subseteq (Nat \ {0}) \cup {NoId}

\* A suite is written as [base, ids, types]: the base that the instance of the
\* component sets, the ids of its entities, and their types.  Bases begin at 1:
\* an id of 0 counts as one that is not given.
ASSUME DeclarationsAssumption ==
    \A written \in Declarations :
        /\ Len(written) \in Nat \ {0} /\ DOMAIN written = 1 .. Len(written)
        /\ \A s \in DOMAIN written :
            /\ written[s].base \in (Nat \ {0}) \cup {NoId}
            /\ written[s].ids \in Seq(Nat \cup {NoId})

VARIABLES
    suites,         \* what is written
    typeBase,       \* the id base of the assembly for this type of entity
    wanted,         \* of every dependency: the product it names and its type
    stage,          \* how far _generate_component_ids is
    turn,           \* the suite whose turn it is
    ids,            \* of every entity: entity.id
    bases,          \* of every suite: suite.id_base
    dictionary,     \* entity_dict: of an id, its entity
    resolved        \* of every dependency: its id once it is known

idVars == <<suites, typeBase, wanted, stage, turn, ids, bases, dictionary, resolved>>

Entities == UNION {{s} \X DOMAIN suites[s].ids : s \in DOMAIN suites}
EntitiesOf(s) == {e \in Entities : e[1] = s}

\* self.ids of a suite, in which an id of 0 counts as none.
Given(id) == id \notin {NoId, 0}
Static(suite) == \E i \in DOMAIN suite.ids : Given(suite.ids[i])

\* A suite is loaded when its ids differ, and are given for all or for none.
\* Only a suite without ids has a base to set.
SuiteLoads(suite) ==
    /\ \A i, j \in DOMAIN suite.ids :
        Given(suite.ids[i]) /\ suite.ids[i] = suite.ids[j] => i = j
    /\ Static(suite) => \A i \in DOMAIN suite.ids : Given(suite.ids[i])
    /\ \A i \in DOMAIN suite.ids : suite.ids[i] # NoId => suite.ids[i] <= MaxId
    /\ Static(suite) => suite.base = NoId

IdsInit ==
    /\ suites \in Declarations
    /\ \A s \in DOMAIN suites : SuiteLoads(suites[s])
    /\ typeBase \in TypeBases
    /\ wanted \in [Dependencies -> Entities \X {suites[e[1]].types[e[2]] : e \in Entities}]
    /\ stage = "set" /\ turn = 1
    /\ ids = [e \in Entities |-> suites[e[1]].ids[e[2]]]
    /\ bases = [s \in DOMAIN suites |-> NoId]
    /\ dictionary = [id \in {} |-> NoId]
    /\ resolved = [d \in Dependencies |-> NoId]

-----------------------------------------------------------------------------

Reject == stage' = "rejected" /\ UNCHANGED turn

\* The next suite, or the first suite of the next stage.
Proceed(next) ==
    IF turn = Len(suites) THEN stage' = next /\ turn' = 1
                          ELSE turn' = turn + 1 /\ UNCHANGED stage

\* ided_suite.set_id_base: the entities are numbered from the base on.  The
\* suites that have ids of their own override it and do nothing.
Numbered(s, base) ==
    [e \in Entities |-> IF e[1] = s THEN base + e[2] - 1 ELSE ids[e]]

SetIdBase(s, base) ==
    IF Static(suites[s])
    THEN UNCHANGED <<ids, bases>>
    ELSE /\ ids' = Numbered(s, base)
         /\ bases' = [bases EXCEPT ![s] = base]

Numberable(s, base) ==
    Static(suites[s])
    \/ \A e \in EntitiesOf(s) : ids[e] = NoId /\ Numbered(s, base)[e] <= MaxId

\* The bases that the assembly gives are set before anything is reserved.
SetGivenBase ==
    /\ stage = "set"
    /\ IF suites[turn].base = NoId
       THEN Proceed("reserve") /\ UNCHANGED <<ids, bases>>
       ELSE IF Numberable(turn, suites[turn].base)
            THEN SetIdBase(turn, suites[turn].base) /\ Proceed("reserve")
            ELSE Reject /\ UNCHANGED <<ids, bases>>
    /\ UNCHANGED <<suites, typeBase, wanted, dictionary, resolved>>

\* The entities of a suite that have an id by now.
Known(s) == {e \in EntitiesOf(s) : Given(ids[e])}

Entered(es) ==
    [id \in DOMAIN dictionary \cup {ids[e] : e \in es} |->
        IF id \in DOMAIN dictionary THEN dictionary[id]
                                    ELSE CHOOSE e \in es : ids[e] = id]

\* Faulty: what is already in the dictionary is not looked at.
ReserveUnchecked ==
    /\ stage = "reserve"
    /\ dictionary' = Entered(Known(turn)) /\ Proceed("choose")
    /\ UNCHANGED <<suites, typeBase, wanted, ids, bases, resolved>>

\* They are entered into the dictionary, each under an id that is free.
Reserve ==
    /\ stage = "reserve"
    /\ IF {ids[e] : e \in Known(turn)} \cap DOMAIN dictionary = {}
       THEN dictionary' = Entered(Known(turn)) /\ Proceed("choose")
       ELSE Reject /\ UNCHANGED dictionary
    /\ UNCHANGED <<suites, typeBase, wanted, ids, bases, resolved>>

\* Where the ids of a type begin.
Lowest == IF typeBase = NoId THEN 1 ELSE typeBase

\* Faulty: the lowest id that is not taken, whatever follows it.
OpenIdBaseOfOne(n) ==
    CHOOSE base \in Lowest .. Max(DOMAIN dictionary \cup {Lowest}) + 1 :
        /\ base \notin DOMAIN dictionary
        /\ Lowest .. base - 1 \subseteq DOMAIN dictionary

\* find_Open_Id_Base: the lowest ids in a row of which none is taken.
OpenIdBase(n) ==
    CHOOSE base \in Lowest .. Max(DOMAIN dictionary \cup {Lowest}) + 1 :
        /\ DOMAIN dictionary \cap (base .. base + n - 1) = {}
        /\ \A b \in Lowest .. base - 1 : DOMAIN dictionary \cap (b .. b + n - 1) # {}

\* A suite without a base gets the lowest one that its entities fit at, and
\* reserves their ids.
Choose ==
    LET base == OpenIdBase(Len(suites[turn].ids))
        new == {base + i - 1 : i \in DOMAIN suites[turn].ids}
    IN  /\ stage = "choose"
        /\ IF bases[turn] # NoId \/ Static(suites[turn])
           THEN Proceed("check") /\ UNCHANGED <<ids, bases, dictionary>>
           ELSE IF Numberable(turn, base) /\ new \cap DOMAIN dictionary = {}
                THEN /\ SetIdBase(turn, base)
                     /\ dictionary' = [id \in DOMAIN dictionary \cup new |->
                            IF id \in new THEN <<turn, id - base + 1>> ELSE dictionary[id]]
                     /\ Proceed("check")
                ELSE Reject /\ UNCHANGED <<ids, bases, dictionary>>
        /\ UNCHANGED <<suites, typeBase, wanted, resolved>>

\* The largest id of the sorted dictionary, which must have one.
CheckLargest ==
    /\ stage = "check"
    /\ IF DOMAIN dictionary # {} /\ Max(DOMAIN dictionary) <= MaxId
       THEN stage' = "resolve" ELSE stage' = "rejected"
    /\ UNCHANGED <<suites, typeBase, wanted, turn, ids, bases, dictionary, resolved>>

\* resolve_data_dependency_ids: the product is looked up by its name among
\* those of the dictionary, and must be of the type of the dependency.
Resolve(d) ==
    LET product == wanted[d][1]
        found == {id \in DOMAIN dictionary : dictionary[id] = product}
    IN  /\ stage = "resolve" /\ resolved[d] = NoId
        /\ IF found # {} /\ suites[product[1]].types[product[2]] = wanted[d][2]
           THEN /\ resolved' = [resolved EXCEPT ![d] = ids[product]]
                /\ UNCHANGED stage
           ELSE stage' = "rejected" /\ UNCHANGED resolved
        /\ UNCHANGED <<suites, typeBase, wanted, turn, ids, bases, dictionary>>

AllResolved ==
    /\ stage = "resolve" /\ \A d \in Dependencies : resolved[d] # NoId
    /\ stage' = "numbered"
    /\ UNCHANGED <<suites, typeBase, wanted, turn, ids, bases, dictionary, resolved>>

IdsNext ==
    \/ SetGivenBase \/ Reserve \/ Choose \/ CheckLargest \/ AllResolved
    \/ \E d \in Dependencies : Resolve(d)

IdsSpec == IdsInit /\ [][IdsNext]_idVars

-----------------------------------------------------------------------------

\* No two entities of one type have the same id in an assembly that loads,
\* whichever bases are given, ids are static and others are chosen: an event
\* or a packet could not be told from another on the ground.
NoIdTwice ==
    stage = "numbered" => \A e, f \in Entities : ids[e] = ids[f] => e = f

\* The dictionary that commands, packets and products are then looked up in
\* has every entity under its own id and under no other, and the id that a
\* component asks for its data under leads to the product it was mapped to.
IdsLeadBack ==
    stage = "numbered" =>
        /\ \A e \in Entities : ids[e] \in DOMAIN dictionary /\ dictionary[ids[e]] = e
        /\ \A id \in DOMAIN dictionary : dictionary[id] \in Entities /\ ids[dictionary[id]] = id
        /\ \A d \in Dependencies : resolved[d] = ids[wanted[d][1]]

\* Two ids or bases that are given overlap.
Overlap ==
    \E s, t \in DOMAIN suites : \E i \in DOMAIN suites[s].ids, j \in DOMAIN suites[t].ids :
        LET At(u, k) == IF Static(suites[u]) THEN suites[u].ids[k] ELSE suites[u].base + k - 1
            IsGiven(u) == Static(suites[u]) \/ suites[u].base # NoId
        IN  <<s, i>> # <<t, j>> /\ IsGiven(s) /\ IsGiven(t) /\ At(s, i) = At(t, j)

\* An id that is taken keeps a suite of n entities from n bases at most.
RoomForAll ==
    \A s \in DOMAIN suites :
        LET n == Len(suites[s].ids)
        IN  Lowest + n * Cardinality(Entities \ EntitiesOf(s)) + n - 1 <= MaxId

\* What is written: ids or bases given that overlap, ids too large, no entity
\* at all, or a dependency whose type is not that of its product.
Cause ==
    \/ Overlap
    \/ ~RoomForAll
    \/ Entities = {}
    \/ \E e \in Entities : suites[e[1]].ids[e[2]] = 0
    \/ \E e \in Entities : ~Static(suites[e[1]]) /\ suites[e[1]].base # NoId
                          /\ suites[e[1]].base + e[2] - 1 > MaxId
    \/ \E d \in Dependencies : wanted[d][2] # suites[wanted[d][1][1]].types[wanted[d][1][2]]

\* An assembly is refused for what is written in it alone.  The bases that are
\* chosen never get in the way, as long as there is room for them.
RefusedForCause == stage = "rejected" => Cause

=============================================================================
