------------------------------- MODULE Loading -------------------------------
(***************************************************************************)
(* How the models that rest on one another are loaded by the generators of *)
(* one session: an assembly with its parts and components, a component     *)
(* with its submodels, and a submodel that asks for the model it is of     *)
(* (gen/models/assembly.py and component.py, above the cache of base.py).  *)
(* Every load ends with the model in the cache, under the name of its file *)
(* and whatever it was loaded for; who asks next is given that model.      *)
(*                                                                         *)
(* A load is one step here: the interleaving of loads is ModelCache's.     *)
(***************************************************************************)
EXTENDS Naturals, Sequences, Functions

CONSTANTS
    Assemblies, Components,
    Parts,          \* [Assemblies -> Seq(Assemblies)]: the subassemblies named
    Instances,      \* [Assemblies -> set of <<name, component>>]
    Named,          \* [Assemblies \cup Components -> set of submodel files]
    Asked,          \* the files that there is something to generate from
    Depth,          \* bound: how deep Python lets loads nest
    None

VARIABLES
    stored,         \* the model in the cache for a file, or None
    got             \* what was asked for last and the model given, or None

Owners == Assemblies \cup Components
Models == Owners \cup UNION {Named[o] : o \in Owners}
OwnerOf(s) == CHOOSE o \in Owners : s \in Named[o]

(* An owner is loaded whole, as a part of another, or shallow, and holds   *)
(* the submodels that it told of itself.                                   *)
Ways == {"whole", "part", "shallow"}
Objects == [file : Owners, as : Ways, told : SUBSET Models]
Submodels == [file : Models, owner : Objects \cup {None}, told : BOOLEAN, finished : BOOLEAN]
Stores == [Models -> Objects \cup Submodels \cup {None}]

(* The name of a submodel's file begins with that of its owner's.          *)
LoadingAssumption ==
    /\ Parts \in [Assemblies -> Seq(Assemblies)]
    /\ \A a \in Assemblies : \A i \in Instances[a] : i[2] \in Components
    /\ Assemblies \cap Components = {}
    /\ \A o, p \in Owners : Named[o] \cap Owners = {} /\ (o # p => Named[o] \cap Named[p] = {})
    /\ Depth \in Nat
    /\ None \notin Objects \cup Submodels \cup {<<>>}

(* What is generated from a submodel is asked for its owner, and not while *)
(* this is a part of something else.                                       *)
AskedOfNoPart ==
    \A a, b \in Assemblies : Named[a] \cap Asked # {} => a \notin Range(Parts[b])

(* A submodel as its file makes it, and one that was told what it is of;   *)
(* final is called on it once everything else is done.                     *)
Untold(s) == [file |-> s, owner |-> None, told |-> FALSE, finished |-> FALSE]

SetComponent(s, c) == [Untold(s) EXCEPT !.owner = c, !.told = TRUE]

SetAssembly(s, a) == [Untold(s) EXCEPT !.owner = a, !.told = TRUE]

Final(submodel) == [submodel EXCEPT !.finished = TRUE]

(* An assembly, its parts, and what these are made of.                     *)
Subassemblies(a) ==
    {b \in Assemblies : \A all \in SUBSET Assemblies :
        a \in all /\ (\A c \in all : Range(Parts[c]) \subseteq all) => b \in all}

SubmodelFiles(a) == UNION {Named[b] : b \in Subassemblies(a)}

Merged(a) == UNION {Instances[b] : b \in Subassemblies(a)}

(* No subassembly is named twice, and no two of the files that are merged  *)
(* have a component of one name.                                           *)
Mergeable(a) ==
    LET names(x) == {i[1] : i \in Merged(x)} IN
    /\ IsInjective(Parts[a])
    /\ \A i, j \in DOMAIN Parts[a] : i # j => names(Parts[a][i]) \cap names(Parts[a][j]) = {}
    /\ \A p \in Range(Parts[a]) : names(p) \cap {i[1] : i \in Instances[a]} = {}

(* Submodels are loaded by themselves before they are told anything.       *)
WithSubmodels(store, files) ==
    [m \in Models |-> IF m \in files /\ store[m] = None THEN Untold(m) ELSE store[m]]

(* A component tells its submodels what they are of, and goes into the     *)
(* cache with them; in the cache they themselves stay as they were.        *)
ComponentOf(c) == [file |-> c, as |-> "whole", told |-> Named[c]]

LoadComponents(store, of) ==
    LET new == {c \in of : store[c] = None}
        loaded == WithSubmodels(store, UNION {Named[c] : c \in new})
    IN  [m \in Models |-> IF m \in new THEN ComponentOf(m) ELSE loaded[m]]

LoadComponent(store, c) ==
    LET with == LoadComponents(store, {c}) IN [store |-> with, model |-> with[c]]

LoadInstances(store, a) == LoadComponents(store, {i[2] : i \in Instances[a]})

(* The parts are loaded one after the other until one is refused.          *)
LoadParts(load, store, parts) ==
    LET after[k \in 0..Len(parts)] ==
            IF k = 0 THEN [store |-> store, model |-> <<>>]
            ELSE IF after[k - 1].model = None THEN after[k - 1]
            ELSE load[parts[k]][after[k - 1].store]
    IN  after[Len(parts)]

(* What goes into the cache: not what is loaded shallow.                   *)
Kept(as) == as # "shallow"

(* Only an assembly that is loaded whole tells its submodels, and those of *)
(* its parts, of itself, numbers its entities, and finishes and saves the  *)
(* submodels.  One that is refused leaves in the cache what was loaded for *)
(* it so far.                                                              *)
LoadWith(load, store, a, as) ==
    LET parts == LoadParts(load, LoadInstances(store, a), Parts[a])
        files == SubmodelFiles(a)
        loaded == WithSubmodels(parts.store, files)
        object == [file |-> a, as |-> as, told |-> IF as = "whole" THEN files ELSE {}]
        saved == [m \in Models |->
                    IF m \in object.told THEN Final(SetAssembly(m, object))
                    ELSE IF m = a /\ Kept(as) THEN object
                    ELSE loaded[m]]
    IN  IF store[a] # None THEN [store |-> store, model |-> store[a]]
        ELSE IF parts.model = None \/ ~Mergeable(a) THEN [store |-> parts.store, model |-> None]
        ELSE [store |-> saved, model |-> object]

(* A part loads its own parts; loads that nest too deep are refused.       *)
LoadPart[deeper \in 0..Depth] ==
    [a \in Assemblies |-> [store \in Stores |->
        IF deeper = 0 THEN [store |-> store, model |-> store[a]]
        ELSE LoadWith(LoadPart[deeper - 1], store, a, "part")]]

LoadAssembly(store, a, as) == LoadWith(LoadPart[Depth], store, a, as)

(* Faulty: what the owner holds is not taken over.                         *)
FresherUntold(submodel, owner) == [submodel EXCEPT !.owner = owner]

(* The submodel becomes the one its owner holds, if its owner holds it;    *)
(* only a whole assembly has finished its own.                             *)
Fresher(submodel, owner) ==
    IF submodel.file \notin owner.told THEN [submodel EXCEPT !.owner = owner]
    ELSE IF owner.file \in Components THEN SetComponent(submodel.file, owner)
    ELSE Final(SetAssembly(submodel.file, owner))

-----------------------------------------------------------------------------

Give(asked, as, model) == got' = [asked |-> asked, as |-> as, model |-> model]

(* A generator of the assembly itself.                                     *)
AskAssembly(a, as) ==
    LET r == LoadAssembly(stored, a, as) IN
    stored' = r.store /\ Give(a, as, r.model)

(* A generator of a submodel that has its owner load it: not if the        *)
(* submodel has an owner already, as one from the cache may.               *)
AskSubmodel(s, as) ==
    LET own == WithSubmodels(stored, {s})
        submodel == own[s]
        r == IF OwnerOf(s) \in Components THEN LoadComponent(own, OwnerOf(s))
             ELSE LoadAssembly(own, OwnerOf(s), as)
    IN  IF submodel.owner # None THEN stored' = own /\ Give(s, as, submodel)
        ELSE IF r.model = None THEN stored' = r.store /\ Give(s, as, None)
        ELSE IF as = "shallow" THEN stored' = r.store /\ Give(s, as, SetAssembly(s, r.model))
        ELSE /\ stored' = [r.store EXCEPT ![s] = Fresher(submodel, r.model)]
             /\ Give(s, as, Fresher(submodel, r.model))

NewSession == stored' = [m \in Models |-> None] /\ got' = None

LoadingInit == stored = [m \in Models |-> None] /\ got = None

LoadingNext ==
    \/ \E a \in Assemblies \cap Asked, as \in {"whole", "shallow"} : AskAssembly(a, as)
    \/ \E o \in Owners : \E s \in Named[o] \cap Asked :
           \E as \in IF o \in Assemblies THEN {"whole", "shallow"} ELSE {"whole"} :
               AskSubmodel(s, as)
    \/ NewSession

LoadingSpec == LoadingInit /\ [][LoadingNext]_<<stored, got>>

-----------------------------------------------------------------------------

(* A submodel that has asked for its owner was told by it, and by the one  *)
(* it is named for; one of an assembly that is not loaded shallow was      *)
(* finished too, and so has the ids that are given last.                   *)
SubmodelIsReady ==
    got # None => \/ got.model = None \/ got.asked \in Owners
                  \/ /\ got.model.told
                     /\ got.model.owner.file = OwnerOf(got.asked)
                     /\ OwnerOf(got.asked) \in Assemblies /\ got.as = "whole" => got.model.finished

=============================================================================
