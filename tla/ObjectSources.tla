---------------------------- MODULE ObjectSources ---------------------------
(***************************************************************************)
(* Which sources an object depends on, and which objects a program is made *)
(* of: redo/rules/build_object.py and build_executable.py over the source  *)
(* databases.                                                              *)
(*                                                                         *)
(* A source is a unit with its extension.  A project tells which files its *)
(* units have (sources), what each with's or includes, which specs make    *)
(* objects depend on their body too (open: they hold a generic or an       *)
(* inlined subprogram), which specs bind a C header, and whether           *)
(* SAFE_COMPILE is set.                                                    *)
(***************************************************************************)
EXTENDS Naturals, FiniteSets

CONSTANT EndsWith(_, _)     \* a file name of one unit ends as that of another

Ada == {"ads", "adb"}

AssemblyOrCode == {"c", "s"}

Files(p, u, kinds) == {<<u, k>> : k \in kinds} \cap p.sources

Withs(p, from) == UNION {p.withs[f] : f \in from}

Specs(p, units) == UNION {Files(p, u, {"ads"}) : u \in units}

Bodies(p, units) == UNION {Files(p, u, {"adb"}) : u \in units}

(* A binding <header>_h.ads brings the C files of its header with it.      *)
Bound(p, specs) == UNION {Files(p, p.binds[s[1]], {"h", "c", "s"}) : s \in specs}

(* Faulty: the body of any spec is taken, open or not, SAFE_COMPILE or not.*)
BodiesOfAnySpec(p, specs, bodies) ==
    {b \in bodies : \E s \in specs : EndsWith(b[1], s[1])}

(* Without SAFE_COMPILE only the bodies of the new specs that are open are *)
(* depended on; they are found among the new bodies by how their name ends.*)
BodiesNeeded(p, specs, bodies) ==
    IF p.safe THEN bodies
    ELSE {b \in bodies : \E s \in specs : s[1] \in p.open /\ EndsWith(b[1], s[1])}

(* A round takes what the files of the last one with.  It ends the search *)
(* when it has no new spec, whatever bodies it found.                      *)
Round(p, search) ==
    LET new(files) == files \ search.deps
        units == Withs(p, search.from)
        specs == new(Specs(p, units))
        needed == BodiesNeeded(p, specs, new(Bodies(p, units)))
    IN  IF specs = {} THEN search
        ELSE [from |-> specs \cup needed,
              deps |-> search.deps \cup Bound(p, specs) \cup specs \cup needed]

\* Each round but the last adds a source.
AdaDependencies(p, from) ==
    LET search[k \in 0..Cardinality(p.sources)] ==
            IF k = 0 THEN [from |-> from, deps |-> {}] ELSE Round(p, search[k - 1])
    IN  search[Cardinality(p.sources)].deps

Further(leads, some) == some \cup UNION {leads[f] : f \in some}

(* What some come to when each leads to others.                            *)
Reached(leads, from) ==
    LET reached[k \in 0..Cardinality(DOMAIN leads)] ==
            IF k = 0 THEN from ELSE Further(leads, reached[k - 1])
    IN  reached[Cardinality(DOMAIN leads)]

(* What the compiler itself says a C file includes; nothing is asked of    *)
(* assembly.                                                               *)
Included(p) ==
    [f \in p.sources |->
        IF f[2] = "s" THEN {} ELSE UNION {Files(p, u, {"h"}) : u \in p.withs[f]}]

CDependencies(p, from) == Reached(Included(p), {f \in from : f[2] # "s"})

(* An object is of Ada when there is Ada source for it.                    *)
ObjectSources(p, u) ==
    IF Files(p, u, Ada) # {} THEN Files(p, u, Ada) ELSE Files(p, u, {"h", "c", "s"})

ToCompile(p, u) ==
    IF Files(p, u, {"adb"}) # {} THEN Files(p, u, {"adb"})
    ELSE IF Files(p, u, {"ads"}) # {} THEN Files(p, u, {"ads"})
    ELSE Files(p, u, AssemblyOrCode)

(* The dependencies of objects that are compiled in one batch, of which    *)
(* one object alone is a case.                                             *)
DependenciesOf(p, objects) ==
    LET own == UNION {ObjectSources(p, u) : u \in objects} IN
    own \cup AdaDependencies(p, {f \in own : f[2] \in Ada})
        \cup CDependencies(p, {f \in own : f[2] \in {"h", "c"}})

(* Headers become no object, a unit of Ada does by its spec alone.         *)
ObjectsOf(p, files) ==
    {u \in {f[1] : f \in files} : ToCompile(p, u) # {}}

(* The objects of what is in the .deps file of an object.                  *)
Linked(p) == [u \in p.units |-> ObjectsOf(p, DependenciesOf(p, {u}))]

(* The program: from object to object, as far as there are new ones.       *)
Program(p, main) == Reached(Linked(p), {main})

-----------------------------------------------------------------------------

(* What a file makes its object depend on, of itself, when the bodies of    *)
(* these units count.                                                      *)
Needs(p, f, counting) ==
    IF f[2] \in Ada
    THEN LET specs == Specs(p, p.withs[f]) IN
         specs \cup Bound(p, specs)
               \cup {b \in Bodies(p, p.withs[f]) : p.safe \/ b[1] \in counting}
    ELSE {}

Calls(p, counting) == [f \in p.sources |-> Needs(p, f, counting)]

(* All that the sources of one object reach, of Ada and of C.              *)
Reaches(p, u, counting) ==
    LET own == ObjectSources(p, u) IN
    own \cup Reached(Calls(p, counting), {f \in own : f[2] \in Ada})
        \cup Reached(Included(p), {f \in own : f[2] \in {"h", "c"}})

(* The units whose body the search may take for that of an open spec.      *)
NamedAsOpen(p) == {u \in p.units : \E v \in p.open : EndsWith(u, v)}

(* The search finds what one reaches from the own sources of the objects of *)
(* a batch through what files with and open specs call for, whatever it met *)
(* first, in a batch as for each object alone.  What it takes beyond that   *)
(* is reached over a body whose name ends as that of an open spec: where no *)
(* two names do, it is just what is reached.                               *)
DependenciesAreReached(p, batches) ==
    \A batch \in batches \cup {{u} : u \in p.units} :
        /\ UNION {Reaches(p, u, p.open) : u \in batch} \subseteq DependenciesOf(p, batch)
        /\ DependenciesOf(p, batch) \subseteq UNION {Reaches(p, u, NamedAsOpen(p)) : u \in batch}

(* Every unit that a spec or a body of the program with's is part of it.   *)
NothingIsMissing(p, main) ==
    \A u \in Program(p, main) : \A f \in Files(p, u, Ada) : \A v \in p.withs[f] :
        ToCompile(p, v) # {} => v \in Program(p, main)

(* What an object is compiled again for is what its own sources reach, and *)
(* beyond it only what a body with an odd name brings, in whatever batch it *)
(* is compiled; every unit that a unit of a program with's is linked into  *)
(* it (build_object.py, build_executable.py).                              *)
ProgramsAreWhole(p, main, batches) ==
    DependenciesAreReached(p, batches) /\ NothingIsMissing(p, main)

=============================================================================
