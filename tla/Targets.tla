------------------------------ MODULE Targets -------------------------------
(***************************************************************************)
(* How the databases of the build are filled from the build path:          *)
(* redo/database/create.py, with the source, model, generator and target   *)
(* databases it inserts into.                                              *)
(*                                                                         *)
(* A file is opaque: what kind it is, which unit it belongs to, what its   *)
(* generators and rules make of it are constants.  The generators of a     *)
(* file are kept in a Python set, so that they come in any order.          *)
(***************************************************************************)
EXTENDS Naturals, Sequences, FiniteSets

CONSTANTS
    BuildPath,      \* the directories, in order
    Docs,           \* [directory -> the files of its doc/ directory]
    Kind,           \* [file -> "ada", "c", "py", "yaml", "do", "default" or "other"]
    Unit,           \* [file -> the name that packages and C units go by]
    Part,           \* [file -> its extension, C++ counted with C]
    Place,          \* [file -> "src", "py", "yaml" or "else": where it is made]
    Generated(_),   \* what the generators make of a file
    Ruled(_),       \* what the build rules make of a file
    DoTarget(_),    \* what a file of kind "do" or "default" makes
    ListedIn(_, _), \* the directories from one down to that of a target
    DocOf(_),       \* the doc/ directory of a directory
    NoModel         \* behind what is written by hand

(* What is made of a file is a file, and the directories that list a       *)
(* target begin with the one it was asked for.                             *)
TargetsAssumption ==
    /\ BuildPath \in Seq({BuildPath[i] : i \in DOMAIN BuildPath})
    /\ \A f \in DOMAIN Kind : Generated(f) \subseteq DOMAIN Kind /\ Ruled(f) \subseteq DOMAIN Kind
    /\ \A d \in {BuildPath[i] : i \in DOMAIN BuildPath} : \A t \in DOMAIN Kind : d \in ListedIn(d, t)

VARIABLES
    tree,           \* [directory -> its files, in order]
    step, ahead,    \* where create() is, and the directories left
    models,         \* the model database
    sources,        \* the entries of the three source databases
    generators,     \* the generator database: entries of output and input
    pending,        \* what the generators of this round have yet to give
    found,          \* the models that this round has found
    targets         \* the directories and the targets listed in them

Searched == {BuildPath[i] : i \in DOMAIN BuildPath}

TreeTyped == tree \in [Searched -> Seq(DOMAIN Kind)]

Of(d, kinds) == {tree[d][i] : i \in DOMAIN tree[d]} \cap {f \in DOMAIN Kind : Kind[f] \in kinds}

Source == {"ada", "c", "py"}

Entry(f, model) == [file |-> f, model |-> model]

Namesakes(entries, f) ==
    {e \in entries : Kind[e.file] = Kind[f] /\ Unit[e.file] = Unit[f]}

(* Faulty: a third file of another part fits, and so does another model.   *)
FitsByPart(entries, f, model) ==
    \A e \in Namesakes(entries, f) : Part[e.file] # Part[f]

(* insert_source: a package has one spec and one body, a C unit two files  *)
(* of different kinds, a Python module one file, and one model is behind   *)
(* all of it that is generated.                                            *)
Fits(entries, f, model) ==
    LET same == Namesakes(entries, f) IN
    /\ model = NoModel \/ {e.model : e \in same} \subseteq {NoModel, model}
    /\ IF Kind[f] = "py" THEN same = {}
       ELSE Cardinality(same) < 2 /\ \A e \in same : Part[e.file] # Part[f]

(* Whether files that nothing generated can be inserted one by one.        *)
AllFit(entries, new) ==
    \A f \in new : Fits(entries \cup {Entry(g, NoModel) : g \in new \ {f}}, f, NoModel)

(* add_target, for each target of a set.                                   *)
List(d, new) == UNION {{<<e, t>> : e \in ListedIn(d, t)} : t \in new}

Here == Head(ahead)

AbortIf(clash, next) == step' = IF clash THEN "Aborted" ELSE next

(* The first pass over the build path knows every model that is written.   *)
TakeModels ==
    /\ step = "Models"
    /\ models' = UNION {Of(d, {"yaml"}) : d \in Searched}
    /\ step' = "Sources"
    /\ UNCHANGED <<tree, ahead, sources, generators, pending, found, targets>>

TakeSources ==
    /\ step = "Sources" /\ ahead # <<>>
    /\ LET new == Of(Here, {"ada", "c"}) IN
       /\ AbortIf(~AllFit(sources, new), "Dos")
       /\ sources' = sources \cup {Entry(f, NoModel) : f \in new}
    /\ UNCHANGED <<tree, ahead, models, generators, pending, found, targets>>

(* A .do file of its own makes a target, and a source if that is not known *)
(* yet; for a Python module that is not, the question itself fails.        *)
TakeDos ==
    /\ step = "Dos"
    /\ LET made == {DoTarget(f) : f \in Of(Here, {"do"})}
           new == {t \in made : Kind[t] \in Source /\ \A e \in sources : e.file # t}
       IN  /\ AbortIf(~AllFit(sources, new) \/ \E t \in new : Kind[t] = "py", "Generate")
           /\ sources' = sources \cup {Entry(t, NoModel) : t \in new}
           /\ targets' = targets \cup List(Here, made)
    /\ pending' = UNION {{<<f, o>> : o \in Generated(f)} :
                            f \in {tree[Here][i] : i \in DOMAIN tree[Here]}}
    /\ UNCHANGED <<tree, ahead, models, generators, found>>

OwnPlace(o) == (Place[o] = "src" /\ Kind[o] \in {"ada", "c"}) \/ (Place[o] = "py" /\ Kind[o] = "py")

(* The models that a round finds among what the generators make.           *)
FoundModels == {o \in DOMAIN Kind : Place[o] = "yaml" /\ Kind[o] = "yaml"}

(* One generator of one file: what it makes is listed, entered with its    *)
(* input, and added to the sources or to the models of this round.         *)
Generate ==
    /\ step = "Generate"
    /\ \E pair \in pending :
           LET input == pair[1]
               output == pair[2]
           IN  /\ AbortIf(\/ \E g \in generators : g.output = output
                          \/ OwnPlace(output) /\ ~Fits(sources, output, input), "Generate")
               /\ generators' = generators \cup {[output |-> output, input |-> input]}
               /\ targets' = targets \cup List(Here, {output})
               /\ sources' = sources \cup
                      (IF OwnPlace(output) THEN {Entry(output, input)} ELSE {})
               /\ found' = found \cup ({output} \cap FoundModels)
               /\ pending' = pending \ {pair}
    /\ UNCHANGED <<tree, ahead, models>>

(* What a round has found is the input of the next, until it finds none.   *)
Round ==
    /\ step = "Generate" /\ pending = {}
    /\ models' = models \cup found
    /\ step' = IF found = {} THEN "Rules" ELSE "Generate"
    /\ pending' = UNION {{<<f, o>> : o \in Generated(f)} : f \in found}
    /\ found' = {}
    /\ UNCHANGED <<tree, ahead, sources, generators, targets>>

(* The rules on the files of the directory, then on what its .do files     *)
(* make.  The second loop asks of the last .do file of the first whether   *)
(* it is a default one, not of its own.                                    *)
DoRuled(d) ==
    LET dos == SelectSeq(tree[d], LAMBDA f : Kind[f] \in {"do", "default"}) IN
    IF dos = <<>> \/ Kind[dos[Len(dos)]] = "default" THEN {}
    ELSE UNION {Ruled(DoTarget(dos[i])) : i \in DOMAIN dos}

ApplyRules ==
    /\ step = "Rules"
    /\ targets' = targets \cup List(Here,
           (UNION {Ruled(tree[Here][i]) : i \in DOMAIN tree[Here]}) \cup DoRuled(Here))
    /\ ahead' = Tail(ahead)
    /\ step' = IF Tail(ahead) = <<>> THEN "Docs" ELSE "Sources"
    /\ UNCHANGED <<tree, models, sources, generators, pending, found>>

(* The files written in the doc/ directory beside a directory.             *)
TakeDocs ==
    /\ step = "Docs"
    /\ targets' = targets \cup
           UNION {List(DocOf(d), UNION {Ruled(f) : f \in Docs[d]}) : d \in Searched}
    /\ step' = "Second"
    /\ UNCHANGED <<tree, ahead, models, sources, generators, pending, found>>

(* The targets of a directory are files that rules apply to in turn, once. *)
InduceTargets ==
    /\ step = "Second"
    /\ targets' = targets \cup UNION {{<<p[1], t>> : t \in Ruled(p[2])} : p \in targets}
    /\ step' = "Done"
    /\ UNCHANGED <<tree, ahead, models, sources, generators, pending, found>>

TargetsStart ==
    /\ step = "Models" /\ ahead = BuildPath
    /\ models = {} /\ sources = {} /\ generators = {}
    /\ pending = {} /\ found = {} /\ targets = {}

targetsVars == <<tree, step, ahead, models, sources, generators, pending, found, targets>>

TargetsNext ==
    \/ TakeModels \/ TakeSources \/ TakeDos \/ Generate \/ Round
    \/ ApplyRules \/ TakeDocs \/ InduceTargets

-----------------------------------------------------------------------------

(* The models that lie between a file and what is made of it: the least    *)
(* set with those made of the file and of each other.                      *)
Between(f) ==
    {m \in FoundModels : \A ms \in SUBSET FoundModels :
        (\A g \in {f} \cup ms : Generated(g) \cap FoundModels \subseteq ms) => m \in ms}

(* Everything that the generators can make of a file, however many models  *)
(* lie between.                                                            *)
Made(f) == UNION {Generated(g) : g \in {f} \cup Between(f)}

(* When the databases are filled, whatever can be made of a file that is   *)
(* written, through generators, rules or a rule on what those made, is a   *)
(* target of its directory, and the generator of each is known.            *)
EveryProductIsListed ==
    step = "Done" => \A d \in Searched : \A i \in DOMAIN tree[d] :
        LET f == tree[d][i]
            first == Made(f) \cup Ruled(f)
        IN  /\ \A o \in Made(f) : \E g \in generators : g.output = o /\ o \in Generated(g.input)
            /\ \A t \in first \cup UNION {Ruled(o) : o \in first} : <<d, t>> \in targets

(* No two files of the databases are the same part of one unit, no two     *)
(* models are behind it, and a unit has two files at the most.             *)
OneSourceEach ==
    step = "Done" => \A e \in sources :
        LET same == Namesakes(sources, e.file) IN
        /\ \A g \in same : g # e => Part[g.file] # Part[e.file]
        /\ Cardinality({g.model : g \in same} \ {NoModel}) <= 1
        /\ Cardinality(same) <= 2

(* A build that is set up knows every product of every file, and has one   *)
(* source for each part of each unit, however the generators came.         *)
DatabasesAreFilled == EveryProductIsListed /\ OneSourceEach

=============================================================================
