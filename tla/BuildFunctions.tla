---------------------------- MODULE BuildFunctions ----------------------------
(***************************************************************************)
(* As GeneratorFunctions, of the functions for tables, paths and programs, *)
(* with what one of them is given in `supplied`, and of Loading, whose     *)
(* cache and answer are `stored` and `taken`.                              *)
(***************************************************************************)

CONSTANTS
    Unset,                                                                          \* nothing
    Walk(_), Marks(_), RootOf(_), VisibleIn(_), HiddenIn(_), CalledIn, Adamant,     \* BuildPath
    EndsWith(_, _),                                                                 \* ObjectSources
    AssemblyFiles, ComponentFiles, PartsOf, InstancesOf, NamedBy, Asked, Depth      \* Loading

VARIABLES supplied, stored, taken

Rows == INSTANCE Tables WITH None <- Unset
Paths == INSTANCE BuildPath WITH Here <- CalledIn, Visible <- VisibleIn, Hidden <- HiddenIn,
                                    None <- Unset
Objects == INSTANCE ObjectSources
Models == INSTANCE Loading WITH
    Assemblies <- AssemblyFiles, Components <- ComponentFiles, Parts <- PartsOf,
    Instances <- InstancesOf, Named <- NamedBy, None <- Unset, got <- taken

\* Tables that resolve hold every parameter in one place of one of them, and
\* are numbered by their names (parameter_table.py).
ParametersHaveOnePlace ==
    supplied.kind = "tables" =>
        Rows!ParametersHaveOnePlace(supplied.assembly, supplied.tables, supplied.order, supplied.header, supplied.room)

\* A router that resolves names each table once and leads to what its entry
\* names, by a connector that goes there; a watchdog has under each index the
\* entry of who calls it (parameter_table_router_table.py, task_watchdog_list.py).
RoutersLead ==
    /\ supplied.kind = "router" => Rows!RoutesLead(supplied.assembly, supplied.router, supplied.ids)
    /\ supplied.kind = "watchdog" => Rows!PetsAreTheirs(supplied.petters, supplied.callers)

\* What an earlier root brings comes before what a later one or the user does,
\* and so may "overwrite things in the database last" (_setup.py:31); nothing is
\* on the path twice, or is when it is to be removed.
PathsEndWithProject ==
    supplied.kind = "path" =>
        Paths!PathsEndWithProject(supplied.env, supplied.runDir, supplied.goal, supplied.pathFiles)

\* An object depends on all that its sources call for, and beyond that only on
\* what a body named as that of an open spec brings, alone or in a batch; a
\* program has every object that one of its units with's (build_object.py,
\* build_executable.py).
ProgramsAreWhole == supplied.kind = "project" => Objects!ProgramsAreWhole(supplied, supplied.main, supplied.batches)

\* A submodel that asks for its owner is told and finished by it, whatever
\* was put into the cache before it asked (component.py, assembly.py).
SubmodelIsReady == Models!SubmodelIsReady

===============================================================================
