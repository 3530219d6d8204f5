----------------------------- MODULE BuildPath -----------------------------
(***************************************************************************)
(* The build path: the directories whose files a build knows, in order     *)
(* (redo/database/_setup.py).  What the environment says is a record; each *)
(* of its paths is None when the variable is not set, and empty when it is *)
(* set to nothing.                                                         *)
(***************************************************************************)
EXTENDS Naturals, Sequences, SequencesExt

CONSTANTS
    Walk(_),        \* the directories below a root, as os.walk comes by them
    Marks(_),       \* the targets whose .<target>_path file a directory has
    RootOf(_),      \* the root of the repository a directory is in
    Visible(_),     \* the files of a directory, and the hidden ones
    Hidden(_),
    Here,           \* the directory redo was called in
    Adamant,        \* the root of Adamant itself
    None

(* Each directory where it comes first, but none of those left out.        *)
Without(path, out) ==
    LET done[k \in 0..Len(path)] ==
            IF k = 0 THEN <<>>
            ELSE IF path[k] \in out \cup ToSet(done[k - 1]) THEN done[k - 1]
            ELSE Append(done[k - 1], path[k])
    IN  done[Len(path)]

Sanitized(path) == Without(path, {})

(* "".split(":") has one element, and its real path is where one is.       *)
Listed(path) == CASE path = None -> <<>> [] path = <<>> -> <<Here>> [] OTHER -> path

Roots(env, runDir) ==
    CASE Listed(env.buildRoots) # <<>> -> Listed(env.buildRoots)
      [] OTHER -> Sanitized(<<Adamant, RootOf(runDir)>>)

(* A build path of the user's own leaves no root but the extra ones.       *)
SearchRoots(env, runDir) ==
    Sanitized((IF Listed(env.buildPath) # <<>> THEN <<>> ELSE Roots(env, runDir))
              \o Listed(env.extraRoots))

Given(env, runDir) ==
    Sanitized(Listed(env.buildPath) \o Listed(env.extraPath) \o <<runDir>>)

BuildTarget(env, goal) == IF goal # None THEN goal ELSE env.target

PathTargets(env, goal, pathFiles) == {"all", BuildTarget(env, goal)} \cup pathFiles

Found(root, targets) ==
    Without(Walk(root), {d \in ToSet(Walk(root)) : Marks(d) \cap targets = {}})

(* Faulty: what is given comes before what is found.                       *)
PathGivenFirst(env, runDir, goal, pathFiles) ==
    Sanitized(Given(env, runDir)
        \o FlattenSeq([i \in DOMAIN SearchRoots(env, runDir) |->
               Found(SearchRoots(env, runDir)[i], PathTargets(env, goal, pathFiles))]))

(* A directory that comes twice keeps its first place, for the path is an  *)
(* ordered dictionary; what the user takes out goes at the end.            *)
Path(env, runDir, goal, pathFiles) ==
    LET roots == SearchRoots(env, runDir)
        targets == PathTargets(env, goal, pathFiles)
        all == Sanitized(FlattenSeq([i \in DOMAIN roots |-> Found(roots[i], targets)])
                         \o Given(env, runDir)
                         \o (IF env.config = None THEN <<>> ELSE <<env.config>>))
    IN  Without(all, ToSet(Listed(env.remove)))

(* The search leaves hidden files out; a directory that is given, or holds *)
(* the configuration, is read with all it has, even if it was found before.*)
FilesOf(env, runDir, d) ==
    IF Contains(Given(env, runDir), d) \/ d = env.config
    THEN Visible(d) \cup Hidden(d) ELSE Visible(d)

-----------------------------------------------------------------------------

(* A directory is in the path when it is found or given and not taken out, *)
(* once; what is found from an earlier root, so Adamant's own, comes before*)
(* what only a later root or the user brings, which "can overwrite things  *)
(* in the database last" (_setup.py).                                      *)
PathsEndWithProject(env, runDir, goal, pathFiles) ==
    LET path == Path(env, runDir, goal, pathFiles)
        roots == SearchRoots(env, runDir)
        targets == PathTargets(env, goal, pathFiles)
        From(i) == ToSet(Found(roots[i], targets))
        found == UNION {From(i) : i \in DOMAIN roots}
        kept == (found \cup ToSet(Given(env, runDir)) \cup ({env.config} \ {None}))
                    \ ToSet(Listed(env.remove))
        First(d) == CHOOSE i \in DOMAIN roots :
                        d \in From(i) /\ \A j \in 1..(i - 1) : d \notin From(j)
    IN  /\ ToSet(path) = kept /\ IsInjective(path)
        /\ \A i, j \in DOMAIN path : path[i] \in found /\ i > j =>
               path[j] \in found /\ First(path[j]) <= First(path[i])

=============================================================================
