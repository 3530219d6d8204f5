----------------------------- MODULE BuildProofs ----------------------------
(***************************************************************************)
(* What the processes of a build share, proved for every number of them:   *)
(* the session directory, the cache of loaded models, and the database     *)
(* that answers redo what; how the databases of a build are filled and the *)
(* build path is put together; and what is loaded and made in a build: the *)
(* models within one another, the tables made from an assembly, and the    *)
(* objects and programs made of the sources.                               *)
(*                                                                         *)
(* Sessions.  However many targets the user names and however often the    *)
(* script looks, the directory is kept for the targets that use it: by     *)
(* every script while no target has failed, and by all when targets run    *)
(* one at a time.  A script that has seen no sign for the last time is the *)
(* reason: no target uses the directory then, and none is left that could  *)
(* begin to.                                                               *)
(*                                                                         *)
(* ModelCache.  Whatever is stored, and whatever a generator was given, is *)
(* made from the files as they are.  A load of a process waits for the one *)
(* inside it, and has taken in all that its file rests on but for the      *)
(* models it still wants.                                                  *)
(*                                                                         *)
(* TargetCache.  What a database lists of a directory is what this holds,  *)
(* or it changed after it was listed.  A question that found the database  *)
(* not older than its directory finds it so, until one of the two is       *)
(* written to.                                                             *)
(*                                                                         *)
(* Targets.  Any two entries that the sources hold fit each other.  A      *)
(* round of the generators knows all that is made of the files and of the  *)
(* models found so far, but for what is pending; when nothing is, these    *)
(* models are closed under the generators, and so hold the least such set. *)
(*                                                                         *)
(* Loading.  What the cache holds of an assembly is as it was loaded whole *)
(* or as a part of another; what it holds of a submodel was told nothing,  *)
(* or told by who holds it, and then finished if this is an assembly.  No  *)
(* load changes that, however deep the loads nest and wherever one fails.  *)
(*                                                                         *)
(* BuildPath.  What is kept of a path are the places where a directory     *)
(* comes first, in their order; what the roots have is put after one       *)
(* another, so that an earlier place is of an earlier root.                *)
(*                                                                         *)
(* Tables.  What is sorted by number has one at every place.  As many      *)
(* petters as indexes, of which no two share one, have one at each, and    *)
(* the sort puts it there.                                                 *)
(*                                                                         *)
(* ObjectSources.  A search of the sources of an object has done with all  *)
(* but those it looks at next, and takes nothing that is not reached over  *)
(* bodies named as open specs.  It ends, for each round but the last finds *)
(* a spec, and has then what is reached over the bodies of open specs.     *)
(* What a batch reaches is what each of its objects does, and a program    *)
(* lacks nothing that is reached.                                          *)
(***************************************************************************)
EXTENDS Sessions, ModelCache, TargetCache, Targets, BuildFunctions, FunctionTheorems, FiniteSetTheorems,
        SequenceTheorems, WellFoundedInduction, TLAPS

-----------------------------------------------------------------------------
(* Sessions: the directory of a session.                                   *)

Steps == {"Waiting", "Watching", "Gone", "Removed"} \cup Started

SessionTyped ==
    /\ jobs \in Nat
    /\ at \in [Targets -> Steps]
    /\ directory \in BOOLEAN
    /\ running \subseteq Targets
    /\ seen \in [Targets -> 0 .. Looks]

\* A script of a target begins to count when the target has built.
NotCounted == \A t \in Targets : at[t] \notin {"Watching", "Gone"} => seen[t] = 0

\* A failed target is still one of those that run until it has ended.
OneAtATime ==
    jobs = 1 => \A t, u \in Targets : at[t] \in Started /\ at[u] \in Started => t = u

\* No exit handler has removed the directory of another target.
Orderly == jobs = 1 \/ \A t \in Targets : at[t] # "Removed"

SignsAreUp ==
    Orderly => \A t \in Targets :
        /\ at[t] \in {"Starting"} \cup InUse => directory
        /\ at[t] \in InUse => t \in running

\* The script has looked for the last time.
LooksAreLast ==
    Orderly => \A t \in Targets : at[t] = "Watching" /\ seen[t] = Looks =>
        \A u \in Targets : at[u] \notin {"Waiting", "Starting"} \cup InUse

BuiltOverWhole ==
    jobs = 1 => \A t \in Targets : at[t] = "Building" => databases = "Ready"

Kept ==
    /\ SessionTyped /\ NotCounted /\ OneAtATime
    /\ SignsAreUp /\ LooksAreLast /\ BuiltOverWhole

-----------------------------------------------------------------------------

LEMMA KeptIsEnough == Kept => SessionIsKept
  BY DEF Kept, SignsAreUp, BuiltOverWhole, Orderly, SessionIsKept, InUse

LEMMA InitKept == SessionInit => Kept
<1> SUFFICES ASSUME SessionInit PROVE Kept
  OBVIOUS
<1>1. Looks \in Nat /\ Looks # 0 /\ 0 \in 0 .. Looks
  BY SessionAssumption
<1>2. jobs \in Nat
  <2>1. Cardinality(Targets) \in Nat
    BY SessionAssumption, FS_CardinalityType
  <2> QED BY <2>1 DEF SessionInit
<1>3. \A t \in Targets : at[t] = "Waiting" /\ seen[t] = 0
  BY DEF SessionInit
<1>4. SessionTyped
  BY <1>1, <1>2 DEF SessionInit, SessionTyped, Steps
<1> QED BY <1>3, <1>4 DEF Kept, NotCounted, OneAtATime, SignsAreUp, LooksAreLast, BuiltOverWhole,
                          Started, InUse

\* A target moves on in the same directory, with what it has counted.
LEMMA StartKept ==
    ASSUME Kept, NEW t \in Targets, Start(t) PROVE Kept'
<1> USE DEF Start, Go
<1>1. jobs = 1 => \A u \in Targets : at[u] \notin Started
  <2> SUFFICES ASSUME jobs = 1 PROVE {u \in Targets : at[u] \in Started} = {}
    OBVIOUS
  <2> DEFINE busy == {u \in Targets : at[u] \in Started}
  <2>1. IsFiniteSet(busy)
    BY SessionAssumption, FS_Subset
  <2>2. Cardinality(busy) \in Nat
    BY <2>1, FS_CardinalityType
  <2>3. Cardinality(busy) < 1
    OBVIOUS
  <2>4. Cardinality(busy) = 0
    BY <2>2, <2>3
  <2> QED BY <2>1, <2>4, FS_EmptySet
<1>2. SessionTyped' /\ NotCounted'
  BY DEF Kept, SessionTyped, NotCounted, Steps, Started
<1>3. OneAtATime'
  BY <1>1 DEF Kept, SessionTyped, OneAtATime, Steps
<1>4. Orderly' => Orderly
  BY DEF Kept, SessionTyped, Orderly
<1>5. SignsAreUp'
  BY <1>4 DEF Kept, SessionTyped, SignsAreUp, InUse
<1>6. LooksAreLast'
  BY <1>4 DEF Kept, SessionTyped, LooksAreLast, InUse
<1>7. BuiltOverWhole'
  BY DEF Kept, SessionTyped, BuiltOverWhole
<1> QED BY <1>2, <1>3, <1>5, <1>6, <1>7 DEF Kept

LEMMA AnnounceKept ==
    ASSUME Kept, NEW t \in Targets, Announce(t) PROVE Kept'
<1> USE DEF Announce, Go
<1>1. SessionTyped' /\ NotCounted'
  BY DEF Kept, SessionTyped, NotCounted, Steps, Started
<1>2. OneAtATime'
  BY DEF Kept, SessionTyped, OneAtATime, Started
<1>3. Orderly' => Orderly
  BY DEF Kept, SessionTyped, Orderly
<1>4. SignsAreUp'
  BY <1>3 DEF Kept, SessionTyped, SignsAreUp, InUse
<1>5. LooksAreLast'
  BY <1>3 DEF Kept, SessionTyped, LooksAreLast, InUse
<1>6. BuiltOverWhole'
  BY DEF Kept, SessionTyped, BuiltOverWhole
<1> QED BY <1>1, <1>2, <1>4, <1>5, <1>6 DEF Kept

LEMMA CreateKept ==
    ASSUME Kept, NEW t \in Targets, Create(t) PROVE Kept'
<1> USE DEF Create, Go
<1>1. SessionTyped' /\ NotCounted'
  BY DEF Kept, SessionTyped, NotCounted, Steps, Started
<1>2. OneAtATime'
  BY DEF Kept, SessionTyped, OneAtATime, Started
<1>3. Orderly' => Orderly
  BY DEF Kept, SessionTyped, Orderly
<1>4. SignsAreUp'
  BY <1>3 DEF Kept, SessionTyped, SignsAreUp, InUse
<1>5. LooksAreLast'
  BY <1>3 DEF Kept, SessionTyped, LooksAreLast, InUse
<1>6. BuiltOverWhole'
  BY DEF Kept, SessionTyped, OneAtATime, BuiltOverWhole, Started
<1> QED BY <1>1, <1>2, <1>4, <1>5, <1>6 DEF Kept

LEMMA FillKept ==
    ASSUME Kept, NEW t \in Targets, FillDatabases(t) PROVE Kept'
<1> USE DEF FillDatabases, Go
<1>1. SessionTyped' /\ NotCounted'
  BY DEF Kept, SessionTyped, NotCounted, Steps, Started
<1>2. OneAtATime'
  BY DEF Kept, SessionTyped, OneAtATime, Started
<1>3. Orderly' => Orderly
  BY DEF Kept, SessionTyped, Orderly
<1>4. SignsAreUp'
  BY <1>3 DEF Kept, SessionTyped, SignsAreUp, InUse
<1>5. LooksAreLast'
  BY <1>3 DEF Kept, SessionTyped, LooksAreLast, InUse
<1>6. BuiltOverWhole'
  BY DEF BuiltOverWhole
<1> QED BY <1>1, <1>2, <1>4, <1>5, <1>6 DEF Kept

\* The sign that goes is that of the target that uses the directory no more.
LEMMA FinishKept ==
    ASSUME Kept, NEW t \in Targets, Finish(t) PROVE Kept'
<1> USE DEF Finish, Go
<1>1. Looks # 0 /\ seen[t] = 0
  BY SessionAssumption DEF Kept, NotCounted
<1>2. SessionTyped'
  BY DEF Kept, SessionTyped, Steps, Started
<1>3. NotCounted'
  BY DEF Kept, SessionTyped, NotCounted
<1>4. OneAtATime'
  BY DEF Kept, SessionTyped, OneAtATime, Started
<1>5. Orderly' => Orderly
  BY DEF Kept, SessionTyped, Orderly
<1>6. SignsAreUp'
  BY <1>5 DEF Kept, SessionTyped, SignsAreUp, InUse
<1>7. LooksAreLast'
  BY <1>1, <1>5 DEF Kept, SessionTyped, LooksAreLast, InUse
<1>8. BuiltOverWhole'
  BY DEF Kept, SessionTyped, BuiltOverWhole
<1> QED BY <1>2, <1>3, <1>4, <1>6, <1>7, <1>8 DEF Kept

LEMMA TargetFailsKept ==
    ASSUME Kept, NEW t \in Targets, TargetFails(t) PROVE Kept'
<1> USE DEF TargetFails, Go
<1>1. SessionTyped' /\ NotCounted'
  BY DEF Kept, SessionTyped, NotCounted, Steps, Started
<1>2. OneAtATime'
  BY DEF Kept, SessionTyped, OneAtATime, Started
<1>3. Orderly' => Orderly
  BY DEF Kept, SessionTyped, Orderly
<1>4. SignsAreUp'
  BY <1>3 DEF Kept, SessionTyped, SignsAreUp, InUse
<1>5. LooksAreLast'
  BY <1>3 DEF Kept, SessionTyped, LooksAreLast, InUse
<1>6. BuiltOverWhole'
  BY DEF Kept, SessionTyped, BuiltOverWhole
<1> QED BY <1>1, <1>2, <1>4, <1>5, <1>6 DEF Kept

\* Only a target that runs alone may remove the directory at its end.
LEMMA CleanUpKept ==
    ASSUME Kept, NEW t \in Targets, CleanUp(t) PROVE Kept'
<1> USE DEF CleanUp, RemoveDirectory, Go
<1>1. SessionTyped' /\ NotCounted'
  BY DEF Kept, SessionTyped, NotCounted, Steps, Started
<1>2. OneAtATime'
  BY DEF Kept, SessionTyped, OneAtATime, Started
<1>3. Orderly' => jobs = 1
  BY DEF Kept, SessionTyped, Orderly
<1>4. jobs = 1 => \A u \in Targets : at'[u] \notin Started
  BY DEF Kept, SessionTyped, OneAtATime, Started
<1>5. SignsAreUp' /\ BuiltOverWhole'
  BY <1>3, <1>4 DEF SignsAreUp, BuiltOverWhole, Started, InUse
<1>6. LooksAreLast'
  BY <1>3 DEF Kept, SessionTyped, LooksAreLast, Orderly, InUse
<1> QED BY <1>1, <1>2, <1>5, <1>6 DEF Kept

\* At the last look no sign is up, so no target uses the directory, and all
\* that were to come have come.
LEMMA LookKept ==
    ASSUME Kept, NEW t \in Targets, Look(t) PROVE Kept'
<1> USE DEF Look, Go
<1>1. SessionTyped' /\ NotCounted'
  BY SessionAssumption DEF Kept, SessionTyped, NotCounted, Steps
<1>2. OneAtATime'
  BY DEF Kept, SessionTyped, OneAtATime, Started
<1>3. Orderly' => Orderly
  BY DEF Kept, SessionTyped, Orderly
<1>4. SignsAreUp'
  BY <1>3 DEF Kept, SessionTyped, SignsAreUp, InUse
<1>5. LooksAreLast'
  <2>1. CASE ~directory \/ StillUsed
    BY <1>3, <2>1 DEF Kept, SessionTyped, LooksAreLast, InUse
  <2>2. CASE ~(~directory \/ StillUsed)
    <3>1. Orderly => \A u \in Targets : at[u] \notin InUse
      BY <2>2 DEF Kept, SignsAreUp, StillUsed
    <3>2. \A u \in Targets : at'[u] = at[u] /\ (u # t => seen'[u] = seen[u])
      BY <2>2 DEF Kept, SessionTyped
    <3>3. seen'[t] = Looks => \A u \in Targets : at[u] \notin {"Waiting", "Starting"}
      BY <2>2 DEF Kept, SessionTyped, GapIsOver
    <3> QED BY <1>3, <3>1, <3>2, <3>3 DEF Kept, LooksAreLast
  <2> QED BY <2>1, <2>2
<1>6. BuiltOverWhole'
  BY DEF Kept, SessionTyped, BuiltOverWhole
<1> QED BY <1>1, <1>2, <1>4, <1>5, <1>6 DEF Kept

LEMMA DelayedCleanupKept ==
    ASSUME Kept, NEW t \in Targets, DelayedCleanup(t) PROVE Kept'
<1> USE DEF DelayedCleanup, RemoveDirectory, Go
<1>1. SessionTyped' /\ NotCounted'
  BY DEF Kept, SessionTyped, NotCounted, Steps
<1>2. OneAtATime'
  BY DEF Kept, SessionTyped, OneAtATime, Started
<1>3. Orderly' => Orderly
  BY DEF Kept, SessionTyped, Orderly
<1>4. Orderly => \A u \in Targets : at[u] \notin {"Waiting", "Starting"} \cup InUse
  BY DEF Kept, LooksAreLast
<1>5. SignsAreUp'
  BY <1>3, <1>4 DEF Kept, SessionTyped, SignsAreUp, InUse
<1>6. LooksAreLast'
  BY <1>3 DEF Kept, SessionTyped, LooksAreLast, InUse
<1>7. BuiltOverWhole'
  BY <1>4 DEF Kept, SessionTyped, BuiltOverWhole, Orderly, InUse
<1> QED BY <1>1, <1>2, <1>5, <1>6, <1>7 DEF Kept

LEMMA StepKept == Kept /\ [SessionNext]_sessionVars => Kept'
<1> SUFFICES ASSUME Kept, [SessionNext]_sessionVars PROVE Kept'
  OBVIOUS
<1>1. ASSUME NEW t \in Targets, Step(t) \/ TargetFails(t) PROVE Kept'
  BY <1>1, StartKept, AnnounceKept, CreateKept, FillKept, FinishKept, TargetFailsKept, CleanUpKept,
     LookKept, DelayedCleanupKept DEF Step, Raise
<1>2. CASE UNCHANGED sessionVars
  BY <1>2 DEF sessionVars, Kept, SessionTyped, NotCounted, OneAtATime, SignsAreUp, LooksAreLast,
              BuiltOverWhole, Orderly
<1> QED BY <1>1, <1>2 DEF SessionNext

\* No script takes the directory from a target that has its sign in it, while
\* no target has failed, and targets that run one at a time build over whole
\* databases (_setup.py, delayed_cleanup.sh), for any number of targets.
THEOREM SessionAlwaysKept == SessionSpec => []SessionIsKept
<1> QED BY InitKept, StepKept, KeptIsEnough, PTL DEF SessionSpec

-----------------------------------------------------------------------------
(* ModelCache: the models that generators share.                           *)

\* The model of a file made from the files as they are.
Whole(f) == [d \in Closure(f) |-> disk[d]]

\* Models made from some of the files as they are.
Restrictions == {[d \in fs |-> disk[d]] : fs \in SUBSET ModelFiles}

\* The loads of a process.
Places == {"Lookup", "MarkAndServe", "MarkAndRead", "Read", "Load"}

LoadRecords == [file : ModelFiles, at : Places, model : Restrictions, wanted : Seq(ModelFiles)]

\* A load that reads its file has taken in all it rests on that it does not
\* still want.
LoadRight(load) ==
    /\ load.at = "MarkAndServe" => load.model = Whole(load.file)
    /\ load.at = "Load" => load.file \in DOMAIN load.model
    /\ load.at = "Load" => DOMAIN load.model \subseteq Closure(load.file)
    /\ \A j \in DOMAIN load.wanted : load.wanted[j] \in Closure(load.file)
    /\ \A i \in DOMAIN DependsOn[load.file] :
           \/ \E j \in DOMAIN load.wanted : load.wanted[j] = DependsOn[load.file][i]
           \/ load.at = "Load" /\ Closure(DependsOn[load.file][i]) \subseteq DOMAIN load.model

\* The load around another one waits for it.
WaitsFor(outer, inner) ==
    outer.at = "Load" /\ outer.wanted # <<>> /\ Head(outer.wanted) = inner.file

\* What is true of the loads of one process.
StackRight(stack) ==
    /\ \A i \in DOMAIN stack : LoadRight(stack[i])
    /\ \A i \in 2 .. Len(stack) : WaitsFor(stack[i], stack[i - 1])

\* What a process was given is whole.
GotRight(handed) == handed # Absent => handed.file \in ModelFiles /\ handed.model = Whole(handed.file)

\* The inductive invariant.
CacheKept ==
    /\ cached = [f \in ModelFiles |-> cached[f]]
    /\ \A f \in ModelFiles : cached[f] # Absent => cached[f] = Whole(f)
    /\ loads \in [Processes -> Seq(LoadRecords)]
    /\ \A p \in Processes : StackRight(loads[p])
    /\ got = [p \in Processes |-> got[p]]
    /\ \A p \in Processes : GotRight(got[p])

-----------------------------------------------------------------------------

\* What a file rests on is closed, and the least such set.
LEMMA ClosureIs ==
    ASSUME CacheAssumption, NEW f \in ModelFiles
    PROVE  f \in Closure(f) /\ Closure(f) \subseteq ModelFiles /\ Closed(Closure(f))
<1>1. f \in Closure(f) /\ Closure(f) \subseteq ModelFiles
  BY DEF Closure
<1>2. ASSUME NEW d \in Closure(f), NEW i \in DOMAIN DependsOn[d] PROVE DependsOn[d][i] \in Closure(f)
  <2>1. d \in ModelFiles /\ DependsOn[d][i] \in ModelFiles
    BY <1>1, <1>2 DEF CacheAssumption
  <2>2. ASSUME NEW fs \in SUBSET ModelFiles, f \in fs, Closed(fs) PROVE DependsOn[d][i] \in fs
    <3>1. d \in fs
      BY <1>2, <2>2 DEF Closure
    <3> QED BY <1>2, <2>2, <3>1 DEF Closed
  <2> QED BY <2>1, <2>2 DEF Closure
<1> QED BY <1>1, <1>2 DEF Closed

\* No closed set with the file is smaller.
LEMMA ClosureLeast ==
    ASSUME NEW f \in ModelFiles, NEW fs \in SUBSET ModelFiles, f \in fs, Closed(fs)
    PROVE  Closure(f) \subseteq fs
  BY DEF Closure

\* To rest on is transitive.
LEMMA ClosureWithin ==
    ASSUME CacheAssumption, NEW f \in ModelFiles, NEW d \in Closure(f)
    PROVE  Closure(d) \subseteq Closure(f)
  BY ClosureIs, ClosureLeast

\* A file rests on the models it names.
LEMMA ClosureNames ==
    ASSUME CacheAssumption, NEW f \in ModelFiles, NEW i \in DOMAIN DependsOn[f]
    PROVE  DependsOn[f][i] \in Closure(f)
  BY ClosureIs DEF Closed

\* What holds a file and what each model it names rests on, holds it all.
LEMMA ClosureWhole ==
    ASSUME CacheAssumption, NEW f \in ModelFiles, NEW fs, f \in fs, fs \subseteq Closure(f),
           \A i \in DOMAIN DependsOn[f] : Closure(DependsOn[f][i]) \subseteq fs
    PROVE  fs = Closure(f)
<1> DEFINE all == {f} \cup UNION {Closure(DependsOn[f][i]) : i \in DOMAIN DependsOn[f]}
<1>1. \A i \in DOMAIN DependsOn[f] : DependsOn[f][i] \in ModelFiles
  BY DEF CacheAssumption
<1>2. all \in SUBSET ModelFiles /\ f \in all
  BY <1>1, ClosureIs
<1>3. Closed(all)
  <2> SUFFICES ASSUME NEW d \in all, NEW j \in DOMAIN DependsOn[d] PROVE DependsOn[d][j] \in all
    BY DEF Closed
  <2>1. CASE d = f
    BY <1>1, <2>1, ClosureIs
  <2>2. CASE d # f
    <3>1. PICK i \in DOMAIN DependsOn[f] : d \in Closure(DependsOn[f][i])
      BY <2>2
    <3>2. DependsOn[d][j] \in Closure(DependsOn[f][i])
      BY <1>1, <3>1, ClosureIs DEF Closed
    <3> QED BY <3>2
  <2> QED BY <2>1, <2>2
<1>4. Closure(f) \subseteq all
  BY <1>2, <1>3, ClosureLeast
<1> QED BY <1>4

-----------------------------------------------------------------------------

\* A step of one process, while the files stay as they are.
LEMMA OneGenerator ==
    ASSUME CacheKept, UNCHANGED disk, NEW p \in Processes,
           cached' = [f \in ModelFiles |-> cached'[f]],
           \A f \in ModelFiles : cached'[f] # Absent => cached'[f] = Whole(f),
           NEW stack \in Seq(LoadRecords), StackRight(stack), loads' = [loads EXCEPT ![p] = stack],
           NEW handed, GotRight(handed), got' = [got EXCEPT ![p] = handed]
    PROVE  CacheKept'
<1>1. Restrictions' = Restrictions /\ LoadRecords' = LoadRecords
  BY DEF Restrictions, LoadRecords
<1>2. \A f : Whole(f)' = Whole(f)
  BY DEF Whole
<1>3. \A q \in Processes : loads'[q] = (IF q = p THEN stack ELSE loads[q])
  BY DEF CacheKept
<1>4. \A q \in Processes : got'[q] = (IF q = p THEN handed ELSE got[q])
  BY DEF CacheKept
<1>5. loads' \in [Processes -> Seq(LoadRecords')]
  BY <1>1 DEF CacheKept
<1>6. ASSUME NEW q \in Processes PROVE StackRight(loads[q])'
  <2>1. StackRight(loads'[q])
    BY <1>3 DEF CacheKept
  <2> QED BY <1>2, <2>1 DEF StackRight, LoadRight, WaitsFor
<1>7. ASSUME NEW q \in Processes PROVE GotRight(got[q])'
  <2>1. GotRight(got'[q])
    BY <1>4 DEF CacheKept
  <2> QED BY <1>2, <2>1 DEF GotRight
<1>8. got' = [q \in Processes |-> got'[q]]
  BY DEF CacheKept
<1> QED BY <1>2, <1>5, <1>6, <1>7, <1>8 DEF CacheKept

LEMMA Under ==
    ASSUME NEW stack \in Seq(LoadRecords), stack # <<>>, StackRight(stack)
    PROVE  /\ Head(stack) \in LoadRecords /\ LoadRight(Head(stack))
           /\ Tail(stack) \in Seq(LoadRecords) /\ StackRight(Tail(stack))
           /\ Tail(stack) # <<>> => WaitsFor(Head(Tail(stack)), Head(stack))
<1>1. Head(stack) \in LoadRecords /\ Head(stack) = stack[1] /\ 1 \in DOMAIN stack
  OBVIOUS
<1>2. /\ Tail(stack) \in Seq(LoadRecords) /\ Len(Tail(stack)) = Len(stack) - 1
      /\ \A i \in DOMAIN Tail(stack) :
             i + 1 \in DOMAIN stack /\ Tail(stack)[i] = stack[i + 1]
  OBVIOUS
<1>3. LoadRight(Head(stack))
  BY <1>1 DEF StackRight
<1>4. \A i \in DOMAIN Tail(stack) : LoadRight(Tail(stack)[i])
  BY <1>2 DEF StackRight
<1>5. ASSUME NEW i \in 2 .. Len(Tail(stack)) PROVE WaitsFor(Tail(stack)[i], Tail(stack)[i - 1])
  <2>1. /\ i + 1 \in 2 .. Len(stack)
        /\ Tail(stack)[i] = stack[i + 1] /\ Tail(stack)[i - 1] = stack[(i + 1) - 1]
    BY <1>2
  <2>2. WaitsFor(stack[i + 1], stack[(i + 1) - 1])
    BY <2>1 DEF StackRight
  <2> QED BY <2>1, <2>2
<1>6. ASSUME Tail(stack) # <<>> PROVE WaitsFor(Head(Tail(stack)), Head(stack))
  <2>1. /\ 2 \in 2 .. Len(stack) /\ Head(Tail(stack)) = stack[2] /\ Head(stack) = stack[2 - 1]
    BY <1>1, <1>2, <1>6
  <2>2. WaitsFor(stack[2], stack[2 - 1])
    BY <2>1 DEF StackRight
  <2> QED BY <2>1, <2>2
<1> QED BY <1>1, <1>2, <1>3, <1>4, <1>5, <1>6 DEF StackRight

LEMMA Over ==
    ASSUME NEW load \in LoadRecords, LoadRight(load),
           NEW rest \in Seq(LoadRecords), StackRight(rest),
           rest # <<>> => WaitsFor(Head(rest), load)
    PROVE  <<load>> \o rest \in Seq(LoadRecords) /\ StackRight(<<load>> \o rest)
<1> DEFINE whole == <<load>> \o rest
<1>1. <<load>> \in Seq(LoadRecords)
  OBVIOUS
<1>2. whole \in Seq(LoadRecords) /\ Len(whole) = 1 + Len(rest) /\ whole[1] = load
  BY <1>1
<1>3. \A i \in 2 .. Len(whole) : i - 1 \in DOMAIN rest /\ whole[i] = rest[i - 1]
  BY <1>1, <1>2
<1>4. ASSUME NEW i \in DOMAIN whole PROVE LoadRight(whole[i])
  <2>1. CASE i = 1
    BY <1>2, <2>1
  <2>2. CASE i # 1
    <3>1. i \in 2 .. Len(whole)
      BY <1>2, <2>2
    <3> QED BY <1>3, <3>1 DEF StackRight
  <2> QED BY <2>1, <2>2
<1>5. ASSUME NEW i \in 2 .. Len(whole) PROVE WaitsFor(whole[i], whole[i - 1])
  <2>1. CASE i = 2
    <3>1. whole[i] = Head(rest) /\ whole[i - 1] = load /\ rest # <<>>
      BY <1>2, <1>3, <2>1
    <3> QED BY <3>1
  <2>2. CASE i # 2
    <3>1. i - 1 \in 2 .. Len(rest) /\ whole[i] = rest[i - 1] /\ whole[i - 1] = rest[(i - 1) - 1]
      BY <1>2, <1>3, <2>2
    <3>2. WaitsFor(rest[i - 1], rest[(i - 1) - 1])
      BY <3>1 DEF StackRight
    <3> QED BY <3>1, <3>2
  <2> QED BY <2>1, <2>2
<1> HIDE DEF whole
<1>6. StackRight(whole)
  BY <1>4, <1>5 DEF StackRight
<1> QED BY <1>2, <1>6 DEF whole

\* A load begins with all it rests on wanted.
LEMMA LoadOfIs ==
    ASSUME CacheAssumption, NEW f \in ModelFiles
    PROVE  LoadOf(f) \in LoadRecords /\ LoadRight(LoadOf(f)) /\ LoadOf(f).file = f
<1>1. DependsOn[f] \in Seq(ModelFiles)
  BY DEF CacheAssumption
<1>2. <<>> \in Restrictions
  <2>1. {} \in SUBSET ModelFiles
    OBVIOUS
  <2>2. <<>> = [d \in {} |-> disk[d]]
    OBVIOUS
  <2> QED BY <2>1, <2>2 DEF Restrictions
<1>3. LoadOf(f) \in LoadRecords
  BY <1>1, <1>2 DEF LoadOf, LoadRecords, Places
<1>4. LoadRight(LoadOf(f))
  BY <1>1, ClosureNames DEF LoadOf, LoadRight
<1> QED BY <1>3, <1>4 DEF LoadOf

\* What is known of the process whose innermost load goes on.
LEMMA TopIs ==
    ASSUME CacheKept, NEW p \in Processes, loads[p] # <<>>
    PROVE  /\ Top(p) \in LoadRecords /\ LoadRight(Top(p))
           /\ Tail(loads[p]) \in Seq(LoadRecords) /\ StackRight(Tail(loads[p]))
           /\ Tail(loads[p]) # <<>> => WaitsFor(Head(Tail(loads[p])), Top(p))
<1>1. loads[p] \in Seq(LoadRecords) /\ StackRight(loads[p])
  BY DEF CacheKept
<1> QED BY <1>1, Under DEF Top

\* The load that is given the model it waited for.
LEMMA TakesIn ==
    ASSUME CacheAssumption, NEW load \in LoadRecords, LoadRight(load), load.at = "Load",
           load.wanted # <<>>, NEW model, model = Whole(Head(load.wanted))
    PROVE  LET more == [load EXCEPT !.wanted = Tail(@),
                          !.model = [d \in DOMAIN @ \cup DOMAIN model |->
                              IF d \in DOMAIN model THEN model[d] ELSE @[d]]]
           IN  more \in LoadRecords /\ LoadRight(more) /\ more.file = load.file
<1> DEFINE d == Head(load.wanted)
           both == [e \in DOMAIN load.model \cup DOMAIN model |->
                       IF e \in DOMAIN model THEN model[e] ELSE load.model[e]]
           more == [load EXCEPT !.wanted = Tail(@), !.model = both]
<1>1. /\ load.file \in ModelFiles /\ load.wanted \in Seq(ModelFiles) /\ d \in ModelFiles
      /\ Tail(load.wanted) \in Seq(ModelFiles)
      /\ d = load.wanted[1] /\ 1 \in DOMAIN load.wanted
  BY DEF LoadRecords
<1>2. d \in Closure(load.file)
  BY <1>1 DEF LoadRight
<1>3. DOMAIN model = Closure(d) /\ Closure(d) \subseteq Closure(load.file)
  BY <1>1, <1>2, ClosureWithin DEF Whole
<1>4. PICK fs \in SUBSET ModelFiles : load.model = [e \in fs |-> disk[e]]
  BY DEF LoadRecords, Restrictions
<1>5. both = [e \in fs \cup Closure(d) |-> disk[e]]
  BY <1>3, <1>4 DEF Whole
<1>6. both \in Restrictions /\ DOMAIN both = DOMAIN load.model \cup Closure(d)
  <2>1. fs \cup Closure(d) \in SUBSET ModelFiles
    BY <1>1, ClosureIs
  <2> QED BY <1>4, <1>5, <2>1 DEF Restrictions
<1> HIDE DEF both
<1>7. /\ more \in LoadRecords /\ more.file = load.file /\ more.at = "Load"
      /\ more.wanted = Tail(load.wanted) /\ more.model = both
  BY <1>1, <1>6 DEF LoadRecords
<1>8. \A j \in DOMAIN Tail(load.wanted) :
          j + 1 \in DOMAIN load.wanted /\ Tail(load.wanted)[j] = load.wanted[j + 1]
  BY <1>1
<1>9. ASSUME NEW j \in DOMAIN load.wanted, j # 1
      PROVE  j - 1 \in DOMAIN Tail(load.wanted) /\ Tail(load.wanted)[j - 1] = load.wanted[j]
  BY <1>1, <1>9
<1> HIDE DEF more
<1>10. LoadRight(more)
  <2>1. more.file \in DOMAIN more.model /\ DOMAIN more.model \subseteq Closure(more.file)
    BY <1>3, <1>6, <1>7 DEF LoadRight
  <2>2. \A j \in DOMAIN more.wanted : more.wanted[j] \in Closure(more.file)
    BY <1>7, <1>8 DEF LoadRight
  <2>3. ASSUME NEW i \in DOMAIN DependsOn[more.file]
        PROVE  \/ \E j \in DOMAIN more.wanted : more.wanted[j] = DependsOn[more.file][i]
               \/ Closure(DependsOn[more.file][i]) \subseteq DOMAIN more.model
    <3>1. CASE \E j \in DOMAIN load.wanted : load.wanted[j] = DependsOn[load.file][i]
      <4>1. PICK j \in DOMAIN load.wanted : load.wanted[j] = DependsOn[load.file][i]
        BY <3>1
      <4>2. CASE j = 1
        BY <1>1, <1>6, <1>7, <4>1, <4>2
      <4>3. CASE j # 1
        BY <1>7, <1>9, <4>1, <4>3
      <4> QED BY <4>2, <4>3
    <3>2. CASE Closure(DependsOn[load.file][i]) \subseteq DOMAIN load.model
      BY <1>6, <1>7, <3>2
    <3> QED BY <1>7, <2>3, <3>1, <3>2 DEF LoadRight
  <2> QED BY <1>7, <2>1, <2>2, <2>3 DEF LoadRight
<1> QED BY <1>7, <1>10 DEF more, both

-----------------------------------------------------------------------------

\* The cache is as the files are.
CachedRight(store) ==
    /\ store = [f \in ModelFiles |-> store[f]]
    /\ \A f \in ModelFiles : store[f] # Absent => store[f] = Whole(f)

\* The innermost load gives what its file and those it rests on are.
LEMMA GiveKept ==
    ASSUME CacheAssumption, CacheKept, UNCHANGED disk, NEW p \in Processes, loads[p] # <<>>,
           NEW model, model = Whole(Top(p).file), Give(p, model), CachedRight(cached')
    PROVE  CacheKept'
<1> DEFINE outer == Tail(loads[p])
<1>1. /\ Top(p) \in LoadRecords /\ outer \in Seq(LoadRecords) /\ StackRight(outer)
      /\ outer # <<>> => WaitsFor(Head(outer), Top(p))
  BY TopIs
<1>2. CASE outer = <<>>
  <2> DEFINE handed == [file |-> Top(p).file, model |-> model]
  <2>1. loads' = [loads EXCEPT ![p] = <<>>] /\ got' = [got EXCEPT ![p] = handed]
    BY <1>2 DEF Give
  <2>2. GotRight(handed)
    BY <1>1 DEF GotRight, LoadRecords
  <2>3. <<>> \in Seq(LoadRecords) /\ StackRight(<<>>)
    BY DEF StackRight
  <2> HIDE DEF handed
  <2> QED BY <2>1, <2>2, <2>3, OneGenerator DEF CachedRight
<1>3. CASE outer # <<>>
  <2> DEFINE load == Head(outer)
             more == [load EXCEPT !.wanted = Tail(@),
                        !.model = [d \in DOMAIN @ \cup DOMAIN model |->
                            IF d \in DOMAIN model THEN model[d] ELSE @[d]]]
             rest == Tail(outer)
  <2>1. loads' = [loads EXCEPT ![p] = <<more>> \o rest] /\ UNCHANGED got
    BY <1>3 DEF Give
  <2>2. /\ load \in LoadRecords /\ LoadRight(load)
        /\ rest \in Seq(LoadRecords) /\ StackRight(rest)
        /\ rest # <<>> => WaitsFor(Head(rest), load)
    BY <1>1, <1>3, Under
  <2>3. load.at = "Load" /\ load.wanted # <<>> /\ model = Whole(Head(load.wanted))
    BY <1>1, <1>3 DEF WaitsFor
  <2> HIDE DEF load
  <2>4. more \in LoadRecords /\ LoadRight(more) /\ more.file = load.file
    BY <2>2, <2>3, TakesIn
  <2> HIDE DEF more, rest
  <2>5. rest # <<>> => WaitsFor(Head(rest), more)
    BY <2>2, <2>4 DEF WaitsFor
  <2> DEFINE stack == <<more>> \o rest
  <2>6. stack \in Seq(LoadRecords) /\ StackRight(stack)
    BY <2>2, <2>4, <2>5, Over
  <2>7. loads' = [loads EXCEPT ![p] = stack]
    BY <2>1
  <2> HIDE DEF stack
  <2>8. got' = [got EXCEPT ![p] = got[p]] /\ GotRight(got[p])
    BY <2>1 DEF CacheKept
  <2> QED BY <2>6, <2>7, <2>8, OneGenerator DEF CachedRight
<1> QED BY <1>2, <1>3

\* The innermost load goes on as another of the same file.
LEMMA GoOnKept ==
    ASSUME CacheAssumption, CacheKept, UNCHANGED <<disk, got, cached>>, NEW p \in Processes,
           loads[p] # <<>>, NEW load \in LoadRecords, LoadRight(load), load.file = Top(p).file,
           GoOn(p, load)
    PROVE  CacheKept'
<1> DEFINE rest == Tail(loads[p])
           stack == <<load>> \o rest
<1>1. /\ rest \in Seq(LoadRecords) /\ StackRight(rest)
      /\ rest # <<>> => WaitsFor(Head(rest), Top(p))
  BY TopIs
<1>2. loads' = [loads EXCEPT ![p] = stack]
  BY DEF GoOn
<1> HIDE DEF rest
<1>3. rest # <<>> => WaitsFor(Head(rest), load)
  BY <1>1 DEF WaitsFor
<1>4. stack \in Seq(LoadRecords) /\ StackRight(stack)
  BY <1>1, <1>3, Over
<1> HIDE DEF stack
<1>5. got' = [got EXCEPT ![p] = got[p]] /\ GotRight(got[p])
  BY DEF CacheKept
<1> QED BY <1>2, <1>4, <1>5, OneGenerator DEF CacheKept

\* A process asks for a model.
LEMMA AskKept ==
    ASSUME CacheAssumption, CacheKept, NEW p \in Processes, NEW f \in ModelFiles, Ask(p, f)
    PROVE  CacheKept'
<1> DEFINE stack == <<LoadOf(f)>>
<1>1. stack \in Seq(LoadRecords) /\ StackRight(stack)
  BY LoadOfIs DEF StackRight
<1>2. /\ loads' = [loads EXCEPT ![p] = stack] /\ got' = [got EXCEPT ![p] = Absent]
      /\ UNCHANGED <<disk, cached>>
  BY DEF Ask
<1>3. GotRight(Absent)
  BY DEF GotRight
<1> HIDE DEF stack
<1> QED BY <1>1, <1>2, <1>3, OneGenerator DEF CacheKept

\* The stored model is whole, so it may be served at once or once it is marked.
LEMMA LookUpKept ==
    ASSUME CacheAssumption, CacheKept, NEW p \in Processes, LookUp(p) PROVE CacheKept'
<1> DEFINE f == Top(p).file
<1>1. loads[p] # <<>> /\ Top(p).at = "Lookup" /\ UNCHANGED <<disk, cached>>
  BY DEF LookUp
<1>2. Top(p) \in LoadRecords /\ LoadRight(Top(p)) /\ f \in ModelFiles
  BY <1>1, TopIs DEF LoadRecords
<1>3. CASE Lookup(f) = "Serve"
  <2>1. Give(p, cached[f])
    BY <1>3 DEF LookUp
  <2>2. cached[f] = Whole(f)
    BY <1>2, <1>3 DEF Lookup, CacheKept
  <2>3. CachedRight(cached')
    BY <1>1 DEF CacheKept, CachedRight
  <2> QED BY <1>1, <2>1, <2>2, <2>3, GiveKept
<1>4. CASE Lookup(f) = "MarkAndServe"
  <2> DEFINE load == [Top(p) EXCEPT !.at = "MarkAndServe", !.model = cached[f]]
  <2>1. GoOn(p, load) /\ UNCHANGED got
    BY <1>4 DEF LookUp
  <2>2. cached[f] = Whole(f)
    BY <1>2, <1>4 DEF Lookup, UpToDate, CacheKept
  <2>3. Whole(f) \in Restrictions
    BY <1>2, ClosureIs DEF Whole, Restrictions
  <2>4. /\ load \in LoadRecords /\ load.file = f /\ load.at = "MarkAndServe"
        /\ load.model = Whole(f) /\ load.wanted = Top(p).wanted
    BY <1>2, <2>2, <2>3 DEF LoadRecords, Places
  <2>5. LoadRight(load)
    BY <1>1, <1>2, <2>4 DEF LoadRight
  <2> HIDE DEF load
  <2> QED BY <1>1, <2>1, <2>4, <2>5, GoOnKept
<1>5. CASE Lookup(f) \notin {"Serve", "MarkAndServe"}
  <2> DEFINE load == [Top(p) EXCEPT !.at = Lookup(f)]
  <2>1. GoOn(p, load) /\ UNCHANGED got
    BY <1>5 DEF LookUp
  <2>2. Lookup(f) \in {"Read", "MarkAndRead"}
    BY <1>5 DEF Lookup
  <2>3. /\ load \in LoadRecords /\ load.file = f /\ load.at = Lookup(f)
        /\ load.wanted = Top(p).wanted
    BY <1>2, <2>2 DEF LoadRecords, Places
  <2>4. LoadRight(load)
    BY <1>1, <1>2, <2>2, <2>3 DEF LoadRight
  <2> HIDE DEF load
  <2> QED BY <1>1, <2>1, <2>3, <2>4, GoOnKept
<1> QED BY <1>3, <1>4, <1>5

\* To mark a model as checked changes nothing that is stored.
LEMMA MarkKept ==
    ASSUME CacheAssumption, CacheKept, NEW p \in Processes, Mark(p) PROVE CacheKept'
<1>1. /\ loads[p] # <<>> /\ Top(p).at \in {"MarkAndServe", "MarkAndRead"}
      /\ UNCHANGED <<disk, cached>>
  BY DEF Mark
<1>2. Top(p) \in LoadRecords /\ LoadRight(Top(p))
  BY <1>1, TopIs
<1>3. CASE Top(p).at = "MarkAndServe"
  <2>1. Give(p, Top(p).model) /\ Top(p).model = Whole(Top(p).file)
    BY <1>2, <1>3 DEF Mark, LoadRight
  <2>2. CachedRight(cached')
    BY <1>1 DEF CacheKept, CachedRight
  <2> QED BY <1>1, <2>1, <2>2, GiveKept
<1>4. CASE Top(p).at = "MarkAndRead"
  <2> DEFINE load == [Top(p) EXCEPT !.at = "Read"]
  <2>1. GoOn(p, load) /\ UNCHANGED got
    BY <1>4 DEF Mark
  <2>2. /\ load \in LoadRecords /\ load.file = Top(p).file /\ load.at = "Read"
        /\ load.wanted = Top(p).wanted
    BY <1>2 DEF LoadRecords, Places
  <2>3. LoadRight(load)
    BY <1>2, <1>4, <2>2 DEF LoadRight
  <2> HIDE DEF load
  <2> QED BY <1>1, <2>1, <2>2, <2>3, GoOnKept
<1> QED BY <1>1, <1>3, <1>4

\* The file is read: the model is made of it alone.
LEMMA ReadStepKept ==
    ASSUME CacheAssumption, CacheKept, NEW p \in Processes, Read(p) PROVE CacheKept'
<1> DEFINE f == Top(p).file
           load == [Top(p) EXCEPT !.at = "Load", !.model = [d \in {f} |-> disk[d]]]
<1>1. loads[p] # <<>> /\ Top(p).at = "Read" /\ UNCHANGED <<disk, cached, got>> /\ GoOn(p, load)
  BY DEF Read
<1>2. Top(p) \in LoadRecords /\ LoadRight(Top(p)) /\ f \in ModelFiles
  BY <1>1, TopIs DEF LoadRecords
<1>3. [d \in {f} |-> disk[d]] \in Restrictions
  BY <1>2 DEF Restrictions
<1>4. /\ load \in LoadRecords /\ load.file = f /\ load.at = "Load"
      /\ DOMAIN load.model = {f} /\ load.wanted = Top(p).wanted
  BY <1>2, <1>3 DEF LoadRecords, Places
<1>5. LoadRight(load)
  BY <1>1, <1>2, <1>4, ClosureIs DEF LoadRight
<1> HIDE DEF load
<1> QED BY <1>1, <1>4, <1>5, GoOnKept

\* The load of a model that the file names begins.
LEMMA LoadNextKept ==
    ASSUME CacheAssumption, CacheKept, NEW p \in Processes, LoadNext(p) PROVE CacheKept'
<1> DEFINE next == LoadOf(Head(Top(p).wanted))
           stack == <<next>> \o loads[p]
<1>1. /\ loads[p] # <<>> /\ Top(p).at = "Load" /\ Top(p).wanted # <<>>
      /\ loads' = [loads EXCEPT ![p] = stack] /\ UNCHANGED <<disk, cached, got>>
  BY DEF LoadNext
<1>2. /\ loads[p] \in Seq(LoadRecords) /\ StackRight(loads[p])
      /\ Head(Top(p).wanted) \in ModelFiles
  <2>1. Top(p).wanted \in Seq(ModelFiles)
    BY <1>1, TopIs DEF LoadRecords
  <2> QED BY <1>1, <2>1 DEF CacheKept
<1>3. next \in LoadRecords /\ LoadRight(next) /\ WaitsFor(Head(loads[p]), next)
  BY <1>1, <1>2, LoadOfIs DEF WaitsFor, Top
<1> HIDE DEF next
<1>4. stack \in Seq(LoadRecords) /\ StackRight(stack)
  BY <1>2, <1>3, Over
<1> HIDE DEF stack
<1>5. got' = [got EXCEPT ![p] = got[p]] /\ GotRight(got[p])
  BY <1>1 DEF CacheKept
<1> QED BY <1>1, <1>4, <1>5, OneGenerator DEF CacheKept

\* An exception leaves every load.
LEMMA RefuseKept ==
    ASSUME CacheAssumption, CacheKept, NEW p \in Processes, Refuse(p) PROVE CacheKept'
<1>1. loads' = [loads EXCEPT ![p] = <<>>] /\ UNCHANGED <<disk, cached, got>>
  BY DEF Refuse
<1>2. <<>> \in Seq(LoadRecords) /\ StackRight(<<>>)
  BY DEF StackRight
<1>3. got' = [got EXCEPT ![p] = got[p]] /\ GotRight(got[p])
  BY <1>1 DEF CacheKept
<1> QED BY <1>1, <1>2, <1>3, OneGenerator DEF CacheKept

\* What is stored is whole, since nothing that the file names is wanted.
LEMMA SaveKept ==
    ASSUME CacheAssumption, CacheKept, NEW p \in Processes, Save(p) PROVE CacheKept'
<1> DEFINE f == Top(p).file
           model == Top(p).model
<1>1. /\ loads[p] # <<>> /\ Top(p).at = "Load" /\ Top(p).wanted = <<>> /\ UNCHANGED disk
      /\ cached' = [cached EXCEPT ![f] = model] /\ Give(p, model)
  BY DEF Save, Finished
<1>2. Top(p) \in LoadRecords /\ LoadRight(Top(p)) /\ f \in ModelFiles
  BY <1>1, TopIs DEF LoadRecords
<1>3. \A i \in DOMAIN DependsOn[f] : Closure(DependsOn[f][i]) \subseteq DOMAIN model
  BY <1>1, <1>2 DEF LoadRight
<1>4. DOMAIN model = Closure(f)
  BY <1>1, <1>2, <1>3, ClosureWhole DEF LoadRight
<1>5. model = Whole(f)
  <2>1. PICK fs \in SUBSET ModelFiles : model = [d \in fs |-> disk[d]]
    BY <1>2 DEF LoadRecords, Restrictions
  <2> QED BY <1>4, <2>1 DEF Whole
<1>6. CachedRight(cached')
  BY <1>1, <1>2, <1>5 DEF CacheKept, CachedRight
<1> HIDE DEF model
<1> QED BY <1>1, <1>5, <1>6, GiveKept

\* Nothing outlives the session, and so nothing that is older than a file.
LEMMA NewSessionKept ==
    ASSUME CacheAssumption, ~Persistent, CacheKept, NEW edited, NEW extended,
           NewSession(edited, extended)
    PROVE  CacheKept'
<1>1. /\ cached' = [f \in ModelFiles |-> Absent] /\ got' = [p \in Processes |-> Absent]
      /\ \A p \in Processes : loads[p] = <<>>
      /\ loads' = loads
  BY DEF NewSession
<1>2. loads' \in [Processes -> Seq(LoadRecords')]
  BY <1>1 DEF CacheKept
<1>3. \A p \in Processes : StackRight(loads[p])'
  BY <1>1 DEF StackRight
<1> QED BY <1>1, <1>2, <1>3 DEF CacheKept, GotRight

\* At first nothing is stored.
LEMMA CacheInitKept == CacheInit => CacheKept
  BY DEF CacheInit, CacheKept, StackRight, GotRight

\* Every step keeps it.
LEMMA CacheNextKept ==
    ASSUME CacheAssumption, ~Persistent, CacheKept, [CacheNext]_cacheVars PROVE CacheKept'
<1>1. CASE UNCHANGED cacheVars
  BY <1>1 DEF cacheVars, CacheKept, LoadRecords, Restrictions, StackRight, LoadRight, WaitsFor,
              GotRight, Whole
<1>2. CASE CacheNext
  BY <1>2, AskKept, LookUpKept, MarkKept, ReadStepKept, LoadNextKept, RefuseKept, SaveKept,
     NewSessionKept DEF CacheNext
<1> QED BY <1>1, <1>2

\* Whatever models name one another, however the loads of the generators
\* interleave, and wherever one of them fails (base.py above
\* model_cache_database.py, with the cache of one session): a model that a
\* generator is given was made from the files as they are, its own and every
\* one it rests on.
THEOREM LoadsAreCurrent ==
    ASSUME CacheAssumption, ~Persistent
    PROVE  CacheInit /\ [][CacheNext]_cacheVars => []LoadIsCurrent
<1>1. CacheKept => LoadIsCurrent
  <2> SUFFICES ASSUME CacheKept, NEW p \in Processes, got[p] # Absent
               PROVE  /\ DOMAIN got[p].model = Closure(got[p].file)
                      /\ \A d \in DOMAIN got[p].model : got[p].model[d] = disk[d]
    BY DEF LoadIsCurrent
  <2>1. got[p].model = Whole(got[p].file)
    BY DEF CacheKept, GotRight
  <2> QED BY <2>1 DEF Whole
<1>2. CacheKept /\ [CacheNext]_cacheVars => CacheKept'
  BY CacheNextKept
<1> QED BY <1>1, <1>2, CacheInitKept, PTL

-----------------------------------------------------------------------------
(* TargetCache: the answers of redo what.                                  *)

OneDirectory == \A d, e \in Directories : d = e

Listings == [files : SUBSET Sources, listed : Nat, stored : Nat]

ListsOf == UNION {[some -> Listings] : some \in SUBSET Directories}

WhatTyped ==
    /\ now \in Nat /\ now > 0
    /\ files \in [Directories -> SUBSET Sources]
    /\ changed \in [Directories -> Nat] /\ \A d \in Directories : changed[d] <= now
    /\ kept \in [lists : ListsOf, time : Nat, placed : Nat] \cup {Nothing}
    /\ session \in [Builds -> [lists : ListsOf, time : Nat]]
    /\ asking \in [Askers -> [asked : Directories, since : Nat, step : {"read", "list"}]
                                \cup [asked : Directories, since : Nat, step : {"answered", "store"},
                                      listing : Listings, written : Nat, placed : Nat]
                                \cup {Nothing}]

\* What was listed of a directory is what it holds, or this changed afterwards.
Right(d, listing) ==
    listing.listed <= now /\ (listing.files # files[d] => changed[d] >= listing.listed)

\* The lists that a database has were stored when it was last written, where
\* nobody stores one without the others.
SessionsRight ==
    \A b \in Builds : \A d \in DOMAIN session[b].lists :
        /\ Right(d, session[b].lists[d])
        /\ session[b].time # 0 => session[b].lists[d].stored = session[b].time

KeptRight ==
    kept # Nothing =>
        \A d \in DOMAIN kept.lists :
            /\ Right(d, kept.lists[d])
            /\ OneDirectory => kept.lists[d].stored = kept.time

\* A database that was found not older than the directory still is not, as
\* long as neither has changed otherwise than by being written to.
AskedRight(a) ==
    /\ asking[a].since <= now
    /\ asking[a].step = "read" /\ kept # Nothing =>
          \/ changed[asking[a].asked] >= asking[a].since
          \/ kept.placed >= asking[a].since
          \/ kept.time >= changed[asking[a].asked]
    /\ asking[a].step = "store" =>
          /\ Right(asking[a].asked, asking[a].listing)
          /\ asking[a].listing.listed >= asking[a].since
    /\ asking[a].step = "answered" =>
          \/ Told(a)
          \/ /\ changed[asking[a].asked] >= asking[a].listing.listed
             /\ changed[asking[a].asked] <= asking[a].written
             /\ OneDirectory => changed[asking[a].asked] <= asking[a].listing.stored

\* The inductive invariant.
WhatKept ==
    /\ WhatTyped
    /\ SessionsRight
    /\ KeptRight
    /\ \A a \in Askers : asking[a] # Nothing => AskedRight(a)

\* One more list, or another of the same directory.
LEMMA ListsWith ==
    ASSUME NEW lists \in ListsOf, NEW d \in Directories, NEW listing \in Listings
    PROVE  /\ With(lists, d, listing) \in ListsOf
           /\ DOMAIN With(lists, d, listing) = DOMAIN lists \cup {d}
           /\ With(lists, d, listing)[d] = listing
           /\ \A e \in DOMAIN lists : e # d => With(lists, d, listing)[e] = lists[e]
<1>1. DOMAIN lists \cup {d} \in SUBSET Directories
  BY DEF ListsOf
<1>2. With(lists, d, listing) \in [DOMAIN lists \cup {d} -> Listings]
  BY DEF With, ListsOf
<1> QED BY <1>1, <1>2 DEF With, ListsOf

LEMMA ListsTyped ==
    ASSUME NEW lists \in ListsOf
    PROVE  /\ DOMAIN lists \subseteq Directories
           /\ \A d \in DOMAIN lists : lists[d] \in Listings
BY DEF ListsOf

LEMMA NoListsTyped == NoLists \in ListsOf /\ DOMAIN NoLists = {}
<1>1. NoLists \in [{} -> Listings]
  BY DEF NoLists
<1>2. {} \in SUBSET Directories
  OBVIOUS
<1>3. DOMAIN NoLists = {}
  BY DEF NoLists
<1> HIDE DEF NoLists
<1> QED BY <1>1, <1>2, <1>3 DEF ListsOf

\* What stays right when files and changes stay and time goes on.
LEMMA RightStays ==
    ASSUME WhatTyped, now' \in Nat, now' >= now, UNCHANGED <<files, changed>>,
           NEW d, NEW listing \in Listings, Right(d, listing)
    PROVE  Right(d, listing)'
BY DEF WhatTyped, Right, Listings

\* A change is later than all that was listed.
LEMMA RightAfterChange ==
    ASSUME WhatTyped, NEW c \in Directories, NEW held, Change(c, held),
           NEW d \in Directories, NEW listing \in Listings, Right(d, listing)
    PROVE  Right(d, listing)'
BY DEF WhatTyped, Right, Listings, Change

LEMMA WhatInitKept == WhatInit => WhatKept
<1> SUFFICES ASSUME WhatInit PROVE WhatKept
  OBVIOUS
<1>1. Unbuilt \in [lists : ListsOf, time : Nat] /\ DOMAIN Unbuilt.lists = {}
  BY NoListsTyped DEF Unbuilt
<1>2. \A b \in Builds : session[b] = Unbuilt
  BY DEF WhatInit
<1>3. WhatTyped
  BY <1>1 DEF WhatInit, WhatTyped
<1>4. SessionsRight
  BY <1>1, <1>2 DEF SessionsRight
<1> QED BY <1>3, <1>4 DEF WhatInit, WhatKept, KeptRight

\* What was asked stays right when nothing but its own steps, time and what it
\* does not look at goes on.
LEMMA AskedStays ==
    ASSUME WhatTyped, WhatTyped', now' >= now, UNCHANGED <<files, changed>>,
           NEW a \in Askers, asking[a] # Nothing, AskedRight(a), asking'[a] = asking[a],
           \/ kept' = kept
           \/ kept' = Nothing
           \/ kept'.placed = now
           \/ kept'.time = now
    PROVE  AskedRight(a)'
<1>1. asking[a].since <= now' /\ asking[a].asked \in Directories
  BY DEF WhatTyped, AskedRight
<1>2. asking[a].step = "store" => Right(asking[a].asked, asking[a].listing)'
  <2>1. SUFFICES ASSUME asking[a].step = "store" PROVE Right(asking[a].asked, asking[a].listing)'
    OBVIOUS
  <2>2. asking[a].listing \in Listings
    BY <2>1 DEF WhatTyped
  <2> QED BY <2>1, <2>2, RightStays DEF AskedRight, WhatTyped
<1>3. asking[a].step = "answered" =>
          (\/ Told(a)
           \/ /\ changed[asking[a].asked] >= asking[a].listing.listed
              /\ changed[asking[a].asked] <= asking[a].written
              /\ OneDirectory => changed[asking[a].asked] <= asking[a].listing.stored)'
  BY DEF AskedRight, Told, OneDirectory
<1>4. asking[a].step = "read" /\ kept' # Nothing =>
          \/ changed[asking[a].asked] >= asking[a].since
          \/ kept'.placed >= asking[a].since
          \/ kept'.time >= changed[asking[a].asked]
  <2>1. changed[asking[a].asked] <= now /\ changed[asking[a].asked] \in Nat /\ asking[a].since \in Nat
    BY <1>1 DEF WhatTyped
  <2> QED BY <2>1 DEF AskedRight
<1> QED BY <1>1, <1>2, <1>3, <1>4 DEF AskedRight

LEMMA WhatNextKept ==
    ASSUME WhatKept, [WhatNext]_whatVars
    PROVE  WhatKept'
<1> USE DEF WhatKept
<1>1. ASSUME NEW lists \in ListsOf PROVE DOMAIN lists \subseteq Directories /\ \A d \in DOMAIN lists : lists[d] \in Listings
  BY ListsTyped
<1>2. /\ \A b \in Builds : session[b].lists \in ListsOf /\ session[b].time \in Nat
      /\ kept # Nothing => kept.lists \in ListsOf /\ kept.time \in Nat /\ kept.placed \in Nat
  BY DEF WhatTyped
<1>3. ASSUME Tick \/ UNCHANGED whatVars PROVE WhatKept'
  <2>1. now' \in Nat /\ now' >= now /\ UNCHANGED <<files, changed, kept, session, asking>>
    BY <1>3 DEF Tick, whatVars, WhatTyped
  <2>2. WhatTyped'
    BY <2>1 DEF WhatTyped
  <2>3. SessionsRight'
    BY <1>1, <1>2, <2>1, RightStays DEF SessionsRight
  <2>4. KeptRight'
    BY <1>1, <1>2, <2>1, RightStays DEF KeptRight, OneDirectory
  <2> QED BY <2>1, <2>2, <2>3, <2>4, AskedStays
<1>4. ASSUME NEW c \in Directories, NEW held \in SUBSET Sources, Change(c, held) PROVE WhatKept'
  <2> USE DEF Change
  <2>1. WhatTyped'
    BY <1>4 DEF WhatTyped
  <2>2. SessionsRight'
    BY <1>1, <1>2, <1>4, RightAfterChange DEF SessionsRight
  <2>3. KeptRight'
    BY <1>1, <1>2, <1>4, RightAfterChange DEF KeptRight, OneDirectory
  <2>4. ASSUME NEW a \in Askers, asking[a] # Nothing PROVE AskedRight(a)'
    <3>1. asking[a].asked \in Directories /\ asking[a].since \in Nat /\ asking[a].since <= now
      BY <2>4 DEF WhatTyped, AskedRight
    <3>2. CASE asking[a].asked = c
      <4>1. changed'[c] = now /\ UNCHANGED <<asking, now>>
        BY <1>4 DEF WhatTyped
      <4>2. changed'[asking[a].asked] >= asking[a].since
        BY <3>1, <3>2, <4>1
      <4>3. asking[a].step = "store" => Right(asking[a].asked, asking[a].listing)'
        <5>1. SUFFICES ASSUME asking[a].step = "store" PROVE Right(asking[a].asked, asking[a].listing)'
          OBVIOUS
        <5>2. asking[a].listing \in Listings
          BY <2>4, <5>1 DEF WhatTyped
        <5> QED BY <1>4, <2>4, <3>1, <5>1, <5>2, RightAfterChange DEF AskedRight
      <4> QED BY <2>4, <3>1, <4>1, <4>2, <4>3 DEF AskedRight, Told
    <3>3. CASE asking[a].asked # c
      <4>1. /\ UNCHANGED <<asking, kept, now>>
            /\ changed'[asking[a].asked] = changed[asking[a].asked]
            /\ files'[asking[a].asked] = files[asking[a].asked]
        BY <1>4, <3>1, <3>3 DEF WhatTyped
      <4> QED BY <2>4, <3>1, <4>1 DEF AskedRight, Told, Right, OneDirectory
    <3> QED BY <3>2, <3>3
  <2> QED BY <1>4, <2>1, <2>2, <2>3, <2>4
<1>5. ASSUME NEW d \in Directories PROVE Listing(d) \in Listings /\ Right(d, Listing(d))
  BY DEF Listing, Listings, Right, WhatTyped
<1>6. ASSUME NEW b \in Builds, NEW d \in Directories, ListDirectory(b, d) PROVE WhatKept'
  <2> PICK lists : lists = With(session[b].lists, d, Listing(d))
    OBVIOUS
  <2>1. /\ UNCHANGED <<now, files, changed, kept, asking>>
        /\ session' = [session EXCEPT ![b] = [lists |-> lists, time |-> 0]]
    <3>1. session[b] \in [lists : ListsOf, time : Nat] /\ session[b].time = 0
      BY <1>6 DEF ListDirectory, WhatTyped
    <3>2. [session[b] EXCEPT !.lists = lists] = [lists |-> lists, time |-> 0]
      BY <3>1
    <3>3. /\ UNCHANGED <<now, files, changed, kept, asking>>
          /\ session' = [session EXCEPT ![b] = [session[b] EXCEPT !.lists = lists]]
      BY <1>6 DEF ListDirectory
    <3> QED BY <3>2, <3>3
  <2>2. /\ lists \in ListsOf /\ DOMAIN lists = DOMAIN session[b].lists \cup {d}
        /\ lists[d] = Listing(d) /\ \A e \in DOMAIN session[b].lists : e # d => lists[e] = session[b].lists[e]
    BY <1>2, <1>5, ListsWith
  <2>3. WhatTyped'
    BY <2>1, <2>2 DEF WhatTyped
  <2>4. \A e \in DOMAIN lists : Right(e, lists[e])
    BY <1>5, <2>2 DEF SessionsRight
  <2>5. SessionsRight'
    <3> SUFFICES ASSUME NEW x \in Builds, NEW e \in DOMAIN session'[x].lists
                 PROVE  /\ Right(e, session[x].lists[e])'
                        /\ session'[x].time # 0 => session'[x].lists[e].stored = session'[x].time
      BY DEF SessionsRight
    <3>1. CASE x = b
      BY <2>1, <2>4, <3>1 DEF Right, WhatTyped
    <3>2. CASE x # b
      BY <2>1, <3>2 DEF Right, WhatTyped, SessionsRight
    <3> QED BY <3>1, <3>2
  <2>6. KeptRight'
    BY <2>1 DEF KeptRight, Right, OneDirectory
  <2>7. \A a \in Askers : asking'[a] # Nothing => AskedRight(a)'
    BY <2>1, <2>3, AskedStays DEF WhatTyped
  <2> QED BY <2>3, <2>5, <2>6, <2>7
<1>7. ASSUME NEW b \in Builds, StoreTargets(b) PROVE WhatKept'
  <2> PICK old : old = session[b].lists
    OBVIOUS
  <2> PICK lists : lists = [d \in DOMAIN old |-> Stored(old[d])]
    OBVIOUS
  <2>1. /\ UNCHANGED <<now, files, changed, kept, asking>>
        /\ session' = [session EXCEPT ![b] = [lists |-> lists, time |-> now]]
    BY <1>7 DEF StoreTargets, WhatTyped
  <2>2. old \in ListsOf /\ DOMAIN old \subseteq Directories /\ \A d \in DOMAIN old : old[d] \in Listings
    BY <1>1, <1>2
  <2>3. ASSUME NEW d \in DOMAIN old
        PROVE  /\ lists[d] \in Listings /\ lists[d].stored = now
               /\ lists[d].files = old[d].files /\ lists[d].listed = old[d].listed
    BY <2>2 DEF Stored, Listings, WhatTyped
  <2>4. lists \in [DOMAIN old -> Listings] /\ DOMAIN old \in SUBSET Directories /\ DOMAIN lists = DOMAIN old
    BY <2>2, <2>3
  <2>5. lists \in ListsOf
    BY <2>4 DEF ListsOf
  <2>6. WhatTyped'
    BY <2>1, <2>5 DEF WhatTyped
  <2>7. SessionsRight'
    <3> SUFFICES ASSUME NEW x \in Builds, NEW e \in DOMAIN session'[x].lists
                 PROVE  /\ Right(e, session[x].lists[e])'
                        /\ session'[x].time # 0 => session'[x].lists[e].stored = session'[x].time
      BY DEF SessionsRight
    <3>1. CASE x = b
      <4>1. session'[x].lists = lists /\ session'[x].time = now
        BY <2>1, <3>1 DEF WhatTyped
      <4>2. Right(e, old[e])
        BY <2>4, <4>1 DEF SessionsRight
      <4> QED BY <2>1, <2>3, <2>4, <4>1, <4>2 DEF Right
    <3>2. CASE x # b
      BY <2>1, <3>2 DEF Right, WhatTyped, SessionsRight
    <3> QED BY <3>1, <3>2
  <2>8. KeptRight'
    BY <2>1 DEF KeptRight, Right, OneDirectory
  <2>9. \A a \in Askers : asking'[a] # Nothing => AskedRight(a)'
    BY <2>1, <2>6, AskedStays DEF WhatTyped
  <2> QED BY <2>6, <2>7, <2>8, <2>9
<1>8. Unbuilt \in [lists : ListsOf, time : Nat] /\ DOMAIN Unbuilt.lists = {}
  BY NoListsTyped DEF Unbuilt
<1>9. ASSUME NEW b \in Builds, session' = [session EXCEPT ![b] = Unbuilt],
             UNCHANGED <<now, files, changed>>
      PROVE  SessionsRight'
  <2> SUFFICES ASSUME NEW x \in Builds, NEW e \in DOMAIN session'[x].lists
               PROVE  /\ Right(e, session[x].lists[e])'
                      /\ session'[x].time # 0 => session'[x].lists[e].stored = session'[x].time
    BY DEF SessionsRight
  <2>1. session'[x] = IF x = b THEN Unbuilt ELSE session[x]
    BY <1>9 DEF WhatTyped
  <2>2. x # b
    BY <1>8, <2>1
  <2> QED BY <1>9, <2>1, <2>2 DEF SessionsRight, Right
<1>10. ASSUME NEW b \in Builds, EndBuild(b) PROVE WhatKept'
  <2>1. /\ UNCHANGED <<now, files, changed, asking>> /\ session' = [session EXCEPT ![b] = Unbuilt]
        /\ kept' = [lists |-> session[b].lists, time |-> session[b].time, placed |-> now]
        /\ session[b].time # 0
    BY <1>10 DEF EndBuild, Copied
  <2>2. WhatTyped'
    BY <1>2, <1>8, <2>1 DEF WhatTyped
  <2>3. SessionsRight'
    BY <1>9, <2>1
  <2>4. KeptRight'
    BY <2>1 DEF KeptRight, SessionsRight, Right
  <2>5. \A a \in Askers : asking'[a] # Nothing => AskedRight(a)'
    BY <2>1, <2>2, AskedStays DEF WhatTyped
  <2> QED BY <2>2, <2>3, <2>4, <2>5
<1>11. ASSUME NEW b \in Builds, FailBuild(b) PROVE WhatKept'
  <2>1. UNCHANGED <<now, files, changed, kept, asking>> /\ session' = [session EXCEPT ![b] = Unbuilt]
    BY <1>11 DEF FailBuild
  <2>2. WhatTyped'
    BY <1>8, <2>1 DEF WhatTyped
  <2>3. KeptRight'
    BY <2>1 DEF KeptRight, Right, OneDirectory
  <2>4. \A a \in Askers : asking'[a] # Nothing => AskedRight(a)'
    BY <2>1, <2>2, AskedStays DEF WhatTyped
  <2> QED BY <1>9, <2>1, <2>2, <2>3, <2>4
<1>12. ASSUME LoseKept PROVE WhatKept'
  <2>1. UNCHANGED <<now, files, changed, session, asking>> /\ kept' = Nothing
    BY <1>12 DEF LoseKept
  <2>2. WhatTyped'
    BY <2>1 DEF WhatTyped
  <2>3. \A a \in Askers : asking'[a] # Nothing => AskedRight(a)'
    BY <2>1, <2>2, AskedStays DEF WhatTyped
  <2> QED BY <2>1, <2>2, <2>3 DEF SessionsRight, KeptRight, Right
\* The steps of an asker leave the files and the builds alone.
<1>13. ASSUME NEW a \in Askers, NEW q, asking' = [asking EXCEPT ![a] = q],
              UNCHANGED <<now, files, changed, session, kept>>, WhatTyped',
              q # Nothing => AskedRight(a)'
       PROVE  WhatKept'
  <2>1. SessionsRight' /\ KeptRight'
    BY <1>13 DEF SessionsRight, KeptRight, Right, OneDirectory
  <2>2. ASSUME NEW x \in Askers, asking'[x] # Nothing PROVE AskedRight(x)'
    <3>1. asking'[x] = IF x = a THEN q ELSE asking[x]
      BY <1>13 DEF WhatTyped
    <3>2. CASE x = a
      BY <1>13, <2>2, <3>1, <3>2
    <3>3. CASE x # a
      BY <1>13, <2>2, <3>1, <3>3, AskedStays DEF WhatTyped
    <3> QED BY <3>2, <3>3
  <2> QED BY <1>13, <2>1, <2>2
<1>14. ASSUME NEW a \in Askers, NEW d \in Directories, AskWhat(a, d) PROVE WhatKept'
  <2> PICK q : q = [asked |-> d, since |-> now,
                    step |-> IF kept # Nothing /\ kept.time >= changed[d] THEN "read" ELSE "list"]
    OBVIOUS
  <2>1. UNCHANGED <<now, files, changed, session, kept>> /\ asking' = [asking EXCEPT ![a] = q]
    BY <1>14 DEF AskWhat
  <2>2. q \in [asked : Directories, since : Nat, step : {"read", "list"}]
    BY DEF WhatTyped
  <2>3. WhatTyped'
    BY <2>1, <2>2 DEF WhatTyped
  <2>4. AskedRight(a)'
    <3>1. asking'[a] = q
      BY <2>1 DEF WhatTyped
    <3>2. q.asked = d /\ q.since = now /\ q.step \in {"read", "list"}
          /\ (q.step = "read" => kept.time >= changed[d])
      OBVIOUS
    <3> QED BY <2>1, <3>1, <3>2 DEF AskedRight, WhatTyped
  <2> QED BY <1>13, <2>1, <2>3, <2>4
<1>15. ASSUME NEW a \in Askers, ReadKept(a) PROVE WhatKept'
  <2>1. /\ UNCHANGED <<now, files, changed, session, kept>>
        /\ asking[a] # Nothing /\ asking[a].step = "read"
    BY <1>15 DEF ReadKept
  <2> PICK d : d = asking[a].asked
    OBVIOUS
  <2> PICK since : since = asking[a].since
    OBVIOUS
  <2>2. asking[a] = [asked |-> d, since |-> since, step |-> "read"] /\ d \in Directories /\ since \in Nat
    BY <2>1 DEF WhatTyped
  <2>3. CASE kept # Nothing /\ d \in DOMAIN kept.lists
    <3> PICK q : q = [asked |-> d, since |-> since, step |-> "answered", listing |-> kept.lists[d],
                      written |-> kept.time, placed |-> kept.placed]
      OBVIOUS
    <3>1. asking' = [asking EXCEPT ![a] = q]
      BY <1>15, <2>3 DEF ReadKept
    <3>2. kept.lists[d] \in Listings
      BY <1>1, <1>2, <2>3
    <3>3. q \in [asked : Directories, since : Nat, step : {"answered", "store"},
                 listing : Listings, written : Nat, placed : Nat]
      BY <1>2, <2>2, <2>3, <3>2
    <3>4. WhatTyped'
      BY <2>1, <3>1, <3>3 DEF WhatTyped
    <3>5. AskedRight(a)'
      <4>1. asking'[a] = q
        BY <3>1 DEF WhatTyped
      <4>2. since <= now /\ (changed[d] >= since \/ kept.placed >= since \/ kept.time >= changed[d])
        BY <2>1, <2>2, <2>3 DEF AskedRight
      <4>3. Right(d, kept.lists[d]) /\ (OneDirectory => kept.lists[d].stored = kept.time)
        BY <2>3 DEF KeptRight
      <4>4. q.asked = d /\ q.since = since /\ q.step = "answered" /\ q.listing = kept.lists[d]
            /\ q.written = kept.time /\ q.placed = kept.placed
        OBVIOUS
      <4> QED BY <2>1, <4>1, <4>2, <4>3, <4>4 DEF AskedRight, Told, Right, OneDirectory
    <3> QED BY <1>13, <2>1, <3>1, <3>4, <3>5
  <2>4. CASE ~(kept # Nothing /\ d \in DOMAIN kept.lists)
    <3> PICK q : q = [asked |-> d, since |-> since, step |-> "list"]
      OBVIOUS
    <3>1. asking' = [asking EXCEPT ![a] = q]
      <4>1. [asking[a] EXCEPT !.step = "list"] = q
        BY <2>2
      <4>2. asking' = [asking EXCEPT ![a] = [asking[a] EXCEPT !.step = "list"]]
        BY <1>15, <2>4 DEF ReadKept
      <4> QED BY <4>1, <4>2
    <3>2. WhatTyped'
      BY <2>1, <2>2, <3>1 DEF WhatTyped
    <3>3. AskedRight(a)'
      <4>1. asking'[a] = q /\ q.since = since /\ q.step = "list"
        BY <3>1 DEF WhatTyped
      <4>2. since <= now
        BY <2>1 DEF AskedRight
      <4> QED BY <2>1, <4>1, <4>2 DEF AskedRight
    <3> QED BY <1>13, <2>1, <3>1, <3>2, <3>3
  <2> QED BY <2>3, <2>4
<1>16. ASSUME NEW a \in Askers, ListAsked(a) PROVE WhatKept'
  <2> PICK d : d = asking[a].asked
    OBVIOUS
  <2> PICK since : since = asking[a].since
    OBVIOUS
  <2> PICK q : q = [asked |-> d, since |-> since, step |-> "store", listing |-> Listing(d),
                    written |-> now, placed |-> now]
    OBVIOUS
  <2>1. /\ UNCHANGED <<now, files, changed, session, kept>> /\ asking' = [asking EXCEPT ![a] = q]
        /\ asking[a] # Nothing /\ asking[a].step = "list"
    BY <1>16 DEF ListAsked
  <2>2. d \in Directories /\ since \in Nat /\ since <= now
    BY <2>1 DEF WhatTyped, AskedRight
  <2>3. q \in [asked : Directories, since : Nat, step : {"answered", "store"},
               listing : Listings, written : Nat, placed : Nat]
    BY <1>5, <2>2 DEF WhatTyped
  <2>4. WhatTyped'
    BY <2>1, <2>3 DEF WhatTyped
  <2>5. AskedRight(a)'
    <3>1. asking'[a] = q /\ q.asked = d /\ q.since = since /\ q.step = "store" /\ q.listing = Listing(d)
      BY <2>1 DEF WhatTyped
    <3>2. Right(d, Listing(d))' /\ Listing(d).listed = now
      BY <1>5, <2>1, <2>2 DEF Right, Listing
    <3>3. Right(d, q.listing)'
      BY <2>1, <3>1, <1>5, <2>2 DEF Right
    <3> QED BY <2>1, <2>2, <3>1, <3>2, <3>3 DEF AskedRight
  <2> QED BY <1>13, <2>1, <2>4, <2>5
<1>17. ASSUME NEW a \in Askers, StopAsking(a) PROVE WhatKept'
  <2>1. UNCHANGED <<now, files, changed, session, kept>> /\ asking' = [asking EXCEPT ![a] = Nothing]
    BY <1>17 DEF StopAsking
  <2>2. WhatTyped'
    BY <2>1 DEF WhatTyped
  <2> QED BY <1>13, <2>1, <2>2
<1>18. ASSUME NEW a \in Askers, StoreAnswer(a) PROVE WhatKept'
  <2> PICK d : d = asking[a].asked
    OBVIOUS
  <2> PICK old : old = IF kept = Nothing THEN NoLists ELSE kept.lists
    OBVIOUS
  <2> PICK listing : listing = Stored(asking[a].listing)
    OBVIOUS
  <2> PICK lists : lists = With(old, d, listing)
    OBVIOUS
  <2>1. /\ UNCHANGED <<now, files, changed, session>> /\ asking' = [asking EXCEPT ![a] = Nothing]
        /\ kept' = [lists |-> lists, time |-> now, placed |-> IF kept = Nothing THEN now ELSE kept.placed]
        /\ asking[a] # Nothing /\ asking[a].step = "store"
    BY <1>18 DEF StoreAnswer
  <2>2. d \in Directories /\ asking[a].listing \in Listings /\ Right(d, asking[a].listing)
    BY <2>1 DEF WhatTyped, AskedRight
  <2>3. listing \in Listings /\ Right(d, listing) /\ listing.stored = now
    BY <2>2 DEF Stored, Listings, WhatTyped, Right
  <2>4. old \in ListsOf /\ DOMAIN old \subseteq Directories
    BY <1>1, <1>2, NoListsTyped
  <2>5. /\ lists \in ListsOf /\ DOMAIN lists = DOMAIN old \cup {d} /\ lists[d] = listing
        /\ \A e \in DOMAIN old : e # d => lists[e] = old[e]
    <3>1. /\ With(old, d, listing) \in ListsOf
          /\ DOMAIN With(old, d, listing) = DOMAIN old \cup {d}
          /\ With(old, d, listing)[d] = listing
          /\ \A e \in DOMAIN old : e # d => With(old, d, listing)[e] = old[e]
      BY ONLY <2>2, <2>3, <2>4, ListsWith
    <3> QED BY <3>1
  <2>6. kept' \in [lists : ListsOf, time : Nat, placed : Nat]
    BY <1>2, <2>1, <2>5 DEF WhatTyped
  <2>7. WhatTyped'
    BY <2>1, <2>6 DEF WhatTyped
  <2>8. KeptRight'
    <3> SUFFICES ASSUME NEW e \in DOMAIN lists
                 PROVE  Right(e, lists[e])' /\ (OneDirectory => lists[e].stored = now)
      BY <2>1 DEF KeptRight, OneDirectory
    <3>1. CASE e = d
      BY <2>1, <2>3, <2>5, <3>1 DEF Right
    <3>2. CASE e # d
      <4>1. e \in DOMAIN old /\ lists[e] = old[e] /\ ~OneDirectory
        BY <2>2, <2>4, <2>5, <3>2 DEF OneDirectory
      <4>2. kept # Nothing /\ Right(e, kept.lists[e])
        BY <4>1, NoListsTyped DEF KeptRight
      <4> QED BY <2>1, <4>1, <4>2 DEF Right
    <3> QED BY <3>1, <3>2
  <2>9. SessionsRight'
    BY <2>1 DEF SessionsRight, Right
  <2>10. ASSUME NEW x \in Askers, asking'[x] # Nothing PROVE AskedRight(x)'
    <3>1. asking'[x] = asking[x] /\ kept'.time = now
      BY <2>1, <2>10 DEF WhatTyped
    <3> QED BY <2>1, <2>7, <2>10, <3>1, AskedStays DEF WhatTyped
  <2> QED BY <2>7, <2>8, <2>9, <2>10
<1> QED BY <1>3, <1>4, <1>6, <1>7, <1>10, <1>11, <1>12, <1>14, <1>15, <1>16, <1>17, <1>18 DEF WhatNext

\* An answer that is given is not older than the directory, or the directory
\* changed between being listed and the last writing of the kept database.
AnswersAreOfTheirTime ==
    \A a \in Askers : Answered(a) =>
        \/ Told(a)
        \/ /\ changed[asking[a].asked] >= asking[a].listing.listed
           /\ changed[asking[a].asked] <= asking[a].written

LEMMA WhatKeptTells ==
    ASSUME WhatKept
    PROVE  AnswersAreOfTheirTime /\ (OneDirectory => WhatIsCurrent)
<1> SUFFICES ASSUME NEW a \in Askers, Answered(a), ~Told(a)
             PROVE  /\ changed[asking[a].asked] >= asking[a].listing.listed
                    /\ changed[asking[a].asked] <= asking[a].written
                    /\ OneDirectory => changed[asking[a].asked] <= asking[a].listing.stored
  BY DEF AnswersAreOfTheirTime, WhatIsCurrent
<1>1. AskedRight(a) /\ asking[a] # Nothing
  BY DEF WhatKept, Answered
<1>2. asking[a].step # "store"
  <2> SUFFICES ASSUME asking[a].step = "store" PROVE FALSE
    OBVIOUS
  <2>1. /\ asking[a].listing \in Listings /\ asking[a].asked \in Directories /\ asking[a].since \in Nat
        /\ changed[asking[a].asked] \in Nat
    BY <1>1 DEF WhatKept, WhatTyped
  <2> QED BY <1>1, <2>1 DEF AskedRight, Told, Right, Listings
<1>3. asking[a].step = "answered"
  BY <1>2 DEF Answered
<1> QED BY <1>1, <1>3 DEF AskedRight

\* However builds, questions and changes of files interleave, at any moments
\* that the file system tells apart or not, an old answer is given only of a
\* directory that changed after it was listed and before the kept database was
\* last written, be it for another directory (build_what.py above
\* persistent_target_cache.py and create.py).
THEOREM AnswersAreOld ==
    WhatInit /\ [][WhatNext]_whatVars => []AnswersAreOfTheirTime
<1>1. WhatKept /\ [WhatNext]_whatVars => WhatKept'
  BY WhatNextKept
<1>2. WhatKept => AnswersAreOfTheirTime
  BY WhatKeptTells
<1> QED BY <1>1, <1>2, WhatInitKept, PTL

\* With one directory the change is within the way of its own list into the
\* database.
THEOREM WhatOfOneHolds ==
    ASSUME OneDirectory
    PROVE  WhatInit /\ [][WhatNext]_whatVars => []WhatIsCurrent
<1>1. WhatKept /\ [WhatNext]_whatVars => WhatKept'
  BY WhatNextKept
<1>2. WhatKept => WhatIsCurrent
  BY WhatKeptTells
<1> QED BY <1>1, <1>2, WhatInitKept, PTL

-----------------------------------------------------------------------------
(* Targets: the databases of a build.                                      *)

\* Any two entries of one unit are different parts of it, with no two models
\* behind them, and there is no third.
OneSource(es) ==
    /\ IsFiniteSet(es)
    /\ \A e \in es : \A g \in Namesakes(es, e.file) :
        /\ g # e => Part[g.file] # Part[e.file]
        /\ e.model = NoModel \/ g.model = NoModel \/ e.model = g.model
    /\ \A e \in es : Cardinality(Namesakes(es, e.file)) <= 2

\* Entries that fit one by one, each among all the others.
LEMMA InsertedOneByOne ==
    ASSUME NEW es, OneSource(es), NEW new, IsFiniteSet(new),
           \A x \in new : Fits(es \cup (new \ {x}), x.file, x.model)
    PROVE  OneSource(es \cup new)
<1> DEFINE all == es \cup new
<1>1. ASSUME NEW x \in new
      PROVE  /\ x \notin es
             /\ \A g \in Namesakes(all, x.file) :
                    /\ g # x => Part[g.file] # Part[x.file]
                    /\ x.model = NoModel \/ g.model = NoModel \/ x.model = g.model
             /\ Cardinality(Namesakes(all \ {x}, x.file)) < 2
  <2> DEFINE same == Namesakes(es \cup (new \ {x}), x.file)
  <2>1. /\ x.model = NoModel \/ {e.model : e \in same} \subseteq {NoModel, x.model}
        /\ IF Kind[x.file] = "py" THEN same = {}
           ELSE Cardinality(same) < 2 /\ \A e \in same : Part[e.file] # Part[x.file]
    BY DEF Fits
  <2>2. x \notin es
    BY <2>1 DEF Namesakes
  <2>3. same = Namesakes(all \ {x}, x.file)
    BY <2>2 DEF Namesakes
  <2>4. Cardinality(same) < 2
    BY <2>1, FS_EmptySet
  <2>5. \A g \in Namesakes(all, x.file) : g = x \/ g \in same
    BY <2>3 DEF Namesakes
  <2> HIDE DEF same
  <2> QED BY <2>1, <2>2, <2>3, <2>4, <2>5
<1>2. IsFiniteSet(all)
  BY FS_Union DEF OneSource
<1>3. ASSUME NEW e \in all, NEW g \in Namesakes(all, e.file)
      PROVE  /\ g # e => Part[g.file] # Part[e.file]
             /\ e.model = NoModel \/ g.model = NoModel \/ e.model = g.model
  <2>1. g \in all /\ e \in Namesakes(all, g.file)
    BY DEF Namesakes
  <2>2. CASE e \in new
    BY <1>1, <2>2
  <2>3. CASE g \in new
    BY <1>1, <2>1, <2>3
  <2>4. CASE e \in es /\ g \in es
    BY <2>4 DEF OneSource, Namesakes
  <2> QED BY <2>1, <2>2, <2>3, <2>4
<1>4. ASSUME NEW e \in all
      PROVE  Cardinality(Namesakes(all, e.file)) <= 2
  <2>1. CASE \A x \in new : x \notin Namesakes(all, e.file)
    <3>1. e \in es /\ Namesakes(all, e.file) = Namesakes(es, e.file)
      BY <2>1 DEF Namesakes
    <3> QED BY <3>1 DEF OneSource
  <2>2. ASSUME NEW x \in new, x \in Namesakes(all, e.file)
        PROVE  Cardinality(Namesakes(all, e.file)) <= 2
    <3> DEFINE others == Namesakes(all \ {x}, x.file)
    <3>1. Namesakes(all, e.file) = others \cup {x}
      BY <2>2 DEF Namesakes
    <3>2. IsFiniteSet(others)
      <4>1. others \in SUBSET all
        BY DEF Namesakes
      <4> QED BY <4>1, <1>2, FS_Subset
    <3>3. Cardinality(others) \in Nat /\ Cardinality(others) < 2
      BY <3>2, <1>1, FS_CardinalityType
    <3> HIDE DEF others
    <3>4. Cardinality(others \cup {x}) =
              IF x \in others THEN Cardinality(others) ELSE Cardinality(others) + 1
      BY <3>2, FS_AddElement
    <3>5. Cardinality(others \cup {x}) <= 2
      BY <3>3, <3>4
    <3> QED BY <3>1, <3>5
  <2> QED BY <2>1, <2>2
<1> QED BY <1>2, <1>3, <1>4 DEF OneSource

\* What AllFit allows, with no model behind it.
LEMMA InsertedUnmade ==
    ASSUME NEW es, OneSource(es), NEW new, IsFiniteSet(new), AllFit(es, new)
    PROVE  OneSource(es \cup {Entry(f, NoModel) : f \in new})
<1> DEFINE entries == {Entry(f, NoModel) : f \in new}
<1>1. IsFiniteSet(entries)
  <2>1. [f \in new |-> Entry(f, NoModel)] \in Surjection(new, entries)
    BY DEF Surjection
  <2> QED BY <2>1, FS_Surjection
<1>2. ASSUME NEW x \in entries
      PROVE  Fits(es \cup (entries \ {x}), x.file, x.model)
  <2>1. PICK f \in new : x = Entry(f, NoModel)
    OBVIOUS
  <2>2. x.file = f /\ x.model = NoModel
    BY <2>1 DEF Entry
  <2>3. entries \ {x} = {Entry(g, NoModel) : g \in new \ {f}}
    BY <2>1 DEF Entry
  <2> QED BY <2>2, <2>3 DEF AllFit
<1> HIDE DEF entries
<1>3. OneSource(es \cup entries)
  BY <1>1, <1>2, InsertedOneByOne
<1> QED BY <1>3 DEF entries

\* What is generated from an input that fits.
LEMMA InsertedMade ==
    ASSUME NEW es, OneSource(es), NEW f, NEW model, Fits(es, f, model)
    PROVE  OneSource(es \cup {Entry(f, model)})
<1> DEFINE x == Entry(f, model)
<1>1. x.file = f /\ x.model = model
  BY DEF Entry
<1>2. es \cup ({x} \ {x}) = es /\ IsFiniteSet({x})
  BY FS_Singleton
<1> HIDE DEF x
<1>3. \A y \in {x} : Fits(es \cup ({x} \ {y}), y.file, y.model)
  BY <1>1, <1>2
<1>4. OneSource(es \cup {x})
  BY <1>2, <1>3, InsertedOneByOne
<1> QED BY <1>4 DEF x

\* The files of a directory are finitely many.
FilesOf(d) == {tree[d][i] : i \in DOMAIN tree[d]}

LEMMA FilesAreFinite ==
    ASSUME TreeTyped, NEW d \in Searched
    PROVE  FilesOf(d) \in SUBSET DOMAIN Kind /\ IsFiniteSet(FilesOf(d))
<1>1. tree[d] \in Seq(DOMAIN Kind)
  BY DEF TreeTyped
<1>2. tree[d] \in Surjection(1 .. Len(tree[d]), FilesOf(d))
  BY <1>1 DEF Surjection, FilesOf
<1>3. IsFiniteSet(1 .. Len(tree[d]))
  BY <1>1, FS_Interval
<1>4. IsFiniteSet(FilesOf(d))
  BY <1>2, <1>3, FS_Surjection
<1> QED BY <1>1, <1>4 DEF FilesOf

LEMMA OfIsFinite ==
    ASSUME TreeTyped, NEW d \in Searched, NEW kinds
    PROVE  IsFiniteSet(Of(d, kinds))
<1>1. Of(d, kinds) \in SUBSET FilesOf(d)
  BY DEF Of, FilesOf
<1> QED BY <1>1, FilesAreFinite, FS_Subset

\* The inductive invariant of the sources.
SourcesFit == step # "Aborted" => OneSource(sources)

\* Where create() is: in a directory of the build path, or past the last.
Position ==
    /\ ahead \in Seq(Searched)
    /\ step = "Models" => ahead = BuildPath
    /\ step \in {"Dos", "Generate", "Rules"} => ahead # <<>>
    /\ step \in {"Docs", "Second", "Done"} => ahead = <<>>
    /\ step \notin {"Generate", "Aborted"} => found = {}

LEMMA SourcesKeepFitting ==
    ASSUME TreeTyped, Position, SourcesFit, TargetsNext
    PROVE  SourcesFit'
<1>1. CASE TakeSources
  <2>1. Here \in Searched
    BY <1>1 DEF TakeSources, Position, Here
  <2>2. IsFiniteSet(Of(Here, {"ada", "c"}))
    BY <2>1, OfIsFinite
  <2>3. OneSource(sources)
    BY <1>1 DEF TakeSources, SourcesFit
  <2>4. CASE AllFit(sources, Of(Here, {"ada", "c"}))
    <3>1. OneSource(sources \cup {Entry(f, NoModel) : f \in Of(Here, {"ada", "c"})})
      BY <2>2, <2>3, <2>4, InsertedUnmade
    <3>2. sources' = sources \cup {Entry(f, NoModel) : f \in Of(Here, {"ada", "c"})}
      BY <1>1 DEF TakeSources
    <3>3. OneSource(sources')
      BY <3>1, <3>2
    <3> QED BY <3>3 DEF SourcesFit, OneSource, Namesakes
  <2>5. CASE ~AllFit(sources, Of(Here, {"ada", "c"}))
    BY <1>1, <2>5 DEF TakeSources, AbortIf, SourcesFit
  <2> QED BY <2>4, <2>5
<1>2. CASE TakeDos
  <2> DEFINE made == {DoTarget(f) : f \in Of(Here, {"do"})}
             new == {t \in made : Kind[t] \in Source /\ \A e \in sources : e.file # t}
  <2>1. Here \in Searched
    BY <1>2 DEF TakeDos, Position, Here
  <2>2. IsFiniteSet(new)
    <3>1. IsFiniteSet(Of(Here, {"do"}))
      BY <2>1, OfIsFinite
    <3>2. [f \in Of(Here, {"do"}) |-> DoTarget(f)] \in Surjection(Of(Here, {"do"}), made)
      BY DEF Surjection
    <3>3. IsFiniteSet(made)
      BY <3>1, <3>2, FS_Surjection
    <3>4. new \in SUBSET made
      OBVIOUS
    <3> QED BY <3>3, <3>4, FS_Subset
  <2>3. OneSource(sources)
    BY <1>2 DEF TakeDos, SourcesFit
  <2>4. /\ sources' = sources \cup {Entry(t, NoModel) : t \in new}
        /\ ~AllFit(sources, new) => step' = "Aborted"
    BY <1>2 DEF TakeDos, AbortIf
  <2>5. CASE AllFit(sources, new)
    <3> HIDE DEF new
    <3>1. OneSource(sources \cup {Entry(f, NoModel) : f \in new})
      BY <2>2, <2>3, <2>5, InsertedUnmade
    <3>2. OneSource(sources')
      BY <3>1, <2>4
    <3> QED BY <3>2 DEF SourcesFit, OneSource, Namesakes
  <2>6. CASE ~AllFit(sources, new)
    BY <2>4, <2>6 DEF SourcesFit
  <2> QED BY <2>5, <2>6
<1>3. CASE Generate
  <2>1. PICK pair \in pending :
            /\ AbortIf(\/ \E g \in generators : g.output = pair[2]
                       \/ OwnPlace(pair[2]) /\ ~Fits(sources, pair[2], pair[1]), "Generate")
            /\ sources' = sources \cup
                   (IF OwnPlace(pair[2]) THEN {Entry(pair[2], pair[1])} ELSE {})
    BY <1>3 DEF Generate
  <2>2. OneSource(sources)
    BY <1>3 DEF Generate, SourcesFit
  <2>3. CASE ~OwnPlace(pair[2])
    BY <2>1, <2>2, <2>3 DEF SourcesFit, OneSource, Namesakes
  <2>4. CASE OwnPlace(pair[2]) /\ Fits(sources, pair[2], pair[1])
    <3>1. OneSource(sources \cup {Entry(pair[2], pair[1])})
      BY <2>2, <2>4, InsertedMade
    <3>2. OneSource(sources')
      BY <2>1, <2>4, <3>1
    <3> QED BY <3>2 DEF SourcesFit, OneSource, Namesakes
  <2>5. CASE OwnPlace(pair[2]) /\ ~Fits(sources, pair[2], pair[1])
    BY <2>1, <2>5 DEF AbortIf, SourcesFit
  <2> QED BY <2>3, <2>4, <2>5
<1>4. CASE TakeModels \/ Round \/ ApplyRules \/ TakeDocs \/ InduceTargets
  <2>1. step # "Aborted" /\ UNCHANGED sources
    BY <1>4 DEF TakeModels, Round, ApplyRules, TakeDocs, InduceTargets
  <2> QED BY <2>1 DEF SourcesFit, OneSource, Namesakes
<1> QED BY <1>1, <1>2, <1>3, <1>4 DEF TargetsNext

\* What fits is one source each.
LEMMA FittingIsOneEach == SourcesFit => OneSourceEach
<1> SUFFICES ASSUME OneSource(sources), NEW e \in sources
             PROVE  LET same == Namesakes(sources, e.file) IN
                    /\ \A g \in same : g # e => Part[g.file] # Part[e.file]
                    /\ Cardinality({g.model : g \in same} \ {NoModel}) <= 1
                    /\ Cardinality(same) <= 2
  BY DEF SourcesFit, OneSourceEach
<1> DEFINE same == Namesakes(sources, e.file)
           behind == {g.model : g \in same} \ {NoModel}
<1>1. \A m, n \in behind : m = n
  BY DEF OneSource, Namesakes
<1>2. behind = {} \/ \E m : behind = {m}
  BY <1>1
<1>3. Cardinality(behind) <= 1
  <2> HIDE DEF behind
  <2>1. CASE behind = {}
    <3>1. Cardinality(behind) = 0
      BY <2>1, FS_EmptySet
    <3> QED BY <3>1
  <2>2. ASSUME NEW m, behind = {m} PROVE Cardinality(behind) <= 1
    <3>1. Cardinality(behind) = 1
      BY <2>2, FS_Singleton
    <3> QED BY <3>1
  <2> QED BY <1>2, <2>1, <2>2
<1> QED BY <1>3 DEF OneSource

\* A product is listed in a directory, and the generator of it is known.
Known(d, o) ==
    /\ <<d, o>> \in targets
    /\ \E g \in generators : g.output = o /\ o \in Generated(g.input)

\* Whatever the generators can make of the files of a directory is known.
MadeKnown(d) == \A f \in FilesOf(d) : \A o \in Made(f) : Known(d, o)

\* What the rules make of the files of a directory is listed.
RuledListed(d) == \A f \in FilesOf(d) : \A t \in Ruled(f) : <<d, t>> \in targets

PendingTyped ==
    /\ \A p \in pending : \E f \in DOMAIN Kind : \E o \in Generated(f) : p = <<f, o>>
    /\ found \in SUBSET FoundModels

\* The rounds of a directory: of its files, and of the models ms that its
\* rounds found, each product is known, and found when it is a model, unless
\* the product is pending or the model awaits the next round.
Reached(d, ms) ==
    /\ found \subseteq ms
    /\ \A f \in FilesOf(d) \cup ms : \A o \in Generated(f) :
        \/ Known(d, o) /\ (o \in FoundModels => o \in ms)
        \/ <<f, o>> \in pending
        \/ f \in found

Generating == step = "Generate" => \E ms \in SUBSET FoundModels : Reached(Here, ms)

\* The directories that are behind: all that is made of their files is known.
Behind(d) == MadeKnown(d) /\ RuledListed(d)

Listed ==
    /\ step = "Rules" => MadeKnown(Here)
    /\ \A d \in Searched : (\E i \in DOMAIN ahead : ahead[i] = d) \/ Behind(d)

ListingInv ==
    TreeTyped /\ Position /\ PendingTyped /\ Generating /\ Listed /\ EveryProductIsListed

\* With nothing pending and no model found, the models of the rounds are all
\* that lie between a file and what is made of it.
LEMMA RoundsReachAll ==
    ASSUME NEW d, NEW ms \in SUBSET FoundModels, Reached(d, ms), pending = {}, found = {}
    PROVE  MadeKnown(d)
<1> SUFFICES ASSUME NEW f \in FilesOf(d), NEW o \in Made(f) PROVE Known(d, o)
  BY DEF MadeKnown
<1>1. \A g \in {f} \cup ms : \A p \in Generated(g) :
          Known(d, p) /\ (p \in FoundModels => p \in ms)
  BY DEF Reached
<1>2. Between(f) \subseteq ms
  BY <1>1 DEF Between
<1>3. PICK g \in {f} \cup Between(f) : o \in Generated(g)
  BY DEF Made
<1> QED BY <1>1, <1>2, <1>3

\* Nothing that is known or listed is forgotten.
LEMMA KnownStays ==
    ASSUME NEW d, targets \subseteq targets', generators \subseteq generators', UNCHANGED tree
    PROVE  /\ \A o : Known(d, o) => Known(d, o)'
           /\ MadeKnown(d) => MadeKnown(d)'
           /\ RuledListed(d) => RuledListed(d)'
<1>1. \A o : Known(d, o) => Known(d, o)'
  BY DEF Known
<1>2. FilesOf(d)' = FilesOf(d)
  BY DEF FilesOf
<1>3. \A f \in FilesOf(d) : Made(f)' = Made(f)
  BY DEF Made, Between, FoundModels
<1> QED BY <1>1, <1>2, <1>3 DEF MadeKnown, RuledListed

\* A step adds to the targets and to the generators and leaves the files.
LEMMA StepsAdd ==
    ASSUME TargetsNext
    PROVE  targets \subseteq targets' /\ generators \subseteq generators' /\ UNCHANGED tree
  BY DEF TargetsNext, TakeModels, TakeSources, TakeDos, Generate, Round, ApplyRules,
         TakeDocs, InduceTargets

LEMMA PositionStays ==
    ASSUME TargetsAssumption, Position, TargetsNext
    PROVE  Position'
<1>1. CASE ApplyRules
  <2>1. ahead \in Seq(Searched) /\ ahead # <<>>
    BY <1>1 DEF ApplyRules, Position
  <2>2. Tail(ahead) \in Seq(Searched)
    BY <2>1
  <2> QED BY <1>1, <2>2 DEF ApplyRules, Position
<1>2. CASE TakeModels \/ TakeSources \/ TakeDos \/ Generate \/ Round \/ TakeDocs \/ InduceTargets
  BY <1>2 DEF Position, TakeModels, TakeSources, TakeDos, Generate, Round, TakeDocs,
              InduceTargets, AbortIf
<1> QED BY <1>1, <1>2 DEF TargetsNext

LEMMA PendingStaysTyped ==
    ASSUME TargetsAssumption, TreeTyped, Position, PendingTyped, TargetsNext
    PROVE  PendingTyped'
<1>1. CASE TakeDos
  <2>1. FilesOf(Here) \subseteq DOMAIN Kind
    BY <1>1, FilesAreFinite DEF TakeDos, Position, Here
  <2>2. pending' = UNION {{<<f, o>> : o \in Generated(f)} : f \in FilesOf(Here)}
    BY <1>1 DEF TakeDos, FilesOf
  <2>3. \A p \in pending' : \E f \in DOMAIN Kind : \E o \in Generated(f) : p = <<f, o>>
    BY <2>1, <2>2
  <2> QED BY <1>1, <2>3 DEF TakeDos, PendingTyped, FoundModels
<1>2. CASE Round
  <2>1. found \subseteq DOMAIN Kind
    BY DEF PendingTyped, FoundModels
  <2>2. \A p \in pending' : \E f \in DOMAIN Kind : \E o \in Generated(f) : p = <<f, o>>
    BY <1>2, <2>1 DEF Round
  <2> QED BY <1>2, <2>2 DEF Round, PendingTyped
<1>3. CASE Generate
  BY <1>3 DEF Generate, PendingTyped, FoundModels
<1>4. CASE TakeModels \/ TakeSources \/ ApplyRules \/ TakeDocs \/ InduceTargets
  BY <1>4 DEF TakeModels, TakeSources, ApplyRules, TakeDocs, InduceTargets, PendingTyped,
              FoundModels
<1> QED BY <1>1, <1>2, <1>3, <1>4 DEF TargetsNext

\* A product of a directory of the build path is listed in it.
LEMMA ListedHere ==
    ASSUME TargetsAssumption, NEW d \in Searched, NEW new \in SUBSET DOMAIN Kind, NEW t \in new
    PROVE  <<d, t>> \in List(d, new)
<1>1. d \in ListedIn(d, t)
  BY DEF TargetsAssumption, Searched
<1> QED BY <1>1 DEF List

\* The first round of a directory: everything that is made of its files is
\* pending.
LEMMA FirstRound ==
    ASSUME TargetsAssumption, TreeTyped, Position, TakeDos
    PROVE  Generating'
<1>1. /\ Here' = Here /\ found' = {} /\ UNCHANGED tree
      /\ pending' = UNION {{<<f, o>> : o \in Generated(f)} : f \in FilesOf(Here)}
  BY DEF TakeDos, Position, Here, FilesOf
<1>2. ASSUME NEW d \in Searched, d = Here PROVE Reached(d, {})'
  <2>1. FilesOf(d)' = FilesOf(d)
    BY <1>1 DEF FilesOf
  <2> QED BY <1>1, <1>2, <2>1 DEF Reached
<1>3. Here \in Searched
  BY DEF TakeDos, Position, Here
<1>4. Reached(Here, {})'
  BY <1>1, <1>2, <1>3
<1> QED BY <1>4 DEF Generating

LEMMA OneGenerated ==
    ASSUME TargetsAssumption, TreeTyped, Position, PendingTyped, NEW d \in Searched, d = Here,
           NEW ms \in SUBSET FoundModels, Reached(d, ms), Generate
    PROVE  \E more \in SUBSET FoundModels : Reached(d, more)'
<1>1. PICK pair \in pending :
          /\ generators' = generators \cup {[output |-> pair[2], input |-> pair[1]]}
          /\ targets' = targets \cup List(Here, {pair[2]})
          /\ found' = found \cup ({pair[2]} \cap FoundModels)
          /\ pending' = pending \ {pair}
  BY DEF Generate
<1>0. PICK g \in DOMAIN Kind : \E o \in Generated(g) : pair = <<g, o>>
  BY DEF PendingTyped
<1>2. PICK o \in Generated(g) : pair = <<g, o>>
  BY <1>0
<1>3. Known(d, o)'
  <2>1. o \in DOMAIN Kind
    BY <1>2 DEF TargetsAssumption
  <2>2. <<d, o>> \in targets'
    BY <1>1, <1>2, <2>1, ListedHere
  <2>3. \E h \in generators' : h.output = o /\ o \in Generated(h.input)
    <3>1. [output |-> o, input |-> g] \in generators'
      BY <1>1, <1>2
    <3> QED BY <3>1, <1>2
  <2> QED BY <2>2, <2>3 DEF Known
<1>4. \A p : Known(d, p) => Known(d, p)'
  BY KnownStays, StepsAdd DEF TargetsNext
<1> DEFINE more == ms \cup ({o} \cap FoundModels)
<1>5. FilesOf(d)' = FilesOf(d)
  BY DEF FilesOf, Generate
<1>6. found' \subseteq more /\ found \subseteq found' /\ pending' = pending \ {<<g, o>>}
  BY <1>1, <1>2 DEF Reached
<1>7. ASSUME NEW f \in FilesOf(d) \cup more, NEW p \in Generated(f)
      PROVE  \/ Known(d, p)' /\ (p \in FoundModels => p \in more)
             \/ <<f, p>> \in pending'
             \/ f \in found'
  <2>1. CASE f \in FilesOf(d) \cup ms
    <3>1. \/ Known(d, p) /\ (p \in FoundModels => p \in ms)
          \/ <<f, p>> \in pending
          \/ f \in found
      BY <2>1 DEF Reached
    <3>2. CASE <<f, p>> = <<g, o>>
      BY <1>3, <3>2
    <3>3. CASE <<f, p>> # <<g, o>>
      BY <1>4, <1>6, <3>1, <3>3
    <3> QED BY <3>2, <3>3
  <2>2. CASE f \notin FilesOf(d) \cup ms
    <3>1. f = o /\ o \in FoundModels
      BY <1>7, <2>2
    <3>2. f \in found'
      BY <1>1, <1>2, <3>1
    <3> QED BY <3>2
  <2> QED BY <2>1, <2>2
<1>8. more \in SUBSET FoundModels /\ Reached(d, more)'
  BY <1>5, <1>6, <1>7 DEF Reached, FoundModels
<1> QED BY <1>8

LEMMA NextRound ==
    ASSUME TargetsAssumption, TreeTyped, Position, PendingTyped, NEW d \in Searched, d = Here,
           NEW ms \in SUBSET FoundModels, Reached(d, ms), Round
    PROVE  Reached(d, ms)' /\ (step' = "Rules" => MadeKnown(d)')
<1>1. /\ pending = {} /\ found' = {}
      /\ pending' = UNION {{<<f, o>> : o \in Generated(f)} : f \in found}
      /\ step' = "Rules" => found = {}
      /\ UNCHANGED <<tree, targets, generators>>
  BY DEF Round
<1>2. /\ \A p : Known(d, p) => Known(d, p)'
      /\ MadeKnown(d) => MadeKnown(d)'
  BY <1>1, KnownStays
<1>3. FilesOf(d)' = FilesOf(d)
  BY <1>1 DEF FilesOf
<1>4. ASSUME NEW f \in FilesOf(d) \cup ms, NEW o \in Generated(f)
      PROVE  \/ Known(d, o)' /\ (o \in FoundModels => o \in ms)
             \/ <<f, o>> \in pending'
  <2>1. CASE f \in found
    BY <1>1, <2>1
  <2>2. CASE f \notin found
    BY <1>1, <1>2, <2>2 DEF Reached
  <2> QED BY <2>1, <2>2
<1>5. Reached(d, ms)'
  BY <1>1, <1>3, <1>4 DEF Reached, FoundModels
<1>6. step' = "Rules" => MadeKnown(d)'
  BY <1>1, <1>2, RoundsReachAll
<1> QED BY <1>5, <1>6

LEMMA GeneratingStays ==
    ASSUME TargetsAssumption, TreeTyped, Position, PendingTyped, Generating, TargetsNext
    PROVE  Generating' /\ (step' = "Rules" => MadeKnown(Here)')
<1>1. CASE TakeDos
  BY <1>1, FirstRound DEF TakeDos, AbortIf
<1>2. CASE Generate \/ Round
  <2>1. PICK ms \in SUBSET FoundModels : Reached(Here, ms)
    BY <1>2 DEF Generate, Round, Generating
  <2>2. Here \in Searched /\ Here' = Here
    <3>1. ahead \in Seq(Searched) /\ UNCHANGED ahead
      BY <1>2 DEF Generate, Round, Position
    <3>2. ahead # <<>>
      BY <1>2 DEF Generate, Round, Position
    <3> QED BY <3>1, <3>2 DEF Here
  <2>3. ASSUME NEW d \in Searched, d = Here
        PROVE  /\ \E more \in SUBSET FoundModels : Reached(d, more)'
               /\ step' = "Rules" => MadeKnown(d)'
    <3>1. CASE Generate
      BY <2>1, <2>3, <3>1, OneGenerated DEF Generate, AbortIf
    <3>2. CASE Round
      BY <2>1, <2>3, <3>2, NextRound
    <3> QED BY <1>2, <3>1, <3>2
  <2>4. /\ \E more \in SUBSET FoundModels : Reached(Here, more)'
        /\ step' = "Rules" => MadeKnown(Here)'
    BY <2>2, <2>3
  <2> QED BY <2>4 DEF Generating, FoundModels
<1>3. CASE TakeModels \/ TakeSources \/ ApplyRules \/ TakeDocs \/ InduceTargets
  BY <1>3 DEF Generating, TakeModels, TakeSources, ApplyRules, TakeDocs, InduceTargets, AbortIf
<1> QED BY <1>1, <1>2, <1>3 DEF TargetsNext

\* A directory is left behind with all that is made of its files.
LEMMA ListedStays ==
    ASSUME TargetsAssumption, TreeTyped, Position, PendingTyped, Generating, Listed, TargetsNext
    PROVE  Listed'
<1>1. step' = "Rules" => MadeKnown(Here)'
  BY GeneratingStays
<1>2. ASSUME NEW d \in Searched
      PROVE  (\E i \in DOMAIN ahead' : ahead'[i] = d) \/ Behind(d)'
  <2>1. /\ MadeKnown(d) => MadeKnown(d)'
        /\ RuledListed(d) => RuledListed(d)'
    BY KnownStays, StepsAdd
  <2>2. CASE Behind(d)
    BY <2>1, <2>2 DEF Behind
  <2>3. ASSUME NEW i \in DOMAIN ahead, ahead[i] = d, ApplyRules
        PROVE  (\E j \in DOMAIN ahead' : ahead'[j] = d) \/ Behind(d)'
    <3>1. ahead \in Seq(Searched) /\ ahead # <<>> /\ ahead' = Tail(ahead)
      BY <2>3 DEF Position, ApplyRules
    <3>2. CASE i # 1
      <4>1. i - 1 \in DOMAIN ahead' /\ ahead'[i - 1] = d
        BY <2>3, <3>1, <3>2
      <4> QED BY <4>1
    <3>3. CASE i = 1
      <4>1. Here = d
        BY <2>3, <3>1, <3>3 DEF Here
      <4>2. MadeKnown(d)
        BY <2>3, <4>1 DEF ApplyRules, Listed
      <4>3. targets' = targets \cup
                List(Here, (UNION {Ruled(tree[Here][k]) : k \in DOMAIN tree[Here]}) \cup DoRuled(Here))
        BY <2>3 DEF ApplyRules
      <4>4. targets' = targets \cup
                List(d, (UNION {Ruled(tree[d][k]) : k \in DOMAIN tree[d]}) \cup DoRuled(d))
        BY <4>1, <4>3
      <4>5. ASSUME NEW f \in FilesOf(d), NEW t \in Ruled(f)
            PROVE  <<d, t>> \in targets'
        <5>1. d \in ListedIn(d, t)
          BY FilesAreFinite DEF TargetsAssumption, Searched
        <5>2. t \in UNION {Ruled(tree[d][k]) : k \in DOMAIN tree[d]}
          BY DEF FilesOf
        <5> QED BY <4>4, <5>1, <5>2 DEF List
      <4>6. RuledListed(d)'
        <5>1. FilesOf(d)' = FilesOf(d)
          BY <2>3 DEF ApplyRules, FilesOf
        <5> QED BY <4>5, <5>1 DEF RuledListed
      <4> QED BY <2>1, <4>2, <4>6 DEF Behind
    <3> QED BY <3>2, <3>3
  <2>4. ASSUME NEW i \in DOMAIN ahead, ahead[i] = d, ~ApplyRules
        PROVE  \E j \in DOMAIN ahead' : ahead'[j] = d
    <3>1. UNCHANGED ahead
      BY <2>4 DEF TargetsNext, TakeModels, TakeSources, TakeDos, Generate, Round, TakeDocs,
                  InduceTargets
    <3> QED BY <2>4, <3>1
  <2> QED BY <2>2, <2>3, <2>4 DEF Listed
<1> QED BY <1>1, <1>2 DEF Listed

\* The second level is made of what all directories have then.
LEMMA ProductsStayListed ==
    ASSUME TargetsAssumption, TreeTyped, Position, Listed, TargetsNext
    PROVE  EveryProductIsListed'
<1> SUFFICES ASSUME InduceTargets
             PROVE  EveryProductIsListed'
  BY DEF TargetsNext, EveryProductIsListed, TakeModels, TakeSources, TakeDos, Generate, Round,
         ApplyRules, TakeDocs, AbortIf
<1>1. /\ targets' = targets \cup UNION {{<<p[1], t>> : t \in Ruled(p[2])} : p \in targets}
      /\ ahead = <<>>
      /\ UNCHANGED <<tree, generators>>
  BY DEF InduceTargets, Position
<1>2. ASSUME NEW d \in Searched, NEW i \in DOMAIN tree[d]
      PROVE  LET f == tree[d][i]
                 first == Made(f) \cup Ruled(f)
             IN  /\ \A o \in Made(f) : \E g \in generators : g.output = o /\ o \in Generated(g.input)
                 /\ \A t \in first \cup UNION {Ruled(o) : o \in first} : <<d, t>> \in targets'
  <2> DEFINE f == tree[d][i]
             first == Made(f) \cup Ruled(f)
  <2>1. Behind(d) /\ f \in FilesOf(d)
    BY <1>1 DEF Listed, FilesOf
  <2>2. \A o \in Made(f) : <<d, o>> \in targets /\ \E g \in generators : g.output = o /\ o \in Generated(g.input)
    BY <2>1 DEF Behind, MadeKnown, Known
  <2>3. \A t \in first : <<d, t>> \in targets
    BY <2>1, <2>2 DEF Behind, RuledListed
  <2>4. ASSUME NEW o \in first, NEW t \in Ruled(o) PROVE <<d, t>> \in targets'
    <3> DEFINE p == <<d, o>>
    <3>1. p \in targets /\ p[1] = d /\ p[2] = o
      BY <2>3
    <3> HIDE DEF p, first
    <3>2. <<d, t>> \in {<<p[1], u>> : u \in Ruled(p[2])}
      BY <3>1
    <3> QED BY <1>1, <3>1, <3>2
  <2>5. \A t \in first \cup UNION {Ruled(o) : o \in first} : <<d, t>> \in targets'
    <3> HIDE DEF first
    <3> QED BY <1>1, <2>3, <2>4
  <2> QED BY <2>2, <2>5
<1>3. \A f : Made(f)' = Made(f)
  BY DEF Made, Between, FoundModels
<1> QED BY <1>1, <1>2, <1>3 DEF EveryProductIsListed

LEMMA ListingStart ==
    ASSUME TargetsAssumption, TreeTyped, TargetsStart
    PROVE  ListingInv /\ SourcesFit
<1>1. Position
  BY DEF TargetsStart, Position, TargetsAssumption, Searched
<1>2. PendingTyped /\ Generating /\ EveryProductIsListed
  BY DEF TargetsStart, PendingTyped, Generating, EveryProductIsListed
<1>3. Listed
  BY DEF TargetsStart, Listed, Searched
<1>4. SourcesFit
  BY FS_EmptySet DEF TargetsStart, SourcesFit, OneSource
<1> QED BY <1>1, <1>2, <1>3, <1>4 DEF ListingInv

LEMMA ListingStays ==
    ASSUME TargetsAssumption, ListingInv, SourcesFit, [TargetsNext]_targetsVars
    PROVE  ListingInv' /\ SourcesFit'
<1>1. CASE TargetsNext
  <2>1. TreeTyped'
    BY <1>1, StepsAdd DEF ListingInv, TreeTyped, Searched
  <2> QED BY <1>1, <2>1, SourcesKeepFitting, PositionStays, PendingStaysTyped, GeneratingStays,
             ListedStays, ProductsStayListed DEF ListingInv
<1>2. CASE UNCHANGED targetsVars
  <2>1. UNCHANGED <<tree, step, ahead, models, sources, generators, pending, found, targets>>
    BY <1>2 DEF targetsVars
  <2>2. /\ \A d : FilesOf(d)' = FilesOf(d)
        /\ \A f : Made(f)' = Made(f)
    BY <2>1 DEF FilesOf, Made, Between, FoundModels
  <2>3. SourcesFit' /\ TreeTyped' /\ Position' /\ PendingTyped'
    BY <2>1 DEF ListingInv, SourcesFit, OneSource, Namesakes, TreeTyped, Position, PendingTyped,
                FoundModels, Searched
  <2>4. EveryProductIsListed'
    BY <2>1, <2>2 DEF ListingInv, EveryProductIsListed
  <2>5. Listed' /\ Generating'
    BY <2>1, <2>2 DEF ListingInv, Listed, Generating, Here, MadeKnown, RuledListed, Behind, Known,
                      Reached, FoundModels
  <2> QED BY <2>1, <2>3, <2>4, <2>5 DEF ListingInv
<1> QED BY <1>1, <1>2

\* Whatever the build path holds and in whatever order the generators of a
\* file come (create() of create.py), the databases that are filled without an
\* abort list every product of every file, and have one source each.
THEOREM DatabasesFill ==
    ASSUME TargetsAssumption
    PROVE  TreeTyped /\ TargetsStart /\ [][TargetsNext]_targetsVars => []DatabasesAreFilled
<1>1. TreeTyped /\ TargetsStart => ListingInv /\ SourcesFit
  BY ListingStart
<1>2. ListingInv /\ SourcesFit /\ [TargetsNext]_targetsVars => (ListingInv /\ SourcesFit)'
  BY ListingStays
<1>3. ListingInv /\ SourcesFit => DatabasesAreFilled
  BY FittingIsOneEach DEF ListingInv, DatabasesAreFilled
<1> QED BY <1>1, <1>2, <1>3, PTL

\* A set of numbers has a least one.
LEMMA LeastExists ==
    ASSUME NEW T \in SUBSET Nat, T # {}
    PROVE  \E m \in T : \A n \in T : m <= n
<1> DEFINE Less == {p \in Nat \X Nat : p[1] < p[2]}
<1>1. OpToRel(<, Nat) = Less
  BY DEF OpToRel
<1>2. IsWellFoundedOn(Less, Nat)
  BY <1>1, NatLessThanWellFounded
<1>3. PICK m \in T : \A n \in T : ~(<<n, m>> \in Less)
  BY <1>2, WFMin
<1>4. ASSUME NEW n \in T PROVE m <= n
  <2>1. m \in Nat /\ n \in Nat
    OBVIOUS
  <2>2. ~(n < m)
    BY <1>3, <2>1
  <2> QED BY <2>1, <2>2
<1> QED BY <1>4

-----------------------------------------------------------------------------
(* Loading: what the cache holds of a model was told of the model it is of. *)

IsPart(a) == \E b \in AssemblyFiles : a \in Models!Range(PartsOf[b])

\* An assembly as it is with: whole, or as a part of some other.
KeptAssembly(a, model) ==
    /\ model \in Models!Objects /\ model.file = a
    /\ \/ model.as = "whole" /\ model.told = Models!SubmodelFiles(a)
       \/ model.as = "part" /\ IsPart(a)

\* A submodel that was told: by its component, or by an assembly that holds
\* it, which has finished it too.
ToldSubmodel(s, model) ==
    /\ model \in Models!Submodels /\ model.file = s /\ model.told /\ model.owner \in Models!Objects
    /\ \/ model.owner.file \in ComponentFiles /\ s \in NamedBy[model.owner.file]
       \/ /\ model.owner.file \in AssemblyFiles /\ s \in Models!SubmodelFiles(model.owner.file)
          /\ model.finished

SoundAt(store, m) ==
    \/ store[m] = Unset
    \/ m \in ComponentFiles /\ store[m] = Models!ComponentOf(m)
    \/ m \in AssemblyFiles /\ KeptAssembly(m, store[m])
    \/ m \notin Models!Owners /\ (store[m] = Models!Untold(m) \/ ToldSubmodel(m, store[m]))

Sound(store) == store \in Models!Stores /\ \A m \in Models!Models : SoundAt(store, m)

\* What a load makes of a sound cache.
SoundLoad(a, as, r) ==
    /\ Sound(r.store)
    /\ \/ r.model = Unset
       \/ KeptAssembly(a, r.model)
       \/ as = "shallow" /\ r.model \in Models!Objects /\ r.model.file = a

PartLoads(load) ==
    \A a \in AssemblyFiles : IsPart(a) =>
        \A store \in Models!Stores : Sound(store) => SoundLoad(a, "part", load[a][store])

-----------------------------------------------------------------------------

LEMMA WithSubmodelsSound ==
    ASSUME Models!LoadingAssumption, NEW store, Sound(store), NEW submodels,
           submodels \cap Models!Owners = {}
    PROVE  Sound(Models!WithSubmodels(store, submodels))
<1> DEFINE with == Models!WithSubmodels(store, submodels)
<1>1. /\ store \in [Models!Models -> Models!Objects \cup Models!Submodels \cup {Unset}]
      /\ \A m \in Models!Models : SoundAt(store, m)
  BY DEF Sound, Models!Stores
<1>2. \A m \in Models!Models : Models!Untold(m) \in Models!Submodels
  BY DEF Models!Untold, Models!Submodels
<1>3. with = [m \in Models!Models |-> IF m \in submodels /\ store[m] = Unset THEN Models!Untold(m) ELSE store[m]]
  BY DEF Models!WithSubmodels
<1> HIDE DEF with
<1>4. with \in Models!Stores
  BY <1>1, <1>2, <1>3 DEF Models!Stores
<1>5. ASSUME NEW m \in Models!Models PROVE SoundAt(with, m)
  <2>1. CASE m \in submodels /\ store[m] = Unset
    <3>1. with[m] = Models!Untold(m) /\ m \notin Models!Owners
      BY <1>3, <2>1
    <3>. QED BY <3>1 DEF SoundAt
  <2>2. CASE ~(m \in submodels /\ store[m] = Unset)
    <3>1. with[m] = store[m] /\ SoundAt(store, m)
      BY <1>1, <1>3, <2>2
    <3>. QED BY <3>1 DEF SoundAt
  <2>. QED BY <2>1, <2>2
<1>. QED BY <1>4, <1>5 DEF Sound, with

LEMMA ComponentsSound ==
    ASSUME Models!LoadingAssumption, NEW store, Sound(store), NEW of, of \subseteq ComponentFiles
    PROVE  /\ Sound(Models!LoadComponents(store, of))
           /\ \A c \in of : Models!LoadComponents(store, of)[c] = Models!ComponentOf(c)
<1> DEFINE new == {c \in of : store[c] = Unset}
           submodels == UNION {NamedBy[c] : c \in new}
           loaded == Models!WithSubmodels(store, submodels)
           with == Models!LoadComponents(store, of)
<1>1. /\ submodels \cap Models!Owners = {} /\ new \subseteq ComponentFiles /\ ComponentFiles \subseteq Models!Owners
      /\ Models!Owners \subseteq Models!Models
  BY DEF Models!LoadingAssumption, Models!Owners, Models!Models
<1>2. Sound(loaded)
  BY <1>1, WithSubmodelsSound
<1>3. with = [m \in Models!Models |-> IF m \in new THEN Models!ComponentOf(m) ELSE loaded[m]]
  BY DEF Models!LoadComponents
<1>4. \A c \in ComponentFiles : Models!ComponentOf(c) \in Models!Objects
  BY <1>1 DEF Models!ComponentOf, Models!Objects, Models!Ways, Models!Models, Models!Owners
<1>5. \A m \in new : m \in ComponentFiles
  OBVIOUS
<1>6. \A c \in of : c \notin new => loaded[c] = Models!ComponentOf(c)
  <2> SUFFICES ASSUME NEW c \in of, c \notin new PROVE loaded[c] = Models!ComponentOf(c)
    OBVIOUS
  <2>1. c \in ComponentFiles /\ c \in Models!Models /\ c \in Models!Owners /\ c \notin AssemblyFiles /\ store[c] # Unset
    BY <1>1 DEF Models!LoadingAssumption
  <2>2. store[c] = Models!ComponentOf(c)
    BY <2>1 DEF Sound, SoundAt
  <2>3. loaded[c] = store[c]
    BY <2>1 DEF Models!WithSubmodels
  <2>. QED BY <2>2, <2>3
<1> HIDE DEF with, loaded, new
<1>7. with \in Models!Stores
  BY <1>2, <1>3, <1>4, <1>5 DEF Models!Stores, Sound
<1>8. ASSUME NEW m \in Models!Models PROVE SoundAt(with, m)
  <2>1. CASE m \in new
    BY <1>3, <1>5, <2>1 DEF SoundAt
  <2>2. CASE m \notin new
    <3>1. with[m] = loaded[m] /\ SoundAt(loaded, m)
      BY <1>2, <1>3, <2>2 DEF Sound
    <3>. QED BY <3>1 DEF SoundAt
  <2>. QED BY <2>1, <2>2
<1>9. \A c \in of : with[c] = Models!ComponentOf(c)
  BY <1>1, <1>3, <1>6 DEF new
<1>. QED BY <1>7, <1>8, <1>9 DEF Sound, with

\* The function of LoadParts unfolds.
PartsAfter(after, load, store, parts, n) ==
    /\ after = [k \in 0..n |->
          IF k = 0 THEN [store |-> store, model |-> <<>>]
          ELSE IF after[k - 1].model = Unset THEN after[k - 1]
          ELSE load[parts[k]][after[k - 1].store]]
    /\ Models!LoadParts(load, store, parts) = after[n]

LEMMA PartsUnfold ==
    ASSUME NEW load, NEW store, NEW parts, NEW n \in Nat, Len(parts) = n
    PROVE  \E after : PartsAfter(after, load, store, parts, n)
<1> DEFINE next(f, m) == [k \in 0..m |->
                    IF k = 0 THEN [store |-> store, model |-> <<>>]
                    ELSE IF f[k - 1].model = Unset THEN f[k - 1]
                    ELSE load[parts[k]][f[k - 1].store]]
           Lacking == {m \in 0..n : ~ \E f : f = next(f, m)}
<1>1. Lacking = {}
  <2> SUFFICES ASSUME Lacking # {} PROVE FALSE
    OBVIOUS
  <2>1. PICK m \in Lacking : \A i \in Lacking : m <= i
    <3>1. Lacking \in SUBSET Nat
      OBVIOUS
    <3>. QED BY <3>1, LeastExists
  <2>2. m # 0
    <3>1. SUFFICES ASSUME m = 0 PROVE FALSE
      OBVIOUS
    <3> DEFINE f == [k \in 0..m |-> [store |-> store, model |-> <<>>]]
    <3>2. f = next(f, m)
      BY <3>1
    <3>. QED BY <3>2
  <2>3. m - 1 \in 0..n /\ m - 1 \notin Lacking /\ m \in 1..n
    <3>1. m \in 0..n /\ m # 0
      BY <2>2
    <3>2. m \in 1..n /\ m - 1 \in 0..n /\ ~(m <= m - 1)
      BY ONLY <3>1, n \in Nat
    <3>. QED BY ONLY <2>1, <3>2
  <2>4. PICK f : f = next(f, m - 1)
    BY <2>3
  <2> DEFINE g == [k \in 0..m |-> IF k < m THEN f[k]
                    ELSE IF f[k - 1].model = Unset THEN f[k - 1]
                    ELSE load[parts[k]][f[k - 1].store]]
  <2>5. \A k \in 0..m : k = 0 \/ (k - 1 \in 0..m /\ g[k - 1] = f[k - 1])
    BY <2>3
  <2>6. ASSUME NEW k \in 0..m PROVE g[k] = next(g, m)[k]
    <3>1. CASE k = m
      <4>1. g[m - 1] = f[m - 1] /\ m # 0 /\ ~(m < m) /\ m \in 0..m
        <5>1. m # 0 /\ ~(m < m) /\ m \in 0..m
          BY ONLY <2>3, n \in Nat
        <5>. QED BY <2>5, <5>1
      <4>2. g[m] = IF f[m - 1].model = Unset THEN f[m - 1] ELSE load[parts[m]][f[m - 1].store]
        BY <4>1
      <4>3. next(g, m)[m] = IF g[m - 1].model = Unset THEN g[m - 1] ELSE load[parts[m]][g[m - 1].store]
        BY <4>1
      <4>. QED BY <3>1, <4>1, <4>2, <4>3
    <3>2. CASE k # m
      <4>1. k \in 0..(m - 1) /\ g[k] = f[k]
        BY <2>3, <3>2
      <4>2. f[k] = next(f, m - 1)[k]
        BY <2>4
      <4>. QED BY <2>5, <4>1, <4>2
    <3>. QED BY <3>1, <3>2
  <2>7. g = next(g, m)
    BY <2>6
  <2>. QED BY <2>7
<1>2. \E f : f = next(f, n)
  <2>1. n \in 0..n
    BY ONLY n \in Nat
  <2> HIDE DEF next
  <2>. QED BY <1>1, <2>1
<1>3. PICK after : after = (CHOOSE f : f = next(f, n))
  OBVIOUS
<1>4. after = next(after, n)
  BY <1>2, <1>3
<1>5. Models!LoadParts(load, store, parts) = after[n]
  BY <1>3 DEF Models!LoadParts
<1>. QED BY <1>4, <1>5 DEF PartsAfter

LEMMA PartsSound ==
    ASSUME Models!LoadingAssumption, NEW store, Sound(store), NEW a \in AssemblyFiles, NEW load, PartLoads(load)
    PROVE  Sound(Models!LoadParts(load, store, PartsOf[a]).store)
<1> PICK parts : parts = PartsOf[a]
  OBVIOUS
<1> PICK n : n = Len(parts)
  OBVIOUS
<1>1. parts \in Seq(AssemblyFiles) /\ n \in Nat /\ DOMAIN parts = 1..n
  BY LenProperties DEF Models!LoadingAssumption
<1>2. PICK after : PartsAfter(after, load, store, parts, n)
  BY <1>1, PartsUnfold
<1> DEFINE Bad == {k \in 0..n : ~Sound(after[k].store)}
<1>3. ASSUME Bad # {} PROVE FALSE
  <2>1. PICK k \in Bad : \A i \in Bad : k <= i
    <3>1. Bad \in SUBSET Nat
      OBVIOUS
    <3>. QED BY <1>3, <3>1, LeastExists
  <2>2. k \in 0..n /\ ~Sound(after[k].store)
    OBVIOUS
  <2>3. k # 0
    <3>1. 0 \in 0..n
      BY ONLY n \in Nat
    <3>2. after[0] = [store |-> store, model |-> <<>>]
      BY <1>2, <3>1 DEF PartsAfter
    <3>. QED BY <2>2, <3>2
  <2>4. k \in 1..n /\ k - 1 \in 0..n /\ ~(k <= k - 1)
    BY ONLY <2>2, <2>3, n \in Nat
  <2>5. k - 1 \notin Bad
    BY ONLY <2>1, <2>4
  <2>6. Sound(after[k - 1].store)
    BY <2>4, <2>5
  <2>7. parts[k] \in AssemblyFiles /\ IsPart(parts[k])
    <3>1. parts[k] \in Models!Range(parts)
      BY <1>1, <2>4 DEF Models!Range
    <3>2. parts[k] \in AssemblyFiles
      BY <1>1, <2>4, ElementOfSeq
    <3>. QED BY <3>1, <3>2 DEF IsPart
  <2>8. after[k] = IF after[k - 1].model = Unset THEN after[k - 1]
                   ELSE load[parts[k]][after[k - 1].store]
    BY <1>2, <2>2, <2>3 DEF PartsAfter
  <2>9. CASE after[k - 1].model = Unset
    BY <2>2, <2>6, <2>8, <2>9
  <2>10. CASE after[k - 1].model # Unset
    <3>1. after[k - 1].store \in Models!Stores
      BY <2>6 DEF Sound
    <3>2. SoundLoad(parts[k], "part", load[parts[k]][after[k - 1].store])
      BY <2>6, <2>7, <3>1 DEF PartLoads
    <3>3. Sound(after[k].store)
      BY <2>8, <2>10, <3>2 DEF SoundLoad
    <3>. QED BY <2>2, <3>3
  <2>. QED BY <2>9, <2>10
<1>4. n \in 0..n
  BY ONLY <1>1
<1>5. Sound(after[n].store)
  BY <1>3, <1>4
<1>. QED BY <1>2, <1>5 DEF PartsAfter

LEMMA FilesAreSubmodels ==
    ASSUME Models!LoadingAssumption, NEW a \in AssemblyFiles
    PROVE  /\ Models!SubmodelFiles(a) \subseteq Models!Models
           /\ Models!SubmodelFiles(a) \cap Models!Owners = {}
           /\ NamedBy[a] \subseteq Models!SubmodelFiles(a)
           /\ \A s \in Models!SubmodelFiles(a) :
                 \E b \in AssemblyFiles : s \in NamedBy[b] /\ (b = a \/ IsPart(b))
<1>1. a \in Models!Subassemblies(a)
  BY DEF Models!Subassemblies
<1>2. Models!Subassemblies(a) \subseteq AssemblyFiles
  BY DEF Models!Subassemblies
<1>3. ASSUME NEW b \in Models!Subassemblies(a) PROVE b = a \/ IsPart(b)
  <2> DEFINE all == {c \in AssemblyFiles : c = a \/ IsPart(c)}
  <2>1. \A c \in all : Models!Range(PartsOf[c]) \subseteq all
    <3> SUFFICES ASSUME NEW c \in all, NEW p \in Models!Range(PartsOf[c]) PROVE p \in all
      OBVIOUS
    <3>1. IsPart(p)
      BY DEF IsPart
    <3>2. PartsOf[c] \in Seq(AssemblyFiles)
      BY DEF Models!LoadingAssumption
    <3>3. p \in AssemblyFiles
      BY <3>2, ElementOfSeq, LenProperties DEF Models!Range
    <3>. QED BY <3>1, <3>3
  <2>2. all \in SUBSET AssemblyFiles /\ a \in all
    OBVIOUS
  <2>3. b \in all
    <3> HIDE DEF all
    <3>1. \A within \in SUBSET AssemblyFiles :
            a \in within /\ (\A c \in within : Models!Range(PartsOf[c]) \subseteq within) => b \in within
      BY DEF Models!Subassemblies
    <3>. QED BY <2>1, <2>2, <3>1
  <2>. QED BY <2>3
<1>. QED BY <1>1, <1>2, <1>3
         DEF Models!SubmodelFiles, Models!Models, Models!Owners, Models!LoadingAssumption

\* What it is to be told, and finished.
LEMMA TellingIs ==
    ASSUME NEW m \in Models!Models, NEW o \in Models!Objects, NEW submodel,
           submodel \in {Models!SetAssembly(m, o), Models!SetComponent(m, o)}
    PROVE  /\ submodel \in Models!Submodels /\ Models!Final(submodel) \in Models!Submodels
           /\ submodel.file = m /\ submodel.owner = o /\ submodel.told
           /\ Models!Final(submodel).file = m /\ Models!Final(submodel).owner = o
           /\ Models!Final(submodel).told /\ Models!Final(submodel).finished
<1> PICK u : u = Models!Untold(m)
  OBVIOUS
<1>1. u \in Models!Submodels /\ u.file = m
  BY DEF Models!Untold, Models!Submodels
<1>2. submodel = [u EXCEPT !.owner = o, !.told = TRUE]
  BY DEF Models!SetAssembly, Models!SetComponent
<1>3. submodel \in Models!Submodels /\ submodel.file = m /\ submodel.owner = o /\ submodel.told
  BY <1>1, <1>2 DEF Models!Submodels
<1> PICK f : f = [submodel EXCEPT !.finished = TRUE]
  OBVIOUS
<1>4. f \in Models!Submodels /\ f.file = m /\ f.owner = o /\ f.told /\ f.finished
  BY <1>3 DEF Models!Submodels
<1>5. Models!Final(submodel) = f
  BY DEF Models!Final
<1>. QED BY <1>3, <1>4, <1>5

LEMMA LoadWithSound ==
    ASSUME Models!LoadingAssumption, NEW store, Sound(store), NEW a \in AssemblyFiles, NEW as \in Models!Ways,
           as = "part" => IsPart(a), NEW load, PartLoads(load)
    PROVE  SoundLoad(a, as, Models!LoadWith(load, store, a, as))
<1> DEFINE begun == Models!LoadInstances(store, a)
           parts == Models!LoadParts(load, begun, PartsOf[a])
           submodels == Models!SubmodelFiles(a)
           loaded == Models!WithSubmodels(parts.store, submodels)
           object == [file |-> a, as |-> as, told |-> IF as = "whole" THEN submodels ELSE {}]
           saved == [m \in Models!Models |->
                        IF m \in object.told THEN Models!Final(Models!SetAssembly(m, object))
                        ELSE IF m = a /\ Models!Kept(as) THEN object
                        ELSE loaded[m]]
<1>1. Sound(begun)
  <2>1. {i[2] : i \in InstancesOf[a]} \subseteq ComponentFiles
    BY DEF Models!LoadingAssumption
  <2>. QED BY <2>1, ComponentsSound DEF Models!LoadInstances
<1>2. Sound(parts.store)
  BY <1>1, PartsSound
<1>3. /\ submodels \subseteq Models!Models /\ submodels \cap Models!Owners = {}
  BY FilesAreSubmodels
<1>4. Sound(loaded)
  BY <1>2, <1>3, WithSubmodelsSound
<1>5. a \in Models!Owners /\ a \in Models!Models /\ a \notin ComponentFiles /\ a \notin submodels
  BY <1>3 DEF Models!Owners, Models!Models, Models!LoadingAssumption
<1>6. Models!LoadWith(load, store, a, as) =
        IF store[a] # Unset THEN [store |-> store, model |-> store[a]]
        ELSE IF parts.model = Unset \/ ~Models!Mergeable(a) THEN [store |-> parts.store, model |-> Unset]
        ELSE [store |-> saved, model |-> object]
  BY DEF Models!LoadWith
<1> HIDE DEF begun, parts, submodels, loaded
<1>7. object \in Models!Objects /\ object.file = a /\ object.told \subseteq submodels
  BY <1>3, <1>5 DEF Models!Objects
<1>8. as # "shallow" => KeptAssembly(a, object)
  BY <1>7 DEF KeptAssembly, submodels, Models!Ways
<1>9. Sound(saved)
  <2>1. ASSUME NEW m \in object.told
        PROVE  /\ Models!Final(Models!SetAssembly(m, object)) \in Models!Submodels
               /\ ToldSubmodel(m, Models!Final(Models!SetAssembly(m, object)))
    <3>1. m \in Models!Models /\ m \in Models!SubmodelFiles(a)
      BY <1>3, <1>7 DEF submodels
    <3> HIDE DEF object
    <3>2. PICK submodel : submodel = Models!SetAssembly(m, object)
      OBVIOUS
    <3>. QED BY <1>7, <3>1, <3>2, TellingIs DEF ToldSubmodel
  <2>2. /\ loaded \in [Models!Models -> Models!Objects \cup Models!Submodels \cup {Unset}]
        /\ \A m \in Models!Models : SoundAt(loaded, m)
    BY <1>4 DEF Sound, Models!Stores
  <2>3. \A m \in object.told : m \notin Models!Owners
    BY <1>3, <1>7
  <2>4. saved \in Models!Stores
    BY <1>7, <2>1, <2>2 DEF Models!Stores
  <2>5. ASSUME NEW m \in Models!Models PROVE SoundAt(saved, m)
    <3>1. CASE m \in object.told
      <4>1. saved[m] = Models!Final(Models!SetAssembly(m, object))
        BY <3>1
      <4> HIDE DEF saved
      <4>. QED BY <2>1, <2>3, <3>1, <4>1 DEF SoundAt
    <3>2. CASE m \notin object.told /\ m = a /\ Models!Kept(as)
      <4>1. saved[m] = object
        BY <3>2
      <4> HIDE DEF saved, object
      <4>. QED BY <1>8, <3>2, <4>1 DEF SoundAt, Models!Kept
    <3>3. CASE m \notin object.told /\ ~(m = a /\ Models!Kept(as))
      <4>1. saved[m] = loaded[m] /\ SoundAt(loaded, m)
        BY <2>2, <3>3
      <4> HIDE DEF saved
      <4>. QED BY <4>1 DEF SoundAt
    <3>. QED BY <3>1, <3>2, <3>3
  <2> HIDE DEF saved
  <2>. QED BY <2>4, <2>5 DEF Sound
<1>10. CASE store[a] # Unset
  <2>1. KeptAssembly(a, store[a])
    BY <1>5, <1>10 DEF Sound, SoundAt
  <2> HIDE DEF object, saved
  <2>2. Models!LoadWith(load, store, a, as) = [store |-> store, model |-> store[a]]
    BY <1>6, <1>10
  <2>3. ASSUME NEW r, r = [store |-> store, model |-> store[a]] PROVE SoundLoad(a, as, r)
    BY <2>1, <2>3 DEF SoundLoad
  <2>. QED BY <2>2, <2>3
<1>11. CASE store[a] = Unset
  <2>1. as = "shallow" \/ KeptAssembly(a, object)
    BY <1>8
  <2> HIDE DEF saved, object
  <2>2. \/ Models!LoadWith(load, store, a, as) = [store |-> parts.store, model |-> Unset]
        \/ Models!LoadWith(load, store, a, as) = [store |-> saved, model |-> object]
    BY <1>6, <1>11
  <2>3. ASSUME NEW r, r = [store |-> parts.store, model |-> Unset] PROVE SoundLoad(a, as, r)
    BY <1>2, <2>3 DEF SoundLoad
  <2>4. ASSUME NEW r, r = [store |-> saved, model |-> object] PROVE SoundLoad(a, as, r)
    BY <1>7, <1>9, <2>1, <2>4 DEF SoundLoad
  <2>. QED BY <2>2, <2>3, <2>4
<1>. QED BY <1>10, <1>11

\* The function LoadPart unfolds.
LEMMA LoadPartUnfolds ==
    ASSUME Models!LoadingAssumption
    PROVE  Models!LoadPart = [deeper \in 0..Depth |->
              [a \in AssemblyFiles |-> [store \in Models!Stores |->
                  IF deeper = 0 THEN [store |-> store, model |-> store[a]]
                  ELSE Models!LoadWith(Models!LoadPart[deeper - 1], store, a, "part")]]]
<1> DEFINE loaded(f, k) == [a \in AssemblyFiles |-> [store \in Models!Stores |->
                            IF k = 0 THEN [store |-> store, model |-> store[a]]
                            ELSE Models!LoadWith(f[k - 1], store, a, "part")]]
           next(f, m) == [k \in 0..m |-> loaded(f, k)]
           Lacking == {m \in 0..Depth : ~ \E f : f = next(f, m)}
<1>1. Depth \in Nat
  BY DEF Models!LoadingAssumption
<1>2. ASSUME NEW f, NEW g, NEW k, k = 0 \/ f[k - 1] = g[k - 1]
      PROVE  loaded(f, k) = loaded(g, k)
  <2>1. CASE k = 0
    BY <2>1
  <2>2. CASE k # 0
    BY <1>2, <2>2
  <2>. QED BY <2>1, <2>2
<1> HIDE DEF loaded
<1>3. Lacking = {}
  <2> SUFFICES ASSUME Lacking # {} PROVE FALSE
    OBVIOUS
  <2>1. PICK m \in Lacking : \A i \in Lacking : m <= i
    <3>1. Lacking \in SUBSET Nat
      OBVIOUS
    <3>. QED BY <3>1, LeastExists
  <2>2. m # 0
    <3>1. SUFFICES ASSUME m = 0 PROVE FALSE
      OBVIOUS
    <3> DEFINE f == [k \in 0..m |-> loaded(0, k)]
    <3>2. \A k \in 0..m : loaded(0, k) = loaded(f, k)
      BY <1>2, <3>1
    <3>3. f = next(f, m)
      BY <3>2
    <3>. QED BY <3>3
  <2>3. m - 1 \in 0..Depth /\ m - 1 \notin Lacking /\ m \in 1..Depth
    <3>1. m \in 0..Depth /\ m # 0
      BY <2>2
    <3>2. m \in 1..Depth /\ m - 1 \in 0..Depth /\ ~(m <= m - 1)
      BY ONLY <1>1, <3>1
    <3>. QED BY ONLY <2>1, <3>2
  <2>4. PICK f : f = next(f, m - 1)
    BY <2>3
  <2> DEFINE g == [k \in 0..m |-> IF k < m THEN f[k] ELSE loaded(f, k)]
  <2>5. ASSUME NEW k \in 0..m PROVE k = 0 \/ g[k - 1] = f[k - 1]
    BY <2>3
  <2>6. ASSUME NEW k \in 0..m PROVE g[k] = loaded(g, k)
    <3>1. loaded(g, k) = loaded(f, k)
      <4>1. k = 0 \/ g[k - 1] = f[k - 1]
        BY <2>5
      <4> HIDE DEF g
      <4>. QED BY <1>2, <4>1
    <3>2. CASE k < m
      <4>1. k \in 0..(m - 1) /\ g[k] = f[k]
        BY <2>3, <3>2
      <4>2. f[k] = loaded(f, k)
        BY <2>4, <4>1
      <4>. QED BY <3>1, <4>1, <4>2
    <3>3. CASE ~(k < m)
      BY <3>1, <3>3
    <3>. QED BY <3>2, <3>3
  <2>7. g = [k \in 0..m |-> g[k]]
    OBVIOUS
  <2>8. g = next(g, m)
    <3> HIDE DEF g
    <3>. QED BY <2>6, <2>7
  <2>. QED BY <2>8
<1>4. \E f : f = next(f, Depth)
  <2>1. Depth \in 0..Depth
    BY <1>1
  <2>. QED BY <1>3, <2>1
<1>5. PICK f : f = (CHOOSE h : h = next(h, Depth))
  OBVIOUS
<1>6. f = next(f, Depth)
  BY <1>4, <1>5
<1>7. Models!LoadPart = f
  BY <1>5 DEF Models!LoadPart, loaded
<1>. QED BY <1>6, <1>7 DEF loaded

LEMMA PartsLoadSound ==
    ASSUME Models!LoadingAssumption, NEW deeper \in 0..Depth
    PROVE  PartLoads(Models!LoadPart[deeper])
<1> PICK load : load = Models!LoadPart
  OBVIOUS
<1> DEFINE Bad == {k \in 0..Depth : ~PartLoads(load[k])}
<1>1. Depth \in Nat
  BY DEF Models!LoadingAssumption
<1>2. load = [k \in 0..Depth |->
              [a \in AssemblyFiles |-> [store \in Models!Stores |->
                  IF k = 0 THEN [store |-> store, model |-> store[a]]
                  ELSE Models!LoadWith(load[k - 1], store, a, "part")]]]
  BY LoadPartUnfolds
<1>3. ASSUME Bad # {} PROVE FALSE
  <2>1. PICK k \in Bad : \A i \in Bad : k <= i
    <3>1. Bad \in SUBSET Nat
      OBVIOUS
    <3>. QED BY <1>3, <3>1, LeastExists
  <2>2. k \in 0..Depth /\ ~PartLoads(load[k])
    OBVIOUS
  <2>3. PICK a \in AssemblyFiles, store \in Models!Stores :
          /\ IsPart(a) /\ Sound(store)
          /\ ~SoundLoad(a, "part", load[k][a][store])
    BY <2>2 DEF PartLoads
  <2>4. load[k][a][store] = IF k = 0 THEN [store |-> store, model |-> store[a]]
                            ELSE Models!LoadWith(load[k - 1], store, a, "part")
    <3>1. load[k] = [b \in AssemblyFiles |-> [st \in Models!Stores |->
                        IF k = 0 THEN [store |-> st, model |-> st[b]]
                        ELSE Models!LoadWith(load[k - 1], st, b, "part")]]
      BY <1>2, <2>2
    <3>. QED BY <3>1
  <2>5. CASE k = 0
    <3>1. ASSUME NEW r, r = [store |-> store, model |-> store[a]] PROVE SoundLoad(a, "part", r)
      <4>1. a \in Models!Owners /\ a \in Models!Models /\ a \notin ComponentFiles
        BY DEF Models!Owners, Models!Models, Models!LoadingAssumption
      <4>2. SoundAt(store, a)
        BY <2>3, <4>1 DEF Sound
      <4>. QED BY <2>3, <3>1, <4>1, <4>2 DEF SoundLoad, SoundAt
    <3>. QED BY <2>3, <2>4, <2>5, <3>1
  <2>6. CASE k # 0
    <3>1. k - 1 \in 0..Depth /\ ~(k <= k - 1)
      BY ONLY <1>1, <2>2, <2>6
    <3>2. k - 1 \notin Bad
      BY ONLY <2>1, <3>1
    <3>3. PartLoads(load[k - 1])
      BY <3>1, <3>2
    <3>4. "part" \in Models!Ways
      BY DEF Models!Ways
    <3>5. SoundLoad(a, "part", Models!LoadWith(load[k - 1], store, a, "part"))
      BY <2>3, <3>3, <3>4, LoadWithSound
    <3>. QED BY <2>3, <2>4, <2>6, <3>5
  <2>. QED BY <2>5, <2>6
<1>. QED BY <1>3

LEMMA LoadAssemblySound ==
    ASSUME Models!LoadingAssumption, NEW store, Sound(store), NEW a \in AssemblyFiles,
           NEW as \in {"whole", "shallow"}
    PROVE  SoundLoad(a, as, Models!LoadAssembly(store, a, as))
<1>1. Depth \in 0..Depth
  BY DEF Models!LoadingAssumption
<1>2. PartLoads(Models!LoadPart[Depth])
  BY <1>1, PartsLoadSound
<1>3. as \in Models!Ways /\ as # "part"
  BY DEF Models!Ways
<1>4. SoundLoad(a, as, Models!LoadWith(Models!LoadPart[Depth], store, a, as))
  BY <1>2, <1>3, LoadWithSound
<1>. QED BY <1>4 DEF Models!LoadAssembly

\* What the file of a submodel is of, and what has told it.
LEMMA OwnerIs ==
    ASSUME Models!LoadingAssumption, NEW o \in Models!Owners, NEW s \in NamedBy[o]
    PROVE  Models!OwnerOf(s) = o /\ s \notin Models!Owners /\ s \in Models!Models
BY DEF Models!OwnerOf, Models!LoadingAssumption, Models!Models, Models!Owners

LEMMA TolderIs ==
    ASSUME Models!LoadingAssumption, Models!AskedOfNoPart, NEW o \in Models!Owners,
           NEW s \in NamedBy[o] \cap Asked, NEW submodel, ToldSubmodel(s, submodel)
    PROVE  /\ submodel.told /\ submodel.owner.file = o
           /\ o \in AssemblyFiles => submodel.finished
<1>1. CASE submodel.owner.file \in ComponentFiles /\ s \in NamedBy[submodel.owner.file]
  <2>1. submodel.owner.file \in Models!Owners /\ submodel.owner.file \notin AssemblyFiles
    BY <1>1 DEF Models!Owners, Models!LoadingAssumption
  <2>2. submodel.owner.file = o
    BY <1>1, <2>1, OwnerIs
  <2>. QED BY <2>1, <2>2 DEF ToldSubmodel
<1>2. CASE /\ submodel.owner.file \in AssemblyFiles /\ s \in Models!SubmodelFiles(submodel.owner.file)
           /\ submodel.finished
  <2>1. PICK b \in AssemblyFiles : s \in NamedBy[b] /\ (b = submodel.owner.file \/ IsPart(b))
    BY <1>2, FilesAreSubmodels
  <2>2. b = o
    <3>1. b \in Models!Owners
      BY DEF Models!Owners
    <3>. QED BY <2>1, <3>1, OwnerIs
  <2>3. ~IsPart(b)
    BY <2>2 DEF IsPart, Models!AskedOfNoPart
  <2>. QED BY <1>2, <2>1, <2>2, <2>3 DEF ToldSubmodel
<1>. QED BY <1>1, <1>2 DEF ToldSubmodel

ReadyFor(s, as, model) ==
    /\ model.told /\ model.owner.file = Models!OwnerOf(s)
    /\ Models!OwnerOf(s) \in AssemblyFiles /\ as = "whole" => model.finished

\* What a submodel becomes that asks for its owner.
LEMMA FresherSound ==
    ASSUME Models!LoadingAssumption, Models!AskedOfNoPart, NEW o \in Models!Owners,
           NEW s \in NamedBy[o] \cap Asked, NEW submodel, submodel.file = s, NEW owner,
           \/ o \in ComponentFiles /\ owner = Models!ComponentOf(o)
           \/ o \in AssemblyFiles /\ KeptAssembly(o, owner)
    PROVE  ToldSubmodel(s, Models!Fresher(submodel, owner))
<1>1. s \in Models!Models
  BY OwnerIs
<1>2. CASE o \in ComponentFiles /\ owner = Models!ComponentOf(o)
  <2>1. owner.file = o /\ owner.told = NamedBy[o] /\ owner \in Models!Objects
    BY <1>2 DEF Models!ComponentOf, Models!Objects, Models!Ways, Models!Models, Models!Owners
  <2>2. Models!Fresher(submodel, owner) = Models!SetComponent(s, owner)
    BY <1>2, <2>1 DEF Models!Fresher
  <2>3. PICK told : told = Models!SetComponent(s, owner)
    OBVIOUS
  <2>4. told \in Models!Submodels /\ told.file = s /\ told.owner = owner /\ told.told
    BY <1>1, <2>1, <2>3, TellingIs
  <2>. QED BY <1>2, <2>1, <2>2, <2>3, <2>4 DEF ToldSubmodel
<1>3. CASE o \in AssemblyFiles /\ KeptAssembly(o, owner)
  <2>1. ~IsPart(o)
    BY <1>3 DEF IsPart, Models!AskedOfNoPart
  <2>2. owner.file = o /\ owner.told = Models!SubmodelFiles(o) /\ owner \in Models!Objects
    BY <1>3, <2>1 DEF KeptAssembly
  <2>3. s \in Models!SubmodelFiles(o) /\ o \notin ComponentFiles
    BY <1>3, FilesAreSubmodels DEF Models!LoadingAssumption
  <2>4. Models!Fresher(submodel, owner) = Models!Final(Models!SetAssembly(s, owner))
    BY <2>2, <2>3 DEF Models!Fresher
  <2>5. PICK told : told = Models!SetAssembly(s, owner)
    OBVIOUS
  <2>6. /\ Models!Final(told) \in Models!Submodels /\ Models!Final(told).file = s
        /\ Models!Final(told).owner = owner /\ Models!Final(told).told /\ Models!Final(told).finished
    BY <1>1, <2>2, <2>5, TellingIs
  <2>. QED BY <1>3, <2>2, <2>3, <2>4, <2>5, <2>6 DEF ToldSubmodel
<1>. QED BY <1>2, <1>3

LEMMA KeepingSound ==
    ASSUME NEW store, Sound(store), NEW s \in Models!Models, s \notin Models!Owners,
           NEW submodel, ToldSubmodel(s, submodel)
    PROVE  Sound([store EXCEPT ![s] = submodel])
<1> PICK with : with = [store EXCEPT ![s] = submodel]
  OBVIOUS
<1>1. with \in Models!Stores
  BY DEF Sound, Models!Stores, ToldSubmodel
<1>2. with[s] = submodel /\ \A m \in Models!Models : m # s => with[m] = store[m]
  BY DEF Sound, Models!Stores
<1>3. ASSUME NEW m \in Models!Models PROVE SoundAt(with, m)
  <2>1. CASE m = s
    BY <1>2, <2>1 DEF SoundAt
  <2>2. CASE m # s
    <3>1. SoundAt(store, m) /\ with[m] = store[m]
      BY <1>2, <2>2 DEF Sound
    <3>. QED BY <3>1 DEF SoundAt
  <2>. QED BY <2>1, <2>2
<1>. QED BY <1>1, <1>3 DEF Sound

-----------------------------------------------------------------------------

LoadingInv == Sound(stored) /\ Models!SubmodelIsReady

LEMMA EmptyCacheIsSound == Sound([m \in Models!Models |-> Unset])
BY DEF Sound, SoundAt, Models!Stores

LEMMA AskAssemblyKeeps ==
    ASSUME Models!LoadingAssumption, Sound(stored), NEW a \in AssemblyFiles,
           NEW as \in {"whole", "shallow"}, Models!AskAssembly(a, as)
    PROVE  Sound(stored)' /\ Models!SubmodelIsReady'
<1> PICK store : store = stored
  OBVIOUS
<1> PICK r : r = Models!LoadAssembly(store, a, as)
  OBVIOUS
<1>1. SoundLoad(a, as, r)
  BY LoadAssemblySound
<1>2. /\ stored' = r.store
      /\ taken' = [asked |-> a, as |-> as, model |-> r.model]
  BY DEF Models!AskAssembly, Models!Give
<1>3. Sound(stored')
  BY <1>1, <1>2 DEF SoundLoad
<1>4. Models!SubmodelIsReady'
  BY <1>2 DEF Models!SubmodelIsReady, Models!Owners
<1>. QED BY <1>3, <1>4

LEMMA AskSubmodelKeeps ==
    ASSUME Models!LoadingAssumption, Models!AskedOfNoPart, Sound(stored), NEW o \in Models!Owners,
           NEW s \in NamedBy[o] \cap Asked, NEW as \in {"whole", "shallow"},
           o \in ComponentFiles => as = "whole", Models!AskSubmodel(s, as)
    PROVE  Sound(stored)' /\ Models!SubmodelIsReady'
<1> PICK store : store = stored
  OBVIOUS
<1> PICK own : own = Models!WithSubmodels(store, {s})
  OBVIOUS
<1> PICK submodel : submodel = own[s]
  OBVIOUS
<1> PICK r : r = IF o \in ComponentFiles THEN Models!LoadComponent(own, o)
                 ELSE Models!LoadAssembly(own, o, as)
  OBVIOUS
<1>1. Models!OwnerOf(s) = o /\ s \notin Models!Owners /\ s \in Models!Models
  BY OwnerIs
<1>2. Sound(own)
  BY <1>1, WithSubmodelsSound
<1>3. submodel.file = s /\ (submodel.owner # Unset => ToldSubmodel(s, submodel))
  <2>1. own[s] # Unset
    <3>1. Models!Untold(s) \in Models!Submodels
      BY <1>1 DEF Models!Untold, Models!Submodels
    <3>. QED BY <1>1, <3>1 DEF Models!WithSubmodels, Models!LoadingAssumption
  <2>2. SoundAt(own, s)
    BY <1>1, <1>2 DEF Sound
  <2>3. submodel = Models!Untold(s) \/ ToldSubmodel(s, submodel)
    BY <1>1, <2>1, <2>2 DEF SoundAt, Models!Owners
  <2>4. Models!Untold(s).owner = Unset /\ Models!Untold(s).file = s
    BY DEF Models!Untold
  <2>. QED BY <2>3, <2>4 DEF ToldSubmodel
<1>4. /\ Sound(r.store)
      /\ r.model # Unset =>
           \/ o \in ComponentFiles /\ r.model = Models!ComponentOf(o)
           \/ o \in AssemblyFiles /\ KeptAssembly(o, r.model)
           \/ o \in AssemblyFiles /\ as = "shallow" /\ r.model \in Models!Objects /\ r.model.file = o
  <2>1. CASE o \in ComponentFiles
    <3>1. {o} \subseteq ComponentFiles
      BY <2>1
    <3>2. PICK with : with = Models!LoadComponents(own, {o})
      OBVIOUS
    <3>3. Sound(with) /\ with[o] = Models!ComponentOf(o)
      BY <1>2, <3>1, <3>2, ComponentsSound
    <3>4. r = [store |-> with, model |-> with[o]]
      BY <2>1, <3>2 DEF Models!LoadComponent
    <3>. QED BY <2>1, <3>3, <3>4
  <2>2. CASE o \notin ComponentFiles
    <3>1. o \in AssemblyFiles
      BY <2>2 DEF Models!Owners
    <3>2. SoundLoad(o, as, r)
      BY <1>2, <2>2, <3>1, LoadAssemblySound
    <3>. QED BY <3>1, <3>2 DEF SoundLoad
  <2>. QED BY <2>1, <2>2
<1>5. \/ submodel.owner # Unset /\ stored' = own /\ Models!Give(s, as, submodel)
      \/ r.model = Unset /\ stored' = r.store /\ Models!Give(s, as, Unset)
      \/ /\ r.model # Unset /\ as = "shallow" /\ stored' = r.store
         /\ Models!Give(s, as, Models!SetAssembly(s, r.model))
      \/ /\ r.model # Unset /\ as = "whole"
         /\ stored' = [r.store EXCEPT ![s] = Models!Fresher(submodel, r.model)]
         /\ Models!Give(s, as, Models!Fresher(submodel, r.model))
  BY <1>1 DEF Models!AskSubmodel
<1>6. ASSUME NEW model, Models!Give(s, as, model), model = Unset \/ ReadyFor(s, as, model)
      PROVE  Models!SubmodelIsReady'
  <2>1. taken' = [asked |-> s, as |-> as, model |-> model]
    BY <1>6 DEF Models!Give
  <2>2. taken'.asked = s /\ taken'.as = as /\ taken'.model = model
    BY <2>1
  <2>. QED BY <1>6, <2>2 DEF Models!SubmodelIsReady, ReadyFor, Models!Owners, Models!OwnerOf
<1>7. CASE submodel.owner # Unset /\ stored' = own /\ Models!Give(s, as, submodel)
  <2>1. ReadyFor(s, as, submodel)
    BY <1>1, <1>3, <1>7, TolderIs DEF ReadyFor
  <2>. QED BY <1>2, <1>6, <1>7, <2>1
<1>8. CASE r.model = Unset /\ stored' = r.store /\ Models!Give(s, as, Unset)
  BY <1>4, <1>6, <1>8
<1>9. CASE /\ r.model # Unset /\ as = "shallow" /\ stored' = r.store
           /\ Models!Give(s, as, Models!SetAssembly(s, r.model))
  <2>1. r.model \in Models!Objects /\ r.model.file = o
    BY <1>4, <1>9 DEF KeptAssembly, Models!LoadingAssumption
  <2> PICK owner : owner = r.model
    OBVIOUS
  <2>2. PICK told : told = Models!SetAssembly(s, owner)
    OBVIOUS
  <2>3. told.owner = owner /\ told.told
    <3>1. s \in Models!Models /\ owner \in Models!Objects
      BY <1>1, <2>1
    <3>2. told \in {Models!SetAssembly(s, owner), Models!SetComponent(s, owner)}
      BY <2>2
    <3>. QED BY ONLY <3>1, <3>2, TellingIs
  <2>4. ReadyFor(s, as, told)
    BY <1>1, <1>9, <2>1, <2>3 DEF ReadyFor
  <2>. QED BY <1>4, <1>6, <1>9, <2>2, <2>4
<1>10. CASE /\ r.model # Unset /\ as = "whole"
            /\ stored' = [r.store EXCEPT ![s] = Models!Fresher(submodel, r.model)]
            /\ Models!Give(s, as, Models!Fresher(submodel, r.model))
  <2>1. PICK fresher : fresher = Models!Fresher(submodel, r.model)
    OBVIOUS
  <2>2. ToldSubmodel(s, fresher)
    BY <1>3, <1>4, <1>10, <2>1, FresherSound
  <2>3. ReadyFor(s, as, fresher)
    BY <1>1, <2>2, TolderIs DEF ReadyFor
  <2>4. Sound([r.store EXCEPT ![s] = fresher])
    BY <1>1, <1>4, <2>2, KeepingSound
  <2>. QED BY <1>6, <1>10, <2>1, <2>3, <2>4
<1>. QED BY <1>5, <1>7, <1>8, <1>9, <1>10

\* A submodel that asks for its owner is told by it, and finished by an
\* assembly that is not loaded shallow, whatever was loaded before it asked,
\* if nothing is generated from the submodels of an assembly that is a part
\* of another (gen/models/component.py and assembly.py).
THEOREM SubmodelsAreReady ==
    ASSUME Models!LoadingAssumption, Models!AskedOfNoPart
    PROVE  Models!LoadingSpec => []SubmodelIsReady
<1>1. Models!LoadingInit => LoadingInv
  BY EmptyCacheIsSound DEF Models!LoadingInit, LoadingInv, Models!SubmodelIsReady
<1>2. LoadingInv /\ [Models!LoadingNext]_<<stored, taken>> => LoadingInv'
  <2> SUFFICES ASSUME LoadingInv, [Models!LoadingNext]_<<stored, taken>> PROVE LoadingInv'
    OBVIOUS
  <2>1. ASSUME NEW a \in AssemblyFiles \cap Asked, NEW as \in {"whole", "shallow"}, Models!AskAssembly(a, as)
        PROVE  LoadingInv'
    BY <2>1, AskAssemblyKeeps DEF LoadingInv
  <2>2. ASSUME NEW o \in Models!Owners, NEW s \in NamedBy[o] \cap Asked,
               NEW as \in IF o \in AssemblyFiles THEN {"whole", "shallow"} ELSE {"whole"},
               Models!AskSubmodel(s, as)
        PROVE  LoadingInv'
    <3>1. as \in {"whole", "shallow"} /\ (o \in ComponentFiles => as = "whole")
      BY DEF Models!LoadingAssumption
    <3>. QED BY <2>2, <3>1, AskSubmodelKeeps DEF LoadingInv
  <2>3. CASE Models!NewSession
    <3>1. stored' = [m \in Models!Models |-> Unset] /\ taken' = Unset
      BY <2>3 DEF Models!NewSession
    <3>2. Sound(stored')
      BY <3>1, EmptyCacheIsSound
    <3>3. Models!SubmodelIsReady'
      BY <3>1 DEF Models!SubmodelIsReady
    <3>. QED BY <3>2, <3>3 DEF LoadingInv
  <2>4. CASE UNCHANGED <<stored, taken>>
    BY <2>4 DEF LoadingInv, Sound, SoundAt, Models!SubmodelIsReady
  <2>. QED BY <2>1, <2>2, <2>3, <2>4 DEF Models!LoadingNext
<1>3. LoadingInv => SubmodelIsReady
  BY DEF LoadingInv, SubmodelIsReady
<1>. QED BY <1>1, <1>2, <1>3, PTL DEF Models!LoadingSpec

-----------------------------------------------------------------------------
(* BuildPath: the directories of a build, in their order.                   *)

\* A function that is given advance by advance, each one from the last, there is.
StepsFrom(base, advance, n, f) ==
    f[0] = base /\ \A k \in 1..n : f[k] = advance[<<k, f[k - 1]>>]

LEMMA StepsRun ==
    ASSUME NEW X, NEW base \in X, NEW n \in Nat, NEW advance \in [(1..n) \X X -> X]
    PROVE  \E f \in [0..n -> X] : StepsFrom(base, advance, n, f)
<1> DEFINE Goes(m) == \E f \in [0..m -> X] : StepsFrom(base, advance, m, f)
           Lacking == {m \in 0..n : ~Goes(m)}
<1>1. Goes(0)
  <2> DEFINE f == [k \in 0..0 |-> base]
  <2>1. f \in [0..0 -> X] /\ StepsFrom(base, advance, 0, f)
    BY DEF StepsFrom
  <2>. QED BY <2>1
<1>2. ASSUME NEW m \in 0..n, m # 0, Goes(m - 1) PROVE Goes(m)
  <2>1. m \in 1..n /\ m - 1 \in 0..(m - 1) /\ m \in Nat
    BY <1>2
  <2>2. PICK f \in [0..(m - 1) -> X] : StepsFrom(base, advance, m - 1, f)
    BY <1>2
  <2> DEFINE g == [k \in 0..m |-> IF k < m THEN f[k] ELSE advance[<<m, f[m - 1]>>]]
  <2>3. \A k \in 0..(m - 1) : k \in 0..m /\ g[k] = f[k]
    BY <2>1
  <2>4. g[m] = advance[<<m, f[m - 1]>>] /\ f[m - 1] \in X /\ advance[<<m, f[m - 1]>>] \in X
    BY <2>1
  <2>5. g \in [0..m -> X]
    <3>1. \A k \in 0..m : k \in 0..(m - 1) \/ k = m
      BY <2>1
    <3>2. \A k \in 0..m : g[k] \in X
      BY <2>3, <2>4, <3>1
    <3>. QED BY <3>2
  <2>6. StepsFrom(base, advance, m, g)
    <3>1. g[0] = base
      BY <2>1, <2>2, <2>3 DEF StepsFrom
    <3>2. ASSUME NEW k \in 1..m PROVE g[k] = advance[<<k, g[k - 1]>>]
      <4>1. k - 1 \in 0..(m - 1) /\ g[k - 1] = f[k - 1]
        BY <2>1, <2>3
      <4>2. CASE k = m
        BY <2>4, <4>1, <4>2
      <4>3. CASE k # m
        <5>1. k \in 1..(m - 1) /\ k \in 0..(m - 1)
          BY <2>1, <4>3
        <5>. QED BY <2>2, <2>3, <4>1, <5>1 DEF StepsFrom
      <4>. QED BY <4>2, <4>3
    <3> HIDE DEF g
    <3>. QED BY <3>1, <3>2 DEF StepsFrom
  <2> HIDE DEF g
  <2>. QED BY <2>5, <2>6
<1>3. Lacking = {}
  <2> SUFFICES ASSUME Lacking # {} PROVE FALSE
    OBVIOUS
  <2>1. PICK m \in Lacking : \A i \in Lacking : m <= i
    <3>1. Lacking \in SUBSET Nat
      OBVIOUS
    <3> HIDE DEF Lacking
    <3>. QED BY <3>1, LeastExists
  <2>2. m \in 0..n /\ ~Goes(m)
    OBVIOUS
  <2> HIDE DEF Goes
  <2>3. m # 0
    BY <1>1, <2>2
  <2>4. m - 1 \in 0..n /\ ~(m <= m - 1)
    BY <2>2, <2>3
  <2>5. Goes(m - 1)
    BY <2>1, <2>4
  <2>. QED BY <1>2, <2>2, <2>3, <2>5
<1>4. n \in 0..n
  OBVIOUS
<1>. QED BY <1>3, <1>4

\* What Without keeps of each beginning of a path.
WithoutSteps(f, path, out, n) ==
    f = [k \in 0..n |->
            IF k = 0 THEN <<>>
            ELSE IF path[k] \in out \cup Paths!ToSet(f[k - 1]) THEN f[k - 1]
            ELSE Append(f[k - 1], path[k])]

LEMMA WithoutUnfolds ==
    ASSUME NEW D, NEW path \in Seq(D), NEW out, NEW n, n = Len(path)
    PROVE  \E f \in [0..n -> Seq(D)] :
              WithoutSteps(f, path, out, n) /\ Paths!Without(path, out) = f[n]
<1>1. n \in Nat /\ \A k \in 1..n : path[k] \in D
  BY LenProperties, ElementOfSeq
<1> DEFINE advance == [x \in (1..n) \X Seq(D) |->
                       IF path[x[1]] \in out \cup Paths!ToSet(x[2]) THEN x[2] ELSE Append(x[2], path[x[1]])]
           next(f) == [k \in 0..n |->
                         IF k = 0 THEN <<>>
                         ELSE IF path[k] \in out \cup Paths!ToSet(f[k - 1]) THEN f[k - 1]
                         ELSE Append(f[k - 1], path[k])]
<1>2. advance \in [(1..n) \X Seq(D) -> Seq(D)]
  <2> SUFFICES ASSUME NEW x \in (1..n) \X Seq(D) PROVE advance[x] \in Seq(D)
    OBVIOUS
  <2>1. x[1] \in 1..n /\ x[2] \in Seq(D) /\ path[x[1]] \in D
    BY <1>1
  <2>2. Append(x[2], path[x[1]]) \in Seq(D)
    BY <2>1, AppendProperties
  <2>. QED BY <2>1, <2>2
<1>3. \A k \in 1..n, s \in Seq(D) :
         advance[<<k, s>>] = IF path[k] \in out \cup Paths!ToSet(s) THEN s ELSE Append(s, path[k])
  OBVIOUS
<1> HIDE DEF advance
<1>4. <<>> \in Seq(D)
  BY EmptySeq
<1>5. PICK f \in [0..n -> Seq(D)] : StepsFrom(<<>>, advance, n, f)
  BY <1>1, <1>2, <1>4, StepsRun
<1>6. f = next(f)
  <2>1. ASSUME NEW k \in 0..n PROVE f[k] = next(f)[k]
    <3>1. CASE k = 0
      BY <1>5, <3>1 DEF StepsFrom
    <3>2. CASE k # 0
      <4>1. k \in 1..n /\ k - 1 \in 0..n
        BY <1>1, <3>2
      <4>2. f[k - 1] \in Seq(D) /\ f[k] = advance[<<k, f[k - 1]>>]
        BY <1>5, <4>1 DEF StepsFrom
      <4>. QED BY <1>3, <3>2, <4>1, <4>2
    <3>. QED BY <3>1, <3>2
  <2>. QED BY <2>1
<1>7. PICK done : done = (CHOOSE g : g = next(g))
  OBVIOUS
<1>8. done = next(done)
  <2> HIDE DEF next
  <2>. QED BY <1>6, <1>7
<1>9. done \in [0..n -> Seq(D)]
  <2>1. DOMAIN done = 0..n /\ done = [k \in 0..n |-> done[k]]
    BY <1>8
  <2> DEFINE Odd == {k \in 0..n : done[k] # f[k]}
  <2>2. Odd = {}
    <3> SUFFICES ASSUME Odd # {} PROVE FALSE
      OBVIOUS
    <3>1. PICK m \in Odd : \A i \in Odd : m <= i
      <4>1. Odd \in SUBSET Nat
        BY <1>1
      <4> HIDE DEF Odd
      <4>. QED BY <4>1, LeastExists
    <3>2. m \in 0..n /\ done[m] # f[m]
      OBVIOUS
    <3>3. m # 0
      BY <1>6, <1>8, <3>2
    <3>4. m - 1 \in 0..n /\ ~(m <= m - 1)
      BY <1>1, <3>2, <3>3
    <3>5. done[m - 1] = f[m - 1]
      BY <3>1, <3>4
    <3>6. done[m] = next(done)[m] /\ f[m] = next(f)[m]
      BY <1>6, <1>8
    <3>. QED BY <3>2, <3>3, <3>4, <3>5, <3>6
  <2>. QED BY <2>1, <2>2
<1>10. Paths!Without(path, out) = done[n]
  BY <1>7 DEF Paths!Without
<1> HIDE DEF next
<1>11. WithoutSteps(done, path, out, n)
  BY <1>8 DEF next, WithoutSteps
<1>. QED BY <1>9, <1>10, <1>11

\* What is held of the first n of a path: where each one comes first.
FirstsOf(held, place, path, out, n) ==
    /\ place \in [1..Len(held) -> 1..n]
    /\ \A i \in 1..Len(held) :
          /\ held[i] = path[place[i]] /\ held[i] \notin out
          /\ \A q \in 1..(place[i] - 1) : path[q] # held[i]
    /\ \A i, j \in 1..Len(held) : i < j => place[i] < place[j]
    /\ \A q \in 1..n : path[q] \in out \/ \E i \in 1..Len(held) : held[i] = path[q]

LEMMA OneMoreKept ==
    ASSUME NEW D, NEW path \in Seq(D), NEW out, NEW n \in Nat, n + 1 \in 1..Len(path),
           NEW held \in Seq(D), NEW place, FirstsOf(held, place, path, out, n),
           NEW more, more = IF path[n + 1] \in out \cup Paths!ToSet(held) THEN held
                            ELSE Append(held, path[n + 1])
    PROVE  \E q : FirstsOf(more, q, path, out, n + 1)
<1> PICK len : len = Len(held)
  OBVIOUS
<1>1. len \in Nat /\ DOMAIN held = 1..len
  BY LenProperties
<1>2. \A i \in 1..len : place[i] \in 1..n /\ place[i] \in 1..(n + 1)
  BY DEF FirstsOf
<1>3. Paths!ToSet(held) = {held[i] : i \in 1..len}
  BY <1>1 DEF Paths!ToSet
<1>4. \A q \in 1..(n + 1) : q \in 1..n \/ q = n + 1
  OBVIOUS
<1>5. CASE path[n + 1] \in out \cup Paths!ToSet(held)
  <2>1. more = held
    BY <1>5
  <2>2. place \in [1..len -> 1..(n + 1)]
    BY <1>2 DEF FirstsOf
  <2>3. \A q \in 1..(n + 1) : path[q] \in out \/ \E i \in 1..len : held[i] = path[q]
    <3>1. path[n + 1] \in out \/ \E i \in 1..len : held[i] = path[n + 1]
      BY <1>3, <1>5
    <3>. QED BY <1>4, <3>1 DEF FirstsOf
  <2>4. FirstsOf(held, place, path, out, n + 1)
    BY <2>2, <2>3 DEF FirstsOf
  <2>. QED BY <2>1, <2>4
<1>6. CASE path[n + 1] \notin out \cup Paths!ToSet(held)
  <2> DEFINE q == [i \in 1..(len + 1) |-> IF i = len + 1 THEN n + 1 ELSE place[i]]
  <2>1. more = Append(held, path[n + 1]) /\ path[n + 1] \in D
    BY <1>6, ElementOfSeq
  <2>2. Len(more) = len + 1 /\ more[len + 1] = path[n + 1] /\ \A i \in 1..len : more[i] = held[i]
    BY <2>1, AppendProperties
  <2>3. \A i \in 1..(len + 1) : i = len + 1 \/ (i \in 1..len /\ i # len + 1)
    BY <1>1
  <2>4. q[len + 1] = n + 1 /\ \A i \in 1..len : q[i] = place[i]
    BY <1>1
  <2>5. q \in [1..(len + 1) -> 1..(n + 1)]
    <3>1. \A i \in 1..(len + 1) : q[i] \in 1..(n + 1)
      BY <1>2, <2>3, <2>4
    <3>. QED BY <3>1
  <2> HIDE DEF q
  <2>6. ASSUME NEW i \in 1..(len + 1)
        PROVE  /\ more[i] = path[q[i]] /\ more[i] \notin out
               /\ \A r \in 1..(q[i] - 1) : path[r] # more[i]
    <3>1. CASE i = len + 1
      <4>1. more[i] = path[n + 1] /\ q[i] = n + 1 /\ path[n + 1] \notin out
        BY <1>6, <2>2, <2>4, <3>1
      <4>2. ASSUME NEW r \in 1..(q[i] - 1) PROVE path[r] # more[i]
        <5>1. r \in 1..n
          BY <4>1
        <5>2. path[r] \in out \/ \E j \in 1..len : held[j] = path[r]
          BY <5>1 DEF FirstsOf
        <5>. QED BY <1>3, <1>6, <4>1, <5>2
      <4>. QED BY <4>1, <4>2
    <3>2. CASE i \in 1..len
      BY <2>2, <2>4, <3>2 DEF FirstsOf
    <3>. QED BY <2>3, <3>1, <3>2
  <2>7. ASSUME NEW i \in 1..(len + 1), NEW j \in 1..(len + 1), i < j PROVE q[i] < q[j]
    <3>1. i \in 1..len /\ q[i] = place[i]
      BY <1>1, <2>4, <2>7
    <3>2. CASE j = len + 1
      BY <1>2, <2>4, <3>1, <3>2
    <3>3. CASE j \in 1..len
      BY <2>4, <2>7, <3>1, <3>3 DEF FirstsOf
    <3>. QED BY <2>3, <3>2, <3>3
  <2>8. ASSUME NEW r \in 1..(n + 1) PROVE path[r] \in out \/ \E i \in 1..(len + 1) : more[i] = path[r]
    <3>1. CASE r = n + 1
      <4>1. len + 1 \in 1..(len + 1)
        BY <1>1
      <4>. QED BY <2>2, <3>1, <4>1
    <3>2. CASE r \in 1..n
      <4>1. path[r] \in out \/ \E i \in 1..len : held[i] = path[r]
        BY <3>2 DEF FirstsOf
      <4>2. \A i \in 1..len : i \in 1..(len + 1)
        BY <1>1
      <4>. QED BY <2>2, <4>1, <4>2
    <3>. QED BY <1>4, <3>1, <3>2
  <2>9. FirstsOf(more, q, path, out, n + 1)
    BY <2>2, <2>5, <2>6, <2>7, <2>8 DEF FirstsOf
  <2>. QED BY <2>9
<1>. QED BY <1>5, <1>6

\* Without keeps of a path the first of each that is not left out.
LEMMA WithoutKeepsFirsts ==
    ASSUME NEW D, NEW path \in Seq(D), NEW out
    PROVE  /\ Paths!Without(path, out) \in Seq(D)
           /\ \E place : FirstsOf(Paths!Without(path, out), place, path, out, Len(path))
<1> PICK n : n = Len(path)
  OBVIOUS
<1>1. n \in Nat
  BY LenProperties
<1>2. PICK f \in [0..n -> Seq(D)] : WithoutSteps(f, path, out, n) /\ Paths!Without(path, out) = f[n]
  BY WithoutUnfolds
<1> DEFINE Holds(k) == \E place : FirstsOf(f[k], place, path, out, k)
           Bad == {k \in 0..n : ~Holds(k)}
<1>3. Holds(0)
  <2>1. f[0] = <<>>
    BY <1>1, <1>2 DEF WithoutSteps
  <2> DEFINE place == [i \in 1..0 |-> 0]
  <2>2. FirstsOf(<<>>, place, path, out, 0)
    BY EmptySeq DEF FirstsOf
  <2>. QED BY <2>1, <2>2
<1>4. ASSUME NEW k \in 0..(n - 1), Holds(k) PROVE Holds(k + 1)
  <2>1. k \in Nat /\ k + 1 \in 1..n /\ k + 1 \in 0..n /\ (k + 1) - 1 = k /\ k + 1 # 0 /\ k \in 0..n
    BY <1>1
  <2>2. f[k + 1] = IF path[k + 1] \in out \cup Paths!ToSet(f[k]) THEN f[k] ELSE Append(f[k], path[k + 1])
    BY <1>2, <2>1 DEF WithoutSteps
  <2>3. f[k] \in Seq(D)
    BY <1>2, <2>1
  <2>4. PICK place : FirstsOf(f[k], place, path, out, k)
    BY <1>4
  <2>. QED BY <2>1, <2>2, <2>3, <2>4, OneMoreKept
<1>5. Bad = {}
  <2> SUFFICES ASSUME Bad # {} PROVE FALSE
    OBVIOUS
  <2>1. PICK k \in Bad : \A i \in Bad : k <= i
    <3>1. Bad \in SUBSET Nat
      BY <1>1
    <3> HIDE DEF Bad
    <3>. QED BY <3>1, LeastExists
  <2>2. k \in 0..n /\ ~Holds(k)
    OBVIOUS
  <2> HIDE DEF Holds
  <2>3. k # 0
    BY <1>3, <2>2
  <2>4. k - 1 \in 0..(n - 1) /\ k - 1 \in 0..n /\ ~(k <= k - 1) /\ (k - 1) + 1 = k
    BY <1>1, <2>2, <2>3
  <2>5. Holds(k - 1)
    BY <2>1, <2>4
  <2>. QED BY <1>4, <2>2, <2>4, <2>5
<1>6. n \in 0..n
  BY <1>1
<1>. QED BY <1>2, <1>5, <1>6

\* FlattenSeq puts sequences after one another: of each element it has, which
\* one it comes from.
ComesFrom(flat, from, seqs, n) ==
    /\ from \in [1..Len(flat) -> 1..n]
    /\ \A i \in 1..Len(flat) : flat[i] \in Paths!ToSet(seqs[from[i]])
    /\ \A i, j \in 1..Len(flat) : i < j => from[i] <= from[j]
    /\ \A r \in 1..n : \A x \in Paths!ToSet(seqs[r]) :
          \E i \in 1..Len(flat) : from[i] = r /\ flat[i] = x

FlattenSteps(f, seqs, n) ==
    f = [k \in 1..n |-> IF k = 1 THEN seqs[k] ELSE f[k - 1] \o seqs[k]]

LEMMA FlattenUnfolds ==
    ASSUME NEW D, NEW seqs \in Seq(Seq(D)), NEW n, n = Len(seqs), n # 0
    PROVE  \E f \in [1..n -> Seq(D)] :
              FlattenSteps(f, seqs, n) /\ Paths!FlattenSeq(seqs) = f[n]
<1>1. n \in Nat /\ n \in 1..n /\ \A k \in 1..n : seqs[k] \in Seq(D)
  <2>1. n \in Nat /\ \A k \in 1..n : seqs[k] \in Seq(D)
    BY LenProperties, ElementOfSeq
  <2>. QED BY <2>1
<1> DEFINE advance == [x \in (1..n) \X Seq(D) |-> x[2] \o seqs[x[1]]]
           next(f) == [k \in 1..n |-> IF k = 1 THEN seqs[k] ELSE f[k - 1] \o seqs[k]]
<1>2. advance \in [(1..n) \X Seq(D) -> Seq(D)]
  <2> SUFFICES ASSUME NEW x \in (1..n) \X Seq(D) PROVE advance[x] \in Seq(D)
    OBVIOUS
  <2>1. x[1] \in 1..n /\ x[2] \in Seq(D) /\ seqs[x[1]] \in Seq(D)
    BY <1>1
  <2>. QED BY <2>1, ConcatProperties
<1>3. \A k \in 1..n, s \in Seq(D) : advance[<<k, s>>] = s \o seqs[k]
  OBVIOUS
<1> HIDE DEF advance
<1>4. <<>> \in Seq(D)
  BY EmptySeq
<1>5. PICK g \in [0..n -> Seq(D)] : StepsFrom(<<>>, advance, n, g)
  BY <1>1, <1>2, <1>4, StepsRun
<1> PICK f : f = [k \in 1..n |-> g[k]]
  OBVIOUS
<1>6. f = next(f)
  <2>1. ASSUME NEW k \in 1..n PROVE f[k] = next(f)[k]
    <3>1. k - 1 \in 0..n /\ g[k - 1] \in Seq(D) /\ g[k] = g[k - 1] \o seqs[k] /\ f[k] = g[k] /\ seqs[k] \in Seq(D)
      <4>1. k - 1 \in 0..n /\ k \in 0..n /\ f[k] = g[k]
        BY <1>1
      <4>2. g[k - 1] \in Seq(D) /\ g[k] = advance[<<k, g[k - 1]>>]
        BY <1>5, <4>1 DEF StepsFrom
      <4>. QED BY <1>1, <1>3, <4>1, <4>2
    <3>2. CASE k = 1
      <4>1. g[0] = <<>> /\ k - 1 = 0
        BY <1>5, <3>2 DEF StepsFrom
      <4>2. <<>> \o seqs[k] = seqs[k]
        BY <3>1, ConcatEmptySeq
      <4>. QED BY <3>1, <3>2, <4>1, <4>2
    <3>3. CASE k # 1
      <4>1. k - 1 \in 1..n
        BY <1>1, <3>3
      <4>. QED BY <3>1, <3>3, <4>1
    <3>. QED BY <3>2, <3>3
  <2>. QED BY <2>1
<1>7. PICK flat : flat = (CHOOSE h : h = next(h))
  OBVIOUS
<1>8. flat = next(flat)
  <2> HIDE DEF next
  <2>. QED BY <1>6, <1>7
<1>9. flat \in [1..n -> Seq(D)]
  <2>1. DOMAIN flat = 1..n /\ flat = [k \in 1..n |-> flat[k]]
    BY <1>8
  <2> DEFINE Odd == {k \in 1..n : flat[k] # f[k]}
  <2>2. Odd = {}
    <3> SUFFICES ASSUME Odd # {} PROVE FALSE
      OBVIOUS
    <3>1. PICK m \in Odd : \A i \in Odd : m <= i
      <4>1. Odd \in SUBSET Nat
        BY <1>1
      <4> HIDE DEF Odd
      <4>. QED BY <4>1, LeastExists
    <3>2. m \in 1..n /\ flat[m] # f[m]
      OBVIOUS
    <3>3. m # 1
      BY <1>6, <1>8, <3>2
    <3>4. m - 1 \in 1..n /\ ~(m <= m - 1)
      BY <1>1, <3>2, <3>3
    <3>5. flat[m - 1] = f[m - 1]
      BY <3>1, <3>4
    <3>6. flat[m] = next(flat)[m] /\ f[m] = next(f)[m]
      BY <1>6, <1>8
    <3>. QED BY <3>2, <3>3, <3>4, <3>5, <3>6
  <2>3. \A k \in 1..n : f[k] \in Seq(D)
    <3>1. \A k \in 1..n : k \in 0..n
      OBVIOUS
    <3>. QED BY <1>5, <3>1
  <2>. QED BY <2>1, <2>2, <2>3
<1>10. Paths!FlattenSeq(seqs) = flat[n]
  BY <1>7 DEF Paths!FlattenSeq
<1> HIDE DEF next
<1>11. FlattenSteps(flat, seqs, n)
  BY <1>8 DEF next, FlattenSteps
<1>. QED BY <1>9, <1>10, <1>11

LEMMA OneMoreComes ==
    ASSUME NEW D, NEW seqs \in Seq(Seq(D)), NEW n \in Nat, n + 1 \in 1..Len(seqs),
           NEW flat \in Seq(D), NEW from, ComesFrom(flat, from, seqs, n),
           NEW more, more = flat \o seqs[n + 1]
    PROVE  \E q : ComesFrom(more, q, seqs, n + 1)
<1> PICK len : len = Len(flat)
  OBVIOUS
<1> PICK last : last = seqs[n + 1]
  OBVIOUS
<1> PICK tail : tail = Len(last)
  OBVIOUS
<1>1. last \in Seq(D) /\ len \in Nat /\ tail \in Nat /\ DOMAIN last = 1..tail
  <2>1. last \in Seq(D)
    BY ElementOfSeq
  <2>. QED BY <2>1, LenProperties
<1>2. Len(more) = len + tail
  BY <1>1, ConcatProperties
<1>3. \A i \in 1..len : more[i] = flat[i]
  BY <1>1, ConcatProperties
<1>4. ASSUME NEW i \in (len + 1)..(len + tail) PROVE more[i] = last[i - len] /\ i - len \in 1..tail
  <2>1. i \in 1..(len + tail) /\ ~(i <= len) /\ i - len \in 1..tail
    BY <1>1
  <2>. QED BY <1>1, <2>1, ConcatProperties
<1>5. Paths!ToSet(last) = {last[i] : i \in 1..tail}
  BY <1>1 DEF Paths!ToSet
<1>6. \A i \in 1..(len + tail) : i \in 1..len \/ (i \in (len + 1)..(len + tail) /\ ~(i <= len))
  BY <1>1
<1>7. \A i \in 1..len : from[i] \in 1..n /\ i <= len /\ i \in 1..(len + tail)
  <2>1. \A i \in 1..len : from[i] \in 1..n
    BY DEF ComesFrom
  <2>2. \A i \in 1..len : i <= len /\ i \in 1..(len + tail)
    BY ONLY <1>1
  <2>. QED BY <2>1, <2>2
<1> DEFINE q == [i \in 1..(len + tail) |-> IF i <= len THEN from[i] ELSE n + 1]
<1>8. (\A i \in 1..len : q[i] = from[i]) /\ (\A i \in (len + 1)..(len + tail) : q[i] = n + 1)
  <2>1. \A i \in (len + 1)..(len + tail) : i \in 1..(len + tail) /\ ~(i <= len)
    BY <1>1
  <2>. QED BY <1>7, <2>1
<1>9. q \in [1..(len + tail) -> 1..(n + 1)]
  <2>1. \A i \in 1..(len + tail) : q[i] \in 1..(n + 1)
    BY <1>6, <1>7, <1>8
  <2>. QED BY <2>1
<1> HIDE DEF q
<1>10. ASSUME NEW i \in 1..(len + tail) PROVE more[i] \in Paths!ToSet(seqs[q[i]])
  <2>1. CASE i \in 1..len
    BY <1>3, <1>8, <2>1 DEF ComesFrom
  <2>2. CASE i \in (len + 1)..(len + tail)
    BY <1>4, <1>5, <1>8, <2>2
  <2>. QED BY <1>6, <2>1, <2>2
<1>11. ASSUME NEW i \in 1..(len + tail), NEW j \in 1..(len + tail), i < j PROVE q[i] <= q[j]
  <2>1. CASE j \in 1..len
    <3>1. i \in 1..len
      BY <1>11, <2>1
    <3>. QED BY <1>8, <1>11, <2>1, <3>1 DEF ComesFrom
  <2>2. CASE j \in (len + 1)..(len + tail)
    <3>1. q[j] = n + 1 /\ q[i] \in 1..(n + 1)
      BY <1>8, <1>9, <2>2
    <3>. QED BY <3>1
  <2>. QED BY <1>6, <2>1, <2>2
<1>12. ASSUME NEW r \in 1..(n + 1), NEW x \in Paths!ToSet(seqs[r])
       PROVE  \E i \in 1..(len + tail) : q[i] = r /\ more[i] = x
  <2>1. CASE r = n + 1
    <3>1. PICK k \in 1..tail : x = last[k]
      BY <1>5, <1>12, <2>1
    <3>2. len + k \in (len + 1)..(len + tail) /\ (len + k) - len = k /\ len + k \in 1..(len + tail)
      BY <1>1
    <3>3. more[len + k] = last[k] /\ q[len + k] = n + 1
      <4>1. more[len + k] = last[(len + k) - len]
        BY <1>4, <3>2
      <4>. QED BY <1>8, <3>2, <4>1
    <3>. QED BY <2>1, <3>1, <3>2, <3>3
  <2>2. CASE r \in 1..n
    <3>1. PICK i \in 1..len : from[i] = r /\ flat[i] = x
      BY <1>12, <2>2 DEF ComesFrom
    <3>2. i \in 1..(len + tail) /\ q[i] = r /\ more[i] = x
      BY <1>3, <1>7, <1>8, <3>1
    <3>. QED BY <3>2
  <2>3. r \in 1..n \/ r = n + 1
    OBVIOUS
  <2>. QED BY <2>1, <2>2, <2>3
<1>13. ComesFrom(more, q, seqs, n + 1)
  <2>1. q \in [1..Len(more) -> 1..(n + 1)]
    BY <1>2, <1>9
  <2>2. \A i \in 1..Len(more) : more[i] \in Paths!ToSet(seqs[q[i]])
    BY <1>2, <1>10
  <2>3. \A i, j \in 1..Len(more) : i < j => q[i] <= q[j]
    BY <1>2, <1>11
  <2>4. \A r \in 1..(n + 1) : \A x \in Paths!ToSet(seqs[r]) :
           \E i \in 1..Len(more) : q[i] = r /\ more[i] = x
    <3>1. ASSUME NEW r \in 1..(n + 1), NEW x \in Paths!ToSet(seqs[r])
          PROVE  \E i \in 1..Len(more) : q[i] = r /\ more[i] = x
      <4>1. PICK i \in 1..(len + tail) : q[i] = r /\ more[i] = x
        BY <1>12
      <4>. QED BY <1>2, <4>1
    <3>. QED BY <3>1
  <2>. QED BY <2>1, <2>2, <2>3, <2>4 DEF ComesFrom
<1>. QED BY <1>13

LEMMA FlattenComesFrom ==
    ASSUME NEW D, NEW seqs \in Seq(Seq(D))
    PROVE  /\ Paths!FlattenSeq(seqs) \in Seq(D)
           /\ \E from : ComesFrom(Paths!FlattenSeq(seqs), from, seqs, Len(seqs))
<1> PICK n : n = Len(seqs)
  OBVIOUS
<1>1. n \in Nat
  BY LenProperties
<1> DEFINE none == [i \in 1..0 |-> 0]
<1>2. ComesFrom(<<>>, none, seqs, 0)
  BY EmptySeq DEF ComesFrom
<1>3. CASE n = 0
  <2>1. Paths!FlattenSeq(seqs) = <<>>
    BY <1>3, EmptySeq DEF Paths!FlattenSeq
  <2>. QED BY <1>2, <1>3, <2>1, EmptySeq
<1>4. CASE n # 0
  <2>1. PICK f \in [1..n -> Seq(D)] : FlattenSteps(f, seqs, n) /\ Paths!FlattenSeq(seqs) = f[n]
    BY <1>4, FlattenUnfolds
  <2> DEFINE Holds(k) == \E from : ComesFrom(f[k], from, seqs, k)
             Bad == {k \in 1..n : ~Holds(k)}
  <2>2. Holds(1)
    <3>1. 1 \in 1..n /\ seqs[1] \in Seq(D) /\ 0 + 1 = 1
      <4>1. 1 \in 1..n
        BY <1>1, <1>4
      <4>. QED BY <4>1, ElementOfSeq
    <3>2. f[1] = seqs[1]
      BY <2>1, <3>1 DEF FlattenSteps
    <3>3. <<>> \o seqs[1] = seqs[1] /\ <<>> \in Seq(D)
      BY <3>1, ConcatEmptySeq, EmptySeq
    <3>. QED BY <1>2, <3>1, <3>2, <3>3, OneMoreComes
  <2>3. ASSUME NEW k \in 1..(n - 1), Holds(k) PROVE Holds(k + 1)
    <3>1. k \in Nat /\ k + 1 \in 1..n /\ (k + 1) - 1 = k /\ k + 1 # 1 /\ k \in 1..n
      BY <1>1
    <3>2. f[k + 1] = f[k] \o seqs[k + 1]
      BY <2>1, <3>1 DEF FlattenSteps
    <3>3. f[k] \in Seq(D)
      BY <2>1, <3>1
    <3>4. PICK from : ComesFrom(f[k], from, seqs, k)
      BY <2>3
    <3>. QED BY <3>1, <3>2, <3>3, <3>4, OneMoreComes
  <2>4. Bad = {}
    <3> SUFFICES ASSUME Bad # {} PROVE FALSE
      OBVIOUS
    <3>1. PICK k \in Bad : \A i \in Bad : k <= i
      <4>1. Bad \in SUBSET Nat
        BY <1>1
      <4> HIDE DEF Bad
      <4>. QED BY <4>1, LeastExists
    <3>2. k \in 1..n /\ ~Holds(k)
      OBVIOUS
    <3> HIDE DEF Holds
    <3>3. k # 1
      BY <2>2, <3>2
    <3>4. k - 1 \in 1..(n - 1) /\ k - 1 \in 1..n /\ ~(k <= k - 1) /\ (k - 1) + 1 = k
      BY <1>1, <3>2, <3>3
    <3>5. Holds(k - 1)
      BY <3>1, <3>4
    <3>. QED BY <2>3, <3>2, <3>4, <3>5
  <2>5. n \in 1..n
    BY <1>1, <1>4
  <2>. QED BY <2>1, <2>4, <2>5
<1>. QED BY <1>3, <1>4

LEMMA JoinedHas ==
    ASSUME NEW D, NEW s \in Seq(D), NEW t \in Seq(D)
    PROVE  /\ s \o t \in Seq(D) /\ Len(s \o t) = Len(s) + Len(t)
           /\ \A i \in 1..Len(s) : (s \o t)[i] = s[i]
           /\ Paths!ToSet(s \o t) = Paths!ToSet(s) \cup Paths!ToSet(t)
<1> PICK m : m = Len(s)
  OBVIOUS
<1> PICK n : n = Len(t)
  OBVIOUS
<1>1. m \in Nat /\ n \in Nat /\ DOMAIN s = 1..m /\ DOMAIN t = 1..n
  BY LenProperties
<1> PICK both : both = s \o t
  OBVIOUS
<1>2. both \in Seq(D) /\ Len(both) = m + n /\ \A i \in 1..m : both[i] = s[i]
  BY <1>1, ConcatProperties
<1>3. DOMAIN both = 1..(m + n)
  BY <1>2, LenProperties
<1>4. ASSUME NEW i \in 1..n PROVE m + i \in 1..(m + n) /\ both[m + i] = t[i]
  <2>1. m + i \in 1..(m + n) /\ ~(m + i <= m) /\ (m + i) - m = i
    BY <1>1
  <2>2. both[m + i] = t[(m + i) - m]
    BY <1>1, <2>1, ConcatProperties
  <2>. QED BY <2>1, <2>2
<1>5. ASSUME NEW i \in 1..(m + n) PROVE i \in 1..m \/ \E j \in 1..n : i = m + j
  <2>1. i \in 1..m \/ (i - m \in 1..n /\ i = m + (i - m))
    BY <1>1
  <2>. QED BY <2>1
<1>6. \A i \in 1..m : i \in 1..(m + n)
  BY <1>1
<1>7. /\ Paths!ToSet(both) = {both[i] : i \in 1..(m + n)} /\ Paths!ToSet(s) = {s[i] : i \in 1..m}
      /\ Paths!ToSet(t) = {t[i] : i \in 1..n}
  BY <1>1, <1>3 DEF Paths!ToSet
<1>8. Paths!ToSet(both) = Paths!ToSet(s) \cup Paths!ToSet(t)
  <2>1. ASSUME NEW x \in Paths!ToSet(both) PROVE x \in Paths!ToSet(s) \cup Paths!ToSet(t)
    <3>1. PICK i \in 1..(m + n) : x = both[i]
      BY <1>7
    <3>. QED BY <1>2, <1>4, <1>5, <1>7, <3>1
  <2>2. ASSUME NEW x \in Paths!ToSet(s) PROVE x \in Paths!ToSet(both)
    BY <1>2, <1>6, <1>7
  <2>3. ASSUME NEW x \in Paths!ToSet(t) PROVE x \in Paths!ToSet(both)
    BY <1>4, <1>7
  <2>. QED BY <2>1, <2>2, <2>3
<1>. QED BY <1>2, <1>8

\* What the environment may say, of directories D.
EnvironmentOf(D, env, runDir) ==
    /\ CalledIn \in D /\ Adamant \in D /\ runDir \in D /\ RootOf(runDir) \in D
    /\ Unset \notin D /\ Unset \notin Seq(D)
    /\ \A d \in D : Walk(d) \in Seq(D)
    /\ env \in [buildPath : Seq(D) \cup {Unset}, buildRoots : Seq(D) \cup {Unset},
                extraPath : Seq(D) \cup {Unset}, extraRoots : Seq(D) \cup {Unset},
                remove : Seq(D) \cup {Unset}, config : D \cup {Unset}, target : {env.target}]

LEMMA RootsAreDirectories ==
    ASSUME NEW D, NEW env, NEW runDir, EnvironmentOf(D, env, runDir)
    PROVE  /\ Paths!SearchRoots(env, runDir) \in Seq(D) /\ Paths!Given(env, runDir) \in Seq(D)
           /\ Paths!Listed(env.remove) \in Seq(D)
<1>1. \A d \in D : <<d>> \in Seq(D)
  OBVIOUS
<1>2. ASSUME NEW path \in Seq(D) \cup {Unset} PROVE Paths!Listed(path) \in Seq(D)
  <2>1. <<>> \in Seq(D) /\ <<CalledIn>> \in Seq(D)
    BY <1>1, EmptySeq DEF EnvironmentOf
  <2>. QED BY <2>1 DEF Paths!Listed
<1>3. /\ env.buildPath \in Seq(D) \cup {Unset} /\ env.buildRoots \in Seq(D) \cup {Unset}
      /\ env.extraPath \in Seq(D) \cup {Unset} /\ env.extraRoots \in Seq(D) \cup {Unset}
      /\ env.remove \in Seq(D) \cup {Unset}
  BY DEF EnvironmentOf
<1>4. /\ Paths!Listed(env.buildPath) \in Seq(D) /\ Paths!Listed(env.buildRoots) \in Seq(D)
      /\ Paths!Listed(env.extraPath) \in Seq(D) /\ Paths!Listed(env.extraRoots) \in Seq(D)
      /\ Paths!Listed(env.remove) \in Seq(D)
  BY <1>2, <1>3
<1>5. \A path \in Seq(D) : Paths!Sanitized(path) \in Seq(D)
  BY WithoutKeepsFirsts DEF Paths!Sanitized
<1>6. \A s, t \in Seq(D) : s \o t \in Seq(D)
  BY ConcatProperties
<1>7. Paths!Roots(env, runDir) \in Seq(D)
  <2>1. <<Adamant, RootOf(runDir)>> \in Seq(D)
    BY DEF EnvironmentOf
  <2>. QED BY <1>4, <1>5, <2>1 DEF Paths!Roots
<1>8. Paths!SearchRoots(env, runDir) \in Seq(D)
  <2>1. (IF Paths!Listed(env.buildPath) # <<>> THEN <<>> ELSE Paths!Roots(env, runDir)) \in Seq(D)
    BY <1>7, EmptySeq
  <2>. QED BY <1>4, <1>5, <1>6, <2>1 DEF Paths!SearchRoots
<1>9. Paths!Given(env, runDir) \in Seq(D)
  <2>1. <<runDir>> \in Seq(D)
    BY <1>1 DEF EnvironmentOf
  <2>2. Paths!Listed(env.buildPath) \o Paths!Listed(env.extraPath) \o <<runDir>> \in Seq(D)
    BY <1>4, <1>6, <2>1
  <2>. QED BY <1>5, <2>2 DEF Paths!Given
<1>. QED BY <1>4, <1>8, <1>9

LEMMA PathsAreInOrder ==
    ASSUME NEW D, NEW env, NEW runDir, EnvironmentOf(D, env, runDir), NEW goal, NEW pathFiles
    PROVE  Paths!PathsEndWithProject(env, runDir, goal, pathFiles)
<1> DEFINE roots == Paths!SearchRoots(env, runDir)
           goals == Paths!PathTargets(env, goal, pathFiles)
           brought == Paths!Given(env, runDir)
           removed == Paths!ToSet(Paths!Listed(env.remove))
           finds == [i \in DOMAIN roots |-> Paths!Found(roots[i], goals)]
           flat == Paths!FlattenSeq(finds)
           configured == IF env.config = Unset THEN <<>> ELSE <<env.config>>
           all == flat \o brought \o configured
           once == Paths!Sanitized(all)
           path == Paths!Path(env, runDir, goal, pathFiles)
           From(i) == Paths!ToSet(Paths!Found(roots[i], goals))
           foundIn == UNION {From(i) : i \in DOMAIN roots}
           First(d) == CHOOSE i \in DOMAIN roots :
                          d \in From(i) /\ \A j \in 1..(i - 1) : d \notin From(j)
<1> PICK n : n = Len(roots)
  OBVIOUS
<1>1. roots \in Seq(D) /\ brought \in Seq(D) /\ n \in Nat /\ DOMAIN roots = 1..n
  BY RootsAreDirectories, LenProperties
<1>2. \A i \in 1..n : Paths!Found(roots[i], goals) \in Seq(D)
  <2> SUFFICES ASSUME NEW i \in 1..n PROVE Paths!Found(roots[i], goals) \in Seq(D)
    OBVIOUS
  <2>1. roots[i] \in D
    BY <1>1, ElementOfSeq
  <2>2. Walk(roots[i]) \in Seq(D)
    BY <2>1 DEF EnvironmentOf
  <2>. QED BY <2>2, WithoutKeepsFirsts DEF Paths!Found
<1>3. path = Paths!Without(once, removed)
  BY DEF Paths!Path
<1>4. finds \in Seq(Seq(D)) /\ Len(finds) = n /\ \A i \in 1..n : finds[i] = Paths!Found(roots[i], goals)
  BY <1>1, <1>2
<1>5. configured \in Seq(D) /\ Paths!ToSet(configured) = {env.config} \ {Unset}
  <2>1. CASE env.config = Unset
    BY <2>1, EmptySeq DEF Paths!ToSet
  <2>2. CASE env.config # Unset
    <3>1. env.config \in D
      BY <2>2 DEF EnvironmentOf
    <3>2. configured = <<env.config>> /\ DOMAIN configured = 1..1 /\ configured[1] = env.config
      BY <2>2
    <3>. QED BY <2>2, <3>1, <3>2 DEF Paths!ToSet
  <2>. QED BY <2>1, <2>2
<1> HIDE DEF roots, brought, goals, finds, configured, removed, path
<1>6. flat \in Seq(D) /\ \E q : ComesFrom(flat, q, finds, n)
  BY <1>4, FlattenComesFrom
<1>7. PICK from : ComesFrom(flat, from, finds, n)
  BY <1>6
<1> HIDE DEF flat
<1>8. all \in Seq(D)
  BY <1>1, <1>5, <1>6, ConcatProperties
<1> PICK f : f = Len(flat)
  OBVIOUS
<1>9. f \in Nat /\ DOMAIN flat = 1..f /\ Paths!ToSet(flat) = {flat[i] : i \in 1..f}
  BY <1>6, LenProperties DEF Paths!ToSet
<1>10. PICK a \in Nat : a = Len(all)
  BY <1>8, LenProperties
<1>11. f <= a /\ \A i \in 1..f : all[i] = flat[i]
  <2> DEFINE first == flat \o brought
  <2>1. /\ first \in Seq(D) /\ Len(first) = f + Len(brought)
        /\ \A i \in 1..f : first[i] = flat[i]
    BY <1>1, <1>6, JoinedHas
  <2> HIDE DEF first
  <2>2. /\ Len(first \o configured) = Len(first) + Len(configured)
        /\ \A i \in 1..Len(first) : (first \o configured)[i] = first[i]
    <3>1. first \in Seq(D) /\ configured \in Seq(D)
      BY <1>5, <2>1
    <3>. QED BY ONLY <3>1, JoinedHas
  <2>3. all = first \o configured
    BY DEF first
  <2>4. Len(brought) \in Nat /\ Len(configured) \in Nat /\ Len(first) \in Nat
    BY <1>1, <1>5, <2>1, LenProperties
  <2>5. \A i \in 1..f : i \in 1..Len(first)
    BY ONLY <1>9, <2>1, <2>4
  <2>6. f <= a
    BY <1>9, <1>10, <2>1, <2>2, <2>3, <2>4
  <2>. QED BY <2>1, <2>2, <2>3, <2>5, <2>6
<1>12. Paths!ToSet(all) = Paths!ToSet(flat) \cup Paths!ToSet(brought) \cup Paths!ToSet(configured)
  <2>1. flat \o brought \in Seq(D) /\ Paths!ToSet(flat \o brought) = Paths!ToSet(flat) \cup Paths!ToSet(brought)
    BY <1>1, <1>6, JoinedHas
  <2> DEFINE first == flat \o brought
  <2> HIDE DEF first
  <2>2. first \in Seq(D) /\ Paths!ToSet(first) = Paths!ToSet(flat) \cup Paths!ToSet(brought)
    BY <2>1 DEF first
  <2>3. Paths!ToSet(first \o configured) = Paths!ToSet(first) \cup Paths!ToSet(configured)
    BY <1>5, <2>2, JoinedHas
  <2>4. all = first \o configured
    BY DEF first
  <2>. QED BY <2>2, <2>3, <2>4
<1> HIDE DEF all
<1>13. once \in Seq(D) /\ \E q : FirstsOf(once, q, all, {}, a)
  BY <1>8, <1>10, WithoutKeepsFirsts DEF Paths!Sanitized
<1>14. PICK p : FirstsOf(once, p, all, {}, a)
  BY <1>13
<1> HIDE DEF once
<1> PICK o : o = Len(once)
  OBVIOUS
<1>15. path \in Seq(D) /\ \E q : FirstsOf(path, q, once, removed, o)
  BY <1>3, <1>13, WithoutKeepsFirsts
<1>16. PICK r : FirstsOf(path, r, once, removed, o)
  BY <1>15
<1> PICK len : len = Len(path)
  OBVIOUS
<1>17. /\ o \in Nat /\ len \in Nat /\ Paths!ToSet(path) = {path[i] : i \in 1..len} /\ DOMAIN path = 1..len
       /\ Paths!ToSet(all) = {all[i] : i \in 1..a}
  BY <1>8, <1>10, <1>13, <1>15, LenProperties DEF Paths!ToSet
<1> DEFINE pos == [i \in 1..len |-> p[r[i]]]
<1>18. ASSUME NEW i \in 1..len
       PROVE  /\ r[i] \in 1..o /\ pos[i] \in 1..a /\ path[i] = all[pos[i]] /\ path[i] \notin removed
              /\ \A q \in 1..(pos[i] - 1) : all[q] # path[i]
  <2>1. r[i] \in 1..o /\ path[i] = once[r[i]] /\ path[i] \notin removed
    BY <1>16 DEF FirstsOf
  <2>2. /\ p[r[i]] \in 1..a /\ once[r[i]] = all[p[r[i]]]
        /\ \A q \in 1..(p[r[i]] - 1) : all[q] # once[r[i]]
    BY <1>14, <2>1 DEF FirstsOf
  <2>. QED BY <2>1, <2>2
<1>19. ASSUME NEW i \in 1..len, NEW j \in 1..len, i < j PROVE pos[i] < pos[j]
  <2>1. r[i] < r[j] /\ r[i] \in 1..o /\ r[j] \in 1..o
    BY <1>16, <1>18, <1>19 DEF FirstsOf
  <2>2. p[r[i]] < p[r[j]]
    BY <1>14, <2>1 DEF FirstsOf
  <2>. QED BY <2>2
<1> HIDE DEF pos
<1>20. Paths!ToSet(path) = Paths!ToSet(all) \ removed
  <2>1. ASSUME NEW x \in Paths!ToSet(path) PROVE x \in Paths!ToSet(all) \ removed
    BY <1>17, <1>18
  <2>2. ASSUME NEW x \in Paths!ToSet(all), x \notin removed PROVE x \in Paths!ToSet(path)
    <3>1. PICK q \in 1..a : x = all[q]
      BY <1>17
    <3>2. PICK k \in 1..o : once[k] = x
      BY <1>14, <3>1 DEF FirstsOf
    <3>3. \E i \in 1..len : path[i] = x
      BY <1>16, <2>2, <3>2 DEF FirstsOf
    <3>. QED BY <1>17, <3>3
  <2>. QED BY <2>1, <2>2
<1>21. ASSUME NEW i \in 1..len, NEW j \in 1..len, path[i] = path[j] PROVE i = j
  <2>1. ASSUME NEW k \in 1..len, NEW m \in 1..len, k < m PROVE path[k] # path[m]
    <3>1. pos[k] < pos[m] /\ pos[k] \in 1..a /\ pos[m] \in 1..a
      BY <1>18, <1>19, <2>1
    <3>2. pos[k] \in 1..(pos[m] - 1)
      BY <3>1
    <3>. QED BY <1>18, <3>2
  <2>2. i < j \/ j < i \/ i = j
    OBVIOUS
  <2>. QED BY <1>21, <2>1, <2>2
<1>22. \A i \in 1..n : From(i) = Paths!ToSet(finds[i])
  BY <1>4
<1>23. \A k \in 1..n : \A x \in Paths!ToSet(finds[k]) : \E i \in 1..f : from[i] = k /\ flat[i] = x
  BY <1>7 DEF ComesFrom
<1>24. foundIn = Paths!ToSet(flat)
  <2>1. ASSUME NEW x \in foundIn PROVE x \in Paths!ToSet(flat)
    <3>1. PICK i \in 1..n : x \in Paths!ToSet(finds[i])
      BY <1>1, <1>22, <2>1
    <3>2. \E j \in 1..f : from[j] = i /\ flat[j] = x
      BY ONLY <1>23, <3>1, i \in 1..n
    <3>. QED BY <1>9, <3>2
  <2>2. ASSUME NEW x \in Paths!ToSet(flat) PROVE x \in foundIn
    <3>1. PICK i \in 1..f : x = flat[i]
      BY <1>9, <2>2
    <3>2. from[i] \in 1..n /\ x \in Paths!ToSet(finds[from[i]])
      BY <1>7, <3>1 DEF ComesFrom
    <3>. QED BY <1>1, <1>22, <3>2
  <2>. QED BY <2>1, <2>2
<1>25. ASSUME NEW d \in foundIn
       PROVE  First(d) \in 1..n /\ d \in From(First(d)) /\ \A j \in 1..(First(d) - 1) : d \notin From(j)
  <2> DEFINE Has == {i \in 1..n : d \in From(i)}
  <2>1. Has # {} /\ Has \in SUBSET Nat
    BY <1>1, <1>25
  <2>2. PICK i \in Has : \A j \in Has : i <= j
    <3> HIDE DEF Has
    <3>. QED BY <2>1, LeastExists
  <2>3. \A j \in 1..(i - 1) : j \in 1..n /\ ~(i <= j)
    BY <1>1
  <2>4. i \in DOMAIN roots /\ d \in From(i) /\ \A j \in 1..(i - 1) : d \notin From(j)
    BY <1>1, <2>2, <2>3
  <2>. QED BY <1>1, <2>4
<1> HIDE DEF From, foundIn, First
<1>26. ASSUME NEW i \in 1..len, path[i] \in foundIn
       PROVE  pos[i] \in 1..f /\ from[pos[i]] = First(path[i])
  <2> PICK d : d = path[i]
    OBVIOUS
  <2> PICK k : k = First(d)
    OBVIOUS
  <2>1. k \in 1..n /\ d \in Paths!ToSet(finds[k]) /\ \A j \in 1..(k - 1) : d \notin Paths!ToSet(finds[j])
    <3>1. k \in 1..n /\ d \in From(k) /\ \A j \in 1..(k - 1) : d \notin From(j)
      BY <1>25, <1>26
    <3>2. \A j \in 1..(k - 1) : j \in 1..n
      BY <1>1, <3>1
    <3>. QED BY <1>22, <3>1, <3>2
  <2>2. PICK q \in 1..f : from[q] = k /\ flat[q] = d
    BY ONLY <1>23, <2>1
  <2>3. all[q] = d /\ pos[i] \in 1..a
    BY <1>11, <1>18, <2>2
  <2>4. pos[i] <= q
    <3>1. ~(q \in 1..(pos[i] - 1))
      BY <1>18, <2>3
    <3>. QED BY <1>9, <2>3, <3>1
  <2>5. pos[i] \in 1..f
    BY <1>9, <2>3, <2>4
  <2>6. flat[pos[i]] = d
    BY <1>11, <1>18, <2>5
  <2>7. from[pos[i]] \in 1..n /\ d \in Paths!ToSet(finds[from[pos[i]]])
    BY <1>7, <2>5, <2>6 DEF ComesFrom
  <2>8. from[pos[i]] <= k
    <3>1. pos[i] = q \/ pos[i] < q
      BY <1>9, <2>4, <2>5
    <3>2. CASE pos[i] = q
      BY <2>1, <2>2, <3>2
    <3>3. CASE pos[i] < q
      BY <1>7, <2>2, <2>5, <3>3 DEF ComesFrom
    <3>. QED BY <3>1, <3>2, <3>3
  <2>9. ~(from[pos[i]] \in 1..(k - 1))
    BY <2>1, <2>7
  <2>10. from[pos[i]] = k
    BY ONLY <1>1, <2>1, <2>7, <2>8, <2>9
  <2>. QED BY <2>5, <2>10
<1>27. ASSUME NEW i \in 1..len, NEW j \in 1..len, path[i] \in foundIn, i > j
       PROVE  path[j] \in foundIn /\ First(path[j]) <= First(path[i])
  <2>1. pos[i] \in 1..f /\ from[pos[i]] = First(path[i]) /\ pos[j] \in 1..a /\ pos[j] < pos[i]
    BY <1>18, <1>19, <1>26, <1>27
  <2>2. pos[j] \in 1..f
    BY <1>9, <1>10, <2>1
  <2>3. path[j] = flat[pos[j]]
    BY <1>11, <1>18, <2>2
  <2>4. path[j] \in foundIn
    BY <1>9, <1>24, <2>2, <2>3
  <2>5. from[pos[j]] = First(path[j])
    BY <1>26, <2>4
  <2>6. from[pos[j]] <= from[pos[i]]
    BY <1>7, <2>1, <2>2 DEF ComesFrom
  <2>. QED BY <2>1, <2>4, <2>5, <2>6
<1> DEFINE held == (foundIn \cup Paths!ToSet(brought) \cup ({env.config} \ {Unset})) \ removed
<1>28. Paths!ToSet(path) = held
  BY <1>5, <1>12, <1>20, <1>24
<1>29. Paths!IsInjective(path)
  BY <1>17, <1>21 DEF Paths!IsInjective
<1>30. \A i, j \in DOMAIN path : path[i] \in foundIn /\ i > j =>
          path[j] \in foundIn /\ First(path[j]) <= First(path[i])
  BY <1>17, <1>27
<1>. QED BY <1>28, <1>29, <1>30
     DEF Paths!PathsEndWithProject, held, foundIn, First, From, roots, brought, goals, removed, path

(* A directory is in the build path when it is found or given and is not    *)
(* taken out, once, and what an earlier root has comes before what a later  *)
(* one or the user brings (redo/database/_setup.py), for any roots, walks   *)
(* and environment.                                                         *)
THEOREM ProjectComesLast ==
    ASSUME NEW D, supplied.kind = "path" => EnvironmentOf(D, supplied.env, supplied.runDir)
    PROVE  PathsEndWithProject
BY PathsAreInOrder DEF PathsEndWithProject

-----------------------------------------------------------------------------
(* Tables: parameters, routers and watchdogs.                               *)

LEMMA RowsMeanTheSame ==
    /\ \A S : Rows!Cardinality(S) = Cardinality(S)
    /\ \A s : Rows!FlattenSeq(s) = Paths!FlattenSeq(s)
    /\ \A s : Rows!Range(s) = Paths!ToSet(s)
  BY DEF Rows!Cardinality, Cardinality, Rows!FlattenSeq, Paths!FlattenSeq, Rows!Range, Paths!ToSet

PlacedBy(numbers, n, who) ==
    /\ who \in [1..n -> 1..n]
    /\ \A k \in 1..n : who[k] = CHOOSE i \in 1..n : Rows!PlaceAmong(numbers, i) = k
    /\ \A k \in 1..n : Rows!PlaceAmong(numbers, who[k]) = k
    /\ \A i \in 1..n : Rows!PlaceAmong(numbers, i) \in 1..n /\ who[Rows!PlaceAmong(numbers, i)] = i
    /\ \A i, j \in 1..n : numbers[i] < numbers[j] => Rows!PlaceAmong(numbers, i) < Rows!PlaceAmong(numbers, j)

\* A sort puts one at each place, and the lower number at the lower place.
LEMMA PlacesAreTaken ==
    ASSUME NEW n \in Nat, NEW numbers \in [1..n -> Int]
    PROVE  \E who : PlacedBy(numbers, n, who)
<1> DEFINE NotBehind(i) == {j \in 1..n : numbers[j] < numbers[i] \/ (numbers[j] = numbers[i] /\ j <= i)}
           place == [i \in 1..n |-> Cardinality(NotBehind(i))]
           who == [k \in 1..n |-> CHOOSE i \in 1..n : Rows!PlaceAmong(numbers, i) = k]
<1>1. IsFiniteSet(1..n) /\ Cardinality(1..n) = n
  BY FS_Interval
<1>2. ASSUME NEW i \in 1..n
      PROVE  Rows!PlaceAmong(numbers, i) = place[i] /\ IsFiniteSet(NotBehind(i)) /\ place[i] \in 1..n
  <2>1. NotBehind(i) \in SUBSET (1..n)
    OBVIOUS
  <2>2. Rows!PlaceAmong(numbers, i) = Cardinality(NotBehind(i))
    BY RowsMeanTheSame DEF Rows!PlaceAmong
  <2>3. i \in NotBehind(i)
    BY <1>2
  <2> HIDE DEF NotBehind
  <2>4. IsFiniteSet(NotBehind(i)) /\ Cardinality(NotBehind(i)) <= n
    BY <1>1, <2>1, FS_Subset
  <2>5. Cardinality(NotBehind(i)) \in Nat /\ Cardinality(NotBehind(i)) # 0
    BY <2>3, <2>4, FS_CardinalityType, FS_EmptySet
  <2>. QED BY <2>2, <2>4, <2>5
<1>3. ASSUME NEW i \in 1..n, NEW j \in 1..n, numbers[i] < numbers[j] \/ (numbers[i] = numbers[j] /\ i < j)
      PROVE  place[i] < place[j]
  <2>1. \A k \in 1..n : numbers[k] \in Int /\ k \in Int
    OBVIOUS
  <2>2. NotBehind(i) \in SUBSET NotBehind(j) /\ j \in NotBehind(j) /\ j \notin NotBehind(i)
    BY <1>3, <2>1
  <2> HIDE DEF NotBehind
  <2>3. IsFiniteSet(NotBehind(j))
    BY <1>2
  <2>4. Cardinality(NotBehind(i)) <= Cardinality(NotBehind(j))
        /\ Cardinality(NotBehind(i)) # Cardinality(NotBehind(j))
    BY <2>2, <2>3, FS_Subset
  <2>5. place[i] \in 1..n /\ place[j] \in 1..n
    BY <1>2
  <2>. QED BY <2>4, <2>5
<1> HIDE DEF place
<1>4. place \in Injection(1..n, 1..n)
  <2>1. place \in [1..n -> 1..n]
    BY <1>2 DEF place
  <2>2. ASSUME NEW i \in 1..n, NEW j \in 1..n, i # j PROVE place[i] # place[j]
    <3>1. \/ numbers[i] < numbers[j] \/ (numbers[i] = numbers[j] /\ i < j)
          \/ numbers[j] < numbers[i] \/ (numbers[j] = numbers[i] /\ j < i)
      BY <2>2
    <3>2. place[i] < place[j] \/ place[j] < place[i]
      BY <1>3, <3>1
    <3>3. place[i] \in 1..n /\ place[j] \in 1..n
      BY <1>2
    <3>. QED BY ONLY <3>2, <3>3, n \in Nat
  <2>. QED BY <2>1, <2>2 DEF Injection, IsInjective
<1>5. place \in Surjection(1..n, 1..n)
  BY <1>1, <1>4, FS_Injection
<1>6. ASSUME NEW k \in 1..n PROVE who[k] \in 1..n /\ Rows!PlaceAmong(numbers, who[k]) = k
  <2>1. \E i \in 1..n : Rows!PlaceAmong(numbers, i) = k
    BY <1>2, <1>5 DEF Surjection
  <2>. QED BY <2>1
<1>7. \A k \in 1..n : who[k] = CHOOSE i \in 1..n : Rows!PlaceAmong(numbers, i) = k
  OBVIOUS
<1> HIDE DEF who
<1>8. who \in [1..n -> 1..n]
  BY <1>6 DEF who
<1>9. ASSUME NEW i \in 1..n PROVE Rows!PlaceAmong(numbers, i) \in 1..n /\ who[Rows!PlaceAmong(numbers, i)] = i
  <2>1. Rows!PlaceAmong(numbers, i) = place[i] /\ place[i] \in 1..n
    BY <1>2
  <2>2. who[place[i]] \in 1..n /\ place[who[place[i]]] = place[i]
    BY <1>2, <1>6, <2>1
  <2>3. who[place[i]] = i
    BY <1>4, <2>1, <2>2 DEF Injection, IsInjective
  <2>. QED BY <2>1, <2>3
<1>10. ASSUME NEW i \in 1..n, NEW j \in 1..n, numbers[i] < numbers[j]
       PROVE  Rows!PlaceAmong(numbers, i) < Rows!PlaceAmong(numbers, j)
  BY <1>2, <1>3, <1>10
<1>11. PlacedBy(numbers, n, who)
  BY <1>6, <1>7, <1>8, <1>9, <1>10 DEF PlacedBy
<1>. QED BY <1>11

\* Of as many numbers as there are places, all different, each is its place.
LEMMA PlaceIsNumber ==
    ASSUME NEW n \in Nat, NEW numbers \in Injection(1..n, 1..n), NEW i \in 1..n
    PROVE  Rows!PlaceAmong(numbers, i) = numbers[i]
<1>1. IsFiniteSet(1..n) /\ numbers \in [1..n -> 1..n]
  BY FS_Interval DEF Injection
<1>2. numbers \in Surjection(1..n, 1..n)
  BY <1>1, FS_Injection
<1> PICK c : c = numbers[i]
  OBVIOUS
<1>3. c \in 1..n
  BY <1>1
<1> DEFINE NotBehind == {j \in 1..n : numbers[j] < numbers[i] \/ (numbers[j] = numbers[i] /\ j <= i)}
           f == [j \in NotBehind |-> numbers[j]]
<1>4. Rows!PlaceAmong(numbers, i) = Cardinality(NotBehind)
  BY <1>1, RowsMeanTheSame DEF Rows!PlaceAmong
<1>5. ASSUME NEW j \in 1..n PROVE j \in NotBehind <=> numbers[j] <= c
  <2>1. numbers[j] \in 1..n /\ (numbers[j] = c <=> j = i)
    BY <1>1 DEF Injection, IsInjective
  <2>. QED BY <1>3, <2>1
<1>6. NotBehind \in SUBSET (1..n)
  OBVIOUS
<1> HIDE DEF NotBehind
<1>7. IsFiniteSet(NotBehind)
  BY <1>1, <1>6, FS_Subset
<1>8. f \in [NotBehind -> 1..c]
  <2>1. \A j \in NotBehind : numbers[j] \in 1..c
    BY <1>1, <1>3, <1>5, <1>6
  <2>. QED BY <2>1
<1>9. f \in Surjection(NotBehind, 1..c)
  <2>1. ASSUME NEW x \in 1..c PROVE \E j \in NotBehind : f[j] = x
    <3>1. x \in 1..n /\ x <= c
      BY <1>3
    <3>2. PICK j \in 1..n : numbers[j] = x
      BY <1>2, <3>1 DEF Surjection
    <3>3. j \in NotBehind
      BY <1>5, <3>1, <3>2
    <3>. QED BY <3>2, <3>3
  <2>. QED BY <1>8, <2>1 DEF Surjection
<1>10. f \in Injection(NotBehind, 1..c)
  <2>1. \A j, k \in NotBehind : f[j] = f[k] => j = k
    BY <1>6 DEF Injection, IsInjective
  <2>. QED BY <1>8, <2>1 DEF Injection, IsInjective
<1>11. Cardinality(1..c) = Cardinality(NotBehind)
  BY <1>7, <1>9, <1>10, FS_Surjection
<1>12. Cardinality(1..c) = c
  <2>1. 1 \in Int /\ c \in Int
    BY <1>3
  <2>2. Cardinality(1..c) = IF 1 > c THEN 0 ELSE c - 1 + 1
    BY <2>1, FS_Interval
  <2>. QED BY <1>3, <2>2
<1>. QED BY <1>4, <1>11, <1>12

CalledOnce(petters, callers, n) ==
    /\ Len(petters) = n
    /\ \A i \in 1..n : /\ Rows!ConnectorId(petters[i], callers) \in 1..n
                       /\ callers[Rows!ConnectorId(petters[i], callers)] = <<petters[i].name>>
    /\ [i \in 1..n |-> Rows!ConnectorId(petters[i], callers)] \in Injection(1..n, 1..n)

\* The petters of a watchdog are as many as the indexes, and each is called at one.
LEMMA PettersAreCalledOnce ==
    ASSUME NEW R, NEW petters \in Seq(R), NEW N, NEW callers \in Seq(Seq(N)),
           Rows!WatchdogTaken(petters, callers), NEW n, n = Len(callers)
    PROVE  CalledOnce(petters, callers, n)
<1>1. /\ n \in Nat /\ Len(petters) = n /\ DOMAIN petters = 1..n /\ DOMAIN callers = 1..n
      /\ \A i \in 1..n : callers[i] \in Seq(N) /\ Len(callers[i]) <= 1
  <2>1. Len(petters) = n /\ \A i \in DOMAIN callers : Len(callers[i]) <= 1
    BY DEF Rows!WatchdogTaken
  <2>2. n \in Nat /\ DOMAIN petters = 1..n /\ DOMAIN callers = 1..n
    BY <2>1, LenProperties
  <2>. QED BY <2>1, <2>2, ElementOfSeq
<1>2. ASSUME NEW i \in 1..n, NEW j \in 1..n, petters[i].name = petters[j].name PROVE i = j
  <2>1. Rows!IsInjective(Rows!NamesOf(petters))
    BY DEF Rows!WatchdogTaken
  <2>2. Rows!NamesOf(petters) = [k \in 1..n |-> petters[k].name]
    BY <1>1 DEF Rows!NamesOf
  <2>. QED BY <1>2, <2>1, <2>2 DEF Rows!IsInjective
<1>3. PICK from : ComesFrom(Paths!FlattenSeq(callers), from, callers, n)
  BY FlattenComesFrom
<1>4. ASSUME NEW i \in 1..n PROVE \E k \in 1..n : petters[i].name \in Rows!Range(callers[k])
  <2>1. Rows!Range(Rows!NamesOf(petters)) \subseteq Rows!Range(Rows!FlattenSeq(callers))
    BY DEF Rows!WatchdogTaken
  <2>2. petters[i].name \in Rows!Range(Rows!NamesOf(petters))
    BY <1>1 DEF Rows!NamesOf, Rows!Range
  <2>3. petters[i].name \in Paths!ToSet(Paths!FlattenSeq(callers))
    BY <2>1, <2>2, RowsMeanTheSame
  <2> PICK flat : flat = Paths!FlattenSeq(callers)
    OBVIOUS
  <2>4. flat \in Seq(N) /\ DOMAIN flat = 1..Len(flat)
    BY FlattenComesFrom, LenProperties
  <2>5. PICK q \in 1..Len(flat) : flat[q] = petters[i].name
    BY <2>3, <2>4 DEF Paths!ToSet
  <2>6. from[q] \in 1..n /\ flat[q] \in Paths!ToSet(callers[from[q]])
    BY <1>3, <2>5 DEF ComesFrom
  <2>. QED BY <2>5, <2>6, RowsMeanTheSame
<1>5. ASSUME NEW k \in 1..n, NEW x \in Rows!Range(callers[k]) PROVE callers[k] = <<x>>
  <2>1. callers[k] \in Seq(N) /\ Len(callers[k]) <= 1 /\ Len(callers[k]) \in Nat /\ DOMAIN callers[k] = 1..Len(callers[k])
    BY <1>1, LenProperties
  <2>2. PICK q \in 1..Len(callers[k]) : callers[k][q] = x
    BY <2>1 DEF Rows!Range
  <2> PICK m : m = Len(callers[k])
    OBVIOUS
  <2>3. m \in Nat /\ m <= 1 /\ q \in 1..m
    BY <2>1, <2>2
  <2>4. q = 1 /\ m = 1
    BY ONLY <2>3
  <2>. QED BY <2>1, <2>2, <2>4
<1> DEFINE id(i) == Rows!ConnectorId(petters[i], callers)
<1>6. ASSUME NEW i \in 1..n PROVE id(i) \in 1..n /\ callers[id(i)] = <<petters[i].name>>
  <2>1. id(i) \in DOMAIN callers /\ petters[i].name \in Rows!Range(callers[id(i)])
    BY <1>1, <1>4 DEF Rows!ConnectorId
  <2> HIDE DEF id
  <2>. QED BY <1>1, <1>5, <2>1
<1> HIDE DEF id
<1>7. ASSUME NEW i \in 1..n, NEW j \in 1..n, id(i) = id(j) PROVE i = j
  <2>1. <<petters[i].name>> = <<petters[j].name>>
    BY <1>6, <1>7
  <2>2. petters[i].name = petters[j].name
    BY <2>1
  <2>. QED BY <1>2, <2>2
<1>8. [i \in 1..n |-> id(i)] \in Injection(1..n, 1..n)
  BY <1>6, <1>7 DEF Injection, IsInjective
<1>. QED BY <1>1, <1>6, <1>8 DEF id, CalledOnce

LEMMA PetsAreFound ==
    ASSUME NEW R, NEW petters \in Seq(R), NEW N, NEW callers \in Seq(Seq(N))
    PROVE  Rows!PetsAreTheirs(petters, callers)
<1> SUFFICES ASSUME Rows!WatchdogTaken(petters, callers), NEW k \in DOMAIN callers
             PROVE  callers[k] = <<Rows!WatchdogList(petters, callers)[k].name>>
  BY DEF Rows!PetsAreTheirs
<1> PICK n : n = Len(callers)
  OBVIOUS
<1> PICK numbers : numbers = [i \in 1..n |-> Rows!ConnectorId(petters[i], callers)]
  OBVIOUS
<1>1. /\ numbers \in Injection(1..n, 1..n) /\ Len(petters) = n
      /\ \A i \in 1..n : numbers[i] \in 1..n /\ callers[numbers[i]] = <<petters[i].name>>
  <2>1. CalledOnce(petters, callers, n)
    BY PettersAreCalledOnce
  <2>2. \A i \in 1..n : numbers[i] = Rows!ConnectorId(petters[i], callers)
    OBVIOUS
  <2>. QED BY <2>1, <2>2 DEF CalledOnce
<1>2. n \in Nat /\ DOMAIN callers = 1..n /\ DOMAIN petters = 1..n
  BY <1>1, LenProperties
<1>3. numbers \in [1..n -> Int]
  BY <1>1
<1>4. PICK who : PlacedBy(numbers, n, who)
  BY <1>2, <1>3, PlacesAreTaken
<1>5. Rows!WatchdogList(petters, callers) =
        [j \in 1..n |-> petters[CHOOSE i \in 1..n : Rows!PlaceAmong(numbers, i) = j]]
  BY <1>2 DEF Rows!WatchdogList
<1>6. k \in 1..n /\ who[k] \in 1..n /\ who[k] = (CHOOSE i \in 1..n : Rows!PlaceAmong(numbers, i) = k)
      /\ Rows!PlaceAmong(numbers, who[k]) = k
  BY <1>2, <1>4 DEF PlacedBy
<1>7. Rows!WatchdogList(petters, callers)[k] = petters[who[k]]
  BY <1>5, <1>6
<1>8. numbers[who[k]] = k
  BY <1>1, <1>2, <1>6, PlaceIsNumber
<1>. QED BY <1>1, <1>6, <1>7, <1>8

LEMMA RoutesAreNamed ==
    ASSUME NEW assembly, NEW router, NEW ids
    PROVE  Rows!RoutesLead(assembly, router, ids)
<1> DEFINE connections == assembly[router.instance].connections
<1> SUFFICES ASSUME Rows!TableRouterTaken(assembly, router, ids)
             PROVE  /\ \A i, j \in DOMAIN router.table :
                          Rows!Number(ids, router.table[i].key) = Rows!Number(ids, router.table[j].key) => i = j
                    /\ \A i \in DOMAIN router.table : \A k \in DOMAIN router.table[i].destinations :
                          LET d == router.table[i].destinations[k]
                              to == connections[Rows!IndexOf(connections, d)]
                          IN  ~Rows!Ignored(router, d) => to[1] = d.component /\ d.connector \in {Unset, to[2]}
  BY DEF Rows!RoutesLead
<1>1. ASSUME NEW i \in DOMAIN router.table, NEW j \in DOMAIN router.table,
             Rows!Number(ids, router.table[i].key) = Rows!Number(ids, router.table[j].key)
      PROVE  i = j
  <2>1. Rows!IsInjective([k \in DOMAIN router.table |-> Rows!Number(ids, router.table[k].key)])
    BY DEF Rows!TableRouterTaken
  <2>. QED BY <1>1, <2>1 DEF Rows!IsInjective
<1>2. ASSUME NEW i \in DOMAIN router.table, NEW k \in DOMAIN router.table[i].destinations,
             NEW d, d = router.table[i].destinations[k], ~Rows!Ignored(router, d),
             NEW to, to = connections[Rows!IndexOf(connections, d)]
      PROVE  to[1] = d.component /\ d.connector \in {Unset, to[2]}
  <2>1. Rows!Resolves(connections, d)
    BY <1>2 DEF Rows!TableRouterTaken, Rows!RouterTaken
  <2>2. Rows!DestinationOf(connections, d) # {}
    BY <2>1, RowsMeanTheSame, FS_EmptySet DEF Rows!Resolves
  <2>3. Rows!IndexOf(connections, d) \in Rows!DestinationOf(connections, d)
    BY <2>2 DEF Rows!IndexOf
  <2> HIDE DEF connections
  <2>. QED BY <1>2, <2>3 DEF Rows!DestinationOf, Rows!Ends
<1>. QED BY <1>1, <1>2

(* Each destination of a table that a router takes is the one connector of  *)
(* the router that leads where it says, and no two entries name one table   *)
(* (parameter_table_router_table.py); the entry that a watchdog finds under *)
(* the index of a call is the caller's (task_watchdog_list.py): for any     *)
(* assembly, any tables and any names.                                      *)
THEOREM IndexesLead ==
    ASSUME NEW R, NEW N,
           supplied.kind = "watchdog" => supplied.petters \in Seq(R) /\ supplied.callers \in Seq(Seq(N))
    PROVE  RoutersLead
BY PetsAreFound, RoutesAreNamed DEF RoutersLead

\* The tables of an assembly are known by the order in which they are given it.
LEMMA TablesAreNumbered ==
    ASSUME NEW K, NEW order \in Seq(K), Rows!IsInjective(order), NEW tables,
           \A t \in K : tables[t].rank \in Int, NEW n, n = Len(order)
    PROVE  /\ {Rows!TableIds(tables, order, n)[t] : t \in Rows!Range(order)} = 1..n
           /\ \A t, u \in Rows!Range(order) : tables[t].rank < tables[u].rank =>
                 Rows!TableIds(tables, order, n)[t] < Rows!TableIds(tables, order, n)[u]
<1>1. n \in Nat /\ DOMAIN order = 1..n /\ \A i \in 1..n : order[i] \in K
  <2>1. n \in Nat /\ DOMAIN order = 1..n
    BY LenProperties
  <2>. QED BY <2>1, ElementOfSeq
<1>2. SubSeq(order, 1, n) = order
  <2> PICK came : came = SubSeq(order, 1, n)
    OBVIOUS
  <2>1. came \in Seq(K) /\ Len(came) = n /\ \A i \in 1..n : came[i] = order[i]
    <3>1. came \in Seq(K) /\ Len(came) = (IF 1 <= n THEN n - 1 + 1 ELSE 0) /\ \A i \in 1..(n - 1 + 1) : came[i] = order[1 + i - 1]
      <4>1. 1 \in 1..(n + 1) /\ n \in 0..n
        BY <1>1
      <4>. QED BY <4>1, <1>1, SubSeqProperties
    <3>2. \A i \in 1..n : 1 + i - 1 = i /\ i \in 1..(n - 1 + 1)
      BY <1>1
    <3>. QED BY <1>1, <3>1, <3>2
  <2>. QED BY <2>1, SeqEqual
<1> DEFINE ranks == [i \in 1..n |-> tables[order[i]].rank]
           where(t) == CHOOSE j \in 1..n : order[j] = t
<1>3. ranks \in [1..n -> Int]
  BY <1>1
<1>4. \A t \in Rows!Range(order) : where(t) \in 1..n /\ order[where(t)] = t
  BY <1>1 DEF Rows!Range
<1>5. \A i \in 1..n : order[i] \in Rows!Range(order) /\ where(order[i]) = i
  BY <1>1, <1>4 DEF Rows!Range, Rows!IsInjective
<1>6. \A t \in Rows!Range(order) : ranks[where(t)] = tables[t].rank
  BY <1>4
<1>7. \A t \in Rows!Range(order) :
         Rows!TableIds(tables, order, n)[t] = Rows!PlaceAmong(ranks, where(t))
  BY <1>1, <1>2 DEF Rows!TableIds
<1> HIDE DEF ranks, where
<1>8. PICK who : PlacedBy(ranks, n, who)
  BY <1>1, <1>3, PlacesAreTaken
<1>9. ASSUME NEW t \in Rows!Range(order) PROVE Rows!TableIds(tables, order, n)[t] \in 1..n
  BY <1>4, <1>7, <1>8 DEF PlacedBy
<1>10. ASSUME NEW k \in 1..n PROVE \E t \in Rows!Range(order) : Rows!TableIds(tables, order, n)[t] = k
  <2>1. who[k] \in 1..n /\ Rows!PlaceAmong(ranks, who[k]) = k
    BY <1>8 DEF PlacedBy
  <2>2. order[who[k]] \in Rows!Range(order) /\ where(order[who[k]]) = who[k]
    BY <1>5, <2>1
  <2>. QED BY <1>7, <2>1, <2>2
<1>11. ASSUME NEW t \in Rows!Range(order), NEW u \in Rows!Range(order), tables[t].rank < tables[u].rank
       PROVE  Rows!TableIds(tables, order, n)[t] < Rows!TableIds(tables, order, n)[u]
  <2>1. where(t) \in 1..n /\ where(u) \in 1..n /\ ranks[where(t)] < ranks[where(u)]
    BY <1>4, <1>6, <1>11
  <2>. QED BY <1>7, <1>8, <2>1 DEF PlacedBy
<1>. QED BY <1>9, <1>10, <1>11

LEMMA ParametersAreOnce ==
    ASSUME NEW assembly, NEW K, NEW order \in Seq(K), Rows!IsInjective(order), NEW tables,
           \A t \in K : tables[t].rank \in Int, NEW header, NEW room,
           \A c \in DOMAIN assembly : DOMAIN assembly[c].connections \subseteq Nat
    PROVE  Rows!ParametersHaveOnePlace(assembly, tables, order, header, room)
<1> DEFINE Held(i) == Rows!Parameters(assembly, tables[order[i]])
           connections(i) == assembly[tables[order[i]].instance].connections
<1> PICK n : n = Len(order)
  OBVIOUS
<1> PICK ids : ids = Rows!TableIds(tables, order, n)
  OBVIOUS
<1> SUFFICES ASSUME Rows!TablesResolve(assembly, tables, order, header, room)
             PROVE  /\ \A i, j \in DOMAIN order : \A k \in DOMAIN Held(i), l \in DOMAIN Held(j) :
                          Held(i)[k] = Held(j)[l] => i = j /\ k = l
                    /\ {ids[t] : t \in Rows!Range(order)} = 1..n
                    /\ \A t, u \in Rows!Range(order) : tables[t].rank < tables[u].rank => ids[t] < ids[u]
                    /\ \A i \in DOMAIN order : \A k \in DOMAIN Held(i) :
                          connections(i)[Rows!ComponentIndex(connections(i), Held(i)[k][1])] = Held(i)[k][1]
  BY DEF Rows!ParametersHaveOnePlace
<1>1. n \in Nat /\ DOMAIN order = 1..n
  BY LenProperties
<1>2. ASSUME NEW i \in 1..n
      PROVE  /\ Rows!TableResolves(assembly, tables[order[i]], header, room)
             /\ Rows!OtherTables(assembly, tables, order, i)
  BY <1>1 DEF Rows!TablesResolve
<1>3. ASSUME NEW i \in 1..n, NEW j \in 1..n, i < j, NEW k \in DOMAIN Held(i), NEW l \in DOMAIN Held(j)
      PROVE  Held(i)[k] # Held(j)[l]
  <2>1. i \in 1..(j - 1)
    BY <1>3
  <2>2. Rows!Range(Held(i)) \cap Rows!Range(Held(j)) = {}
    BY <1>2, <2>1 DEF Rows!OtherTables
  <2>. QED BY <1>3, <2>2 DEF Rows!Range
<1>4. ASSUME NEW i \in 1..n, NEW j \in 1..n, NEW k \in DOMAIN Held(i), NEW l \in DOMAIN Held(j),
             Held(i)[k] = Held(j)[l]
      PROVE  i = j /\ k = l
  <2>1. i = j
    <3>1. i < j \/ j < i \/ i = j
      OBVIOUS
    <3>. QED BY <1>3, <1>4, <3>1
  <2>2. Rows!IsInjective(Held(i))
    BY <1>2 DEF Rows!TableResolves
  <2>. QED BY <1>4, <2>1, <2>2 DEF Rows!IsInjective
<1>5. {ids[t] : t \in Rows!Range(order)} = 1..n
      /\ \A t, u \in Rows!Range(order) : tables[t].rank < tables[u].rank => ids[t] < ids[u]
  BY TablesAreNumbered
<1>6. ASSUME NEW i \in 1..n, NEW k \in DOMAIN Held(i)
      PROVE  connections(i)[Rows!ComponentIndex(connections(i), Held(i)[k][1])] = Held(i)[k][1]
  <2> PICK owner : owner = Held(i)[k][1]
    OBVIOUS
  <2> PICK to : to = {q \in DOMAIN connections(i) : connections(i)[q] = owner}
    OBVIOUS
  <2>1. Rows!ComponentIndex(connections(i), owner) # Unset /\ tables[order[i]].instance \in DOMAIN assembly
    BY <1>2, <1>6 DEF Rows!TableResolves, Rows!Range
  <2>2. to # {} /\ Rows!ComponentIndex(connections(i), owner) = Rows!Min(to)
    BY <2>1 DEF Rows!ComponentIndex
  <2>3. to \in SUBSET Nat
    BY <2>1
  <2>4. PICK m \in to : \A q \in to : m <= q
    BY <2>2, <2>3, LeastExists
  <2>5. Rows!Min(to) \in to
    BY <2>4 DEF Rows!Min
  <2>. QED BY <2>2, <2>5
<1>. QED BY <1>1, <1>4, <1>5, <1>6

(* When the tables of an assembly resolve, every parameter is in one place  *)
(* of one of them, they have the numbers from 1 on in the order of their    *)
(* names, and the connector of a parameter leads to its component           *)
(* (parameter_table.py), for any assembly and any tables.                   *)
THEOREM EachParameterIsOnce ==
    ASSUME NEW K,
           supplied.kind = "tables" =>
               /\ supplied.order \in Seq(K) /\ Rows!IsInjective(supplied.order)
               /\ \A t \in K : supplied.tables[t].rank \in Int
               /\ \A c \in DOMAIN supplied.assembly : DOMAIN supplied.assembly[c].connections \subseteq Nat
    PROVE  ParametersHaveOnePlace
BY ParametersAreOnce DEF ParametersHaveOnePlace

-----------------------------------------------------------------------------
(* ObjectSources: what an object depends on, and what a program is made of.*)

\* A project whose Ada sources only with units that have a spec, if they have
\* anything to compile.  A name may end as any other, and ends as itself.
ProjectOf(p) ==
    /\ IsFiniteSet(p.units)
    /\ p.sources \subseteq p.units \X {"ads", "adb", "h", "c", "s"}
    /\ p.withs \in [p.sources -> SUBSET p.units]
    /\ \A f \in p.sources : f[2] \in Objects!Ada =>
          \A u \in p.withs[f] : Objects!ToCompile(p, u) # {} => <<u, "ads">> \in p.sources
    /\ \A u \in p.units : EndsWith(u, u)

Leads(A, leads) == IsFiniteSet(A) /\ leads \in [A -> SUBSET A]

ClosedUnder(leads, S) == \A f \in S : leads[f] \subseteq S

\* The least set with these that what it leads to stays in.
LeastFrom(A, leads, from, R) ==
    /\ R \in SUBSET A /\ from \subseteq R /\ ClosedUnder(leads, R)
    /\ \A S \in SUBSET A : from \subseteq S /\ ClosedUnder(leads, S) => R \subseteq S

\* The function of Reached unfolds.
LEMMA ReachedUnfolds ==
    ASSUME NEW A, NEW leads, Leads(A, leads), NEW from, NEW n, n = Cardinality(A)
    PROVE  \E reached :
              /\ n \in Nat
              /\ reached = [k \in 0..n |->
                               IF k = 0 THEN from ELSE Objects!Further(leads, reached[k - 1])]
              /\ Objects!Reached(leads, from) = reached[n]
<1> DEFINE one(f, k) == IF k = 0 THEN from ELSE Objects!Further(leads, f[k - 1])
           next(f, m) == [k \in 0..m |-> one(f, k)]
           Lacking == {m \in 0..n : ~ \E f : f = next(f, m)}
<1>1. n \in Nat
  BY FS_CardinalityType DEF Leads
<1>2. ASSUME NEW f, NEW g, NEW k, k = 0 \/ f[k - 1] = g[k - 1]
      PROVE  one(f, k) = one(g, k)
  <2>1. CASE k = 0
    BY <2>1
  <2>2. CASE k # 0
    BY <1>2, <2>2
  <2>. QED BY <2>1, <2>2
<1> HIDE DEF one
<1>3. Lacking = {}
  <2> SUFFICES ASSUME Lacking # {} PROVE FALSE
    OBVIOUS
  <2>1. PICK m \in Lacking : \A i \in Lacking : m <= i
    <3>1. Lacking \in SUBSET Nat
      OBVIOUS
    <3> HIDE DEF Lacking
    <3>. QED BY <3>1, LeastExists
  <2>2. m # 0
    <3>1. SUFFICES ASSUME m = 0 PROVE FALSE
      OBVIOUS
    <3> DEFINE f == [k \in 0..m |-> one(0, k)]
    <3>2. \A k \in 0..m : one(0, k) = one(f, k)
      BY <1>2, <3>1
    <3>3. f = next(f, m)
      BY <3>2
    <3>. QED BY <3>3
  <2>3. m - 1 \in 0..n /\ m - 1 \notin Lacking /\ m \in 1..n
    <3>1. m \in 0..n /\ m # 0
      BY <2>2
    <3>2. m \in 1..n /\ m - 1 \in 0..n /\ ~(m <= m - 1)
      BY ONLY <1>1, <3>1
    <3>. QED BY ONLY <2>1, <3>2
  <2>4. PICK f : f = next(f, m - 1)
    BY <2>3
  <2> DEFINE g == [k \in 0..m |-> IF k < m THEN f[k] ELSE one(f, k)]
  <2>5. ASSUME NEW k \in 0..m PROVE k = 0 \/ g[k - 1] = f[k - 1]
    BY <1>1, <2>3
  <2>6. ASSUME NEW k \in 0..m PROVE g[k] = one(g, k)
    <3>1. one(g, k) = one(f, k)
      <4>1. k = 0 \/ g[k - 1] = f[k - 1]
        BY <2>5
      <4> HIDE DEF g
      <4>. QED BY <1>2, <4>1
    <3>2. CASE k < m
      <4>1. k \in 0..(m - 1) /\ g[k] = f[k]
        BY <1>1, <2>3, <3>2
      <4>2. f[k] = one(f, k)
        BY <2>4, <4>1
      <4>. QED BY <3>1, <4>1, <4>2
    <3>3. CASE ~(k < m)
      BY <3>1, <3>3
    <3>. QED BY <3>2, <3>3
  <2>7. g = [k \in 0..m |-> g[k]]
    OBVIOUS
  <2>8. g = next(g, m)
    <3> HIDE DEF g
    <3>. QED BY <2>6, <2>7
  <2>. QED BY <2>8
<1>4. \E f : f = next(f, n)
  <2>1. n \in 0..n
    BY <1>1
  <2> HIDE DEF next
  <2>. QED BY <1>3, <2>1
<1>5. PICK f : f = (CHOOSE h : h = next(h, n))
  OBVIOUS
<1>6. f = next(f, n)
  BY <1>4, <1>5
<1>7. Objects!Cardinality(DOMAIN leads) = n
  <2>1. DOMAIN leads = A
    BY DEF Leads
  <2>2. Objects!Cardinality(A) = Cardinality(A)
    BY DEF Objects!Cardinality, Cardinality
  <2>. QED BY <2>1, <2>2
<1>8. Objects!Reached(leads, from) = f[n]
  BY <1>5, <1>7 DEF Objects!Reached, one
<1>. QED BY <1>1, <1>6, <1>8 DEF one

\* Each round but the last adds one, so that after as many as there are all
\* that can be reached is.
LEMMA ReachedIsLeast ==
    ASSUME NEW A, NEW leads, Leads(A, leads), NEW from \in SUBSET A
    PROVE  LeastFrom(A, leads, from, Objects!Reached(leads, from))
<1> PICK n : n = Cardinality(A)
  OBVIOUS
<1>1. PICK reached :
         /\ n \in Nat
         /\ reached = [k \in 0..n |-> IF k = 0 THEN from ELSE Objects!Further(leads, reached[k - 1])]
         /\ Objects!Reached(leads, from) = reached[n]
  BY ReachedUnfolds
<1> DEFINE Holds(k) == /\ reached[k] \in SUBSET A /\ from \subseteq reached[k]
                       /\ ClosedUnder(leads, reached[k]) \/ Cardinality(reached[k]) >= k
                       /\ \A S \in SUBSET A : from \subseteq S /\ ClosedUnder(leads, S) => reached[k] \subseteq S
           Wrong == {k \in 0..n : ~Holds(k)}
<1>2. reached[0] = from /\ \A k \in 1..n : reached[k] = Objects!Further(leads, reached[k - 1])
  BY <1>1
<1>3. Wrong = {}
  <2> SUFFICES ASSUME Wrong # {} PROVE FALSE
    OBVIOUS
  <2>1. PICK k \in Wrong : \A j \in Wrong : k <= j
    <3>1. Wrong \in SUBSET Nat
      BY <1>1
    <3> HIDE DEF Wrong
    <3>. QED BY <3>1, LeastExists
  <2>2. CASE k = 0
    <3>1. Cardinality(from) >= 0
      BY FS_Subset, FS_CardinalityType DEF Leads
    <3>2. Holds(0)
      BY <1>2, <3>1
    <3>. QED BY <2>1, <2>2, <3>2
  <2>3. CASE k # 0
    <3>1. k \in 1..n /\ k - 1 \in 0..n /\ k - 1 \notin Wrong
      <4>1. k \in 0..n
        OBVIOUS
      <4>2. k \in 1..n /\ k - 1 \in 0..n /\ ~(k <= k - 1)
        BY ONLY <1>1, <2>3, <4>1
      <4>. QED BY <2>1, <4>2
    <3> PICK old : old = reached[k - 1]
      OBVIOUS
    <3> PICK more : more = reached[k]
      OBVIOUS
    <3>2. /\ old \in SUBSET A /\ from \subseteq old
          /\ ClosedUnder(leads, old) \/ Cardinality(old) >= k - 1
          /\ \A S \in SUBSET A : from \subseteq S /\ ClosedUnder(leads, S) => old \subseteq S
      BY <3>1
    <3>3. more = old \cup UNION {leads[f] : f \in old}
      BY <1>2, <3>1 DEF Objects!Further
    <3>4. more \in SUBSET A /\ old \subseteq more
      BY <3>2, <3>3 DEF Leads
    <3>5. \A S \in SUBSET A : from \subseteq S /\ ClosedUnder(leads, S) => more \subseteq S
      BY <3>2, <3>3 DEF ClosedUnder
    <3>6. ClosedUnder(leads, more) \/ Cardinality(more) >= k
      <4>1. CASE ClosedUnder(leads, old)
        <5>1. more = old
          BY <3>3, <4>1 DEF ClosedUnder
        <5>. QED BY <4>1, <5>1
      <4>2. CASE ~ClosedUnder(leads, old)
        <5>1. old # more
          BY <3>3, <4>2 DEF ClosedUnder
        <5>2. IsFiniteSet(more) /\ IsFiniteSet(old)
          BY <3>2, <3>4, FS_Subset DEF Leads
        <5>3. Cardinality(old) <= Cardinality(more) /\ Cardinality(old) # Cardinality(more)
          BY <3>4, <5>1, <5>2, FS_Subset
        <5>4. Cardinality(old) \in Nat /\ Cardinality(more) \in Nat /\ k \in Nat
          BY <1>1, <3>1, <5>2, FS_CardinalityType
        <5>5. Cardinality(old) >= k - 1
          BY <3>2, <4>2
        <5>. QED BY ONLY <5>3, <5>4, <5>5
      <4>. QED BY <4>1, <4>2
    <3>7. Holds(k)
      BY <3>2, <3>4, <3>5, <3>6
    <3>. QED BY <2>1, <3>7
  <2>. QED BY <2>2, <2>3
<1>4. Holds(n)
  <2>1. n \in 0..n
    BY <1>1
  <2>. QED BY <1>3, <2>1
<1>5. ClosedUnder(leads, reached[n])
  <2>1. CASE Cardinality(reached[n]) >= n
    <3>1. IsFiniteSet(reached[n]) /\ IsFiniteSet(A) /\ reached[n] \in SUBSET A
      BY <1>4, FS_Subset DEF Leads
    <3>2. reached[n] = A
      <4>1. /\ Cardinality(reached[n]) <= Cardinality(A)
            /\ Cardinality(A) = Cardinality(reached[n]) <=> A = reached[n]
        BY <3>1, FS_Subset
      <4>2. Cardinality(reached[n]) \in Nat
        BY <3>1, FS_CardinalityType
      <4>. QED BY <1>1, <2>1, <4>1, <4>2
    <3>. QED BY <3>2 DEF ClosedUnder, Leads
  <2>. QED BY <1>4, <2>1
<1>. QED BY <1>1, <1>4, <1>5 DEF LeastFrom

\* What several reach is what each of them does.
LEMMA ReachedTogether ==
    ASSUME NEW A, NEW leads, Leads(A, leads), NEW B, NEW part \in [B -> SUBSET A]
    PROVE  Objects!Reached(leads, UNION {part[u] : u \in B})
              = UNION {Objects!Reached(leads, part[u]) : u \in B}
<1> DEFINE all == UNION {part[u] : u \in B}
           R(u) == Objects!Reached(leads, part[u])
<1>1. all \in SUBSET A
  OBVIOUS
<1>2. LeastFrom(A, leads, all, Objects!Reached(leads, all))
  <2> HIDE DEF all
  <2>. QED BY <1>1, ReachedIsLeast
<1>3. ASSUME NEW u \in B PROVE LeastFrom(A, leads, part[u], R(u))
  BY ReachedIsLeast
<1> PICK whole : whole = Objects!Reached(leads, all)
  OBVIOUS
<1>4. LeastFrom(A, leads, all, whole)
  BY <1>2
<1> HIDE DEF R
<1>5. ASSUME NEW u \in B PROVE R(u) \subseteq whole
  <2>1. part[u] \subseteq whole
    BY <1>4 DEF LeastFrom
  <2>. QED BY <1>3, <1>4, <2>1 DEF LeastFrom
<1>6. whole \subseteq UNION {R(u) : u \in B}
  <2> DEFINE some == UNION {R(u) : u \in B}
  <2>1. some \in SUBSET A /\ all \subseteq some
    BY <1>3 DEF LeastFrom
  <2>2. ClosedUnder(leads, some)
    BY <1>3 DEF LeastFrom, ClosedUnder
  <2> HIDE DEF some, all
  <2>3. whole \subseteq some
    BY <1>4, <2>1, <2>2 DEF LeastFrom
  <2>. QED BY <2>3 DEF some
<1>7. whole = UNION {R(u) : u \in B}
  BY <1>5, <1>6
<1>. QED BY <1>7 DEF R

LEMMA FilesOfUnit ==
    ASSUME NEW p, NEW u, NEW kinds
    PROVE  /\ \A f : f \in Objects!Files(p, u, kinds) <=> f \in p.sources /\ \E k \in kinds : f = <<u, k>>
           /\ \A f \in Objects!Files(p, u, kinds) : f \in p.sources /\ f[1] = u /\ f[2] \in kinds
<1>1. \A f : f \in Objects!Files(p, u, kinds) <=> f \in p.sources /\ \E k \in kinds : f = <<u, k>>
  BY DEF Objects!Files
<1>2. \A k : LET f == <<u, k>> IN f[1] = u /\ f[2] = k
  OBVIOUS
<1>. QED BY <1>1, <1>2

\* What the files of some units are.
LEMMA FilesAre ==
    ASSUME NEW p, NEW units, NEW f
    PROVE  /\ f \in Objects!Specs(p, units) <=> f \in p.sources /\ \E u \in units : f = <<u, "ads">>
           /\ f \in Objects!Bodies(p, units) <=> f \in p.sources /\ \E u \in units : f = <<u, "adb">>
<1>1. \A u, k : f \in Objects!Files(p, u, {k}) <=> f \in p.sources /\ f = <<u, k>>
  BY FilesOfUnit
<1>2. f \in Objects!Specs(p, units) <=> f \in p.sources /\ \E u \in units : f = <<u, "ads">>
  BY <1>1 DEF Objects!Specs
<1>3. f \in Objects!Bodies(p, units) <=> f \in p.sources /\ \E u \in units : f = <<u, "adb">>
  BY <1>1 DEF Objects!Bodies
<1>. QED BY <1>2, <1>3

LEMMA BoundAre ==
    ASSUME NEW p, NEW specs, NEW f
    PROVE  f \in Objects!Bound(p, specs) <=>
              /\ f \in p.sources
              /\ \E s \in specs : \E k \in {"h", "c", "s"} : f = <<p.binds[s[1]], k>>
<1>1. ASSUME NEW s
      PROVE  f \in Objects!Files(p, p.binds[s[1]], {"h", "c", "s"}) <=>
                f \in p.sources /\ \E k \in {"h", "c", "s"} : f = <<p.binds[s[1]], k>>
  BY FilesOfUnit
<1>. QED BY <1>1 DEF Objects!Bound

\* What is bound to a spec is found with it, and its body where it counts.
SpecsTaken(p, D) ==
    \A x \in D : x[2] = "ads" =>
        /\ Objects!Bound(p, {x}) \subseteq D
        /\ p.safe \/ x[1] \in p.open => Objects!Files(p, x[1], {"adb"}) \subseteq D

LEMMA NeedsFound ==
    ASSUME NEW p, ProjectOf(p), NEW D, SpecsTaken(p, D), NEW f \in p.sources,
           f[2] \in Objects!Ada => Objects!Specs(p, p.withs[f]) \subseteq D
    PROVE  Objects!Needs(p, f, p.open) \subseteq D
<1> SUFFICES ASSUME f[2] \in Objects!Ada PROVE Objects!Needs(p, f, p.open) \subseteq D
  BY DEF Objects!Needs
<1> PICK units : units = p.withs[f]
  OBVIOUS
<1> PICK specs : specs = Objects!Specs(p, units)
  OBVIOUS
<1>1. specs \subseteq D
  OBVIOUS
<1>2. ASSUME NEW x \in Objects!Bound(p, specs) PROVE x \in D
  <2>1. PICK s \in specs : x \in Objects!Bound(p, {s})
    BY <1>2, BoundAre
  <2>2. s[2] = "ads"
    BY FilesAre
  <2>. QED BY <1>1, <2>1, <2>2 DEF SpecsTaken
<1>3. ASSUME NEW b \in Objects!Bodies(p, units), p.safe \/ b[1] \in p.open PROVE b \in D
  <2>1. PICK u \in units : b = <<u, "adb">> /\ b \in p.sources
    BY FilesAre
  <2>2. b \in Objects!Files(p, u, {"adb"})
    BY <2>1, FilesOfUnit
  <2>3. Objects!ToCompile(p, u) # {}
    BY <2>2 DEF Objects!ToCompile
  <2>4. <<u, "ads">> \in p.sources
    BY <2>3 DEF ProjectOf
  <2> PICK s : s = <<u, "ads">>
    OBVIOUS
  <2>5. s \in D /\ s[1] = u /\ s[2] = "ads"
    BY <1>1, <2>4, FilesAre
  <2>6. b[1] = u
    BY <2>1
  <2>. QED BY <1>3, <2>2, <2>5, <2>6 DEF SpecsTaken
<1>. QED BY <1>1, <1>2, <1>3 DEF Objects!Needs

LEMMA CallsAreTyped ==
    ASSUME NEW p, ProjectOf(p), NEW counting
    PROVE  /\ Leads(p.sources, Objects!Calls(p, counting)) /\ Leads(p.sources, Objects!Included(p))
           /\ \A f \in p.sources : Objects!Calls(p, counting)[f] = Objects!Needs(p, f, counting)
<1>1. IsFiniteSet(p.sources)
  <2>1. IsFiniteSet({"ads", "adb", "h", "c", "s"})
    <3>1. IsFiniteSet({} \cup {"ads"} \cup {"adb"} \cup {"h"})
      <4>1. IsFiniteSet({} \cup {"ads"})
        BY FS_EmptySet, FS_AddElement
      <4>2. IsFiniteSet({} \cup {"ads"} \cup {"adb"})
        BY <4>1, FS_AddElement
      <4>. QED BY <4>2, FS_AddElement
    <3>2. IsFiniteSet({} \cup {"ads"} \cup {"adb"} \cup {"h"} \cup {"c"})
      BY <3>1, FS_AddElement
    <3>3. IsFiniteSet({} \cup {"ads"} \cup {"adb"} \cup {"h"} \cup {"c"} \cup {"s"})
      BY <3>2, FS_AddElement
    <3>4. {} \cup {"ads"} \cup {"adb"} \cup {"h"} \cup {"c"} \cup {"s"} = {"ads", "adb", "h", "c", "s"}
      OBVIOUS
    <3>. QED BY <3>3, <3>4
  <2>2. IsFiniteSet(p.units \X {"ads", "adb", "h", "c", "s"})
    BY <2>1, FS_Product DEF ProjectOf
  <2>. QED BY <2>2, FS_Subset DEF ProjectOf
<1>2. ASSUME NEW f \in p.sources PROVE Objects!Needs(p, f, counting) \subseteq p.sources
  BY FilesAre, BoundAre DEF Objects!Needs
<1>3. ASSUME NEW f \in p.sources, NEW u PROVE Objects!Files(p, u, {"h"}) \subseteq p.sources
  BY FilesOfUnit
<1>4. Objects!Calls(p, counting) \in [p.sources -> SUBSET p.sources]
  BY <1>2 DEF Objects!Calls
<1>5. Objects!Included(p) \in [p.sources -> SUBSET p.sources]
  BY <1>3 DEF Objects!Included
<1>6. \A f \in p.sources : Objects!Calls(p, counting)[f] = Objects!Needs(p, f, counting)
  BY DEF Objects!Calls
<1>. QED BY <1>1, <1>4, <1>5, <1>6 DEF Leads

\* What a search from these has done with, it has done with whole, and it has
\* nothing that they do not reach over bodies that may count.
SearchedFrom(p, from, search) ==
    /\ search.from \subseteq search.deps \cup from /\ \A f \in search.from : f[2] \in Objects!Ada
    /\ search.deps \subseteq p.sources /\ SpecsTaken(p, search.deps)
    /\ \A f \in (from \cup search.deps) \ search.from : Objects!Needs(p, f, p.open) \subseteq search.deps
    /\ \A S \in SUBSET p.sources :
          from \subseteq S /\ ClosedUnder(Objects!Calls(p, Objects!NamedAsOpen(p)), S) => search.deps \subseteq S

EndsAt(p, search) ==
    /\ Objects!Round(p, search) = search
    /\ Objects!Specs(p, Objects!Withs(p, search.from)) \subseteq search.deps

\* A round takes all that what it looks at needs, and nothing else.
LEMMA RoundIsWhole ==
    ASSUME NEW p, ProjectOf(p), NEW from \in SUBSET p.sources, NEW search, SearchedFrom(p, from, search)
    PROVE  /\ SearchedFrom(p, from, Objects!Round(p, search))
           /\ \/ EndsAt(p, search)
              \/ /\ search.deps \subseteq Objects!Round(p, search).deps
                 /\ search.deps # Objects!Round(p, search).deps
<1> PICK units : units = Objects!Withs(p, search.from)
  OBVIOUS
<1> PICK specs : specs = Objects!Specs(p, units) \ search.deps
  OBVIOUS
<1> PICK bodies : bodies = Objects!Bodies(p, units) \ search.deps
  OBVIOUS
<1> PICK needed : needed = Objects!BodiesNeeded(p, specs, bodies)
  OBVIOUS
<1> PICK deps : deps = search.deps \cup Objects!Bound(p, specs) \cup specs \cup needed
  OBVIOUS
<1> PICK after : after = Objects!Round(p, search)
  OBVIOUS
<1>1. after = IF specs = {} THEN search ELSE [from |-> specs \cup needed, deps |-> deps]
  BY DEF Objects!Round
<1>2. CASE specs = {}
  <2>1. after = search
    BY <1>1, <1>2
  <2>2. Objects!Specs(p, units) \subseteq search.deps
    BY <1>2
  <2>. QED BY <2>1, <2>2 DEF EndsAt
<1>3. CASE specs # {}
  <2>1. after.from = specs \cup needed /\ after.deps = deps
    BY <1>1, <1>3
  <2>2. ASSUME NEW x \in specs
        PROVE  x \in p.sources /\ x[2] = "ads" /\ x[1] \in units /\ x \notin search.deps
               /\ x = <<x[1], "ads">>
    BY <2>2, FilesAre
  <2>3. needed \subseteq bodies
    BY DEF Objects!BodiesNeeded
  <2>4. ASSUME NEW b \in needed
        PROVE  b \in p.sources /\ b[2] = "adb" /\ b[1] \in units /\ b \notin search.deps
               /\ b = <<b[1], "adb">>
    <3>1. b \in Objects!Bodies(p, units) /\ b \notin search.deps
      BY <2>3, <2>4
    <3>. QED BY <3>1, FilesAre
  <2>5. ASSUME NEW b \in Objects!Bound(p, specs) PROVE b \in p.sources /\ b[2] \in {"h", "c", "s"}
    BY <2>5, BoundAre
  <2>6. (\A f \in after.from : f[2] \in Objects!Ada) /\ deps \subseteq p.sources
    BY <2>1, <2>2, <2>4, <2>5 DEF SearchedFrom, Objects!Ada
  <2>7. SpecsTaken(p, deps)
    <3> SUFFICES ASSUME NEW x \in deps, x[2] = "ads"
                 PROVE  /\ Objects!Bound(p, {x}) \subseteq deps
                        /\ p.safe \/ x[1] \in p.open => Objects!Files(p, x[1], {"adb"}) \subseteq deps
      BY DEF SpecsTaken
    <3>1. CASE x \in search.deps
      BY <3>1 DEF SearchedFrom, SpecsTaken
    <3>2. CASE x \in specs
      <4>1. Objects!Bound(p, {x}) \subseteq deps
        BY <3>2, BoundAre
      <4>2. ASSUME p.safe \/ x[1] \in p.open, NEW b \in Objects!Files(p, x[1], {"adb"}) PROVE b \in deps
        <5>1. b \in p.sources /\ b = <<x[1], "adb">>
          BY <4>2, FilesOfUnit
        <5>2. b[1] = x[1] /\ x[1] \in p.units /\ b \in Objects!Bodies(p, units)
          BY <2>2, <3>2, <5>1, FilesAre DEF ProjectOf
        <5>3. EndsWith(b[1], x[1])
          BY <5>2 DEF ProjectOf
        <5>4. b \in search.deps \/ b \in bodies
          BY <5>2
        <5>5. b \in bodies => b \in needed
          BY <3>2, <4>2, <5>2, <5>3 DEF Objects!BodiesNeeded
        <5>. QED BY <5>4, <5>5
      <4>. QED BY <4>1, <4>2
    <3>3. x \notin needed /\ x \notin Objects!Bound(p, specs)
      BY <2>4, <2>5
    <3>. QED BY <3>1, <3>2, <3>3
  <2>8. ASSUME NEW f \in (from \cup deps) \ after.from PROVE Objects!Needs(p, f, p.open) \subseteq deps
    <3>1. f \in p.sources
      BY <2>6
    <3>2. CASE f \in search.from
      <4>1. p.withs[f] \subseteq units
        BY <3>2 DEF Objects!Withs
      <4>2. Objects!Specs(p, p.withs[f]) \subseteq deps
        BY <4>1, FilesAre
      <4>. QED BY <2>7, <3>1, <4>2, NeedsFound
    <3>3. CASE f \in from \cup search.deps /\ f \notin search.from
      BY <3>3 DEF SearchedFrom
    <3>4. CASE f \in Objects!Bound(p, specs)
      <4>1. f[2] \notin Objects!Ada
        BY <2>5, <3>4 DEF Objects!Ada
      <4>. QED BY <4>1 DEF Objects!Needs
    <3>. QED BY <2>1, <2>8, <3>2, <3>3, <3>4
  <2> PICK counting : counting = Objects!NamedAsOpen(p)
    OBVIOUS
  <2>9. ASSUME NEW S \in SUBSET p.sources, from \subseteq S, ClosedUnder(Objects!Calls(p, counting), S)
        PROVE  deps \subseteq S
    <3>1. search.deps \subseteq S /\ search.from \subseteq S
      BY <2>9 DEF SearchedFrom
    <3>2. ASSUME NEW u \in units
          PROVE  \E f \in search.from :
                    u \in p.withs[f] /\ f[2] \in Objects!Ada /\ Objects!Needs(p, f, counting) \subseteq S
      <4>1. PICK f \in search.from : u \in p.withs[f]
        BY DEF Objects!Withs
      <4>2. Objects!Needs(p, f, counting) \subseteq S
        BY <2>9, <3>1, CallsAreTyped DEF ClosedUnder
      <4>. QED BY <4>1, <4>2 DEF SearchedFrom
    <3>3. ASSUME NEW x \in specs PROVE x \in S /\ Objects!Bound(p, {x}) \subseteq S
      <4>1. PICK f \in search.from :
               x[1] \in p.withs[f] /\ f[2] \in Objects!Ada /\ Objects!Needs(p, f, counting) \subseteq S
        BY <2>2, <3>2
      <4>2. x \in Objects!Specs(p, p.withs[f])
        BY <2>2, <4>1, FilesAre
      <4>3. Objects!Bound(p, {x}) \subseteq Objects!Bound(p, Objects!Specs(p, p.withs[f]))
        BY <4>2, BoundAre
      <4>. QED BY <4>1, <4>2, <4>3 DEF Objects!Needs
    <3>4. ASSUME NEW b \in Objects!Bound(p, specs) PROVE b \in S
      <4>1. PICK x \in specs : b \in Objects!Bound(p, {x})
        BY <3>4, BoundAre
      <4>. QED BY <3>3, <4>1
    <3>5. ASSUME NEW b \in needed PROVE b \in S
      <4>1. PICK f \in search.from :
               b[1] \in p.withs[f] /\ f[2] \in Objects!Ada /\ Objects!Needs(p, f, counting) \subseteq S
        BY <2>4, <3>2
      <4>2. b \in Objects!Bodies(p, p.withs[f])
        BY <2>4, <4>1, FilesAre
      <4>3. p.safe \/ b[1] \in counting
        <5>1. CASE ~p.safe
          <6>1. PICK s \in specs : s[1] \in p.open /\ EndsWith(b[1], s[1])
            BY <5>1 DEF Objects!BodiesNeeded
          <6>2. p.sources \subseteq p.units \X {"ads", "adb", "h", "c", "s"}
            BY DEF ProjectOf
          <6>3. b \in p.sources /\ s \in p.sources
            BY <2>2, <2>4
          <6>4. b[1] \in p.units /\ s[1] \in p.units
            BY <6>2, <6>3
          <6>. QED BY <6>1, <6>4 DEF Objects!NamedAsOpen
        <5>. QED BY <5>1
      <4>. QED BY <4>1, <4>2, <4>3 DEF Objects!Needs
    <3>. QED BY <3>1, <3>3, <3>4, <3>5
  <2>10. after.from \subseteq after.deps \cup from
    BY <2>1
  <2>11. SearchedFrom(p, from, after)
    BY <2>1, <2>6, <2>7, <2>8, <2>9, <2>10 DEF SearchedFrom
  <2>12. search.deps \subseteq deps /\ search.deps # deps
    BY <1>3, <2>2
  <2>. QED BY <2>1, <2>11, <2>12
<1>. QED BY <1>2, <1>3

\* The rounds of a search.
RoundsFrom(p, from, search, n) ==
    search = [k \in 0..n |->
                 IF k = 0 THEN [from |-> from, deps |-> {}] ELSE Objects!Round(p, search[k - 1])]

\* There are such.
LEMMA SearchUnfolds ==
    ASSUME NEW p, ProjectOf(p), NEW from, NEW n, n = Cardinality(p.sources)
    PROVE  \E search :
              /\ n \in Nat
              /\ RoundsFrom(p, from, search, n)
              /\ Objects!AdaDependencies(p, from) = search[n].deps
<1> DEFINE one(f, k) == IF k = 0 THEN [from |-> from, deps |-> {}]
                       ELSE Objects!Round(p, f[k - 1])
           next(f, m) == [k \in 0..m |-> one(f, k)]
           Lacking == {m \in 0..n : ~ \E f : f = next(f, m)}
<1>1. n \in Nat
  BY CallsAreTyped, FS_CardinalityType DEF Leads
<1>2. ASSUME NEW f, NEW g, NEW k, k = 0 \/ f[k - 1] = g[k - 1]
      PROVE  one(f, k) = one(g, k)
  <2>1. CASE k = 0
    BY <2>1
  <2>2. CASE k # 0
    BY <1>2, <2>2
  <2>. QED BY <2>1, <2>2
<1> HIDE DEF one
<1>3. Lacking = {}
  <2> SUFFICES ASSUME Lacking # {} PROVE FALSE
    OBVIOUS
  <2>1. PICK m \in Lacking : \A i \in Lacking : m <= i
    <3>1. Lacking \in SUBSET Nat
      OBVIOUS
    <3> HIDE DEF Lacking
    <3>. QED BY <3>1, LeastExists
  <2>2. m # 0
    <3>1. SUFFICES ASSUME m = 0 PROVE FALSE
      OBVIOUS
    <3> DEFINE f == [k \in 0..m |-> one(0, k)]
    <3>2. \A k \in 0..m : one(0, k) = one(f, k)
      BY <1>2, <3>1
    <3>3. f = next(f, m)
      BY <3>2
    <3>. QED BY <3>3
  <2>3. m - 1 \in 0..n /\ m - 1 \notin Lacking /\ m \in 1..n
    <3>1. m \in 0..n /\ m # 0
      BY <2>2
    <3>2. m \in 1..n /\ m - 1 \in 0..n /\ ~(m <= m - 1)
      BY ONLY <1>1, <3>1
    <3>. QED BY ONLY <2>1, <3>2
  <2>4. PICK f : f = next(f, m - 1)
    BY <2>3
  <2> DEFINE g == [k \in 0..m |-> IF k < m THEN f[k] ELSE one(f, k)]
  <2>5. ASSUME NEW k \in 0..m PROVE k = 0 \/ g[k - 1] = f[k - 1]
    BY <1>1, <2>3
  <2>6. ASSUME NEW k \in 0..m PROVE g[k] = one(g, k)
    <3>1. one(g, k) = one(f, k)
      <4>1. k = 0 \/ g[k - 1] = f[k - 1]
        BY <2>5
      <4> HIDE DEF g
      <4>. QED BY <1>2, <4>1
    <3>2. CASE k < m
      <4>1. k \in 0..(m - 1) /\ g[k] = f[k]
        BY <1>1, <2>3, <3>2
      <4>2. f[k] = one(f, k)
        BY <2>4, <4>1
      <4>. QED BY <3>1, <4>1, <4>2
    <3>3. CASE ~(k < m)
      BY <3>1, <3>3
    <3>. QED BY <3>2, <3>3
  <2>7. g = [k \in 0..m |-> g[k]]
    OBVIOUS
  <2>8. g = next(g, m)
    <3> HIDE DEF g
    <3>. QED BY <2>6, <2>7
  <2>. QED BY <2>8
<1>4. \E f : f = next(f, n)
  <2>1. n \in 0..n
    BY <1>1
  <2> HIDE DEF next
  <2>. QED BY <1>3, <2>1
<1>5. PICK f : f = (CHOOSE h : h = next(h, n))
  OBVIOUS
<1>6. f = next(f, n)
  BY <1>4, <1>5
<1>7. Objects!Cardinality(p.sources) = n
  <2>1. Objects!Cardinality(p.sources) = Cardinality(p.sources)
    BY DEF Objects!Cardinality, Cardinality
  <2>. QED BY <2>1
<1>8. Objects!AdaDependencies(p, from) = f[n].deps
  BY <1>5, <1>7 DEF Objects!AdaDependencies, one
<1>. QED BY <1>1, <1>6, <1>8 DEF one, RoundsFrom

\* The search is over when its rounds are: it has found what is reached, and
\* nothing that is not when all bodies that may count do.
LEMMA SearchIsWhole ==
    ASSUME NEW p, ProjectOf(p), NEW from \in SUBSET p.sources, \A f \in from : f[2] \in Objects!Ada
    PROVE  /\ Objects!Reached(Objects!Calls(p, p.open), from) \subseteq from \cup Objects!AdaDependencies(p, from)
           /\ Objects!AdaDependencies(p, from) \subseteq Objects!Reached(Objects!Calls(p, Objects!NamedAsOpen(p)), from)
<1> PICK n : n = Cardinality(p.sources)
  OBVIOUS
<1>1. PICK search :
         /\ n \in Nat
         /\ RoundsFrom(p, from, search, n)
         /\ Objects!AdaDependencies(p, from) = search[n].deps
  BY SearchUnfolds
<1> DEFINE Holds(k) == SearchedFrom(p, from, search[k])
                          /\ (EndsAt(p, search[k]) \/ Cardinality(search[k].deps) >= k)
           Wrong == {k \in 0..n : ~Holds(k)}
<1>2. /\ search[0] = [from |-> from, deps |-> {}]
      /\ \A k \in 1..n : search[k] = Objects!Round(p, search[k - 1])
  <2>1. 0 \in 0..n /\ \A k \in 1..n : k \in 0..n /\ k # 0
    BY <1>1
  <2>2. ASSUME NEW k \in 0..n
        PROVE  search[k] = IF k = 0 THEN [from |-> from, deps |-> {}] ELSE Objects!Round(p, search[k - 1])
    BY <1>1, <2>2 DEF RoundsFrom
  <2>. QED BY <2>1, <2>2
<1>3. IsFiniteSet(p.sources)
  BY CallsAreTyped DEF Leads
<1>4. Wrong = {}
  <2> SUFFICES ASSUME Wrong # {} PROVE FALSE
    OBVIOUS
  <2>1. PICK k \in Wrong : \A j \in Wrong : k <= j
    <3>1. Wrong \in SUBSET Nat
      BY <1>1
    <3> HIDE DEF Wrong
    <3>. QED BY <3>1, LeastExists
  <2>2. CASE k = 0
    <3>1. search[0].from = from /\ search[0].deps = {}
      BY <1>2
    <3>2. SpecsTaken(p, {})
      BY DEF SpecsTaken
    <3>3. SearchedFrom(p, from, search[0])
      BY <3>1, <3>2 DEF SearchedFrom
    <3>4. Cardinality(search[0].deps) >= 0
      BY <3>1, FS_EmptySet
    <3>5. Holds(0)
      BY <3>3, <3>4
    <3>. QED BY <2>1, <2>2, <3>5
  <2>3. CASE k # 0
    <3>1. k \in 1..n /\ k - 1 \in 0..n /\ k - 1 \notin Wrong
      <4>1. k \in 0..n
        OBVIOUS
      <4>2. k \in 1..n /\ k - 1 \in 0..n /\ ~(k <= k - 1)
        BY ONLY <1>1, <2>3, <4>1
      <4>. QED BY <2>1, <4>2
    <3> PICK old : old = search[k - 1]
      OBVIOUS
    <3> PICK more : more = search[k]
      OBVIOUS
    <3>2. SearchedFrom(p, from, old) /\ (EndsAt(p, old) \/ Cardinality(old.deps) >= k - 1)
      <4>1. Holds(k - 1)
        BY <3>1
      <4>. QED BY <4>1
    <3>3. more = Objects!Round(p, old)
      BY <1>2, <3>1
    <3> HIDE DEF Wrong
    <3>4. SearchedFrom(p, from, more) /\ (EndsAt(p, old) \/ (old.deps \subseteq more.deps /\ old.deps # more.deps))
      BY <3>2, <3>3, RoundIsWhole
    <3>5. EndsAt(p, more) \/ Cardinality(more.deps) >= k
      <4>1. CASE EndsAt(p, old)
        BY <3>3, <4>1 DEF EndsAt
      <4>2. CASE ~EndsAt(p, old)
        <5>1. IsFiniteSet(more.deps) /\ IsFiniteSet(old.deps)
          BY <1>3, <3>2, <3>4, FS_Subset DEF SearchedFrom
        <5>2. Cardinality(old.deps) <= Cardinality(more.deps) /\ Cardinality(old.deps) # Cardinality(more.deps)
          BY <3>4, <4>2, <5>1, FS_Subset
        <5>3. Cardinality(old.deps) \in Nat /\ Cardinality(more.deps) \in Nat /\ k \in Nat
          BY <1>1, <3>1, <5>1, FS_CardinalityType
        <5>4. Cardinality(old.deps) >= k - 1
          BY <3>2, <4>2
        <5>. QED BY ONLY <5>2, <5>3, <5>4
      <4>. QED BY <4>1, <4>2
    <3>6. Holds(k)
      BY <3>4, <3>5
    <3>. QED BY <2>1, <3>6 DEF Wrong
  <2>. QED BY <2>2, <2>3
<1>5. Holds(n)
  <2>1. n \in 0..n
    BY <1>1
  <2>. QED BY <1>4, <2>1
<1> PICK last : last = search[n]
  OBVIOUS
<1>6. SearchedFrom(p, from, last) /\ (EndsAt(p, last) \/ Cardinality(last.deps) >= n)
  BY <1>5
<1> HIDE DEF Wrong, Holds
<1>7. Objects!Specs(p, Objects!Withs(p, last.from)) \subseteq last.deps
  <2>1. CASE Cardinality(last.deps) >= n
    <3>1. last.deps \in SUBSET p.sources
      BY <1>6 DEF SearchedFrom
    <3>2. IsFiniteSet(last.deps) /\ Cardinality(last.deps) <= n /\ (n = Cardinality(last.deps) => p.sources = last.deps)
      BY <1>3, <3>1, FS_Subset
    <3>3. Cardinality(last.deps) \in Nat
      BY <3>2, FS_CardinalityType
    <3>4. last.deps = p.sources
      <4>1. Cardinality(last.deps) = n
        BY ONLY <1>1, <2>1, <3>2, <3>3
      <4>. QED BY <3>2, <4>1
    <3>. QED BY <3>4, FilesAre
  <2>. QED BY <1>6, <2>1 DEF EndsAt
<1> PICK deps : deps = last.deps
  OBVIOUS
<1> PICK all : all = from \cup deps
  OBVIOUS
<1>8. all \in SUBSET p.sources
  BY <1>6 DEF SearchedFrom
<1>9. ASSUME NEW f \in all PROVE Objects!Needs(p, f, p.open) \subseteq all
  <2>1. CASE f \in last.from
    <3>1. p.withs[f] \subseteq Objects!Withs(p, last.from)
      BY <2>1 DEF Objects!Withs
    <3>2. Objects!Specs(p, p.withs[f]) \subseteq deps
      BY <1>7, <3>1, FilesAre
    <3>3. SpecsTaken(p, deps)
      BY <1>6 DEF SearchedFrom
    <3>4. Objects!Needs(p, f, p.open) \subseteq deps
      BY <1>8, <1>9, <3>2, <3>3, NeedsFound
    <3>. QED BY <3>4
  <2>2. CASE f \notin last.from
    BY <1>6, <1>9, <2>2 DEF SearchedFrom
  <2>. QED BY <2>1, <2>2
<1> PICK calls : calls = Objects!Calls(p, p.open)
  OBVIOUS
<1>10. ClosedUnder(calls, all) /\ Leads(p.sources, calls)
  BY <1>8, <1>9, CallsAreTyped DEF ClosedUnder
<1> PICK reached : reached = Objects!Reached(calls, from)
  OBVIOUS
<1>11. LeastFrom(p.sources, calls, from, reached)
  BY <1>10, ReachedIsLeast
<1>12. reached \subseteq all
  BY <1>8, <1>10, <1>11 DEF LeastFrom
<1> PICK counting : counting = Objects!NamedAsOpen(p)
  OBVIOUS
<1> PICK further : further = Objects!Reached(Objects!Calls(p, counting), from)
  OBVIOUS
<1>13. LeastFrom(p.sources, Objects!Calls(p, counting), from, further)
  BY CallsAreTyped, ReachedIsLeast
<1>14. deps \subseteq further
  BY <1>6, <1>13 DEF LeastFrom, SearchedFrom
<1>. QED BY <1>1, <1>12, <1>14

\* What a unit itself has, of Ada or of C.
OwnAda(p, u) == {f \in Objects!ObjectSources(p, u) : f[2] \in Objects!Ada}

OwnC(p, u) == {f \in Objects!ObjectSources(p, u) : f[2] \in {"h", "c"}}

BatchHas(p, B) == UNION {Objects!ObjectSources(p, u) : u \in B}

\* What the units of a batch reach, it reaches from what they have together.
LEMMA BatchReaches ==
    ASSUME NEW p, ProjectOf(p), NEW B, NEW counting
    PROVE  UNION {Objects!Reaches(p, u, counting) : u \in B} =
              BatchHas(p, B)
                 \cup Objects!Reached(Objects!Calls(p, counting), {f \in BatchHas(p, B) : f[2] \in Objects!Ada})
                 \cup Objects!Reached(Objects!Included(p), {f \in BatchHas(p, B) : f[2] \in {"h", "c"}})
<1> PICK own : own = BatchHas(p, B)
  OBVIOUS
<1> PICK ada : ada = {f \in own : f[2] \in Objects!Ada}
  OBVIOUS
<1> PICK c : c = {f \in own : f[2] \in {"h", "c"}}
  OBVIOUS
<1> PICK calls : calls = Objects!Calls(p, counting)
  OBVIOUS
<1> PICK included : included = Objects!Included(p)
  OBVIOUS
<1>1. Leads(p.sources, calls) /\ Leads(p.sources, included)
  BY CallsAreTyped
<1>2. ASSUME NEW u PROVE Objects!ObjectSources(p, u) \subseteq p.sources
  BY FilesOfUnit DEF Objects!ObjectSources
<1> DEFINE adaOf == [u \in B |-> OwnAda(p, u)]
           cOf == [u \in B |-> OwnC(p, u)]
<1>3. adaOf \in [B -> SUBSET p.sources] /\ cOf \in [B -> SUBSET p.sources]
  BY <1>2 DEF OwnAda, OwnC
<1>4. ada = UNION {adaOf[u] : u \in B} /\ c = UNION {cOf[u] : u \in B}
  BY DEF OwnAda, OwnC, BatchHas
<1> PICK has : has = [u \in B |-> Objects!ObjectSources(p, u)]
  OBVIOUS
<1> PICK ofAda : ofAda = [u \in B |-> Objects!Reached(calls, adaOf[u])]
  OBVIOUS
<1> PICK ofC : ofC = [u \in B |-> Objects!Reached(included, cOf[u])]
  OBVIOUS
<1>5. \A u \in B : Objects!Reaches(p, u, counting) = has[u] \cup ofAda[u] \cup ofC[u]
  BY DEF Objects!Reaches, OwnAda, OwnC
<1> HIDE DEF adaOf, cOf
<1>6. Objects!Reached(calls, UNION {adaOf[u] : u \in B}) = UNION {Objects!Reached(calls, adaOf[u]) : u \in B}
  BY ONLY <1>1, <1>3, ReachedTogether
<1>7. Objects!Reached(included, UNION {cOf[u] : u \in B}) = UNION {Objects!Reached(included, cOf[u]) : u \in B}
  BY ONLY <1>1, <1>3, ReachedTogether
<1>8. own = UNION {has[u] : u \in B}
  BY DEF BatchHas
<1>9. /\ Objects!Reached(calls, ada) = UNION {ofAda[u] : u \in B}
      /\ Objects!Reached(included, c) = UNION {ofC[u] : u \in B}
  BY <1>4, <1>6, <1>7
<1>10. UNION {Objects!Reaches(p, u, counting) : u \in B} = UNION {has[u] \cup ofAda[u] \cup ofC[u] : u \in B}
  BY ONLY <1>5
<1>11. UNION {has[u] \cup ofAda[u] \cup ofC[u] : u \in B}
          = (UNION {has[u] : u \in B}) \cup (UNION {ofAda[u] : u \in B}) \cup (UNION {ofC[u] : u \in B})
  OBVIOUS
<1>. QED BY <1>8, <1>9, <1>10, <1>11

\* What a batch depends on is between what its units reach when only the bodies
\* of open units count, and when all that are named as one do.
LEMMA DependenciesAre ==
    ASSUME NEW p, ProjectOf(p), NEW B
    PROVE  /\ UNION {Objects!Reaches(p, u, p.open) : u \in B} \subseteq Objects!DependenciesOf(p, B)
           /\ Objects!DependenciesOf(p, B) \subseteq UNION {Objects!Reaches(p, u, Objects!NamedAsOpen(p)) : u \in B}
<1> PICK own : own = BatchHas(p, B)
  OBVIOUS
<1> PICK ada : ada = {f \in own : f[2] \in Objects!Ada}
  OBVIOUS
<1> PICK c : c = {f \in own : f[2] \in {"h", "c"}}
  OBVIOUS
<1> PICK searched : searched = Objects!AdaDependencies(p, ada)
  OBVIOUS
<1> PICK included : included = Objects!Reached(Objects!Included(p), c)
  OBVIOUS
<1>1. ada \in SUBSET p.sources /\ ada \subseteq own /\ \A f \in ada : f[2] \in Objects!Ada
  <2>1. ASSUME NEW u PROVE Objects!ObjectSources(p, u) \subseteq p.sources
    BY FilesOfUnit DEF Objects!ObjectSources
  <2>. QED BY <2>1 DEF BatchHas
<1>2. /\ Objects!Reached(Objects!Calls(p, p.open), ada) \subseteq ada \cup searched
      /\ searched \subseteq Objects!Reached(Objects!Calls(p, Objects!NamedAsOpen(p)), ada)
  BY <1>1, SearchIsWhole
<1>3. Objects!DependenciesOf(p, B) = own \cup searched \cup included
  <2>1. {f \in c : f[2] # "s"} = c
    OBVIOUS
  <2>2. Objects!DependenciesOf(p, B) = own \cup searched \cup Objects!CDependencies(p, c)
    BY DEF Objects!DependenciesOf, BatchHas
  <2>. QED BY <2>1, <2>2 DEF Objects!CDependencies
<1>4. ASSUME NEW counting
      PROVE  UNION {Objects!Reaches(p, u, counting) : u \in B} =
                own \cup Objects!Reached(Objects!Calls(p, counting), ada) \cup included
  <2>1. UNION {Objects!Reaches(p, u, counting) : u \in B} =
           BatchHas(p, B)
              \cup Objects!Reached(Objects!Calls(p, counting), {f \in BatchHas(p, B) : f[2] \in Objects!Ada})
              \cup Objects!Reached(Objects!Included(p), {f \in BatchHas(p, B) : f[2] \in {"h", "c"}})
    BY BatchReaches
  <2>. QED BY <2>1
<1>5. UNION {Objects!Reaches(p, u, p.open) : u \in B} \subseteq Objects!DependenciesOf(p, B)
  <2>1. UNION {Objects!Reaches(p, u, p.open) : u \in B} =
           own \cup Objects!Reached(Objects!Calls(p, p.open), ada) \cup included
    BY <1>4
  <2>. QED BY ONLY <1>1, <1>2, <1>3, <2>1
<1>6. Objects!DependenciesOf(p, B) \subseteq UNION {Objects!Reaches(p, u, Objects!NamedAsOpen(p)) : u \in B}
  <2>1. UNION {Objects!Reaches(p, u, Objects!NamedAsOpen(p)) : u \in B} =
           own \cup Objects!Reached(Objects!Calls(p, Objects!NamedAsOpen(p)), ada) \cup included
    BY <1>4
  <2>. QED BY ONLY <1>1, <1>2, <1>3, <2>1
<1>. QED BY <1>5, <1>6

LEMMA ProjectsMakeWholePrograms ==
    ASSUME NEW p, ProjectOf(p), NEW main \in p.units, NEW batches \in SUBSET SUBSET p.units
    PROVE  Objects!ProgramsAreWhole(p, main, batches)
<1> PICK calls : calls = Objects!Calls(p, p.open)
  OBVIOUS
<1>1. Leads(p.sources, calls) /\ Leads(p.sources, Objects!Included(p))
  BY CallsAreTyped
<1>2. ASSUME NEW u PROVE Objects!ObjectSources(p, u) \in SUBSET p.sources
  BY FilesOfUnit DEF Objects!ObjectSources
<1>3. Objects!DependenciesAreReached(p, batches)
  BY DependenciesAre DEF Objects!DependenciesAreReached
<1> DEFINE Deps(u) == Objects!DependenciesOf(p, {u})
<1> PICK linked : linked = Objects!Linked(p)
  OBVIOUS
<1> PICK program : program = Objects!Program(p, main)
  OBVIOUS
<1>4. ASSUME NEW u PROVE /\ Objects!Reaches(p, u, p.open) \subseteq Deps(u)
                         /\ Deps(u) \subseteq Objects!Reaches(p, u, Objects!NamedAsOpen(p))
  <2>1. /\ UNION {Objects!Reaches(p, v, p.open) : v \in {u}} \subseteq Deps(u)
        /\ Deps(u) \subseteq UNION {Objects!Reaches(p, v, Objects!NamedAsOpen(p)) : v \in {u}}
    BY DependenciesAre
  <2> HIDE DEF Deps
  <2>. QED BY <2>1
<1>5. ASSUME NEW u PROVE Deps(u) \subseteq p.sources
  <2> PICK counting : counting = Objects!NamedAsOpen(p)
    OBVIOUS
  <2>1. OwnAda(p, u) \in SUBSET p.sources /\ OwnC(p, u) \in SUBSET p.sources
    BY <1>2 DEF OwnAda, OwnC
  <2>2. Leads(p.sources, Objects!Calls(p, counting))
    BY CallsAreTyped
  <2>3. /\ Objects!Reached(Objects!Calls(p, counting), OwnAda(p, u)) \in SUBSET p.sources
        /\ Objects!Reached(Objects!Included(p), OwnC(p, u)) \in SUBSET p.sources
    BY <1>1, <2>1, <2>2, ReachedIsLeast DEF LeastFrom
  <2>4. Objects!Reaches(p, u, counting) = Objects!ObjectSources(p, u)
           \cup Objects!Reached(Objects!Calls(p, counting), OwnAda(p, u))
           \cup Objects!Reached(Objects!Included(p), OwnC(p, u))
    BY DEF Objects!Reaches, OwnAda, OwnC
  <2>5. Objects!Reaches(p, u, counting) \subseteq p.sources
    BY <1>2, <2>3, <2>4
  <2> HIDE DEF Deps
  <2>. QED BY <1>4, <2>5
<1>6. Leads(p.units, linked)
  <2>1. ASSUME NEW u \in p.units PROVE Objects!ObjectsOf(p, Deps(u)) \in SUBSET p.units
    <3>1. \A f \in Deps(u) : f[1] \in p.units
      <4>1. p.sources \subseteq p.units \X {"ads", "adb", "h", "c", "s"} /\ Deps(u) \subseteq p.sources
        BY <1>5 DEF ProjectOf
      <4> HIDE DEF Deps
      <4>. QED BY <4>1
    <3> HIDE DEF Deps
    <3>. QED BY <3>1 DEF Objects!ObjectsOf
  <2>2. linked = [u \in p.units |-> Objects!ObjectsOf(p, Deps(u))]
    BY DEF Objects!Linked
  <2> HIDE DEF Deps
  <2>. QED BY <2>1, <2>2 DEF Leads, ProjectOf
<1>7. LeastFrom(p.units, linked, {main}, program)
  <2>1. program = Objects!Reached(linked, {main})
    BY DEF Objects!Program
  <2>. QED BY <1>6, <2>1, ReachedIsLeast
<1>8. ASSUME NEW u \in program, NEW f \in Objects!Files(p, u, Objects!Ada), NEW v \in p.withs[f],
             Objects!ToCompile(p, v) # {}
      PROVE  v \in program
  <2>1. f \in p.sources /\ f[2] \in Objects!Ada /\ u \in p.units
    BY <1>7, FilesOfUnit DEF LeastFrom
  <2>2. <<v, "ads">> \in p.sources
    BY <1>8, <2>1 DEF ProjectOf
  <2> PICK s : s = <<v, "ads">>
    OBVIOUS
  <2>3. s \in Objects!Needs(p, f, p.open)
    BY <2>1, <2>2, FilesAre DEF Objects!Needs
  <2> PICK ada : ada = OwnAda(p, u)
    OBVIOUS
  <2>4. f \in ada /\ ada \in SUBSET p.sources
    BY <1>2, <1>8, <2>1 DEF OwnAda, Objects!ObjectSources
  <2> PICK reached : reached = Objects!Reached(calls, ada)
    OBVIOUS
  <2>5. LeastFrom(p.sources, calls, ada, reached)
    BY <1>1, <2>4, ReachedIsLeast
  <2>6. s \in Deps(u)
    <3>1. f \in reached
      BY <2>4, <2>5 DEF LeastFrom
    <3>2. calls[f] \subseteq reached
      BY <2>5, <3>1 DEF LeastFrom, ClosedUnder
    <3>3. s \in reached
      BY <2>1, <2>3, <3>2, CallsAreTyped
    <3>4. reached \subseteq Objects!Reaches(p, u, p.open)
      BY DEF Objects!Reaches, OwnAda
    <3> HIDE DEF Deps
    <3>. QED BY <1>4, <3>3, <3>4
  <2>7. v \in Objects!ObjectsOf(p, Deps(u))
    <3>1. v = s[1]
      OBVIOUS
    <3> HIDE DEF Deps
    <3>. QED BY <1>8, <2>6, <3>1 DEF Objects!ObjectsOf
  <2>8. linked[u] = Objects!ObjectsOf(p, Deps(u))
    BY <2>1 DEF Objects!Linked
  <2>. QED BY <1>7, <2>7, <2>8 DEF LeastFrom, ClosedUnder
<1>9. Objects!NothingIsMissing(p, main)
  BY <1>8 DEF Objects!NothingIsMissing
<1>. QED BY <1>3, <1>9 DEF Objects!ProgramsAreWhole

(* What an object is compiled again for is all that its own sources reach, *)
(* and beyond it only what a body whose name ends as that of an open spec  *)
(* brings, in whatever batch it is compiled; every unit that a unit of a   *)
(* program with's is linked into it (build_object.py,                      *)
(* build_executable.py).  This is so of any project of Ada that with's     *)
(* specs, however the names of its units end.                              *)
THEOREM ProgramsAreAlwaysWhole ==
    ASSUME supplied.kind = "project" =>
               /\ ProjectOf(supplied) /\ supplied.main \in supplied.units
               /\ supplied.batches \in SUBSET SUBSET supplied.units
    PROVE  ProgramsAreWhole
BY ProjectsMakeWholePrograms DEF ProgramsAreWhole

=============================================================================
