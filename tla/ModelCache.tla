----------------------------- MODULE ModelCache -----------------------------
(***************************************************************************)
(* The cache of loaded models that every generator of the build shares:    *)
(* gen/models/base.py above redo/database/model_cache_database.py.         *)
(*                                                                         *)
(* A model is loaded from its file and from the models that file names; it *)
(* is here the function that tells what was seen of each of these files.   *)
(* A process is a generator that redo has started: it loads models one     *)
(* inside the other, which its stack of loads shows.  What one connection  *)
(* to the database reads or writes is one step, since the database keeps   *)
(* its file locked for that long; between two connections the others run.  *)
(* Files change only between sessions, as the build asks of its user.      *)
(***************************************************************************)
EXTENDS Naturals, Sequences

CONSTANTS
    ModelFiles,     \* the model files
    DependsOn,      \* [ModelFiles -> Seq(ModelFiles)]: the models a file names, in order
    Parents,        \* the files whose submodels bear their name
    Processes,      \* the generators that run at once
    Persistent,     \* ENABLE_PERSISTENT_MODEL_CACHE is set
    MayFail,        \* a file may hold what its load refuses
    MaxEdits,       \* bound: the changes made to the files
    Absent          \* no model

VARIABLES
    disk,           \* of each file: the edit it is of, how many submodels
    cached,         \* the model stored for a file, or Absent
    newer,          \* the stored time is not before the file's own
    checked,        \* the stored session is this one
    loads,          \* the loads a process is in, the innermost first
    got             \* the file and model a process was given last, or Absent

(* A model names models; all of this is a matter of one session.           *)
CacheAssumption ==
    /\ DependsOn \in [ModelFiles -> Seq(ModelFiles)]
    /\ Parents \subseteq ModelFiles

cacheVars == <<disk, cached, newer, checked, loads, got>>

LoadOf(f) == [file |-> f, at |-> "Lookup", model |-> <<>>, wanted |-> DependsOn[f]]

UpToDate(f) == cached[f] # Absent /\ newer[f]

NewSubmodels(f) ==
    f \in Parents /\ cached[f] # Absent /\ cached[f][f].family # disk[f].family

(* A dependency has changed when its file is newer than what is stored of  *)
(* it, and also when that was stored in this very session.                 *)
DependencyChanged(f) ==
    \E d \in DOMAIN cached[f] \ {f} : ~UpToDate(d) \/ checked[d]

(* What the load of a model finds in the cache: the stored model, or that  *)
(* the file must be read, in two of the cases after the load has written   *)
(* that the model is checked for this session.                             *)
Lookup(f) ==
    IF checked[f] THEN IF cached[f] = Absent THEN "Read" ELSE "Serve"
    ELSE IF NewSubmodels(f) THEN "Read"
    ELSE IF ~UpToDate(f) THEN "MarkAndRead"
    ELSE IF DependencyChanged(f) THEN "Read" ELSE "MarkAndServe"

Top(p) == Head(loads[p])

GoOn(p, load) == loads' = [loads EXCEPT ![p] = <<load>> \o Tail(@)]

(* The innermost load of a process has its model: the load around it takes *)
(* it in, or the process has what it asked for.                            *)
Give(p, model) ==
    LET outer == Tail(loads[p]) IN
    IF outer = <<>>
    THEN /\ loads' = [loads EXCEPT ![p] = <<>>]
         /\ got' = [got EXCEPT ![p] = [file |-> Top(p).file, model |-> model]]
    ELSE /\ loads' = [loads EXCEPT ![p] =
                <<[Head(outer) EXCEPT !.wanted = Tail(@),
                      !.model = [d \in DOMAIN @ \cup DOMAIN model |->
                          IF d \in DOMAIN model THEN model[d] ELSE @[d]]]>>
                \o Tail(outer)]
         /\ UNCHANGED got

Ask(p, f) ==
    /\ loads[p] = <<>>
    /\ loads' = [loads EXCEPT ![p] = <<LoadOf(f)>>]
    /\ got' = [got EXCEPT ![p] = Absent]
    /\ UNCHANGED <<disk, cached, newer, checked>>

(* The connection that only reads.                                         *)
LookUp(p) ==
    /\ loads[p] # <<>> /\ Top(p).at = "Lookup"
    /\ LET f == Top(p).file
           outcome == Lookup(f)
       IN  CASE outcome = "Serve" -> Give(p, cached[f])
             [] outcome = "MarkAndServe" ->
                    /\ GoOn(p, [Top(p) EXCEPT !.at = "MarkAndServe", !.model = cached[f]])
                    /\ UNCHANGED got
             [] OTHER -> GoOn(p, [Top(p) EXCEPT !.at = outcome]) /\ UNCHANGED got
    /\ UNCHANGED <<disk, cached, newer, checked>>

(* The connection that writes the session down.                            *)
Mark(p) ==
    /\ loads[p] # <<>> /\ Top(p).at \in {"MarkAndServe", "MarkAndRead"}
    /\ checked' = [checked EXCEPT ![Top(p).file] = TRUE]
    /\ IF Top(p).at = "MarkAndServe" THEN Give(p, Top(p).model)
       ELSE GoOn(p, [Top(p) EXCEPT !.at = "Read"]) /\ UNCHANGED got
    /\ UNCHANGED <<disk, cached, newer>>

Read(p) ==
    /\ loads[p] # <<>> /\ Top(p).at = "Read"
    /\ LET f == Top(p).file IN
       GoOn(p, [Top(p) EXCEPT !.at = "Load", !.model = [d \in {f} |-> disk[f]]])
    /\ UNCHANGED <<disk, cached, newer, checked, got>>

LoadNext(p) ==
    /\ loads[p] # <<>> /\ Top(p).at = "Load" /\ Top(p).wanted # <<>>
    /\ loads' = [loads EXCEPT ![p] = <<LoadOf(Head(Top(p).wanted))>> \o @]
    /\ UNCHANGED <<disk, cached, newer, checked, got>>

(* An exception leaves every load of the process, and nothing is stored.   *)
Refuse(p) ==
    /\ MayFail
    /\ loads[p] # <<>> /\ Top(p).at = "Load"
    /\ loads' = [loads EXCEPT ![p] = <<>>]
    /\ UNCHANGED <<disk, cached, newer, checked, got>>

(* Faulty: the last of the models it names is not waited for.              *)
FinishedOnceRead(p) == Top(p).at = "Load" /\ Len(Top(p).wanted) < 2

Finished(p) == Top(p).at = "Load" /\ Top(p).wanted = <<>>

(* The connection that stores the model, its time and its session.         *)
Save(p) ==
    /\ loads[p] # <<>> /\ Finished(p)
    /\ LET f == Top(p).file IN
       /\ cached' = [cached EXCEPT ![f] = Top(p).model]
       /\ newer' = [newer EXCEPT ![f] = TRUE]
       /\ checked' = [checked EXCEPT ![f] = TRUE]
    /\ Give(p, Top(p).model)
    /\ UNCHANGED disk

(* Every generator has ended, the user changes files, and redo is called   *)
(* again: it starts from an empty cache unless that is persistent.         *)
NewSession(edited, extended) ==
    /\ \A p \in Processes : loads[p] = <<>>
    /\ disk' = [f \in ModelFiles |->
           [text |-> IF f \in edited THEN disk[f].text + 1 ELSE disk[f].text,
            family |-> IF f \in extended THEN disk[f].family + 1 ELSE disk[f].family]]
    /\ \A f \in ModelFiles : disk'[f].text + disk'[f].family <= MaxEdits
    /\ cached' = [f \in ModelFiles |-> IF Persistent THEN cached[f] ELSE Absent]
    /\ newer' = [f \in ModelFiles |-> Persistent /\ newer[f] /\ f \notin edited]
    /\ checked' = [f \in ModelFiles |-> FALSE]
    /\ got' = [p \in Processes |-> Absent]
    /\ UNCHANGED loads

CacheInit ==
    /\ disk = [f \in ModelFiles |-> [text |-> 0, family |-> 0]]
    /\ cached = [f \in ModelFiles |-> Absent]
    /\ newer = [f \in ModelFiles |-> FALSE]
    /\ checked = [f \in ModelFiles |-> FALSE]
    /\ loads = [p \in Processes |-> <<>>]
    /\ got = [p \in Processes |-> Absent]

CacheNext ==
    \/ \E p \in Processes : \E f \in ModelFiles : Ask(p, f)
    \/ \E p \in Processes :
           LookUp(p) \/ Mark(p) \/ Read(p) \/ LoadNext(p) \/ Refuse(p) \/ Save(p)
    \/ \E edited \in SUBSET ModelFiles, extended \in SUBSET Parents : NewSession(edited, extended)

-----------------------------------------------------------------------------

Closed(fs) == \A f \in fs : \A i \in DOMAIN DependsOn[f] : DependsOn[f][i] \in fs

\* The file and all that it rests on.
Closure(f) ==
    {d \in ModelFiles : \A fs \in SUBSET ModelFiles : f \in fs /\ Closed(fs) => d \in fs}

(* A model that a generator was given was made from the files as they are, *)
(* its own and every one it rests on: "this is only safe to use if none of *)
(* the model dependencies have changed on disk either" (base.py).          *)
LoadIsCurrent ==
    \A p \in Processes : got[p] # Absent =>
        /\ DOMAIN got[p].model = Closure(got[p].file)
        /\ \A d \in DOMAIN got[p].model : got[p].model[d] = disk[d]

=============================================================================
