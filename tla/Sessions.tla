------------------------------ MODULE Sessions ------------------------------
(***************************************************************************)
(* The session directory of the build: redo/database/_setup.py and         *)
(* setup.py, build_rule_base.build and delayed_cleanup.sh.                 *)
(*                                                                         *)
(* Each target that the user names to redo is a process of its own.  It    *)
(* makes the directory, says in it that it is running, fills the databases *)
(* and builds; the targets that its build calls for find the environment   *)
(* set up and leave the directory alone, so that they are part of its      *)
(* Building.  A target that has built takes its sign away and leaves a     *)
(* script behind that removes the directory after it has looked seven      *)
(* times and seen no sign.  A target that fails ends as Python ends, whose *)
(* exit handler removes the directory at once.                             *)
(***************************************************************************)
EXTENDS Naturals, FiniteSets

CONSTANTS
    Targets,        \* the targets the user names, all in one session
    Looks           \* how often the script looks: seven

ASSUME SessionAssumption == IsFiniteSet(Targets) /\ Looks \in Nat \ {0}

VARIABLES
    jobs,           \* how many targets redo builds at once
    at,             \* where each target is
    directory,      \* the session directory is there
    running,        \* the targets whose sign is in it
    databases,      \* "None", "Partial" while being filled, "Ready"
    seen            \* how often the script of a target saw no sign

sessionVars == <<jobs, at, directory, running, databases, seen>>

Started == {"Starting", "Named", "Filling", "Building", "Failed"}

InUse == {"Named", "Filling", "Building"}

Go(t, step) == at' = [at EXCEPT ![t] = step]

(* safe_makedir: no complaint when another target has made it.             *)
Start(t) ==
    /\ at[t] = "Waiting"
    /\ Cardinality({u \in Targets : at[u] \in Started}) < jobs
    /\ directory' = TRUE
    /\ Go(t, "Starting")
    /\ UNCHANGED <<jobs, running, databases, seen>>

Announce(t) ==
    /\ at[t] = "Starting" /\ directory
    /\ running' = running \cup {t}
    /\ Go(t, "Named")
    /\ UNCHANGED <<jobs, directory, databases, seen>>

(* The databases are destroyed and made anew, then filled.                 *)
Create(t) ==
    /\ at[t] = "Named" /\ directory
    /\ databases' = "Partial"
    /\ Go(t, "Filling")
    /\ UNCHANGED <<jobs, directory, running, seen>>

FillDatabases(t) ==
    /\ at[t] = "Filling" /\ directory
    /\ databases' = "Ready"
    /\ Go(t, "Building")
    /\ UNCHANGED <<jobs, directory, running, seen>>

(* Faulty: the sign of a target that has built stays.                      *)
FinishKeepingSign(t) ==
    /\ at[t] = "Building"
    /\ Go(t, IF t \in running THEN "Watching" ELSE "Gone")
    /\ UNCHANGED <<jobs, directory, running, databases, seen>>

(* _delayed_cleanup: the sign goes; without one there is no script.        *)
Finish(t) ==
    /\ at[t] = "Building"
    /\ running' = running \ {t}
    /\ Go(t, IF t \in running THEN "Watching" ELSE "Gone")
    /\ UNCHANGED <<jobs, directory, databases, seen>>

TargetFails(t) ==
    /\ at[t] \in {"Starting", "Named", "Filling", "Building"}
    /\ Go(t, "Failed")
    /\ UNCHANGED <<jobs, directory, running, databases, seen>>

(* Without its directory the setup raises.                                 *)
Raise(t) == at[t] \in {"Starting", "Named", "Filling"} /\ ~directory /\ TargetFails(t)

RemoveDirectory ==
    /\ directory' = FALSE
    /\ running' = {}
    /\ databases' = "None"

(* The exit handler of the process that did the setup.                     *)
CleanUp(t) ==
    /\ at[t] = "Failed"
    /\ RemoveDirectory
    /\ Go(t, "Removed")
    /\ UNCHANGED <<jobs, seen>>

(* The looks span some five seconds, longer than redo takes from one       *)
(* target to the next: the last look comes after the last target has said  *)
(* that it runs.  delayed_cleanup.sh counts on it.                         *)
GapIsOver == \A t \in Targets : at[t] \notin {"Waiting", "Starting"}

(* Faulty: one target left counts as none.                                 *)
StillUsedByMany == Cardinality(running) > 1

StillUsed == running # {}

Look(t) ==
    /\ at[t] = "Watching" /\ seen[t] < Looks
    /\ seen[t] + 1 = Looks => GapIsOver
    /\ IF ~directory \/ StillUsed
       THEN Go(t, "Gone") /\ UNCHANGED seen
       ELSE seen' = [seen EXCEPT ![t] = @ + 1] /\ UNCHANGED at
    /\ UNCHANGED <<jobs, directory, running, databases>>

DelayedCleanup(t) ==
    /\ at[t] = "Watching" /\ seen[t] = Looks
    /\ RemoveDirectory
    /\ Go(t, "Gone")
    /\ UNCHANGED <<jobs, seen>>

SessionInit ==
    /\ jobs \in 1 .. Cardinality(Targets)
    /\ at = [t \in Targets |-> "Waiting"]
    /\ directory = FALSE
    /\ running = {}
    /\ databases = "None"
    /\ seen = [t \in Targets |-> 0]

Step(t) ==
    \/ Start(t) \/ Announce(t) \/ Create(t) \/ FillDatabases(t) \/ Raise(t)
    \/ Finish(t) \/ CleanUp(t) \/ Look(t) \/ DelayedCleanup(t)

SessionNext == \E t \in Targets : Step(t) \/ TargetFails(t)

SessionSpec == SessionInit /\ [][SessionNext]_sessionVars

(* The processes and the scripts run; nothing says that a target fails.    *)
SessionFairness == \A t \in Targets : WF_sessionVars(Step(t))

-----------------------------------------------------------------------------

(* While no target has failed, the directory stays for as long as a target *)
(* has its sign in it: "only the last redo target [...] will actually      *)
(* remove the temporary directory, after no other subprocesses are using   *)
(* it" (delayed_cleanup.sh).  And when targets run one at a time, failed   *)
(* ones before it or not, a target builds over databases that are whole.   *)
SessionIsKept ==
    /\ (\A u \in Targets : at[u] # "Removed") =>
           \A t \in Targets : at[t] \in InUse => directory /\ t \in running
    /\ jobs = 1 => \A t \in Targets :
           at[t] = "Building" => directory /\ databases = "Ready"

(* In the end nothing is left in memory of a session, whatever failed and  *)
(* whichever script was the last to look.                                  *)
DirectoryGoes == <>[]~directory

=============================================================================
