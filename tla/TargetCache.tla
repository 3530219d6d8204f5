----------------------------- MODULE TargetCache ----------------------------
(***************************************************************************)
(* What "redo what" answers: redo/rules/build_what.py above the target     *)
(* database that redo/database/persistent_target_cache.py keeps over the   *)
(* sessions.  The answer for a directory is the files whose targets it     *)
(* lists.  A build lists its directories when it is set up, writes what it *)
(* found into the database of its session when all else is loaded, and     *)
(* that is copied over the kept one when the build has ended; files come   *)
(* and go, and others ask, between any two of these.                       *)
(*                                                                         *)
(* Times are those the file system gives: of a directory when a file was   *)
(* last added to it or removed, of a database when it was last written,    *)
(* except that the copy of a session's database keeps the time of the      *)
(* original (shutil.copy2).  Several things may happen at one time.        *)
(***************************************************************************)
EXTENDS Naturals

CONSTANTS
    Directories,
    Sources,            \* the files that may be in a directory
    Builds,             \* the builds that may run at once
    Askers,             \* the "redo what" that may run at once
    MaxTime,            \* bound: the moments told apart
    Nothing             \* no database, no question

VARIABLES
    now,
    files,              \* what each directory holds
    changed,            \* when it last changed
    kept,               \* the kept database, or Nothing
    session,            \* of each build its database, not stored at time 0
    asking              \* of each asker its question and step, or Nothing

whatVars == <<now, files, changed, kept, session, asking>>

(* What is listed of a directory: files.  When it was, and when that was    *)
(* written into a database, no database tells.                             *)
Listing(d) == [files |-> files[d], listed |-> now, stored |-> 0]

Stored(listing) == [listing EXCEPT !.stored = now]

With(lists, d, listing) ==
    [e \in DOMAIN lists \cup {d} |-> IF e = d THEN listing ELSE lists[e]]

NoLists == [d \in {} |-> Nothing]

Unbuilt == [lists |-> NoLists, time |-> 0]

-----------------------------------------------------------------------------

Tick ==
    /\ now < MaxTime
    /\ now' = now + 1
    /\ UNCHANGED <<files, changed, kept, session, asking>>

\* Files are added to a directory or removed.
Change(d, held) ==
    /\ held # files[d]
    /\ files' = [files EXCEPT ![d] = held]
    /\ changed' = [changed EXCEPT ![d] = now]
    /\ UNCHANGED <<now, kept, session, asking>>

-----------------------------------------------------------------------------
(* A build.                                                                *)

\* _build_path comes to one directory of the path after the other.
ListDirectory(b, d) ==
    /\ session[b].time = 0 /\ d \notin DOMAIN session[b].lists
    /\ session' = [session EXCEPT ![b].lists = With(@, d, Listing(d))]
    /\ UNCHANGED <<now, files, changed, kept, asking>>

\* The last thing that create does.
StoreTargets(b) ==
    /\ session[b].time = 0 /\ DOMAIN session[b].lists # {}
    /\ session' = [session EXCEPT
                      ![b] = [lists |-> [d \in DOMAIN @.lists |-> Stored(@.lists[d])], time |-> now]]
    /\ UNCHANGED <<now, files, changed, kept, asking>>

(* Faulty: the copy has the time of its own making.                        *)
CopiedNow(b) == [lists |-> session[b].lists, time |-> now]

(* shutil.copy2 keeps the time of the session's database.                  *)
Copied(b) == session[b]

\* save_persistent_db, of a build that came so far.
EndBuild(b) ==
    /\ session[b].time # 0
    /\ kept' = [lists |-> Copied(b).lists, time |-> Copied(b).time, placed |-> now]
    /\ session' = [session EXCEPT ![b] = Unbuilt]
    /\ UNCHANGED <<now, files, changed, asking>>

\* A build that fails saves nothing.
FailBuild(b) ==
    /\ session[b] # Unbuilt
    /\ session' = [session EXCEPT ![b] = Unbuilt]
    /\ UNCHANGED <<now, files, changed, kept, asking>>

-----------------------------------------------------------------------------
(* A question.                                                             *)

\* Whether the database is older than the directory is looked at first.
AskWhat(a, d) ==
    /\ asking[a] = Nothing
    /\ asking' = [asking EXCEPT ![a] =
          [asked |-> d, since |-> now,
           step |-> IF kept # Nothing /\ kept.time >= changed[d] THEN "read" ELSE "list"]]
    /\ UNCHANGED <<now, files, changed, kept, session>>

\* The quick way; the slow one when the database does not know the directory,
\* or is gone by now.
ReadKept(a) ==
    LET d == asking[a].asked IN
    /\ asking[a] # Nothing /\ asking[a].step = "read"
    /\ asking' = [asking EXCEPT ![a] =
          IF kept # Nothing /\ d \in DOMAIN kept.lists
          THEN [asked |-> d, since |-> @.since, step |-> "answered", listing |-> kept.lists[d],
                written |-> kept.time, placed |-> kept.placed]
          ELSE [@ EXCEPT !.step = "list"]]
    /\ UNCHANGED <<now, files, changed, kept, session>>

\* The slow way is set up for this directory and answers from what it lists.
ListAsked(a) ==
    /\ asking[a] # Nothing /\ asking[a].step = "list"
    /\ asking' = [asking EXCEPT ![a] =
          [asked |-> @.asked, since |-> @.since, step |-> "store", listing |-> Listing(@.asked),
           written |-> now, placed |-> now]]
    /\ UNCHANGED <<now, files, changed, kept, session>>

\* update_persistent_db_targets makes the database when there is none.
StoreAnswer(a) ==
    LET lists == IF kept = Nothing THEN NoLists ELSE kept.lists IN
    /\ asking[a] # Nothing /\ asking[a].step = "store"
    /\ kept' = [lists |-> With(lists, asking[a].asked, Stored(asking[a].listing)),
                time |-> now, placed |-> IF kept = Nothing THEN now ELSE kept.placed]
    /\ asking' = [asking EXCEPT ![a] = Nothing]
    /\ UNCHANGED <<now, files, changed, session>>

\* The answer is given, or the question or its storing has failed.
StopAsking(a) ==
    /\ asking[a] # Nothing
    /\ asking' = [asking EXCEPT ![a] = Nothing]
    /\ UNCHANGED <<now, files, changed, kept, session>>

\* The directory of the cache is removed, or the database is found corrupt.
LoseKept ==
    /\ kept # Nothing
    /\ kept' = Nothing
    /\ UNCHANGED <<now, files, changed, session, asking>>

-----------------------------------------------------------------------------

WhatInit ==
    /\ now = 1
    /\ files = [d \in Directories |-> {}]
    /\ changed = [d \in Directories |-> 0]
    /\ kept = Nothing
    /\ session = [b \in Builds |-> Unbuilt]
    /\ asking = [a \in Askers |-> Nothing]

WhatNext ==
    \/ Tick \/ LoseKept
    \/ \E d \in Directories : \E held \in SUBSET Sources : Change(d, held)
    \/ \E b \in Builds :
          StoreTargets(b) \/ EndBuild(b) \/ FailBuild(b) \/ \E d \in Directories : ListDirectory(b, d)
    \/ \E a \in Askers :
          ReadKept(a) \/ ListAsked(a) \/ StoreAnswer(a) \/ StopAsking(a) \/ \E d \in Directories : AskWhat(a, d)

-----------------------------------------------------------------------------

Answered(a) == asking[a] # Nothing /\ asking[a].step \in {"answered", "store"}

\* What an asker is told is what the directory holds, or something happened
\* while it was asking: the directory changed, or a build has put its own
\* database in the place of the one that was looked at.
Told(a) ==
    LET q == asking[a] IN
    \/ q.listing.files = files[q.asked]
    \/ changed[q.asked] >= q.since
    \/ q.placed >= q.since

(* The comparison of times sees every change of a directory but those that *)
(* come while a list of it is on its way into a database: after a setup    *)
(* has listed it, before the list is stored (build_what.py, create.py).    *)
WhatIsCurrent ==
    \A a \in Askers : Answered(a) =>
        \/ Told(a)
        \/ /\ changed[asking[a].asked] >= asking[a].listing.listed
           /\ changed[asking[a].asked] <= asking[a].listing.stored

=============================================================================
