---------------------------- MODULE MemoryCopier ----------------------------
(***************************************************************************)
(* A copy of memory on command, across three components and four tasks:    *)
(*   - the Memory Copier's task borrows the source region, sends the copy  *)
(*     to the destination, waits for the answer and gives the region back; *)
(*   - the Memory Manager's task borrows the same region to write to it,   *)
(*     and may take it back from whoever has it (Force_Release);           *)
(*   - the Memory Stuffer's task takes copies from its queue, makes them   *)
(*     and answers on the copier's Memory_Region_Release_T_Recv_Sync;      *)
(*   - a rate group ticks the copier's timeout.                            *)
(* Every call into a protected object is a step of its own.                *)
(***************************************************************************)
EXTENDS ProtectedObjects, Sequences

CONSTANTS
    Copier, Manager,    \* who may borrow the region
    NoId,               \* the identifier of a task that has not borrowed it
    Depth,              \* messages that the stuffer's queue holds
    MaxCopies           \* bound on the copy commands of a run

ASSUME BorrowersAssumption == Copier # Manager /\ NoId \notin Ids
ASSUME BoundsAssumption == Depth \in Nat /\ MaxCopies \in Nat

Borrowers == {Copier, Manager}
Copies == 1 .. MaxCopies
Other == 0              \* any other message on the stuffer's queue
Statuses == {"Success", "Failure"}

VARIABLES
    arbiter,    \* the manager's arbiter
    held,       \* the identifier each borrower has to give back, or NoId
    sync,       \* the copier's synchronization object
    response,   \* Self.Response of the copier: the status it was last sent
    pc,         \* where the copier is in Copy_Memory_Region
    serial,     \* which copy command it is executing, or executed last
    timedOut,   \* Wait_Timed_Out of the last command that waited
    result,     \* the status of that command
    inbox,      \* the stuffer's queue: copies and other messages
    stuffer,    \* what the stuffer's task is doing, for which copy
    copied,     \* history: the copies that were made
    clean,      \* history: at Reset no copy sent before was still under way
    waited,     \* history: ticks that this command's wait has lasted
    forced      \* history: Force_Release was executed

vars == <<arbiter, held, sync, response, pc, serial, timedOut, result,
          inbox, stuffer, copied, clean, waited, forced>>
copierVars == <<pc, serial, timedOut, result>>
stufferVars == <<inbox, stuffer, copied>>

\* A copy that the stuffer has taken from its queue and not answered yet.
Jobs == [phase : {"copying", "answer", "signal"}, copy : Copies, status : Statuses]
Idle == [phase |-> "idle", copy |-> 0, status |-> "Failure"]

TypeOK ==
    /\ arbiter \in Arbiters
    /\ held \in [Borrowers -> Ids \cup {NoId}]
    /\ sync \in SyncObjects
    /\ response \in Statuses
    /\ pc \in {"idle", "granted", "reset", "sent", "waiting", "woken", "return"}
    /\ serial \in 0 .. MaxCopies
    /\ timedOut \in BOOLEAN
    /\ result \in Statuses
    /\ inbox \in Seq(Copies \cup {Other}) /\ Len(inbox) <= Depth
    /\ stuffer \in {Idle} \cup Jobs
    /\ copied \in SUBSET Copies
    /\ clean \in BOOLEAN
    /\ waited \in 0 .. Limit + 1
    /\ forced \in BOOLEAN

Init ==
    /\ arbiter = NewArbiter
    /\ held = [b \in Borrowers |-> NoId]
    /\ sync = NewSync
    /\ response \in Statuses
    /\ pc = "idle" /\ serial = 0 /\ timedOut = FALSE /\ result = "Failure"
    /\ inbox = <<>> /\ stuffer = Idle /\ copied = {}
    /\ clean = TRUE /\ waited = 0 /\ forced = FALSE

-----------------------------------------------------------------------------
(* The region.                                                             *)

Borrow(b) ==
    /\ CanRequest(arbiter)
    /\ arbiter' = Requested(arbiter)
    /\ held' = [held EXCEPT ![b] = arbiter.id]

GiveBack(b) ==
    /\ arbiter' = Released(arbiter, held[b])
    /\ held' = [held EXCEPT ![b] = NoId]

-----------------------------------------------------------------------------
(* The copier's task.                                                      *)

NoneUnderWay ==
    /\ stuffer.phase = "idle"
    /\ \A i \in DOMAIN inbox : inbox[i] = Other

Commanded ==
    /\ pc = "idle" /\ serial < MaxCopies
    /\ serial' = serial + 1 /\ result' = "Failure"

\* Request_Memory_Region fails: the region is on loan.
RegionUnavailable ==
    /\ Commanded
    /\ ~CanRequest(arbiter)
    /\ UNCHANGED <<arbiter, held, sync, response, pc, timedOut, clean, waited, forced>>
    /\ UNCHANGED stufferVars

\* Request_Memory_Region: a region that is too short is given back at once.
RequestRegion ==
    /\ Commanded
    /\ Borrow(Copier)
    /\ pc' \in {"granted", "return"}
    /\ UNCHANGED <<sync, response, timedOut, clean, waited, forced>>
    /\ UNCHANGED stufferVars

ResetSync ==
    /\ pc = "granted" /\ pc' = "reset"
    /\ sync' = Reset(sync)
    /\ clean' = NoneUnderWay /\ waited' = 0 /\ timedOut' = FALSE
    /\ UNCHANGED <<arbiter, held, response, serial, result, forced>>
    /\ UNCHANGED stufferVars

\* The send drops the copy when the stuffer's queue is full, and nobody is told.
SendCopy ==
    /\ pc = "reset" /\ pc' = "sent"
    /\ inbox' = IF Len(inbox) < Depth THEN Append(inbox, serial) ELSE inbox
    /\ UNCHANGED <<arbiter, held, sync, response, serial, timedOut, result,
                   stuffer, copied, clean, waited, forced>>

\* The entry Wait: straight through when a release is already there.
Wait ==
    /\ pc = "sent"
    /\ IF sync.doRelease
       THEN pc' = "woken" /\ timedOut' = sync.doTimeout /\ sync' = Served(sync)
       ELSE pc' = "waiting" /\ UNCHANGED <<timedOut, sync>>
    /\ UNCHANGED <<arbiter, held, response, serial, result, clean, waited, forced>>
    /\ UNCHANGED stufferVars

\* Faulty: the status of the answer is not looked at.
CheckTimeoutOnly ==
    /\ pc = "woken" /\ pc' = "return"
    /\ result' = IF timedOut THEN "Failure" ELSE "Success"
    /\ UNCHANGED <<arbiter, held, sync, response, serial, timedOut, clean, waited, forced>>
    /\ UNCHANGED stufferVars

\* Wait_For_Response after the wait: a timeout and a refusal both fail.
CheckResponse ==
    /\ pc = "woken" /\ pc' = "return"
    /\ result' = IF timedOut THEN "Failure" ELSE response
    /\ UNCHANGED <<arbiter, held, sync, response, serial, timedOut, clean, waited, forced>>
    /\ UNCHANGED stufferVars

\* Every path of Copy_Memory_Region that borrowed the region gives it back.
ReturnRegion ==
    /\ pc = "return" /\ pc' = "idle"
    /\ GiveBack(Copier)
    /\ UNCHANGED <<sync, response, serial, timedOut, result, clean, waited, forced>>
    /\ UNCHANGED stufferVars

CopierStep ==
    ResetSync \/ SendCopy \/ Wait \/ CheckResponse \/ ReturnRegion

-----------------------------------------------------------------------------
(* The tick.                                                               *)

Waiting == pc = "waiting"

\* Faulty: the limit is met and the waiting task is not released.
TickWithoutRelease ==
    /\ sync' = Ticked(sync, Waiting)
    /\ waited' = IF Waiting /\ waited < Limit THEN waited + 1 ELSE waited
    /\ UNCHANGED <<arbiter, held, response, clean, forced>>
    /\ UNCHANGED copierVars /\ UNCHANGED stufferVars

\* Timeout_Tick_Recv_Sync, on the rate group's task.
Tick ==
    /\ sync' = Ticked(sync, Waiting)
    /\ IF TimesOut(sync, Waiting)
       THEN pc' = "woken" /\ timedOut' = TRUE
       ELSE UNCHANGED <<pc, timedOut>>
    /\ waited' = IF Waiting THEN waited + 1 ELSE waited
    /\ UNCHANGED <<arbiter, held, response, serial, result, clean, forced>>
    /\ UNCHANGED stufferVars

-----------------------------------------------------------------------------
(* The manager's task.                                                     *)

\* Write_Memory_Region borrows the region through its own connector.
WriteBegin ==
    /\ held[Manager] = NoId
    /\ Borrow(Manager)
    /\ UNCHANGED <<sync, response, clean, waited, forced>>
    /\ UNCHANGED copierVars /\ UNCHANGED stufferVars

WriteEnd ==
    /\ held[Manager] # NoId
    /\ GiveBack(Manager)
    /\ UNCHANGED <<sync, response, clean, waited, forced>>
    /\ UNCHANGED copierVars /\ UNCHANGED stufferVars

ForceRelease ==
    /\ held[Manager] = NoId
    /\ arbiter' = ForceReleased(arbiter)
    /\ forced' = TRUE
    /\ UNCHANGED <<held, sync, response, clean, waited>>
    /\ UNCHANGED copierVars /\ UNCHANGED stufferVars

-----------------------------------------------------------------------------
(* The stuffer's task.                                                     *)

\* A command or a tick of the stuffer takes room on its queue.
OtherArrives ==
    /\ Len(inbox) < Depth
    /\ inbox' = Append(inbox, Other)
    /\ UNCHANGED <<arbiter, held, sync, response, stuffer, copied, clean, waited, forced>>
    /\ UNCHANGED copierVars

\* A destination out of the stuffer's regions is refused, any other is copied.
TakeMessage ==
    /\ stuffer.phase = "idle" /\ inbox # <<>>
    /\ inbox' = Tail(inbox)
    /\ IF Head(inbox) = Other THEN UNCHANGED stuffer
       ELSE \E phase \in {"copying", "answer"} :
                stuffer' = [phase |-> phase, copy |-> Head(inbox), status |-> "Failure"]
    /\ UNCHANGED <<arbiter, held, sync, response, copied, clean, waited, forced>>
    /\ UNCHANGED copierVars

MakeCopy ==
    /\ stuffer.phase = "copying"
    /\ stuffer' = [stuffer EXCEPT !.phase = "answer", !.status = "Success"]
    /\ copied' = copied \cup {stuffer.copy}
    /\ UNCHANGED <<arbiter, held, sync, response, inbox, clean, waited, forced>>
    /\ UNCHANGED copierVars

\* Memory_Region_Release_T_Recv_Sync stores the answer ...
SetResponse ==
    /\ stuffer.phase = "answer"
    /\ stuffer' = [stuffer EXCEPT !.phase = "signal"]
    /\ response' = stuffer.status
    /\ UNCHANGED <<arbiter, held, sync, inbox, copied, clean, waited, forced>>
    /\ UNCHANGED copierVars

\* ... and then releases the copier.
Signal ==
    /\ stuffer.phase = "signal"
    /\ stuffer' = Idle
    /\ sync' = Release(sync, Waiting)
    /\ IF Waiting THEN pc' = "woken" /\ timedOut' = FALSE
       ELSE UNCHANGED <<pc, timedOut>>
    /\ UNCHANGED <<arbiter, held, response, serial, result, inbox, copied, clean, waited, forced>>

-----------------------------------------------------------------------------
Next ==
    \/ RegionUnavailable \/ RequestRegion \/ CopierStep
    \/ Tick
    \/ WriteBegin \/ WriteEnd \/ ForceRelease
    \/ OtherArrives \/ TakeMessage \/ MakeCopy \/ SetResponse \/ Signal

Spec == Init /\ [][Next]_vars

\* The copier's task runs, and the rate group that times it out ticks on.  The
\* stuffer is owed nothing: it may be stuck.
FairSpec == Spec /\ WF_vars(CopierStep) /\ WF_vars(Tick)

-----------------------------------------------------------------------------
Holders == {b \in Borrowers : held[b] # NoId}

\* A region on loan can come back: some borrower holds the identifier that the
\* arbiter expects, whatever was forced, timed out or refused before.
InUseHasOwner ==
    arbiter.state = "In_Use" => \E b \in Borrowers : held[b] = ExpectedId(arbiter)

\* Until Force_Release is used, the region has one borrower when it is on loan
\* and none when it is available.
OneBorrower ==
    ~forced => /\ arbiter.state = "Available" => Holders = {}
               /\ \A a, b \in Holders : a = b

\* A copy command that ends well has copied, unless a copy that timed out
\* earlier was still under way when this one began to listen: answers carry
\* nothing that tells them apart.
FinishedCopyWasMade ==
    (clean /\ pc = "return" /\ result = "Success") => serial \in copied

\* While the stuffer reads the source region for a copy, the copier holds on
\* to the region, with the same exception and unless this copy timed out.
SourceHeldWhileCopied ==
    (clean /\ stuffer.phase = "copying" /\ ~timedOut) =>
        /\ held[Copier] # NoId
        /\ stuffer.copy = serial
        /\ pc \in {"sent", "waiting"}

\* A timeout is declared at the tick that follows Limit ticks of waiting:
\* never earlier, and the wait never lasts longer.
TimeoutOnTime ==
    /\ timedOut => waited = Limit + 1
    /\ Waiting => waited <= Limit

\* Whatever becomes of the copy that was sent, the command comes to its end.
CommandEnds == pc # "idle" ~> pc = "idle"
=============================================================================
