---------------------------- MODULE LabeledQueue ----------------------------
(***************************************************************************)
(* The protected element queue behind every asynchronous connector         *)
(* (src/data_structures/labeled_queue; variable_queue has the same body    *)
(* without the label).  A protected object guards a FIFO of length         *)
(* prefixed elements in a byte buffer; two suspension objects, Not_Full    *)
(* and Not_Empty, let one task block on a full queue and one on an empty   *)
(* queue.  The protected action and the call to Suspend_Until_True are two *)
(* separate steps, and every other task may run between them.              *)
(***************************************************************************)
EXTENDS Integers, Sequences, SequencesExt

CONSTANTS
    Pushers,    \* tasks that may call Push_Block
    Poppers,    \* tasks that may call Pop_Block and the blocking peeks
    Clearers,   \* tasks that may call Clear
    Elements,   \* the elements that may be pushed
    Length,     \* bytes of an element's data
    Overhead,   \* bytes stored with an element: its length and its label
    Capacity,   \* bytes of the circular buffer
    None        \* no task

ASSUME TasksAssumption ==
    /\ None \notin Pushers \cup Poppers \cup Clearers
    /\ Pushers \cap Poppers = {}
    /\ Pushers \cap Clearers = {}
    /\ Poppers \cap Clearers = {}

ASSUME SizesAssumption ==
    /\ Length \in [Elements -> Nat]
    /\ Overhead \in Nat \ {0}
    /\ Capacity \in Nat

VARIABLES
    queue,      \* the elements in the circular buffer, oldest first
    notFull,    \* Self.Not_Full, what a blocked pusher waits on
    notEmpty,   \* Self.Not_Empty, what a blocked popper waits on
    pc,         \* where each task is in the call it is making
    elem,       \* the element a pusher is trying to push
    op,         \* whether a popper's call removes the element it returns
    ret         \* the status of the last call of each task that returned

vars == <<queue, notFull, notEmpty, pc, elem, op, ret>>

Tasks == Pushers \cup Poppers \cup Clearers

Size(e) == Overhead + Length[e]

\* Bytes of the circular buffer that a queue of elements takes.
Bytes(q) == FoldSeq(LAMBDA e, n : Size(e) + n, 0, q)

NumBytesUsed == IF queue = <<>> THEN 0 ELSE Bytes(queue)

\* Push_Length: the element and its length must fit in what is free.
Fits(e) == Size(e) <= Capacity - NumBytesUsed

-----------------------------------------------------------------------------
(* Suspension objects of Ada.Synchronous_Task_Control.                     *)

SuspensionObjects(waiters) == [open : BOOLEAN, waiter : waiters \cup {None}]

\* Faulty: the released task is still recorded as waiting.
AfterSetTrueKeepsWaiter(so) == [so EXCEPT !.open = (so.waiter = None)]

\* Set_True hands the release to a waiting task, or leaves the object open.
AfterSetTrue(so) == [open |-> so.waiter = None, waiter |-> None]

\* The control points once Set_True has released the waiting task, if any.
Released(so) ==
    IF so.waiter = None THEN pc ELSE [pc EXCEPT ![so.waiter] = "retry"]

-----------------------------------------------------------------------------
\* Outside any call, after a failed attempt, asleep, released; and the two
\* points inside Clear.
Controls == {"idle", "failed", "waiting", "retry", "cleared", "closed"}

TypeOK ==
    /\ queue \in Seq(Elements)
    /\ notFull \in SuspensionObjects(Pushers)
    /\ notEmpty \in SuspensionObjects(Poppers)
    /\ pc \in [Tasks -> Controls]
    /\ elem \in [Pushers -> Elements]
    /\ op \in [Poppers -> {"Pop", "Peek"}]
    /\ ret \in [Tasks -> {"Success", "Too_Full", "Empty", "Error"}]

Init ==
    /\ queue = <<>>
    /\ notFull = [open |-> TRUE, waiter |-> None]
    /\ notEmpty = [open |-> FALSE, waiter |-> None]
    /\ pc = [t \in Tasks |-> "idle"]
    /\ elem \in [Pushers -> Elements]
    /\ op = [t \in Poppers |-> "Pop"]
    /\ ret = [t \in Tasks |-> "Success"]

-----------------------------------------------------------------------------
(* The protected actions.                                                  *)

\* Faulty: Not_Empty is never set.
TryPushSilent(t, e, onFull) ==
    /\ \/ /\ Fits(e)
          /\ queue' = Append(queue, e)
          /\ pc' = [pc EXCEPT ![t] = "idle"]
          /\ ret' = [ret EXCEPT ![t] = "Success"]
       \/ /\ ~Fits(e)
          /\ pc' = [pc EXCEPT ![t] = onFull]
          /\ ret' = [ret EXCEPT ![t] = "Too_Full"]
          /\ UNCHANGED queue
    /\ UNCHANGED notEmpty

\* Protected_Queue.Push: Not_Empty is set inside the protected action.
TryPush(t, e, onFull) ==
    \/ /\ Fits(e)
       /\ queue' = Append(queue, e)
       /\ notEmpty' = AfterSetTrue(notEmpty)
       /\ pc' = [Released(notEmpty) EXCEPT ![t] = "idle"]
       /\ ret' = [ret EXCEPT ![t] = "Success"]
    \/ /\ ~Fits(e)
       /\ pc' = [pc EXCEPT ![t] = onFull]
       /\ ret' = [ret EXCEPT ![t] = "Too_Full"]
       /\ UNCHANGED <<queue, notEmpty>>

\* Faulty: Not_Full is set only while elements remain.
TryPopSilentOnLast(t, onEmpty) ==
    \/ /\ queue # <<>>
       /\ queue' = Tail(queue)
       /\ IF queue' = <<>>
          THEN /\ pc' = [pc EXCEPT ![t] = "idle"]
               /\ UNCHANGED notFull
          ELSE /\ notFull' = AfterSetTrue(notFull)
               /\ pc' = [Released(notFull) EXCEPT ![t] = "idle"]
       /\ ret' = [ret EXCEPT ![t] = "Success"]
    \/ /\ queue = <<>>
       /\ pc' = [pc EXCEPT ![t] = onEmpty]
       /\ ret' = [ret EXCEPT ![t] = "Empty"]
       /\ UNCHANGED <<queue, notFull>>

\* Protected_Queue.Pop: Not_Full is set inside the protected action.
TryPop(t, onEmpty) ==
    \/ /\ queue # <<>>
       /\ queue' = Tail(queue)
       /\ notFull' = AfterSetTrue(notFull)
       /\ pc' = [Released(notFull) EXCEPT ![t] = "idle"]
       /\ ret' = [ret EXCEPT ![t] = "Success"]
    \/ /\ queue = <<>>
       /\ pc' = [pc EXCEPT ![t] = onEmpty]
       /\ ret' = [ret EXCEPT ![t] = "Empty"]
       /\ UNCHANGED <<queue, notFull>>

\* Protected_Queue.Peek, Peek_Length and Peek_Label change nothing.
TryPeek(t, onEmpty) ==
    /\ \/ /\ queue # <<>>
          /\ pc' = [pc EXCEPT ![t] = "idle"]
          /\ ret' = [ret EXCEPT ![t] = "Success"]
       \/ /\ queue = <<>>
          /\ pc' = [pc EXCEPT ![t] = onEmpty]
          /\ ret' = [ret EXCEPT ![t] = "Empty"]
    /\ UNCHANGED <<queue, notFull>>

-----------------------------------------------------------------------------
(* The calls.                                                              *)

\* Push, by any task that is not inside another call.
Push(t, e) ==
    /\ pc[t] = "idle"
    /\ TryPush(t, e, "idle")
    /\ UNCHANGED <<notFull, elem, op>>

\* The first attempt of Push_Block.
PushBlock(t, e) ==
    /\ pc[t] = "idle"
    /\ elem' = [elem EXCEPT ![t] = e]
    /\ TryPush(t, e, "failed")
    /\ UNCHANGED <<notFull, op>>

\* Push_Block after Too_Full: Suspend_Until_True (Not_Full).  The run-time
\* raises Program_Error when a task waits already, and Error is returned.
PusherSuspend(t) ==
    /\ pc[t] = "failed"
    /\ \/ /\ notFull.waiter # None
          /\ pc' = [pc EXCEPT ![t] = "idle"]
          /\ ret' = [ret EXCEPT ![t] = "Error"]
          /\ UNCHANGED notFull
       \/ /\ notFull.waiter = None
          /\ notFull.open
          /\ notFull' = [notFull EXCEPT !.open = FALSE]
          /\ pc' = [pc EXCEPT ![t] = "retry"]
          /\ UNCHANGED ret
       \/ /\ notFull.waiter = None
          /\ ~notFull.open
          /\ notFull' = [notFull EXCEPT !.waiter = t]
          /\ pc' = [pc EXCEPT ![t] = "waiting"]
          /\ UNCHANGED ret
    /\ UNCHANGED <<queue, notEmpty, elem, op>>

\* Push_Block after its suspension: the push is attempted again.
PusherRetry(t) ==
    /\ pc[t] = "retry"
    /\ TryPush(t, elem[t], "failed")
    /\ UNCHANGED <<notFull, elem, op>>

\* Pop, the non-blocking call.
Pop(t) ==
    /\ pc[t] = "idle"
    /\ TryPop(t, "idle")
    /\ UNCHANGED <<notEmpty, elem, op>>

\* The first attempt of Pop_Block.
PopBlock(t) ==
    /\ pc[t] = "idle"
    /\ op' = [op EXCEPT ![t] = "Pop"]
    /\ TryPop(t, "failed")
    /\ UNCHANGED <<notEmpty, elem>>

\* The first attempt of Peek_Block, Peek_Length_Block and Peek_Label_Block.
PeekBlock(t) ==
    /\ pc[t] = "idle"
    /\ op' = [op EXCEPT ![t] = "Peek"]
    /\ TryPeek(t, "failed")
    /\ UNCHANGED <<notEmpty, elem>>

\* A popper's Suspend_Until_True (Not_Empty) after Empty.
PopperSuspend(t) ==
    /\ pc[t] = "failed"
    /\ \/ /\ notEmpty.waiter # None
          /\ pc' = [pc EXCEPT ![t] = "idle"]
          /\ ret' = [ret EXCEPT ![t] = "Error"]
          /\ UNCHANGED notEmpty
       \/ /\ notEmpty.waiter = None
          /\ notEmpty.open
          /\ notEmpty' = [notEmpty EXCEPT !.open = FALSE]
          /\ pc' = [pc EXCEPT ![t] = "retry"]
          /\ UNCHANGED ret
       \/ /\ notEmpty.waiter = None
          /\ ~notEmpty.open
          /\ notEmpty' = [notEmpty EXCEPT !.waiter = t]
          /\ pc' = [pc EXCEPT ![t] = "waiting"]
          /\ UNCHANGED ret
    /\ UNCHANGED <<queue, notFull, elem, op>>

\* A popper's call after its suspension: the pop or peek is attempted again.
PopperRetry(t) ==
    /\ pc[t] = "retry"
    /\ \/ op[t] = "Pop" /\ TryPop(t, "failed")
       \/ op[t] = "Peek" /\ TryPeek(t, "failed")
    /\ UNCHANGED <<notEmpty, elem, op>>

\* Clear is three steps: the protected Clear, then the two suspension
\* objects, outside the protected action.
Clear(t) ==
    /\ pc[t] = "idle"
    /\ queue' = <<>>
    /\ pc' = [pc EXCEPT ![t] = "cleared"]
    /\ UNCHANGED <<notFull, notEmpty, elem, op, ret>>

ClearNotEmpty(t) ==
    /\ pc[t] = "cleared"
    /\ notEmpty' = [notEmpty EXCEPT !.open = FALSE]
    /\ pc' = [pc EXCEPT ![t] = "closed"]
    /\ UNCHANGED <<queue, notFull, elem, op, ret>>

\* Faulty: Not_Full is closed with Not_Empty.
ClearNotFullClosing(t) ==
    /\ pc[t] = "closed"
    /\ notFull' = [notFull EXCEPT !.open = FALSE]
    /\ pc' = [pc EXCEPT ![t] = "idle"]
    /\ UNCHANGED <<queue, notEmpty, elem, op, ret>>

\* Not_Full is open afterwards, or the pusher that waited is released.
ClearNotFull(t) ==
    /\ pc[t] = "closed"
    /\ notFull' = AfterSetTrue(notFull)
    /\ pc' = [Released(notFull) EXCEPT ![t] = "idle"]
    /\ UNCHANGED <<queue, notEmpty, elem, op, ret>>

PusherStep(t) ==
    \/ \E e \in Elements : PushBlock(t, e)
    \/ PusherSuspend(t)
    \/ PusherRetry(t)

PopperStep(t) ==
    \/ Pop(t)
    \/ PopBlock(t)
    \/ PeekBlock(t)
    \/ PopperSuspend(t)
    \/ PopperRetry(t)

ClearerStep(t) ==
    \/ Clear(t)
    \/ ClearNotEmpty(t)
    \/ ClearNotFull(t)

Next ==
    \/ \E t \in Tasks, e \in Elements : Push(t, e)
    \/ \E t \in Pushers : PusherStep(t)
    \/ \E t \in Poppers : PopperStep(t)
    \/ \E t \in Clearers : ClearerStep(t)

Spec == Init /\ [][Next]_vars

\* A popper is a component's task, whose cycle is Pop_Block; a task that has
\* been released goes on with its call.
Fairness ==
    /\ \A t \in Poppers : /\ WF_vars(PopBlock(t))
                          /\ WF_vars(PopperSuspend(t))
                          /\ WF_vars(PopperRetry(t))
    /\ \A t \in Pushers : /\ WF_vars(PusherSuspend(t))
                          /\ WF_vars(PusherRetry(t))

FairSpec == Spec /\ Fairness

-----------------------------------------------------------------------------
(* Properties.                                                             *)

\* A task sleeps on Not_Empty only while there is nothing to take: Push_Block
\* and Pop_Block look at the queue and go to sleep in two steps, and a push
\* that comes between the two must not be slept through.
NoLostWakeup == notEmpty.waiter # None => queue = <<>>

\* A pusher asleep on Not_Full, or about to be, is always about to be woken:
\* the object is open, or an element is queued whose pop will open it, or
\* another pusher has been released and will either queue an element or find
\* one queued, or a Clear is on its way to opening it.  Not_Full is a single flag that several pushers consume.
NoStrandedPusher ==
    (\E t \in Pushers : pc[t] \in {"failed", "waiting"})
        => \/ notFull.open
           \/ queue # <<>>
           \/ \E t \in Pushers : pc[t] = "retry"
           \/ \E t \in Clearers : pc[t] \in {"cleared", "closed"}

\* The blocking calls of a task that is the only one to block on its side of
\* the queue never fail: only two tasks on one suspension object make Error.
SoleTaskNeverFails ==
    /\ \A t \in Poppers : Poppers = {t} => ret[t] # "Error"
    /\ \A t \in Pushers : Pushers = {t} => ret[t] # "Error"

\* A pusher that sleeps is released in the end, as long as the component that
\* owns the queue goes on cycling.
SleepingPusherReleased ==
    \A t \in Pushers : pc[t] = "waiting" ~> pc[t] # "waiting"

=============================================================================
