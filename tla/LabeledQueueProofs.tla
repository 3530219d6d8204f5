------------------------- MODULE LabeledQueueProofs -------------------------
(***************************************************************************)
(* Proofs about LabeledQueue: that its state is well typed, that no pusher *)
(* is left behind on a full queue, and that the one task that takes from a *)
(* queue never sleeps through a push.                                      *)
(***************************************************************************)
EXTENDS LabeledQueue, SequenceTheorems, TLAPS

\* Set_True yields a suspension object of the same kind.
LEMMA AfterSetTrueType ==
  ASSUME NEW W, NEW so \in SuspensionObjects(W)
  PROVE  AfterSetTrue(so) \in SuspensionObjects(W)
BY DEF AfterSetTrue, SuspensionObjects

\* Releasing a waiter moves it to another control point and nobody else.
LEMMA ReleasedType ==
  ASSUME NEW W \in SUBSET Tasks, NEW so \in SuspensionObjects(W),
         pc \in [Tasks -> Controls]
  PROVE  Released(so) \in [Tasks -> Controls]
<1>1. so.waiter = None \/ so.waiter \in Tasks
  BY DEF SuspensionObjects
<1> QED
  BY <1>1 DEF Released, Controls

\* What the protected Push may do to the variables it writes.
LEMMA TryPushType ==
  ASSUME TypeOK, NEW t \in Tasks, NEW e \in Elements,
         NEW onFull \in Controls, TryPush(t, e, onFull)
  PROVE  /\ queue' \in Seq(Elements)
         /\ notEmpty' \in SuspensionObjects(Poppers)
         /\ pc' \in [Tasks -> Controls]
         /\ ret' \in [Tasks -> {"Success", "Too_Full", "Empty", "Error"}]
<1>1. AfterSetTrue(notEmpty) \in SuspensionObjects(Poppers)
  BY AfterSetTrueType DEF TypeOK
<1>2. Released(notEmpty) \in [Tasks -> Controls]
  BY ReleasedType DEF TypeOK, Tasks
<1>3. CASE Fits(e)
  <2>1. queue' \in Seq(Elements)
    BY <1>3 DEF TryPush, TypeOK
  <2>2. pc' = [Released(notEmpty) EXCEPT ![t] = "idle"]
    BY <1>3 DEF TryPush
  <2>3. pc' \in [Tasks -> Controls]
    BY <1>2, <2>2 DEF Controls
  <2>4. ret' \in [Tasks -> {"Success", "Too_Full", "Empty", "Error"}]
    BY <1>3 DEF TryPush, TypeOK
  <2> QED
    BY <1>1, <1>3, <2>1, <2>3, <2>4 DEF TryPush
<1>4. CASE ~Fits(e)
  BY <1>4 DEF TryPush, TypeOK
<1> QED
  BY <1>3, <1>4

\* What the protected Pop may do to the variables it writes.
LEMMA TryPopType ==
  ASSUME TypeOK, NEW t \in Tasks, NEW onEmpty \in Controls, TryPop(t, onEmpty)
  PROVE  /\ queue' \in Seq(Elements)
         /\ notFull' \in SuspensionObjects(Pushers)
         /\ pc' \in [Tasks -> Controls]
         /\ ret' \in [Tasks -> {"Success", "Too_Full", "Empty", "Error"}]
<1>1. AfterSetTrue(notFull) \in SuspensionObjects(Pushers)
  BY AfterSetTrueType DEF TypeOK
<1>2. Released(notFull) \in [Tasks -> Controls]
  BY ReleasedType DEF TypeOK, Tasks
<1>3. CASE queue # <<>>
  <2>1. queue' \in Seq(Elements)
    <3>1. queue' = Tail(queue)
      BY <1>3 DEF TryPop
    <3> QED
      BY <1>3, <3>1, HeadTailProperties DEF TypeOK
  <2>2. pc' = [Released(notFull) EXCEPT ![t] = "idle"]
    BY <1>3 DEF TryPop
  <2>3. pc' \in [Tasks -> Controls]
    BY <1>2, <2>2 DEF Controls
  <2>4. ret' \in [Tasks -> {"Success", "Too_Full", "Empty", "Error"}]
    BY <1>3 DEF TryPop, TypeOK
  <2> QED
    BY <1>1, <1>3, <2>1, <2>3, <2>4 DEF TryPop
<1>4. CASE queue = <<>>
  BY <1>4 DEF TryPop, TypeOK
<1> QED
  BY <1>3, <1>4

\* The state stays within its types, whatever the tasks do.
THEOREM TypeCorrect == Spec => []TypeOK
<1>1. Init => TypeOK
  BY DEF Init, TypeOK, Tasks, Controls, SuspensionObjects
<1>2. TypeOK /\ [Next]_vars => TypeOK'
  <2> SUFFICES ASSUME TypeOK, [Next]_vars
               PROVE  TypeOK'
    OBVIOUS
  <2>1. ASSUME NEW t \in Tasks, NEW e \in Elements, Push(t, e)
        PROVE  TypeOK'
    BY <2>1, TryPushType DEF Push, Controls, TypeOK
  <2>2. ASSUME NEW t \in Pushers, NEW e \in Elements, PushBlock(t, e)
        PROVE  TypeOK'
    BY <2>2, TryPushType DEF PushBlock, Controls, Tasks, TypeOK
  <2>3. ASSUME NEW t \in Pushers, PusherSuspend(t)
        PROVE  TypeOK'
    BY <2>3 DEF PusherSuspend, SuspensionObjects, Controls, Tasks, TypeOK
  <2>4. ASSUME NEW t \in Pushers, PusherRetry(t)
        PROVE  TypeOK'
    BY <2>4, TryPushType DEF PusherRetry, Controls, Tasks, TypeOK
  <2>5. ASSUME NEW t \in Poppers, Pop(t)
        PROVE  TypeOK'
    BY <2>5, TryPopType DEF Pop, Controls, Tasks, TypeOK
  <2>6. ASSUME NEW t \in Poppers, PopBlock(t)
        PROVE  TypeOK'
    BY <2>6, TryPopType DEF PopBlock, Controls, Tasks, TypeOK
  <2>7. ASSUME NEW t \in Poppers, PeekBlock(t)
        PROVE  TypeOK'
    BY <2>7 DEF PeekBlock, TryPeek, Controls, Tasks, TypeOK
  <2>8. ASSUME NEW t \in Poppers, PopperSuspend(t)
        PROVE  TypeOK'
    BY <2>8 DEF PopperSuspend, SuspensionObjects, Controls, Tasks, TypeOK
  <2>9. ASSUME NEW t \in Poppers, PopperRetry(t)
        PROVE  TypeOK'
    <3>1. CASE op[t] = "Pop"
      BY <2>9, <3>1, TryPopType DEF PopperRetry, Controls, Tasks, TypeOK
    <3>2. CASE op[t] = "Peek"
      BY <2>9, <3>2 DEF PopperRetry, TryPeek, Controls, Tasks, TypeOK
    <3> QED
      BY <3>1, <3>2 DEF TypeOK
  <2>10. ASSUME NEW t \in Clearers, ClearerStep(t)
         PROVE  TypeOK'
    <3>1. CASE Clear(t)
      BY <3>1 DEF Clear, Controls, Tasks, TypeOK
    <3>2. CASE ClearNotEmpty(t)
      BY <3>2 DEF ClearNotEmpty, SuspensionObjects, Controls, Tasks, TypeOK
    <3>3. CASE ClearNotFull(t)
      <4>1. AfterSetTrue(notFull) \in SuspensionObjects(Pushers)
        BY AfterSetTrueType DEF TypeOK
      <4>2. Released(notFull) \in [Tasks -> Controls]
        BY ReleasedType DEF TypeOK, Tasks
      <4>3. pc' \in [Tasks -> Controls]
        BY <3>3, <4>2 DEF ClearNotFull, Controls
      <4> QED
        BY <3>3, <4>1, <4>3 DEF ClearNotFull, TypeOK
    <3> QED
      BY <2>10, <3>1, <3>2, <3>3 DEF ClearerStep
  <2>11. CASE UNCHANGED vars
    BY <2>11 DEF vars, TypeOK
  <2> QED
    BY <2>1, <2>2, <2>3, <2>4, <2>5, <2>6, <2>7, <2>8, <2>9, <2>10, <2>11
    DEF Next, PusherStep, PopperStep
<1> QED
  BY <1>1, <1>2, PTL DEF Spec


-----------------------------------------------------------------------------
\* Where each task is after Set_True (so).
LEMMA ReleasedAt ==
  ASSUME TypeOK, NEW W \in SUBSET Tasks, NEW so \in SuspensionObjects(W),
         NEW u \in Tasks
  PROVE  Released(so)[u] = IF so.waiter = u THEN "retry" ELSE pc[u]
BY TasksAssumption DEF Released, SuspensionObjects, TypeOK, Tasks

\* Where each task is after the protected Push of task t.
LEMMA TryPushControl ==
  ASSUME TypeOK, NEW t \in Tasks, NEW e \in Elements,
         NEW onFull \in Controls, TryPush(t, e, onFull), NEW u \in Tasks
  PROVE  pc'[u] = IF u = t THEN IF Fits(e) THEN "idle" ELSE onFull
                  ELSE IF Fits(e) /\ u = notEmpty.waiter THEN "retry"
                  ELSE pc[u]
<1>1. CASE Fits(e)
  <2>1. pc' = [Released(notEmpty) EXCEPT ![t] = "idle"]
    BY <1>1 DEF TryPush
  <2>2. Released(notEmpty) \in [Tasks -> Controls]
    BY ReleasedType DEF TypeOK, Tasks
  <2>3. Released(notEmpty)[u] = IF notEmpty.waiter = u THEN "retry" ELSE pc[u]
    BY ReleasedAt DEF TypeOK, Tasks
  <2> QED
    BY <1>1, <2>1, <2>2, <2>3
<1>2. CASE ~Fits(e)
  BY <1>2 DEF TryPush, TypeOK
<1> QED
  BY <1>1, <1>2

\* Where each task is after the protected Pop of task t.
LEMMA TryPopControl ==
  ASSUME TypeOK, NEW t \in Tasks, NEW onEmpty \in Controls,
         TryPop(t, onEmpty), NEW u \in Tasks
  PROVE  pc'[u] = IF u = t THEN IF queue # <<>> THEN "idle" ELSE onEmpty
                  ELSE IF queue # <<>> /\ u = notFull.waiter THEN "retry"
                  ELSE pc[u]
<1>1. CASE queue # <<>>
  <2>1. pc' = [Released(notFull) EXCEPT ![t] = "idle"]
    BY <1>1 DEF TryPop
  <2>2. Released(notFull) \in [Tasks -> Controls]
    BY ReleasedType DEF TypeOK, Tasks
  <2>3. Released(notFull)[u] = IF notFull.waiter = u THEN "retry" ELSE pc[u]
    BY ReleasedAt DEF TypeOK, Tasks
  <2> QED
    BY <1>1, <2>1, <2>2, <2>3
<1>2. CASE queue = <<>>
  BY <1>2 DEF TryPop, TypeOK
<1> QED
  BY <1>1, <1>2

\* A suspension object is closed while a task sleeps on it, and knows the task:
\* the waiter a Set_True releases is one that sleeps, and never the caller.
WaitersAreKnown ==
    /\ \A t \in Pushers : pc[t] = "waiting" <=> notFull.waiter = t
    /\ \A t \in Poppers : pc[t] = "waiting" <=> notEmpty.waiter = t
    /\ notFull.waiter # None => ~notFull.open
    /\ notEmpty.waiter # None => ~notEmpty.open

\* Whatever the calls do, the run-time keeps it so.
LEMMA WaitersKnown == Spec => []WaitersAreKnown
<1>1. Init => WaitersAreKnown
  BY TasksAssumption DEF Init, WaitersAreKnown, Tasks
<1>2. TypeOK /\ TypeOK' /\ WaitersAreKnown /\ [Next]_vars => WaitersAreKnown'
  <2> SUFFICES ASSUME TypeOK, TypeOK', WaitersAreKnown, [Next]_vars
               PROVE  WaitersAreKnown'
    OBVIOUS
  <2>1. ASSUME NEW t \in Tasks, NEW e \in Elements, NEW onFull \in Controls,
               TryPush(t, e, onFull), pc[t] # "waiting", onFull # "waiting",
               UNCHANGED notFull
        PROVE  WaitersAreKnown'
    <3>1. \A u \in Tasks :
            pc'[u] = IF u = t THEN IF Fits(e) THEN "idle" ELSE onFull
                     ELSE IF Fits(e) /\ u = notEmpty.waiter THEN "retry"
                     ELSE pc[u]
      BY <2>1, TryPushControl
    <3>2. Fits(e) => notEmpty'.waiter = None
      BY <2>1 DEF TryPush, AfterSetTrue
    <3>3. ~Fits(e) => notEmpty' = notEmpty
      BY <2>1 DEF TryPush
    <3>4. \A u \in Pushers : pc'[u] = "waiting" <=> notFull'.waiter = u
      <4>1. notEmpty.waiter \notin Pushers
        BY TasksAssumption DEF TypeOK, SuspensionObjects
      <4>2. ASSUME NEW u \in Pushers
            PROVE  pc'[u] = "waiting" <=> pc[u] = "waiting"
        BY <2>1, <3>1, <4>1 DEF Tasks
      <4> QED
        BY <2>1, <4>2 DEF WaitersAreKnown
    <3>5. \A u \in Poppers : pc'[u] = "waiting" <=> notEmpty'.waiter = u
      BY <2>1, <3>1, <3>2, <3>3, TasksAssumption
      DEF WaitersAreKnown, TypeOK, SuspensionObjects, Tasks
    <3>6. /\ notFull'.waiter # None => ~notFull'.open
          /\ notEmpty'.waiter # None => ~notEmpty'.open
      BY <2>1, <3>2, <3>3 DEF WaitersAreKnown
    <3> QED
      BY <3>4, <3>5, <3>6 DEF WaitersAreKnown
  <2>2. ASSUME NEW t \in Poppers, NEW onEmpty \in Controls,
               TryPop(t, onEmpty), pc[t] # "waiting", onEmpty # "waiting",
               UNCHANGED notEmpty
        PROVE  WaitersAreKnown'
    <3>1. \A u \in Tasks :
            pc'[u] = IF u = t THEN IF queue # <<>> THEN "idle" ELSE onEmpty
                     ELSE IF queue # <<>> /\ u = notFull.waiter THEN "retry"
                     ELSE pc[u]
      BY <2>2, TryPopControl DEF Tasks
    <3>2. queue # <<>> => notFull'.waiter = None
      BY <2>2 DEF TryPop, AfterSetTrue
    <3>3. queue = <<>> => notFull' = notFull
      BY <2>2 DEF TryPop
    <3>4. \A u \in Pushers : pc'[u] = "waiting" <=> notFull'.waiter = u
      BY <2>2, <3>1, <3>2, <3>3, TasksAssumption
      DEF WaitersAreKnown, TypeOK, SuspensionObjects, Tasks
    <3>5. \A u \in Poppers : pc'[u] = "waiting" <=> notEmpty'.waiter = u
      BY <2>2, <3>1, <3>2, <3>3, TasksAssumption
      DEF WaitersAreKnown, TypeOK, SuspensionObjects, Tasks
    <3>6. /\ notFull'.waiter # None => ~notFull'.open
          /\ notEmpty'.waiter # None => ~notEmpty'.open
      BY <2>2, <3>2, <3>3 DEF WaitersAreKnown
    <3> QED
      BY <3>4, <3>5, <3>6 DEF WaitersAreKnown
  <2>3. ASSUME NEW t \in Poppers, NEW onEmpty \in Controls,
               TryPeek(t, onEmpty), pc[t] # "waiting", onEmpty # "waiting",
               UNCHANGED notEmpty
        PROVE  WaitersAreKnown'
    BY <2>3, TasksAssumption DEF TryPeek, WaitersAreKnown, TypeOK, Tasks
  <2>4. ASSUME NEW t \in Tasks, NEW e \in Elements, Push(t, e)
        PROVE  WaitersAreKnown'
    BY <2>1, <2>4 DEF Push, Controls
  <2>5. ASSUME NEW t \in Pushers, NEW e \in Elements, PushBlock(t, e)
        PROVE  WaitersAreKnown'
    BY <2>1, <2>5 DEF PushBlock, Controls, Tasks
  <2>6. ASSUME NEW t \in Pushers, PusherSuspend(t)
        PROVE  WaitersAreKnown'
    BY <2>6, TasksAssumption
    DEF PusherSuspend, WaitersAreKnown, TypeOK, SuspensionObjects, Tasks
  <2>7. ASSUME NEW t \in Pushers, PusherRetry(t)
        PROVE  WaitersAreKnown'
    BY <2>1, <2>7 DEF PusherRetry, Controls, Tasks, TypeOK
  <2>8. ASSUME NEW t \in Poppers, Pop(t) \/ PopBlock(t)
        PROVE  WaitersAreKnown'
    BY <2>2, <2>8 DEF Pop, PopBlock, Controls
  <2>9. ASSUME NEW t \in Poppers, PeekBlock(t)
        PROVE  WaitersAreKnown'
    BY <2>3, <2>9 DEF PeekBlock, Controls
  <2>10. ASSUME NEW t \in Poppers, PopperSuspend(t)
         PROVE  WaitersAreKnown'
    BY <2>10, TasksAssumption
    DEF PopperSuspend, WaitersAreKnown, TypeOK, SuspensionObjects, Tasks
  <2>11. ASSUME NEW t \in Poppers, PopperRetry(t)
         PROVE  WaitersAreKnown'
    BY <2>2, <2>3, <2>11 DEF PopperRetry, Controls
  <2>12. ASSUME NEW t \in Clearers, Clear(t) \/ ClearNotEmpty(t)
         PROVE  WaitersAreKnown'
    BY <2>12, TasksAssumption
    DEF Clear, ClearNotEmpty, WaitersAreKnown, TypeOK, SuspensionObjects, Tasks
  <2>13. ASSUME NEW t \in Clearers, ClearNotFull(t)
         PROVE  WaitersAreKnown'
    <3>1. Released(notFull) \in [Tasks -> Controls]
      BY ReleasedType DEF TypeOK, Tasks
    <3>2. \A u \in Tasks : pc'[u] = IF u = t THEN "idle"
                                    ELSE IF u = notFull.waiter THEN "retry"
                                    ELSE pc[u]
      BY <2>13, <3>1, ReleasedAt DEF ClearNotFull, TypeOK, Tasks
    <3>3. notFull'.waiter = None /\ UNCHANGED notEmpty
      BY <2>13 DEF ClearNotFull, AfterSetTrue
    <3>4. \A u \in Pushers : pc'[u] = "waiting" <=> notFull'.waiter = u
      BY <2>13, <3>2, <3>3, TasksAssumption
      DEF WaitersAreKnown, TypeOK, SuspensionObjects, Tasks
    <3>5. \A u \in Poppers : pc'[u] = "waiting" <=> notEmpty'.waiter = u
      BY <2>13, <3>2, <3>3, TasksAssumption
      DEF WaitersAreKnown, TypeOK, SuspensionObjects, Tasks
    <3> QED
      BY <3>3, <3>4, <3>5 DEF WaitersAreKnown
  <2>14. CASE UNCHANGED vars
    BY <2>14 DEF vars, WaitersAreKnown
  <2> QED
    BY <2>4, <2>5, <2>6, <2>7, <2>8, <2>9, <2>10, <2>11, <2>12, <2>13, <2>14
    DEF Next, PusherStep, PopperStep, ClearerStep
<1> QED
  BY <1>1, <1>2, TypeCorrect, PTL DEF Spec


-----------------------------------------------------------------------------
\* What makes NoLostWakeup inductive when one task takes from the queue: a
\* taker that found the queue empty and has not yet gone to sleep will find
\* Not_Empty open if anything was queued since.
FailedTakerWakes ==
    \A t \in Poppers : pc[t] = "failed" /\ ~notEmpty.open => queue = <<>>

\* With one popper and no Clear, no push is slept through.
THEOREM NoPushIsSleptThrough ==
  ASSUME NEW c, Poppers = {c}, Clearers = {}
  PROVE  Spec => []NoLostWakeup
<1> DEFINE Inv == NoLostWakeup /\ FailedTakerWakes
<1>1. Init => Inv
  BY DEF Init, NoLostWakeup, FailedTakerWakes, Tasks
<1>2. TypeOK /\ WaitersAreKnown /\ Inv /\ [Next]_vars => Inv'
  <2> SUFFICES ASSUME TypeOK, WaitersAreKnown, Inv, [Next]_vars
               PROVE  Inv'
    OBVIOUS
  <2>1. ASSUME NEW t \in Tasks, NEW e \in Elements, NEW onFull \in Controls,
               TryPush(t, e, onFull), t \in Poppers => onFull # "failed"
        PROVE  Inv'
    <3>1. pc'[c] = IF c = t THEN IF Fits(e) THEN "idle" ELSE onFull
                   ELSE IF Fits(e) /\ c = notEmpty.waiter THEN "retry"
                   ELSE pc[c]
      BY <2>1, TryPushControl DEF Tasks
    <3>2. CASE Fits(e)
      <4>1. notEmpty'.waiter = None /\ notEmpty'.open = (notEmpty.waiter = None)
        BY <2>1, <3>2 DEF TryPush, AfterSetTrue
      <4>2. notEmpty.waiter = c \/ notEmpty.waiter = None
        BY DEF TypeOK, SuspensionObjects
      <4>3. pc'[c] = "failed" => notEmpty'.open
        BY <2>1, <3>1, <3>2, <4>1, <4>2
      <4> QED
        BY <4>1, <4>3 DEF NoLostWakeup, FailedTakerWakes
    <3>3. CASE ~Fits(e)
      BY <2>1, <3>1, <3>3 DEF TryPush, NoLostWakeup, FailedTakerWakes
    <3> QED
      BY <3>2, <3>3
  <2>2. ASSUME NEW t \in Poppers, NEW onEmpty \in Controls,
               TryPop(t, onEmpty), pc[t] # "waiting", UNCHANGED notEmpty
        PROVE  Inv'
    <3>1. pc'[c] = IF queue # <<>> THEN "idle" ELSE onEmpty
      BY <2>2, TryPopControl DEF Tasks
    <3>2. notEmpty'.waiter = None
      BY <2>2 DEF WaitersAreKnown, TypeOK, SuspensionObjects
    <3> QED
      BY <2>2, <3>1, <3>2 DEF TryPop, NoLostWakeup, FailedTakerWakes
  <2>3. ASSUME NEW t \in Poppers, NEW onEmpty \in Controls,
               TryPeek(t, onEmpty), pc[t] # "waiting", UNCHANGED notEmpty
        PROVE  Inv'
    BY <2>3 DEF TryPeek, NoLostWakeup, FailedTakerWakes, TypeOK, Tasks
  <2>4. ASSUME NEW t \in Tasks, NEW e \in Elements, Push(t, e)
        PROVE  Inv'
    BY <2>1, <2>4 DEF Push, Controls
  <2>5. ASSUME NEW t \in Pushers, NEW e \in Elements,
               PushBlock(t, e) \/ PusherRetry(t)
        PROVE  Inv'
    <3>1. t \in Tasks /\ t \notin Poppers /\ elem[t] \in Elements
      BY TasksAssumption DEF Tasks, TypeOK
    <3> QED
      BY <2>1, <2>5, <3>1 DEF PushBlock, PusherRetry, Controls
  <2>6. ASSUME NEW t \in Pushers, PusherSuspend(t)
        PROVE  Inv'
    <3>1. pc'[c] = pc[c]
      BY <2>6, TasksAssumption DEF PusherSuspend, TypeOK, Tasks
    <3> QED
      BY <2>6, <3>1 DEF PusherSuspend, NoLostWakeup, FailedTakerWakes
  <2>7. ASSUME NEW t \in Poppers, Pop(t) \/ PopBlock(t)
        PROVE  Inv'
    BY <2>2, <2>7 DEF Pop, PopBlock, Controls
  <2>8. ASSUME NEW t \in Poppers, PeekBlock(t)
        PROVE  Inv'
    BY <2>3, <2>8 DEF PeekBlock, Controls
  <2>9. ASSUME NEW t \in Poppers, PopperSuspend(t)
        PROVE  Inv'
    <3>1. pc'[c] # "failed"
      BY <2>9 DEF PopperSuspend, TypeOK, Tasks
    <3>2. notEmpty'.waiter # None => notEmpty.waiter # None \/ queue = <<>>
      BY <2>9 DEF PopperSuspend, FailedTakerWakes, TypeOK, SuspensionObjects
    <3> QED
      BY <2>9, <3>1, <3>2 DEF PopperSuspend, NoLostWakeup, FailedTakerWakes
  <2>10. ASSUME NEW t \in Poppers, PopperRetry(t)
         PROVE  Inv'
    BY <2>2, <2>3, <2>10 DEF PopperRetry, Controls
  <2>11. CASE UNCHANGED vars
    BY <2>11 DEF vars, NoLostWakeup, FailedTakerWakes
  <2>12. ASSUME NEW t \in Poppers, PopperStep(t)
         PROVE  Inv'
    BY <2>7, <2>8, <2>9, <2>10, <2>12 DEF PopperStep
  <2>13. ASSUME NEW t \in Pushers, PusherStep(t)
         PROVE  Inv'
    <3>1. elem[t] \in Elements
      BY DEF TypeOK
    <3> QED
      BY <2>5, <2>6, <2>13, <3>1 DEF PusherStep
  <2>14. ~\E t \in Clearers : ClearerStep(t)
    OBVIOUS
  <2> QED
    BY <2>4, <2>11, <2>12, <2>13, <2>14 DEF Next
<1> QED
  BY <1>1, <1>2, TypeCorrect, WaitersKnown, PTL DEF Spec


\* No pusher is left asleep on a queue nobody will make room in, whatever the
\* number of tasks and whoever clears the queue, as long as every element fits
\* the empty buffer.
THEOREM NoPusherIsStranded ==
  ASSUME \A e \in Elements : Size(e) <= Capacity
  PROVE  Spec => []NoStrandedPusher
<1>1. Init => NoStrandedPusher
  BY DEF Init, NoStrandedPusher, Tasks
<1>2. TypeOK /\ WaitersAreKnown /\ NoStrandedPusher /\ [Next]_vars
        => NoStrandedPusher'
  <2> SUFFICES ASSUME TypeOK, WaitersAreKnown, NoStrandedPusher, [Next]_vars
               PROVE  NoStrandedPusher'
    OBVIOUS
  <2>1. ASSUME NEW t \in Tasks, NEW e \in Elements, NEW onFull \in Controls,
               TryPush(t, e, onFull)
        PROVE  queue' # <<>>
    <3>1. CASE Fits(e)
      BY <2>1, <3>1 DEF TryPush, TypeOK
    <3>2. CASE ~Fits(e)
      <4>1. Size(e) \in Int /\ Capacity \in Int /\ Size(e) <= Capacity
        BY SizesAssumption DEF Size
      <4>2. queue # <<>>
        BY <3>2, <4>1 DEF Fits, NumBytesUsed
      <4> QED
        BY <2>1, <3>2, <4>2 DEF TryPush
    <3> QED
      BY <3>1, <3>2
  <2>2. ASSUME NEW t \in Poppers, NEW onEmpty \in Controls,
               TryPop(t, onEmpty)
        PROVE  NoStrandedPusher'
    <3>1. \A u \in Pushers :
            pc'[u] = IF queue # <<>> /\ u = notFull.waiter THEN "retry"
                     ELSE pc[u]
      BY <2>2, TryPopControl, TasksAssumption DEF Tasks
    <3>2. CASE queue # <<>>
      <4>1. notFull'.open = (notFull.waiter = None)
        BY <2>2, <3>2 DEF TryPop, AfterSetTrue
      <4>2. notFull.waiter \in Pushers \/ notFull.waiter = None
        BY DEF TypeOK, SuspensionObjects
      <4> QED
        BY <3>1, <3>2, <4>1, <4>2 DEF NoStrandedPusher
    <3>3. CASE queue = <<>>
      <4>1. UNCHANGED <<queue, notFull>>
        BY <2>2, <3>3 DEF TryPop
      <4>2. \A u \in Clearers : pc'[u] = pc[u]
        BY <2>2, <3>3, TryPopControl, TasksAssumption DEF Tasks
      <4> QED
        BY <3>1, <3>3, <4>1, <4>2 DEF NoStrandedPusher
    <3> QED
      BY <3>2, <3>3
  <2>3. ASSUME NEW t \in Poppers, NEW onEmpty \in Controls,
               TryPeek(t, onEmpty)
        PROVE  NoStrandedPusher'
    <3>1. \A u \in Pushers \cup Clearers : pc'[u] = pc[u]
      BY <2>3, TasksAssumption DEF TryPeek, TypeOK, Tasks
    <3>2. UNCHANGED <<queue, notFull>>
      BY <2>3 DEF TryPeek
    <3> QED
      BY <3>1, <3>2 DEF NoStrandedPusher
  <2>4. ASSUME NEW t \in Tasks, NEW e \in Elements, Push(t, e)
        PROVE  NoStrandedPusher'
    BY <2>1, <2>4 DEF Push, Controls, NoStrandedPusher
  <2>5. ASSUME NEW t \in Pushers, PusherStep(t)
        PROVE  NoStrandedPusher'
    <3>1. ASSUME NEW e \in Elements, PushBlock(t, e)
          PROVE  NoStrandedPusher'
      BY <2>1, <3>1 DEF PushBlock, Controls, NoStrandedPusher, Tasks
    <3>2. CASE PusherSuspend(t)
      <4>1. \A u \in Tasks : u # t => pc'[u] = pc[u]
        BY <3>2 DEF PusherSuspend, TypeOK
      <4>2. t \in Tasks /\ pc[t] = "failed" /\ UNCHANGED queue
        BY <3>2 DEF PusherSuspend, Tasks
      <4>3. t \notin Clearers
        BY TasksAssumption
      <4>4. CASE pc'[t] = "retry"
        BY <4>4 DEF NoStrandedPusher
      <4>5. CASE pc'[t] # "retry"
        <5>1. notFull'.open = notFull.open
          BY <3>2, <4>2, <4>5 DEF PusherSuspend, TypeOK, SuspensionObjects
        <5>2. \/ notFull.open
              \/ queue # <<>>
              \/ \E u \in Pushers : pc[u] = "retry"
              \/ \E u \in Clearers : pc[u] \in {"cleared", "closed"}
          BY <4>2 DEF NoStrandedPusher
        <5> QED
          BY <4>1, <4>2, <4>3, <5>1, <5>2 DEF NoStrandedPusher, Tasks
      <4> QED
        BY <4>4, <4>5
    <3>3. CASE PusherRetry(t)
      <4>1. elem[t] \in Elements
        BY DEF TypeOK
      <4> QED
        BY <2>1, <3>3, <4>1 DEF PusherRetry, Controls, NoStrandedPusher, Tasks
    <3> QED
      BY <2>5, <3>1, <3>2, <3>3 DEF PusherStep
  <2>6. ASSUME NEW t \in Poppers, PopperStep(t)
        PROVE  NoStrandedPusher'
    <3>1. CASE PopperSuspend(t)
      <4>1. \A u \in Pushers \cup Clearers : pc'[u] = pc[u]
        BY <3>1, TasksAssumption DEF PopperSuspend, TypeOK, Tasks
      <4>2. UNCHANGED <<queue, notFull>>
        BY <3>1 DEF PopperSuspend
      <4> QED
        BY <4>1, <4>2 DEF NoStrandedPusher
    <3> QED
      BY <2>2, <2>3, <2>6, <3>1
      DEF PopperStep, Pop, PopBlock, PeekBlock, PopperRetry, Controls
  <2>7. ASSUME NEW t \in Clearers, ClearerStep(t)
        PROVE  NoStrandedPusher'
    <3>1. CASE Clear(t) \/ ClearNotEmpty(t)
      <4>1. pc'[t] \in {"cleared", "closed"}
        BY <3>1 DEF Clear, ClearNotEmpty, TypeOK, Tasks
      <4> QED
        BY <4>1 DEF NoStrandedPusher
    <3>2. CASE ClearNotFull(t)
      <4>1. Released(notFull) \in [Tasks -> Controls]
        BY ReleasedType DEF TypeOK, Tasks
      <4>2. ASSUME notFull.waiter \in Pushers
            PROVE  pc'[notFull.waiter] = "retry"
        BY <3>2, <4>1, <4>2, ReleasedAt, TasksAssumption
        DEF ClearNotFull, TypeOK, Tasks
      <4>3. notFull'.open = (notFull.waiter = None)
        BY <3>2 DEF ClearNotFull, AfterSetTrue
      <4> QED
        BY <4>2, <4>3 DEF NoStrandedPusher, TypeOK, SuspensionObjects
    <3> QED
      BY <2>7, <3>1, <3>2 DEF ClearerStep
  <2>8. CASE UNCHANGED vars
    BY <2>8 DEF vars, NoStrandedPusher
  <2> QED
    BY <2>4, <2>5, <2>6, <2>7, <2>8 DEF Next
<1> QED
  BY <1>1, <1>2, TypeCorrect, WaitersKnown, PTL DEF Spec


\* A task that is alone in blocking on its side of the queue never gets Error:
\* the waiter that makes Suspend_Until_True fail would have to be itself.
THEOREM SoleTaskSucceeds == Spec => []SoleTaskNeverFails
<1>1. Init => SoleTaskNeverFails
  BY DEF Init, SoleTaskNeverFails, Tasks
<1>2. TypeOK /\ WaitersAreKnown /\ SoleTaskNeverFails /\ [Next]_vars
        => SoleTaskNeverFails'
  <2> SUFFICES ASSUME TypeOK, WaitersAreKnown, SoleTaskNeverFails, [Next]_vars
               PROVE  SoleTaskNeverFails'
    OBVIOUS
  <2>1. ASSUME \A u \in Pushers \cup Poppers :
                  ret'[u] = ret[u] \/ ret'[u] # "Error"
        PROVE  SoleTaskNeverFails'
    BY <2>1 DEF SoleTaskNeverFails
  <2>2. ASSUME NEW t \in Pushers, PusherSuspend(t)
        PROVE  SoleTaskNeverFails'
    <3>1. CASE ret' = ret
      BY <3>1 DEF SoleTaskNeverFails
    <3>2. CASE ret' # ret
      <4>1. notFull.waiter # None /\ ret' = [ret EXCEPT ![t] = "Error"]
        BY <2>2, <3>2 DEF PusherSuspend
      <4>2. notFull.waiter \in Pushers /\ notFull.waiter # t
        BY <2>2, <4>1
        DEF PusherSuspend, WaitersAreKnown, TypeOK, SuspensionObjects
      <4>3. \A u \in Poppers : ret'[u] = ret[u]
        BY <4>1, TasksAssumption DEF TypeOK, Tasks
      <4> QED
        BY <4>2, <4>3 DEF SoleTaskNeverFails
    <3> QED
      BY <3>1, <3>2
  <2>3. ASSUME NEW t \in Poppers, PopperSuspend(t)
        PROVE  SoleTaskNeverFails'
    <3>1. CASE ret' = ret
      BY <3>1 DEF SoleTaskNeverFails
    <3>2. CASE ret' # ret
      <4>1. notEmpty.waiter # None /\ ret' = [ret EXCEPT ![t] = "Error"]
        BY <2>3, <3>2 DEF PopperSuspend
      <4>2. notEmpty.waiter \in Poppers /\ notEmpty.waiter # t
        BY <2>3, <4>1
        DEF PopperSuspend, WaitersAreKnown, TypeOK, SuspensionObjects
      <4>3. \A u \in Pushers : ret'[u] = ret[u]
        BY <4>1, TasksAssumption DEF TypeOK, Tasks
      <4> QED
        BY <4>2, <4>3 DEF SoleTaskNeverFails
    <3> QED
      BY <3>1, <3>2
  <2>4. ASSUME NEW t \in Tasks, NEW e \in Elements, NEW c \in Controls,
               TryPush(t, e, c)
        PROVE  SoleTaskNeverFails'
    <3>1. PICK status \in {"Success", "Too_Full"} :
             ret' = [ret EXCEPT ![t] = status]
      BY <2>4 DEF TryPush
    <3> QED
      BY <2>1, <3>1 DEF TypeOK, Tasks
  <2>5. ASSUME NEW t \in Poppers, NEW c \in Controls,
               TryPop(t, c) \/ TryPeek(t, c)
        PROVE  SoleTaskNeverFails'
    <3>1. PICK status \in {"Success", "Empty"} :
             ret' = [ret EXCEPT ![t] = status]
      BY <2>5 DEF TryPop, TryPeek
    <3> QED
      BY <2>1, <3>1 DEF TypeOK, Tasks
  <2>6. ASSUME NEW t \in Tasks, NEW e \in Elements, Push(t, e)
        PROVE  SoleTaskNeverFails'
    BY <2>4, <2>6 DEF Push, Controls
  <2>7. ASSUME NEW t \in Pushers, PusherStep(t)
        PROVE  SoleTaskNeverFails'
    <3>1. t \in Tasks /\ elem[t] \in Elements
      BY DEF TypeOK, Tasks
    <3> QED
      BY <2>2, <2>4, <2>7, <3>1 DEF PusherStep, PushBlock, PusherRetry, Controls
  <2>8. ASSUME NEW t \in Poppers, PopperStep(t)
        PROVE  SoleTaskNeverFails'
    BY <2>3, <2>5, <2>8
    DEF PopperStep, Pop, PopBlock, PeekBlock, PopperRetry, Controls
  <2>9. ASSUME NEW t \in Clearers, ClearerStep(t)
        PROVE  SoleTaskNeverFails'
    BY <2>1, <2>9 DEF ClearerStep, Clear, ClearNotEmpty, ClearNotFull
  <2>10. CASE UNCHANGED vars
    BY <2>1, <2>10 DEF vars
  <2> QED
    BY <2>6, <2>7, <2>8, <2>9, <2>10 DEF Next
<1> QED
  BY <1>1, <1>2, TypeCorrect, WaitersKnown, PTL DEF Spec

=============================================================================
