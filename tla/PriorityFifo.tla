----------------------------- MODULE PriorityFifo ---------------------------
(***************************************************************************)
(* What a stable priority queue promises: a value of the highest priority  *)
(* comes out first, and among equals the one that has waited longest.  The *)
(* second half holds for as long as the queue is drained at least once     *)
(* every Rollover pushes; heap.adb calls it temporarily unstable otherwise,*)
(* and the first half holds even then.                                     *)
(***************************************************************************)
EXTENDS Naturals, Sequences, SequencesExt

CONSTANTS
    Depth,              \* how many values fit
    Values,             \* what is pushed
    PriorityOf(_),      \* the priority of a value
    TooLarge(_),        \* a value is refused for its size
    Rooms,              \* what a Pop offers to receive a value in
    TooSmall(_, _),     \* a value does not fit what a Pop offers
    Seen(_),            \* what a Peek tells of a value
    Rollover,           \* the pushes since it was empty that keep it stable
    Nothing

VARIABLES
    queue,      \* the queued values as they came
    pushes,     \* how many came since it was empty, up to Rollover + 1
    out         \* the last call and its answer

vars == <<queue, pushes, out>>

Result(call, argument, status, value) == <<call, argument, status, value>>

Init ==
    /\ queue = <<>>
    /\ pushes = 0
    /\ out = Result("Init", Nothing, "Success", Nothing)

Answer(call, argument, status, value) ==
    /\ out' = Result(call, argument, status, value)
    /\ UNCHANGED <<queue, pushes>>

Push(value) ==
    \/ Len(queue) = Depth /\ Answer("Push", value, "Full", Nothing)
    \/ /\ Len(queue) < Depth
       /\ TooLarge(value)
       /\ Answer("Push", value, "Too_Large", Nothing)
    \/ /\ Len(queue) < Depth
       /\ ~TooLarge(value)
       /\ queue' = Append(queue, value)
       /\ pushes' = IF pushes > Rollover THEN pushes ELSE pushes + 1
       /\ out' = Result("Push", value, "Success", Nothing)

\* No value has a higher priority than the i-th.
IsHighest(i) ==
    \A j \in DOMAIN queue : PriorityOf(queue[j]) <= PriorityOf(queue[i])

\* None of its priority came before it.
IsOldest(i) ==
    \A j \in 1 .. i - 1 : PriorityOf(queue[j]) # PriorityOf(queue[i])

\* The values that may be next to come out.
Candidates == {i \in DOMAIN queue : IsHighest(i) /\ (pushes <= Rollover => IsOldest(i))}

Pop(room) ==
    \/ queue = <<>> /\ Answer("Pop", room, "Empty", Nothing)
    \/ \E i \in Candidates :
        /\ TooSmall(queue[i], room)
        /\ Answer("Pop", room, "Too_Small", Nothing)
    \/ \E i \in Candidates :
        /\ ~TooSmall(queue[i], room)
        /\ queue' = RemoveAt(queue, i)
        /\ pushes' = IF Len(queue) = 1 THEN 0 ELSE pushes
        /\ out' = Result("Pop", room, "Success", queue[i])

Peek ==
    \/ queue = <<>> /\ Answer("Peek", Nothing, "Empty", Nothing)
    \/ \E i \in Candidates : Answer("Peek", Nothing, "Success", Seen(queue[i]))

Clear ==
    /\ queue' = <<>>
    /\ pushes' = 0
    /\ out' = Result("Clear", Nothing, "Success", Nothing)

Next ==
    \/ \E value \in Values : Push(value)
    \/ \E room \in Rooms : Pop(room)
    \/ Peek
    \/ Clear

Spec == Init /\ [][Next]_vars

=============================================================================
