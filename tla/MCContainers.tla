---------------------------- MODULE MCContainers ----------------------------
(***************************************************************************)
(* The three containers that share no state, one at a time: a ring of      *)
(* bytes under every byte string that fits it and one that is a byte too   *)
(* long; a heap with two priorities, one of which two elements share; and  *)
(* a queue of elements with data of up to two bytes behind a header of     *)
(* three, in a ring that its elements divide in no regular way.  The bytes *)
(* differ, so that a copy from the wrong place shows.                      *)
(***************************************************************************)
EXTENDS CircularBuffer, TLC

CONSTANTS
    low, high1, high2,      \* the elements on the heap
    Nothing,                \* the place of the heap that holds none
    x, y,                   \* the bytes
    label,
    QueueSize

VARIABLES
    runs,                                           \* the container that is used
    tree, count, order, pc, item, index, iter,      \* Heap
    heapOut, arrived, rolled,
    queue, items, queueOut                          \* CircularQueue

heaped == <<tree, count, order, pc, item, index, iter, heapOut, arrived, rolled>>
queued == <<queue, items, queueOut>>
containers == <<runs, vars, heaped, queued>>

MCInputs ==
    (UNION {[1 .. n -> Byte] : n \in 0 .. Size}) \cup {[i \in 1 .. Size + 1 |-> x]}

Alike == Permutations({high1, high2})

ASSUME BufferAssumption

Heap == INSTANCE Heap WITH
    Depth <- 4,
    Elements <- {low, high1, high2},
    Priority <- low :> 1 @@ high1 :> 2 @@ high2 :> 2,
    OrderSize <- 5,
    out <- heapOut

ASSUME Heap!HeapAssumption

Queue == INSTANCE CircularQueue WITH
    Size <- QueueSize,
    Byte <- {x, y} \cup {<<"length", n, i>> : n \in 0 .. QueueSize, i \in 1 .. 2}
                   \cup {<<"label", label, 1>>},
    LengthBytes <- 2,
    LabelBytes <- 1,
    Labels <- {label},
    Data <- {x, y},
    Inputs <- {<<>>, <<y>>, <<x, y>>},
    MaxRequest <- 2,
    buf <- queue,
    itemCount <- items,
    out <- queueOut

ASSUME Queue!QueueAssumption

\* What is not used stays over an array of one byte.
ContainersInit ==
    /\ runs \in {"heap", "buffer", "queue"}
    /\ Heap!Init
    /\ Init /\ (runs # "buffer" => \A i \in DOMAIN buf.bytes : buf.bytes[i] = x)
    /\ Queue!Init /\ (runs # "queue" => \A i \in DOMAIN queue.bytes : queue.bytes[i] = x)

ContainersNext ==
    /\ UNCHANGED runs
    /\ \/ runs = "heap" /\ Heap!Next /\ UNCHANGED <<vars, queued>>
       \/ runs = "buffer" /\ Next /\ UNCHANGED <<heaped, queued>>
       \/ runs = "queue" /\ Queue!Next /\ UNCHANGED <<heaped, vars>>

ContainersSpec == ContainersInit /\ [][ContainersNext]_containers

-----------------------------------------------------------------------------
(* Properties; ImplementsByteFifo is the ring's own.                       *)

\* Push, Pop and Peek of the heap, loops and all, behave as a queue that
\* answers by priority and, while Order has not rolled over, by age.
ImplementsPriorityFifo == Heap!ImplementsPriorityFifo

\* The elements of a queue come out whole and in order, and no assertion of
\* the code fails on the way.
ImplementsElementFifo == Queue!ImplementsElementFifo

=============================================================================
