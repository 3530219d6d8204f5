---------------------------- MODULE PriorityQueue ---------------------------
(***************************************************************************)
(* The priority queue: bytes wait in slots of a fixed size, and a heap of  *)
(* the slots in use tells which comes out next.  The slots not in use are  *)
(* in Index_Pool, a ring of which Index_Pool_Start is the next to give and *)
(* Index_Pool_Stop the next to take back.                                  *)
(***************************************************************************)
EXTENDS Naturals, Sequences, SequencesExt

CONSTANTS
    Depth,              \* how many elements fit
    ElementSize,        \* the bytes of a slot
    Priorities,         \* the priorities given
    Inputs,             \* the byte arrays pushed
    Rooms,              \* the lengths of the arrays popped into
    OrderSize,          \* of the heap
    ClearsQueued,       \* Clear is called with elements on the queue
    Nothing

ASSUME PriorityQueueAssumption ==
    /\ Depth \in Nat \ {0}
    /\ ElementSize \in Nat \ {0}
    /\ Priorities \subseteq Nat
    /\ \A data \in Inputs : data \in Seq(ToSet(data))
    /\ Rooms \subseteq Nat
    /\ OrderSize \in Nat \ {0}
    /\ ClearsQueued \in BOOLEAN

VARIABLES
    tree, count, order, pc, item, index, iter, arrived, rolled,   \* Priority_Heap
    queue,              \* Queue: the bytes written to every slot
    pool,               \* Index_Pool
    start, stop,        \* Index_Pool_Start, Index_Pool_Stop
    bytes,              \* the bytes of the Push, or the room of the Pop, at work
    out                 \* the last call and its answer

heapVars == <<tree, count, order, pc, item, index, iter, arrived, rolled>>
vars == <<heapVars, queue, pool, start, stop, bytes, out>>

Slots == 0 .. Depth - 1

\* What the heap stores; it compares the priorities alone.
Items == [priority : Priorities, slot : Slots, length : 0 .. ElementSize]

Heap == INSTANCE Heap WITH
    Elements <- Items,
    Priority <- [i \in Items |-> i.priority]

Result(call, argument, status, value) == <<call, argument, status, value>>

Init ==
    /\ Heap!Init
    /\ queue = [s \in Slots |-> <<>>]
    /\ pool = [i \in Slots |-> i]
    /\ start = 0 /\ stop = 0
    /\ bytes = Nothing

Answer(call, argument, status, value) ==
    /\ out' = Result(call, argument, status, value)
    /\ UNCHANGED <<heapVars, queue, pool, start, stop, bytes>>

\* Faulty: the ring has one index less.
AfterShort(i) == IF i + 1 < Depth - 1 THEN i + 1 ELSE 0

\* The index after i in the ring.
After(i) == IF i < Depth - 1 THEN i + 1 ELSE 0

\* Check_Indexes, asserted before a slot is taken or given back: the slots not
\* in the pool are as many as the elements.
CheckIndexes ==
    IF start > stop THEN start - stop = count
    ELSE IF start < stop THEN Depth - stop + start = count
    ELSE count = 0 \/ count = Depth

-----------------------------------------------------------------------------
PushRefused(priority, data) ==
    /\ pc = "idle"
    /\ \/ /\ count = Depth
          /\ Answer("Push", <<priority, data>>, "Full", Nothing)
       \/ /\ count # Depth
          /\ Len(data) > ElementSize
          /\ Answer("Push", <<priority, data>>, "Too_Large", Nothing)

\* A slot is taken, and goes onto the heap with the priority and the length.
PushBegin(priority, data) ==
    /\ count # Depth
    /\ Len(data) <= ElementSize
    /\ Heap!PushBegin([priority |-> priority, slot |-> pool[start], length |-> Len(data)])
    /\ start' = After(start)
    /\ bytes' = data
    /\ UNCHANGED <<queue, pool, stop>>

PushSift == Heap!SiftUp /\ UNCHANGED <<queue, pool, start, stop, bytes>>

PushEnd ==
    /\ Heap!Place
    /\ queue' = [queue EXCEPT ![item.slot] = bytes]
    /\ bytes' = Nothing
    /\ out' = Result("Push", <<item.priority, bytes>>, "Success", Nothing)
    /\ UNCHANGED <<pool, start, stop>>

-----------------------------------------------------------------------------
Peek ==
    /\ pc = "idle"
    /\ IF count = 0 THEN Answer("Peek", Nothing, "Empty", Nothing)
       ELSE LET first == tree[0].element IN
            Answer("Peek", Nothing, "Success", <<first.priority, first.length>>)

\* An element that does not fit the array of the caller stays on the queue.
PopRefused(room) ==
    /\ pc = "idle"
    /\ \/ /\ count = 0
          /\ Answer("Pop", room, "Empty", Nothing)
       \/ /\ count # 0
          /\ room < tree[0].element.length
          /\ Answer("Pop", room, "Too_Small", Nothing)

\* The bytes of an element, as Pop copies them.
BytesOf(i) == <<i.priority, SubSeq(queue[i.slot], 1, i.length)>>

\* Return_Index_To_Pool, before the element leaves the heap.
ReturnSlot ==
    /\ pool' = [pool EXCEPT ![stop] = tree[0].element.slot]
    /\ stop' = After(stop)
    /\ UNCHANGED start

\* The bytes leave their slot: what remains of them is not read again.
CopyOut(i, room) ==
    /\ out' = Result("Pop", room, "Success", BytesOf(i))
    /\ queue' = [queue EXCEPT ![i.slot] = <<>>]

PopLast(room) ==
    /\ Heap!TakeOnly
    /\ room >= tree[0].element.length
    /\ ReturnSlot
    /\ CopyOut(tree[0].element, room)
    /\ UNCHANGED bytes

\* Faulty: no look at the room there is.
PopBeginUnchecked(room) ==
    /\ Heap!PopBegin
    /\ ReturnSlot
    /\ bytes' = room
    /\ UNCHANGED queue

PopBegin(room) ==
    /\ Heap!PopBegin
    /\ room >= tree[0].element.length
    /\ ReturnSlot
    /\ bytes' = room
    /\ UNCHANGED queue

PopSift == Heap!SiftDown /\ UNCHANGED <<queue, pool, start, stop, bytes>>

PopEnd ==
    /\ Heap!TakeOut
    /\ CopyOut(item, bytes)
    /\ bytes' = Nothing
    /\ UNCHANGED <<pool, start, stop>>

-----------------------------------------------------------------------------
\* Clear resets the pool's ends and not the indexes in it.
Clear ==
    /\ ClearsQueued \/ count = 0
    /\ Heap!Empty
    /\ start' = 0 /\ stop' = 0
    /\ out' = Result("Clear", Nothing, "Success", Nothing)
    /\ UNCHANGED <<queue, pool, bytes>>

\* Destroy and Init.
Reinit ==
    /\ Heap!Empty
    /\ start' = 0 /\ stop' = 0
    /\ pool' = [i \in Slots |-> i]
    /\ queue' = [s \in Slots |-> <<>>]
    /\ out' = Result("Clear", Nothing, "Success", Nothing)
    /\ UNCHANGED bytes

Next ==
    \/ \E priority \in Priorities, data \in Inputs :
          PushRefused(priority, data) \/ PushBegin(priority, data)
    \/ PushSift \/ PushEnd
    \/ Peek
    \/ \E room \in Rooms : PopRefused(room) \/ PopLast(room) \/ PopBegin(room)
    \/ PopSift \/ PopEnd
    \/ Clear
    \/ Reinit

Spec == Init /\ [][Next]_vars

-----------------------------------------------------------------------------
(* Properties.                                                             *)

TypeOK ==
    /\ Heap!TypeOK
    /\ pool \in [Slots -> Slots]
    /\ start \in Slots /\ stop \in Slots
    /\ \A s \in Slots : Len(queue[s]) <= ElementSize

\* The assertions of Check_Indexes: whenever a call begins, the two ends of the
\* pool tell how many elements there are.
IndexesMatch == pc = "idle" => CheckIndexes

\* "We need a unique index for every slot in the queue": no two elements on the
\* queue have their bytes in one slot.
SlotsAreUnique ==
    pc = "idle" => \A i, j \in 0 .. count - 1 :
        i # j => tree[i].element.slot # tree[j].element.slot

Fifo == INSTANCE PriorityFifo WITH
    Values <- Priorities \X Inputs,
    PriorityOf <- LAMBDA v : v[1],
    TooLarge <- LAMBDA v : Len(v[2]) > ElementSize,
    TooSmall <- LAMBDA v, room : Len(v[2]) > room,
    Seen <- LAMBDA v : <<v[1], Len(v[2])>>,
    Rollover <- OrderSize,
    queue <- [i \in DOMAIN arrived |-> BytesOf(arrived[i])],
    pushes <- IF rolled THEN OrderSize + 1
              ELSE IF count > 0 /\ order = 0 THEN OrderSize ELSE order

\* Whatever is pushed comes out whole, by priority and then by age, and stays
\* where it is when the caller has no room for it.
ImplementsPriorityFifo == Fifo!Spec

=============================================================================
