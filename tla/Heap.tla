-------------------------------- MODULE Heap --------------------------------
(***************************************************************************)
(* The stable binary heap under the priority queues.  It is used by one    *)
(* task at a time; a call of Push or Pop is a loop over the tree, and each *)
(* turn of the loop is one step here, so that what holds between the turns *)
(* can be stated and proved for a heap of any depth.  The high water mark  *)
(* is left out.                                                            *)
(***************************************************************************)
EXTENDS Naturals, Sequences, SequencesExt

CONSTANTS
    Depth,          \* Maximum_Size
    Elements,       \* what can be stored
    Priority,       \* the priority that ">" and "=" of the elements compare
    OrderSize,      \* the number of values of Order, 2^32 in the code
    Nothing         \* the node of a place that is not in use

HeapAssumption ==
    /\ Depth \in Nat \ {0}
    /\ Priority \in [Elements -> Nat]
    /\ OrderSize \in Nat \ {0}

VARIABLES
    tree,           \* Tree, where places at or above Count are never read
    count,          \* Count
    order,          \* Order
    pc,             \* idle, or the loop of Push or of Pop
    item,           \* the element Push stores or Pop returns
    index, iter,    \* Index and Iter of the loop
    out,            \* the last call and its answer
    arrived,        \* history: the elements on the heap as they came
    rolled          \* history: Order has rolled over since it was empty

heap == <<tree, count, order>>
loop == <<pc, item, index, iter>>
history == <<arrived, rolled>>
heapVars == <<heap, loop, out, history>>

Result(call, argument, status, value) == <<call, argument, status, value>>

Indexes == 0 .. Depth - 1
Node == [order : 0 .. OrderSize - 1, element : Elements]

EmptyTree == [i \in Indexes |-> Nothing]

Init ==
    /\ tree = EmptyTree
    /\ count = 0 /\ order = 0
    /\ pc = "idle" /\ item = Nothing /\ index = 0 /\ iter = 0
    /\ out = Result("Init", Nothing, "Success", Nothing)
    /\ arrived = <<>> /\ rolled = FALSE

Parent(i) == (i - 1) \div 2
Left(i) == i * 2 + 1
Right(i) == i * 2 + 2

PriorityAt(i) == Priority[tree[i].element]

-----------------------------------------------------------------------------
(* Push sifts a hole up from the end of the heap.                          *)

PushFull(e) ==
    /\ pc = "idle"
    /\ count >= Depth
    /\ out' = Result("Push", e, "Full", Nothing)
    /\ UNCHANGED <<heap, loop, history>>

PushBegin(e) ==
    /\ pc = "idle"
    /\ count < Depth
    /\ pc' = "sift"
    /\ item' = e
    /\ index' = count
    /\ iter' = 0
    /\ UNCHANGED <<heap, out, history>>

\* The loop goes on while the parent is of lower priority.
Sifts ==
    /\ index > 0
    /\ iter < count + 1
    /\ PriorityAt(Parent(index)) < Priority[item]

SiftUp ==
    /\ pc = "sift"
    /\ Sifts
    /\ tree' = [tree EXCEPT ![index] = tree[Parent(index)]]
    /\ index' = Parent(index)
    /\ iter' = iter + 1
    /\ UNCHANGED <<count, order, pc, item, out, history>>

Place ==
    /\ pc = "sift"
    /\ ~Sifts
    /\ tree' = [tree EXCEPT ![index] = [order |-> order, element |-> item]]
    /\ count' = count + 1
    /\ order' = (order + 1) % OrderSize
    /\ pc' = "idle" /\ item' = Nothing /\ index' = 0 /\ iter' = 0
    /\ arrived' = Append(arrived, item)
    /\ rolled' = (rolled \/ (count > 0 /\ order = 0))

Pushed == Place /\ out' = Result("Push", item, "Success", Nothing)

-----------------------------------------------------------------------------
(* Pop puts the last node in the place of the first and sifts it down.     *)

PopEmpty ==
    /\ pc = "idle"
    /\ count = 0
    /\ out' = Result("Pop", Nothing, "Empty", Nothing)
    /\ UNCHANGED <<heap, loop, history>>

\* Without the node of the last place, which goes to the first.
LastToFirst ==
    [i \in Indexes |-> IF i >= count - 1 THEN Nothing
                       ELSE IF i = 0 THEN tree[count - 1] ELSE tree[i]]

\* The only element: nothing is left to sift, and the order starts anew.
TakeOnly ==
    /\ pc = "idle"
    /\ count = 1
    /\ count' = 0
    /\ tree' = LastToFirst
    /\ order' = 0
    /\ arrived' = <<>>
    /\ rolled' = FALSE
    /\ UNCHANGED loop

PopLast == TakeOnly /\ out' = Result("Pop", Nothing, "Success", tree[0].element)

PopBegin ==
    /\ pc = "idle"
    /\ count > 1
    /\ item' = tree[0].element
    /\ count' = count - 1
    /\ tree' = LastToFirst
    /\ pc' = "heapify"
    /\ index' = 0
    /\ iter' = 0
    /\ UNCHANGED <<order, out, history>>

\* Faulty: of two nodes of one priority the first named counts as the larger.
LargerUnstable(a, b) == IF PriorityAt(a) >= PriorityAt(b) THEN a ELSE b

\* Max: the node of the higher priority, or the older of two equal ones.
Larger(a, b) ==
    IF PriorityAt(a) = PriorityAt(b)
    THEN IF tree[a].order < tree[b].order THEN a ELSE b
    ELSE IF PriorityAt(a) > PriorityAt(b) THEN a ELSE b

\* Largest: of a node with a left child, that child and the right one if any.
Largest(i) ==
    LET first == Larger(Left(i), i) IN
    IF Right(i) < count THEN Larger(Right(i), first) ELSE first

\* The loop goes on while a child is larger.
SiftsDown ==
    /\ index <= count
    /\ iter < count + 1
    /\ Left(index) < count
    /\ Largest(index) # index

SiftDown ==
    /\ pc = "heapify"
    /\ SiftsDown
    /\ LET largest == Largest(index) IN
       /\ tree' = [tree EXCEPT ![index] = tree[largest], ![largest] = tree[index]]
       /\ index' = largest
    /\ iter' = iter + 1
    /\ UNCHANGED <<count, order, pc, item, out, history>>

\* The element that left is the first of its kind to have come.
FirstOf(e) ==
    CHOOSE i \in DOMAIN arrived :
        arrived[i] = e /\ \A j \in 1 .. i - 1 : arrived[j] # e

TakeOut ==
    /\ pc = "heapify"
    /\ ~SiftsDown
    /\ arrived' = RemoveAt(arrived, FirstOf(item))
    /\ pc' = "idle" /\ item' = Nothing /\ index' = 0 /\ iter' = 0
    /\ UNCHANGED <<heap, rolled>>

Popped == TakeOut /\ out' = Result("Pop", Nothing, "Success", item)

-----------------------------------------------------------------------------
Peek ==
    /\ pc = "idle"
    /\ out' = IF count = 0 THEN Result("Peek", Nothing, "Empty", Nothing)
              ELSE Result("Peek", Nothing, "Success", tree[0].element)
    /\ UNCHANGED <<heap, loop, history>>

\* Destroy does the same and gives the tree back.
Empty ==
    /\ pc = "idle"
    /\ tree' = EmptyTree
    /\ count' = 0 /\ order' = 0
    /\ arrived' = <<>> /\ rolled' = FALSE
    /\ UNCHANGED loop

Clear == Empty /\ out' = Result("Clear", Nothing, "Success", Nothing)

Push(e) == PushFull(e) \/ PushBegin(e)

Next ==
    \/ \E e \in Elements : Push(e)
    \/ SiftUp \/ Pushed
    \/ PopEmpty \/ PopLast \/ PopBegin \/ SiftDown \/ Popped
    \/ Peek
    \/ Clear

Spec == Init /\ [][Next]_heapVars

-----------------------------------------------------------------------------
(* Properties.                                                             *)

TypeOK ==
    /\ tree \in [Indexes -> Node \cup {Nothing}]
    /\ count \in 0 .. Depth
    /\ order \in 0 .. OrderSize - 1
    /\ pc \in {"idle", "sift", "heapify"}
    /\ item \in Elements \cup {Nothing}
    /\ index \in Indexes
    /\ iter \in Nat
    /\ rolled \in BOOLEAN

\* The assertions of heap.adb on the indexes of the tree and on the turns of
\* the loops: no call reads a place that is not in use or loops too often.
AssertionsHold ==
    /\ pc = "sift" => index < Depth /\ iter < count + 1
    /\ pc = "heapify" => index < count /\ iter < count + 1

\* The node at place a may leave the heap before the one at b.
Before(a, b) ==
    \/ PriorityAt(a) > PriorityAt(b)
    \/ PriorityAt(a) = PriorityAt(b) /\ (rolled \/ tree[a].order <= tree[b].order)

\* The element that Pop and Peek answer is of the highest priority on the
\* heap, and of those the first to have come, for as long as Order has not
\* rolled over since the heap was empty.
TopIsFirst ==
    pc = "idle" => \A i \in 0 .. count - 1 : Before(0, i)

Fifo == INSTANCE PriorityFifo WITH
    Values <- Elements,
    PriorityOf <- LAMBDA e : Priority[e],
    TooLarge <- LAMBDA e : FALSE,
    Rooms <- {Nothing},
    TooSmall <- LAMBDA e, room : FALSE,
    Seen <- LAMBDA e : e,
    Rollover <- OrderSize,
    queue <- arrived,
    pushes <- IF rolled THEN OrderSize + 1
              ELSE IF count > 0 /\ order = 0 THEN OrderSize ELSE order

\* The heap behaves as a queue that answers by priority and then by age.
ImplementsPriorityFifo == Fifo!Spec

=============================================================================
