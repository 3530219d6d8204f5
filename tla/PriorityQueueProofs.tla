------------------------ MODULE PriorityQueueProofs -------------------------
(***************************************************************************)
(* Whatever the depth of the priority queue, no two elements on it have    *)
(* their bytes in one slot, as long as Clear meets an empty queue only.    *)
(* The slots in use are those the heap names; every turn of the heap's     *)
(* loops moves its nodes about and keeps them, so what is proved of the    *)
(* heap here is less than its order and more than what Pop answers.        *)
(***************************************************************************)
EXTENDS PriorityQueue, SequenceTheorems, TLAPS

\* What is proved of a heap of any elements, for the one in use here.
Heaps == INSTANCE HeapProofs WITH
    Elements <- Items,
    Priority <- [i \in Items |-> i.priority]

\* The places of the heap that hold a node, where index is a hole while Push
\* looks for the place of its element.
Used == IF pc = "sift" THEN (0 .. count) \ {index} ELSE 0 .. count - 1

Slot(i) == tree[i].element.slot

\* The slots that are not in the pool: one more than the elements in Push.
Taken == IF pc = "sift" THEN count + 1 ELSE count

\* With n slots taken, the ends s and t of the pool tell so.
Match(s, t, n) ==
    IF s > t THEN s - t = n
    ELSE IF s < t THEN Depth - t + s = n
    ELSE n = 0 \/ n = Depth

\* With n slots taken, the ring from s to t holds place r.
Holds(s, t, n, r) ==
    IF s < t THEN s <= r /\ r < t
    ELSE IF s > t THEN s <= r \/ r < t
    ELSE n = 0

Free(r) == Holds(start, stop, Taken, r)

RingMatches == Match(start, stop, Taken)

Filled == \A i \in Used : tree[i] \in Heap!Node

AtWork ==
    /\ pc = "sift" => item \in Items /\ count < Depth /\ index <= count
                      /\ Len(bytes) <= ElementSize
    /\ pc = "heapify" => item \in Items /\ index < count

\* No slot is twice in the pool.
PoolApart ==
    \A r, s \in Slots : Free(r) /\ Free(s) /\ r # s => pool[r] # pool[s]

\* No slot is in two nodes, nor in a node and in the pool.
NodesApart ==
    \A i \in Used :
        /\ \A j \in Used : i # j => Slot(i) # Slot(j)
        /\ \A r \in Slots : Free(r) => Slot(i) # pool[r]

\* The slot that Push took is in no node yet and no longer in the pool.
ItemApart ==
    pc = "sift" =>
        /\ \A i \in Used : Slot(i) # item.slot
        /\ \A r \in Slots : Free(r) => pool[r] # item.slot

Apart == PoolApart /\ NodesApart /\ ItemApart

IInv ==
    /\ TypeOK
    /\ DOMAIN queue = Slots
    /\ AtWork
    /\ Filled
    /\ RingMatches
    /\ ~ClearsQueued => Apart

-----------------------------------------------------------------------------
(* The ring of indexes.                                                    *)

\* A slot taken leaves the ring, and nothing else does.
LEMMA TakeFromRing ==
    ASSUME PriorityQueueAssumption, NEW s \in Slots, NEW t \in Slots,
           NEW n \in Nat, n < Depth, Match(s, t, n)
    PROVE  /\ After(s) \in Slots
           /\ Match(After(s), t, n + 1)
           /\ Holds(s, t, n, s)
           /\ ~Holds(After(s), t, n + 1, s)
           /\ \A r \in Slots : Holds(After(s), t, n + 1, r) => Holds(s, t, n, r)
<1>1. Depth \in Nat /\ Depth > 0 /\ s \in Nat /\ t \in Nat /\ s < Depth /\ t < Depth
  BY DEF PriorityQueueAssumption, Slots
<1>2. CASE s < Depth - 1
  <2>1. After(s) = s + 1
    BY <1>2 DEF After
  <2> QED BY <1>1, <1>2, <2>1 DEF Match, Holds, Slots
<1>3. CASE ~(s < Depth - 1)
  <2>1. After(s) = 0 /\ s = Depth - 1
    BY <1>1, <1>3 DEF After
  <2> QED BY <1>1, <2>1 DEF Match, Holds, Slots
<1> QED BY <1>2, <1>3

\* A slot given back is all that comes to the ring.
LEMMA GiveToRing ==
    ASSUME PriorityQueueAssumption, NEW s \in Slots, NEW t \in Slots,
           NEW n \in Nat, n > 0, n <= Depth, Match(s, t, n)
    PROVE  /\ After(t) \in Slots
           /\ Match(s, After(t), n - 1)
           /\ \A r \in Slots : Holds(s, After(t), n - 1, r) => r = t \/ Holds(s, t, n, r)
<1>1. Depth \in Nat /\ Depth > 0 /\ s \in Nat /\ t \in Nat /\ s < Depth /\ t < Depth
  BY DEF PriorityQueueAssumption, Slots
<1>2. CASE t < Depth - 1
  <2>1. After(t) = t + 1
    BY <1>2 DEF After
  <2> QED BY <1>1, <1>2, <2>1 DEF Match, Holds, Slots
<1>3. CASE ~(t < Depth - 1)
  <2>1. After(t) = 0 /\ t = Depth - 1
    BY <1>1, <1>3 DEF After
  <2> QED BY <1>1, <2>1 DEF Match, Holds, Slots
<1> QED BY <1>2, <1>3

\* The ends of a full pool meet.
LEMMA NoneTaken ==
    ASSUME PriorityQueueAssumption, NEW s \in Slots, NEW t \in Slots, Match(s, t, 0)
    PROVE  s = t
<1>1. Depth \in Nat /\ s \in Nat /\ t \in Nat /\ s < Depth /\ t < Depth
  BY DEF PriorityQueueAssumption, Slots
<1> QED BY <1>1 DEF Match

-----------------------------------------------------------------------------
(* The heap.                                                               *)

\* The largest of a node and its children is a node.
LEMMA LargestIsUsed ==
    ASSUME NEW i \in Nat, count \in Nat, Heap!Left(i) < count
    PROVE  Heap!Largest(i) \in Nat /\ Heap!Largest(i) < count
<1>1. Heap!Left(i) \in Nat /\ Heap!Right(i) \in Nat /\ i < count
  BY DEF Heap!Left, Heap!Right
<1>2. Heap!Larger(Heap!Left(i), i) \in {Heap!Left(i), i}
  BY DEF Heap!Larger
<1>3. \A a, b : Heap!Larger(a, b) \in {a, b}
  BY DEF Heap!Larger
<1> QED BY <1>1, <1>2, <1>3 DEF Heap!Largest

\* A turn of a loop that moves the nodes about, no two to one place, keeps the
\* slots apart.
LEMMA MovedApart ==
    ASSUME Apart, NEW moved \in [Used' -> Used],
           \A i, j \in Used' : i # j => moved[i] # moved[j],
           \A i \in Used' : tree'[i] = tree[moved[i]],
           UNCHANGED <<pool, start, stop, pc, count, item>>
    PROVE  Apart'
<1>1. \A r : Free(r)' = Free(r)
  BY DEF Free, Taken
<1>2. \A i \in Used' : moved[i] \in Used /\ Slot(i)' = Slot(moved[i])
  BY DEF Slot
<1>3. PoolApart'
  BY <1>1 DEF Apart, PoolApart
<1>4. NodesApart'
  BY <1>1, <1>2 DEF Apart, NodesApart
<1>5. ItemApart'
  BY <1>1, <1>2 DEF Apart, ItemApart
<1> QED BY <1>3, <1>4, <1>5 DEF Apart

-----------------------------------------------------------------------------
(* One lemma per action.                                                   *)

LEMMA Kinds ==
    ASSUME PriorityQueueAssumption, IInv
    PROVE  /\ tree \in [Slots -> Heap!Node \cup {Nothing}]
           /\ count \in Nat /\ count <= Depth /\ Depth \in Nat /\ Depth > 0
           /\ OrderSize \in Nat /\ OrderSize > 0
           /\ order \in 0 .. OrderSize - 1
           /\ pc \in {"idle", "sift", "heapify"}
           /\ item \in Items \cup {Nothing}
           /\ index \in Slots /\ iter \in Nat /\ rolled \in BOOLEAN
           /\ pool \in [Slots -> Slots] /\ start \in Slots /\ stop \in Slots
           /\ \A s \in Slots : Len(queue[s]) <= ElementSize
           /\ Slots = 0 .. Depth - 1 /\ Slots = Heap!Indexes
           /\ Used \subseteq Slots
<1>1. /\ count \in Nat /\ count <= Depth /\ Depth \in Nat /\ Depth > 0
      /\ OrderSize \in Nat /\ OrderSize > 0
      /\ Slots = 0 .. Depth - 1 /\ Slots = Heap!Indexes
  BY DEF PriorityQueueAssumption, IInv, TypeOK, Heap!TypeOK, Slots, Heap!Indexes
<1>2. Used \subseteq Slots
  BY <1>1 DEF IInv, AtWork, Used
<1>3. Heap!TypeOK
  BY DEF IInv, TypeOK
<1>4. /\ tree \in [Slots -> Heap!Node \cup {Nothing}]
      /\ order \in 0 .. OrderSize - 1
      /\ pc \in {"idle", "sift", "heapify"}
      /\ item \in Items \cup {Nothing}
      /\ index \in Slots /\ iter \in Nat
  BY <1>1, <1>3 DEF Heap!TypeOK
<1>5. rolled \in BOOLEAN
  BY <1>3 DEF Heap!TypeOK
<1>6. /\ pool \in [Slots -> Slots] /\ start \in Slots /\ stop \in Slots
      /\ \A s \in Slots : Len(queue[s]) <= ElementSize
  BY DEF IInv, TypeOK
<1> QED BY <1>1, <1>2, <1>4, <1>5, <1>6

\* Of these, the numbers.
LEMMA Counts ==
    ASSUME PriorityQueueAssumption, IInv
    PROVE  /\ count \in Nat /\ count <= Depth /\ Depth \in Nat /\ Depth > 0
           /\ index \in Nat /\ Slots = 0 .. Depth - 1 /\ Slots = Heap!Indexes
<1>1. index \in Slots /\ Depth \in Nat
  BY Kinds
<1> QED BY <1>1, Kinds

\* A queue with nothing on it, whose pool is as given.
LEMMA EmptiedInvariant ==
    ASSUME PriorityQueueAssumption,
           tree' \in [Slots -> Heap!Node \cup {Nothing}],
           count' = 0, order' = 0, rolled' = FALSE, pc' = "idle",
           item' \in Items \cup {Nothing}, index' \in Slots, iter' \in Nat,
           pool' \in [Slots -> Slots], start' \in Slots, stop' = start',
           DOMAIN queue' = Slots,
           \A s \in Slots : Len(queue'[s]) <= ElementSize,
           ~ClearsQueued => \A r, s \in Slots : r # s => pool'[r] # pool'[s]
    PROVE  IInv'
<1>1. Used' = {} /\ Slots = Heap!Indexes
  BY DEF Used, Slots, Heap!Indexes
<1>2. TypeOK'
  <2>1. 0 \in 0 .. Depth /\ 0 \in 0 .. OrderSize - 1
    BY DEF PriorityQueueAssumption
  <2>2. Heap!TypeOK'
    BY <1>1, <2>1 DEF Heap!TypeOK
  <2> QED BY <2>2 DEF TypeOK
<1>3. RingMatches'
  <2>1. Taken' = 0
    BY DEF Taken
  <2>2. start' \in Nat /\ stop' \in Nat
    BY DEF Slots, PriorityQueueAssumption
  <2>3. ~(start' > stop') /\ ~(start' < stop')
    BY <2>2
  <2> QED BY <2>1, <2>3 DEF RingMatches, Match
<1>4. AtWork' /\ Filled'
  BY <1>1 DEF AtWork, Filled
<1>5. ~ClearsQueued => Apart'
  BY <1>1 DEF Apart, PoolApart, NodesApart, ItemApart
<1> QED BY <1>2, <1>3, <1>4, <1>5 DEF IInv

LEMMA InitInvariant ==
    ASSUME PriorityQueueAssumption, Init
    PROVE  IInv
<1>1. /\ tree = [i \in Slots |-> Nothing]
      /\ count = 0 /\ order = 0 /\ pc = "idle" /\ item = Nothing
      /\ index = 0 /\ iter = 0 /\ rolled = FALSE
      /\ queue = [s \in Slots |-> <<>>] /\ pool = [i \in Slots |-> i]
      /\ start = 0 /\ stop = 0
  BY DEF Init, Heap!Init, Heap!EmptyTree, Heap!Indexes, Slots
<1>2. 0 \in Slots /\ Used = {} /\ Slots = Heap!Indexes
  BY <1>1 DEF Used, Slots, Heap!Indexes, PriorityQueueAssumption
<1>3. \A s \in Slots : Len(queue[s]) <= ElementSize
  BY <1>1 DEF PriorityQueueAssumption
<1>4. TypeOK
  <2>1. 0 \in 0 .. Depth /\ 0 \in 0 .. OrderSize - 1
    BY DEF PriorityQueueAssumption
  <2>2. Heap!TypeOK
    BY <1>1, <1>2, <2>1 DEF Heap!TypeOK
  <2> QED BY <1>1, <1>2, <1>3, <2>2 DEF TypeOK
<1>5. RingMatches
  BY <1>1 DEF RingMatches, Match, Taken
<1>6. AtWork /\ Filled
  BY <1>1, <1>2 DEF AtWork, Filled
<1>7. Apart
  BY <1>1, <1>2 DEF Apart, PoolApart, NodesApart, ItemApart
<1> QED BY <1>1, <1>4, <1>5, <1>6, <1>7 DEF IInv

\* A call that changes nothing but the answer.
LEMMA UnchangedInvariant ==
    ASSUME IInv, UNCHANGED <<heapVars, queue, pool, start, stop, bytes>>
    PROVE  IInv'
BY DEF IInv, TypeOK, Heap!TypeOK, AtWork, Filled, Used, RingMatches, Taken, Apart,
   PoolApart, NodesApart, ItemApart, Free, Slot, heapVars

LEMMA PushBeginInvariant ==
    ASSUME PriorityQueueAssumption, IInv,
           NEW priority \in Priorities, NEW data \in Inputs, PushBegin(priority, data)
    PROVE  IInv'
<1> PICK i : i = [priority |-> priority, slot |-> pool[start], length |-> Len(data)]
  OBVIOUS
<1>1. /\ pc = "idle" /\ count < Depth /\ Len(data) <= ElementSize
      /\ pc' = "sift" /\ item' = i /\ index' = count /\ iter' = 0
      /\ start' = After(start) /\ bytes' = data
      /\ UNCHANGED <<tree, count, order, rolled, queue, pool, stop>>
  BY DEF PushBegin, Heap!PushBegin, Heap!heap, Heap!history
<1>2. i \in Items /\ i.slot = pool[start]
  BY <1>1, Kinds DEF Items, PriorityQueueAssumption
<1>3. Used' = Used /\ Used = 0 .. count - 1 /\ count \in Slots
  BY <1>1, Counts DEF Used
<1>4. Match(start, stop, count)
  BY <1>1 DEF IInv, RingMatches, Taken
<1>5. /\ start' \in Slots /\ Match(start', stop, count + 1)
      /\ Holds(start, stop, count, start)
      /\ ~Holds(start', stop, count + 1, start)
      /\ \A r \in Slots : Holds(start', stop, count + 1, r) => Holds(start, stop, count, r)
  BY <1>1, <1>4, Kinds, TakeFromRing
<1>6. TypeOK'
  <2>1. Heap!TypeOK'
    BY <1>1, <1>2, <1>3, Kinds DEF IInv, TypeOK, Heap!TypeOK
  <2> QED BY <1>1, <1>5, <2>1, Kinds DEF TypeOK
<1>7. AtWork' /\ Filled' /\ RingMatches'
  <2>1. Taken' = count + 1 /\ count \in Nat
    BY <1>1, Kinds DEF Taken
  <2>2. RingMatches'
    BY <1>1, <1>5, <2>1 DEF RingMatches
  <2>3. AtWork' /\ Filled'
    BY <1>1, <1>2, <1>3, <2>1 DEF IInv, AtWork, Filled
  <2> QED BY <2>2, <2>3
<1>8. ~ClearsQueued => Apart'
  <2>1. SUFFICES ASSUME Apart PROVE Apart'
    BY DEF IInv
  <2>2. /\ Free(start)
        /\ \A r \in Slots : Free(r)' => Free(r) /\ r # start
    <3>1. Taken = count /\ Taken' = count + 1 /\ stop' = stop
      BY <1>1 DEF Taken
    <3>2. \A r : Free(r)' = Holds(start', stop, count + 1, r)
      BY <3>1 DEF Free
    <3> QED BY <1>5, <3>1, <3>2 DEF Free
  <2>3. PoolApart'
    BY <2>1, <2>2, <1>1 DEF Apart, PoolApart
  <2>4. NodesApart'
    BY <2>1, <2>2, <1>1, <1>3 DEF Apart, NodesApart, Slot
  <2>5. ItemApart'
    BY <2>1, <2>2, <1>1, <1>2, <1>3, Kinds DEF Apart, PoolApart, NodesApart, ItemApart, Slot
  <2> QED BY <2>3, <2>4, <2>5 DEF Apart
<1> QED BY <1>1, <1>6, <1>7, <1>8 DEF IInv

LEMMA PushSiftInvariant ==
    ASSUME PriorityQueueAssumption, IInv, PushSift
    PROVE  IInv'
<1> PICK p : p = Heap!Parent(index)
  OBVIOUS
<1> PICK x : x = index
  OBVIOUS
<1>1. /\ pc = "sift" /\ x > 0
      /\ tree' = [tree EXCEPT ![x] = tree[p]] /\ index' = p /\ iter' = iter + 1
      /\ UNCHANGED <<count, order, pc, item, rolled, queue, pool, start, stop, bytes>>
  BY DEF PushSift, Heap!SiftUp, Heap!Sifts, Heap!history
<1>2. x \in Nat /\ x <= count /\ count < Depth /\ p \in Nat /\ p < x
  <2>1. x \in Nat /\ x <= count /\ count < Depth
    BY <1>1, Counts DEF IInv, AtWork
  <2>2. p \in Nat /\ p < x
    BY <1>1, <2>1 DEF Heap!Parent
  <2> QED BY <2>1, <2>2
<1>3. /\ Used = (0 .. count) \ {x} /\ Used' = (0 .. count) \ {p}
      /\ p \in Used /\ p \in Slots /\ x \in Slots
  BY <1>1, <1>2, Kinds DEF Used
<1>4. tree'[x] = tree[p] /\ \A i \in Used : tree'[i] = tree[i] /\ tree[i] \in Heap!Node
  BY <1>1, <1>3, Kinds DEF IInv, Filled
<1>5. TypeOK'
  <2>1. tree' \in [Heap!Indexes -> Heap!Node \cup {Nothing}]
    BY <1>1, <1>3, <1>4, Kinds
  <2>2. index' \in Heap!Indexes /\ iter' \in Nat
    BY <1>1, <1>3, Kinds
  <2>3. Heap!TypeOK'
    BY <1>1, <2>1, <2>2 DEF IInv, TypeOK, Heap!TypeOK
  <2> QED BY <1>1, <2>3, Kinds DEF TypeOK
<1>6. AtWork' /\ Filled' /\ RingMatches'
  <2>1. Taken' = Taken
    BY <1>1 DEF Taken
  <2>2. RingMatches'
    BY <1>1, <2>1 DEF IInv, RingMatches
  <2>3. AtWork'
    BY <1>1, <1>2, Kinds DEF IInv, AtWork
  <2>4. Filled'
    BY <1>3, <1>4 DEF IInv, Filled
  <2> QED BY <2>2, <2>3, <2>4
<1>7. ~ClearsQueued => Apart'
  <2>1. SUFFICES ASSUME Apart PROVE Apart'
    BY DEF IInv
  <2> PICK moved : moved = [i \in Used' |-> IF i = x THEN p ELSE i]
    OBVIOUS
  <2>2. moved \in [Used' -> Used] /\ \A i, j \in Used' : i # j => moved[i] # moved[j]
    BY <1>3
  <2>3. \A i \in Used' : tree'[i] = tree[moved[i]]
    BY <1>3, <1>4
  <2> QED BY <2>1, <2>2, <2>3, <1>1, MovedApart
<1> QED BY <1>1, <1>5, <1>6, <1>7 DEF IInv

LEMMA PushEndInvariant ==
    ASSUME PriorityQueueAssumption, IInv, PushEnd
    PROVE  IInv'
<1> PICK x : x = index
  OBVIOUS
<1> PICK e : e = item
  OBVIOUS
<1> PICK node : node = [order |-> order, element |-> e]
  OBVIOUS
<1>1. /\ pc = "sift"
      /\ tree' = [tree EXCEPT ![x] = node]
      /\ count' = count + 1 /\ order' = (order + 1) % OrderSize
      /\ pc' = "idle" /\ item' = Nothing /\ index' = 0 /\ iter' = 0
      /\ rolled' = (rolled \/ (count > 0 /\ order = 0))
      /\ queue' = [queue EXCEPT ![e.slot] = bytes]
      /\ UNCHANGED <<pool, start, stop>>
  BY DEF PushEnd, Heap!Place
<1>2. x \in Nat /\ x <= count /\ count < Depth /\ e \in Items /\ Len(bytes) <= ElementSize
  <2>1. x <= count /\ count < Depth /\ e \in Items /\ Len(bytes) <= ElementSize
    BY <1>1 DEF IInv, AtWork
  <2>2. x \in Nat
    BY Kinds
  <2> QED BY <2>1, <2>2
<1>3. node \in Heap!Node /\ node.element = e
  BY <1>2, Kinds DEF Heap!Node
<1>4. Used = (0 .. count) \ {x} /\ Used' = 0 .. count /\ Used' \subseteq Slots /\ x \in Slots
  BY <1>1, <1>2, Kinds DEF Used
<1>5. tree'[x] = node /\ \A i \in Used : tree'[i] = tree[i] /\ tree[i] \in Heap!Node
  BY <1>1, <1>4, Kinds DEF IInv, Filled
<1>6. DOMAIN queue' = Slots /\ \A s \in Slots : Len(queue'[s]) <= ElementSize
  <2>1. DOMAIN queue = Slots /\ \A s \in Slots : Len(queue[s]) <= ElementSize
    BY Kinds DEF IInv
  <2>2. \A s \in Slots : queue'[s] = bytes \/ queue'[s] = queue[s]
    BY <1>1, <2>1
  <2> QED BY <1>1, <1>2, <2>1, <2>2
<1>7. TypeOK'
  <2>1. tree' \in [Heap!Indexes -> Heap!Node \cup {Nothing}]
    BY <1>1, <1>3, <1>4, Kinds
  <2>2. index' \in Heap!Indexes /\ iter' \in Nat /\ count' \in 0 .. Depth
    BY <1>1, <1>2, <1>4, Kinds
  <2>3. order' \in 0 .. OrderSize - 1
    <3>1. order + 1 \in Nat /\ OrderSize \in Nat /\ OrderSize > 0
      BY Kinds
    <3> QED BY <1>1, <3>1
  <2>4. rolled' \in BOOLEAN
    BY <1>1
  <2>5. Heap!TypeOK'
    BY <1>1, <2>1, <2>2, <2>3, <2>4 DEF Heap!TypeOK
  <2> QED BY <1>1, <1>6, <2>5, Kinds DEF TypeOK
<1>8. AtWork' /\ Filled' /\ RingMatches'
  <2>1. Taken' = Taken
    BY <1>1 DEF Taken
  <2>2. RingMatches'
    BY <1>1, <2>1 DEF IInv, RingMatches
  <2>3. Filled'
    BY <1>3, <1>4, <1>5 DEF Filled
  <2> QED BY <1>1, <2>2, <2>3 DEF AtWork
<1>9. ~ClearsQueued => Apart'
  <2>1. SUFFICES ASSUME Apart PROVE Apart'
    BY DEF IInv
  <2>2. \A r : Free(r)' = Free(r)
    BY <1>1 DEF Free, Taken
  <2>3. PoolApart'
    BY <1>1, <2>1, <2>2 DEF Apart, PoolApart
  <2>4. Slot(x)' = e.slot /\ \A i \in Used : Slot(i)' = Slot(i)
    BY <1>3, <1>5 DEF Slot
  <2>5. /\ \A i \in Used : Slot(i) # e.slot
        /\ \A r \in Slots : Free(r) => pool[r] # e.slot
    BY <1>1, <2>1 DEF Apart, ItemApart
  <2>6. NodesApart'
    BY <1>1, <1>4, <2>1, <2>2, <2>4, <2>5 DEF Apart, NodesApart
  <2> QED BY <1>1, <2>3, <2>6 DEF Apart, ItemApart
<1> QED BY <1>6, <1>7, <1>8, <1>9 DEF IInv

\* The slot of the first node goes back to the pool, of which nothing else
\* changes.
LEMMA SlotGivenBack ==
    ASSUME PriorityQueueAssumption, IInv, pc = "idle", count > 0, ReturnSlot,
           count' = count - 1, pc' # "sift"
    PROVE  /\ pool' \in [Slots -> Slots] /\ start' \in Slots /\ stop' \in Slots
           /\ RingMatches' /\ Match(start', stop', count')
           /\ Slot(0) \in Slots /\ 0 \in Used
           /\ \A r \in Slots : Free(r)' => IF r = stop THEN pool'[r] = Slot(0)
                                          ELSE Free(r) /\ pool'[r] = pool[r]
           /\ ~ClearsQueued => PoolApart'
<1> PICK x : x = stop
  OBVIOUS
<1>1. /\ pool' = [pool EXCEPT ![x] = Slot(0)] /\ stop' = After(x) /\ start' = start
      /\ Taken = count /\ Taken' = count - 1
  BY DEF ReturnSlot, Slot, Taken
<1>2. /\ Used = 0 .. count - 1 /\ 0 \in Used
      /\ x \in Slots /\ start \in Slots /\ count \in Nat /\ count <= Depth
  BY Kinds DEF Used
<1>3. Slot(0) \in Slots
  <2>1. tree[0] \in Heap!Node
    BY <1>2 DEF IInv, Filled
  <2> QED BY <2>1 DEF Slot, Heap!Node, Items
<1>4. Match(start, x, count)
  BY <1>1 DEF IInv, RingMatches
<1>5. /\ After(x) \in Slots /\ Match(start, After(x), count - 1)
      /\ \A r \in Slots : Holds(start, After(x), count - 1, r) => r = x \/ Holds(start, x, count, r)
  BY <1>2, <1>4, GiveToRing
<1>6. pool' \in [Slots -> Slots] /\ pool'[x] = Slot(0)
      /\ \A r \in Slots : r # x => pool'[r] = pool[r]
  BY <1>1, <1>2, <1>3, Kinds
<1>7. \A r \in Slots : Free(r)' => r = x \/ Free(r)
  BY <1>1, <1>5 DEF Free
<1>8. ~ClearsQueued => PoolApart'
  <2>1. SUFFICES ASSUME Apart PROVE PoolApart'
    BY DEF IInv
  <2>2. \A r \in Slots : Free(r) => Slot(0) # pool[r]
    BY <1>2, <2>1 DEF Apart, NodesApart
  <2>3. \A r, s \in Slots : Free(r) /\ Free(s) /\ r # s => pool[r] # pool[s]
    BY <2>1 DEF Apart, PoolApart
  <2> QED BY <1>2, <1>6, <1>7, <2>2, <2>3 DEF PoolApart
<1> QED BY <1>1, <1>2, <1>3, <1>5, <1>6, <1>7, <1>8 DEF RingMatches

\* An element that leaves its slot leaves no more there than there was.
LEMMA CopiedOut ==
    ASSUME PriorityQueueAssumption, IInv, NEW i, NEW room, CopyOut(i, room)
    PROVE  DOMAIN queue' = Slots /\ \A s \in Slots : Len(queue'[s]) <= ElementSize
<1>1. queue' = [queue EXCEPT ![i.slot] = <<>>]
  BY DEF CopyOut
<1> QED BY <1>1, Kinds DEF IInv, PriorityQueueAssumption

LEMMA PopLastInvariant ==
    ASSUME PriorityQueueAssumption, IInv, NEW room, PopLast(room)
    PROVE  IInv'
<1>1. /\ pc = "idle" /\ count = 1 /\ count' = 0 /\ order' = 0 /\ rolled' = FALSE
      /\ tree' = Heap!LastToFirst /\ pc' = "idle"
      /\ UNCHANGED <<item, index, iter>>
      /\ ReturnSlot /\ CopyOut(tree[0].element, room)
  BY DEF PopLast, Heap!TakeOnly, Heap!loop
<1>2. /\ pool' \in [Slots -> Slots] /\ start' \in Slots /\ stop' \in Slots
      /\ Match(start', stop', 0)
      /\ ~ClearsQueued => PoolApart'
  BY <1>1, SlotGivenBack
<1>3. stop' = start'
  BY <1>2, NoneTaken
<1>4. \A r : Free(r)'
  <2>1. Taken' = 0
    BY <1>1 DEF Taken
  <2>2. start' \in Nat /\ ~(start' < stop') /\ ~(start' > stop')
    BY <1>2, <1>3 DEF Slots, PriorityQueueAssumption
  <2> QED BY <2>1, <2>2 DEF Free, Holds
<1>5. ~ClearsQueued => \A r, s \in Slots : r # s => pool'[r] # pool'[s]
  BY <1>2, <1>4 DEF PoolApart
<1>6. DOMAIN queue' = Slots /\ \A s \in Slots : Len(queue'[s]) <= ElementSize
  BY <1>1, CopiedOut
<1>7. tree' \in [Slots -> Heap!Node \cup {Nothing}]
  <2>1. \A i \in Slots : i >= count - 1
    BY <1>1, Kinds
  <2> QED BY <1>1, <2>1, Kinds DEF Heap!LastToFirst
<1>8. item' \in Items \cup {Nothing} /\ index' \in Slots /\ iter' \in Nat
  BY <1>1, Kinds
<1> QED BY <1>1, <1>2, <1>3, <1>5, <1>6, <1>7, <1>8, EmptiedInvariant

\* The node of the last place goes to the first, whose slot is in the pool.
LEMMA PopBeginInvariant ==
    ASSUME PriorityQueueAssumption, IInv, NEW room, PopBegin(room)
    PROVE  IInv'
<1>1. /\ pc = "idle" /\ count > 1 /\ item' = tree[0].element /\ count' = count - 1
      /\ tree' = Heap!LastToFirst /\ pc' = "heapify" /\ index' = 0 /\ iter' = 0
      /\ ReturnSlot /\ UNCHANGED <<order, rolled, queue>>
  BY DEF PopBegin, Heap!PopBegin, Heap!history
<1>2. /\ Used = 0 .. count - 1 /\ Used' = 0 .. count - 2
      /\ Used' \subseteq Used /\ 0 \in Used /\ count - 1 \in Used /\ 0 \in Slots
  BY <1>1, Counts DEF Used
<1>3. \A i \in Used : tree[i] \in Heap!Node
  BY DEF IInv, Filled
<1>4. /\ pool' \in [Slots -> Slots] /\ start' \in Slots /\ stop' \in Slots
      /\ RingMatches'
      /\ \A r \in Slots : Free(r)' => IF r = stop THEN pool'[r] = Slot(0)
                                      ELSE Free(r) /\ pool'[r] = pool[r]
      /\ ~ClearsQueued => PoolApart'
  <2>1. stop \in Slots /\ start \in Slots /\ count > 0
    BY <1>1, Counts, Kinds
  <2> QED BY ONLY <2>1, PriorityQueueAssumption, IInv, <1>1, SlotGivenBack
<1> PICK from : from = [i \in Used' |-> IF i = 0 THEN count - 1 ELSE i]
  OBVIOUS
<1>5. /\ tree' \in [Slots -> Heap!Node \cup {Nothing}]
      /\ \A i \in Used' : tree'[i] = tree[from[i]]
  <2>1. tree' = [i \in Slots |-> IF i >= count - 1 THEN Nothing
                                 ELSE IF i = 0 THEN tree[count - 1] ELSE tree[i]]
    BY <1>1, Kinds DEF Heap!LastToFirst
  <2>2. \A i \in Slots : i >= count - 1 \/ i \in Used'
    BY <1>1, <1>2, Counts
  <2>3. Used' \subseteq Slots /\ \A i \in Used' : ~(i >= count - 1)
    BY <1>1, <1>2, Counts
  <2>4. \A i \in Used' : tree[i] \in Heap!Node /\ tree[count - 1] \in Heap!Node
    BY <1>2, <1>3
  <2> QED BY <2>1, <2>2, <2>3, <2>4
<1>6. /\ from \in [Used' -> Used]
      /\ \A i \in Used' : from[i] # 0
      /\ \A i, j \in Used' : i # j => from[i] # from[j]
  BY <1>1, <1>2, Counts
<1>7. item' \in Items
  BY <1>1, <1>2, <1>3 DEF Heap!Node
<1>8. TypeOK'
  <2>1. index' \in Heap!Indexes /\ iter' \in Nat /\ count' \in 0 .. Depth
    BY <1>1, <1>2, Kinds
  <2>2. tree' \in [Heap!Indexes -> Heap!Node \cup {Nothing}]
    BY <1>5, Kinds
  <2>3. Heap!TypeOK'
    BY <1>1, <1>7, <2>1, <2>2, Kinds DEF Heap!TypeOK
  <2> QED BY <1>1, <1>4, <2>3, Kinds DEF TypeOK
<1>9. AtWork' /\ Filled'
  <2>1. AtWork'
    BY <1>1, <1>7, Kinds DEF AtWork
  <2>2. Filled'
    BY <1>3, <1>5, <1>6 DEF Filled
  <2> QED BY <2>1, <2>2
<1>10. ~ClearsQueued => NodesApart'
  <2>1. SUFFICES ASSUME Apart, NEW i \in Used'
                 PROVE  /\ \A j \in Used' : i # j => Slot(i)' # Slot(j)'
                        /\ \A r \in Slots : Free(r)' => Slot(i)' # pool'[r]
    BY <1>1 DEF IInv, NodesApart
  <2>2. \A j \in Used' : Slot(j)' = Slot(from[j]) /\ from[j] \in Used /\ from[j] # 0
    BY <1>5, <1>6 DEF Slot
  <2>3. \A k, l \in Used : k # l => Slot(k) # Slot(l)
    BY <2>1 DEF Apart, NodesApart
  <2>4. \A j \in Used' : i # j => Slot(i)' # Slot(j)'
    <3>1. SUFFICES ASSUME NEW j \in Used', i # j PROVE Slot(i)' # Slot(j)'
      OBVIOUS
    <3>2. from[i] # from[j]
      BY <2>1, <3>1, <1>6
    <3> QED BY <2>1, <2>2, <2>3, <3>1, <3>2
  <2>5. Slot(i)' # Slot(0)
    <3>1. Slot(i)' = Slot(from[i]) /\ from[i] \in Used /\ from[i] # 0
      BY <2>1, <2>2
    <3>2. Slot(from[i]) # Slot(0)
      BY <3>1, <2>3, <1>2
    <3> QED BY <3>1, <3>2
  <2>6. \A r \in Slots : Free(r) => Slot(i)' # pool[r]
    BY <2>1, <2>2 DEF Apart, NodesApart
  <2> QED BY <2>4, <2>5, <2>6, <1>4
<1>11. ItemApart'
  BY <1>1 DEF ItemApart
<1>12. DOMAIN queue' = Slots
  BY <1>1 DEF IInv
<1> QED BY <1>4, <1>8, <1>9, <1>10, <1>11, <1>12 DEF IInv, Apart

LEMMA PopSiftInvariant ==
    ASSUME PriorityQueueAssumption, IInv, PopSift
    PROVE  IInv'
<1> PICK m : m = Heap!Largest(index)
  OBVIOUS
<1> PICK x : x = index
  OBVIOUS
<1>1. /\ pc = "heapify" /\ Heap!Left(x) < count /\ m # x
      /\ tree' = [tree EXCEPT ![x] = tree[m], ![m] = tree[x]]
      /\ index' = m /\ iter' = iter + 1
      /\ UNCHANGED <<count, order, pc, item, rolled, queue, pool, start, stop, bytes>>
  BY DEF PopSift, Heap!SiftDown, Heap!SiftsDown, Heap!history
<1>2. x \in Nat /\ x < count /\ m \in Nat /\ m < count
  <2>1. x < count /\ x \in Nat /\ count \in Nat
    BY <1>1, Counts DEF IInv, AtWork
  <2> QED BY <2>1, <1>1, LargestIsUsed
<1>3. /\ Used = 0 .. count - 1 /\ Used' = Used /\ Used \subseteq Slots
      /\ x \in Used /\ m \in Used
  BY <1>1, <1>2, Counts DEF Used
<1> PICK moved : moved = [i \in Used' |-> IF i = x THEN m ELSE IF i = m THEN x ELSE i]
  OBVIOUS
<1>4. moved \in [Used' -> Used] /\ \A i, j \in Used' : i # j => moved[i] # moved[j]
  BY <1>1, <1>3
<1>5. \A i \in Used' : tree'[i] = tree[moved[i]]
  BY <1>1, <1>3, Kinds
<1>6. \A i \in Used : tree[i] \in Heap!Node
  BY DEF IInv, Filled
<1>7. TypeOK'
  <2>1. tree' \in [Heap!Indexes -> Heap!Node \cup {Nothing}]
    BY <1>1, <1>3, <1>6, Kinds
  <2>2. index' \in Heap!Indexes /\ iter' \in Nat
    BY <1>1, <1>3, Kinds
  <2>3. Heap!TypeOK'
    BY <1>1, <2>1, <2>2 DEF IInv, TypeOK, Heap!TypeOK
  <2> QED BY <1>1, <2>3, Kinds DEF TypeOK
<1>8. AtWork' /\ Filled' /\ RingMatches'
  <2>1. RingMatches'
    BY <1>1 DEF IInv, RingMatches, Taken
  <2>2. AtWork'
    BY <1>1, <1>2 DEF IInv, AtWork
  <2>3. Filled'
    BY <1>4, <1>5, <1>6 DEF Filled
  <2> QED BY <2>1, <2>2, <2>3
<1>9. ~ClearsQueued => Apart'
  BY <1>1, <1>4, <1>5, MovedApart DEF IInv
<1> QED BY <1>1, <1>7, <1>8, <1>9 DEF IInv

LEMMA PopEndInvariant ==
    ASSUME PriorityQueueAssumption, IInv, PopEnd
    PROVE  IInv'
<1>1. /\ pc = "heapify" /\ pc' = "idle" /\ item' = Nothing /\ index' = 0 /\ iter' = 0
      /\ UNCHANGED <<tree, count, order, rolled, pool, start, stop>>
      /\ CopyOut(item, bytes)
  BY DEF PopEnd, Heap!TakeOut, Heap!heap
<1>2. Used' = Used /\ 0 \in Heap!Indexes
  BY <1>1, Kinds DEF Used
<1>3. DOMAIN queue' = Slots /\ \A s \in Slots : Len(queue'[s]) <= ElementSize
  BY <1>1, CopiedOut
<1>4. TypeOK'
  <2>1. Heap!TypeOK'
    BY <1>1, <1>2 DEF IInv, TypeOK, Heap!TypeOK
  <2> QED BY <1>1, <1>3, <2>1, Kinds DEF TypeOK
<1>5. AtWork' /\ Filled' /\ RingMatches'
  BY <1>1, <1>2 DEF IInv, AtWork, Filled, RingMatches, Taken
<1>6. \A r : Free(r)' = Free(r)
  BY <1>1 DEF Free, Taken
<1>7. ~ClearsQueued => Apart'
  BY <1>1, <1>2, <1>6 DEF IInv, Apart, PoolApart, NodesApart, ItemApart, Slot
<1> QED BY <1>3, <1>4, <1>5, <1>7 DEF IInv

\* Of an empty queue every slot is in the pool.
LEMMA ClearInvariant ==
    ASSUME PriorityQueueAssumption, IInv, Clear
    PROVE  IInv'
<1>1. /\ ClearsQueued \/ count = 0
      /\ pc = "idle" /\ pc' = "idle" /\ tree' = Heap!EmptyTree
      /\ count' = 0 /\ order' = 0 /\ rolled' = FALSE /\ start' = 0 /\ stop' = 0
      /\ UNCHANGED <<item, index, iter, queue, pool>>
  BY DEF Clear, Heap!Empty, Heap!loop
<1>2. tree' \in [Slots -> Heap!Node \cup {Nothing}] /\ 0 \in Slots
  BY <1>1, Kinds DEF Heap!EmptyTree
<1>3. ~ClearsQueued => \A r, s \in Slots : r # s => pool'[r] # pool'[s]
  <2>1. SUFFICES ASSUME Apart, count = 0
                 PROVE  \A r, s \in Slots : r # s => pool[r] # pool[s]
    BY <1>1 DEF IInv
  <2>2. Taken = 0 /\ Match(start, stop, 0)
    BY <1>1, <2>1 DEF IInv, RingMatches, Taken
  <2>3. start = stop /\ start \in Nat
    BY <2>2, Kinds, NoneTaken
  <2>4. \A r : Free(r)
    BY <2>2, <2>3 DEF Free, Holds
  <2> QED BY <2>1, <2>4 DEF Apart, PoolApart
<1>4. /\ item' \in Items \cup {Nothing} /\ index' \in Slots /\ iter' \in Nat
      /\ pool' \in [Slots -> Slots] /\ \A s \in Slots : Len(queue'[s]) <= ElementSize
      /\ DOMAIN queue' = Slots
  BY <1>1, Kinds DEF IInv
<1> QED BY <1>1, <1>2, <1>3, <1>4, EmptiedInvariant

LEMMA ReinitInvariant ==
    ASSUME PriorityQueueAssumption, IInv, Reinit
    PROVE  IInv'
<1>1. /\ pc' = "idle" /\ tree' = Heap!EmptyTree
      /\ count' = 0 /\ order' = 0 /\ rolled' = FALSE /\ start' = 0 /\ stop' = 0
      /\ pool' = [i \in Slots |-> i] /\ queue' = [s \in Slots |-> <<>>]
      /\ UNCHANGED <<item, index, iter>>
  BY DEF Reinit, Heap!Empty, Heap!loop
<1>2. tree' \in [Slots -> Heap!Node \cup {Nothing}] /\ 0 \in Slots
  BY <1>1, Kinds DEF Heap!EmptyTree
<1>3. DOMAIN queue' = Slots /\ \A s \in Slots : Len(queue'[s]) <= ElementSize
  BY <1>1 DEF PriorityQueueAssumption
<1>4. item' \in Items \cup {Nothing} /\ index' \in Slots /\ iter' \in Nat
  BY <1>1, Kinds
<1> QED BY <1>1, <1>2, <1>3, <1>4, EmptiedInvariant

LEMMA StepInvariant ==
    ASSUME PriorityQueueAssumption, IInv, [Next]_vars
    PROVE  IInv'
<1>1. CASE \E priority \in Priorities, data \in Inputs : PushRefused(priority, data)
  BY <1>1, UnchangedInvariant DEF PushRefused, Answer
<1>2. CASE \E priority \in Priorities, data \in Inputs : PushBegin(priority, data)
  BY <1>2, PushBeginInvariant
<1>3. CASE PushSift
  BY <1>3, PushSiftInvariant
<1>4. CASE PushEnd
  BY <1>4, PushEndInvariant
<1>5. CASE Peek
  BY <1>5, UnchangedInvariant DEF Peek, Answer
<1>6. CASE \E room \in Rooms : PopRefused(room)
  BY <1>6, UnchangedInvariant DEF PopRefused, Answer
<1>7. CASE \E room \in Rooms : PopLast(room)
  BY <1>7, PopLastInvariant
<1>8. CASE \E room \in Rooms : PopBegin(room)
  BY <1>8, PopBeginInvariant
<1>9. CASE PopSift
  BY <1>9, PopSiftInvariant
<1>10. CASE PopEnd
  BY <1>10, PopEndInvariant
<1>11. CASE Clear
  BY <1>11, ClearInvariant
<1>12. CASE Reinit
  BY <1>12, ReinitInvariant
<1>13. CASE UNCHANGED vars
  BY <1>13, UnchangedInvariant DEF vars
<1> QED
  BY <1>1, <1>2, <1>3, <1>4, <1>5, <1>6, <1>7, <1>8, <1>9, <1>10, <1>11, <1>12, <1>13
     DEF Next

-----------------------------------------------------------------------------
(* What follows from the invariant.                                        *)

\* The strengthening of the properties below is inductive: it also tells the
\* places of the ring from which slots are still to be taken, and the hole in
\* the heap while Push looks for a place.
THEOREM PriorityQueueInvariant == Spec => []IInv
<1>1. Init => IInv
  BY PriorityQueueAssumption, InitInvariant
<1>2. IInv /\ [Next]_vars => IInv'
  BY PriorityQueueAssumption, StepInvariant
<1> QED BY <1>1, <1>2, PTL DEF Spec

\* The heap, the pool and the slots are well typed, and no slot holds more
\* bytes than fit.
THEOREM PriorityQueueTypeCorrect == Spec => []TypeOK
<1>1. IInv => TypeOK
  BY DEF IInv
<1> QED BY <1>1, PriorityQueueInvariant, PTL

\* Whatever the depth, no assertion of Check_Indexes fails, even if Clear
\* meets a queue with elements on it.
THEOREM IndexesAlwaysMatch == Spec => []IndexesMatch
<1>1. IInv => IndexesMatch
  BY DEF IInv, IndexesMatch, CheckIndexes, RingMatches, Match, Taken
<1> QED BY <1>1, PriorityQueueInvariant, PTL

\* Whatever the depth and the calls, no two elements on the queue have their
\* bytes in one slot, unless Clear meets a queue with elements on it.
THEOREM NoSlotIsShared ==
    ASSUME ~ClearsQueued
    PROVE  Spec => []SlotsAreUnique
<1>1. IInv => SlotsAreUnique
  BY DEF IInv, SlotsAreUnique, Apart, NodesApart, Used, Slot
<1> QED BY <1>1, PriorityQueueInvariant, PTL

-----------------------------------------------------------------------------
(* The heap of the slots is the heap of HeapProofs: its sequence of those  *)
(* that arrived is the queue, told by the items that name the slots.       *)

USE DEF Heaps!FifoInv

LEMMA HeapAssumed ==
    ASSUME PriorityQueueAssumption
    PROVE  Heaps!HeapAssumption
<1>1. [i \in Items |-> i.priority] \in [Items -> Nat]
  BY DEF Items, PriorityQueueAssumption
<1> QED BY <1>1 DEF Heaps!HeapAssumption, PriorityQueueAssumption

LEMMA InitHeap ==
    ASSUME PriorityQueueAssumption, Init
    PROVE  Heaps!FifoInv
<1>1. Heaps!Init
  BY DEF Init, Heap!Init, Heaps!Init, Heap!EmptyTree, Heaps!EmptyTree, Heap!Indexes,
     Heaps!Indexes, Heap!Result, Heaps!Result
<1> QED BY <1>1, HeapAssumed, Heaps!InitInvariant, Heaps!InitStands

\* A heap that is emptied between two calls.
LEMMA EmptyHeap ==
    ASSUME PriorityQueueAssumption, Heaps!FifoInv, pc = "idle", UNCHANGED <<pc, item, index, iter>>,
           tree' = [i \in Heap!Indexes |-> Nothing],
           count' = 0, order' = 0, arrived' = <<>>, rolled' = FALSE
    PROVE  Heaps!FifoInv'
<1>1. UNCHANGED Heaps!loop /\ pc' = "idle"
  BY DEF Heaps!loop
<1>2. tree' \in [Heaps!Indexes -> Heaps!Node \cup {Nothing}]
  BY DEF Heap!Indexes, Heaps!Indexes
<1>3. Heaps!IInv'
  BY <1>1, <1>2, HeapAssumed, Heaps!EmptiedInvariant
<1> QED BY <1>1, <1>3, Heaps!EmptyStands

LEMMA StepHeap ==
    ASSUME PriorityQueueAssumption, IInv, Heaps!FifoInv, [Next]_vars
    PROVE  Heaps!FifoInv'
<1> USE HeapAssumed
<1>1. ASSUME UNCHANGED heapVars PROVE Heaps!FifoInv'
  <2>1. UNCHANGED <<Heaps!heap, Heaps!loop, Heaps!history>>
    BY <1>1 DEF heapVars, Heaps!heap, Heaps!loop, Heaps!history
  <2> QED BY <2>1, Heaps!UnchangedInvariant, Heaps!UnchangedStands
<1>2. ASSUME NEW priority \in Priorities, NEW data \in Inputs, PushBegin(priority, data)
      PROVE  Heaps!FifoInv'
  <2> PICK i : i = [priority |-> priority, slot |-> pool[start], length |-> Len(data)]
    OBVIOUS
  <2>1. i \in Items
    BY <1>2, Kinds DEF PushBegin, Items, PriorityQueueAssumption
  <2>2. Heaps!PushBegin(i)
    BY <1>2 DEF PushBegin, Heap!PushBegin, Heaps!PushBegin, Heap!heap, Heaps!heap,
       Heap!history, Heaps!history
  <2> QED BY <2>1, <2>2, Heaps!PushBeginInvariant, Heaps!PushBeginStands
<1>3. ASSUME PushSift PROVE Heaps!FifoInv'
  <2>1. Heaps!SiftUp
    BY <1>3 DEF PushSift, Heap!SiftUp, Heaps!SiftUp, Heap!Sifts, Heaps!Sifts, Heap!Parent,
       Heaps!Parent, Heap!PriorityAt, Heaps!PriorityAt, Heap!history, Heaps!history
  <2> QED BY <2>1, Heaps!SiftUpInvariant, Heaps!SiftUpStands
<1>4. ASSUME PushEnd PROVE Heaps!FifoInv'
  <2>1. Heaps!Place
    BY <1>4 DEF PushEnd, Heap!Place, Heaps!Place, Heap!Sifts, Heaps!Sifts, Heap!Parent,
       Heaps!Parent, Heap!PriorityAt, Heaps!PriorityAt
  <2> QED BY <2>1, Heaps!PlaceInvariant, Heaps!PlaceStands
<1>5. ASSUME NEW room \in Rooms, PopLast(room) PROVE Heaps!FifoInv'
  <2>1. /\ pc = "idle" /\ count = 1 /\ UNCHANGED <<pc, item, index, iter>>
        /\ tree' = Heap!LastToFirst
        /\ count' = 0 /\ order' = 0 /\ arrived' = <<>> /\ rolled' = FALSE
    BY <1>5 DEF PopLast, Heap!TakeOnly, Heap!loop
  <2>2. \A i \in Heap!Indexes : i >= count - 1
    BY <2>1 DEF Heap!Indexes
  <2>3. tree' = [i \in Heap!Indexes |-> Nothing]
    BY <2>1, <2>2 DEF Heap!LastToFirst
  <2> QED BY <2>1, <2>3, EmptyHeap
<1>6. ASSUME NEW room \in Rooms, PopBegin(room) PROVE Heaps!FifoInv'
  <2>1. Heaps!PopBegin
    BY <1>6 DEF PopBegin, Heap!PopBegin, Heaps!PopBegin, Heap!LastToFirst, Heaps!LastToFirst,
       Heap!Indexes, Heaps!Indexes, Heap!history, Heaps!history
  <2> QED BY <2>1, Heaps!PopBeginInvariant, Heaps!PopBeginStands
<1>7. ASSUME PopSift PROVE Heaps!FifoInv'
  <2>1. Heaps!SiftDown
    BY <1>7 DEF PopSift, Heap!SiftDown, Heaps!SiftDown, Heap!SiftsDown, Heaps!SiftsDown,
       Heap!Largest, Heaps!Largest, Heap!Larger, Heaps!Larger, Heap!Left, Heaps!Left,
       Heap!Right, Heaps!Right, Heap!PriorityAt, Heaps!PriorityAt, Heap!history, Heaps!history
  <2> QED BY <2>1, Heaps!SiftDownInvariant, Heaps!SiftDownStands
<1>8. ASSUME PopEnd PROVE Heaps!FifoInv'
  <2>1. Heaps!TakeOut
    BY <1>8 DEF PopEnd, Heap!TakeOut, Heaps!TakeOut, Heap!SiftsDown, Heaps!SiftsDown,
       Heap!Largest, Heaps!Largest, Heap!Larger, Heaps!Larger, Heap!Left, Heaps!Left,
       Heap!Right, Heaps!Right, Heap!PriorityAt, Heaps!PriorityAt, Heap!heap, Heaps!heap,
       Heap!FirstOf, Heaps!FirstOf, RemoveAt, Heap!RemoveAt, Heaps!RemoveAt
  <2> QED BY <2>1, Heaps!TakeOutInvariant, Heaps!TakeOutStands
<1>9. ASSUME Clear \/ Reinit PROVE Heaps!FifoInv'
  <2>1. /\ pc = "idle" /\ UNCHANGED <<pc, item, index, iter>>
        /\ tree' = [i \in Heap!Indexes |-> Nothing]
        /\ count' = 0 /\ order' = 0 /\ arrived' = <<>> /\ rolled' = FALSE
    BY <1>9 DEF Clear, Reinit, Heap!Empty, Heap!EmptyTree, Heap!loop
  <2> QED BY <2>1, EmptyHeap
<1>10. CASE \E priority \in Priorities, data \in Inputs : PushRefused(priority, data)
  BY <1>10, <1>1 DEF PushRefused, Answer
<1>11. CASE Peek
  BY <1>11, <1>1 DEF Peek, Answer
<1>12. CASE \E room \in Rooms : PopRefused(room)
  BY <1>12, <1>1 DEF PopRefused, Answer
<1>13. CASE UNCHANGED vars
  BY <1>13, <1>1 DEF vars
<1> QED
  BY <1>2, <1>3, <1>4, <1>5, <1>6, <1>7, <1>8, <1>9, <1>10, <1>11, <1>12, <1>13 DEF Next

-----------------------------------------------------------------------------
(* The bytes of the elements.                                              *)

\* The bytes of every element on the queue are whole in its slot, which no
\* other element has, and a call under way carries what it was given.
Whole ==
    /\ \A k \in DOMAIN arrived :
        /\ queue[arrived[k].slot] \in Inputs
        /\ Len(queue[arrived[k].slot]) = arrived[k].length
    /\ \A j, k \in DOMAIN arrived : j # k => arrived[j].slot # arrived[k].slot
    /\ pc = "sift" => bytes \in Inputs /\ Len(bytes) = item.length
    /\ pc = "heapify" => bytes \in Rooms /\ bytes >= item.length

FifoInv == IInv /\ Heaps!FifoInv /\ Whole

LEMMA Arrivals ==
    ASSUME PriorityQueueAssumption, IInv, Heaps!FifoInv
    PROVE  /\ arrived \in Seq(Items)
           /\ DOMAIN arrived = 1 .. Len(arrived) /\ Len(arrived) \in Nat
           /\ Len(arrived) = IF pc = "heapify" THEN count + 1 ELSE count
           /\ \A k \in DOMAIN arrived :
                /\ arrived[k] \in Items
                /\ arrived[k].slot \in Slots
                /\ arrived[k].length \in Nat
           /\ DOMAIN queue = Slots
<1>1. arrived \in Seq(Items) /\ Len(arrived) = IF pc = "heapify" THEN count + 1 ELSE count
  BY DEF Heaps!Counted
<1>2. \A i \in Items : i.slot \in Slots /\ i.length \in Nat
  BY DEF Items, PriorityQueueAssumption
<1>3. DOMAIN arrived = 1 .. Len(arrived) /\ Len(arrived) \in Nat
  BY <1>1
<1>4. \A k \in DOMAIN arrived : arrived[k] \in Items
  BY <1>1
<1> QED BY <1>1, <1>2, <1>3, <1>4 DEF IInv

\* The slot of the element that Push carries has no bytes of another.
LEMMA SlotIsNew ==
    ASSUME PriorityQueueAssumption, ~ClearsQueued, IInv, Heaps!FifoInv, pc = "sift",
           NEW k \in DOMAIN arrived
    PROVE  arrived[k].slot # item.slot
<1>1. Heaps!Waiting = DOMAIN arrived /\ Heaps!Used = Used
  BY DEF Heaps!Waiting, Heaps!Used, Used
<1>2. PICK f : Heaps!StandsFor(f, Used, DOMAIN arrived)
  BY <1>1 DEF Heaps!Standing
<1>3. PICK i \in Used : f[i] = k
  BY <1>2 DEF Heaps!StandsFor
<1>4. arrived[k] = tree[i].element
  BY <1>2, <1>3 DEF Heaps!StandsFor
<1> QED BY <1>4 DEF IInv, Apart, ItemApart, Slot

LEMMA InitWhole ==
    ASSUME Init
    PROVE  Whole
<1>1. pc = "idle" /\ arrived = <<>>
  BY DEF Init, Heap!Init
<1> QED BY <1>1 DEF Whole

\* A step that keeps the elements and their bytes, and what a call carries.
LEMMA KeptWhole ==
    ASSUME Whole, UNCHANGED <<arrived, queue>>,
           pc' = "idle" \/ UNCHANGED <<pc, item, bytes>>
    PROVE  Whole'
BY DEF Whole

LEMMA PushEndWhole ==
    ASSUME PriorityQueueAssumption, ~ClearsQueued, FifoInv, PushEnd
    PROVE  Whole'
<1>1. /\ pc = "sift" /\ pc' = "idle" /\ arrived' = Append(arrived, item)
      /\ queue' = [queue EXCEPT ![item.slot] = bytes]
  BY DEF PushEnd, Heap!Place
<1>2. item \in Items /\ item.slot \in Slots
  BY <1>1 DEF FifoInv, IInv, AtWork, Items
<1> PICK n : n = Len(arrived)
  OBVIOUS
<1>3. /\ arrived \in Seq(Items) /\ n \in Nat /\ DOMAIN arrived = 1 .. n
      /\ DOMAIN queue = Slots
      /\ \A k \in 1 .. n : arrived[k].slot \in Slots /\ arrived[k].slot # item.slot
  BY <1>1, Arrivals, SlotIsNew DEF FifoInv
<1>4. /\ DOMAIN arrived' = 1 .. n + 1
      /\ \A k \in 1 .. n : arrived'[k] = arrived[k]
      /\ arrived'[n + 1] = item
  BY <1>1, <1>2, <1>3
<1>5. /\ queue'[item.slot] = bytes
      /\ \A k \in 1 .. n : queue'[arrived[k].slot] = queue[arrived[k].slot]
  BY <1>1, <1>2, <1>3
<1>6. ASSUME NEW k \in 1 .. n + 1
      PROVE  k \in 1 .. n \/ k = n + 1
  BY <1>3
<1>7. \A k \in 1 .. n + 1 : /\ queue'[arrived'[k].slot] \in Inputs
                            /\ Len(queue'[arrived'[k].slot]) = arrived'[k].length
  BY <1>1, <1>3, <1>4, <1>5, <1>6 DEF FifoInv, Whole
<1>8. ASSUME NEW j \in 1 .. n + 1, NEW k \in 1 .. n + 1, j # k
      PROVE  arrived'[j].slot # arrived'[k].slot
  <2>1. CASE j \in 1 .. n /\ k \in 1 .. n
    BY <2>1, <1>3, <1>4, <1>8 DEF FifoInv, Whole
  <2>2. CASE j \in 1 .. n /\ k = n + 1
    BY <2>2, <1>3, <1>4
  <2>3. CASE j = n + 1 /\ k \in 1 .. n
    BY <2>3, <1>3, <1>4
  <2> QED BY <2>1, <2>2, <2>3, <1>6, <1>8
<1> QED BY <1>1, <1>4, <1>7, <1>8 DEF Whole

\* The element that Pop answers leaves, and of its bytes none is another's.
LEMMA PopEndWhole ==
    ASSUME PriorityQueueAssumption, FifoInv, PopEnd
    PROVE  Whole'
<1> PICK p : p = Heaps!FirstOf(item)
  OBVIOUS
<1> PICK n : n = count
  OBVIOUS
<1>1. /\ pc = "heapify" /\ pc' = "idle" /\ arrived' = Heaps!RemoveAt(arrived, p)
      /\ queue' = [queue EXCEPT ![item.slot] = <<>>]
  BY DEF PopEnd, Heap!TakeOut, CopyOut, Heap!FirstOf, Heaps!FirstOf, Heap!RemoveAt, Heaps!RemoveAt
<1>2. /\ arrived \in Seq(Items) /\ n \in Nat /\ Len(arrived) = n + 1
      /\ DOMAIN arrived = 1 .. n + 1 /\ DOMAIN queue = Slots
      /\ \A k \in 1 .. n + 1 : arrived[k].slot \in Slots
  BY <1>1, Arrivals, Kinds DEF FifoInv
<1>3. p \in 1 .. n + 1 /\ arrived[p] = item
  BY <1>1, <1>2 DEF FifoInv, Heaps!TakenIsForemost, Heaps!Foremost
<1>4. /\ DOMAIN arrived' = 1 .. n
      /\ \A k \in 1 .. n : \E i \in 1 .. n + 1 :
           i # p /\ arrived'[k] = arrived[i] /\ i = IF k < p THEN k ELSE k + 1
  <2>1. p \in 1 .. Len(arrived)
    BY <1>2, <1>3
  <2>2. /\ arrived' \in Seq(Items) /\ Len(arrived') = Len(arrived) - 1
        /\ \A k \in 1 .. p - 1 : arrived'[k] = arrived[k]
        /\ \A k \in p .. Len(arrived) - 1 : arrived'[k] = arrived[k + 1]
    BY <2>1, <1>1, <1>2, Heaps!RemoveAtFacts
  <2>3. Len(arrived') = n
    BY <2>2, <1>2
  <2>4. DOMAIN arrived' = 1 .. n
    BY <2>2, <2>3
  <2>5. ASSUME NEW k \in 1 .. n
        PROVE  \E i \in 1 .. n + 1 :
                 i # p /\ arrived'[k] = arrived[i] /\ i = IF k < p THEN k ELSE k + 1
    <3>1. CASE k < p
      <4>1. k \in 1 .. p - 1 /\ k \in 1 .. n + 1 /\ k # p
        BY <3>1, <1>2, <1>3
      <4> QED BY <4>1, <3>1, <2>2
    <3>2. CASE ~(k < p)
      <4>1. k \in p .. n /\ k + 1 \in 1 .. n + 1 /\ k + 1 # p
        BY <3>2, <1>2, <1>3
      <4>2. k \in p .. Len(arrived) - 1
        BY <4>1, <1>2
      <4> QED BY <4>1, <4>2, <3>2, <2>2
    <3> QED BY <3>1, <3>2
  <2> QED BY <2>4, <2>5
<1>5. \A i \in 1 .. n + 1 : i # p => /\ queue'[arrived[i].slot] = queue[arrived[i].slot]
                                     /\ arrived[i].slot # item.slot
  BY <1>1, <1>2, <1>3 DEF FifoInv, Whole
<1>6. \A k \in 1 .. n : /\ queue'[arrived'[k].slot] \in Inputs
                        /\ Len(queue'[arrived'[k].slot]) = arrived'[k].length
  <2>1. SUFFICES ASSUME NEW k \in 1 .. n
                 PROVE  /\ queue'[arrived'[k].slot] \in Inputs
                        /\ Len(queue'[arrived'[k].slot]) = arrived'[k].length
    OBVIOUS
  <2>2. PICK i \in 1 .. n + 1 : i # p /\ arrived'[k] = arrived[i]
    BY <1>4
  <2>3. queue'[arrived[i].slot] = queue[arrived[i].slot]
    BY <2>2, <1>5
  <2> QED BY <2>2, <2>3, <1>2 DEF FifoInv, Whole
<1>7. \A j, k \in 1 .. n : j # k => arrived'[j].slot # arrived'[k].slot
  <2>1. SUFFICES ASSUME NEW j \in 1 .. n, NEW k \in 1 .. n, j # k
                 PROVE  arrived'[j].slot # arrived'[k].slot
    OBVIOUS
  <2>2. PICK i \in 1 .. n + 1 : arrived'[j] = arrived[i] /\ i = IF j < p THEN j ELSE j + 1
    BY <1>4
  <2>3. PICK h \in 1 .. n + 1 : arrived'[k] = arrived[h] /\ h = IF k < p THEN k ELSE k + 1
    BY <1>4
  <2>4. i # h
    BY <2>1, <2>2, <2>3, <1>2, <1>3
  <2> QED BY <2>2, <2>3, <2>4, <1>2 DEF FifoInv, Whole
<1> QED BY <1>1, <1>4, <1>6, <1>7 DEF Whole

LEMMA StepWhole ==
    ASSUME PriorityQueueAssumption, ~ClearsQueued, FifoInv, [Next]_vars
    PROVE  Whole'
<1>1. ASSUME UNCHANGED <<heapVars, queue, bytes>> PROVE Whole'
  BY <1>1, KeptWhole DEF FifoInv, heapVars
<1>2. ASSUME NEW priority \in Priorities, NEW data \in Inputs, PushBegin(priority, data)
      PROVE  Whole'
  <2>1. /\ pc' = "sift" /\ UNCHANGED <<arrived, queue>> /\ bytes' = data
        /\ item'.length = Len(data)
    BY <1>2 DEF PushBegin, Heap!PushBegin, Heap!history
  <2> QED BY <2>1 DEF FifoInv, Whole
<1>3. ASSUME PushSift \/ PopSift PROVE Whole'
  BY <1>3, KeptWhole DEF FifoInv, PushSift, PopSift, Heap!SiftUp, Heap!SiftDown, Heap!history
<1>4. ASSUME PushEnd PROVE Whole'
  BY <1>4, PushEndWhole
<1>5. ASSUME pc' = "idle", arrived' = <<>> PROVE Whole'
  BY <1>5 DEF Whole
<1>6. ASSUME NEW room \in Rooms, PopLast(room) PROVE Whole'
  BY <1>6, <1>5 DEF PopLast, Heap!TakeOnly, Heap!loop
<1>7. ASSUME NEW room \in Rooms, PopBegin(room) PROVE Whole'
  <2>1. /\ pc' = "heapify" /\ UNCHANGED <<arrived, queue>> /\ bytes' = room
        /\ item' = tree[0].element /\ room >= tree[0].element.length
    BY <1>7 DEF PopBegin, Heap!PopBegin, Heap!history
  <2> QED BY <2>1 DEF FifoInv, Whole
<1>8. ASSUME PopEnd PROVE Whole'
  BY <1>8, PopEndWhole
<1>9. ASSUME Clear \/ Reinit PROVE Whole'
  BY <1>9, <1>5 DEF Clear, Reinit, Heap!Empty, Heap!loop
<1>10. CASE \E priority \in Priorities, data \in Inputs : PushRefused(priority, data)
  BY <1>10, <1>1 DEF PushRefused, Answer
<1>11. CASE Peek
  BY <1>11, <1>1 DEF Peek, Answer
<1>12. CASE \E room \in Rooms : PopRefused(room)
  BY <1>12, <1>1 DEF PopRefused, Answer
<1>13. CASE UNCHANGED vars
  BY <1>13, <1>1 DEF vars
<1> QED
  BY <1>2, <1>3, <1>4, <1>6, <1>7, <1>8, <1>9, <1>10, <1>11, <1>12, <1>13 DEF Next

-----------------------------------------------------------------------------
(* Each call answers as PriorityFifo does.                                 *)

\* What the queue is to a caller: the priorities and the bytes as they came.
Told == [k \in DOMAIN arrived |-> BytesOf(arrived[k])]

LEMMA ToldFacts ==
    ASSUME PriorityQueueAssumption, FifoInv
    PROVE  /\ DOMAIN Told = DOMAIN arrived /\ Told \in Seq({Told[k] : k \in DOMAIN arrived})
           /\ Len(Told) = Len(arrived)
           /\ \A k \in DOMAIN arrived :
                /\ Told[k] = <<arrived[k].priority, queue[arrived[k].slot]>>
                /\ Len(Told[k][2]) = arrived[k].length
<1>1. /\ DOMAIN arrived = 1 .. Len(arrived) /\ Len(arrived) \in Nat
      /\ \A k \in DOMAIN arrived : arrived[k].length \in Nat
  BY Arrivals DEF FifoInv
<1>2. DOMAIN Told = DOMAIN arrived /\ Len(Told) = Len(arrived)
      /\ Told \in Seq({Told[k] : k \in DOMAIN arrived})
  BY <1>1 DEF Told
<1>3. ASSUME NEW k \in DOMAIN arrived
      PROVE  /\ Told[k] = <<arrived[k].priority, queue[arrived[k].slot]>>
             /\ Len(queue[arrived[k].slot]) = arrived[k].length
  <2> PICK d : d = queue[arrived[k].slot]
    OBVIOUS
  <2>1. d \in Seq(ToSet(d)) /\ Len(d) = arrived[k].length
    BY DEF FifoInv, Whole, PriorityQueueAssumption
  <2>2. SubSeq(d, 1, Len(d)) = d
    BY <2>1
  <2> QED BY <2>1, <2>2 DEF Told, BytesOf
<1> QED BY <1>2, <1>3

\* What the heap may answer next is what PriorityFifo may.
LEMMA ForemostIsCandidate ==
    ASSUME PriorityQueueAssumption, FifoInv, NEW k, Heaps!Foremost(k)
    PROVE  k \in Fifo!Candidates
<1>1. k \in DOMAIN arrived
  BY DEF Heaps!Foremost
<1>2. \A j \in DOMAIN arrived : Told[j][1] = arrived[j].priority
                               /\ [i \in Items |-> i.priority][arrived[j]] = arrived[j].priority
  BY ToldFacts, Arrivals DEF FifoInv
<1>3. Fifo!IsHighest(k)
  BY <1>1, <1>2, ToldFacts DEF Heaps!Foremost, Fifo!IsHighest, Told
<1>4. ~rolled => Fifo!IsOldest(k)
  <2>1. \A j \in 1 .. k - 1 : j \in DOMAIN arrived
    BY <1>1, Arrivals DEF FifoInv
  <2> QED BY <1>1, <1>2, <2>1 DEF Heaps!Foremost, Fifo!IsOldest, Told
<1>5. rolled => ~(OrderSize + 1 <= OrderSize)
  BY DEF PriorityQueueAssumption
<1> QED BY <1>1, <1>3, <1>4, <1>5 DEF Fifo!Candidates

LEMMA TopIsCandidate ==
    ASSUME PriorityQueueAssumption, FifoInv, pc = "idle", count > 0
    PROVE  \E k \in Fifo!Candidates : k \in DOMAIN arrived /\ arrived[k] = tree[0].element
<1>1. Heaps!Waiting = DOMAIN arrived
  BY DEF Heaps!Waiting
<1>2. PICK f : Heaps!StandsFor(f, Heaps!Used, DOMAIN arrived)
  BY <1>1 DEF FifoInv, Heaps!Standing
<1>3. Heaps!Foremost(f[0]) /\ arrived[f[0]] = tree[0].element
  BY <1>2, HeapAssumed, Heaps!TopIsForemost DEF FifoInv
<1>4. f[0] \in Fifo!Candidates
  BY <1>3, ForemostIsCandidate
<1> QED BY <1>3, <1>4 DEF Heaps!Foremost

\* A function on 1 .. n is a sequence.
LEMMA FunctionIsSeq ==
    ASSUME NEW S, NEW n \in Nat, NEW s, s = [k \in 1 .. n |-> s[k]],
           \A k \in 1 .. n : s[k] \in S
    PROVE  s \in Seq(S) /\ Len(s) = n
<1>1. s \in [1 .. n -> S]
  OBVIOUS
<1> QED BY <1>1

\* An answer that leaves the elements, their bytes and the order alone.
LEMMA SameTold ==
    ASSUME UNCHANGED <<arrived, queue>>
    PROVE  Told' = Told
BY DEF Told, BytesOf

LEMMA RefusedPush ==
    ASSUME PriorityQueueAssumption, FifoInv,
           NEW priority \in Priorities, NEW data \in Inputs, PushRefused(priority, data)
    PROVE  Fifo!Next
<1>1. /\ pc = "idle" /\ UNCHANGED <<arrived, queue, rolled, count, order>>
      /\ Len(Told) = count /\ count \in Nat /\ count <= Depth /\ Depth \in Nat
  BY ToldFacts, Arrivals, Kinds DEF FifoInv, PushRefused, Answer, heapVars
<1>2. Told' = Told
  BY <1>1, SameTold
<1>3. CASE count = Depth /\ out' = Result("Push", <<priority, data>>, "Full", Nothing)
  <2>1. Fifo!Push(<<priority, data>>)
    BY <1>1, <1>2, <1>3 DEF Fifo!Push, Fifo!Answer, Fifo!Result, Result, Told
  <2> QED BY <2>1 DEF Fifo!Next
<1>4. CASE /\ count # Depth /\ Len(data) > ElementSize
           /\ out' = Result("Push", <<priority, data>>, "Too_Large", Nothing)
  <2>1. Len(Told) < Depth
    BY <1>1, <1>4
  <2>2. Fifo!Push(<<priority, data>>)
    BY <2>1, <1>1, <1>2, <1>4 DEF Fifo!Push, Fifo!Answer, Fifo!Result, Result, Told
  <2> QED BY <2>2 DEF Fifo!Next
<1> QED BY <1>3, <1>4 DEF PushRefused, Answer

LEMMA PeekAnswers ==
    ASSUME PriorityQueueAssumption, FifoInv, Peek
    PROVE  Fifo!Next
<1>1. /\ pc = "idle" /\ UNCHANGED <<arrived, queue, rolled, count, order>>
      /\ Len(Told) = count /\ count \in Nat
  BY ToldFacts, Arrivals, Kinds DEF FifoInv, Peek, Answer, heapVars
<1>2. Told' = Told
  BY <1>1, SameTold
<1>3. CASE count = 0
  <2>1. Told = <<>> /\ out' = Result("Peek", Nothing, "Empty", Nothing)
    BY <1>1, <1>3, ToldFacts, EmptySeq DEF Peek, Answer
  <2>2. Fifo!Peek
    BY <2>1, <1>1, <1>2 DEF Fifo!Peek, Fifo!Answer, Fifo!Result, Result, Told
  <2> QED BY <2>2 DEF Fifo!Next
<1>4. CASE count # 0
  <2>1. PICK k \in Fifo!Candidates : k \in DOMAIN arrived /\ arrived[k] = tree[0].element
    BY <1>1, <1>4, TopIsCandidate
  <2>2. out' = Result("Peek", Nothing, "Success", <<arrived[k].priority, arrived[k].length>>)
    BY <2>1, <1>4 DEF Peek, Answer
  <2>3. <<arrived[k].priority, arrived[k].length>> = <<Told[k][1], Len(Told[k][2])>>
    BY <2>1, ToldFacts
  <2>4. Fifo!Peek
    BY <2>1, <2>2, <2>3, <1>1, <1>2 DEF Fifo!Peek, Fifo!Answer, Fifo!Result, Result, Told
  <2> QED BY <2>4 DEF Fifo!Next
<1> QED BY <1>3, <1>4

LEMMA RefusedPop ==
    ASSUME PriorityQueueAssumption, FifoInv, NEW room \in Rooms, PopRefused(room)
    PROVE  Fifo!Next
<1>1. /\ pc = "idle" /\ UNCHANGED <<arrived, queue, rolled, count, order>>
      /\ Len(Told) = count /\ count \in Nat
  BY ToldFacts, Arrivals, Kinds DEF FifoInv, PopRefused, Answer, heapVars
<1>2. Told' = Told
  BY <1>1, SameTold
<1>3. CASE count = 0 /\ out' = Result("Pop", room, "Empty", Nothing)
  <2>1. Told = <<>>
    BY <1>1, <1>3, ToldFacts, EmptySeq
  <2>2. Fifo!Pop(room)
    BY <2>1, <1>1, <1>2, <1>3 DEF Fifo!Pop, Fifo!Answer, Fifo!Result, Result, Told
  <2> QED BY <2>2 DEF Fifo!Next
<1>4. CASE /\ count # 0 /\ room < tree[0].element.length
           /\ out' = Result("Pop", room, "Too_Small", Nothing)
  <2>1. PICK k \in Fifo!Candidates : k \in DOMAIN arrived /\ arrived[k] = tree[0].element
    BY <1>1, <1>4, TopIsCandidate
  <2>2. Len(Told[k][2]) > room
    <3>1. Len(Told[k][2]) = tree[0].element.length
      BY <2>1, ToldFacts
    <3> QED BY <3>1, <1>4
  <2>3. Fifo!Pop(room)
    BY <2>1, <2>2, <1>1, <1>2, <1>4 DEF Fifo!Pop, Fifo!Answer, Fifo!Result, Result, Told
  <2> QED BY <2>3 DEF Fifo!Next
<1> QED BY <1>3, <1>4 DEF PopRefused, Answer

LEMMA PushEndAnswers ==
    ASSUME PriorityQueueAssumption, ~ClearsQueued, FifoInv, PushEnd
    PROVE  Fifo!Next
<1> DEFINE value == <<item.priority, bytes>>
           V == {Told[k] : k \in DOMAIN arrived} \cup {value}
<1>1. /\ pc = "sift" /\ arrived' = Append(arrived, item) /\ count' = count + 1
      /\ order' = (order + 1) % OrderSize
      /\ rolled' = (rolled \/ (count > 0 /\ order = 0))
      /\ queue' = [queue EXCEPT ![item.slot] = bytes]
      /\ out' = Result("Push", value, "Success", Nothing)
  BY DEF PushEnd, Heap!Place
<1>2. /\ item \in Items /\ item.slot \in Slots /\ item.priority \in Priorities
      /\ bytes \in Inputs /\ Len(bytes) = item.length /\ count < Depth
      /\ ~(Len(bytes) > ElementSize)
  BY <1>1, Kinds DEF FifoInv, IInv, AtWork, Items, Whole, PriorityQueueAssumption
<1> PICK n : n = Len(arrived)
  OBVIOUS
<1>3. /\ arrived \in Seq(Items) /\ n \in Nat /\ n = count /\ DOMAIN arrived = 1 .. n
      /\ DOMAIN queue = Slots /\ Len(Told) = n /\ Told \in Seq(V)
      /\ \A k \in 1 .. n : arrived[k].slot \in Slots /\ arrived[k].slot # item.slot
  <2>1. /\ arrived \in Seq(Items) /\ n \in Nat /\ n = count /\ DOMAIN arrived = 1 .. n
        /\ DOMAIN queue = Slots
        /\ \A k \in 1 .. n : arrived[k].slot \in Slots /\ arrived[k].slot # item.slot
    BY <1>1, Arrivals, SlotIsNew DEF FifoInv
  <2>2. Len(Told) = n /\ Told \in Seq({Told[k] : k \in DOMAIN arrived})
    BY ToldFacts
  <2>3. Told \in Seq(V)
    BY <2>2
  <2> QED BY <2>1, <2>2, <2>3
<1>4. Told' = Append(Told, value)
  <2>1. /\ DOMAIN arrived' = 1 .. n + 1
        /\ \A k \in 1 .. n : arrived'[k] = arrived[k]
        /\ arrived'[n + 1] = item
    BY <1>1, <1>2, <1>3
  <2>2. Told' = [k \in 1 .. n + 1 |-> <<arrived'[k].priority,
                                       SubSeq(queue'[arrived'[k].slot], 1, arrived'[k].length)>>]
    BY <2>1 DEF Told, BytesOf
  <2>3. ASSUME NEW k \in 1 .. n PROVE Told'[k] = Told[k]
    <3>1. arrived'[k] = arrived[k] /\ queue'[arrived[k].slot] = queue[arrived[k].slot]
      BY <2>1, <1>1, <1>3
    <3>2. k \in 1 .. n + 1 /\ k \in DOMAIN arrived
      BY <1>3
    <3> QED BY <2>2, <3>1, <3>2 DEF Told, BytesOf
  <2>4. Told'[n + 1] = value
    <3>1. SubSeq(bytes, 1, Len(bytes)) = bytes
      BY <1>2 DEF PriorityQueueAssumption
    <3>2. queue'[item.slot] = bytes /\ n + 1 \in 1 .. n + 1
      BY <1>1, <1>2, <1>3
    <3> QED BY <2>1, <2>2, <3>1, <3>2, <1>2
  <2>5. /\ Append(Told, value) \in Seq(V) /\ Len(Append(Told, value)) = n + 1
        /\ \A k \in 1 .. n : Append(Told, value)[k] = Told[k]
        /\ Append(Told, value)[n + 1] = value
    BY <1>3, AppendProperties
  <2>6. \A k \in 1 .. n + 1 : Told'[k] = Append(Told, value)[k]
    <3>1. \A k \in 1 .. n + 1 : k \in 1 .. n \/ k = n + 1
      BY <1>3
    <3> QED BY <3>1, <2>3, <2>4, <2>5
  <2>7. \A k \in 1 .. n + 1 : Told'[k] \in V
    <3>1. \A k \in 1 .. n + 1 : Append(Told, value)[k] \in V
      BY <2>5
    <3> QED BY <3>1, <2>6
  <2>8. Told' \in Seq(V) /\ Len(Told') = n + 1
    <3> PICK t : t = Told'
      OBVIOUS
    <3>1. t = [k \in 1 .. n + 1 |-> t[k]] /\ n + 1 \in Nat
      BY <2>2, <1>3
    <3>2. \A k \in 1 .. n + 1 : t[k] \in V
      BY <2>7
    <3> HIDE DEF V
    <3>3. t \in Seq(V) /\ Len(t) = n + 1
      BY ONLY <3>1, <3>2, FunctionIsSeq
    <3> QED BY <3>3
  <2> QED BY <2>5, <2>6, <2>8, SeqEqual
<1> DEFINE pushes == IF rolled THEN OrderSize + 1
                     ELSE IF count > 0 /\ order = 0 THEN OrderSize ELSE order
<1>5. pushes' = IF pushes > OrderSize THEN pushes ELSE pushes + 1
  <2>1. /\ order' = IF order + 1 = OrderSize THEN 0 ELSE order + 1
        /\ order \in 0 .. OrderSize - 1 /\ OrderSize \in Nat \ {0} /\ count \in Nat
    BY <1>1, Kinds, Heaps!NextOrder DEF FifoInv
  <2>2. CASE rolled
    <3>1. pushes = OrderSize + 1 /\ pushes' = OrderSize + 1
      BY <2>2, <1>1
    <3> HIDE DEF pushes
    <3> QED BY <3>1, <2>1
  <2>3. CASE ~rolled /\ count > 0 /\ order = 0
    <3>1. pushes = OrderSize /\ pushes' = OrderSize + 1
      BY <2>3, <1>1
    <3> HIDE DEF pushes
    <3> QED BY <3>1, <2>1
  <2>4. CASE ~rolled /\ ~(count > 0 /\ order = 0)
    <3>1. ~rolled' /\ pushes = order
      BY <2>4, <1>1
    <3>2. pushes' = IF order' = 0 THEN OrderSize ELSE order'
      BY <3>1, <1>1, <2>1
    <3>3. pushes' = order + 1
      BY <3>2, <2>1
    <3>4. ~(order > OrderSize)
      BY <2>1
    <3> HIDE DEF pushes
    <3> QED BY <3>1, <3>3, <3>4
  <2> QED BY <2>2, <2>3, <2>4
<1>6. Fifo!Push(value)
  BY <1>1, <1>2, <1>3, <1>4, <1>5 DEF Fifo!Push, Fifo!Result, Result, Told
<1> QED BY <1>2, <1>6 DEF Fifo!Next

LEMMA PopLastAnswers ==
    ASSUME PriorityQueueAssumption, FifoInv, NEW room \in Rooms, PopLast(room)
    PROVE  Fifo!Next
<1>1. /\ pc = "idle" /\ count = 1 /\ room >= tree[0].element.length
      /\ count' = 0 /\ order' = 0 /\ ~rolled' /\ arrived' = <<>>
      /\ out' = Result("Pop", room, "Success", BytesOf(tree[0].element))
  BY DEF PopLast, CopyOut, Heap!TakeOnly
<1>2. PICK k \in Fifo!Candidates : k \in DOMAIN arrived /\ arrived[k] = tree[0].element
  BY <1>1, TopIsCandidate
<1>3. /\ Told \in Seq({Told[i] : i \in DOMAIN arrived}) /\ Len(Told) = 1
      /\ k \in 1 .. Len(Told)
      /\ Told[k] = BytesOf(tree[0].element) /\ Len(Told[k][2]) = tree[0].element.length
      /\ tree[0].element.length \in Nat /\ room \in Nat
  BY <1>1, <1>2, ToldFacts, Arrivals DEF FifoInv, Told, PriorityQueueAssumption
<1>4. Told' = <<>>
  BY <1>1 DEF Told
<1>5. Fifo!RemoveAt(Told, k) = <<>>
  <2>1. /\ Heaps!RemoveAt(Told, k) \in Seq({Told[i] : i \in DOMAIN arrived})
        /\ Len(Heaps!RemoveAt(Told, k)) = Len(Told) - 1
    BY <1>3, Heaps!RemoveAtFacts
  <2>2. Heaps!RemoveAt(Told, k) = <<>>
    BY <2>1, <1>3, EmptySeq
  <2> QED BY <2>2 DEF Heaps!RemoveAt, Fifo!RemoveAt
<1>6. (IF rolled' THEN OrderSize + 1
       ELSE IF count' > 0 /\ order' = 0 THEN OrderSize ELSE order') = 0
  BY <1>1
<1>7. ~(Len(Told[k][2]) > room)
  BY <1>1, <1>3
<1>8. Fifo!Pop(room)
  BY <1>1, <1>2, <1>3, <1>4, <1>5, <1>6, <1>7 DEF Fifo!Pop, Fifo!Result, Result, Told
<1> QED BY <1>8 DEF Fifo!Next

LEMMA PopEndAnswers ==
    ASSUME PriorityQueueAssumption, FifoInv, PopEnd
    PROVE  Fifo!Next
<1> PICK p : p = Heaps!FirstOf(item)
  OBVIOUS
<1> PICK n : n = count
  OBVIOUS
<1>1. /\ pc = "heapify" /\ arrived' = Heaps!RemoveAt(arrived, p)
      /\ queue' = [queue EXCEPT ![item.slot] = <<>>]
      /\ out' = Result("Pop", bytes, "Success", BytesOf(item))
      /\ UNCHANGED <<rolled, count, order>>
  BY DEF PopEnd, Heap!TakeOut, CopyOut, Heap!heap, Heap!FirstOf, Heaps!FirstOf,
     Heap!RemoveAt, Heaps!RemoveAt
<1> DEFINE V == {Told[k] : k \in DOMAIN arrived}
<1>2. /\ arrived \in Seq(Items) /\ n \in Nat /\ Len(arrived) = n + 1
      /\ DOMAIN arrived = 1 .. n + 1 /\ DOMAIN queue = Slots
      /\ \A k \in 1 .. n + 1 : arrived[k].slot \in Slots
      /\ Told \in Seq(V) /\ Len(Told) = n + 1
  BY <1>1, Arrivals, Kinds, ToldFacts DEF FifoInv
<1>3. p \in 1 .. n + 1 /\ arrived[p] = item /\ p \in Fifo!Candidates
  BY <1>1, <1>2, ForemostIsCandidate DEF FifoInv, Heaps!TakenIsForemost, Heaps!Foremost
<1>4. /\ DOMAIN arrived' = 1 .. n
      /\ \A k \in 1 .. p - 1 : arrived'[k] = arrived[k]
      /\ \A k \in p .. n : arrived'[k] = arrived[k + 1]
  <2>1. p \in 1 .. Len(arrived) /\ Len(arrived) - 1 = n
    BY <1>2, <1>3
  <2>2. /\ arrived' \in Seq(Items) /\ Len(arrived') = Len(arrived) - 1
        /\ \A k \in 1 .. p - 1 : arrived'[k] = arrived[k]
        /\ \A k \in p .. Len(arrived) - 1 : arrived'[k] = arrived[k + 1]
    BY <2>1, <1>1, <1>2, Heaps!RemoveAtFacts
  <2> QED BY <2>1, <2>2
<1>5. /\ Heaps!RemoveAt(Told, p) \in Seq(V) /\ Len(Heaps!RemoveAt(Told, p)) = n
      /\ \A k \in 1 .. p - 1 : Heaps!RemoveAt(Told, p)[k] = Told[k]
      /\ \A k \in p .. n : Heaps!RemoveAt(Told, p)[k] = Told[k + 1]
  <2>1. p \in 1 .. Len(Told) /\ Len(Told) - 1 = n
    BY <1>2, <1>3
  <2>2. /\ Heaps!RemoveAt(Told, p) \in Seq(V)
        /\ Len(Heaps!RemoveAt(Told, p)) = Len(Told) - 1
        /\ \A k \in 1 .. p - 1 : Heaps!RemoveAt(Told, p)[k] = Told[k]
        /\ \A k \in p .. Len(Told) - 1 : Heaps!RemoveAt(Told, p)[k] = Told[k + 1]
    BY <2>1, <1>2, Heaps!RemoveAtFacts
  <2> QED BY <2>1, <2>2
<1>6. \A i \in 1 .. n + 1 :
        i # p => /\ queue'[arrived[i].slot] = queue[arrived[i].slot]
                 /\ Told[i] = <<arrived[i].priority,
                               SubSeq(queue[arrived[i].slot], 1, arrived[i].length)>>
  BY <1>1, <1>2, <1>3 DEF FifoInv, Whole, Told, BytesOf
<1>7. Told' = [k \in 1 .. n |-> <<arrived'[k].priority,
                                 SubSeq(queue'[arrived'[k].slot], 1, arrived'[k].length)>>]
  BY <1>4 DEF Told, BytesOf
<1>8. ASSUME NEW k \in 1 .. n
      PROVE  Told'[k] = Heaps!RemoveAt(Told, p)[k]
  <2>1. CASE k < p
    <3>1. k \in 1 .. p - 1 /\ k \in 1 .. n + 1 /\ k # p
      BY <2>1, <1>2, <1>3
    <3>2. Told'[k] = Told[k]
      BY <3>1, <1>4, <1>6, <1>7
    <3> QED BY <3>1, <3>2, <1>5
  <2>2. CASE ~(k < p)
    <3>1. k \in p .. n /\ k + 1 \in 1 .. n + 1 /\ k + 1 # p
      BY <2>2, <1>2, <1>3
    <3>2. Told'[k] = Told[k + 1]
      BY <3>1, <1>4, <1>6, <1>7
    <3> QED BY <3>1, <3>2, <1>5
  <2> QED BY <2>1, <2>2
<1>9. Told' = Heaps!RemoveAt(Told, p)
  <2>1. \A k \in 1 .. n : Heaps!RemoveAt(Told, p)[k] \in V
    BY <1>5
  <2>2. \A k \in 1 .. n : Told'[k] \in V
    BY <2>1, <1>8
  <2>3. Told' \in Seq(V) /\ Len(Told') = n
    <3> PICK t : t = Told'
      OBVIOUS
    <3>1. t = [k \in 1 .. n |-> t[k]] /\ n \in Nat
      BY <1>2, <1>7
    <3>2. \A k \in 1 .. n : t[k] \in V
      BY <2>2
    <3> HIDE DEF V
    <3>3. t \in Seq(V) /\ Len(t) = n
      BY ONLY <3>1, <3>2, FunctionIsSeq
    <3> QED BY <3>3
  <2> QED BY <2>3, <1>5, <1>8, SeqEqual
<1>10. /\ Told[p] = BytesOf(item) /\ ~(Len(Told[p][2]) > bytes)
       /\ bytes \in Rooms /\ Len(Told) # 1
  <2>1. /\ Told[p] = BytesOf(item) /\ Len(Told[p][2]) = item.length /\ item.length \in Nat
    BY <1>2, <1>3, ToldFacts, Arrivals DEF FifoInv, Told
  <2>2. bytes \in Rooms /\ bytes >= item.length /\ bytes \in Nat
    BY <1>1 DEF FifoInv, Whole, PriorityQueueAssumption
  <2>3. n > 0
    BY <1>1, <1>2, Kinds DEF FifoInv, IInv, AtWork, Slots
  <2> QED BY <2>1, <2>2, <2>3, <1>2
<1>11. Told' = Fifo!RemoveAt(Told, p)
  BY <1>9 DEF Heaps!RemoveAt, Fifo!RemoveAt
<1>12. Fifo!Pop(bytes)
  BY <1>1, <1>3, <1>10, <1>11 DEF Fifo!Pop, Fifo!Result, Result, Told
<1> QED BY <1>10, <1>12 DEF Fifo!Next

LEMMA StepAnswers ==
    ASSUME PriorityQueueAssumption, ~ClearsQueued, FifoInv, [Next]_vars
    PROVE  [Fifo!Next]_Fifo!vars
<1>1. ASSUME UNCHANGED <<arrived, queue, rolled, order, out>>, count > 0 <=> count' > 0
      PROVE  UNCHANGED Fifo!vars
  <2>1. Told' = Told
    BY <1>1, SameTold
  <2> QED BY <1>1, <2>1 DEF Fifo!vars, Told
<1>2. ASSUME NEW priority \in Priorities, NEW data \in Inputs, PushBegin(priority, data)
      PROVE  UNCHANGED Fifo!vars
  BY <1>1, <1>2 DEF PushBegin, Heap!PushBegin, Heap!heap, Heap!history
<1>3. ASSUME PushSift PROVE UNCHANGED Fifo!vars
  BY <1>1, <1>3 DEF PushSift, Heap!SiftUp, Heap!history
<1>4. ASSUME PopSift PROVE UNCHANGED Fifo!vars
  BY <1>1, <1>4 DEF PopSift, Heap!SiftDown, Heap!history
<1>5. ASSUME NEW room \in Rooms, PopBegin(room) PROVE UNCHANGED Fifo!vars
  <2>1. count \in Nat
    BY Kinds DEF FifoInv
  <2>2. /\ UNCHANGED <<arrived, queue, rolled, order, out>> /\ count > 1 /\ count' = count - 1
    BY <1>5 DEF PopBegin, Heap!PopBegin, Heap!history
  <2>3. count > 0 <=> count' > 0
    BY <2>1, <2>2
  <2> QED BY <1>1, <2>2, <2>3
<1>6. ASSUME Clear \/ Reinit PROVE Fifo!Next
  <2>1. /\ arrived' = <<>> /\ ~rolled' /\ count' = 0 /\ order' = 0
        /\ out' = Result("Clear", Nothing, "Success", Nothing)
    BY <1>6 DEF Clear, Reinit, Heap!Empty
  <2>2. Told' = <<>>
    BY <2>1 DEF Told
  <2>3. Fifo!Clear
    BY <2>1, <2>2 DEF Fifo!Clear, Fifo!Result, Result, Told
  <2> QED BY <2>3 DEF Fifo!Next
<1>7. ASSUME UNCHANGED vars PROVE UNCHANGED Fifo!vars
  BY <1>1, <1>7 DEF vars, heapVars
<1> QED
  BY <1>2, <1>3, <1>4, <1>5, <1>6, <1>7, RefusedPush, PushEndAnswers, PeekAnswers, RefusedPop,
     PopLastAnswers, PopEndAnswers DEF Next

\* Whatever the depth, the size of a slot, the priorities, the inputs and the
\* rooms: each call of the priority queue answers as PriorityFifo does, unless
\* Clear meets a queue with elements on it.
THEOREM QueueIsPriorityFifo ==
    ASSUME ~ClearsQueued
    PROVE  Spec => ImplementsPriorityFifo
<1>1. Init => FifoInv /\ Fifo!Init
  <2>1. SUFFICES ASSUME Init PROVE FifoInv /\ Fifo!Init
    OBVIOUS
  <2>2. /\ arrived = <<>> /\ ~rolled /\ count = 0 /\ order = 0
        /\ out = Result("Init", Nothing, "Success", Nothing)
    BY <2>1 DEF Init, Heap!Init, Heap!Result, Result
  <2>3. Told = <<>>
    BY <2>2 DEF Told
  <2>4. Fifo!Init
    BY <2>2, <2>3 DEF Fifo!Init, Fifo!Result, Result, Told
  <2> QED
    BY <2>1, <2>4, PriorityQueueAssumption, InitInvariant, InitHeap, InitWhole DEF FifoInv
<1>2. FifoInv /\ [Next]_vars => FifoInv' /\ [Fifo!Next]_Fifo!vars
  <2>1. SUFFICES ASSUME FifoInv, [Next]_vars PROVE FifoInv' /\ [Fifo!Next]_Fifo!vars
    OBVIOUS
  <2>2. IInv' /\ Heaps!FifoInv'
    BY <2>1, PriorityQueueAssumption, StepInvariant, StepHeap DEF FifoInv
  <2> QED BY <2>1, <2>2, PriorityQueueAssumption, StepWhole, StepAnswers DEF FifoInv
<1> QED BY <1>1, <1>2, PTL DEF Spec, ImplementsPriorityFifo, Fifo!Spec

=============================================================================
