------------------------------ MODULE HeapProofs -----------------------------
(***************************************************************************)
(* The heap of any depth answers the element of the highest priority, and  *)
(* of those the oldest.  The tree is ordered between two calls; within a   *)
(* call it is ordered everywhere but around one place, which moves up the  *)
(* tree in Push and down in Pop.                                           *)
(***************************************************************************)
EXTENDS Heap, TLAPS, WellFoundedInduction, SequenceTheorems

\* The places that hold a node, where index is a hole while Push looks for
\* the place of its element.
Used == IF pc = "sift" THEN (0 .. count) \ {index} ELSE 0 .. count - 1

\* Between calls every parent may leave before its children.
IdleOrdered ==
    pc = "idle" => \A i \in Used : i > 0 => Before(Parent(i), i)

\* In Push this is so away from the hole and across it.
SiftOrdered ==
    pc = "sift" =>
        \A i \in Used : i > 0 =>
            IF Parent(i) # index THEN Before(Parent(i), i)
            ELSE /\ PriorityAt(i) < Priority[item]
                 /\ index > 0 => Before(Parent(index), i)

\* In Pop, away from the node at index and across it.
HeapifyOrdered ==
    pc = "heapify" =>
        \A i \in Used : i > 0 =>
            IF Parent(i) # index THEN Before(Parent(i), i)
            ELSE index > 0 => Before(Parent(index), i)

\* The next element is younger than all others, unless Order rolls over.
OrdersBelow ==
    rolled \/ order = 0 \/ \A i \in Used : tree[i].order < order

Filled == \A i \in Used : tree[i] \in Node

Turns ==
    /\ pc = "sift" => item \in Elements /\ count < Depth /\ index <= count
                      /\ iter + index <= count
    /\ pc = "heapify" => item \in Elements /\ index < count /\ iter <= index

IInv ==
    /\ TypeOK
    /\ Turns
    /\ Filled
    /\ OrdersBelow
    /\ IdleOrdered
    /\ SiftOrdered
    /\ HeapifyOrdered

-----------------------------------------------------------------------------
(* The shape of the tree.                                                  *)

\* The parent of a place is the one whose left or right child it is.
LEMMA ParentFacts ==
    ASSUME NEW i \in Nat, i > 0
    PROVE  /\ Parent(i) \in Nat
           /\ Parent(i) < i
           /\ i = Left(Parent(i)) \/ i = Right(Parent(i))
           /\ \A p \in Nat : i = Left(p) \/ i = Right(p) => Parent(i) = p
BY DEF Parent, Left, Right

\* Two nodes in use have priorities and orders to compare.
LEMMA NodeFacts ==
    ASSUME NEW i, tree[i] \in Node, HeapAssumption
    PROVE  /\ PriorityAt(i) \in Nat
           /\ tree[i].order \in Nat
           /\ tree[i].element \in Elements
BY DEF HeapAssumption, Node, PriorityAt

\* One of two nodes may leave before the other.
LEMMA LargerIsFirst ==
    ASSUME HeapAssumption, NEW a, NEW b, tree[a] \in Node, tree[b] \in Node
    PROVE  /\ Larger(a, b) \in {a, b}
           /\ Before(Larger(a, b), a)
           /\ Before(Larger(a, b), b)
BY NodeFacts DEF Larger, Before

LEMMA BeforeTransitive ==
    ASSUME HeapAssumption, NEW a, NEW b, NEW c,
           tree[a] \in Node, tree[b] \in Node, tree[c] \in Node,
           Before(a, b), Before(b, c)
    PROVE  Before(a, c)
BY NodeFacts DEF Before

LEMMA BeforeReflexive ==
    ASSUME HeapAssumption, NEW a, tree[a] \in Node
    PROVE  Before(a, a)
BY NodeFacts DEF Before

\* The largest of a node and its children leaves before all three.
LEMMA LargestIsFirst ==
    ASSUME HeapAssumption, NEW i \in Nat, TypeOK, Filled, pc = "heapify", Left(i) < count
    PROVE  /\ Largest(i) \in {i, Left(i), Right(i)}
           /\ Largest(i) < count
           /\ Before(Largest(i), i)
           /\ Before(Largest(i), Left(i))
           /\ Right(i) < count => Before(Largest(i), Right(i))
<1>1. /\ i \in Used /\ Left(i) \in Used
      /\ Right(i) < count => Right(i) \in Used
  BY DEF Left, Right, Used, TypeOK
<1>2. /\ tree[i] \in Node /\ tree[Left(i)] \in Node
      /\ Right(i) < count => tree[Right(i)] \in Node
  BY <1>1 DEF Filled
<1> DEFINE first == Larger(Left(i), i)
<1>3. /\ first \in {i, Left(i)} /\ tree[first] \in Node
      /\ Before(first, i) /\ Before(first, Left(i))
  BY <1>2, LargerIsFirst
<1>4. i < count /\ first < count
  BY <1>1, <1>3 DEF Left, TypeOK
<1>5. CASE Right(i) < count
  <2>1. /\ Larger(Right(i), first) \in {Right(i), first}
        /\ Before(Larger(Right(i), first), Right(i))
        /\ Before(Larger(Right(i), first), first)
    BY <1>2, <1>3, <1>5, LargerIsFirst
  <2>2. tree[Larger(Right(i), first)] \in Node
    BY <2>1, <1>2, <1>3, <1>5
  <2>3. /\ Before(Larger(Right(i), first), i)
        /\ Before(Larger(Right(i), first), Left(i))
    BY <2>1, <2>2, <1>2, <1>3, BeforeTransitive
  <2> QED BY <2>1, <2>3, <1>3, <1>4, <1>5 DEF Largest
<1>6. CASE ~(Right(i) < count)
  BY <1>3, <1>4, <1>6 DEF Largest
<1> QED BY <1>5, <1>6

-----------------------------------------------------------------------------
(* One lemma per action.                                                   *)

LEMMA InitInvariant ==
    ASSUME HeapAssumption, Init
    PROVE  IInv
<1>1. /\ tree \in [Indexes -> Node \cup {Nothing}]
      /\ count = 0 /\ order = 0 /\ pc = "idle"
      /\ index = 0 /\ iter = 0 /\ item = Nothing /\ rolled = FALSE
  BY DEF Init, EmptyTree
<1>2. Used = {}
  BY <1>1 DEF Used
<1>3. TypeOK
  <2>1. 0 \in Indexes /\ 0 \in 0 .. Depth /\ 0 \in 0 .. OrderSize - 1 /\ 0 \in Nat
    BY DEF HeapAssumption, Indexes
  <2> QED BY <1>1, <2>1 DEF TypeOK
<1> QED
  BY <1>1, <1>2, <1>3 DEF IInv, Turns, Filled, OrdersBelow, IdleOrdered,
     SiftOrdered, HeapifyOrdered

\* An empty heap between two calls.
LEMMA EmptiedInvariant ==
    ASSUME HeapAssumption, IInv,
           tree' \in [Indexes -> Node \cup {Nothing}],
           count' = 0, order' = 0, rolled' = FALSE,
           UNCHANGED loop, pc = "idle"
    PROVE  IInv'
<1>1. Used' = {}
  BY DEF Used, loop
<1>2. TypeOK'
  <2>1. 0 \in 0 .. Depth /\ 0 \in 0 .. OrderSize - 1
    BY DEF HeapAssumption
  <2>2. /\ pc' \in {"idle", "sift", "heapify"} /\ item' \in Elements \cup {Nothing}
        /\ index' \in Indexes /\ iter' \in Nat /\ rolled' \in BOOLEAN
    BY DEF IInv, TypeOK, loop
  <2> QED BY <2>1, <2>2 DEF TypeOK
<1> QED
  BY <1>1, <1>2 DEF IInv, Turns, Filled, OrdersBelow, IdleOrdered,
     SiftOrdered, HeapifyOrdered, loop

LEMMA PushBeginInvariant ==
    ASSUME HeapAssumption, IInv, NEW e \in Elements, PushBegin(e)
    PROVE  IInv'
<1> USE DEF heap, history
<1>1. /\ pc = "idle" /\ count < Depth /\ pc' = "sift" /\ item' = e
      /\ index' = count /\ iter' = 0
      /\ UNCHANGED <<tree, count, order, rolled>>
  BY DEF PushBegin
<1>2. Used' = Used /\ Used = 0 .. count - 1
  BY <1>1 DEF Used, IInv, TypeOK
<1>3. TypeOK'
  BY <1>1 DEF IInv, TypeOK, HeapAssumption, Indexes
<1>4. Turns' /\ Filled' /\ OrdersBelow'
  BY <1>1, <1>2 DEF IInv, TypeOK, Turns, Filled, OrdersBelow
<1>5. SiftOrdered'
  <2>1. SUFFICES ASSUME NEW i \in Used, i > 0
                 PROVE  Parent(i) # index' /\ Before(Parent(i), i)'
    BY <1>1, <1>2 DEF SiftOrdered
  <2>2. i \in Nat /\ Parent(i) < i /\ Parent(i) \in Nat /\ i < count
    BY <1>2, <2>1, ParentFacts DEF IInv, TypeOK
  <2>3. Parent(i) # index'
    BY <1>1, <2>2 DEF IInv, TypeOK
  <2>4. Before(Parent(i), i)
    BY <1>1, <2>1 DEF IInv, IdleOrdered
  <2> QED BY <1>1, <2>3, <2>4 DEF Before, PriorityAt
<1> QED BY <1>1, <1>3, <1>4, <1>5 DEF IInv, IdleOrdered, HeapifyOrdered

LEMMA SiftUpInvariant ==
    ASSUME HeapAssumption, IInv, SiftUp
    PROVE  IInv'
<1> PICK p : p = Parent(index)
  OBVIOUS
<1>1. /\ pc = "sift" /\ index > 0 /\ PriorityAt(p) < Priority[item]
      /\ tree' = [tree EXCEPT ![index] = tree[p]]
      /\ index' = p /\ iter' = iter + 1
      /\ UNCHANGED <<count, order, pc, item, rolled>>
  BY DEF SiftUp, Sifts, history
<1>2. /\ index \in Nat /\ index <= count /\ count < Depth /\ count \in Nat
      /\ item \in Elements /\ iter \in Nat /\ iter + index <= count
      /\ Depth \in Nat
  BY <1>1 DEF IInv, TypeOK, Turns, Indexes, HeapAssumption
<1>3. p \in Nat /\ p < index
  BY <1>1, <1>2, ParentFacts
<1>4. /\ Used = (0 .. count) \ {index}
      /\ Used' = (0 .. count) \ {p}
      /\ Used \subseteq Indexes /\ index \in Indexes /\ p \in Used
  BY <1>1, <1>2, <1>3 DEF Used, Indexes
<1>5. /\ \A i \in Used : tree'[i] = tree[i] /\ tree[i] \in Node
      /\ tree'[index] = tree[p]
  BY <1>1, <1>4 DEF IInv, TypeOK, Filled
<1>6. TypeOK'
  BY <1>1, <1>2, <1>3, <1>4, <1>5 DEF IInv, TypeOK, Indexes
<1>7. Turns'
  BY <1>1, <1>2, <1>3 DEF Turns
<1>8. Filled' /\ OrdersBelow'
  BY <1>1, <1>4, <1>5 DEF IInv, Filled, OrdersBelow
<1>9. SiftOrdered'
  <2>1. SUFFICES ASSUME NEW i \in Used', i > 0
                 PROVE  IF Parent(i) # p THEN Before(Parent(i), i)'
                        ELSE /\ PriorityAt(i)' < Priority[item]
                             /\ p > 0 => Before(Parent(p), i)'
    BY <1>1 DEF SiftOrdered, Before, PriorityAt
  <2>2. i \in Nat /\ i <= count /\ i # p
    BY <1>2, <1>4, <2>1
  <2>3. Parent(i) \in Nat /\ Parent(i) < i
    BY <2>1, <2>2, ParentFacts
  <2>4. CASE i = index
    <3>1. Parent(i) = p
      BY <2>4
    <3>2. PriorityAt(i)' = PriorityAt(p)
      BY <1>5, <2>4 DEF PriorityAt
    <3>3. p > 0 => Before(Parent(p), i)'
      <4>1. SUFFICES ASSUME p > 0 PROVE Before(Parent(p), i)'
        OBVIOUS
      <4>2. Parent(p) \in Nat /\ Parent(p) < p
        BY <4>1, <1>3, ParentFacts
      <4>3. Parent(p) \in Used /\ Parent(p) # index
        BY <4>2, <1>2, <1>3, <1>4
      <4>4. Before(Parent(p), p)
        BY <4>1, <4>3, <1>1, <1>4 DEF IInv, SiftOrdered
      <4> QED BY <4>3, <4>4, <1>1, <1>5, <2>4 DEF Before, PriorityAt
    <3> QED BY <3>1, <3>2, <3>3, <1>1
  <2>5. CASE i # index
    <3>1. i \in Used /\ tree'[i] = tree[i] /\ tree[i] \in Node
      BY <1>4, <1>5, <2>1, <2>5
    <3>2. CASE Parent(i) = index
      <4>1. Before(p, i)
        BY <1>1, <2>1, <3>1, <3>2 DEF IInv, SiftOrdered
      <4>2. Before(Parent(i), i)'
        BY <4>1, <3>1, <3>2, <1>1, <1>5 DEF Before, PriorityAt
      <4> QED BY <4>2, <3>2, <1>3
    <3>3. CASE Parent(i) # index
      <4>1. Before(Parent(i), i)
        BY <1>1, <2>1, <3>1, <3>3 DEF IInv, SiftOrdered
      <4>2. Parent(i) \in Used /\ tree'[Parent(i)] = tree[Parent(i)]
            /\ tree[Parent(i)] \in Node
        BY <1>2, <1>4, <1>5, <2>2, <2>3, <3>3
      <4>3. Before(Parent(i), i)'
        BY <4>1, <4>2, <3>1, <1>1 DEF Before, PriorityAt
      <4>4. CASE Parent(i) = p
        <5>1. PriorityAt(i) <= PriorityAt(p)
          BY <4>1, <4>2, <4>4, <3>1, NodeFacts DEF Before
        <5>2. PriorityAt(i)' < Priority[item]
          BY <5>1, <4>2, <4>4, <3>1, <1>1, <1>2, NodeFacts DEF PriorityAt, HeapAssumption
        <5>3. p > 0 => Before(Parent(p), i)'
          <6>1. SUFFICES ASSUME p > 0 PROVE Before(Parent(p), i)'
            OBVIOUS
          <6>2. Parent(p) \in Nat /\ Parent(p) < p
            BY <6>1, <1>3, ParentFacts
          <6>3. Parent(p) \in Used /\ Parent(p) # index
            BY <6>2, <1>2, <1>3, <1>4
          <6>4. Before(Parent(p), p)
            BY <6>1, <6>3, <1>1, <1>4 DEF IInv, SiftOrdered
          <6>5. Before(Parent(p), i)
            BY <6>3, <6>4, <4>1, <4>2, <4>4, <3>1, <1>5, BeforeTransitive
          <6> QED BY <6>3, <6>5, <3>1, <1>1, <1>5 DEF Before, PriorityAt
        <5> QED BY <5>2, <5>3, <4>4
      <4> QED BY <4>3, <4>4
    <3> QED BY <3>2, <3>3
  <2> QED BY <2>4, <2>5
<1> QED BY <1>1, <1>6, <1>7, <1>8, <1>9 DEF IInv, IdleOrdered, HeapifyOrdered

LEMMA PlaceInvariant ==
    ASSUME HeapAssumption, IInv, Place
    PROVE  IInv'
<1> DEFINE node == [order |-> order, element |-> item]
<1>1. /\ pc = "sift" /\ ~Sifts
      /\ tree' = [tree EXCEPT ![index] = node]
      /\ count' = count + 1
      /\ order' = (order + 1) % OrderSize
      /\ pc' = "idle" /\ item' = Nothing /\ index' = 0 /\ iter' = 0
      /\ rolled' = (rolled \/ (count > 0 /\ order = 0))
  BY DEF Place
<1>2. /\ index \in Nat /\ index <= count /\ count < Depth /\ count \in Nat
      /\ item \in Elements /\ iter \in Nat /\ iter + index <= count
      /\ order \in 0 .. OrderSize - 1 /\ OrderSize \in Nat \ {0} /\ Depth \in Nat
  BY <1>1 DEF IInv, TypeOK, Turns, Indexes, HeapAssumption
<1>3. node \in Node
  BY <1>2 DEF Node
<1>4. /\ Used = (0 .. count) \ {index}
      /\ Used' = 0 .. count
      /\ Used' \subseteq Indexes /\ index \in Indexes
  BY <1>1, <1>2 DEF Used, Indexes
<1>5. /\ \A i \in Used : tree'[i] = tree[i] /\ tree[i] \in Node
      /\ tree'[index] = node
  BY <1>1, <1>4 DEF IInv, TypeOK, Filled
<1> HIDE DEF node
<1>6. order' \in 0 .. OrderSize - 1 /\ (order' = 0 \/ order' = order + 1)
  BY <1>1, <1>2
<1>7. TypeOK'
  <2>1. tree' \in [Indexes -> Node \cup {Nothing}]
    BY <1>1, <1>3, <1>4 DEF IInv, TypeOK
  <2> QED BY <1>1, <1>2, <1>6, <2>1 DEF IInv, TypeOK, Indexes, HeapAssumption
<1>8. Filled'
  BY <1>3, <1>4, <1>5 DEF Filled
<1>9. rolled' \/ \A i \in Used : tree[i].order < order
  <2>1. CASE rolled
    BY <1>1, <2>1
  <2>2. CASE order = 0 /\ count > 0
    BY <1>1, <2>2
  <2>3. CASE order = 0 /\ count = 0
    BY <1>2, <1>4, <2>3
  <2> QED BY <1>2, <2>1, <2>2, <2>3 DEF IInv, OrdersBelow
<1>10. OrdersBelow'
  <2>1. SUFFICES ASSUME ~rolled', order' = order + 1, NEW i \in Used'
                 PROVE  tree'[i].order < order + 1
    BY <1>6 DEF OrdersBelow
  <2>2. CASE i = index
    BY <2>2, <1>5, <1>2 DEF node
  <2>3. CASE i # index
    <3>1. i \in Used
      BY <1>4, <2>1, <2>3
    <3>2. tree'[i] = tree[i] /\ tree[i].order < order /\ tree[i].order \in Nat
      BY <3>1, <1>5, <1>9, <2>1, NodeFacts
    <3> QED BY <3>2, <1>2
  <2> QED BY <2>2, <2>3
<1>11. IdleOrdered'
  <2>1. SUFFICES ASSUME NEW i \in Used', i > 0
                 PROVE  Before(Parent(i), i)'
    BY DEF IdleOrdered
  <2>2. i \in Nat /\ i <= count
    BY <1>2, <1>4, <2>1
  <2>3. Parent(i) \in Nat /\ Parent(i) < i
    BY <2>1, <2>2, ParentFacts
  <2>4. CASE i = index
    <3>1. Parent(i) \in Used
      BY <1>2, <1>4, <2>2, <2>3, <2>4
    <3>2. ~(PriorityAt(Parent(i)) < Priority[item])
      BY <1>1, <1>2, <2>1, <2>4 DEF Sifts
    <3>3. PriorityAt(Parent(i)) \in Nat /\ Priority[item] \in Nat
          /\ tree[Parent(i)].order \in Nat
      BY <3>1, <1>2, <1>5, NodeFacts DEF HeapAssumption
    <3>4. /\ PriorityAt(i)' = Priority[item] /\ tree'[i].order = order
          /\ PriorityAt(Parent(i))' = PriorityAt(Parent(i))
          /\ tree'[Parent(i)] = tree[Parent(i)]
      BY <3>1, <1>5, <2>4 DEF PriorityAt, node
    <3>5. rolled' \/ tree[Parent(i)].order <= order
      BY <1>9, <1>2, <3>1, <3>3
    <3> QED BY <3>2, <3>3, <3>4, <3>5 DEF Before
  <2>5. CASE i # index
    <3>1. i \in Used /\ tree'[i] = tree[i] /\ tree[i] \in Node
      BY <1>4, <1>5, <2>1, <2>5
    <3>2. CASE Parent(i) = index
      <4>1. PriorityAt(i) < Priority[item]
        BY <1>1, <2>1, <3>1, <3>2 DEF IInv, SiftOrdered
      <4>2. PriorityAt(i)' = PriorityAt(i) /\ PriorityAt(Parent(i))' = Priority[item]
        BY <1>5, <3>1, <3>2 DEF PriorityAt, node
      <4> QED BY <4>1, <4>2, <3>1, <1>2, NodeFacts DEF Before, HeapAssumption
    <3>3. CASE Parent(i) # index
      <4>1. Before(Parent(i), i)
        BY <1>1, <2>1, <3>1, <3>3 DEF IInv, SiftOrdered
      <4>2. Parent(i) \in Used /\ tree'[Parent(i)] = tree[Parent(i)]
        BY <1>2, <1>4, <1>5, <2>2, <2>3, <3>3
      <4> QED BY <4>1, <4>2, <3>1, <1>1 DEF Before, PriorityAt
    <3> QED BY <3>2, <3>3
  <2> QED BY <2>4, <2>5
<1> QED BY <1>1, <1>7, <1>8, <1>10, <1>11 DEF IInv, Turns, SiftOrdered, HeapifyOrdered

LEMMA PopBeginInvariant ==
    ASSUME HeapAssumption, IInv, PopBegin
    PROVE  IInv'
<1>1. /\ pc = "idle" /\ count > 1 /\ item' = tree[0].element
      /\ count' = count - 1 /\ tree' = LastToFirst /\ pc' = "heapify"
      /\ index' = 0 /\ iter' = 0 /\ UNCHANGED <<order, rolled>>
  BY DEF PopBegin, history
<1>2. count \in Nat /\ count <= Depth /\ Depth \in Nat
  BY <1>1 DEF IInv, TypeOK, HeapAssumption
<1>3. /\ Used = 0 .. count - 1 /\ Used' = 0 .. count - 2
      /\ Used' \subseteq Indexes /\ Used' \subseteq Used
      /\ 0 \in Indexes /\ 0 \in Used /\ count - 1 \in Used
  BY <1>1, <1>2 DEF Used, Indexes
<1>4. \A i \in Used : tree[i] \in Node
  BY DEF IInv, Filled
<1>5. /\ tree' = [i \in Indexes |-> IF i >= count - 1 THEN Nothing
                                    ELSE IF i = 0 THEN tree[count - 1] ELSE tree[i]]
      /\ tree'[0] = tree[count - 1]
      /\ \A i \in Used' : i > 0 => tree'[i] = tree[i]
  BY <1>1, <1>2, <1>3 DEF LastToFirst, Indexes
<1>6. \A i \in Used' : tree'[i] \in Node /\ \E j \in Used : tree'[i] = tree[j]
  <2>1. SUFFICES ASSUME NEW i \in Used'
                 PROVE  tree'[i] \in Node /\ \E j \in Used : tree'[i] = tree[j]
    OBVIOUS
  <2>2. CASE i = 0
    BY <2>2, <1>3, <1>4, <1>5
  <2>3. CASE i # 0
    <3>1. i > 0
      BY <1>2, <1>3, <2>3
    <3> QED BY <3>1, <1>3, <1>4, <1>5
  <2> QED BY <2>2, <2>3
<1>7. TypeOK'
  <2>1. tree' \in [Indexes -> Node \cup {Nothing}]
    <3>1. \A i \in Indexes : i < count - 1 => i \in Used'
      BY <1>2, <1>3 DEF Indexes
    <3>2. \A i \in Indexes : i >= count - 1 => tree'[i] = Nothing
      BY <1>5
    <3>3. \A i \in Indexes : i >= count - 1 \/ i < count - 1
      BY <1>2 DEF Indexes
    <3> QED BY <3>1, <3>2, <3>3, <1>5, <1>6
  <2>2. item' \in Elements
    BY <1>1, <1>3, <1>4, NodeFacts
  <2> QED BY <1>1, <1>2, <1>3, <2>1, <2>2 DEF IInv, TypeOK
<1>8. Turns'
  BY <1>1, <1>2, <1>3, <1>4, NodeFacts DEF Turns
<1>9. Filled'
  BY <1>6 DEF Filled
<1>10. OrdersBelow'
  <2>1. rolled \/ order = 0 \/ \A i \in Used : tree[i].order < order
    BY DEF IInv, OrdersBelow
  <2>2. (\A i \in Used : tree[i].order < order)
           => \A i \in Used' : tree'[i].order < order
    BY <1>6
  <2> QED BY <1>1, <2>1, <2>2 DEF OrdersBelow
<1>11. HeapifyOrdered'
  <2>1. SUFFICES ASSUME NEW i \in Used', i > 0, Parent(i) # 0
                 PROVE  Before(Parent(i), i)'
    BY <1>1 DEF HeapifyOrdered
  <2>2. i \in Nat /\ i < count - 1
    BY <1>2, <1>3
  <2>3. Parent(i) \in Nat /\ Parent(i) < i
    BY <2>1, <2>2, ParentFacts
  <2>4. Parent(i) \in Used' /\ Parent(i) > 0
    BY <1>2, <1>3, <2>1, <2>2, <2>3
  <2>5. Before(Parent(i), i)
    BY <1>1, <1>3, <2>1 DEF IInv, IdleOrdered
  <2> QED BY <2>1, <2>4, <2>5, <1>1, <1>5 DEF Before, PriorityAt
<1> QED BY <1>1, <1>7, <1>8, <1>9, <1>10, <1>11 DEF IInv, IdleOrdered, SiftOrdered

LEMMA SiftDownInvariant ==
    ASSUME HeapAssumption, IInv, SiftDown
    PROVE  IInv'
<1> PICK m : m = Largest(index)
  OBVIOUS
<1> PICK x : x = index
  OBVIOUS
<1>1. /\ pc = "heapify" /\ Left(x) < count /\ m # x
      /\ tree' = [tree EXCEPT ![x] = tree[m], ![m] = tree[x]]
      /\ index' = m /\ iter' = iter + 1
      /\ UNCHANGED <<count, order, pc, item, rolled>>
  BY DEF SiftDown, SiftsDown, history
<1>2. /\ x \in Nat /\ x < count /\ count \in Nat /\ count <= Depth /\ Depth \in Nat
      /\ item \in Elements /\ iter \in Nat /\ iter <= x
  BY <1>1 DEF IInv, TypeOK, Turns, Indexes, HeapAssumption
<1>3. /\ m \in {Left(x), Right(x)} /\ m < count
      /\ Before(m, x) /\ Before(m, Left(x))
      /\ Right(x) < count => Before(m, Right(x))
  BY <1>1, <1>2, LargestIsFirst DEF IInv
<1>4. m \in Nat /\ x < m /\ Parent(m) = x
  BY <1>2, <1>3, ParentFacts DEF Left, Right
<1>5. /\ Used = 0 .. count - 1 /\ Used' = Used /\ Used \subseteq Indexes
      /\ x \in Used /\ m \in Used /\ \A i \in Used : tree[i] \in Node
  BY <1>1, <1>2, <1>3, <1>4 DEF Used, Indexes, IInv, Filled
<1>6. /\ tree'[x] = tree[m] /\ tree'[m] = tree[x]
      /\ \A i \in Used : i # x /\ i # m => tree'[i] = tree[i]
  BY <1>1, <1>5 DEF IInv, TypeOK
<1>7. TypeOK'
  BY <1>1, <1>2, <1>5 DEF IInv, TypeOK
<1>8. Turns'
  BY <1>1, <1>2, <1>3, <1>4 DEF Turns
<1>9. Filled' /\ OrdersBelow'
  BY <1>1, <1>5, <1>6 DEF IInv, Filled, OrdersBelow
<1>10. HeapifyOrdered'
  <2>1. SUFFICES ASSUME NEW i \in Used, i > 0
                 PROVE  IF Parent(i) # m THEN Before(Parent(i), i)'
                        ELSE Before(x, i)'
    BY <1>1, <1>4, <1>5 DEF HeapifyOrdered, Before, PriorityAt
  <2>2. i \in Nat /\ i < count
    BY <1>2, <1>5
  <2>3. Parent(i) \in Nat /\ Parent(i) < i
    BY <2>1, <2>2, ParentFacts
  <2>4. Parent(i) \in Used
    BY <1>2, <1>5, <2>2, <2>3
  <2>5. CASE Parent(i) = m
    <3>1. i # x /\ i # m /\ Parent(i) # x
      BY <1>1, <1>4, <2>2, <2>3, <2>5
    <3>2. Before(m, i)
      BY <1>1, <2>1, <2>5, <3>1 DEF IInv, HeapifyOrdered
    <3> QED BY <3>1, <3>2, <1>1, <1>6, <2>5 DEF Before, PriorityAt
  <2>6. CASE i = m
    <3>1. Before(m, x)
      BY <1>3
    <3>2. Before(x, i)'
      BY <3>1, <2>6, <1>1, <1>6 DEF Before, PriorityAt
    <3> QED BY <3>2, <2>6, <1>1, <1>4
  <2>7. CASE i = x
    <3>1. Before(Parent(x), m)
      BY <1>1, <1>4, <1>5, <2>1, <2>7 DEF IInv, HeapifyOrdered
    <3>2. Parent(x) # x /\ Parent(x) # m
      BY <1>4, <1>2, <2>3, <2>7
    <3>3. Before(Parent(x), x)'
      BY <3>1, <3>2, <1>1, <1>6, <2>4, <2>7 DEF Before, PriorityAt
    <3> QED BY <3>2, <3>3, <2>7
  <2>8. CASE Parent(i) = x /\ i # m
    <3>1. i = Left(x) \/ i = Right(x)
      BY <2>1, <2>2, <2>8, ParentFacts
    <3>2. Before(m, i)
      BY <3>1, <1>3, <2>2
    <3>3. i # x
      BY <2>2, <2>3, <2>8
    <3>4. Before(x, i)'
      BY <3>2, <3>3, <2>8, <1>1, <1>6 DEF Before, PriorityAt
    <3> QED BY <3>4, <2>8, <1>1
  <2>9. CASE Parent(i) # x /\ Parent(i) # m /\ i # x /\ i # m
    <3>1. Before(Parent(i), i)
      BY <1>1, <2>1, <2>9 DEF IInv, HeapifyOrdered
    <3>2. Before(Parent(i), i)'
      BY <3>1, <2>4, <2>9, <1>1, <1>6 DEF Before, PriorityAt
    <3> QED BY <3>2, <2>9
  <2> QED BY <2>5, <2>6, <2>7, <2>8, <2>9
<1> QED BY <1>1, <1>7, <1>8, <1>9, <1>10 DEF IInv, IdleOrdered, SiftOrdered

LEMMA TakeOutInvariant ==
    ASSUME HeapAssumption, IInv, TakeOut
    PROVE  IInv'
<1> PICK x : x = index
  OBVIOUS
<1>1. /\ pc = "heapify" /\ ~SiftsDown /\ pc' = "idle" /\ item' = Nothing
      /\ index' = 0 /\ iter' = 0
      /\ UNCHANGED <<tree, count, order, rolled>>
  BY DEF TakeOut, heap
<1>2. /\ x \in Nat /\ x < count /\ count \in Nat /\ count <= Depth /\ Depth \in Nat
      /\ iter \in Nat /\ iter <= x
  BY <1>1 DEF IInv, TypeOK, Turns, Indexes, HeapAssumption
<1>3. Used = 0 .. count - 1 /\ Used' = Used /\ 0 \in Indexes
  BY <1>1, <1>2 DEF Used, Indexes
<1>4. TypeOK'
  BY <1>1, <1>3 DEF IInv, TypeOK
<1>5. Turns' /\ Filled' /\ OrdersBelow'
  BY <1>1, <1>3 DEF IInv, Turns, Filled, OrdersBelow
<1>6. Left(x) < count => Before(x, Left(x))
      /\ (Right(x) < count => Before(x, Right(x)))
  <2>1. SUFFICES ASSUME Left(x) < count
                 PROVE  Before(x, Left(x)) /\ (Right(x) < count => Before(x, Right(x)))
    OBVIOUS
  <2>2. Largest(x) = x
    BY <2>1, <1>1, <1>2 DEF SiftsDown
  <2> QED BY <2>1, <2>2, <1>1, <1>2, LargestIsFirst DEF IInv
<1>7. IdleOrdered'
  <2>1. SUFFICES ASSUME NEW i \in Used, i > 0
                 PROVE  Before(Parent(i), i)
    BY <1>1, <1>3 DEF IdleOrdered, Before, PriorityAt
  <2>2. i \in Nat /\ i < count
    BY <1>2, <1>3
  <2>3. CASE Parent(i) = x
    <3>1. i = Left(x) \/ i = Right(x)
      BY <2>1, <2>2, <2>3, ParentFacts
    <3>2. Left(x) < Right(x)
      BY <1>2 DEF Left, Right
    <3>3. Left(x) < count
      BY <1>2, <2>2, <3>1, <3>2 DEF Left, Right
    <3> QED BY <3>1, <3>3, <2>2, <2>3, <1>6
  <2>4. CASE Parent(i) # x
    BY <1>1, <2>1, <2>4 DEF IInv, HeapifyOrdered
  <2> QED BY <2>3, <2>4
<1> QED BY <1>1, <1>4, <1>5, <1>7 DEF IInv, SiftOrdered, HeapifyOrdered

\* A call that leaves the tree alone.
LEMMA UnchangedInvariant ==
    ASSUME IInv, UNCHANGED <<heap, loop, history>>
    PROVE  IInv'
BY DEF IInv, TypeOK, Turns, Filled, Used, OrdersBelow, IdleOrdered, SiftOrdered,
   HeapifyOrdered, Before, PriorityAt, heap, loop, history

LEMMA StepInvariant ==
    ASSUME HeapAssumption, IInv, [Next]_heapVars
    PROVE  IInv'
<1>1. CASE \E e \in Elements : PushFull(e)
  BY <1>1, UnchangedInvariant DEF PushFull
<1>2. CASE \E e \in Elements : PushBegin(e)
  BY <1>2, PushBeginInvariant
<1>3. CASE SiftUp
  BY <1>3, SiftUpInvariant
<1>4. CASE Pushed
  BY <1>4, PlaceInvariant DEF Pushed
<1>5. CASE PopEmpty
  BY <1>5, UnchangedInvariant DEF PopEmpty
<1>6. CASE PopLast
  <2>1. /\ pc = "idle" /\ count = 1 /\ count' = 0 /\ order' = 0 /\ rolled' = FALSE
        /\ tree' = LastToFirst /\ UNCHANGED loop
    BY <1>6 DEF PopLast, TakeOnly
  <2>2. \A i \in Indexes : i >= count - 1
    BY <2>1 DEF Indexes
  <2>3. tree' \in [Indexes -> Node \cup {Nothing}]
    BY <2>1, <2>2 DEF LastToFirst
  <2> QED BY <2>1, <2>3, EmptiedInvariant
<1>7. CASE PopBegin
  BY <1>7, PopBeginInvariant
<1>8. CASE SiftDown
  BY <1>8, SiftDownInvariant
<1>9. CASE Popped
  BY <1>9, TakeOutInvariant DEF Popped
<1>10. CASE Peek
  BY <1>10, UnchangedInvariant DEF Peek
<1>11. CASE Clear
  <2>1. /\ pc = "idle" /\ count' = 0 /\ order' = 0 /\ rolled' = FALSE
        /\ tree' = EmptyTree /\ UNCHANGED loop
    BY <1>11 DEF Clear, Empty
  <2>2. tree' \in [Indexes -> Node \cup {Nothing}]
    BY <2>1 DEF EmptyTree
  <2> QED BY <2>1, <2>2, EmptiedInvariant
<1>12. CASE UNCHANGED heapVars
  BY <1>12, UnchangedInvariant DEF heapVars
<1> QED
  BY <1>1, <1>2, <1>3, <1>4, <1>5, <1>6, <1>7, <1>8, <1>9, <1>10, <1>11, <1>12
     DEF Next, Push

-----------------------------------------------------------------------------
(* What follows from the invariant.                                        *)

\* If every parent may leave before its children, the first may leave before
\* all: of the places for which this fails, take the lowest.
LEMMA FirstOfAll ==
    ASSUME HeapAssumption, IInv, pc = "idle", NEW i \in Used
    PROVE  Before(0, i)
<1>1. /\ Used = 0 .. count - 1 /\ count \in Nat
      /\ \A j \in Used : tree[j] \in Node
  BY DEF IInv, TypeOK, Used, Filled
<1>2. 0 \in Used /\ i \in Nat
  BY <1>1
<1> DEFINE Wrong == {j \in Used : ~Before(0, j)}
<1>3. SUFFICES ASSUME Wrong # {} PROVE FALSE
  OBVIOUS
<1>4. Wrong \subseteq Nat
  BY <1>1
<1>5. PICK j \in Wrong : \A k \in Wrong : ~(<<k, j>> \in OpToRel(<, Nat))
  <2> HIDE DEF Wrong
  <2> QED BY <1>3, <1>4, NatLessThanWellFounded, WFMin
<1>6. j \in Used /\ j \in Nat /\ ~Before(0, j) /\ j # 0
  BY <1>1, <1>2, <1>4, BeforeReflexive
<1>7. Parent(j) \in Nat /\ Parent(j) < j
  BY <1>6, ParentFacts
<1>8. Parent(j) \in Used
  BY <1>1, <1>6, <1>7
<1>9. Before(0, Parent(j))
  <2>1. <<Parent(j), j>> \in OpToRel(<, Nat)
    BY <1>6, <1>7 DEF OpToRel
  <2> QED BY <2>1, <1>5, <1>8
<1>10. Before(Parent(j), j)
  BY <1>6 DEF IInv, IdleOrdered
<1> QED BY <1>1, <1>2, <1>6, <1>8, <1>9, <1>10, BeforeTransitive

THEOREM HeapInvariant == ASSUME HeapAssumption PROVE Spec => []IInv
<1>1. Init => IInv
  BY HeapAssumption, InitInvariant
<1>2. IInv /\ [Next]_heapVars => IInv'
  BY HeapAssumption, StepInvariant
<1> QED BY <1>1, <1>2, PTL DEF Spec

\* The state of the heap and of the loops of Push and Pop is well typed.
THEOREM HeapTypeCorrect == ASSUME HeapAssumption PROVE Spec => []TypeOK
<1>1. IInv => TypeOK
  BY DEF IInv
<1> QED BY <1>1, HeapInvariant, PTL

\* Whatever the depth, no assertion of heap.adb fails: the loops stay in the
\* tree and take no more turns than there are nodes.
THEOREM NoAssertionFails == ASSUME HeapAssumption PROVE Spec => []AssertionsHold
<1>1. IInv => AssertionsHold
  BY HeapAssumption DEF IInv, TypeOK, Turns, AssertionsHold, HeapAssumption, Indexes
<1> QED BY <1>1, HeapInvariant, PTL

\* Whatever the depth and the calls before it, Pop and Peek answer an element
\* of the highest priority, and the oldest of those.
THEOREM TopComesFirst == ASSUME HeapAssumption PROVE Spec => []TopIsFirst
<1>1. IInv => TopIsFirst
  BY HeapAssumption, FirstOfAll DEF TopIsFirst, Used
<1> QED BY <1>1, HeapInvariant, PTL

-----------------------------------------------------------------------------
(* The heap implements PriorityFifo: each node stands for a place in the   *)
(* sequence of the elements as they came, and of two nodes the older one   *)
(* stands for the earlier place for as long as Order has not rolled over.  *)

\* The places of arrived that a node stands for: all but that of the element
\* that a Pop has taken from the tree and not answered yet.
Waiting == DOMAIN arrived \ (IF pc = "heapify" THEN {FirstOf(item)} ELSE {})

\* By f the nodes at places stand for the elements at waiting.
StandsFor(f, places, waiting) ==
    /\ f \in [places -> waiting]
    /\ \A i, j \in places : f[i] = f[j] => i = j
    /\ \A k \in waiting : \E i \in places : f[i] = k
    /\ \A i \in places : arrived[f[i]] = tree[i].element
    /\ rolled \/ \A i, j \in places : f[i] < f[j] => tree[i].order < tree[j].order

Standing == \E f \in [Used -> Waiting] : StandsFor(f, Used, Waiting)

Counted ==
    /\ arrived \in Seq(Elements)
    /\ Len(arrived) = IF pc = "heapify" THEN count + 1 ELSE count

\* No element that came has a higher priority than the k-th, and none of its
\* priority came before it, unless Order has rolled over.
Foremost(k) ==
    /\ k \in DOMAIN arrived
    /\ \A j \in DOMAIN arrived : Priority[arrived[j]] <= Priority[arrived[k]]
    /\ rolled \/ \A j \in 1 .. k - 1 : Priority[arrived[j]] # Priority[arrived[k]]

\* The element in hand while Pop sifts is the one that the queue answers.
TakenIsForemost ==
    pc = "heapify" => Foremost(FirstOf(item)) /\ arrived[FirstOf(item)] = item

FifoInv == IInv /\ Counted /\ Standing /\ TakenIsForemost

-----------------------------------------------------------------------------
(* The sequence of those that came.                                        *)

LEMMA FirstOfFacts ==
    ASSUME arrived \in Seq(Elements), NEW k \in DOMAIN arrived
    PROVE  LET p == FirstOf(arrived[k])
           IN  /\ p \in DOMAIN arrived
               /\ arrived[p] = arrived[k]
               /\ p <= k
               /\ \A j \in 1 .. p - 1 : arrived[j] # arrived[k]
<1> DEFINE e == arrived[k]
<1> DEFINE Here == {j \in DOMAIN arrived : arrived[j] = e}
<1>1. DOMAIN arrived = 1 .. Len(arrived) /\ Len(arrived) \in Nat
  OBVIOUS
<1>2. Here \subseteq Nat /\ Here # {}
  BY <1>1
<1>3. PICK i \in Here : \A j \in Here : ~(<<j, i>> \in OpToRel(<, Nat))
  <2> HIDE DEF Here
  <2> QED BY <1>2, NatLessThanWellFounded, WFMin
<1>4. \A j \in Here : i <= j
  <2>1. SUFFICES ASSUME NEW j \in Here, j < i PROVE FALSE
    BY <1>2
  <2>2. <<j, i>> \in OpToRel(<, Nat)
    BY <2>1, <1>2 DEF OpToRel
  <2> QED BY <2>1, <2>2, <1>3
<1>5. i \in DOMAIN arrived /\ arrived[i] = e /\ \A j \in 1 .. i - 1 : arrived[j] # e
  <2>1. \A j \in 1 .. i - 1 : j \in DOMAIN arrived /\ ~(i <= j)
    <3> HIDE DEF Here
    <3>1. i \in 1 .. Len(arrived)
      BY <1>1, <1>3 DEF Here
    <3> QED BY <3>1, <1>1
  <2> QED BY <2>1, <1>3, <1>4
<1> DEFINE p == FirstOf(e)
<1>6. p \in DOMAIN arrived /\ arrived[p] = e /\ \A j \in 1 .. p - 1 : arrived[j] # e
  BY <1>5 DEF FirstOf
<1>7. p <= k
  <2>1. SUFFICES ASSUME ~(p <= k) PROVE FALSE
    OBVIOUS
  <2>2. k \in 1 .. p - 1
    BY <2>1, <1>1, <1>6
  <2> QED BY <2>2, <1>6
<1> QED BY <1>6, <1>7

LEMMA RemoveAtFacts ==
    ASSUME NEW S, NEW s \in Seq(S), NEW p \in 1 .. Len(s)
    PROVE  /\ RemoveAt(s, p) \in Seq(S)
           /\ Len(RemoveAt(s, p)) = Len(s) - 1
           /\ \A k \in 1 .. p - 1 : RemoveAt(s, p)[k] = s[k]
           /\ \A k \in p .. Len(s) - 1 : RemoveAt(s, p)[k] = s[k + 1]
<1> DEFINE a == SubSeq(s, 1, p - 1)
           b == SubSeq(s, p + 1, Len(s))
<1>1. /\ a \in Seq(S) /\ Len(a) = p - 1
      /\ \A k \in 1 .. p - 1 : a[k] = s[k]
  OBVIOUS
<1>2. /\ b \in Seq(S) /\ Len(b) = Len(s) - p
      /\ \A k \in 1 .. Len(s) - p : b[k] = s[k + p]
  OBVIOUS
<1>3. RemoveAt(s, p) = a \o b
  BY DEF RemoveAt
<1> HIDE DEF a, b
<1>4. \A k \in 1 .. p - 1 : (a \o b)[k] = a[k]
  BY <1>1, <1>2
<1>5. \A k \in p .. Len(s) - 1 : (a \o b)[k] = b[k - p + 1] /\ k - p + 1 \in 1 .. Len(s) - p
  BY <1>1, <1>2
<1>6. \A k \in p .. Len(s) - 1 : b[k - p + 1] = s[k + 1]
  <2>1. \A k \in p .. Len(s) - 1 : b[k - p + 1] = s[k - p + 1 + p]
    BY <1>2, <1>5
  <2>2. \A k \in p .. Len(s) - 1 : k - p + 1 + p = k + 1
    OBVIOUS
  <2> QED BY <2>1, <2>2
<1>7. a \o b \in Seq(S) /\ Len(a \o b) = Len(s) - 1
  <2>1. a \o b \in Seq(S) /\ Len(a \o b) = Len(a) + Len(b)
    BY <1>1, <1>2, ConcatProperties
  <2>2. (p - 1) + (Len(s) - p) = Len(s) - 1
    OBVIOUS
  <2> QED BY <1>1, <1>2, <2>1, <2>2
<1>8. \A k \in 1 .. p - 1 : (a \o b)[k] = s[k]
  BY <1>1, <1>4
<1>9. \A k \in p .. Len(s) - 1 : (a \o b)[k] = s[k + 1]
  BY <1>5, <1>6
<1> QED BY <1>3, <1>7, <1>8, <1>9

\* Nodes that move to other places stand for the same elements there.
LEMMA MovedStand ==
    ASSUME NEW S, NEW T, NEW W, NEW f, NEW g \in [T -> S],
           StandsFor(f, S, W),
           \A i, j \in T : g[i] = g[j] => i = j,
           \A s \in S : \E i \in T : g[i] = s,
           \A i \in T : tree'[i] = tree[g[i]],
           UNCHANGED <<arrived, rolled>>
    PROVE  \E h \in [T -> W] : StandsFor(h, T, W)'
<1> DEFINE h == [i \in T |-> f[g[i]]]
<1>1. \A i \in T : g[i] \in S /\ h[i] = f[g[i]]
  OBVIOUS
<1>2. h \in [T -> W]
  BY <1>1 DEF StandsFor
<1>3. \A i, j \in T : h[i] = h[j] => i = j
  BY <1>1 DEF StandsFor
<1>4. \A k \in W : \E i \in T : h[i] = k
  <2>1. SUFFICES ASSUME NEW k \in W PROVE \E i \in T : h[i] = k
    OBVIOUS
  <2>2. PICK s \in S : f[s] = k
    BY DEF StandsFor
  <2>3. PICK i \in T : g[i] = s
    OBVIOUS
  <2> QED BY <2>2, <2>3
<1>5. \A i \in T : arrived'[h[i]] = tree'[i].element
  BY <1>1 DEF StandsFor
<1>6. rolled' \/ \A i, j \in T : h[i] < h[j] => tree'[i].order < tree'[j].order
  BY <1>1 DEF StandsFor
<1> HIDE DEF h
<1> QED BY <1>2, <1>3, <1>4, <1>5, <1>6 DEF StandsFor

\* The root stands for an element that the queue may answer.
LEMMA TopIsForemost ==
    ASSUME HeapAssumption, IInv, Counted, pc = "idle", count > 0,
           NEW f, StandsFor(f, Used, DOMAIN arrived)
    PROVE  Foremost(f[0]) /\ arrived[f[0]] = tree[0].element
<1>1. /\ Used = 0 .. count - 1 /\ count \in Nat /\ 0 \in Used
      /\ \A i \in Used : tree[i] \in Node
      /\ DOMAIN arrived = 1 .. Len(arrived) /\ Len(arrived) \in Nat
  BY DEF IInv, TypeOK, Used, Filled, Counted
<1>2. f[0] \in DOMAIN arrived /\ arrived[f[0]] = tree[0].element
  BY <1>1 DEF StandsFor
<1>3. ASSUME NEW j \in DOMAIN arrived
      PROVE  /\ Priority[arrived[j]] <= Priority[arrived[f[0]]]
             /\ rolled \/ j >= f[0] \/ Priority[arrived[j]] # Priority[arrived[f[0]]]
  <2>1. PICK i \in Used : f[i] = j
    BY <1>3 DEF StandsFor
  <2>2. arrived[j] = tree[i].element
    BY <2>1 DEF StandsFor
  <2>3. Before(0, i)
    BY FirstOfAll
  <2>4. /\ PriorityAt(0) = Priority[arrived[f[0]]] /\ PriorityAt(i) = Priority[arrived[j]]
        /\ PriorityAt(0) \in Nat /\ PriorityAt(i) \in Nat
        /\ tree[0].order \in Nat /\ tree[i].order \in Nat
    BY <1>1, <1>2, <2>2, NodeFacts DEF PriorityAt
  <2>5. rolled \/ (j < f[0] => tree[i].order < tree[0].order)
    BY <1>1, <2>1 DEF StandsFor
  <2> QED BY <1>1, <1>2, <2>3, <2>4, <2>5 DEF Before
<1>4. \A j \in 1 .. f[0] - 1 : j \in DOMAIN arrived /\ ~(j >= f[0])
  BY <1>1, <1>2
<1> QED BY <1>2, <1>3, <1>4 DEF Foremost

-----------------------------------------------------------------------------
(* One lemma per action.                                                   *)

\* An empty heap between two calls.
LEMMA EmptyStands ==
    ASSUME pc' = "idle", count' = 0, arrived' = <<>>
    PROVE  Counted' /\ Standing' /\ TakenIsForemost'
<1>1. Used' = {} /\ Waiting' = {}
  BY DEF Used, Waiting
<1>2. StandsFor([i \in {} |-> 0], {}, {})'
  BY DEF StandsFor
<1>3. [i \in {} |-> 0] \in [{} -> {}]
  OBVIOUS
<1>4. Standing'
  BY <1>1, <1>2, <1>3 DEF Standing
<1> QED BY <1>4 DEF Counted, TakenIsForemost

LEMMA InitStands ==
    ASSUME Init
    PROVE  Counted /\ Standing /\ TakenIsForemost
<1>1. pc = "idle" /\ count = 0 /\ arrived = <<>>
  BY DEF Init
<1>2. Used = {} /\ Waiting = {}
  BY <1>1 DEF Used, Waiting
<1>3. StandsFor([i \in {} |-> 0], {}, {})
  BY DEF StandsFor
<1>4. [i \in {} |-> 0] \in [{} -> {}]
  OBVIOUS
<1>5. Standing
  BY <1>2, <1>3, <1>4 DEF Standing
<1> QED BY <1>1, <1>5 DEF Counted, TakenIsForemost

\* A call that leaves the tree alone.
LEMMA UnchangedStands ==
    ASSUME Counted, Standing, TakenIsForemost, UNCHANGED <<heap, loop, history>>
    PROVE  Counted' /\ Standing' /\ TakenIsForemost'
<1>1. UNCHANGED <<tree, count, pc, item, index, arrived, rolled>>
  BY DEF heap, loop, history
<1>2. Used' = Used /\ Waiting' = Waiting
  BY <1>1 DEF Used, Waiting, FirstOf
<1>3. Standing'
  BY <1>1, <1>2 DEF Standing, StandsFor
<1>4. TakenIsForemost'
  BY <1>1 DEF TakenIsForemost, Foremost, FirstOf
<1> QED BY <1>1, <1>3, <1>4 DEF Counted

LEMMA PushBeginStands ==
    ASSUME IInv, Counted, Standing, NEW e \in Elements, PushBegin(e)
    PROVE  Counted' /\ Standing' /\ TakenIsForemost'
<1>1. /\ pc = "idle" /\ pc' = "sift" /\ index' = count
      /\ UNCHANGED <<tree, count, arrived, rolled>>
  BY DEF PushBegin, heap, history
<1>2. Used' = Used /\ Waiting' = Waiting
  BY <1>1 DEF Used, Waiting, IInv, TypeOK
<1>3. Standing'
  BY <1>1, <1>2 DEF Standing, StandsFor
<1> QED BY <1>1, <1>3 DEF Counted, TakenIsForemost

LEMMA SiftUpStands ==
    ASSUME IInv, Counted, Standing, HeapAssumption, SiftUp
    PROVE  Counted' /\ Standing' /\ TakenIsForemost'
<1> PICK p : p = Parent(index)
  OBVIOUS
<1> PICK x : x = index
  OBVIOUS
<1>1. /\ pc = "sift" /\ x > 0
      /\ tree' = [tree EXCEPT ![x] = tree[p]]
      /\ index' = p /\ UNCHANGED <<count, pc, arrived, rolled>>
  BY DEF SiftUp, Sifts, history
<1>2. x \in Nat /\ x <= count /\ count < Depth /\ count \in Nat /\ Depth \in Nat
  BY <1>1 DEF IInv, TypeOK, Turns, Indexes, HeapAssumption
<1>3. p \in Nat /\ p < x
  BY <1>1, <1>2, ParentFacts
<1> PICK S : S = Used
  OBVIOUS
<1> PICK T : T = Used'
  OBVIOUS
<1> PICK W : W = Waiting
  OBVIOUS
<1>4. /\ S = (0 .. count) \ {x} /\ T = (0 .. count) \ {p} /\ T \subseteq Indexes
      /\ W = DOMAIN arrived /\ Waiting' = W
  BY <1>1, <1>2, <1>3 DEF Used, Waiting, Indexes
<1>5. PICK f \in [S -> W] : StandsFor(f, S, W)
  BY DEF Standing
<1> DEFINE g == [i \in T |-> IF i = x THEN p ELSE i]
<1>6. /\ g \in [T -> S]
      /\ \A i, j \in T : g[i] = g[j] => i = j
      /\ \A s \in S : \E i \in T : g[i] = s
  <2>1. x \in T /\ p \in S
    BY <1>2, <1>3, <1>4
  <2>2. \A i \in T : i # x => i \in S
    BY <1>4
  <2>3. \A s \in S : s # p => s \in T /\ s # x
    BY <1>4
  <2> QED BY <1>3, <1>4, <2>1, <2>2, <2>3
<1>7. \A i \in T : tree'[i] = tree[g[i]]
  BY <1>1, <1>4 DEF IInv, TypeOK
<1> HIDE DEF g
<1>8. UNCHANGED <<arrived, rolled>>
  BY <1>1
<1>9. \E h \in [T -> W] : StandsFor(h, T, W)'
  BY ONLY <1>5, <1>6, <1>7, <1>8, MovedStand
<1>10. Standing'
  BY <1>4, <1>9 DEF Standing
<1> QED BY <1>1, <1>10 DEF Counted, TakenIsForemost

\* No element on the heap is younger than the next, unless Order rolls over.
LEMMA NextIsYounger ==
    ASSUME HeapAssumption, IInv, Place
    PROVE  rolled' \/ \A i \in Used : tree[i].order < order
<1>1. pc = "sift" /\ rolled' = (rolled \/ (count > 0 /\ order = 0))
  BY DEF Place
<1>2. count \in Nat /\ index \in Nat /\ index <= count
  BY <1>1 DEF IInv, TypeOK, Turns, Indexes
<1>3. count = 0 => Used = {}
  BY <1>1, <1>2 DEF Used
<1>4. CASE rolled \/ (order = 0 /\ count > 0)
  BY <1>1, <1>4
<1>5. CASE \A i \in Used : tree[i].order < order
  BY <1>5
<1>6. CASE count = 0
  BY <1>3, <1>6
<1> QED BY <1>2, <1>4, <1>5, <1>6 DEF IInv, OrdersBelow

LEMMA PlaceStands ==
    ASSUME IInv, Counted, Standing, HeapAssumption, Place
    PROVE  Counted' /\ Standing' /\ TakenIsForemost'
<1> PICK x : x = index
  OBVIOUS
<1> PICK n : n = Len(arrived) + 1
  OBVIOUS
<1> DEFINE node == [order |-> order, element |-> item]
<1>1. /\ pc = "sift" /\ pc' = "idle" /\ count' = count + 1
      /\ tree' = [tree EXCEPT ![x] = node] /\ arrived' = Append(arrived, item)
      /\ rolled' = (rolled \/ (count > 0 /\ order = 0))
  BY DEF Place
<1>2. /\ x \in Nat /\ x <= count /\ count < Depth /\ count \in Nat /\ Depth \in Nat
      /\ item \in Elements /\ order \in Nat
  BY <1>1 DEF IInv, TypeOK, Turns, Indexes, HeapAssumption
<1>3. /\ arrived \in Seq(Elements) /\ Len(arrived) = count
      /\ DOMAIN arrived = 1 .. count /\ n = count + 1
  BY <1>1 DEF Counted
<1>4. /\ arrived' \in Seq(Elements) /\ Len(arrived') = n /\ DOMAIN arrived' = 1 .. n
      /\ \A k \in 1 .. count : arrived'[k] = arrived[k]
      /\ arrived'[n] = item
  BY <1>1, <1>2, <1>3
<1> PICK S : S = Used
  OBVIOUS
<1> PICK T : T = Used'
  OBVIOUS
<1> PICK W : W = Waiting
  OBVIOUS
<1>5. /\ S = (0 .. count) \ {x} /\ T = 0 .. count /\ T \subseteq Indexes /\ x \in T
      /\ W = 1 .. count /\ Waiting' = 1 .. n
  BY <1>1, <1>2, <1>3, <1>4 DEF Used, Waiting, Indexes
<1>6. PICK f \in [S -> W] : StandsFor(f, S, W)
  BY DEF Standing
<1>7. /\ tree'[x] = node
      /\ \A i \in S : tree'[i] = tree[i] /\ tree[i].order \in Nat
      /\ rolled' \/ \A i \in S : tree[i].order < order
  <2>1. \A i \in S : tree[i].order \in Nat
    BY NodeFacts DEF IInv, Filled
  <2>2. tree'[x] = node /\ \A i \in S : tree'[i] = tree[i]
    BY <1>1, <1>5 DEF IInv, TypeOK
  <2> QED BY <2>1, <2>2, NextIsYounger
<1> DEFINE h == [i \in T |-> IF i = x THEN n ELSE f[i]]
<1>8. /\ h[x] = n /\ \A i \in S : h[i] = f[i] /\ f[i] \in 1 .. count
      /\ \A i \in T : i = x \/ i \in S
      /\ \A i \in S : i \in T
  BY <1>5
<1>9. h \in [T -> 1 .. n]
  BY <1>3, <1>5
<1> HIDE DEF h
<1>10. \A i, j \in T : h[i] = h[j] => i = j
  BY <1>2, <1>3, <1>6, <1>8 DEF StandsFor
<1>11. \A k \in 1 .. n : \E i \in T : h[i] = k
  <2>1. SUFFICES ASSUME NEW k \in 1 .. n PROVE \E i \in T : h[i] = k
    OBVIOUS
  <2>2. CASE k = n
    BY <2>2, <1>5, <1>8
  <2>3. CASE k # n
    <3>1. k \in W
      BY <2>3, <1>2, <1>3, <1>5
    <3>2. PICK i \in S : f[i] = k
      BY <3>1, <1>6 DEF StandsFor
    <3> QED BY <3>2, <1>8
  <2> QED BY <2>2, <2>3
<1>12. \A i \in T : arrived'[h[i]] = tree'[i].element
  <2>1. \A i \in S : arrived[f[i]] = tree[i].element
    BY <1>6 DEF StandsFor
  <2> QED BY <2>1, <1>4, <1>7, <1>8
<1>13. rolled' \/ \A i, j \in T : h[i] < h[j] => tree'[i].order < tree'[j].order
  <2>1. SUFFICES ASSUME ~rolled', NEW i \in T, NEW j \in T, h[i] < h[j]
                 PROVE  tree'[i].order < tree'[j].order
    OBVIOUS
  <2>2. ~rolled
    BY <2>1, <1>1
  <2>3. CASE i \in S /\ j \in S
    BY <2>1, <2>2, <2>3, <1>6, <1>7, <1>8 DEF StandsFor
  <2>4. CASE i = x
    BY <2>1, <2>4, <1>2, <1>3, <1>8
  <2>5. CASE i \in S /\ j = x
    BY <2>1, <2>5, <1>7
  <2> QED BY <2>3, <2>4, <2>5, <1>8
<1>14. StandsFor(h, T, 1 .. n)'
  BY <1>9, <1>10, <1>11, <1>12, <1>13 DEF StandsFor
<1>15. Standing'
  BY <1>5, <1>9, <1>14 DEF Standing
<1> QED BY <1>1, <1>3, <1>4, <1>15 DEF Counted, TakenIsForemost

LEMMA SiftDownStands ==
    ASSUME IInv, Counted, Standing, TakenIsForemost, HeapAssumption, SiftDown
    PROVE  Counted' /\ Standing' /\ TakenIsForemost'
<1> PICK m : m = Largest(index)
  OBVIOUS
<1> PICK x : x = index
  OBVIOUS
<1>1. /\ pc = "heapify" /\ Left(x) < count
      /\ tree' = [tree EXCEPT ![x] = tree[m], ![m] = tree[x]]
      /\ UNCHANGED <<count, pc, item, arrived, rolled>>
  BY DEF SiftDown, SiftsDown, history
<1>2. x \in Nat /\ x < count /\ count \in Nat /\ count <= Depth /\ Depth \in Nat
  BY <1>1 DEF IInv, TypeOK, Turns, Indexes, HeapAssumption
<1>3. m \in Nat /\ m < count
  BY <1>1, <1>2, LargestIsFirst DEF IInv, Left, Right
<1> PICK S : S = Used
  OBVIOUS
<1> PICK T : T = S
  OBVIOUS
<1> PICK W : W = Waiting
  OBVIOUS
<1>4. S = 0 .. count - 1 /\ T = S /\ Used' = T /\ S \subseteq Indexes /\ x \in S /\ m \in S /\ Waiting' = W
  BY <1>1, <1>2, <1>3 DEF Used, Waiting, FirstOf, Indexes
<1>5. PICK f \in [S -> W] : StandsFor(f, S, W)
  BY DEF Standing
<1> DEFINE g == [i \in T |-> IF i = x THEN m ELSE IF i = m THEN x ELSE i]
<1>6. /\ g \in [T -> S]
      /\ \A i, j \in T : g[i] = g[j] => i = j
      /\ \A s \in S : \E i \in T : g[i] = s
  BY <1>4
<1>7. \A i \in T : tree'[i] = tree[g[i]]
  BY <1>1, <1>4 DEF IInv, TypeOK
<1> HIDE DEF g
<1>8. UNCHANGED <<arrived, rolled>>
  BY <1>1
<1>9. \E h \in [T -> W] : StandsFor(h, T, W)'
  BY ONLY <1>5, <1>6, <1>7, <1>8, MovedStand
<1>10. Standing'
  BY <1>4, <1>9 DEF Standing
<1> QED BY <1>1, <1>10 DEF Counted, TakenIsForemost, Foremost, FirstOf

\* A node leaves with an element; if that is another than it stood for, which
\* is equal to it, the node that stood for it takes its place.
LEMMA NodeLeaves ==
    ASSUME NEW S, NEW W, NEW f, StandsFor(f, S, W),
           NEW r \in S, NEW p \in W,
           arrived[p] = arrived[f[r]],
           rolled \/ p = f[r]
    PROVE  \E h \in [S \ {r} -> W \ {p}] : StandsFor(h, S \ {r}, W \ {p})
<1> DEFINE R == S \ {r}
           V == W \ {p}
           h == [i \in R |-> IF f[i] = p THEN f[r] ELSE f[i]]
<1>1. /\ f \in [S -> W]
      /\ \A i, j \in S : f[i] = f[j] => i = j
      /\ \A k \in W : \E i \in S : f[i] = k
      /\ \A i \in S : arrived[f[i]] = tree[i].element
      /\ rolled \/ \A i, j \in S : f[i] < f[j] => tree[i].order < tree[j].order
  BY DEF StandsFor
<1>2. \A i \in R : i \in S /\ f[i] # f[r] /\ h[i] = IF f[i] = p THEN f[r] ELSE f[i]
  BY <1>1
<1>3. f[r] \in W
  BY <1>1
<1>4. h \in [R -> V]
  <2>1. \A i \in R : (IF f[i] = p THEN f[r] ELSE f[i]) \in V
    BY <1>1, <1>2, <1>3
  <2> QED BY <2>1
<1> HIDE DEF h
<1>5. \A i, j \in R : h[i] = h[j] => i = j
  <2>1. SUFFICES ASSUME NEW i \in R, NEW j \in R, h[i] = h[j] PROVE i = j
    OBVIOUS
  <2>2. f[i] = f[j]
    BY <2>1, <1>2
  <2> QED BY <2>2, <1>1
<1>6. \A k \in V : \E i \in R : h[i] = k
  <2>1. SUFFICES ASSUME NEW k \in V PROVE \E i \in R : h[i] = k
    OBVIOUS
  <2>2. CASE k = f[r]
    <3>1. PICK i \in S : f[i] = p
      BY <1>1
    <3>2. i \in R
      BY <3>1, <2>1, <2>2
    <3> QED BY <3>1, <3>2, <2>2, <1>2
  <2>3. CASE k # f[r]
    <3>1. PICK i \in S : f[i] = k
      BY <1>1
    <3>2. i \in R /\ f[i] # p
      BY <3>1, <2>1, <2>3
    <3> QED BY <3>1, <3>2, <1>2
  <2> QED BY <2>2, <2>3
<1>7. \A i \in R : arrived[h[i]] = tree[i].element
  <2>1. SUFFICES ASSUME NEW i \in R PROVE arrived[h[i]] = arrived[f[i]]
    BY <1>1, <1>2
  <2>2. CASE f[i] = p
    BY <2>2, <1>2
  <2>3. CASE f[i] # p
    BY <2>3, <1>2
  <2> QED BY <2>2, <2>3
<1>8. rolled \/ \A i, j \in R : h[i] < h[j] => tree[i].order < tree[j].order
  <2>1. CASE p = f[r]
    <3>1. \A i \in R : h[i] = f[i]
      BY <2>1, <1>2
    <3> QED BY <3>1, <1>1, <1>2
  <2> QED BY <2>1
<1> QED BY <1>4, <1>5, <1>6, <1>7, <1>8 DEF StandsFor

LEMMA PopBeginStands ==
    ASSUME IInv, Counted, Standing, HeapAssumption, PopBegin
    PROVE  Counted' /\ Standing' /\ TakenIsForemost'
<1>1. /\ pc = "idle" /\ count > 1 /\ item' = tree[0].element
      /\ count' = count - 1 /\ tree' = LastToFirst /\ pc' = "heapify"
      /\ UNCHANGED <<arrived, rolled>>
  BY DEF PopBegin, history
<1>2. count \in Nat /\ count <= Depth /\ Depth \in Nat
  BY <1>1 DEF IInv, TypeOK, HeapAssumption
<1>3. /\ arrived \in Seq(Elements) /\ Len(arrived) = count
      /\ DOMAIN arrived = 1 .. count
  BY <1>1, <1>2 DEF Counted
<1> PICK S : S = Used
  OBVIOUS
<1> PICK T : T = Used'
  OBVIOUS
<1> PICK V : V = Waiting
  OBVIOUS
<1>4. /\ S = 0 .. count - 1 /\ T = 0 .. count - 2 /\ T \subseteq Indexes /\ 0 \in S
      /\ V = DOMAIN arrived
  BY <1>1, <1>2 DEF Used, Waiting, Indexes
<1>5. PICK f \in [S -> V] : StandsFor(f, S, V)
  BY DEF Standing
<1> PICK q : q = f[0]
  OBVIOUS
<1>6. Foremost(q) /\ arrived[q] = tree[0].element /\ q \in 1 .. count
  <2>1. Foremost(f[0]) /\ arrived[f[0]] = tree[0].element
    BY <1>1, <1>2, <1>4, <1>5, TopIsForemost
  <2> QED BY <2>1, <1>3 DEF Foremost
<1> PICK p : p = FirstOf(tree[0].element)
  OBVIOUS
<1>7. p \in 1 .. count /\ arrived[p] = arrived[q] /\ p <= q
  <2>1. arrived[q] = tree[0].element /\ q \in DOMAIN arrived
    BY <1>6, <1>3
  <2> QED BY <2>1, <1>3, FirstOfFacts
<1>8. rolled \/ p = q
  <2>1. rolled \/ \A j \in 1 .. q - 1 : Priority[arrived[j]] # Priority[arrived[q]]
    BY <1>6 DEF Foremost
  <2>2. p = q \/ p \in 1 .. q - 1
    BY <1>6, <1>7
  <2> QED BY <2>1, <2>2, <1>7
<1>9. Foremost(p)
  <2>1. \A j \in 1 .. p - 1 : j \in 1 .. q - 1
    BY <1>6, <1>7
  <2> QED BY <2>1, <1>3, <1>6, <1>7 DEF Foremost
<1>10. TakenIsForemost' /\ Waiting' = V \ {p}
  <2>1. FirstOf(item)' = p
    BY <1>1 DEF FirstOf
  <2> QED BY <2>1, <1>1, <1>4, <1>6, <1>7, <1>9 DEF TakenIsForemost, Foremost, Waiting
<1> PICK R : R = S \ {0}
  OBVIOUS
<1> PICK W : W = V \ {p}
  OBVIOUS
<1>11. PICK d \in [R -> W] : StandsFor(d, R, W)
  <2>1. p \in V /\ arrived[p] = arrived[f[0]] /\ (rolled \/ p = f[0])
    BY <1>3, <1>4, <1>7, <1>8
  <2>2. 0 \in S
    BY <1>4
  <2>3. StandsFor(f, S, V)
    BY <1>5
  <2>4. \E h \in [S \ {0} -> V \ {p}] : StandsFor(h, S \ {0}, V \ {p})
    BY ONLY <2>1, <2>2, <2>3, NodeLeaves
  <2> QED BY <2>4
<1> DEFINE g == [i \in T |-> IF i = 0 THEN count - 1 ELSE i]
<1>12. /\ g \in [T -> R]
       /\ \A i, j \in T : g[i] = g[j] => i = j
       /\ \A s \in R : \E i \in T : g[i] = s
  <2>1. /\ 0 \in T /\ count - 1 \in R
        /\ \A i \in T : i # 0 => i \in R /\ i # count - 1
        /\ \A s \in R : s # count - 1 => s \in T /\ s # 0
    BY <1>1, <1>2, <1>4
  <2> QED BY <2>1
<1>13. \A i \in T : tree'[i] = tree[g[i]]
  <2>1. \A i \in T : i \in Indexes /\ ~(i >= count - 1)
    BY <1>2, <1>4
  <2> QED BY <2>1, <1>1 DEF LastToFirst
<1> HIDE DEF g
<1>14. UNCHANGED <<arrived, rolled>>
  BY <1>1
<1>15. \E h \in [T -> W] : StandsFor(h, T, W)'
  BY ONLY <1>11, <1>12, <1>13, <1>14, MovedStand
<1>16. Standing'
  BY <1>10, <1>15 DEF Standing
<1> QED BY <1>1, <1>2, <1>3, <1>10, <1>16 DEF Counted

LEMMA TakeOutStands ==
    ASSUME IInv, Counted, Standing, TakenIsForemost, HeapAssumption, TakeOut
    PROVE  Counted' /\ Standing' /\ TakenIsForemost'
<1> PICK p : p = FirstOf(item)
  OBVIOUS
<1>1. /\ pc = "heapify" /\ pc' = "idle" /\ arrived' = RemoveAt(arrived, p)
      /\ UNCHANGED <<tree, count, rolled>>
  BY DEF TakeOut, heap
<1>2. count \in Nat /\ count <= Depth
  BY <1>1 DEF IInv, TypeOK
<1>3. /\ arrived \in Seq(Elements) /\ Len(arrived) = count + 1
      /\ DOMAIN arrived = 1 .. count + 1 /\ p \in 1 .. count + 1
  BY <1>1, <1>2 DEF Counted, TakenIsForemost, Foremost
<1>4. /\ arrived' \in Seq(Elements) /\ Len(arrived') = count
      /\ DOMAIN arrived' = 1 .. count
      /\ \A k \in 1 .. p - 1 : arrived'[k] = arrived[k]
      /\ \A k \in p .. count : arrived'[k] = arrived[k + 1]
  <2>1. Len(arrived) - 1 = count /\ p \in 1 .. Len(arrived)
    BY <1>2, <1>3
  <2>2. /\ arrived' \in Seq(Elements) /\ Len(arrived') = Len(arrived) - 1
        /\ \A k \in 1 .. p - 1 : arrived'[k] = arrived[k]
        /\ \A k \in p .. Len(arrived) - 1 : arrived'[k] = arrived[k + 1]
    <3>1. arrived \in Seq(Elements) /\ arrived' = RemoveAt(arrived, p)
      BY <1>1, <1>3
    <3> QED BY ONLY <2>1, <3>1, RemoveAtFacts
  <2>3. Len(arrived') = count
    BY <2>1, <2>2
  <2>4. \A k \in p .. count : arrived'[k] = arrived[k + 1]
    BY <2>1, <2>2
  <2>5. DOMAIN arrived' = 1 .. count
    BY <2>2, <2>3
  <2> QED BY <2>2, <2>3, <2>4, <2>5
<1> PICK S : S = Used
  OBVIOUS
<1> PICK W : W = Waiting
  OBVIOUS
<1>5. Used' = S /\ W = (1 .. count + 1) \ {p} /\ Waiting' = 1 .. count
  BY <1>1, <1>3, <1>4 DEF Used, Waiting
<1>6. PICK f \in [S -> W] : StandsFor(f, S, W)
  BY DEF Standing
<1> DEFINE h == [i \in S |-> IF f[i] > p THEN f[i] - 1 ELSE f[i]]
<1>7. \A i \in S : /\ f[i] \in 1 .. count + 1 /\ f[i] # p
                   /\ h[i] = IF f[i] > p THEN f[i] - 1 ELSE f[i]
  BY <1>5
<1>8. h \in [S -> 1 .. count]
  <2>1. \A i \in S : h[i] \in 1 .. count
    BY <1>2, <1>3, <1>7
  <2> QED BY <2>1
<1> HIDE DEF h
<1>9. \A i, j \in S : /\ h[i] = h[j] => f[i] = f[j]
                      /\ h[i] < h[j] => f[i] < f[j]
  BY <1>2, <1>3, <1>7
<1>10. \A i, j \in S : h[i] = h[j] => i = j
  BY <1>6, <1>9 DEF StandsFor
<1>11. \A k \in 1 .. count : \E i \in S : h[i] = k
  <2>1. SUFFICES ASSUME NEW k \in 1 .. count PROVE \E i \in S : h[i] = k
    OBVIOUS
  <2>2. CASE k < p
    <3>1. k \in W
      BY <2>2, <1>3, <1>5
    <3>2. PICK i \in S : f[i] = k
      BY <3>1, <1>6 DEF StandsFor
    <3> QED BY <3>2, <2>2, <1>3, <1>7
  <2>3. CASE k >= p
    <3>1. k + 1 \in W /\ k + 1 > p /\ k + 1 - 1 = k
      BY <2>3, <1>2, <1>3, <1>5
    <3>2. PICK i \in S : f[i] = k + 1
      BY <3>1, <1>6 DEF StandsFor
    <3> QED BY <3>1, <3>2, <1>7
  <2> QED BY <2>2, <2>3, <1>3
<1>12. \A i \in S : arrived'[h[i]] = tree'[i].element
  <2>1. SUFFICES ASSUME NEW i \in S PROVE arrived'[h[i]] = arrived[f[i]]
    BY <1>1, <1>6 DEF StandsFor
  <2>2. CASE f[i] > p
    <3>1. h[i] = f[i] - 1 /\ f[i] - 1 \in p .. count /\ f[i] - 1 + 1 = f[i]
      BY <2>2, <1>2, <1>3, <1>7
    <3> QED BY <3>1, <1>4
  <2>3. CASE ~(f[i] > p)
    <3>1. h[i] = f[i] /\ f[i] \in 1 .. p - 1
      BY <2>3, <1>2, <1>3, <1>7
    <3> QED BY <3>1, <1>4
  <2> QED BY <2>2, <2>3
<1>13. rolled \/ \A i, j \in S : h[i] < h[j] => tree[i].order < tree[j].order
  BY <1>6, <1>9 DEF StandsFor
<1>14. StandsFor(h, S, 1 .. count)'
  BY <1>1, <1>8, <1>10, <1>11, <1>12, <1>13 DEF StandsFor
<1>15. Standing'
  BY <1>1, <1>5, <1>8, <1>14 DEF Standing
<1> QED BY <1>1, <1>4, <1>15 DEF Counted, TakenIsForemost

LEMMA StepStands ==
    ASSUME HeapAssumption, IInv, Counted, Standing, TakenIsForemost, [Next]_heapVars
    PROVE  Counted' /\ Standing' /\ TakenIsForemost'
<1>1. CASE \E e \in Elements : PushFull(e)
  BY <1>1, UnchangedStands DEF PushFull
<1>2. CASE \E e \in Elements : PushBegin(e)
  BY <1>2, PushBeginStands
<1>3. CASE SiftUp
  BY <1>3, SiftUpStands
<1>4. CASE Pushed
  BY <1>4, PlaceStands DEF Pushed
<1>5. CASE PopEmpty
  BY <1>5, UnchangedStands DEF PopEmpty
<1>6. CASE PopLast
  BY <1>6, EmptyStands DEF PopLast, TakeOnly, loop
<1>7. CASE PopBegin
  BY <1>7, PopBeginStands
<1>8. CASE SiftDown
  BY <1>8, SiftDownStands
<1>9. CASE Popped
  BY <1>9, TakeOutStands DEF Popped
<1>10. CASE Peek
  BY <1>10, UnchangedStands DEF Peek
<1>11. CASE Clear
  BY <1>11, EmptyStands DEF Clear, Empty, loop
<1>12. CASE UNCHANGED heapVars
  BY <1>12, UnchangedStands DEF heapVars
<1> QED
  BY <1>1, <1>2, <1>3, <1>4, <1>5, <1>6, <1>7, <1>8, <1>9, <1>10, <1>11, <1>12
     DEF Next, Push

-----------------------------------------------------------------------------
(* Each call answers as PriorityFifo does; the turns before it stutter.    *)

\* What the root stands for may be answered by PriorityFifo.
LEMMA ForemostIsCandidate ==
    ASSUME HeapAssumption, Counted, TypeOK, NEW k, Foremost(k)
    PROVE  k \in Fifo!Candidates
<1>1. k \in DOMAIN arrived /\ Fifo!IsHighest(k)
  BY DEF Foremost, Fifo!IsHighest
<1>2. ~rolled => Fifo!IsOldest(k)
  BY DEF Foremost, Fifo!IsOldest
<1>3. rolled => ~(OrderSize + 1 <= OrderSize)
  BY DEF HeapAssumption
<1> QED BY <1>1, <1>2, <1>3 DEF Fifo!Candidates

LEMMA TopIsCandidate ==
    ASSUME HeapAssumption, IInv, Counted, Standing, pc = "idle", count > 0
    PROVE  \E k \in Fifo!Candidates : arrived[k] = tree[0].element
<1>1. Waiting = DOMAIN arrived
  BY DEF Waiting
<1>2. PICK f : StandsFor(f, Used, DOMAIN arrived)
  BY <1>1 DEF Standing
<1>3. Foremost(f[0]) /\ arrived[f[0]] = tree[0].element
  BY <1>2, TopIsForemost
<1>4. f[0] \in Fifo!Candidates
  BY <1>3, ForemostIsCandidate DEF IInv
<1> QED BY <1>3, <1>4

LEMMA NextOrder ==
    ASSUME NEW n \in Nat \ {0}, NEW k \in 0 .. n - 1
    PROVE  (k + 1) % n = IF k + 1 = n THEN 0 ELSE k + 1
OBVIOUS

LEMMA PushedAnswers ==
    ASSUME HeapAssumption, IInv, Counted, Pushed
    PROVE  Fifo!Push(item)
<1>1. /\ pc = "sift" /\ arrived' = Append(arrived, item) /\ count' = count + 1
      /\ order' = (order + 1) % OrderSize
      /\ rolled' = (rolled \/ (count > 0 /\ order = 0))
      /\ out' = Result("Push", item, "Success", Nothing)
  BY DEF Pushed, Place
<1>2. /\ count \in Nat /\ count < Depth /\ Len(arrived) = count /\ Depth \in Nat
      /\ order \in 0 .. OrderSize - 1 /\ OrderSize \in Nat \ {0} /\ rolled \in BOOLEAN
  BY <1>1 DEF IInv, TypeOK, Turns, Counted, HeapAssumption
<1>3. order' = IF order + 1 = OrderSize THEN 0 ELSE order + 1
  BY <1>1, <1>2, NextOrder
<1> DEFINE pushes == IF rolled THEN OrderSize + 1
                     ELSE IF count > 0 /\ order = 0 THEN OrderSize ELSE order
<1>4. pushes' = IF pushes > OrderSize THEN pushes ELSE pushes + 1
  <2>1. CASE rolled
    <3>1. pushes = OrderSize + 1 /\ pushes' = OrderSize + 1
      BY <2>1, <1>1
    <3> HIDE DEF pushes
    <3> QED BY <3>1, <1>2
  <2>2. CASE ~rolled /\ count > 0 /\ order = 0
    <3>1. pushes = OrderSize /\ pushes' = OrderSize + 1
      BY <2>2, <1>1
    <3> HIDE DEF pushes
    <3> QED BY <3>1, <1>2
  <2>3. CASE ~rolled /\ ~(count > 0 /\ order = 0)
    <3>1. ~rolled' /\ pushes = order
      BY <2>3, <1>1
    <3>2. pushes' = IF order' = 0 THEN OrderSize ELSE order'
      BY <3>1, <1>1, <1>2
    <3>3. pushes' = order + 1
      BY <3>2, <1>2, <1>3
    <3>4. ~(order > OrderSize)
      BY <1>2
    <3> HIDE DEF pushes
    <3> QED BY <3>1, <3>3, <3>4
  <2> QED BY <2>1, <2>2, <2>3
<1> QED BY <1>1, <1>2, <1>4 DEF Fifo!Push, Fifo!Result, Result

LEMMA StepAnswers ==
    ASSUME HeapAssumption, IInv, Counted, Standing, TakenIsForemost, [Next]_heapVars
    PROVE  [Fifo!Next]_Fifo!vars
<1> USE DEF Fifo!Result, Result, Fifo!Answer
<1>0. /\ count \in Nat /\ count <= Depth /\ Depth \in Nat /\ arrived \in Seq(Elements)
      /\ pc = "idle" => Len(arrived) = count
  BY DEF IInv, TypeOK, Counted, HeapAssumption
<1>1. ASSUME NEW e \in Elements, PushFull(e) PROVE Fifo!Next
  <2>1. /\ pc = "idle" /\ count >= Depth /\ out' = Result("Push", e, "Full", Nothing)
        /\ UNCHANGED <<arrived, rolled, count, order>>
    BY <1>1 DEF PushFull, heap, history
  <2>2. Len(arrived) = Depth
    BY <2>1, <1>0
  <2>3. Fifo!Push(e)
    BY <2>1, <2>2 DEF Fifo!Push
  <2> QED BY <2>3 DEF Fifo!Next
<1>2. ASSUME NEW e \in Elements, PushBegin(e) PROVE UNCHANGED Fifo!vars
  BY <1>2 DEF PushBegin, heap, history, Fifo!vars
<1>3. ASSUME SiftUp PROVE UNCHANGED Fifo!vars
  BY <1>3 DEF SiftUp, history, Fifo!vars
<1>4. ASSUME Pushed PROVE Fifo!Next
  <2>1. item \in Elements
    BY <1>4 DEF IInv, Turns, Pushed, Place
  <2> QED BY <1>4, <2>1, PushedAnswers DEF Fifo!Next
<1>5. ASSUME PopEmpty PROVE Fifo!Next
  <2>1. /\ pc = "idle" /\ count = 0 /\ out' = Result("Pop", Nothing, "Empty", Nothing)
        /\ UNCHANGED <<arrived, rolled, count, order>>
    BY <1>5 DEF PopEmpty, heap, history
  <2>2. arrived = <<>>
    BY <2>1, <1>0, EmptySeq
  <2>3. Fifo!Pop(Nothing)
    BY <2>1, <2>2 DEF Fifo!Pop
  <2> QED BY <2>3 DEF Fifo!Next
<1>6. ASSUME PopLast PROVE Fifo!Next
  <2>1. /\ pc = "idle" /\ count = 1 /\ count' = 0 /\ order' = 0 /\ ~rolled' /\ arrived' = <<>>
        /\ out' = Result("Pop", Nothing, "Success", tree[0].element)
    BY <1>6 DEF PopLast, TakeOnly
  <2>2. PICK k \in Fifo!Candidates : arrived[k] = tree[0].element
    BY <2>1, TopIsCandidate
  <2>3. k \in 1 .. Len(arrived) /\ Len(arrived) = 1
    <3>1. k \in DOMAIN arrived
      BY DEF Fifo!Candidates
    <3> QED BY <3>1, <2>1, <1>0
  <2>4. RemoveAt(arrived, k) = <<>>
    <3>1. RemoveAt(arrived, k) \in Seq(Elements) /\ Len(RemoveAt(arrived, k)) = Len(arrived) - 1
      BY <2>3, <1>0, RemoveAtFacts
    <3> QED BY <3>1, <2>3, EmptySeq
  <2>5. /\ arrived' = Fifo!RemoveAt(arrived, k)
        /\ out' = Result("Pop", Nothing, "Success", arrived[k])
    BY <2>1, <2>2, <2>4 DEF RemoveAt, Fifo!RemoveAt
  <2>6. (IF rolled' THEN OrderSize + 1
         ELSE IF count' > 0 /\ order' = 0 THEN OrderSize ELSE order') = 0
    BY <2>1
  <2>7. Fifo!Pop(Nothing)
    BY <2>3, <2>5, <2>6 DEF Fifo!Pop
  <2> QED BY <2>7 DEF Fifo!Next
<1>7. ASSUME PopBegin PROVE UNCHANGED Fifo!vars
  <2>1. count > 1 /\ count' > 0 /\ UNCHANGED <<order, arrived, rolled, out>>
    BY <1>7, <1>0 DEF PopBegin, history
  <2> QED BY <2>1, <1>0 DEF Fifo!vars
<1>8. ASSUME SiftDown PROVE UNCHANGED Fifo!vars
  BY <1>8 DEF SiftDown, history, Fifo!vars
<1>9. ASSUME Popped PROVE Fifo!Next
  <2>1. /\ pc = "heapify" /\ arrived' = RemoveAt(arrived, FirstOf(item))
        /\ out' = Result("Pop", Nothing, "Success", item)
        /\ UNCHANGED <<rolled, count, order>>
    BY <1>9 DEF Popped, TakeOut, heap
  <2>2. FirstOf(item) \in Fifo!Candidates /\ arrived[FirstOf(item)] = item
    BY <2>1, ForemostIsCandidate DEF TakenIsForemost, IInv
  <2>3. Len(arrived) # 1
    <3>1. count > 0 /\ Len(arrived) = count + 1
      BY <2>1, <1>0 DEF Counted, IInv, Turns, TypeOK, Indexes
    <3> QED BY <3>1, <1>0
  <2>4. PICK k \in Fifo!Candidates : k = FirstOf(item)
    BY <2>2
  <2>5. /\ arrived' = Fifo!RemoveAt(arrived, k)
        /\ out' = Result("Pop", Nothing, "Success", arrived[k])
    BY <2>1, <2>2, <2>4 DEF RemoveAt, Fifo!RemoveAt
  <2>6. Fifo!Pop(Nothing)
    BY <2>1, <2>3, <2>5 DEF Fifo!Pop
  <2> QED BY <2>6 DEF Fifo!Next
<1>10. ASSUME Peek PROVE Fifo!Next
  <2>1. /\ pc = "idle" /\ UNCHANGED <<arrived, rolled, count, order>>
        /\ out' = IF count = 0 THEN Result("Peek", Nothing, "Empty", Nothing)
                  ELSE Result("Peek", Nothing, "Success", tree[0].element)
    BY <1>10 DEF Peek, heap, history
  <2>2. CASE count = 0
    <3>1. arrived = <<>>
      BY <2>1, <2>2, <1>0, EmptySeq
    <3>2. Fifo!Peek
      BY <2>1, <2>2, <3>1 DEF Fifo!Peek
    <3> QED BY <3>2 DEF Fifo!Next
  <2>3. CASE count > 0
    <3>1. PICK k \in Fifo!Candidates : arrived[k] = tree[0].element
      BY <2>1, <2>3, TopIsCandidate
    <3>2. Fifo!Peek
      BY <2>1, <2>3, <3>1, <1>0 DEF Fifo!Peek
    <3> QED BY <3>2 DEF Fifo!Next
  <2> QED BY <2>2, <2>3, <1>0
<1>11. ASSUME Clear PROVE Fifo!Next
  <2>1. /\ arrived' = <<>> /\ ~rolled' /\ count' = 0 /\ order' = 0
        /\ out' = Result("Clear", Nothing, "Success", Nothing)
    BY <1>11 DEF Clear, Empty
  <2>2. Fifo!Clear
    BY <2>1 DEF Fifo!Clear
  <2> QED BY <2>2 DEF Fifo!Next
<1>12. ASSUME UNCHANGED heapVars PROVE UNCHANGED Fifo!vars
  BY <1>12 DEF heapVars, heap, history, Fifo!vars
<1> QED
  BY <1>1, <1>2, <1>3, <1>4, <1>5, <1>6, <1>7, <1>8, <1>9, <1>10, <1>11, <1>12
     DEF Next, Push

\* Whatever the depth, the elements and their priorities, and however many
\* values Order has: each call of the heap answers as a queue does that takes
\* the highest priority first and, until Order rolls over, the oldest of it.
THEOREM HeapIsPriorityFifo == ASSUME HeapAssumption PROVE Spec => ImplementsPriorityFifo
<1> USE DEF FifoInv
<1>1. Init => FifoInv /\ Fifo!Init
  <2>1. SUFFICES ASSUME Init PROVE FifoInv /\ Fifo!Init
    OBVIOUS
  <2>2. Fifo!Init
    BY <2>1 DEF Init, Fifo!Init, Result, Fifo!Result
  <2>3. Counted /\ Standing /\ TakenIsForemost
    BY <2>1, InitStands
  <2> QED BY <2>1, <2>2, <2>3, HeapAssumption, InitInvariant
<1>2. FifoInv /\ [Next]_heapVars => FifoInv' /\ [Fifo!Next]_Fifo!vars
  BY HeapAssumption, StepInvariant, StepStands, StepAnswers
<1> QED BY <1>1, <1>2, PTL DEF Spec, ImplementsPriorityFifo, Fifo!Spec

=============================================================================
