----------------------------- MODULE DelayHeap -----------------------------
(***************************************************************************)
(* The delay heap (internal/delayheap/delayheap.go): an array of nodes in  *)
(* heap order, a map from ids to nodes, and in each node its place in the  *)
(* array, which the operations of container/heap keep by calling Swap.     *)
(* Places count from 1 here.                                               *)
(***************************************************************************)
EXTENDS Integers, Sequences

CONSTANTS
  Node,     \* the ids
  Time,     \* the times, in which 0 is the zero time.Time
  NoNode

ASSUME HeapAssumption ==
  /\ NoNode \notin Node
  /\ Time \subseteq Nat

VARIABLES
  heap,     \* the array: the ids of its nodes
  node,     \* node[n]: WaitUntil and index of the nodes in the map
  popped    \* the node that Pop has just returned

heapVars == <<heap, node, popped>>

HeapInit ==
  /\ heap = <<>>
  /\ node = [n \in {} |-> [wait |-> 0, index |-> 0]]
  /\ popped = NoNode

-----------------------------------------------------------------------------
(* heap.Interface: the array and the nodes as a record of the two           *)

Less(h, i, j) ==
  LET s == h.node[h.heap[i]].wait
      t == h.node[h.heap[j]].wait
  IN  s # 0 /\ (t = 0 \/ s < t)

\* Mutant of Swap: only one of the two nodes learns its new place.
SwapOne(h, i, j) ==
  [heap |-> [h.heap EXCEPT ![i] = h.heap[j], ![j] = h.heap[i]],
   node |-> [h.node EXCEPT ![h.heap[j]].index = i]]

Swap(h, i, j) ==
  [heap |-> [h.heap EXCEPT ![i] = h.heap[j], ![j] = h.heap[i]],
   node |-> [h.node EXCEPT ![h.heap[i]].index = j, ![h.heap[j]].index = i]]

-----------------------------------------------------------------------------
(* container/heap                                                           *)

\* Each loop as the function from the number of its steps to where it is: the heap
\* and a place.  A loop that has ended stays there; up ends within j steps and
\* down within n.
UpStep(p) ==
  LET i == p.at \div 2
  IN  IF p.at > 1 /\ Less(p.h, p.at, i) THEN [h |-> Swap(p.h, i, p.at), at |-> i] ELSE p

UpLoop(h, j) ==
  LET loop[k \in Nat] == IF k = 0 THEN [h |-> h, at |-> j] ELSE UpStep(loop[k - 1])
  IN  loop

Up(h, j) == UpLoop(h, j)[j].h

\* Within the first n places.
DownStep(p, n) ==
  LET left == 2 * p.at
      j == IF left + 1 <= n /\ Less(p.h, left + 1, left) THEN left + 1 ELSE left
  IN  IF left <= n /\ Less(p.h, j, p.at) THEN [h |-> Swap(p.h, p.at, j), at |-> j] ELSE p

DownLoop(h, i, n) ==
  LET loop[k \in Nat] == IF k = 0 THEN [h |-> h, at |-> i] ELSE DownStep(loop[k - 1], n)
  IN  loop

Down(h, i, n) == DownLoop(h, i, n)[n].h

\* Fix: up, unless it went down.
Fixed(h, i, n) == LET d == DownLoop(h, i, n)[n] IN IF d.at > i THEN d.h ELSE Up(h, i)

-----------------------------------------------------------------------------
(* The operations                                                           *)

Contains(n) == n \in DOMAIN node

Become(h) == heap' = h.heap /\ node' = h.node

\* A node that is there is refused.
Push(n, t) ==
  /\ ~Contains(n)
  /\ Become(Up([heap |-> Append(heap, n),
                node |-> [m \in DOMAIN node \cup {n} |->
                            IF m = n THEN [wait |-> t, index |-> Len(heap) + 1] ELSE node[m]]],
               Len(heap) + 1))
  /\ popped' = NoNode

Peek == IF heap = <<>> THEN NoNode ELSE Head(heap)

\* Take the last place off, and node n out of the map.
Shrink(h, n) ==
  /\ heap' = SubSeq(h.heap, 1, Len(heap) - 1)
  /\ node' = [m \in DOMAIN node \ {n} |-> h.node[m]]

Pop ==
  /\ heap # <<>>
  /\ Shrink(Down(Swap([heap |-> heap, node |-> node], 1, Len(heap)), 1, Len(heap) - 1),
            Head(heap))
  /\ popped' = Head(heap)

\* Mutant of Update: the node moves towards the root only.
UpdateUp(n, t) ==
  /\ Contains(n)
  /\ Become(Up([heap |-> heap, node |-> [node EXCEPT ![n].wait = t]], node[n].index))
  /\ popped' = NoNode

\* Update: WaitUntil is assigned before the heap is put in order.
Update(n, t) ==
  /\ Contains(n)
  /\ Become(Fixed([heap |-> heap, node |-> [node EXCEPT ![n].wait = t]],
                  node[n].index, Len(heap)))
  /\ popped' = NoNode

\* Remove: the last node takes the place of n and is put in order.
Remove(n) ==
  /\ Contains(n)
  /\ LET i == node[n].index
         last == Len(heap)
         h == [heap |-> heap, node |-> node]
     IN  Shrink(IF i = last THEN h ELSE Fixed(Swap(h, i, last), i, last - 1), n)
  /\ popped' = NoNode

HeapNext ==
  \/ \E n \in Node, t \in Time : Push(n, t) \/ Update(n, t)
  \/ \E n \in Node : Remove(n)
  \/ Pop

HeapSpec == HeapInit /\ [][HeapNext]_heapVars

-----------------------------------------------------------------------------
(* Properties                                                               *)

\* The heap implements DelaySet: whatever was pushed, updated and removed before,
\* Peek and Pop return a node that waits for the earliest time, the zero time
\* last, and Update and Remove move no node but their own.
Delays == INSTANCE DelaySet WITH waits <- [n \in DOMAIN node |-> node[n].wait], first <- Peek

ImplementsDelaySet == Delays!Spec
=============================================================================
