--------------------------- MODULE DelayHeapProofs ---------------------------
(***************************************************************************)
(* The delay heap implements DelaySet, for all ids and times: the loops of *)
(* container/heap put the array in order again after every operation, and  *)
(* the nodes know their places.                                            *)
(***************************************************************************)
EXTENDS DelayHeap, SequenceTheorems, WellFoundedInduction, TLAPS

-----------------------------------------------------------------------------
(* Loops                                                                   *)

LEMMA Least == ASSUME NEW S, S \subseteq Nat, S # {} PROVE \E m \in S : \A k \in S : m <= k
<1>1. PICK m \in S : \A k \in S : ~(<<k, m>> \in OpToRel(<, Nat))
  BY WFMin, NatLessThanWellFounded, Zenon
<1>2. \A k \in S : ~(k < m)
  BY <1>1, Zenon DEF OpToRel
<1> QED BY <1>2

LEMMA Induct ==
  ASSUME NEW T, T \subseteq Nat, 0 \in T, \A n \in T : n + 1 \in T PROVE T = Nat
<1> SUFFICES ASSUME Nat \ T # {} PROVE FALSE
  OBVIOUS
<1>1. PICK m \in Nat \ T : \A k \in Nat \ T : m <= k
  <2> DEFINE rest == Nat \ T
  <2>1. rest \subseteq Nat /\ rest # {}
    OBVIOUS
  <2> HIDE DEF rest
  <2>2. \E m \in rest : \A k \in rest : m <= k
    BY <2>1, Least
  <2> QED BY <2>2 DEF rest
<1>2. m # 0 /\ m - 1 \in Nat /\ m - 1 < m
  BY <1>1
<1>3. m - 1 \in T
  BY <1>1, <1>2
<1> QED BY <1>1, <1>3

\* A loop with this step has a function from the number of its steps to where it is.
LEMMA Iteration ==
  ASSUME NEW S, NEW s \in S, NEW step \in [S -> S]
  PROVE  \E f \in [Nat -> S] : f = [k \in Nat |-> IF k = 0 THEN s ELSE step[f[k - 1]]]
<1> DEFINE Run(n) == {g \in [0 .. n -> S] : g[0] = s /\ \A k \in 1 .. n : g[k] = step[g[k - 1]]}
           Some == {n \in Nat : Run(n) # {}}
           Same == {k \in Nat : \A n, m \in Nat : \A g \in Run(n), h \in Run(m) :
                                  k <= n /\ k <= m => g[k] = h[k]}
<1>1. Some = Nat
  <2>1. 0 \in Some
    <3>1. [k \in 0 .. 0 |-> s] \in Run(0)
      OBVIOUS
    <3> QED BY <3>1
  <2>2. ASSUME NEW n \in Some PROVE n + 1 \in Some
    <3>1. PICK g \in Run(n) : TRUE
      OBVIOUS
    <3> DEFINE h == [k \in 0 .. n + 1 |-> IF k = n + 1 THEN step[g[n]] ELSE g[k]]
    <3>2. n \in Nat /\ g \in [0 .. n -> S] /\ g[n] \in S
      BY <3>1
    <3>3. h \in [0 .. n + 1 -> S] /\ h[0] = s
      BY <3>1, <3>2
    <3>4. ASSUME NEW k \in 1 .. n + 1 PROVE h[k] = step[h[k - 1]]
      BY <3>1, <3>2
    <3>5. h \in Run(n + 1)
      BY <3>3, <3>4
    <3> QED BY <3>2, <3>5
  <2> HIDE DEF Some
  <2>3. Some \subseteq Nat
    BY DEF Some
  <2> QED BY <2>1, <2>2, <2>3, Induct
<1>2. Same = Nat
  <2>1. 0 \in Same
    OBVIOUS
  <2>2. ASSUME NEW k \in Same PROVE k + 1 \in Same
    <3>1. ASSUME NEW n \in Nat, NEW m \in Nat, NEW g \in Run(n), NEW h \in Run(m),
                 k + 1 <= n, k + 1 <= m
          PROVE  g[k + 1] = h[k + 1]
      <4>1. k \in Nat /\ k <= n /\ k <= m /\ k + 1 \in 1 .. n /\ k + 1 \in 1 .. m /\ (k + 1) - 1 = k
        BY <3>1
      <4>2. g[k] = h[k]
        BY <4>1
      <4>3. g[k + 1] = step[g[(k + 1) - 1]] /\ h[k + 1] = step[h[(k + 1) - 1]]
        BY <4>1
      <4> QED BY <4>1, <4>2, <4>3
    <3> HIDE DEF Run
    <3>2. k + 1 \in Nat
      OBVIOUS
    <3> QED BY <3>1, <3>2
  <2> HIDE DEF Same
  <2>3. Same \subseteq Nat
    BY DEF Same
  <2> QED BY <2>1, <2>2, <2>3, Induct
<1> DEFINE G(n) == CHOOSE g \in Run(n) : TRUE
           f == [n \in Nat |-> G(n)[n]]
<1>3. \A n \in Nat : G(n) \in Run(n)
  BY <1>1
<1>4. \A n \in Nat : G(n) \in [0 .. n -> S] /\ G(n)[0] = s
                     /\ \A k \in 1 .. n : G(n)[k] = step[G(n)[k - 1]]
  BY <1>3
<1>5. ASSUME NEW k \in Nat, k # 0 PROVE G(k)[k] = step[G(k - 1)[k - 1]]
  <2>1. k - 1 \in Nat /\ k - 1 <= k /\ k \in 1 .. k
    BY <1>5
  <2>2. G(k)[k - 1] = G(k - 1)[k - 1]
    <3>1. k - 1 \in Same
      BY <1>2, <2>1
    <3>2. G(k) \in Run(k) /\ G(k - 1) \in Run(k - 1)
      BY <1>3, <2>1
    <3> HIDE DEF Run, G
    <3> QED BY <2>1, <3>1, <3>2
  <2> HIDE DEF G
  <2> QED BY <1>4, <2>1, <2>2
<1> HIDE DEF G
<1>6. f \in [Nat -> S]
  BY <1>4
<1>7. \A k \in Nat : f[k] = IF k = 0 THEN s ELSE step[f[k - 1]]
  BY <1>4, <1>5
<1> HIDE DEF f
<1>8. f = [k \in Nat |-> IF k = 0 THEN s ELSE step[f[k - 1]]]
  BY <1>6, <1>7
<1> QED BY <1>6, <1>8

-----------------------------------------------------------------------------
(* The order of the array: w[k] is the time of the node at place k          *)

Sooner(s, t) == s # 0 /\ (t = 0 \/ s < t)

\* The first n places are in heap order.
Ordered(w, n) == \A j \in 2 .. n : ~Sooner(w[j], w[j \div 2])

\* The nodes below a place may be below the node above it as well.
Bridged(w, n, at) == \A j \in 2 .. n : j \div 2 = at /\ at > 1 => ~Sooner(w[j], w[at \div 2])

\* Only the node at a place may have to move: up, down, or either way.
MayRise(w, n, at) == /\ \A j \in 2 .. n : j # at => ~Sooner(w[j], w[j \div 2])
                     /\ Bridged(w, n, at)

MaySink(w, n, at) == /\ \A j \in 2 .. n : j \div 2 # at => ~Sooner(w[j], w[j \div 2])
                     /\ Bridged(w, n, at)

MayMove(w, n, at) == /\ \A j \in 2 .. n : j # at /\ j \div 2 # at => ~Sooner(w[j], w[j \div 2])
                     /\ Bridged(w, n, at)

LEMMA SoonerOrders ==
  ASSUME NEW a \in Nat, NEW b \in Nat, NEW c \in Nat
  PROVE  /\ Sooner(a, b) => ~Sooner(b, a)
         /\ ~Sooner(a, b) /\ ~Sooner(b, c) => ~Sooner(a, c)
         /\ ~Sooner(a, a)
BY DEF Sooner

LEMMA Parent ==
  ASSUME NEW j \in Nat, j > 1 PROVE j \div 2 \in Nat /\ j \div 2 >= 1 /\ j \div 2 < j
OBVIOUS

LEMMA Rise ==
  ASSUME NEW n \in Nat, NEW w, \A k \in 1 .. n : w[k] \in Nat,
         NEW at \in 2 .. n, MayRise(w, n, at), Sooner(w[at], w[at \div 2]),
         NEW v, \A k \in 1 .. n : v[k] = IF k = at THEN w[at \div 2]
                                         ELSE IF k = at \div 2 THEN w[at] ELSE w[k]
  PROVE  MayRise(v, n, at \div 2)
<1> DEFINE i == at \div 2
<1>1. i \in 1 .. n /\ i < at
  BY Parent
<1> HIDE DEF i
<1>2. /\ w[i] \in Nat /\ w[at] \in Nat /\ Sooner(w[at], w[i]) /\ v[at] = w[i] /\ v[i] = w[at]
      /\ \A k \in 1 .. n : k # at /\ k # i => v[k] = w[k]
  BY <1>1 DEF i
<1>3. \A j \in 2 .. n : j # at => ~Sooner(w[j], w[j \div 2])
  BY DEF MayRise
<1>4. \A j \in 2 .. n : j \div 2 = at => ~Sooner(w[j], w[i])
  BY DEF MayRise, Bridged, i
<1>5. ASSUME NEW j \in 2 .. n, j # i PROVE ~Sooner(v[j], v[j \div 2])
  <2>1. j \div 2 \in 1 .. n /\ j \div 2 < j /\ w[j] \in Nat /\ w[j \div 2] \in Nat
    BY Parent
  <2>2. CASE j = at
    BY <1>2, <2>2, SoonerOrders DEF i
  <2>3. CASE j # at /\ j \div 2 = at
    <3>1. v[j] = w[j] /\ v[j \div 2] = w[i]
      BY <1>2, <1>5, <2>3
    <3> QED BY <1>4, <2>3, <3>1
  <2>4. CASE j # at /\ j \div 2 = i
    <3>1. v[j] = w[j] /\ v[j \div 2] = w[at]
      BY <1>2, <1>5, <2>4
    <3>2. ~Sooner(w[j], w[i]) /\ ~Sooner(w[i], w[at])
      BY <1>2, <1>3, <2>4, SoonerOrders
    <3> QED BY <1>2, <2>1, <3>1, <3>2, SoonerOrders
  <2>5. CASE j # at /\ j \div 2 # at /\ j \div 2 # i
    <3>1. v[j] = w[j] /\ v[j \div 2] = w[j \div 2]
      BY <1>2, <1>5, <2>1, <2>5
    <3> QED BY <1>3, <2>5, <3>1
  <2> QED BY <2>2, <2>3, <2>4, <2>5
<1>6. ASSUME NEW j \in 2 .. n, j \div 2 = i, i > 1 PROVE ~Sooner(v[j], v[i \div 2])
  <2> DEFINE g == i \div 2
  <2>1. g \in 1 .. n /\ g < i /\ w[g] \in Nat /\ w[j] \in Nat
    BY <1>1, <1>6, Parent
  <2>2. ~Sooner(w[i], w[g])
    BY <1>1, <1>3, <1>6
  <2> HIDE DEF g
  <2>3. v[g] = w[g]
    BY <1>1, <1>2, <2>1
  <2>4. CASE j = at
    BY <1>2, <2>2, <2>3, <2>4 DEF g
  <2>5. CASE j # at
    <3>1. j # i
      BY <1>6, Parent
    <3>2. v[j] = w[j] /\ ~Sooner(w[j], w[i])
      BY <1>2, <1>3, <1>6, <2>5, <3>1
    <3>3. ~Sooner(w[j], w[g])
      BY <1>2, <2>1, <2>2, <3>2, SoonerOrders
    <3> QED BY <2>3, <3>2, <3>3 DEF g
  <2> QED BY <2>4, <2>5
<1> QED BY <1>5, <1>6 DEF MayRise, Bridged, i

LEMMA Sink ==
  ASSUME NEW n \in Nat, NEW w, \A k \in 1 .. n : w[k] \in Nat,
         NEW at \in 1 .. n, MayMove(w, n, at),
         NEW c \in 2 .. n, c \div 2 = at, Sooner(w[c], w[at]),
         \A d \in 2 .. n : d \div 2 = at => ~Sooner(w[d], w[c]),
         NEW v, \A k \in 1 .. n : v[k] = IF k = at THEN w[c] ELSE IF k = c THEN w[at] ELSE w[k]
  PROVE  MaySink(v, n, c)
<1>1. at < c /\ w[c] \in Nat /\ w[at] \in Nat
  BY Parent
<1>2. v[at] = w[c] /\ v[c] = w[at] /\ \A k \in 1 .. n : k # at /\ k # c => v[k] = w[k]
  BY <1>1
<1>3. \A j \in 2 .. n : j # at /\ j \div 2 # at => ~Sooner(w[j], w[j \div 2])
  BY DEF MayMove
<1>4. at > 1 => at \div 2 \in 1 .. n /\ at \div 2 < at /\ ~Sooner(w[c], w[at \div 2])
  BY Parent DEF MayMove, Bridged
<1>5. ASSUME NEW j \in 2 .. n, j \div 2 # c PROVE ~Sooner(v[j], v[j \div 2])
  <2>1. j \div 2 \in 1 .. n /\ j \div 2 < j /\ w[j] \in Nat
    BY Parent
  <2>2. CASE j = at
    <3>1. v[j] = w[c] /\ v[j \div 2] = w[at \div 2]
      BY <1>1, <1>2, <1>4, <2>1, <2>2
    <3> QED BY <1>4, <2>2, <3>1
  <2>3. CASE j = c
    BY <1>1, <1>2, <2>3, SoonerOrders
  <2>4. CASE j # c /\ j \div 2 = at
    <3>1. v[j] = w[j] /\ v[j \div 2] = w[c]
      BY <1>2, <2>1, <2>4
    <3> QED BY <2>4, <3>1
  <2>5. CASE j # at /\ j # c /\ j \div 2 # at
    <3>1. v[j] = w[j] /\ v[j \div 2] = w[j \div 2]
      BY <1>2, <1>5, <2>1, <2>5
    <3> QED BY <1>3, <2>5, <3>1
  <2> QED BY <2>2, <2>3, <2>4, <2>5
<1>6. ASSUME NEW j \in 2 .. n, j \div 2 = c PROVE ~Sooner(v[j], v[c \div 2])
  <2>1. c < j /\ j # at /\ j \div 2 # at
    BY <1>1, <1>6, Parent
  <2>2. v[j] = w[j] /\ ~Sooner(w[j], w[c])
    BY <1>2, <1>3, <1>6, <2>1
  <2> QED BY <1>2, <2>2
<1> QED BY <1>5, <1>6 DEF MaySink, Bridged

\* A node that may rise is in order when it is not sooner than the one above it, and
\* a node that may sink when none below it is sooner.
LEMMA Risen ==
  ASSUME NEW n \in Nat, NEW w, NEW at \in Nat, MayRise(w, n, at),
         at > 1 => ~Sooner(w[at], w[at \div 2])
  PROVE  Ordered(w, n)
BY DEF MayRise, Ordered

LEMMA Sunk ==
  ASSUME NEW n \in Nat, NEW w, NEW at \in Nat, \A j \in 2 .. n : j \div 2 = at => ~Sooner(w[j], w[at])
  PROVE  /\ MaySink(w, n, at) => Ordered(w, n)
         /\ MayMove(w, n, at) => MayRise(w, n, at)
BY DEF MaySink, MayMove, MayRise, Ordered

\* In an array in order one node has got another time.
LEMMA OneMoved ==
  ASSUME NEW n \in Nat, NEW w, \A k \in 1 .. n : w[k] \in Nat, Ordered(w, n), NEW at \in 1 .. n,
         NEW v, \A k \in 1 .. n : k # at => v[k] = w[k]
  PROVE  MayMove(v, n, at)
<1>1. ASSUME NEW j \in 2 .. n, j # at, j \div 2 # at PROVE ~Sooner(v[j], v[j \div 2])
  <2>1. j \div 2 \in 1 .. n
    BY Parent
  <2> QED BY <1>1, <2>1 DEF Ordered
<1>2. ASSUME NEW j \in 2 .. n, j \div 2 = at, at > 1 PROVE ~Sooner(v[j], v[at \div 2])
  <2>1. j # at /\ at \div 2 \in 1 .. n /\ at \div 2 < at /\ at \in 2 .. n
    BY <1>2, Parent
  <2>2. ~Sooner(w[j], w[at]) /\ ~Sooner(w[at], w[at \div 2])
    BY <1>2, <2>1 DEF Ordered
  <2>3. ~Sooner(w[j], w[at \div 2])
    BY <2>1, <2>2, SoonerOrders
  <2> QED BY <2>1, <2>3
<1> QED BY <1>1, <1>2 DEF MayMove, Bridged

\* The root comes first.
LEMMA RootLeads ==
  ASSUME NEW n \in Nat, NEW w, \A k \in 1 .. n : w[k] \in Nat, Ordered(w, n)
  PROVE  \A j \in 1 .. n : ~Sooner(w[j], w[1])
<1> DEFINE bad == {j \in 1 .. n : Sooner(w[j], w[1])}
<1> SUFFICES ASSUME bad # {} PROVE FALSE
  OBVIOUS
<1>1. PICK j \in bad : \A k \in bad : j <= k
  <2>1. bad \subseteq Nat
    OBVIOUS
  <2> HIDE DEF bad
  <2> QED BY <2>1, Least
<1>2. j \in 1 .. n /\ Sooner(w[j], w[1]) /\ w[j] \in Nat /\ w[1] \in Nat
  BY <1>1
<1>3. j > 1
  BY <1>2, SoonerOrders
<1>4. j \div 2 \in 1 .. n /\ j \div 2 < j
  BY <1>2, <1>3, Parent
<1>5. ~Sooner(w[j \div 2], w[1])
  BY <1>1, <1>4
<1>6. ~Sooner(w[j], w[j \div 2])
  BY <1>2, <1>3 DEF Ordered
<1> QED BY <1>2, <1>4, <1>5, <1>6, SoonerOrders

-----------------------------------------------------------------------------
(* The array and the nodes                                                 *)

\* N nodes, those of D, that wait for the times t; each knows its place.
Heaps(D, N, t) ==
  {h \in [heap : [1 .. N -> D], node : [D -> [wait : Time, index : 1 .. N]]] :
     /\ \A i \in 1 .. N : h.node[h.heap[i]].index = i
     /\ \A d \in D : h.heap[h.node[d].index] = d
     /\ \A d \in D : h.node[d].wait = t[d]}

\* The times in the order of the array.
Row(h, t) == [k \in DOMAIN h.heap |-> t[h.heap[k]]]

LEMMA HeapsTyped ==
  ASSUME NEW D, NEW N \in Nat, NEW t, NEW h \in Heaps(D, N, t)
  PROVE  /\ h = [heap |-> h.heap, node |-> h.node]
         /\ h.heap \in [1 .. N -> D] /\ h.node \in [D -> [wait : Time, index : 1 .. N]]
         /\ DOMAIN Row(h, t) = 1 .. N
BY DEF Heaps, Row

LEMMA AtPlace ==
  ASSUME NEW D, NEW N \in Nat, NEW t, NEW h \in Heaps(D, N, t), NEW k \in 1 .. N
  PROVE  /\ h.heap[k] \in D
         /\ h.node[h.heap[k]].wait = Row(h, t)[k]
         /\ h.node[h.heap[k]].index = k
         /\ Row(h, t)[k] = t[h.heap[k]]
         /\ Row(h, t)[k] \in Nat
BY HeapAssumption DEF Heaps, Row

LEMMA OfNode ==
  ASSUME NEW D, NEW N \in Nat, NEW t, NEW h \in Heaps(D, N, t), NEW d \in D
  PROVE  /\ h.node[d].index \in 1 .. N /\ h.heap[h.node[d].index] = d
         /\ h.node[d].wait = t[d] /\ t[d] \in Time
BY DEF Heaps

LEMMA LessIsSooner ==
  ASSUME NEW D, NEW N \in Nat, NEW t, NEW h \in Heaps(D, N, t), NEW i \in 1 .. N, NEW j \in 1 .. N
  PROVE  Less(h, i, j) <=> Sooner(Row(h, t)[i], Row(h, t)[j])
<1>1. /\ h.node[h.heap[i]].wait = Row(h, t)[i]
      /\ h.node[h.heap[j]].wait = Row(h, t)[j]
  BY DEF Heaps, Row
<1> QED BY <1>1 DEF Less, Sooner

Placed(D, N) == [D -> [wait : Time, index : 1 .. N]]

\* f is m, but node d has place i.
PlacedAt(D, N, m, d, i, f) ==
  /\ f \in Placed(D, N)
  /\ \A e \in D : f[e].wait = m[e].wait
  /\ \A e \in D : f[e].index = IF e = d THEN i ELSE m[e].index

LEMMA IndexSet ==
  ASSUME NEW D, NEW N, NEW m \in Placed(D, N), NEW d \in D, NEW i \in 1 .. N
  PROVE  PlacedAt(D, N, m, d, i, [m EXCEPT ![d].index = i])
<1>1. m[d] \in [wait : Time, index : 1 .. N]
  BY DEF Placed
<1> DEFINE x == [m[d] EXCEPT !.index = i]
           f == [m EXCEPT ![d].index = i]
<1>2. x \in [wait : Time, index : 1 .. N] /\ x.wait = m[d].wait /\ x.index = i
  BY <1>1
<1>3. f = [m EXCEPT ![d] = x]
  OBVIOUS
<1> HIDE DEF x, f
<1>4. PlacedAt(D, N, m, d, i, f)
  BY <1>2, <1>3 DEF Placed, PlacedAt
<1> QED BY <1>4 DEF f

\* In g the nodes at places i and j have changed places, and they know.
Exchanged(D, N, t, h, i, j, g) ==
  /\ g \in Heaps(D, N, t)
  /\ \A k \in 1 .. N : g.heap[k] = IF k = j THEN h.heap[i] ELSE IF k = i THEN h.heap[j] ELSE h.heap[k]
  /\ \A k \in 1 .. N : Row(g, t)[k] = IF k = j THEN Row(h, t)[i]
                                      ELSE IF k = i THEN Row(h, t)[j] ELSE Row(h, t)[k]

LEMMA Swapped ==
  ASSUME NEW D, NEW N \in Nat, NEW t, NEW h \in Heaps(D, N, t), NEW i \in 1 .. N, NEW j \in 1 .. N
  PROVE  Exchanged(D, N, t, h, i, j, Swap(h, i, j))
<1> DEFINE g == Swap(h, i, j)
           a == h.heap[i]
           b == h.heap[j]
<1>0. /\ h.heap \in [1 .. N -> D] /\ h.node \in [D -> [wait : Time, index : 1 .. N]]
      /\ a \in D /\ b \in D
  BY DEF Heaps
<1>1. /\ g.heap = [h.heap EXCEPT ![i] = h.heap[j], ![j] = h.heap[i]]
      /\ g.node = [h.node EXCEPT ![a].index = j, ![b].index = i]
      /\ g = [heap |-> g.heap, node |-> g.node]
  BY DEF Swap
<1>2. /\ g.heap \in [1 .. N -> D]
      /\ \A k \in 1 .. N : g.heap[k] = IF k = j THEN h.heap[i]
                                       ELSE IF k = i THEN h.heap[j] ELSE h.heap[k]
  BY <1>0, <1>1
<1>3. /\ g.node \in [D -> [wait : Time, index : 1 .. N]]
      /\ \A d \in D : /\ g.node[d].wait = h.node[d].wait
                      /\ g.node[d].index = IF d = b THEN i ELSE IF d = a THEN j ELSE h.node[d].index
  <2> DEFINE m == [h.node EXCEPT ![a].index = j]
  <2>1. m = [h.node EXCEPT ![a].index = j] /\ g.node = [m EXCEPT ![b].index = i]
    BY <1>1
  <2> HIDE DEF a, b
  <2>2. h.node \in Placed(D, N)
    BY <1>0 DEF Placed
  <2>3. PlacedAt(D, N, h.node, a, j, m)
    BY <1>0, <2>2, IndexSet
  <2>4. m \in Placed(D, N)
    BY <2>3 DEF PlacedAt
  <2> HIDE DEF m
  <2>5. PlacedAt(D, N, m, b, i, [m EXCEPT ![b].index = i])
    BY <1>0, <2>4, IndexSet
  <2>6. PlacedAt(D, N, m, b, i, g.node)
    BY <2>1, <2>5
  <2> HIDE DEF g
  <2> QED BY <2>3, <2>6 DEF PlacedAt, Placed
<1> HIDE DEF g
<1>4. /\ \A k \in 1 .. N : h.heap[k] \in D /\ h.node[h.heap[k]].index = k
      /\ \A d \in D : h.node[d].index \in 1 .. N /\ h.heap[h.node[d].index] = d
  BY <1>0 DEF Heaps
<1>5. ASSUME NEW k \in 1 .. N PROVE g.node[g.heap[k]].index = k
  <2>1. CASE k = j
    <3>1. g.heap[k] = a /\ (a = b => i = j)
      BY <1>2, <1>4, <2>1
    <3> QED BY <1>0, <1>3, <2>1, <3>1
  <2>2. CASE k # j /\ k = i
    BY <1>0, <1>2, <1>3, <1>4, <2>2
  <2>3. CASE k # j /\ k # i
    <3>1. g.heap[k] = h.heap[k] /\ h.heap[k] # a /\ h.heap[k] # b
      BY <1>2, <1>4, <2>3
    <3> QED BY <1>3, <1>4, <3>1
  <2> QED BY <2>1, <2>2, <2>3
<1>6. ASSUME NEW d \in D PROVE g.heap[g.node[d].index] = d
  <2>1. CASE d = b
    BY <1>2, <1>3, <1>4, <2>1
  <2>2. CASE d # b /\ d = a
    BY <1>2, <1>3, <1>4, <2>2
  <2>3. CASE d # b /\ d # a
    <3>1. g.node[d].index = h.node[d].index /\ h.node[d].index # i /\ h.node[d].index # j
      BY <1>3, <1>4, <2>3
    <3> QED BY <1>2, <1>4, <3>1
  <2> QED BY <2>1, <2>2, <2>3
<1>7. \A d \in D : g.node[d].wait = t[d]
  BY <1>3 DEF Heaps
<1>8. g \in Heaps(D, N, t)
  BY <1>1, <1>2, <1>3, <1>5, <1>6, <1>7 DEF Heaps
<1>9. \A k \in 1 .. N : Row(g, t)[k] = IF k = j THEN Row(h, t)[i]
                                       ELSE IF k = i THEN Row(h, t)[j] ELSE Row(h, t)[k]
  BY <1>0, <1>2 DEF Row
<1> QED BY <1>2, <1>8, <1>9 DEF g, Exchanged

-----------------------------------------------------------------------------
(* up                                                                      *)

Spots(D, N, t) == [h : Heaps(D, N, t), at : 1 .. N]

LEMMA UpStepTyped ==
  ASSUME NEW D, NEW N \in Nat, NEW t, NEW p \in Spots(D, N, t) PROVE UpStep(p) \in Spots(D, N, t)
<1>1. p.h \in Heaps(D, N, t) /\ p.at \in 1 .. N
  BY DEF Spots
<1>2. CASE p.at > 1
  <2>1. p.at \div 2 \in 1 .. N
    BY <1>1, <1>2, Parent
  <2>2. Exchanged(D, N, t, p.h, p.at \div 2, p.at, Swap(p.h, p.at \div 2, p.at))
    BY <1>1, <2>1, Swapped
  <2> QED BY <1>1, <2>1, <2>2 DEF Exchanged, UpStep, Spots
<1>3. CASE ~(p.at > 1)
  BY <1>1, <1>3 DEF UpStep, Spots
<1> QED BY <1>2, <1>3

UpRun(D, N, t, h, j, u) ==
  /\ u \in [Nat -> Spots(D, N, t)]
  /\ u[0] = [h |-> h, at |-> j]
  /\ \A k \in Nat : u[k + 1] = UpStep(u[k])

LEMMA UpLoopIs ==
  ASSUME NEW D, NEW N \in Nat, NEW t, NEW h \in Heaps(D, N, t), NEW j \in 1 .. N
  PROVE  UpRun(D, N, t, h, j, UpLoop(h, j))
<1> DEFINE S == Spots(D, N, t)
           step == [p \in S |-> UpStep(p)]
           s == [h |-> h, at |-> j]
           Is(f) == f = [k \in Nat |-> IF k = 0 THEN s ELSE UpStep(f[k - 1])]
<1>1. s \in S
  BY DEF Spots
<1>2. step \in [S -> S]
  BY UpStepTyped
<1> HIDE DEF S, s
<1>3. PICK f \in [Nat -> S] : f = [k \in Nat |-> IF k = 0 THEN s ELSE step[f[k - 1]]]
  <2> HIDE DEF step
  <2> QED BY <1>1, <1>2, Iteration
<1>4. \A k \in Nat : f[k] = IF k = 0 THEN s ELSE step[f[k - 1]]
  BY <1>3
<1>5. \A k \in Nat : k # 0 => step[f[k - 1]] = UpStep(f[k - 1])
  <2>1. \A k \in Nat : k # 0 => k - 1 \in Nat
    OBVIOUS
  <2> QED BY <1>3, <2>1
<1>6. \A k \in Nat : f[k] = IF k = 0 THEN s ELSE UpStep(f[k - 1])
  BY <1>4, <1>5
<1>7. Is(f)
  BY <1>3, <1>6
<1>8. UpLoop(h, j) = CHOOSE g : Is(g)
  BY DEF UpLoop, s
<1>9. Is(UpLoop(h, j))
  <2> HIDE DEF Is
  <2> QED BY <1>7, <1>8, Zenon
<1> DEFINE u == UpLoop(h, j)
<1>10. u = [k \in Nat |-> IF k = 0 THEN s ELSE UpStep(u[k - 1])]
  BY <1>9
<1> HIDE DEF u
<1>11. DOMAIN u = Nat /\ \A k \in Nat : u[k] = IF k = 0 THEN s ELSE UpStep(u[k - 1])
  BY <1>10
<1>12. u[0] = s /\ \A k \in Nat : u[k + 1] = UpStep(u[k])
  BY <1>11
<1>13. {k \in Nat : u[k] \in S} = Nat
  <2> DEFINE T == {k \in Nat : u[k] \in S}
  <2>1. 0 \in T /\ T \subseteq Nat
    BY <1>1, <1>12
  <2>2. \A k \in T : k + 1 \in T
    BY <1>12, UpStepTyped DEF S
  <2> HIDE DEF T
  <2>3. T = Nat
    BY <2>1, <2>2, Induct
  <2> QED BY <2>3 DEF T
<1>14. u \in [Nat -> S]
  <2>1. u = [k \in Nat |-> u[k]]
    BY <1>10
  <2> QED BY <1>13, <2>1
<1> QED BY <1>12, <1>14 DEF S, s, u, UpRun

\* g has the nodes of h, the first n places in order, and the others as in h.
InOrder(D, N, t, n, h, g) ==
  /\ g \in Heaps(D, N, t)
  /\ Ordered(Row(g, t), n)
  /\ \A k \in n + 1 .. N : g.heap[k] = h.heap[k]

RowTimes(D, N, t, h) == \A k \in 1 .. N : Row(h, t)[k] \in Nat

LEMMA RowTyped == ASSUME NEW D, NEW N \in Nat, NEW t, NEW h \in Heaps(D, N, t) PROVE RowTimes(D, N, t, h)
BY AtPlace DEF RowTimes

RiseInv(D, N, t, n, h, p) ==
  /\ p \in Spots(D, N, t) /\ p.at \in 1 .. n
  /\ MayRise(Row(p.h, t), n, p.at)
  /\ \A k \in n + 1 .. N : p.h.heap[k] = h.heap[k]

UpDone(p) == ~(p.at > 1 /\ Less(p.h, p.at, p.at \div 2))

LEMMA UpStepKeeps ==
  ASSUME NEW D, NEW N \in Nat, NEW t, NEW n \in 0 .. N, NEW h \in Heaps(D, N, t),
         NEW p, RiseInv(D, N, t, n, h, p), ~UpDone(p)
  PROVE  RiseInv(D, N, t, n, h, UpStep(p)) /\ UpStep(p).at < p.at
<1> DEFINE i == p.at \div 2
           g == Swap(p.h, i, p.at)
           w == Row(p.h, t)
           v == Row(g, t)
<1>1. /\ p.h \in Heaps(D, N, t) /\ p.at \in 2 .. n /\ p.at \in 1 .. N /\ MayRise(w, n, p.at)
      /\ Less(p.h, p.at, i) /\ UpStep(p) = [h |-> g, at |-> i]
  BY DEF RiseInv, Spots, UpDone, UpStep
<1>2. i \in 1 .. N /\ i \in 1 .. n /\ i < p.at
  BY <1>1, Parent
<1> HIDE DEF i
<1>3. /\ g \in Heaps(D, N, t)
      /\ \A k \in 1 .. N : g.heap[k] = IF k = p.at THEN p.h.heap[i]
                                       ELSE IF k = i THEN p.h.heap[p.at] ELSE p.h.heap[k]
      /\ \A k \in 1 .. N : v[k] = IF k = p.at THEN w[i] ELSE IF k = i THEN w[p.at] ELSE w[k]
  <2>1. Exchanged(D, N, t, p.h, i, p.at, g)
    BY <1>1, <1>2, Swapped
  <2> QED BY <2>1 DEF Exchanged
<1> HIDE DEF g
<1>4. Sooner(w[p.at], w[i])
  BY <1>1, <1>2, LessIsSooner
<1>5. \A k \in 1 .. N : w[k] \in Nat
  BY <1>1, RowTyped DEF RowTimes
<1> HIDE DEF w, v
<1>6. MayRise(v, n, i)
  BY <1>1, <1>3, <1>4, <1>5, Rise DEF i
<1>7. \A k \in n + 1 .. N : g.heap[k] = h.heap[k]
  BY <1>1, <1>2, <1>3 DEF RiseInv
<1>8. [h |-> g, at |-> i] \in Spots(D, N, t)
  BY <1>2, <1>3 DEF Spots
<1> QED BY <1>1, <1>2, <1>6, <1>7, <1>8 DEF RiseInv, v

\* up puts in order what may rise.
LEMMA UpOrders ==
  ASSUME NEW D, NEW N \in Nat, NEW t, NEW n \in 0 .. N, NEW h \in Heaps(D, N, t), NEW j \in 1 .. n,
         MayRise(Row(h, t), n, j)
  PROVE  InOrder(D, N, t, n, h, Up(h, j))
<1> DEFINE u == UpLoop(h, j)
           T == {k \in Nat : RiseInv(D, N, t, n, h, u[k]) /\ (UpDone(u[k]) \/ u[k].at + k <= j)}
<1>0. j \in 1 .. N /\ j \in Nat
  OBVIOUS
<1>1. u \in [Nat -> Spots(D, N, t)] /\ u[0] = [h |-> h, at |-> j]
      /\ \A k \in Nat : u[k + 1] = UpStep(u[k])
  <2>1. UpRun(D, N, t, h, j, u)
    BY <1>0, UpLoopIs
  <2> QED BY <2>1 DEF UpRun
<1> HIDE DEF u
<1>2. 0 \in T
  BY <1>0, <1>1 DEF RiseInv, Spots
<1>3. ASSUME NEW k \in T PROVE k + 1 \in T
  <2>1. k \in Nat /\ RiseInv(D, N, t, n, h, u[k]) /\ u[k + 1] = UpStep(u[k])
    BY <1>1
  <2>2. CASE UpDone(u[k])
    <3>1. UpStep(u[k]) = u[k]
      BY <2>2 DEF UpDone, UpStep
    <3> QED BY <2>1, <2>2, <3>1
  <2>3. CASE ~UpDone(u[k])
    <3>1. RiseInv(D, N, t, n, h, u[k + 1]) /\ u[k + 1].at < u[k].at
      BY <2>1, <2>3, UpStepKeeps
    <3>2. u[k].at + k <= j
      BY <2>3
    <3>3. u[k].at \in Nat /\ u[k + 1].at \in Nat
      BY <2>1, <3>1 DEF RiseInv
    <3> QED BY <1>0, <2>1, <3>1, <3>2, <3>3
  <2> QED BY <2>2, <2>3
<1>4. T = Nat
  <2>1. T \subseteq Nat
    OBVIOUS
  <2> HIDE DEF T
  <2> QED BY <1>2, <1>3, <2>1, Induct
<1>5. RiseInv(D, N, t, n, h, u[j]) /\ UpDone(u[j])
  <2>1. RiseInv(D, N, t, n, h, u[j]) /\ (UpDone(u[j]) \/ u[j].at + j <= j)
    BY <1>0, <1>4
  <2>2. u[j].at \in 1 .. n
    BY <2>1 DEF RiseInv
  <2> QED BY <1>0, <2>1, <2>2
<1> DEFINE g == u[j].h
           at == u[j].at
<1>6. /\ g \in Heaps(D, N, t) /\ at \in 1 .. n /\ MayRise(Row(g, t), n, at)
      /\ \A k \in n + 1 .. N : g.heap[k] = h.heap[k]
      /\ at > 1 => ~Less(g, at, at \div 2)
  BY <1>5 DEF RiseInv, Spots, UpDone
<1> HIDE DEF g, at
<1>7. at > 1 => ~Sooner(Row(g, t)[at], Row(g, t)[at \div 2])
  <2>1. at > 1 => at \in 1 .. N /\ at \div 2 \in 1 .. N
    BY <1>6, Parent
  <2> QED BY <1>6, <2>1, LessIsSooner
<1>8. Ordered(Row(g, t), n)
  BY <1>6, <1>7, Risen
<1>9. Up(h, j) = g
  BY DEF Up, g, u
<1> QED BY <1>6, <1>8, <1>9 DEF InOrder

-----------------------------------------------------------------------------
(* down                                                                    *)

\* The place below that comes first.
Child(p, n) ==
  LET left == 2 * p.at
  IN  IF left + 1 <= n /\ Less(p.h, left + 1, left) THEN left + 1 ELSE left

DownDone(p, n) == ~(2 * p.at <= n /\ Less(p.h, Child(p, n), p.at))

LEMMA DownStepIs ==
  ASSUME NEW p, NEW n
  PROVE  DownStep(p, n) = IF DownDone(p, n) THEN p
                          ELSE [h |-> Swap(p.h, p.at, Child(p, n)), at |-> Child(p, n)]
BY DEF DownStep, DownDone, Child

\* c is below the place, and no place below it comes sooner.
Chosen(D, N, t, n, p, c) ==
  /\ c \in 2 .. n /\ c \div 2 = p.at /\ c > p.at
  /\ \A d \in 2 .. n : d \div 2 = p.at => ~Sooner(Row(p.h, t)[d], Row(p.h, t)[c])

LEMMA ChildChosen ==
  ASSUME NEW D, NEW N \in Nat, NEW t, NEW n \in 0 .. N, NEW p \in Spots(D, N, t), 2 * p.at <= n
  PROVE  Chosen(D, N, t, n, p, Child(p, n))
<1> DEFINE left == 2 * p.at
           w == Row(p.h, t)
<1>1. p.h \in Heaps(D, N, t) /\ p.at \in 1 .. N
  BY DEF Spots
<1>2. left \in 2 .. n /\ left > p.at /\ left \div 2 = p.at /\ (left + 1) \div 2 = p.at
  BY <1>1
<1>3. \A d \in 2 .. n : d \div 2 = p.at => d = left \/ d = left + 1
  BY <1>1
<1>4. \A k \in 1 .. N : w[k] \in Nat
  BY <1>1, RowTyped DEF RowTimes
<1> HIDE DEF left, w
<1>5. CASE left + 1 <= n /\ Less(p.h, left + 1, left)
  <2>1. Child(p, n) = left + 1 /\ left \in 1 .. N /\ left + 1 \in 1 .. N /\ left + 1 \in 2 .. n
    BY <1>2, <1>5 DEF Child, left
  <2>2. Sooner(w[left + 1], w[left])
    BY <1>1, <1>5, <2>1, LessIsSooner DEF w
  <2>3. ~Sooner(w[left], w[left + 1]) /\ ~Sooner(w[left + 1], w[left + 1])
    BY <1>4, <2>1, <2>2, SoonerOrders
  <2> QED BY <1>2, <1>3, <2>1, <2>3 DEF Chosen, w
<1>6. CASE ~(left + 1 <= n /\ Less(p.h, left + 1, left))
  <2>1. Child(p, n) = left /\ left \in 1 .. N
    BY <1>2, <1>6 DEF Child, left
  <2>2. ASSUME left + 1 <= n PROVE ~Sooner(w[left + 1], w[left])
    <3>1. left + 1 \in 1 .. N
      BY <1>2, <2>2
    <3> QED BY <1>1, <1>6, <2>1, <2>2, <3>1, LessIsSooner DEF w
  <2>3. ~Sooner(w[left], w[left])
    BY <1>4, <2>1, SoonerOrders
  <2> QED BY <1>2, <1>3, <2>1, <2>2, <2>3 DEF Chosen, w
<1> QED BY <1>5, <1>6

LEMMA DownStepTyped ==
  ASSUME NEW D, NEW N \in Nat, NEW t, NEW n \in 0 .. N, NEW p \in Spots(D, N, t)
  PROVE  DownStep(p, n) \in Spots(D, N, t)
<1> DEFINE c == Child(p, n)
<1>1. p.h \in Heaps(D, N, t) /\ p.at \in 1 .. N
  BY DEF Spots
<1>2. CASE ~DownDone(p, n)
  <2>1. c \in 1 .. N
    BY <1>2, ChildChosen DEF Chosen, DownDone
  <2>2. DownStep(p, n) = [h |-> Swap(p.h, p.at, c), at |-> c]
    BY <1>2, DownStepIs
  <2> HIDE DEF c
  <2>3. Exchanged(D, N, t, p.h, p.at, c, Swap(p.h, p.at, c))
    BY <1>1, <2>1, Swapped
  <2> QED BY <2>1, <2>2, <2>3 DEF Exchanged, Spots
<1>3. CASE DownDone(p, n)
  BY <1>3, DownStepIs
<1> QED BY <1>2, <1>3

DownRun(D, N, t, h, i, n, u) ==
  /\ u \in [Nat -> Spots(D, N, t)]
  /\ u[0] = [h |-> h, at |-> i]
  /\ \A k \in Nat : u[k + 1] = DownStep(u[k], n)

LEMMA DownLoopIs ==
  ASSUME NEW D, NEW N \in Nat, NEW t, NEW n \in 0 .. N, NEW h \in Heaps(D, N, t), NEW i \in 1 .. N
  PROVE  DownRun(D, N, t, h, i, n, DownLoop(h, i, n))
<1> DEFINE S == Spots(D, N, t)
           step == [p \in S |-> DownStep(p, n)]
           s == [h |-> h, at |-> i]
           Is(f) == f = [k \in Nat |-> IF k = 0 THEN s ELSE DownStep(f[k - 1], n)]
<1>1. s \in S
  BY DEF Spots
<1>2. step \in [S -> S]
  BY DownStepTyped
<1> HIDE DEF S, s
<1>3. PICK f \in [Nat -> S] : f = [k \in Nat |-> IF k = 0 THEN s ELSE step[f[k - 1]]]
  <2> HIDE DEF step
  <2> QED BY <1>1, <1>2, Iteration
<1>4. \A k \in Nat : f[k] = IF k = 0 THEN s ELSE step[f[k - 1]]
  BY <1>3
<1>5. \A k \in Nat : k # 0 => step[f[k - 1]] = DownStep(f[k - 1], n)
  <2>1. \A k \in Nat : k # 0 => k - 1 \in Nat
    OBVIOUS
  <2> QED BY <1>3, <2>1
<1>6. \A k \in Nat : f[k] = IF k = 0 THEN s ELSE DownStep(f[k - 1], n)
  BY <1>4, <1>5
<1>7. Is(f)
  BY <1>3, <1>6
<1>8. DownLoop(h, i, n) = CHOOSE g : Is(g)
  BY DEF DownLoop, s
<1>9. Is(DownLoop(h, i, n))
  <2> HIDE DEF Is
  <2> QED BY <1>7, <1>8, Zenon
<1> DEFINE u == DownLoop(h, i, n)
<1>10. u = [k \in Nat |-> IF k = 0 THEN s ELSE DownStep(u[k - 1], n)]
  BY <1>9
<1> HIDE DEF u
<1>11. DOMAIN u = Nat /\ \A k \in Nat : u[k] = IF k = 0 THEN s ELSE DownStep(u[k - 1], n)
  BY <1>10
<1>12. u[0] = s /\ \A k \in Nat : u[k + 1] = DownStep(u[k], n)
  BY <1>11
<1>13. {k \in Nat : u[k] \in S} = Nat
  <2> DEFINE T == {k \in Nat : u[k] \in S}
  <2>1. 0 \in T /\ T \subseteq Nat
    BY <1>1, <1>12
  <2>2. \A k \in T : k + 1 \in T
    BY <1>12, DownStepTyped DEF S
  <2> HIDE DEF T
  <2>3. T = Nat
    BY <2>1, <2>2, Induct
  <2> QED BY <2>3 DEF T
<1>14. u \in [Nat -> S]
  <2>1. u = [k \in Nat |-> u[k]]
    BY <1>10
  <2> QED BY <1>13, <2>1
<1> QED BY <1>12, <1>14 DEF S, s, u, DownRun

SinkInv(D, N, t, n, h, i, p) ==
  /\ p \in Spots(D, N, t)
  /\ \A k \in n + 1 .. N : p.h.heap[k] = h.heap[k]
  /\ \/ p.h = h /\ p.at = i
     \/ p.at > i /\ p.at \in 1 .. n /\ MaySink(Row(p.h, t), n, p.at)

LEMMA DownStepKeeps ==
  ASSUME NEW D, NEW N \in Nat, NEW t, NEW n \in 0 .. N, NEW h \in Heaps(D, N, t), NEW i \in 1 .. N,
         MayMove(Row(h, t), n, i),
         NEW p, SinkInv(D, N, t, n, h, i, p), ~DownDone(p, n)
  PROVE  SinkInv(D, N, t, n, h, i, DownStep(p, n)) /\ DownStep(p, n).at > p.at
<1> DEFINE c == Child(p, n)
           g == Swap(p.h, p.at, c)
           w == Row(p.h, t)
           v == Row(g, t)
<1>1. /\ p \in Spots(D, N, t) /\ p.h \in Heaps(D, N, t) /\ p.at \in 1 .. N /\ p.at >= i
      /\ 2 * p.at <= n /\ Less(p.h, c, p.at)
      /\ DownStep(p, n) = [h |-> g, at |-> c]
  BY DownStepIs DEF SinkInv, Spots, DownDone
<1>2. /\ c \in 2 .. n /\ c \in 1 .. N /\ c \div 2 = p.at /\ c > p.at /\ p.at \in 1 .. n
      /\ \A d \in 2 .. n : d \div 2 = p.at => ~Sooner(w[d], w[c])
  <2>1. Chosen(D, N, t, n, p, c)
    BY <1>1, ChildChosen
  <2> QED BY <1>1, <2>1 DEF Chosen
<1>3. MayMove(w, n, p.at)
  BY DEF SinkInv, MaySink, MayMove
<1> HIDE DEF c
<1>4. /\ g \in Heaps(D, N, t)
      /\ \A k \in 1 .. N : g.heap[k] = IF k = c THEN p.h.heap[p.at]
                                       ELSE IF k = p.at THEN p.h.heap[c] ELSE p.h.heap[k]
      /\ \A k \in 1 .. N : v[k] = IF k = c THEN w[p.at] ELSE IF k = p.at THEN w[c] ELSE w[k]
  <2>1. Exchanged(D, N, t, p.h, p.at, c, g)
    BY <1>1, <1>2, Swapped
  <2> QED BY <2>1 DEF Exchanged
<1> HIDE DEF g
<1>5. Sooner(w[c], w[p.at])
  BY <1>1, <1>2, LessIsSooner
<1>6. \A k \in 1 .. N : w[k] \in Nat
  BY <1>1, RowTyped DEF RowTimes
<1> HIDE DEF w, v
<1>7. MaySink(v, n, c)
  <2>1. \A k \in 1 .. n : w[k] \in Nat
    BY <1>6
  <2>2. \A k \in 1 .. n : v[k] = IF k = p.at THEN w[c] ELSE IF k = c THEN w[p.at] ELSE w[k]
    BY <1>2, <1>4
  <2> QED BY <1>2, <1>3, <1>5, <2>1, <2>2, Sink
<1>8. \A k \in n + 1 .. N : g.heap[k] = h.heap[k]
  BY <1>1, <1>2, <1>4 DEF SinkInv
<1>9. [h |-> g, at |-> c] \in Spots(D, N, t)
  BY <1>2, <1>4 DEF Spots
<1> QED BY <1>1, <1>2, <1>7, <1>8, <1>9 DEF SinkInv, v

\* Where down leaves a node: lower, and all in order, or where it was, with none below
\* it sooner.
Sunken(D, N, t, n, h, i, d) ==
  \/ d.at > i /\ InOrder(D, N, t, n, h, d.h)
  \/ ~(d.at > i) /\ d.h = h /\ MayRise(Row(h, t), n, i)

LEMMA DownSinks ==
  ASSUME NEW D, NEW N \in Nat, NEW t, NEW n \in 0 .. N, NEW h \in Heaps(D, N, t), NEW i \in 1 .. N,
         MayMove(Row(h, t), n, i)
  PROVE  Sunken(D, N, t, n, h, i, DownLoop(h, i, n)[n])
<1> DEFINE u == DownLoop(h, i, n)
           T == {k \in Nat : SinkInv(D, N, t, n, h, i, u[k]) /\ (DownDone(u[k], n) \/ u[k].at >= i + k)}
<1>0. i \in Nat /\ i >= 1 /\ n \in Nat
  OBVIOUS
<1>1. u \in [Nat -> Spots(D, N, t)] /\ u[0] = [h |-> h, at |-> i]
      /\ \A k \in Nat : u[k + 1] = DownStep(u[k], n)
  <2>1. DownRun(D, N, t, h, i, n, u)
    BY DownLoopIs
  <2> QED BY <2>1 DEF DownRun
<1> HIDE DEF u
<1>2. 0 \in T
  <2>1. u[0] \in Spots(D, N, t) /\ u[0].h = h /\ u[0].at = i
    BY <1>1
  <2>2. SinkInv(D, N, t, n, h, i, u[0])
    BY <2>1 DEF SinkInv
  <2>3. u[0].at >= i + 0
    BY <1>0, <2>1
  <2> QED BY <2>2, <2>3
<1>3. ASSUME NEW k \in T PROVE k + 1 \in T
  <2>1. k \in Nat /\ SinkInv(D, N, t, n, h, i, u[k]) /\ u[k + 1] = DownStep(u[k], n)
    BY <1>1
  <2>2. CASE DownDone(u[k], n)
    <3>1. DownStep(u[k], n) = u[k]
      BY <2>2, DownStepIs
    <3> QED BY <2>1, <2>2, <3>1
  <2>3. CASE ~DownDone(u[k], n)
    <3>1. SinkInv(D, N, t, n, h, i, u[k + 1]) /\ u[k + 1].at > u[k].at
      BY <2>1, <2>3, DownStepKeeps
    <3>2. u[k].at >= i + k
      BY <2>3
    <3>3. u[k].at \in Nat /\ u[k + 1].at \in Nat
      BY <2>1, <3>1 DEF SinkInv, Spots
    <3> QED BY <1>0, <2>1, <3>1, <3>2, <3>3
  <2> QED BY <2>2, <2>3
<1>4. T = Nat
  <2>1. T \subseteq Nat
    OBVIOUS
  <2> HIDE DEF T
  <2> QED BY <1>2, <1>3, <2>1, Induct
<1> DEFINE d == u[n]
           w == Row(d.h, t)
<1>5. SinkInv(D, N, t, n, h, i, d) /\ DownDone(d, n)
  <2>1. SinkInv(D, N, t, n, h, i, u[n]) /\ (DownDone(u[n], n) \/ u[n].at >= i + n)
    BY <1>0, <1>4
  <2>2. u[n].at \in Nat
    BY <2>1 DEF SinkInv, Spots
  <2>3. u[n].at >= i + n => DownDone(u[n], n)
    BY <1>0, <2>2 DEF DownDone
  <2> QED BY <2>1, <2>3
<1> HIDE DEF d
<1>6. d \in Spots(D, N, t) /\ d.h \in Heaps(D, N, t) /\ d.at \in 1 .. N
  BY <1>5 DEF SinkInv, Spots
<1>7. \A j \in 2 .. n : j \div 2 = d.at => ~Sooner(w[j], w[d.at])
  <2>1. CASE 2 * d.at <= n
    <3> DEFINE c == Child(d, n)
    <3>1. /\ c \in 2 .. n /\ c \in 1 .. N
          /\ \A j \in 2 .. n : j \div 2 = d.at => ~Sooner(w[j], w[c])
      <4>1. Chosen(D, N, t, n, d, c)
        BY <1>6, <2>1, ChildChosen
      <4> QED BY <4>1 DEF Chosen
    <3>2. ~Less(d.h, c, d.at)
      BY <1>5, <2>1 DEF DownDone
    <3> HIDE DEF c
    <3>3. ~Sooner(w[c], w[d.at])
      BY <1>6, <3>1, <3>2, LessIsSooner
    <3>4. \A k \in 1 .. N : w[k] \in Nat
      BY <1>6, RowTyped DEF RowTimes
    <3> HIDE DEF w
    <3>5. ASSUME NEW j \in 2 .. n, j \div 2 = d.at PROVE ~Sooner(w[j], w[d.at])
      <4>1. w[j] \in Nat /\ w[c] \in Nat /\ w[d.at] \in Nat
        BY <1>6, <3>1, <3>4
      <4> QED BY <3>1, <3>3, <3>5, <4>1, SoonerOrders
    <3> QED BY <3>5
  <2>2. CASE ~(2 * d.at <= n)
    BY <1>6, <2>2
  <2> QED BY <2>1, <2>2
<1> HIDE DEF w
<1>8. (MaySink(w, n, d.at) => Ordered(w, n)) /\ (MayMove(w, n, d.at) => MayRise(w, n, d.at))
  BY <1>6, <1>7, Sunk
<1>9. CASE d.h = h /\ d.at = i
  BY <1>8, <1>9 DEF Sunken, d, u, w
<1>10. CASE d.at > i /\ MaySink(w, n, d.at)
  <2>1. InOrder(D, N, t, n, h, d.h)
    BY <1>5, <1>6, <1>8, <1>10 DEF InOrder, SinkInv, w
  <2> QED BY <1>10, <2>1 DEF Sunken, d, u
<1> QED BY <1>5, <1>9, <1>10 DEF SinkInv, w

\* Fix puts in order what may move, and down what may move from the root.
LEMMA FixOrders ==
  ASSUME NEW D, NEW N \in Nat, NEW t, NEW n \in 0 .. N, NEW h \in Heaps(D, N, t), NEW i \in 1 .. n,
         MayMove(Row(h, t), n, i)
  PROVE  InOrder(D, N, t, n, h, Fixed(h, i, n))
<1> DEFINE d == DownLoop(h, i, n)[n]
<1>1. Sunken(D, N, t, n, h, i, d)
  <2>1. i \in 1 .. N
    OBVIOUS
  <2> QED BY <2>1, DownSinks
<1>2. Fixed(h, i, n) = IF d.at > i THEN d.h ELSE Up(h, i)
  BY DEF Fixed
<1> HIDE DEF d
<1>3. CASE d.at > i
  BY <1>1, <1>2, <1>3 DEF Sunken
<1>4. CASE ~(d.at > i)
  <2>1. MayRise(Row(h, t), n, i)
    BY <1>1, <1>4 DEF Sunken
  <2> QED BY <1>2, <1>4, <2>1, UpOrders
<1> QED BY <1>3, <1>4

LEMMA DownOrders ==
  ASSUME NEW D, NEW N \in Nat, N > 0, NEW t, NEW n \in 0 .. N, NEW h \in Heaps(D, N, t),
         MayMove(Row(h, t), n, 1)
  PROVE  InOrder(D, N, t, n, h, Down(h, 1, n))
<1> DEFINE d == DownLoop(h, 1, n)[n]
<1>1. Sunken(D, N, t, n, h, 1, d)
  <2>1. 1 \in 1 .. N
    OBVIOUS
  <2> QED BY <2>1, DownSinks
<1>2. Down(h, 1, n) = d.h
  BY DEF Down
<1> HIDE DEF d
<1>3. CASE d.at > 1
  BY <1>1, <1>2, <1>3 DEF Sunken
<1>4. CASE ~(d.at > 1)
  <2>1. d.h = h /\ MayRise(Row(h, t), n, 1)
    BY <1>1, <1>4 DEF Sunken
  <2>2. Ordered(Row(h, t), n)
    BY <2>1, Risen
  <2> QED BY <1>2, <2>1, <2>2 DEF InOrder
<1> QED BY <1>3, <1>4

-----------------------------------------------------------------------------
(* The state                                                               *)

Waits(m) == [n \in DOMAIN m |-> m[n].wait]

\* The array and the nodes agree, and the array is in order.
Good(a, m) ==
  LET h == [heap |-> a, node |-> m]
  IN  /\ DOMAIN m \subseteq Node
      /\ a \in Seq(DOMAIN m)
      /\ h \in Heaps(DOMAIN m, Len(a), Waits(m))
      /\ Ordered(Row(h, Waits(m)), Len(a))

First(a) == IF a = <<>> THEN NoNode ELSE Head(a)

\* This becomes of a heap: its nodes wait for the times t.
Becomes(a, m, t) ==
  /\ Good(a, m)
  /\ Waits(m) = t
  /\ First(a) \in Node \cup {NoNode}
  /\ Delays!Leads(First(a), t)

LEMMA SeqOf ==
  ASSUME NEW D, NEW N \in Nat, NEW a \in [1 .. N -> D] PROVE a \in Seq(D) /\ Len(a) = N
<1>1. a \in Seq(D)
  BY SeqDef
<1>2. Len(a) \in Nat /\ DOMAIN a = 1 .. Len(a)
  BY <1>1, LenProperties
<1>3. 1 .. N = 1 .. Len(a)
  BY <1>2
<1>4. Len(a) = N
  <2> DEFINE l == Len(a)
  <2> HIDE DEF l
  <2>1. l \in Nat /\ 1 .. N = 1 .. l
    BY <1>2, <1>3 DEF l
  <2>2. \A k \in Int : k \in 1 .. N <=> k \in 1 .. l
    BY <2>1
  <2>3. N >= 1 => N <= l
    BY <2>1, <2>2
  <2>4. l >= 1 => l <= N
    BY <2>1, <2>2
  <2>5. l = N
    BY <2>1, <2>3, <2>4
  <2> QED BY <2>5 DEF l
<1> QED BY <1>1, <1>4

LEMMA Lead ==
  ASSUME NEW D \in SUBSET Node, NEW N \in Nat, NEW t \in [D -> Time], NEW h \in Heaps(D, N, t),
         Ordered(Row(h, t), N)
  PROVE  Becomes(h.heap, h.node, t)
<1> DEFINE a == h.heap
           m == h.node
           w == Row(h, t)
<1>1. h = [heap |-> a, node |-> m] /\ a \in [1 .. N -> D] /\ m \in [D -> [wait : Time, index : 1 .. N]]
  BY DEF Heaps
<1>2. a \in Seq(D) /\ Len(a) = N /\ DOMAIN m = D
  BY <1>1, SeqOf
<1>3. Waits(m) = t
  <2>1. \A d \in D : m[d].wait = t[d]
    BY DEF Heaps
  <2> HIDE DEF m
  <2> QED BY <1>2, <2>1 DEF Waits
<1>4. Good(a, m)
  <2> HIDE DEF a, m
  <2> QED BY <1>1, <1>2, <1>3 DEF Good
<1>5. CASE N = 0
  <2>1. a = <<>>
    BY <1>2, <1>5, EmptySeq
  <2>2. D = {}
    <3>1. \A d \in D : m[d].index \in 1 .. N
      BY DEF Heaps
    <3> HIDE DEF m
    <3> QED BY <1>5, <3>1
  <2>3. First(a) = NoNode /\ DOMAIN t = {}
    BY <2>1, <2>2 DEF First
  <2> HIDE DEF a, m
  <2> QED BY <1>3, <1>4, <2>3 DEF Becomes, Delays!Leads, a, m
<1>6. CASE N > 0
  <2>1. a # <<>> /\ Head(a) = a[1] /\ 1 \in 1 .. N
    BY <1>2, <1>6
  <2>2. First(a) = a[1] /\ a[1] \in D
    BY <1>1, <2>1 DEF First
  <2>3. ASSUME NEW d \in D PROVE ~Sooner(t[d], t[a[1]])
    <3> DEFINE k == m[d].index
    <3>1. k \in 1 .. N /\ a[k] = d
      BY DEF Heaps
    <3> HIDE DEF k
    <3>2. w[k] = t[d] /\ w[1] = t[a[1]]
      BY <1>1, <2>1, <3>1 DEF Row
    <3>3. \A j \in 1 .. N : w[j] \in Nat
      BY RowTyped DEF RowTimes
    <3> HIDE DEF w
    <3>4. ~Sooner(w[k], w[1])
      BY <3>1, <3>3, RootLeads DEF w
    <3> QED BY <3>2, <3>4
  <2> HIDE DEF a, m
  <2>4. Delays!Leads(First(a), t)
    BY <2>2, <2>3 DEF Delays!Leads, Delays!Earlier, Sooner
  <2> QED BY <1>3, <1>4, <2>2, <2>4 DEF Becomes, a, m
<1> QED BY <1>5, <1>6

\* What Good says of a state, in the terms of the lemmas above.
IsHeap(a, m) ==
  LET D == DOMAIN m
      N == Len(a)
      t == Waits(m)
      h == [heap |-> a, node |-> m]
  IN  /\ D \in SUBSET Node /\ N \in Nat /\ t \in [D -> Time] /\ h \in Heaps(D, N, t)
      /\ Ordered(Row(h, t), N)
      /\ a \in Seq(D) /\ a \in [1 .. N -> D] /\ m \in [D -> [wait : Time, index : 1 .. N]]

LEMMA GoodIs == ASSUME NEW a, NEW m, Good(a, m) PROVE IsHeap(a, m)
<1> DEFINE D == DOMAIN m
           N == Len(a)
           t == Waits(m)
           h == [heap |-> a, node |-> m]
<1>1. D \in SUBSET Node /\ h \in Heaps(D, N, t) /\ Ordered(Row(h, t), N) /\ a \in Seq(D)
  BY DEF Good
<1>2. N \in Nat /\ a \in [1 .. N -> D]
  BY <1>1, LenProperties
<1>3. m \in [D -> [wait : Time, index : 1 .. N]]
  BY <1>1 DEF Heaps
<1>4. t \in [D -> Time]
  BY <1>3 DEF Waits
<1> QED BY <1>1, <1>2, <1>3, <1>4 DEF IsHeap

-----------------------------------------------------------------------------
(* The operations                                                          *)

LEMMA PushKeeps ==
  ASSUME NEW n \in Node, NEW t \in Time, Good(heap, node), Push(n, t)
  PROVE  Becomes(heap', node', [m \in DOMAIN node \cup {n} |-> IF m = n THEN t ELSE Waits(node)[m]])
<1> DEFINE D == DOMAIN node
           N == Len(heap)
           w == Waits(node)
           E == D \cup {n}
           s == [m \in E |-> IF m = n THEN t ELSE w[m]]
           o == [heap |-> heap, node |-> node]
           a == Append(heap, n)
           f == [m \in E |-> IF m = n THEN [wait |-> t, index |-> N + 1] ELSE node[m]]
           h == [heap |-> a, node |-> f]
<1>1. IsHeap(heap, node)
  BY GoodIs
<1>2. /\ D \in SUBSET Node /\ N \in Nat /\ w \in [D -> Time] /\ o \in Heaps(D, N, w)
      /\ Ordered(Row(o, w), N)
      /\ heap \in Seq(D) /\ heap \in [1 .. N -> D] /\ node \in [D -> [wait : Time, index : 1 .. N]]
  BY <1>1 DEF IsHeap
<1>3. n \notin D /\ heap' = Up(h, N + 1).heap /\ node' = Up(h, N + 1).node
  BY DEF Push, Contains, Become
<1>4. E \in SUBSET Node /\ s \in [E -> Time] /\ N + 1 \in Nat
  BY <1>2
<1>5. /\ a \in [1 .. N + 1 -> E]
      /\ \A k \in 1 .. N : a[k] = heap[k]
      /\ a[N + 1] = n
  <2>1. heap \in Seq(E)
    BY <1>2
  <2>2. a \in Seq(E) /\ Len(a) = N + 1 /\ (\A k \in 1 .. N : a[k] = heap[k]) /\ a[N + 1] = n
    BY <2>1, AppendProperties
  <2> HIDE DEF a
  <2>3. a \in [1 .. N + 1 -> E]
    BY <2>2, LenProperties
  <2> QED BY <2>2, <2>3
<1>6. /\ \A k \in 1 .. N : heap[k] \in D /\ node[heap[k]].index = k
      /\ \A d \in D : node[d].index \in 1 .. N /\ heap[node[d].index] = d /\ node[d].wait = w[d]
  BY <1>2 DEF Heaps
<1> HIDE DEF a
<1>7. f \in [E -> [wait : Time, index : 1 .. N + 1]]
  BY <1>2
<1>8. /\ f[n].index = N + 1 /\ f[n].wait = s[n]
      /\ \A d \in D : f[d] = node[d] /\ s[d] = w[d]
  BY <1>3
<1> HIDE DEF f, s
<1>9. h \in Heaps(E, N + 1, s)
  <2>1. ASSUME NEW k \in 1 .. N + 1 PROVE f[a[k]].index = k
    BY <1>2, <1>5, <1>6, <1>8
  <2>2. ASSUME NEW d \in E PROVE a[f[d].index] = d /\ f[d].wait = s[d]
    BY <1>2, <1>5, <1>6, <1>8
  <2> QED BY <1>5, <1>7, <2>1, <2>2 DEF Heaps
<1>10. MayRise(Row(h, s), N + 1, N + 1)
  <2>1. \A k \in 1 .. N : Row(h, s)[k] = Row(o, w)[k]
    BY <1>2, <1>5, <1>6, <1>8 DEF Row
  <2>2. ASSUME NEW j \in 2 .. N + 1, j # N + 1 PROVE ~Sooner(Row(h, s)[j], Row(h, s)[j \div 2])
    <3>1. j \in 2 .. N /\ j \in 1 .. N /\ j \div 2 \in 1 .. N
      BY <1>2, <2>2, Parent
    <3> QED BY <1>2, <2>1, <3>1 DEF Ordered
  <2>3. \A j \in 2 .. N + 1 : j \div 2 # N + 1
    BY <1>2
  <2> QED BY <2>2, <2>3 DEF MayRise, Bridged
<1> DEFINE g == Up(h, N + 1)
<1> HIDE DEF h
<1>11. InOrder(E, N + 1, s, N + 1, h, g)
  <2>1. N + 1 \in 0 .. N + 1 /\ N + 1 \in 1 .. N + 1
    BY <1>2
  <2> HIDE DEF E, N
  <2> QED BY <1>4, <1>9, <1>10, <2>1, UpOrders
<1> HIDE DEF g
<1>12. Becomes(g.heap, g.node, s)
  BY <1>4, <1>11, Lead DEF InOrder
<1> QED BY <1>3, <1>12 DEF g, s

LEMMA UpdateKeeps ==
  ASSUME NEW n \in Node, NEW t \in Time, Good(heap, node), Update(n, t)
  PROVE  Becomes(heap', node', [m \in DOMAIN node \cup {n} |-> IF m = n THEN t ELSE Waits(node)[m]])
<1> DEFINE D == DOMAIN node
           N == Len(heap)
           w == Waits(node)
           s == [m \in D |-> IF m = n THEN t ELSE w[m]]
           o == [heap |-> heap, node |-> node]
           f == [node EXCEPT ![n].wait = t]
           h == [heap |-> heap, node |-> f]
           i == node[n].index
<1>1. IsHeap(heap, node)
  BY GoodIs
<1>2. /\ D \in SUBSET Node /\ N \in Nat /\ w \in [D -> Time] /\ o \in Heaps(D, N, w)
      /\ Ordered(Row(o, w), N)
      /\ heap \in [1 .. N -> D] /\ node \in [D -> [wait : Time, index : 1 .. N]]
  BY <1>1 DEF IsHeap
<1>3. /\ n \in D /\ D \cup {n} = D
      /\ heap' = Fixed(h, i, N).heap /\ node' = Fixed(h, i, N).node
  BY DEF Update, Contains, Become
<1>4. s \in [D -> Time] /\ i \in 1 .. N
  BY <1>2, <1>3
<1>6. /\ \A k \in 1 .. N : heap[k] \in D /\ node[heap[k]].index = k
      /\ \A d \in D : node[d].index \in 1 .. N /\ heap[node[d].index] = d /\ node[d].wait = w[d]
  BY <1>2 DEF Heaps
<1>7. /\ f \in [D -> [wait : Time, index : 1 .. N]]
      /\ \A d \in D : f[d].index = node[d].index /\ f[d].wait = s[d]
  <2> DEFINE x == [node[n] EXCEPT !.wait = t]
  <2>1. x \in [wait : Time, index : 1 .. N] /\ x.wait = t /\ x.index = i
    <3>1. node[n] \in [wait : Time, index : 1 .. N]
      BY <1>2, <1>3
    <3> QED BY <3>1
  <2>2. f = [node EXCEPT ![n] = x]
    OBVIOUS
  <2> HIDE DEF x, f
  <2> QED BY <1>2, <1>3, <1>6, <2>1, <2>2
<1>8. \A d \in D : d # n => s[d] = w[d]
  OBVIOUS
<1> HIDE DEF f, s
<1>9. h \in Heaps(D, N, s)
  BY <1>2, <1>6, <1>7 DEF Heaps
<1>10. MayMove(Row(h, s), N, i)
  <2>1. \A k \in 1 .. N : k # i => Row(h, s)[k] = Row(o, w)[k]
    <3>1. \A k \in 1 .. N : k # i => heap[k] # n
      BY <1>6
    <3> QED BY <1>2, <1>6, <1>8, <3>1 DEF Row
  <2>2. \A k \in 1 .. N : Row(o, w)[k] \in Nat
    BY <1>2, RowTyped DEF RowTimes
  <2> HIDE DEF D, N, w, o, h, i
  <2> QED BY <1>2, <1>4, <2>1, <2>2, OneMoved
<1> DEFINE g == Fixed(h, i, N)
<1> HIDE DEF h, i
<1>11. InOrder(D, N, s, N, h, g)
  <2>1. N \in 0 .. N
    BY <1>2
  <2> HIDE DEF D, N
  <2> QED BY <1>2, <1>4, <1>9, <1>10, <2>1, FixOrders
<1> HIDE DEF g
<1>12. Becomes(g.heap, g.node, s)
  BY <1>2, <1>4, <1>11, Lead DEF InOrder
<1> QED BY <1>3, <1>12 DEF g, s, h

\* The last place and its node are taken off.
LEMMA Shrunk ==
  ASSUME NEW D \in SUBSET Node, NEW N \in Nat, N > 0, NEW t \in [D -> Time], NEW h \in Heaps(D, N, t),
         Ordered(Row(h, t), N - 1), NEW n, n = h.heap[N]
  PROVE  Becomes(SubSeq(h.heap, 1, N - 1), [m \in D \ {n} |-> h.node[m]], [m \in D \ {n} |-> t[m]])
<1> DEFINE M == N - 1
           E == D \ {n}
           a == SubSeq(h.heap, 1, M)
           f == [m \in E |-> h.node[m]]
           s == [m \in E |-> t[m]]
           g == [heap |-> a, node |-> f]
<1>1. h.heap \in [1 .. N -> D] /\ h.node \in [D -> [wait : Time, index : 1 .. N]]
  BY HeapsTyped
<1>2. /\ \A k \in 1 .. N : h.heap[k] \in D /\ h.node[h.heap[k]].index = k
      /\ \A d \in D : h.node[d].index \in 1 .. N /\ h.heap[h.node[d].index] = d /\ h.node[d].wait = t[d]
  BY <1>1 DEF Heaps
<1>3. /\ M \in Nat /\ E \in SUBSET Node /\ s \in [E -> Time]
      /\ \A k \in 1 .. M : k \in 1 .. N /\ k # N
      /\ \A k \in 1 .. N : k # N => k \in 1 .. M
  OBVIOUS
<1>4. \A k \in 1 .. M : h.heap[k] \in E
  BY <1>2, <1>3
<1>5. a \in [1 .. M -> E] /\ \A k \in 1 .. M : a[k] = h.heap[k]
  <2>1. \A k \in 1 .. M : h.heap[k] \in E
    BY <1>4
  <2>2. 1 \in Int /\ M \in Int /\ (IF 1 <= M THEN M - 1 + 1 ELSE 0) = M /\ M - 1 + 1 = M
    BY <1>3
  <2> HIDE DEF M, E
  <2>3. a \in Seq(E) /\ Len(a) = M /\ \A k \in 1 .. M - 1 + 1 : a[k] = h.heap[1 + k - 1]
    BY <2>1, <2>2, SubSeqProperties
  <2> HIDE DEF a
  <2>4. a \in [1 .. M -> E]
    BY <2>3, LenProperties
  <2>5. \A k \in 1 .. M : 1 + k - 1 = k
    BY <2>2
  <2> QED BY <2>2, <2>3, <2>4, <2>5
<1>6. \A d \in E : h.node[d].index \in 1 .. M
  BY <1>2, <1>3
<1>7. f \in [E -> [wait : Time, index : 1 .. M]]
  <2>1. ASSUME NEW d \in E PROVE h.node[d] \in [wait : Time, index : 1 .. M]
    <3>1. h.node[d] \in [wait : Time, index : 1 .. N] /\ h.node[d].index \in 1 .. M
      BY <1>1, <1>6
    <3> QED BY <3>1
  <2> QED BY <2>1
<1>8. \A d \in E : f[d] = h.node[d] /\ s[d] = t[d] /\ d \in D
  OBVIOUS
<1> HIDE DEF a, f, s, E
<1>9. g \in Heaps(E, M, s)
  <2>1. ASSUME NEW k \in 1 .. M PROVE f[a[k]].index = k
    BY <1>2, <1>3, <1>4, <1>5, <1>8
  <2>2. ASSUME NEW d \in E PROVE a[f[d].index] = d /\ f[d].wait = s[d]
    BY <1>2, <1>5, <1>6, <1>8
  <2> QED BY <1>5, <1>7, <2>1, <2>2 DEF Heaps
<1>10. \A k \in 1 .. M : Row(g, s)[k] = Row(h, t)[k]
  BY <1>1, <1>3, <1>4, <1>5, <1>8 DEF Row
<1>11. Ordered(Row(g, s), M)
  <2>1. ASSUME NEW j \in 2 .. M PROVE ~Sooner(Row(g, s)[j], Row(g, s)[j \div 2])
    <3>1. j \in 1 .. M /\ j \div 2 \in 1 .. M
      BY <1>3, Parent
    <3> QED BY <1>10, <3>1 DEF Ordered
  <2> QED BY <2>1 DEF Ordered
<1> HIDE DEF M
<1>12. Becomes(g.heap, g.node, s)
  <2> HIDE DEF g
  <2> QED BY <1>3, <1>9, <1>11, Lead
<1> QED BY <1>12 DEF g, a, f, s, E, M

LEMMA PopKeeps ==
  ASSUME Good(heap, node), Pop
  PROVE  /\ Head(heap) \in DOMAIN node
         /\ Becomes(heap', node', [m \in DOMAIN node \ {Head(heap)} |-> Waits(node)[m]])
<1> DEFINE D == DOMAIN node
           N == Len(heap)
           w == Waits(node)
           h == [heap |-> heap, node |-> node]
           g == Swap(h, 1, N)
           d == Down(g, 1, N - 1)
           n == Head(heap)
<1>1. IsHeap(heap, node)
  BY GoodIs
<1>2. /\ D \in SUBSET Node /\ N \in Nat /\ w \in [D -> Time] /\ h \in Heaps(D, N, w)
      /\ Ordered(Row(h, w), N)
      /\ heap \in Seq(D) /\ heap \in [1 .. N -> D]
  BY <1>1 DEF IsHeap
<1>3. /\ heap # <<>>
      /\ heap' = SubSeq(d.heap, 1, N - 1) /\ node' = [m \in D \ {n} |-> d.node[m]]
  BY DEF Pop, Shrink
<1>4. N > 0 /\ n = heap[1] /\ n \in D /\ 1 \in 1 .. N /\ N \in 1 .. N /\ N - 1 \in 0 .. N
  <2>1. N # 0
    BY <1>2, <1>3, EmptySeq
  <2> QED BY <1>2, <1>3, <2>1
<1>5. /\ g \in Heaps(D, N, w)
      /\ g.heap[N] = n
      /\ \A k \in 1 .. N - 1 : k # 1 => Row(g, w)[k] = Row(h, w)[k]
  <2>1. Exchanged(D, N, w, h, 1, N, g)
    BY <1>2, <1>4, Swapped
  <2>2. /\ g \in Heaps(D, N, w)
        /\ \A k \in 1 .. N : g.heap[k] = IF k = N THEN h.heap[1]
                                         ELSE IF k = 1 THEN h.heap[N] ELSE h.heap[k]
        /\ \A k \in 1 .. N : Row(g, w)[k] = IF k = N THEN Row(h, w)[1]
                                             ELSE IF k = 1 THEN Row(h, w)[N] ELSE Row(h, w)[k]
    BY <2>1 DEF Exchanged
  <2>3. \A k \in 1 .. N - 1 : k \in 1 .. N /\ k # N
    <3>1. N \in Nat
      BY <1>2
    <3> HIDE DEF N
    <3> QED BY <3>1
  <2>4. h.heap[1] = n
    BY <1>4
  <2> HIDE DEF D, N, w, h, g, n
  <2> QED BY <1>4, <2>2, <2>3, <2>4
<1>6. MayMove(Row(g, w), N - 1, 1)
  <2>1. CASE N = 1
    BY <2>1 DEF MayMove, Bridged
  <2>2. CASE N > 1
    <3>1. N - 1 \in Nat /\ 1 \in 1 .. N - 1
      BY <1>2, <2>2
    <3>2. \A k \in 1 .. N - 1 : Row(h, w)[k] \in Nat
      BY <1>2, RowTyped DEF RowTimes
    <3>3. Ordered(Row(h, w), N - 1)
      BY <1>2 DEF Ordered
    <3> HIDE DEF D, N, w, h, g
    <3> QED BY <1>5, <3>1, <3>2, <3>3, OneMoved
  <2> QED BY <1>2, <1>4, <2>1, <2>2
<1> HIDE DEF g, h
<1>7. InOrder(D, N, w, N - 1, g, d)
  <2> HIDE DEF D, N, w
  <2> QED BY <1>2, <1>4, <1>5, <1>6, DownOrders
<1> HIDE DEF d
<1>8. d \in Heaps(D, N, w) /\ Ordered(Row(d, w), N - 1) /\ d.heap[N] = n
  <2>1. N \in N - 1 + 1 .. N
    BY <1>2
  <2> HIDE DEF D, N, w, n
  <2> QED BY <1>5, <1>7, <2>1 DEF InOrder
<1> HIDE DEF D, N, w, n
<1>9. Becomes(SubSeq(d.heap, 1, N - 1), [m \in D \ {n} |-> d.node[m]], [m \in D \ {n} |-> w[m]])
  BY <1>2, <1>4, <1>8, Shrunk
<1> QED BY <1>3, <1>4, <1>9 DEF D, n, w

LEMMA RemoveKeeps ==
  ASSUME NEW n \in Node, Good(heap, node), Remove(n)
  PROVE  /\ n \in DOMAIN node
         /\ Becomes(heap', node', [m \in DOMAIN node \ {n} |-> Waits(node)[m]])
<1> DEFINE D == DOMAIN node
           N == Len(heap)
           w == Waits(node)
           h == [heap |-> heap, node |-> node]
           i == node[n].index
           g == Swap(h, i, N)
           d == IF i = N THEN h ELSE Fixed(g, i, N - 1)
<1>1. IsHeap(heap, node)
  BY GoodIs
<1>2. /\ D \in SUBSET Node /\ N \in Nat /\ w \in [D -> Time] /\ h \in Heaps(D, N, w)
      /\ Ordered(Row(h, w), N)
  BY <1>1 DEF IsHeap
<1>3. /\ n \in D
      /\ heap' = SubSeq(d.heap, 1, N - 1) /\ node' = [m \in D \ {n} |-> d.node[m]]
  BY DEF Remove, Shrink, Contains
<1>4. i \in 1 .. N /\ h.heap[i] = n /\ N > 0 /\ N \in 1 .. N /\ N - 1 \in 0 .. N
  <2>1. h.node[n].index \in 1 .. N /\ h.heap[h.node[n].index] = n
    BY <1>2, <1>3 DEF Heaps
  <2> QED BY <1>2, <2>1
<1> HIDE DEF i
<1>5. d \in Heaps(D, N, w) /\ Ordered(Row(d, w), N - 1) /\ d.heap[N] = n
  <2>1. CASE i = N
    <3>1. Ordered(Row(h, w), N - 1)
      BY <1>2 DEF Ordered
    <3> HIDE DEF h
    <3> QED BY <1>2, <1>4, <2>1, <3>1
  <2>2. CASE i # N
    <3>1. /\ g \in Heaps(D, N, w)
          /\ g.heap[N] = n
          /\ \A k \in 1 .. N - 1 : k # i => Row(g, w)[k] = Row(h, w)[k]
      <4>1. Exchanged(D, N, w, h, i, N, g)
        BY <1>2, <1>4, Swapped
      <4> QED BY <1>2, <1>4, <4>1 DEF Exchanged
    <3>2. N - 1 \in Nat /\ i \in 1 .. N - 1
      BY <1>2, <1>4, <2>2
    <3>3. MayMove(Row(g, w), N - 1, i)
      <4>1. \A k \in 1 .. N - 1 : Row(h, w)[k] \in Nat
        BY <1>2, RowTyped DEF RowTimes
      <4>2. Ordered(Row(h, w), N - 1)
        BY <1>2 DEF Ordered
      <4> HIDE DEF D, N, w, h, g
      <4> QED BY <3>1, <3>2, <4>1, <4>2, OneMoved
    <3> HIDE DEF g, h
    <3>4. InOrder(D, N, w, N - 1, g, Fixed(g, i, N - 1))
      <4> HIDE DEF D, N, w
      <4> QED BY <1>2, <1>4, <3>1, <3>2, <3>3, FixOrders
    <3>5. d = Fixed(g, i, N - 1)
      BY <2>2
    <3> HIDE DEF d
    <3> QED BY <1>2, <1>4, <3>1, <3>4, <3>5 DEF InOrder
  <2> QED BY <2>1, <2>2
<1> HIDE DEF D, N, w, d
<1>6. Becomes(SubSeq(d.heap, 1, N - 1), [m \in D \ {n} |-> d.node[m]], [m \in D \ {n} |-> w[m]])
  BY <1>2, <1>4, <1>5, Shrunk
<1> QED BY <1>3, <1>6 DEF D, w

-----------------------------------------------------------------------------
(* The refinement                                                          *)

HeapInv == Good(heap, node)

LEMMA Begins == ASSUME HeapInit PROVE HeapInv /\ Delays!Init
<1> DEFINE t == [d \in {} |-> 0]
           h == [heap |-> heap, node |-> node]
<1>1. heap = <<>> /\ DOMAIN node = {} /\ popped = NoNode
  BY DEF HeapInit
<1>2. heap \in [1 .. 0 -> {}] /\ node \in [{} -> [wait : Time, index : 1 .. 0]]
  <2>1. heap \in Seq({}) /\ Len(heap) = 0
    BY <1>1
  <2>2. heap \in [1 .. 0 -> {}]
    BY <2>1, LenProperties
  <2> QED BY <1>1, <2>2 DEF HeapInit
<1>3. h \in Heaps({}, 0, t)
  BY <1>2 DEF Heaps
<1>4. Ordered(Row(h, t), 0)
  BY DEF Ordered
<1>5. {} \in SUBSET Node /\ t \in [{} -> Time]
  OBVIOUS
<1>6. Becomes(h.heap, h.node, t)
  <2> HIDE DEF h, t
  <2> QED BY <1>3, <1>4, <1>5, Lead
<1>7. HeapInv /\ Waits(node) = t
  BY <1>6 DEF Becomes, HeapInv
<1> QED BY <1>1, <1>7 DEF Delays!Init, Waits, Peek

LEMMA Refines == ASSUME HeapInv, [HeapNext]_heapVars PROVE HeapInv' /\ [Delays!Next]_(Delays!vars)
<1> DEFINE w == [m \in DOMAIN node |-> node[m].wait]
           v == [m \in DOMAIN node' |-> node'[m].wait]
<1>1. w = Waits(node) /\ v = Waits(node') /\ Peek = First(heap) /\ Peek' = First(heap')
  BY DEF Waits, Peek, First
<1>2. DOMAIN w = DOMAIN node
  OBVIOUS
<1>3. ASSUME NEW t, Becomes(heap', node', t)
      PROVE  HeapInv' /\ v = t /\ Peek' \in Node \cup {NoNode} /\ Delays!Leads(Peek', v)
  BY <1>1, <1>3 DEF Becomes, HeapInv
<1>4. ASSUME NEW n \in Node, NEW t \in Time, Push(n, t) \/ Update(n, t)
      PROVE  HeapInv' /\ [Delays!Next]_(Delays!vars)
  <2> DEFINE s == [m \in DOMAIN node \cup {n} |-> IF m = n THEN t ELSE Waits(node)[m]]
  <2>1. Becomes(heap', node', s) /\ popped' = NoNode
    <3>1. popped' = NoNode
      BY <1>4 DEF Push, Update
    <3> QED BY <1>4, <3>1, PushKeeps, UpdateKeeps DEF HeapInv
  <2> HIDE DEF s
  <2>2. HeapInv' /\ v = s /\ Peek' \in Node \cup {NoNode} /\ Delays!Leads(Peek', v)
    BY <1>3, <2>1
  <2>3. v = [m \in DOMAIN w \cup {n} |-> IF m = n THEN t ELSE w[m]]
    BY <1>1, <1>2, <2>2 DEF s
  <2>4. Delays!Put(n, t)
    BY <2>3 DEF Delays!Put
  <2>5. Delays!Next
    BY <2>1, <2>2, <2>4 DEF Delays!Next
  <2> QED BY <2>2, <2>5
<1>5. ASSUME NEW n, n \in DOMAIN node,
             Becomes(heap', node', [m \in DOMAIN node \ {n} |-> Waits(node)[m]]),
             \/ n \in Node /\ popped' = NoNode
             \/ n = Peek /\ popped' = Peek
      PROVE  HeapInv' /\ [Delays!Next]_(Delays!vars)
  <2> DEFINE s == [m \in DOMAIN node \ {n} |-> Waits(node)[m]]
  <2> HIDE DEF s
  <2>2. HeapInv' /\ v = s /\ Peek' \in Node \cup {NoNode} /\ Delays!Leads(Peek', v)
    BY <1>3, <1>5 DEF s
  <2>3. v = [m \in DOMAIN w \ {n} |-> w[m]]
    BY <1>1, <1>2, <2>2 DEF s
  <2>4. Delays!Drop(n)
    BY <1>5, <2>3 DEF Delays!Drop
  <2>5. CASE n \in Node /\ popped' = NoNode
    <3>1. Delays!Next
      BY <2>2, <2>4, <2>5 DEF Delays!Next
    <3> QED BY <2>2, <3>1
  <2>6. CASE n = Peek /\ popped' = Peek
    <3>1. Delays!Drop(Peek)
      BY <1>5, <2>3, <2>6 DEF Delays!Drop
    <3>2. Delays!Next
      BY <2>2, <2>6, <3>1 DEF Delays!Next
    <3> QED BY <2>2, <3>2
  <2> QED BY <1>5, <2>5, <2>6
<1>6. ASSUME NEW n \in Node, Remove(n) PROVE HeapInv' /\ [Delays!Next]_(Delays!vars)
  <2>1. popped' = NoNode
    BY <1>6 DEF Remove
  <2>2. n \in DOMAIN node /\ Becomes(heap', node', [m \in DOMAIN node \ {n} |-> Waits(node)[m]])
    BY <1>6, RemoveKeeps DEF HeapInv
  <2> QED BY <1>5, <2>1, <2>2
<1>7. ASSUME Pop PROVE HeapInv' /\ [Delays!Next]_(Delays!vars)
  <2>1. Peek = Head(heap) /\ popped' = Peek
    BY <1>7 DEF Pop, Peek
  <2>2. /\ Peek \in DOMAIN node
        /\ Becomes(heap', node', [m \in DOMAIN node \ {Peek} |-> Waits(node)[m]])
    BY <1>7, <2>1, PopKeeps DEF HeapInv
  <2> QED BY <1>5, <2>1, <2>2
<1>8. CASE UNCHANGED heapVars
  BY <1>8 DEF heapVars, HeapInv, Delays!vars, Peek
<1> QED BY <1>4, <1>6, <1>7, <1>8 DEF HeapNext

\* Whatever was pushed, updated, removed and popped before, for all ids and times: Peek
\* and Pop of delayheap.go return a node that waits for the earliest time (the zero time
\* last), and Push, Update and Remove change the time of no node but their own.
THEOREM HeapImplementsSet == HeapSpec => ImplementsDelaySet
<1>1. HeapInit => HeapInv /\ Delays!Init
  BY Begins
<1>2. HeapInv /\ [HeapNext]_heapVars => HeapInv' /\ [Delays!Next]_(Delays!vars)
  BY Refines
<1> QED BY <1>1, <1>2, PTL DEF HeapSpec, ImplementsDelaySet, Delays!Spec
=============================================================================
