------------------------------ MODULE DelaySet ------------------------------
(***************************************************************************)
(* What the delay heap promises: a set of nodes, each with the time it     *)
(* waits for, whose first node is one that waits for the earliest time.    *)
(***************************************************************************)
EXTENDS Integers

CONSTANTS
  Node,     \* the ids
  Time,     \* the times, in which 0 is the zero time.Time
  NoNode

VARIABLES
  waits,    \* waits[n]: the time of each node of the set
  first,    \* the node that Peek returns
  popped    \* the node that Pop has just returned

vars == <<waits, first, popped>>

\* The zero time is later than any other.
Earlier(s, t) == s # 0 /\ (t = 0 \/ s < t)

Leads(f, w) ==
  IF DOMAIN w = {} THEN f = NoNode
  ELSE f \in DOMAIN w /\ \A n \in DOMAIN w : ~Earlier(w[n], w[f])

Init ==
  /\ waits = [n \in {} |-> 0]
  /\ first = NoNode
  /\ popped = NoNode

\* n waits for t from now on, whether it is new or not.
Put(n, t) == waits' = [m \in DOMAIN waits \cup {n} |-> IF m = n THEN t ELSE waits[m]]

Drop(n) ==
  /\ n \in DOMAIN waits
  /\ waits' = [m \in DOMAIN waits \ {n} |-> waits[m]]

Next ==
  /\ \/ \E n \in Node, t \in Time : Put(n, t) /\ popped' = NoNode
     \/ \E n \in Node : Drop(n) /\ popped' = NoNode
     \/ Drop(first) /\ popped' = first
  /\ first' \in Node \cup {NoNode}
  /\ Leads(first', waits')

Spec == Init /\ [][Next]_vars
=============================================================================
