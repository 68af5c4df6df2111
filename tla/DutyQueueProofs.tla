--------------------------- MODULE DutyQueueProofs ---------------------------
(***************************************************************************)
(* Theorems about the duty queue, for every set of duties, every plan and  *)
(* both kinds of timers.                                                   *)
(***************************************************************************)
EXTENDS DutyQueue, FiniteSetTheorems, SequenceTheorems, TLAPS

USE DEF queue, history   \* the groups of variables in UNCHANGED

-----------------------------------------------------------------------------
(* Lemmas about sequences and finite sets.                                 *)

\* The duties of a plan are duties.
LEMMA BatchDuties ==
  ASSUME NEW batch \in Batches
  PROVE  /\ batch \in Seq(Duty)
         /\ ToSet(batch) \subseteq Duty
         /\ DOMAIN batch = 1..Len(batch)
         /\ \A i \in DOMAIN batch : batch[i] \in Duty /\ batch[i] \in ToSet(batch)
<1>1. batch \in Seq(Duty)
  BY DutyAssumption DEF DutyAssumption
<1>2. DOMAIN batch = 1..Len(batch) /\ Len(batch) \in Nat
  BY <1>1, LenProperties
<1>3. \A i \in DOMAIN batch : batch[i] \in Duty
  BY <1>1, <1>2, ElementOfSeq
<1> QED
  BY <1>1, <1>2, <1>3 DEF ToSet

\* The gauges change by natural numbers.
LEMMA CardinalDuties ==
  ASSUME NEW S \in SUBSET Duty
  PROVE  Cardinality(S) \in Nat
BY DutyAssumption, FS_Subset, FS_CardinalityType DEF DutyAssumption

LEMMA CardinalEdges ==
  ASSUME NEW batch \in Batches
  PROVE  Cardinality(Edges(batch)) \in Nat
<1>1. IsFiniteSet(DOMAIN batch)
  BY BatchDuties, LenProperties, FS_Interval, 1 \in Int
<1>2. IsFiniteSet(Duty)
  BY DutyAssumption DEF DutyAssumption
<1>3. IsFiniteSet((DOMAIN batch) \X Duty)
  BY <1>1, <1>2, FS_Product
<1> QED
  BY <1>3, FS_Subset, FS_CardinalityType DEF Edges

-----------------------------------------------------------------------------
(* Type correctness                                                        *)

LEMMA ReverseType ==
  ASSUME TypeOK, NEW batch \in Batches, NEW d \in Duty
  PROVE  ReverseAfter(batch, d) \in SUBSET Duty
BY BatchDuties DEF TypeOK, ReverseAfter, Dependents

LEMMA CountType ==
  ASSUME TypeOK, NEW r \in Int, NEW u \in Int, NEW b \in Int, NEW w \in Int,
         Count(r, u, b, w)
  PROVE  stats' \in [ready : Int, unacked : Int, blocked : Int, waiting : Int]
BY DEF TypeOK, Count

LEMMA NotifyType ==
  ASSUME TypeOK, NotifyDelayHeap
  PROVE  /\ heap' \in [pc : {"peek", "select", "parked", "fired"}, duty : Duty \cup {NoDuty}]
         /\ heap'.pc = "fired" => heap'.duty \in Duty
BY DEF TypeOK, NotifyDelayHeap

\* Every step of Next preserves TypeOK.
LEMMA TypeStep == TypeOK /\ [Next]_vars => TypeOK'
<1> SUFFICES ASSUME TypeOK, [Next]_vars
             PROVE  TypeOK'
  OBVIOUS
<1> USE DEF TypeOK
<1>1. ASSUME NEW batch \in Batches, Enqueue(batch)
      PROVE  TypeOK'
  <2>1. /\ ToSet(batch) \subseteq Duty
        /\ Free(batch) \subseteq Duty
    BY BatchDuties DEF Free
  <2>2. /\ Cardinality(Edges(batch)) \in Nat
        /\ Cardinality(Free(batch)) \in Nat
    BY <2>1, CardinalEdges, CardinalDuties
  <2>3. blocked' \in [Duty -> SUBSET Duty]
    BY <1>1, DutyAssumption DEF Enqueue, DutyAssumption
  <2>4. reverseBlockedMap' \in [Duty -> SUBSET Duty]
    BY <1>1, ReverseType DEF Enqueue
  <2>5. stats' \in [ready : Int, unacked : Int, blocked : Int, waiting : Int]
    BY <1>1, <2>2, CountType DEF Enqueue
  <2>6. /\ heap' \in [pc : {"peek", "select", "parked", "fired"}, duty : Duty \cup {NoDuty}]
        /\ heap'.pc = "fired" => heap'.duty \in Duty
    BY <1>1, NotifyType DEF Enqueue
  <2> QED
    BY <1>1, <2>1, <2>3, <2>4, <2>5, <2>6 DEF Enqueue
<1>2. ASSUME NEW d \in Duty, Ack(d)
      PROVE  TypeOK'
  <2>1. Unblocked(d) \subseteq Duty
    BY DEF Unblocked, Waiting
  <2>2. Cardinality(Unblocked(d)) \in Nat
    BY <2>1, CardinalDuties
  <2>3. blocked' \in [Duty -> SUBSET Duty]
    BY <1>2 DEF Ack, Acknowledge
  <2>4. stats' \in [ready : Int, unacked : Int, blocked : Int, waiting : Int]
    BY <1>2, <2>2, CountType DEF Ack, Acknowledge
  <2>5. /\ heap' \in [pc : {"peek", "select", "parked", "fired"}, duty : Duty \cup {NoDuty}]
        /\ heap'.pc = "fired" => heap'.duty \in Duty
    BY <1>2, NotifyType DEF Ack, Acknowledge
  <2> QED
    BY <1>2, <2>1, <2>3, <2>4, <2>5 DEF Ack, Acknowledge
<1>3. CASE Dequeue
  <2>1. CASE ready = <<>>
    BY <1>3, <2>1 DEF Dequeue
  <2>2. CASE ready # <<>>
    <3>1. Tail(ready) \in Seq(Duty) /\ Head(ready) \in Duty
      BY <2>2, HeadTailProperties
    <3>2. stats' \in [ready : Int, unacked : Int, blocked : Int, waiting : Int]
      BY <1>3, <2>2, CountType DEF Dequeue
    <3> QED
      BY <1>3, <2>2, <3>1, <3>2 DEF Dequeue
  <2> QED
    BY <2>1, <2>2
<1>4. CASE DequeueWait
  BY <1>4 DEF DequeueWait
<1>5. CASE PeekAndArm
  <2>1. CASE delayHeap = {} /\ heap' = [pc |-> "select", duty |-> NoDuty] /\ UNCHANGED timer
    BY <1>5, <2>1 DEF PeekAndArm, TickAfterReset
  <2>2. ASSUME NEW d \in delayHeap,
               heap' = [pc |-> "select", duty |-> d],
               timer' = [at |-> ActiveTime[d], tick |-> TickAfterReset]
        PROVE  TypeOK'
    <3>1. ActiveTime[d] \in Nat
      BY DutyAssumption DEF DutyAssumption
    <3>2. timer' \in [at : Nat \cup {Unarmed}, tick : BOOLEAN]
      <4>1. TickAfterReset \in BOOLEAN
        BY Zenon DEF TickAfterReset
      <4> QED
        BY <2>2, <3>1, <4>1
    <3> QED
      BY <1>5, <2>2, <3>2 DEF PeekAndArm
  <2> QED
    BY <1>5, <2>1, <2>2 DEF PeekAndArm
<1>6. CASE Select
  <2>1. heap.duty # NoDuty => heap.duty \in Duty
    OBVIOUS
  <2> QED
    BY <1>6, <2>1 DEF Select, Listening
<1>7. CASE TimerFires
  <2>1. timer' \in [at : Nat \cup {Unarmed}, tick : BOOLEAN]
    <3>1. CASE timer' = [timer EXCEPT !.at = Unarmed]
      BY <3>1
    <3>2. CASE timer' = [at |-> Unarmed, tick |-> TRUE]
      BY <3>2
    <3> QED
      BY <1>7, <3>1, <3>2, Zenon DEF TimerFires, Listening
  <2>2. /\ heap' \in [pc : {"peek", "select", "parked", "fired"}, duty : Duty \cup {NoDuty}]
        /\ heap'.pc = "fired" => heap'.duty \in Duty
    BY <1>7 DEF TimerFires, Listening
  <2> QED
    BY <1>7, <2>1, <2>2 DEF TimerFires, Listening
<1>8. CASE Launch
  <2>1. ready' \in Seq(Duty)
    BY <1>8, AppendProperties DEF Launch
  <2>2. stats' \in [ready : Int, unacked : Int, blocked : Int, waiting : Int]
    BY <1>8 DEF Launch, Count
  <2> QED
    BY <1>8, <2>1, <2>2 DEF Launch, NotifyWorker
<1>9. CASE ClockTick
  BY <1>9 DEF ClockTick
<1>10. CASE UNCHANGED vars
  BY <1>10 DEF vars
<1> QED
  BY <1>1, <1>2, <1>3, <1>4, <1>5, <1>6, <1>7, <1>8, <1>9, <1>10
     DEF Next, QueueStep

\* Every variable of the queue keeps its type: runDelayHeap, in particular, never
\* makes the nil duty of an empty heap ready.
THEOREM TypeCorrect == Spec => []TypeOK
<1>1. Init => TypeOK
  BY EmptySeq DEF Init, TypeOK, Unarmed
<1> QED
  BY <1>1, TypeStep, PTL DEF Spec

-----------------------------------------------------------------------------
(* Lemmas about the queue of ready duties                                  *)

LEMMA AppendReady ==
  ASSUME NEW s \in Seq(Duty), NEW d \in Duty
  PROVE  /\ ToSet(Append(s, d)) = ToSet(s) \cup {d}
         /\ Distinct(s) /\ d \notin ToSet(s) => Distinct(Append(s, d))
<1> DEFINE t == Append(s, d)
<1>1. /\ DOMAIN s = 1..Len(s)
      /\ Len(s) \in Nat
  BY LenProperties
<1>2. /\ t \in Seq(Duty)
      /\ Len(t) = Len(s) + 1
      /\ \A i \in 1..Len(s) : t[i] = s[i]
      /\ t[Len(s) + 1] = d
  BY AppendProperties
<1>3. DOMAIN t = 1..(Len(s) + 1)
  BY <1>2, LenProperties
<1> HIDE DEF t
<1>4. ToSet(t) = ToSet(s) \cup {d}
  BY <1>1, <1>2, <1>3 DEF ToSet
<1>5. ASSUME Distinct(s), d \notin ToSet(s)
      PROVE  Distinct(t)
  BY <1>1, <1>2, <1>3, <1>5 DEF Distinct, ToSet
<1> QED
  BY <1>4, <1>5 DEF t

LEMMA TailReady ==
  ASSUME NEW s \in Seq(Duty), s # <<>>, Distinct(s)
  PROVE  /\ Head(s) \in Duty
         /\ ToSet(s) = ToSet(Tail(s)) \cup {Head(s)}
         /\ Head(s) \notin ToSet(Tail(s))
         /\ Distinct(Tail(s))
<1> DEFINE t == Tail(s)
           h == Head(s)
<1>1. /\ DOMAIN s = 1..Len(s)
      /\ Len(s) \in Nat \ {0}
      /\ h = s[1]
  BY LenProperties, EmptySeq
<1>2. /\ h \in Duty
      /\ t \in Seq(Duty)
      /\ Len(t) = Len(s) - 1
      /\ \A i \in 1..Len(t) : t[i] = s[i+1]
  BY HeadTailProperties
<1>3. DOMAIN t = 1..(Len(s) - 1)
  BY <1>2, LenProperties
<1> HIDE DEF t, h
<1>4. ToSet(s) = ToSet(t) \cup {h}
  <2>1. ASSUME NEW i \in DOMAIN s
        PROVE  s[i] \in ToSet(t) \cup {h}
    <3>1. CASE i = 1
      BY <1>1, <3>1
    <3>2. CASE i # 1
      <4>1. i - 1 \in DOMAIN t /\ t[i - 1] = s[i]
        BY <1>1, <1>2, <1>3, <3>2
      <4> QED
        BY <4>1 DEF ToSet
    <3> QED
      BY <3>1, <3>2
  <2>2. ToSet(t) \subseteq ToSet(s)
    <3>1. SUFFICES ASSUME NEW i \in DOMAIN t PROVE t[i] \in ToSet(s)
      BY DEF ToSet
    <3>2. i \in 1 .. Len(t) /\ i + 1 \in DOMAIN s
      BY <1>1, <1>2, <1>3
    <3>3. t[i] = s[i + 1]
      BY <1>2, <3>2
    <3> QED BY <3>2, <3>3 DEF ToSet
  <2>3. h \in ToSet(s)
    BY <1>1 DEF ToSet
  <2> QED
    BY <2>1, <2>2, <2>3 DEF ToSet
<1>5. h \notin ToSet(t)
  BY <1>1, <1>2, <1>3 DEF Distinct, ToSet
<1>6. Distinct(t)
  <2>1. SUFFICES ASSUME NEW i \in DOMAIN t, NEW j \in DOMAIN t, t[i] = t[j] PROVE i = j
    BY DEF Distinct
  <2>2. /\ i \in Nat /\ j \in Nat /\ i + 1 \in DOMAIN s /\ j + 1 \in DOMAIN s
        /\ i \in 1 .. Len(t) /\ j \in 1 .. Len(t)
    BY <1>1, <1>2, <1>3
  <2>3. s[i + 1] = s[j + 1]
    BY <1>2, <2>1, <2>2
  <2>4. i + 1 = j + 1
    BY <2>2, <2>3 DEF Distinct
  <2> QED BY <2>2, <2>4
<1> QED
  BY <1>2, <1>4, <1>5, <1>6 DEF t, h

-----------------------------------------------------------------------------
(* The invariant Inv, action by action                                     *)

LEMMA EnqueueInv ==
  ASSUME Inv, NEW batch \in Batches, Enqueue(batch)
  PROVE  Placed' /\ PeekedInHeap' /\ Released' /\ ctxMap' = enqueued' \ acked'
<1> DEFINE B == ToSet(batch)
<1>1. /\ B \subseteq Duty
      /\ B \cap enqueued = {}
      /\ enqueued' = enqueued \cup B
      /\ ctxMap' = ctxMap \cup B
      /\ \A d \in Duty : blocked'[d] = IF d \in B THEN BlockedBy[d] ELSE blocked[d]
      /\ delayHeap' = delayHeap \cup {d \in B : BlockedBy[d] = {}}
      /\ UNCHANGED <<ready, unack, acked>>
  BY BatchDuties DEF Enqueue, Free
<1> HIDE DEF B
<1>2. Placed'
  BY <1>1 DEF Inv, TypeOK, Placed, IsBlocked
<1>3. PeekedInHeap'
  BY <1>1 DEF Inv, TypeOK, PeekedInHeap, Enqueue, NotifyDelayHeap
<1>4. Released'
  BY <1>1, DutyAssumption DEF Inv, TypeOK, Released, DutyAssumption
<1>5. ctxMap' = enqueued' \ acked'
  BY <1>1 DEF Inv, Placed
<1> QED
  BY <1>2, <1>3, <1>4, <1>5

LEMMA AckInv ==
  ASSUME Inv, NEW d \in Duty, Ack(d)
  PROVE  Placed' /\ PeekedInHeap' /\ Released' /\ ctxMap' = enqueued' \ acked'
<1>1. /\ d \in unack
      /\ unack' = unack \ {d}
      /\ ctxMap' = ctxMap \ {d}
      /\ acked' = acked \cup {d}
      /\ UNCHANGED <<ready, enqueued>>
  BY DEF Ack, Acknowledge
<1>2. \A e \in Waiting(d) : e \in Duty /\ d \in blocked[e]
  BY DEF Inv, TypeOK, Waiting, AckFails
<1>3. /\ \A e \in Duty : blocked'[e] = IF e \in Waiting(d) THEN blocked[e] \ {d} ELSE blocked[e]
      /\ delayHeap' = delayHeap \cup {e \in Waiting(d) : blocked[e] = {d}}
  BY DEF Ack, Acknowledge, Unblocked
<1>4. \A e \in Duty : blocked'[e] = {} <=>
         blocked[e] = {} \/ e \in {f \in Waiting(d) : blocked[f] = {d}}
  BY <1>2, <1>3
<1>5. Placed'
  BY <1>1, <1>2, <1>3, <1>4 DEF Inv, TypeOK, Placed, IsBlocked
<1>6. PeekedInHeap'
  BY <1>3 DEF Inv, TypeOK, PeekedInHeap, Ack, Acknowledge, NotifyDelayHeap
<1>7. Released'
  BY <1>1, <1>3 DEF Inv, TypeOK, Released
<1>8. ctxMap' = enqueued' \ acked'
  BY <1>1 DEF Inv
<1> QED
  BY <1>5, <1>6, <1>7, <1>8

LEMMA DequeueInv ==
  ASSUME Inv, Dequeue
  PROVE  Placed' /\ DequeueNeverFails'
<1>1. CASE ready = <<>>
  BY <1>1 DEF Dequeue, Inv, Placed, IsBlocked, DequeueNeverFails
<1>2. CASE ready # <<>>
  <2>1. /\ ready' = Tail(ready)
        /\ unack' = unack \cup {Head(ready)}
        /\ Head(ready) \in ctxMap => worker' = worker
        /\ UNCHANGED <<delayHeap, blocked, ctxMap, enqueued, acked>>
    BY <1>2 DEF Dequeue
  <2>2. /\ ToSet(ready) = ToSet(ready') \cup {Head(ready)}
        /\ Head(ready) \notin ToSet(ready')
        /\ Distinct(ready')
    BY <1>2, <2>1, TailReady DEF Inv, TypeOK, Placed
  <2>3. Placed'
    BY <2>1, <2>2 DEF Inv, Placed, IsBlocked
  <2>4. Head(ready) \in ctxMap
    BY <2>2 DEF Inv, Placed
  <2> QED
    BY <2>1, <2>3, <2>4 DEF Inv, DequeueNeverFails
<1> QED
  BY <1>1, <1>2

LEMMA LaunchInv ==
  ASSUME Inv, Launch
  PROVE  Placed' /\ PeekedInHeap'
<1> DEFINE d == heap.duty
<1>1. /\ d \in Duty
      /\ d \in delayHeap
  BY DutyAssumption DEF Launch, Inv, TypeOK, PeekedInHeap, DutyAssumption
<1>2. /\ delayHeap' = delayHeap \ {d}
      /\ ready' = Append(ready, d)
      /\ UNCHANGED <<blocked, unack, enqueued, acked>>
  BY DEF Launch
<1> HIDE DEF d
<1>3. /\ ToSet(ready') = ToSet(ready) \cup {d}
      /\ Distinct(ready')
  BY <1>1, <1>2, AppendReady DEF Inv, TypeOK, Placed
<1>4. Placed'
  BY <1>1, <1>2, <1>3 DEF Inv, Placed, IsBlocked
<1>5. PeekedInHeap'
  BY DEF Launch, Inv, TypeOK, PeekedInHeap
<1> QED
  BY <1>4, <1>5

LEMMA InvStep == Inv /\ [Next]_vars => Inv'
<1> SUFFICES ASSUME Inv, [Next]_vars
             PROVE  Inv'
  OBVIOUS
<1>0. TypeOK'
  BY TypeStep DEF Inv
<1>1. ASSUME NEW batch \in Batches, Enqueue(batch)
      PROVE  Inv'
  BY <1>0, <1>1, EnqueueInv DEF Inv, Enqueue, DequeueNeverFails
<1>2. ASSUME NEW d \in Duty, Ack(d)
      PROVE  Inv'
  BY <1>0, <1>2, AckInv DEF Inv, Ack, Acknowledge, DequeueNeverFails
<1>3. CASE Dequeue
  BY <1>0, <1>3, DequeueInv DEF Inv, Dequeue, PeekedInHeap, Released
<1>4. CASE DequeueWait
  BY <1>0, <1>4 DEF Inv, DequeueWait, Placed, IsBlocked, PeekedInHeap, Released, DequeueNeverFails
<1>5. CASE PeekAndArm
  <2>1. PeekedInHeap'
    BY <1>5 DEF PeekAndArm, TickAfterReset, PeekedInHeap
  <2> QED
    BY <1>0, <1>5, <2>1 DEF Inv, PeekAndArm, TickAfterReset, Placed, IsBlocked, Released, DequeueNeverFails
<1>6. CASE Select
  <2>1. PeekedInHeap'
    BY <1>6 DEF Select, Listening, Inv, TypeOK, PeekedInHeap
  <2> QED
    BY <1>0, <1>6, <2>1 DEF Inv, Select, Listening, Placed, IsBlocked, Released, DequeueNeverFails
<1>7. CASE TimerFires
  <2>1. PeekedInHeap'
    BY <1>7 DEF TimerFires, Listening, Inv, TypeOK, PeekedInHeap
  <2> QED
    BY <1>0, <1>7, <2>1 DEF Inv, TimerFires, Listening, Placed, IsBlocked, Released, DequeueNeverFails
<1>8. CASE Launch
  BY <1>0, <1>8, LaunchInv DEF Inv, Launch, NotifyWorker, Released, DequeueNeverFails
<1>9. CASE ClockTick
  BY <1>0, <1>9 DEF Inv, ClockTick, Placed, IsBlocked, PeekedInHeap, Released, DequeueNeverFails
<1>10. CASE UNCHANGED vars
  BY <1>0, <1>10 DEF Inv, vars, Placed, IsBlocked, PeekedInHeap, Released, DequeueNeverFails
<1> QED
  BY <1>1, <1>2, <1>3, <1>4, <1>5, <1>6, <1>7, <1>8, <1>9, <1>10 DEF Next, QueueStep

LEMMA InvInit == Init => Inv
<1> SUFFICES ASSUME Init
             PROVE  Inv
  OBVIOUS
<1>1. TypeOK
  BY EmptySeq DEF Init, TypeOK, Unarmed
<1>2. ToSet(ready) = {} /\ Distinct(ready)
  BY DEF Init, ToSet, Distinct
<1> QED
  BY <1>1, <1>2 DEF Init, Inv, Placed, IsBlocked, PeekedInHeap, Released, DequeueNeverFails

\* Whatever the plans and however Enqueue, Ack, Dequeue and runDelayHeap
\* interleave, the places, the peeked duty, the blockers and the trace contexts
\* of the queue agree; in particular Dequeue always finds the context.
THEOREM Invariance == Spec => []Inv
BY InvInit, InvStep, PTL DEF Spec

-----------------------------------------------------------------------------
(* The safety properties                                                   *)

LEMMA InvOnePlace == Inv => OnePlace
<1> SUFFICES ASSUME Inv
             PROVE  OnePlace
  OBVIOUS
<1>1. /\ DOMAIN Place = {"blocked", "heap", "ready", "unack", "acked"}
      /\ Place["blocked"] = {d \in Duty : IsBlocked(d)}
      /\ Place["heap"] = delayHeap
      /\ Place["ready"] = ToSet(ready)
      /\ Place["unack"] = unack
      /\ Place["acked"] = acked
  BY DEF Place
<1>2. UNION {Place[p] : p \in DOMAIN Place} =
        {d \in Duty : IsBlocked(d)} \cup delayHeap \cup ToSet(ready) \cup unack \cup acked
  BY <1>1
<1>3. enqueued = UNION {Place[p] : p \in DOMAIN Place}
  BY <1>2 DEF Inv, TypeOK, Placed
<1>4. \A p, q \in DOMAIN Place : p # q => Place[p] \cap Place[q] = {}
  BY <1>1 DEF Inv, TypeOK, Placed
<1> QED
  BY <1>3, <1>4 DEF OnePlace, Inv, Placed

LEMMA InvBlockersFirst == Inv => BlockersFirst
BY DEF Inv, TypeOK, Placed, IsBlocked, Released, BlockersFirst

\* Enqueue, Ack, runDelayHeap and Dequeue neither lose a duty nor hand it out
\* twice, whatever the plans and however their steps interleave.
THEOREM NeverLostNorTwice == Spec => []OnePlace
BY Invariance, InvOnePlace, PTL

\* No duty waits for its time, is ready, running or done before the duties it is
\* blocked by are acknowledged.
THEOREM BlockersComeFirst == Spec => []BlockersFirst
BY Invariance, InvBlockersFirst, PTL

-----------------------------------------------------------------------------
(* The reverse index, for the plans of the scheduler                       *)

LEMMA IndexAfterEnqueue ==
  ASSUME SchedulerBatches, Inv, IndexInv, NEW batch \in Batches, Enqueue(batch)
  PROVE  IndexInv'
<1> DEFINE B == ToSet(batch)
           All == UNION {ToSet(b) : b \in Batches}
<1>1. /\ B \subseteq Duty
      /\ B \cap enqueued = {}
      /\ enqueued' = enqueued \cup B
      /\ \A d \in Duty : blocked'[d] = IF d \in B THEN BlockedBy[d] ELSE blocked[d]
      /\ \A d \in Duty : reverseBlockedMap'[d] = ReverseAfter(batch, d)
      /\ acked' = acked
  BY BatchDuties DEF Enqueue
<1>2. /\ B \subseteq All
      /\ enqueued \subseteq All
  BY DEF IndexInv, Planned
<1>3. \A d, e \in All : d # e => BlockedBy[d] \cap BlockedBy[e] = {}
  BY DEF SchedulerBatches
<1>4. ASSUME NEW e \in B, NEW d \in BlockedBy[e]
      PROVE  d \notin acked
  <2>1. SUFFICES ASSUME d \in acked
                 PROVE  FALSE
    OBVIOUS
  <2>2. d \in enqueued
    BY <2>1 DEF Inv, Placed
  <2>3. PICK other \in Batches : d \in ToSet(other) /\ ToSet(other) \subseteq enqueued
    BY <2>2 DEF IndexInv, Planned
  <2>4. other # batch
    BY <1>1, <2>2, <2>3
  <2>5. PICK i \in DOMAIN batch : batch[i] = e
    BY DEF ToSet
  <2> QED
    BY <2>3, <2>4, <2>5 DEF SchedulerBatches
<1> HIDE DEF B, All
<1>5. ASSUME NEW d \in Duty
      PROVE  reverseBlockedMap'[d] = {e \in enqueued' : d \in BlockedBy[e]}
  <2>1. {batch[i] : i \in Dependents(batch, d)} = {e \in B : d \in BlockedBy[e]}
    BY BatchDuties DEF Dependents, ToSet, B
  <2>2. CASE Dependents(batch, d) = {}
    <3>1. reverseBlockedMap'[d] = reverseBlockedMap[d]
      BY <1>1, <2>2 DEF ReverseAfter
    <3>2. reverseBlockedMap[d] = {e \in enqueued : d \in BlockedBy[e]}
      BY DEF IndexInv, Indexed, Inv, TypeOK
    <3>3. \A e \in B : d \notin BlockedBy[e]
      BY <2>1, <2>2
    <3> QED
      BY <1>1, <3>1, <3>2, <3>3
  <2>3. CASE Dependents(batch, d) # {}
    <3>1. PICK i \in Dependents(batch, d) : TRUE
      BY <2>3
    <3>2. /\ DOMAIN batch = 1..Len(batch)
          /\ batch[i] \in B /\ d \in BlockedBy[batch[i]]
      BY <3>1, BatchDuties DEF Dependents, B
    <3>3. {e \in enqueued' : d \in BlockedBy[e]} = {batch[i]}
      BY <1>1, <1>2, <1>3, <3>2
    <3>4. \A j \in Dependents(batch, d) : batch[j] = batch[i]
      <4> SUFFICES ASSUME NEW j \in Dependents(batch, d)
                   PROVE  batch[j] = batch[i]
        OBVIOUS
      <4>1. batch[j] \in B /\ d \in BlockedBy[batch[j]]
        BY BatchDuties DEF Dependents, B
      <4> QED
        BY <1>1, <3>3, <4>1
    <3>5. \A j \in Dependents(batch, d) : j = i
      BY <3>1, <3>4 DEF Dependents, SchedulerBatches
    <3>6. {j \in Dependents(batch, d) : \A k \in Dependents(batch, d) : k <= j} = {i}
      BY <3>1, <3>2, <3>5 DEF Dependents
    <3> QED
      <4>1. ReverseAfter(batch, d) = {batch[last] : last \in {i}}
        BY <2>3, <3>6 DEF ReverseAfter
      <4> QED
        BY <1>1, <3>3, <4>1
  <2> QED
    BY <2>2, <2>3
<1>6. Indexed'
  BY <1>1, <1>4, <1>5 DEF IndexInv, Indexed, Inv, TypeOK
<1>7. Planned'
  BY <1>1 DEF IndexInv, Planned, B
<1> QED
  BY <1>6, <1>7 DEF IndexInv

LEMMA AckSucceeds == Inv /\ IndexInv => AckNeverFails
BY DEF Inv, TypeOK, Placed, IndexInv, Indexed, AckNeverFails, AckFails

LEMMA IndexAfterAck ==
  ASSUME Inv, IndexInv, NEW d \in Duty, Ack(d)
  PROVE  IndexInv'
<1>1. /\ UNCHANGED <<reverseBlockedMap, enqueued>>
      /\ acked' = acked \cup {d}
      /\ \A e \in Duty : blocked'[e] = IF e \in Waiting(d) THEN blocked[e] \ {d} ELSE blocked[e]
  BY DEF Ack, Acknowledge
<1>2. Waiting(d) = reverseBlockedMap[d]
  BY AckSucceeds DEF AckNeverFails, Waiting, Ack, Acknowledge
<1>3. Indexed'
  BY <1>1, <1>2 DEF IndexInv, Indexed
<1>4. Planned'
  BY <1>1 DEF IndexInv, Planned
<1> QED
  BY <1>3, <1>4 DEF IndexInv

LEMMA IndexStep ==
  ASSUME SchedulerBatches
  PROVE  Inv /\ IndexInv /\ [Next]_vars => IndexInv'
<1> SUFFICES ASSUME Inv, IndexInv, [Next]_vars
             PROVE  IndexInv'
  OBVIOUS
<1>1. ASSUME NEW batch \in Batches, Enqueue(batch)
      PROVE  IndexInv'
  BY <1>1, IndexAfterEnqueue
<1>2. ASSUME NEW d \in Duty, Ack(d)
      PROVE  IndexInv'
  BY <1>2, IndexAfterAck
<1>3. CASE QueueStep \/ ClockTick \/ UNCHANGED vars
  <2>1. UNCHANGED <<reverseBlockedMap, blocked, enqueued, acked>>
    BY <1>3 DEF QueueStep, Dequeue, DequeueWait, PeekAndArm, Select, TimerFires,
                Launch, ClockTick, vars
  <2> QED
    BY <2>1 DEF IndexInv, Indexed, Planned
<1> QED
  BY <1>1, <1>2, <1>3 DEF Next

\* With plans as Scheduler.Process builds them, reverseBlockedMap holds for every
\* duty the one that waits for it, although Enqueue resets the list of a duty
\* at each of its dependents.
THEOREM IndexInvariance ==
  ASSUME SchedulerBatches
  PROVE  Spec => []IndexInv
<1>1. Init => IndexInv
  BY DEF Init, IndexInv, Indexed, Planned
<1> QED
  BY <1>1, IndexStep, Invariance, PTL DEF Spec

\* With plans as Scheduler.Process builds them, Ack finds every duty it has to
\* unblock.
THEOREM AckFindsDependents ==
  ASSUME SchedulerBatches
  PROVE  Spec => []AckNeverFails
BY AckSucceeds, IndexInvariance, Invariance, PTL

\* With plans as Scheduler.Process builds them, no duty waits for a duty that is
\* already acknowledged, although the reverse index keeps only the last
\* dependent of a duty.
THEOREM NeverStranded ==
  ASSUME SchedulerBatches
  PROVE  Spec => []NoStrandedDuty
<1>1. Inv /\ IndexInv => NoStrandedDuty
  BY DEF Inv, TypeOK, Placed, IsBlocked, Released, IndexInv, Indexed, NoStrandedDuty
<1> QED
  BY <1>1, IndexInvariance, Invariance, PTL

-----------------------------------------------------------------------------
(* The queue implements DutyFlow                                           *)

LEMMA FlowInit == Init => Flow!Init
BY DEF Init, Flow!Init, PhaseOf

LEMMA FlowEnqueue ==
  ASSUME Inv, NEW batch \in Batches, Enqueue(batch)
  PROVE  Flow!Submit(ToSet(batch))
<1>1. /\ ToSet(batch) \subseteq Duty
      /\ ToSet(batch) \cap enqueued = {}
      /\ enqueued' = enqueued \cup ToSet(batch)
      /\ UNCHANGED <<unack, acked>>
  BY BatchDuties DEF Enqueue
<1>2. \A d \in ToSet(batch) : PhaseOf(d) = "new"
  BY <1>1 DEF Inv, Placed, PhaseOf
<1>3. \A d \in Duty : PhaseOf(d)' = IF d \in ToSet(batch) THEN "pending" ELSE PhaseOf(d)
  BY <1>1 DEF Inv, Placed, PhaseOf
<1> QED
  BY <1>1, <1>2, <1>3 DEF Flow!Submit

LEMMA FlowDequeue ==
  ASSUME Inv, Dequeue, ready # <<>>
  PROVE  Flow!Start(Head(ready))
<1> DEFINE d == Head(ready)
<1>1. /\ d \in Duty
      /\ d \in ToSet(ready)
  BY TailReady DEF Inv, TypeOK, Placed
<1>2. /\ unack' = unack \cup {d}
      /\ UNCHANGED <<enqueued, acked>>
  BY DEF Dequeue
<1> HIDE DEF d
<1>3. d \in enqueued /\ d \notin unack /\ d \notin acked
  BY <1>1 DEF Inv, Placed
<1>4. BlockedBy[d] \subseteq acked /\ BlockedBy[d] \subseteq Duty
  BY <1>1, InvBlockersFirst, DutyAssumption DEF BlockersFirst, DutyAssumption
<1>5. /\ PhaseOf(d) = "pending"
      /\ \A e \in BlockedBy[d] : PhaseOf(e) = "done"
  BY <1>3, <1>4 DEF PhaseOf
<1>6. \A e \in Duty : PhaseOf(e)' = IF e = d THEN "running" ELSE PhaseOf(e)
  BY <1>2, <1>3 DEF PhaseOf
<1>7. [e \in Duty |-> PhaseOf(e)]' = [[e \in Duty |-> PhaseOf(e)] EXCEPT ![d] = "running"]
  BY <1>1, <1>6
<1> QED
  BY <1>1, <1>4, <1>5, <1>7 DEF Flow!Start, d

LEMMA FlowAck ==
  ASSUME Inv, NEW d \in Duty, Ack(d)
  PROVE  Flow!Finish(d)
<1>1. /\ d \in unack
      /\ unack' = unack \ {d}
      /\ acked' = acked \cup {d}
      /\ enqueued' = enqueued
  BY DEF Ack, Acknowledge
<1>2. PhaseOf(d) = "running"
  BY <1>1 DEF Inv, Placed, PhaseOf
<1>3. \A e \in Duty : PhaseOf(e)' = IF e = d THEN "done" ELSE PhaseOf(e)
  BY <1>1 DEF PhaseOf
<1>4. [e \in Duty |-> PhaseOf(e)]' = [[e \in Duty |-> PhaseOf(e)] EXCEPT ![d] = "done"]
  BY <1>3
<1> QED
  BY <1>2, <1>4 DEF Flow!Finish

LEMMA FlowStep == Inv /\ [Next]_vars => [Flow!Next]_([d \in Duty |-> PhaseOf(d)])
<1> SUFFICES ASSUME Inv, [Next]_vars
             PROVE  [Flow!Next]_([d \in Duty |-> PhaseOf(d)])
  OBVIOUS
<1>1. ASSUME NEW batch \in Batches, Enqueue(batch)
      PROVE  Flow!Next
  BY <1>1, FlowEnqueue, BatchDuties DEF Flow!Next
<1>2. ASSUME NEW d \in Duty, Ack(d)
      PROVE  Flow!Next
  BY <1>2, FlowAck DEF Flow!Next
<1>3. CASE Dequeue /\ ready # <<>>
  <2>1. Head(ready) \in Duty
    BY <1>3, TailReady DEF Inv, TypeOK, Placed
  <2> QED
    BY <1>3, <2>1, FlowDequeue DEF Flow!Next
<1>4. CASE \/ Dequeue /\ ready = <<>>
           \/ DequeueWait \/ PeekAndArm \/ Select \/ TimerFires \/ Launch
           \/ ClockTick \/ UNCHANGED vars
  <2>1. UNCHANGED <<unack, enqueued, acked>>
    BY <1>4 DEF Dequeue, DequeueWait, PeekAndArm, Select, TimerFires, Launch, ClockTick, vars
  <2> QED
    BY <2>1 DEF PhaseOf
<1> QED
  BY <1>1, <1>2, <1>3, <1>4 DEF Next, QueueStep

\* Seen from outside, the queue is DutyFlow: a duty is started at most once,
\* after its blockers are finished, and finished once, for all plans and every
\* interleaving of the four kinds of goroutines.
THEOREM Refinement == Spec => ImplementsDutyFlow
<1>1. Spec => Flow!Spec
  BY FlowInit, FlowStep, Invariance, PTL DEF Spec, Flow!Spec
<1> QED
  BY <1>1 DEF ImplementsDutyFlow
=============================================================================
