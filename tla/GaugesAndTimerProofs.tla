------------------------- MODULE GaugesAndTimerProofs -------------------------
(***************************************************************************)
(* More about the duty queue, for all plans: its gauges are exact for the  *)
(* plans of the scheduler, in which no duty is listed twice or waits for   *)
(* more than one other; and a duty becomes ready before its time only      *)
(* after delayTimer was Reset with a tick in its channel.                  *)
(***************************************************************************)
EXTENDS MCDutyQueueLive, DutyQueueProofs

-----------------------------------------------------------------------------
(* The gauges                                                              *)

BlockedNow == {d \in Duty : IsBlocked(d)}

Blocking(batch) == {d \in ToSet(batch) : BlockedBy[d] # {}}

LEMMA SubsetsFinite ==
  ASSUME NEW S \in SUBSET Duty
  PROVE  IsFiniteSet(S)
BY DutyAssumption, FS_Subset DEF DutyAssumption

\* Disjoint sets of duties.
LEMMA DisjointCounts ==
  ASSUME NEW S \in SUBSET Duty, NEW T \in SUBSET Duty, S \cap T = {}
  PROVE  Cardinality(S \cup T) = Cardinality(S) + Cardinality(T)
<1>1. IsFiniteSet(S) /\ IsFiniteSet(T)
  BY SubsetsFinite
<1>2. Cardinality(S \cup T) = Cardinality(S) + Cardinality(T) - Cardinality(S \cap T)
  BY <1>1, FS_Union
<1>3. Cardinality(S \cap T) = 0
  BY FS_EmptySet
<1> QED BY <1>2, <1>3, CardinalDuties

LEMMA RemovedCounts ==
  ASSUME NEW S \in SUBSET Duty, NEW T \in SUBSET S
  PROVE  Cardinality(S \ T) = Cardinality(S) - Cardinality(T)
<1>1. (S \ T) \cup T = S /\ (S \ T) \cap T = {} /\ S \ T \in SUBSET Duty /\ T \in SUBSET Duty
  OBVIOUS
<1>2. Cardinality(S) = Cardinality(S \ T) + Cardinality(T)
  BY <1>1, DisjointCounts
<1> QED BY <1>1, <1>2, CardinalDuties

\* One entry of a BlockedBy list for each duty that has a list.
LEMMA EdgesOfPlan ==
  ASSUME SchedulerBatches, SingleBlocker, NEW batch \in Batches
  PROVE  Cardinality(Edges(batch)) = Cardinality(Blocking(batch))
<1> DEFINE f == [p \in Edges(batch) |-> batch[p[1]]]
<1>1. \A p \in Edges(batch) : /\ p = <<p[1], p[2]>> /\ p[1] \in DOMAIN batch
                              /\ batch[p[1]] \in Blocking(batch)
                              /\ p[2] \in BlockedBy[batch[p[1]]]
  BY BatchDuties DEF Edges, Blocking
<1>2. f \in [Edges(batch) -> Blocking(batch)]
  BY <1>1
<1>3. ASSUME NEW p \in Edges(batch), NEW q \in Edges(batch), f[p] = f[q] PROVE p = q
  <2>1. batch[p[1]] = batch[q[1]]
    BY <1>3
  <2>2. p[1] = q[1]
    BY <1>1, <2>1 DEF SchedulerBatches
  <2>3. batch[p[1]] \in Duty
    BY <1>1, BatchDuties
  <2>4. p[2] = q[2]
    BY <1>1, <2>1, <2>3 DEF SingleBlocker
  <2> QED BY <1>1, <2>2, <2>4
<1>4. ASSUME NEW d \in Blocking(batch) PROVE \E p \in Edges(batch) : f[p] = d
  <2>1. PICK i \in DOMAIN batch : batch[i] = d
    BY DEF Blocking, ToSet
  <2>2. PICK b \in BlockedBy[d] : b \in Duty
    BY <2>1, BatchDuties, DutyAssumption DEF Blocking, DutyAssumption
  <2>3. <<i, b>> \in Edges(batch)
    BY <2>1, <2>2 DEF Edges
  <2> QED BY <2>1, <2>3
<1> HIDE DEF f
<1>5. f \in Bijection(Edges(batch), Blocking(batch))
  BY <1>2, <1>3, <1>4 DEF Bijection, Injection, Surjection, IsInjective
<1>6. ExistsBijection(Edges(batch), Blocking(batch))
  BY <1>5 DEF ExistsBijection
<1>7. IsFiniteSet(Blocking(batch))
  BY BatchDuties, SubsetsFinite DEF Blocking
<1>8. IsFiniteSet(Edges(batch))
  <2>1. f \in Injection(Edges(batch), Blocking(batch))
    BY <1>5 DEF Bijection
  <2> QED BY <1>7, <2>1, FS_Injection
<1> QED BY <1>6, <1>8, FS_Bijection

-----------------------------------------------------------------------------
(* The gauges, action by action                                            *)

LEMMA StatsTyped ==
  ASSUME TypeOK
  PROVE  /\ stats.ready \in Int /\ stats.unacked \in Int
         /\ stats.blocked \in Int /\ stats.waiting \in Int
         /\ ready \in Seq(Duty) /\ delayHeap \in SUBSET Duty /\ unack \in SUBSET Duty
         /\ BlockedNow \in SUBSET Duty
BY DEF TypeOK, BlockedNow

LEMMA EnqueueStats ==
  ASSUME SchedulerBatches, SingleBlocker, Inv, StatsExact, NEW batch \in Batches, Enqueue(batch)
  PROVE  StatsExact'
<1> DEFINE B == ToSet(batch)
<1>1. /\ B \subseteq Duty /\ B \cap enqueued = {}
      /\ \A d \in Duty : blocked'[d] = IF d \in B THEN BlockedBy[d] ELSE blocked[d]
      /\ delayHeap' = delayHeap \cup Free(batch) /\ Free(batch) \subseteq B
      /\ Blocking(batch) \subseteq B
      /\ ready' = ready /\ unack' = unack
  BY BatchDuties DEF Enqueue, Free, Blocking
<1>2. /\ stats'.ready = stats.ready + 0 /\ stats'.unacked = stats.unacked + 0
      /\ stats'.blocked = stats.blocked + Cardinality(Edges(batch))
      /\ stats'.waiting = stats.waiting + Cardinality(Free(batch))
  BY DEF Enqueue, Count
<1>3. delayHeap \cap Free(batch) = {}
  BY <1>1 DEF Inv, Placed
<1>4. BlockedNow' = BlockedNow \cup Blocking(batch) /\ BlockedNow \cap Blocking(batch) = {}
  BY <1>1 DEF BlockedNow, IsBlocked, Blocking, Inv, Placed
<1>5. Free(batch) \in SUBSET Duty /\ Blocking(batch) \in SUBSET Duty
  BY <1>1
<1>6. TypeOK
  BY DEF Inv
<1>7. Cardinality(delayHeap') = Cardinality(delayHeap) + Cardinality(Free(batch))
  BY <1>1, <1>3, <1>5, <1>6, StatsTyped, DisjointCounts
<1>8. Cardinality(BlockedNow') = Cardinality(BlockedNow) + Cardinality(Blocking(batch))
  BY <1>4, <1>5, <1>6, StatsTyped, DisjointCounts
<1> QED BY <1>1, <1>2, <1>6, <1>7, <1>8, EdgesOfPlan, StatsTyped DEF StatsExact, BlockedNow

\* A duty is released when it waits for nothing else.
LEMMA AckStats == ASSUME Inv, StatsExact, NEW d \in Duty, Ack(d) PROVE StatsExact'
<1>1. /\ d \in unack /\ unack' = unack \ {d} /\ ready' = ready
      /\ delayHeap' = delayHeap \cup Unblocked(d)
      /\ \A e \in Duty : blocked'[e] = IF e \in Waiting(d) THEN blocked[e] \ {d} ELSE blocked[e]
  BY DEF Ack, Acknowledge
<1>2. /\ stats'.ready = stats.ready + 0 /\ stats'.unacked = stats.unacked + (-1)
      /\ stats'.blocked = stats.blocked + (-Cardinality(Unblocked(d)))
      /\ stats'.waiting = stats.waiting + Cardinality(Unblocked(d))
  BY DEF Ack, Acknowledge, Count
<1>3. \A e \in Waiting(d) : e \in Duty /\ d \in blocked[e]
  BY DEF Inv, TypeOK, Waiting, AckFails
<1>4. /\ Unblocked(d) \in SUBSET BlockedNow
      /\ BlockedNow' = BlockedNow \ Unblocked(d)
  BY <1>1, <1>3 DEF BlockedNow, IsBlocked, Unblocked
<1>5. delayHeap \cap Unblocked(d) = {} /\ Unblocked(d) \in SUBSET Duty
  BY <1>4 DEF BlockedNow, Inv, Placed
<1>6. TypeOK
  BY DEF Inv
<1>7. Cardinality(unack') = Cardinality(unack) - 1
  <2>1. Cardinality(unack \ {d}) = Cardinality(unack) - Cardinality({d})
    BY <1>1, <1>6, StatsTyped, RemovedCounts
  <2> QED BY <1>1, <2>1, FS_Singleton
<1>8. Cardinality(delayHeap') = Cardinality(delayHeap) + Cardinality(Unblocked(d))
  BY <1>1, <1>5, <1>6, StatsTyped, DisjointCounts
<1>9. Cardinality(BlockedNow') = Cardinality(BlockedNow) - Cardinality(Unblocked(d))
  BY <1>4, <1>6, StatsTyped, RemovedCounts
<1>10. Cardinality(Unblocked(d)) \in Nat /\ Cardinality(BlockedNow) \in Nat
  BY <1>5, <1>6, StatsTyped, CardinalDuties
<1> QED BY <1>1, <1>2, <1>6, <1>7, <1>8, <1>9, <1>10, StatsTyped DEF StatsExact, BlockedNow

LEMMA DequeueStats == ASSUME Inv, StatsExact, Dequeue PROVE StatsExact'
<1>1. CASE ready = <<>>
  BY <1>1 DEF Dequeue, StatsExact, IsBlocked
<1>2. CASE ready # <<>>
  <2> DEFINE h == Head(ready)
  <2>1. /\ ready' = Tail(ready) /\ unack' = unack \cup {h}
        /\ delayHeap' = delayHeap /\ blocked' = blocked
        /\ h \in ctxMap => stats' = [ready |-> stats.ready + (-1), unacked |-> stats.unacked + 1,
                                    blocked |-> stats.blocked + 0, waiting |-> stats.waiting + 0]
    BY <1>2 DEF Dequeue, Count
  <2>2. h \in Duty /\ h \in ToSet(ready) /\ Len(ready') = Len(ready) - 1 /\ Len(ready) \in Nat
    BY <1>2, <2>1, TailReady, HeadTailProperties, LenProperties DEF Inv, TypeOK, Placed
  <2>3. h \in ctxMap /\ h \notin unack
    BY <2>2 DEF Inv, Placed
  <2>4. TypeOK
    BY DEF Inv
  <2>5. Cardinality(unack') = Cardinality(unack) + 1
    <3>1. IsFiniteSet(unack)
      BY <2>4, StatsTyped, SubsetsFinite
    <3> QED BY <2>1, <2>3, <3>1, FS_AddElement
  <2> QED BY <2>1, <2>2, <2>3, <2>4, <2>5, StatsTyped DEF StatsExact, IsBlocked
<1> QED BY <1>1, <1>2

LEMMA LaunchStats == ASSUME Inv, StatsExact, Launch PROVE StatsExact'
<1> DEFINE d == heap.duty
<1>1. d \in Duty /\ d \in delayHeap
  BY DutyAssumption DEF Launch, Inv, TypeOK, PeekedInHeap, DutyAssumption
<1>2. /\ delayHeap' = delayHeap \ {d} /\ ready' = Append(ready, d)
      /\ unack' = unack /\ blocked' = blocked
      /\ stats' = [ready |-> stats.ready + 1, unacked |-> stats.unacked + 0,
                   blocked |-> stats.blocked + 0, waiting |-> stats.waiting + (-1)]
  BY DEF Launch, Count
<1> HIDE DEF d
<1>3. TypeOK
  BY DEF Inv
<1>4. Len(ready') = Len(ready) + 1
  BY <1>1, <1>2, <1>3, StatsTyped, AppendProperties
<1>5. Cardinality(delayHeap') = Cardinality(delayHeap) - 1
  <2>1. IsFiniteSet(delayHeap)
    BY <1>3, StatsTyped, SubsetsFinite
  <2> QED BY <1>1, <1>2, <2>1, FS_RemoveElement
<1> QED BY <1>2, <1>3, <1>4, <1>5, StatsTyped DEF StatsExact, IsBlocked

\* With plans as Scheduler.Process builds them, the numbers that EmitStats
\* publishes (duty_queue.go:63-100, 145-190) are those of the duties in the
\* places they are named after.
THEOREM GaugesAreExact ==
  ASSUME SchedulerBatches, SingleBlocker
  PROVE  Spec => []StatsExact
<1>1. Init => StatsExact
  <2> SUFFICES ASSUME Init PROVE StatsExact
    OBVIOUS
  <2>1. {d \in Duty : IsBlocked(d)} = {}
    BY DEF Init, IsBlocked
  <2>2. Len(ready) = 0 /\ Cardinality(unack) = 0 /\ Cardinality(delayHeap) = 0
    BY EmptySeq, FS_EmptySet DEF Init
  <2> QED BY <2>1, <2>2, FS_EmptySet DEF Init, StatsExact
<1>2. Inv /\ StatsExact /\ [Next]_vars => StatsExact'
  <2> SUFFICES ASSUME Inv, StatsExact, [Next]_vars PROVE StatsExact'
    OBVIOUS
  <2>1. ASSUME NEW batch \in Batches, Enqueue(batch) PROVE StatsExact'
    BY <2>1, EnqueueStats
  <2>2. ASSUME NEW d \in Duty, Ack(d) PROVE StatsExact'
    BY <2>2, AckStats
  <2>3. CASE Dequeue
    BY <2>3, DequeueStats
  <2>4. CASE Launch
    BY <2>4, LaunchStats
  <2>5. CASE DequeueWait \/ PeekAndArm \/ Select \/ TimerFires \/ ClockTick \/ UNCHANGED vars
    <3>1. ready' = ready /\ unack' = unack /\ delayHeap' = delayHeap /\ blocked' = blocked
          /\ stats' = stats
      BY <2>5 DEF DequeueWait, PeekAndArm, Select, TimerFires, ClockTick, vars, queue
    <3> QED BY <3>1 DEF StatsExact, IsBlocked
  <2> QED BY <2>1, <2>2, <2>3, <2>4, <2>5 DEF Next, QueueStep
<1> QED BY <1>1, <1>2, Invariance, PTL DEF Spec

-----------------------------------------------------------------------------
(* The timer                                                               *)

Aim == heap.duty

\* While runDelayHeap looks at a timer channel, the timer is set to the time of
\* the duty it has peeked, and a tick means that this time has come.
OnTime ==
  /\ heap.pc \in {"select", "parked"} /\ Aim # NoDuty =>
       /\ timer.at # Unarmed => timer.at = ActiveTime[Aim]
       /\ timer.tick => now >= ActiveTime[Aim]
  /\ heap.pc = "fired" => now >= ActiveTime[Aim]
  /\ NotEarly

TimerInv == ~staleTick => OnTime

\* What the steps that leave the timer alone keep.
LEMMA TimerLeftAlone ==
  ASSUME TypeOK, OnTime, timer' = timer, now' = now, ready' = ready,
         heap' = heap \/ heap'.pc = "peek"
  PROVE  OnTime'
BY DEF OnTime, NotEarly, Aim

LEMMA PeekOnTime ==
  ASSUME TypeOK, OnTime, PeekAndArm, ~(timer.tick /\ heap'.duty # NoDuty /\ timer'.tick)
  PROVE  OnTime'
<1>1. now' = now /\ ready' = ready
  BY DEF PeekAndArm, queue
<1>2. CASE delayHeap = {} /\ heap' = [pc |-> "select", duty |-> NoDuty]
  BY <1>1, <1>2 DEF OnTime, NotEarly, Aim
<1>3. ASSUME NEW d \in delayHeap, heap' = [pc |-> "select", duty |-> d],
             timer' = [at |-> ActiveTime[d], tick |-> TickAfterReset]
      PROVE  OnTime'
  <2>1. d # NoDuty /\ heap'.pc = "select" /\ heap'.duty = d
    BY <1>3, DutyAssumption DEF TypeOK, DutyAssumption
  <2>2. timer'.at = ActiveTime[d]
    BY <1>3
  <2>3. timer'.tick => timer.tick
    <3>1. timer'.tick <=> TickAfterReset
      BY <1>3, Zenon
    <3> QED BY <3>1, Zenon DEF TickAfterReset
  <2>4. ~timer'.tick
    BY <2>1, <2>3
  <2> QED BY <1>1, <2>1, <2>2, <2>4 DEF OnTime, NotEarly, Aim
<1> QED BY <1>2, <1>3 DEF PeekAndArm

LEMMA SelectOnTime == ASSUME TypeOK, OnTime, Select PROVE OnTime'
<1>1. heap.pc = "select" /\ now' = now /\ ready' = ready
  BY DEF Select, queue
<1>2. CASE Listening /\ timer.tick
  <2>1. heap'.pc = "fired" /\ heap'.duty = Aim
    BY <1>2 DEF Select, TypeOK, Aim
  <2> QED BY <1>1, <1>2, <2>1 DEF OnTime, NotEarly, Aim, Listening
<1>3. CASE ~(Listening /\ timer.tick)
  <2>1. heap'.pc = "parked" /\ heap'.duty = Aim /\ timer' = timer
    BY <1>3 DEF Select, TypeOK, Aim
  <2> QED BY <1>1, <2>1 DEF OnTime, NotEarly, Aim
<1> QED BY <1>2, <1>3

\* The timer fires at the time of the duty that was peeked or later.
LEMMA FiresOnTime == ASSUME TypeOK, OnTime, TimerFires PROVE OnTime'
<1>1. timer.at # Unarmed /\ now >= timer.at /\ now' = now /\ ready' = ready
  BY DEF TimerFires, queue
<1>2. CASE heap.pc = "parked" /\ Listening
  <2>1. heap'.pc = "fired" /\ heap'.duty = Aim
    BY <1>2 DEF TimerFires, TypeOK, Aim
  <2> QED BY <1>1, <1>2, <2>1 DEF OnTime, NotEarly, Aim, Listening
<1>3. CASE ~(heap.pc = "parked" /\ Listening)
  <2>1. heap' = heap /\ timer'.at = Unarmed
    BY <1>3 DEF TimerFires
  <2> QED BY <1>1, <2>1 DEF OnTime, NotEarly, Aim
<1> QED BY <1>2, <1>3

LEMMA LaunchOnTime == ASSUME Inv, OnTime, Launch PROVE OnTime'
<1>1. /\ heap.pc = "fired" /\ Aim \in Duty /\ ready \in Seq(Duty)
      /\ heap'.pc = "peek" /\ ready' = Append(ready, Aim) /\ now' = now
  BY DEF Launch, Inv, TypeOK, Aim, history
<1>2. ToSet(ready') = ToSet(ready) \cup {Aim}
  BY <1>1, AppendReady
<1> QED BY <1>1, <1>2 DEF OnTime, NotEarly

LEMMA ClockOnTime == ASSUME TypeOK, OnTime, ClockTick PROVE OnTime'
<1>1. /\ now' = now + 1 /\ heap' = heap /\ timer' = timer /\ ready' = ready
      /\ now \in Nat /\ \A d \in Duty : ActiveTime[d] \in Nat
  BY DutyAssumption DEF ClockTick, queue, TypeOK, DutyAssumption
<1>2. \A d \in ToSet(ready) : d \in Duty
  <2>1. DOMAIN ready = 1 .. Len(ready) /\ \A i \in 1 .. Len(ready) : ready[i] \in Duty
    BY ElementOfSeq, LenProperties DEF TypeOK
  <2> QED BY <2>1 DEF ToSet
<1>3. Aim # NoDuty => Aim \in Duty
  BY DEF TypeOK, Aim
<1>4. heap.pc = "fired" => Aim \in Duty
  BY DEF TypeOK, Aim
<1> QED BY <1>1, <1>2, <1>3, <1>4 DEF OnTime, NotEarly, Aim

LEMMA TimerInvStep == Inv /\ TimerInv /\ [Next /\ Watched]_watchedVars => TimerInv'
<1> SUFFICES ASSUME Inv, TimerInv, [Next /\ Watched]_watchedVars, ~staleTick'
             PROVE  OnTime'
  BY DEF TimerInv
<1>1. CASE UNCHANGED watchedVars
  BY <1>1 DEF watchedVars, vars, queue, TimerInv, OnTime, NotEarly, Aim
<1>2. CASE Next /\ Watched
  <2>1. staleTick' = (staleTick \/ (timer.tick /\ PeekAndArm /\ heap'.duty # NoDuty /\ timer'.tick))
    BY <1>2 DEF Watched
  <2>2. ~staleTick /\ ~(timer.tick /\ PeekAndArm /\ heap'.duty # NoDuty /\ timer'.tick)
    BY <2>1, Zenon
  <2>3. TypeOK /\ OnTime
    BY <2>2 DEF Inv, TimerInv
  <2>4. ASSUME NEW batch \in Batches, Enqueue(batch) PROVE OnTime'
    <3>1. /\ timer' = timer /\ now' = now /\ ready' = ready
          /\ heap' = heap \/ heap'.pc = "peek"
      BY <2>3, <2>4 DEF Enqueue, NotifyDelayHeap, TypeOK
    <3> QED BY <2>3, <3>1, TimerLeftAlone
  <2>5. ASSUME NEW d \in Duty, Ack(d) PROVE OnTime'
    <3>1. /\ timer' = timer /\ now' = now /\ ready' = ready
          /\ heap' = heap \/ heap'.pc = "peek"
      BY <2>3, <2>5 DEF Ack, Acknowledge, NotifyDelayHeap, TypeOK
    <3> QED BY <2>3, <3>1, TimerLeftAlone
  <2>6. CASE Dequeue
    <3>1. timer' = timer /\ now' = now /\ heap' = heap
      BY <2>6 DEF Dequeue
    <3>2. ToSet(ready') \subseteq ToSet(ready)
      <4>1. CASE ready = <<>>
        BY <2>6, <4>1 DEF Dequeue
      <4>2. CASE ready # <<>>
        <5>1. ready' = Tail(ready) /\ ready \in Seq(Duty) /\ Distinct(ready)
          BY <2>3, <2>6, <4>2 DEF Dequeue, Inv, Placed, TypeOK
        <5> QED BY <4>2, <5>1, TailReady
      <4> QED BY <4>1, <4>2
    <3> QED BY <2>3, <3>1, <3>2 DEF OnTime, NotEarly, Aim
  <2>7. CASE DequeueWait
    <3>1. timer' = timer /\ now' = now /\ heap' = heap /\ ready' = ready
      BY <2>7 DEF DequeueWait, queue
    <3> QED BY <2>3, <3>1, TimerLeftAlone
  <2>8. CASE PeekAndArm
    BY <2>2, <2>3, <2>8, PeekOnTime
  <2>9. CASE Select
    BY <2>3, <2>9, SelectOnTime
  <2>10. CASE TimerFires
    BY <2>3, <2>10, FiresOnTime
  <2>11. CASE Launch
    BY <2>3, <2>11, LaunchOnTime
  <2>12. CASE ClockTick
    BY <2>3, <2>12, ClockOnTime
  <2> QED BY <1>2, <2>4, <2>5, <2>6, <2>7, <2>8, <2>9, <2>10, <2>11, <2>12 DEF Next, QueueStep
<1> QED BY <1>1, <1>2

-----------------------------------------------------------------------------
(* The tick                                                                *)

Launched == ToSet(ready) \cup unack \cup acked

IsDue(e) == now >= ActiveTime[e]

DueLaunched == \E e \in Launched : IsDue(e)

\* A tick comes from a timer that was set for a duty: one that is still in the
\* heap, and then the duty peeked next is not early, or one launched before.
ArmedFor ==
  timer.at # Unarmed =>
    /\ \E e \in delayHeap \cup Launched : timer.at = ActiveTime[e]
    /\ heap.pc \in {"select", "parked"} /\ Aim # NoDuty => timer.at = ActiveTime[Aim]

TickedFor == timer.tick => \E e \in delayHeap \cup Launched : IsDue(e)

AimDue ==
  /\ heap.pc \in {"select", "parked"} /\ Aim # NoDuty /\ timer.tick => IsDue(Aim) \/ DueLaunched
  /\ heap.pc = "fired" => IsDue(Aim) \/ DueLaunched

ReadyDue ==
  \A i \in DOMAIN ready : IsDue(ready[i]) \/ \E e \in LaunchedBefore(i) : IsDue(e)

TickInv == ArmedFor /\ TickedFor /\ AimDue /\ ReadyDue

\* What a step may do to the places of a duty without disturbing TickInv.
LEMMA PlacesGrow ==
  ASSUME TypeOK, TickInv, timer' = timer, heap' = heap \/ heap'.pc = "peek",
         now' \in Nat, now' >= now,
         delayHeap \cup Launched \subseteq delayHeap' \cup Launched', Launched \subseteq Launched'
  PROVE  ArmedFor' /\ TickedFor' /\ AimDue'
<1>1. \A e \in Duty : IsDue(e) => IsDue(e)'
  BY DutyAssumption DEF IsDue, TypeOK, DutyAssumption
<1>2. delayHeap \cup Launched \subseteq Duty
  <2>1. DOMAIN ready = 1 .. Len(ready) /\ \A i \in 1 .. Len(ready) : ready[i] \in Duty
    BY ElementOfSeq, LenProperties DEF TypeOK
  <2> QED BY <2>1 DEF TypeOK, Launched, ToSet
<1>3. ArmedFor'
  BY DEF TickInv, ArmedFor, Aim
<1>4. TickedFor'
  BY <1>1, <1>2 DEF TickInv, TickedFor
<1>5. DueLaunched => DueLaunched'
  BY <1>1, <1>2 DEF DueLaunched
<1>6. /\ heap.pc \in {"select", "parked"} /\ Aim # NoDuty => Aim \in Duty
      /\ heap.pc = "fired" => Aim \in Duty
  BY DEF TypeOK, Aim
<1>7. AimDue'
  <2>1. CASE heap' = heap
    <3>1. Aim' = Aim /\ (Aim \in Duty /\ IsDue(Aim) => IsDue(Aim)')
      BY <1>1, <2>1 DEF Aim, IsDue
    <3> QED BY <1>5, <1>6, <2>1, <3>1 DEF TickInv, AimDue
  <2>2. CASE heap'.pc = "peek"
    BY <2>2 DEF AimDue
  <2> QED BY <2>1, <2>2
<1> QED BY <1>3, <1>4, <1>7

\* The ready list and what has left it are as they were, or there is more of it.
LEMMA ReadyStays ==
  ASSUME TypeOK, ReadyDue, ready' = ready, now' \in Nat, now' >= now,
         unack \cup acked \subseteq unack' \cup acked'
  PROVE  ReadyDue'
<1>1. \A i \in DOMAIN ready : ready[i] \in Duty
  BY ElementOfSeq, LenProperties DEF TypeOK
<1>2. \A e \in Duty : IsDue(e) => IsDue(e)'
  BY DutyAssumption DEF IsDue, TypeOK, DutyAssumption
<1> SUFFICES ASSUME NEW i \in DOMAIN ready
             PROVE  IsDue(ready[i])' \/ \E e \in LaunchedBefore(i)' : IsDue(e)'
  BY DEF ReadyDue
<1>3. CASE IsDue(ready[i])
  BY <1>1, <1>2, <1>3 DEF IsDue
<1>4. ASSUME NEW e \in LaunchedBefore(i), IsDue(e)
      PROVE  e \in LaunchedBefore(i)' /\ IsDue(e)'
  <2>1. DOMAIN ready = 1 .. Len(ready) /\ Len(ready) \in Nat
    BY LenProperties DEF TypeOK
  <2>2. e \in Duty
    BY <1>1, <2>1 DEF LaunchedBefore, TypeOK
  <2> QED BY <1>2, <1>4, <2>2 DEF LaunchedBefore
<1> QED BY <1>3, <1>4 DEF ReadyDue

LEMMA PeekTick ==
  ASSUME Inv, TickInv, PeekAndArm
  PROVE  TickInv'
<1>1. /\ now' = now /\ ready' = ready /\ delayHeap' = delayHeap /\ unack' = unack /\ acked' = acked
      /\ now \in Nat /\ now \in Int
  BY DEF PeekAndArm, queue, history, Inv, TypeOK
<1>2. Launched' = Launched /\ \A e : IsDue(e)' <=> IsDue(e)
  BY <1>1 DEF Launched, IsDue
<1>3. ReadyDue'
  BY <1>1, ReadyStays DEF TickInv, Inv
<1>4. CASE heap' = [pc |-> "select", duty |-> NoDuty] /\ timer' = timer
  BY <1>1, <1>2, <1>3, <1>4 DEF TickInv, ArmedFor, TickedFor, AimDue, Aim
<1>5. ASSUME NEW d \in delayHeap, Earliest(d), heap' = [pc |-> "select", duty |-> d],
             timer' = [at |-> ActiveTime[d], tick |-> TickAfterReset]
      PROVE  TickInv'
  <2>1. heap'.pc = "select" /\ heap'.duty = d /\ timer'.at = ActiveTime[d]
    BY <1>5
  <2>2. timer'.tick => timer.tick
    <3>1. timer'.tick <=> TickAfterReset
      BY <1>5, Zenon
    <3> QED BY <3>1, Zenon DEF TickAfterReset
  <2>3. ArmedFor'
    BY <1>1, <2>1 DEF ArmedFor, Aim
  <2>4. TickedFor'
    BY <1>1, <1>2, <2>2 DEF TickInv, TickedFor
  <2>5. timer.tick => IsDue(d) \/ DueLaunched
    <3>1. \A e \in delayHeap : IsDue(e) => IsDue(d)
      BY <1>1, <1>5, DutyAssumption DEF Earliest, IsDue, Inv, TypeOK, DutyAssumption
    <3> QED BY <3>1 DEF TickInv, TickedFor, DueLaunched
  <2>6. AimDue'
    BY <1>1, <1>2, <2>1, <2>2, <2>5 DEF AimDue, Aim, DueLaunched
  <2> QED BY <1>3, <2>3, <2>4, <2>6 DEF TickInv
<1> QED BY <1>4, <1>5 DEF PeekAndArm

LEMMA SelectTick ==
  ASSUME Inv, TickInv, Select
  PROVE  TickInv'
<1>1. /\ now' = now /\ ready' = ready /\ delayHeap' = delayHeap /\ unack' = unack /\ acked' = acked
      /\ now \in Nat /\ now \in Int /\ heap.pc = "select"
  BY DEF Select, queue, history, Inv, TypeOK
<1>2. Launched' = Launched /\ \A e : IsDue(e)' <=> IsDue(e)
  BY <1>1 DEF Launched, IsDue
<1>3. ReadyDue'
  BY <1>1, ReadyStays DEF TickInv, Inv
<1>4. CASE Listening /\ timer.tick
  <2>1. /\ heap'.pc = "fired" /\ Aim' = Aim /\ Aim # NoDuty
        /\ timer'.at = timer.at /\ ~timer'.tick
    BY <1>4 DEF Select, Inv, TypeOK, Aim, Listening
  <2> QED BY <1>1, <1>2, <1>3, <1>4, <2>1 DEF TickInv, ArmedFor, TickedFor, AimDue, DueLaunched
<1>5. CASE ~(Listening /\ timer.tick)
  <2>1. heap'.pc = "parked" /\ Aim' = Aim /\ timer' = timer
    BY <1>5 DEF Select, Inv, TypeOK, Aim
  <2> QED BY <1>1, <1>2, <1>3, <2>1 DEF TickInv, ArmedFor, TickedFor, AimDue, DueLaunched
<1> QED BY <1>4, <1>5

LEMMA FiresTick ==
  ASSUME Inv, TickInv, TimerFires
  PROVE  TickInv'
<1>1. /\ now' = now /\ ready' = ready /\ delayHeap' = delayHeap /\ unack' = unack /\ acked' = acked
      /\ now \in Nat /\ now \in Int /\ timer.at # Unarmed /\ now >= timer.at
  BY DEF TimerFires, queue, history, Inv, TypeOK
<1>2. Launched' = Launched /\ \A e : IsDue(e)' <=> IsDue(e)
  BY <1>1 DEF Launched, IsDue
<1>3. ReadyDue'
  BY <1>1, ReadyStays DEF TickInv, Inv
<1>4. \E e \in delayHeap \cup Launched : IsDue(e)
  BY <1>1 DEF TickInv, ArmedFor, IsDue
<1>5. heap.pc \in {"select", "parked"} /\ Aim # NoDuty => IsDue(Aim)
  BY <1>1 DEF TickInv, ArmedFor, IsDue
<1>6. CASE heap.pc = "parked" /\ Listening
  <2>1. /\ heap'.pc = "fired" /\ Aim' = Aim /\ Aim # NoDuty
        /\ timer'.at = Unarmed /\ timer'.tick = timer.tick
    BY <1>6 DEF TimerFires, Inv, TypeOK, Aim, Listening
  <2> QED BY <1>1, <1>2, <1>3, <1>4, <1>5, <1>6, <2>1
          DEF TickInv, ArmedFor, TickedFor, AimDue
<1>7. CASE ~(heap.pc = "parked" /\ Listening)
  <2>1. heap' = heap /\ timer'.at = Unarmed /\ timer'.tick
    BY <1>7 DEF TimerFires
  <2> QED BY <1>1, <1>2, <1>3, <1>4, <1>5, <2>1
          DEF TickInv, ArmedFor, TickedFor, AimDue, Aim, DueLaunched
<1> QED BY <1>6, <1>7

LEMMA LaunchTick ==
  ASSUME Inv, TickInv, Launch
  PROVE  TickInv'
<1>1. /\ heap.pc = "fired" /\ Aim \in Duty /\ ready \in Seq(Duty)
      /\ heap'.pc = "peek" /\ ready' = Append(ready, Aim) /\ now' = now /\ timer' = timer
      /\ delayHeap' = delayHeap \ {Aim} /\ unack' = unack /\ acked' = acked
      /\ now \in Nat /\ now \in Int
  BY DEF Launch, Inv, TypeOK, Aim, history
<1>2. ToSet(ready') = ToSet(ready) \cup {Aim}
  BY <1>1, AppendReady
<1>3. ArmedFor' /\ TickedFor' /\ AimDue'
  BY <1>1, <1>2, PlacesGrow DEF Inv, Launched
<1>4. /\ Len(ready) \in Nat /\ DOMAIN ready = 1 .. Len(ready)
      /\ DOMAIN ready' = 1 .. (Len(ready) + 1)
      /\ ready'[Len(ready) + 1] = Aim
      /\ \A i \in 1 .. Len(ready) : ready'[i] = ready[i]
  BY <1>1, LenProperties, AppendProperties
<1>5. \A e : IsDue(e)' <=> IsDue(e)
  BY <1>1 DEF IsDue
<1>6. ASSUME NEW i \in DOMAIN ready
      PROVE  IsDue(ready[i])' \/ \E e \in LaunchedBefore(i)' : IsDue(e)'
  <2>1. i \in Nat /\ ready'[i] = ready[i] /\ LaunchedBefore(i) \subseteq LaunchedBefore(i)'
    BY <1>1, <1>4 DEF LaunchedBefore
  <2>2. IsDue(ready[i]) \/ \E e \in LaunchedBefore(i) : IsDue(e)
    BY DEF TickInv, ReadyDue
  <2> QED BY <1>1, <1>5, <2>1, <2>2 DEF IsDue
<1>7. ASSUME NEW i \in Nat, i = Len(ready) + 1
      PROVE  IsDue(ready[i])' \/ \E e \in LaunchedBefore(i)' : IsDue(e)'
  <2>1. Launched \subseteq LaunchedBefore(i)' /\ ready'[i] = Aim
    BY <1>1, <1>4, <1>7 DEF Launched, LaunchedBefore, ToSet
  <2>2. IsDue(Aim) \/ \E e \in Launched : IsDue(e)
    BY <1>1 DEF TickInv, AimDue, DueLaunched
  <2> QED BY <1>1, <1>5, <2>1, <2>2 DEF IsDue
<1>8. ReadyDue'
  <2> SUFFICES ASSUME NEW i \in DOMAIN ready'
               PROVE  IsDue(ready[i])' \/ \E e \in LaunchedBefore(i)' : IsDue(e)'
    BY DEF ReadyDue
  <2>1. i \in Nat /\ (i \in DOMAIN ready \/ i = Len(ready) + 1)
    BY <1>4
  <2> QED BY <1>6, <1>7, <2>1
<1> QED BY <1>3, <1>8 DEF TickInv

LEMMA DequeueTick ==
  ASSUME Inv, TickInv, Dequeue
  PROVE  TickInv'
<1>1. now' = now /\ timer' = timer /\ heap' = heap /\ delayHeap' = delayHeap /\ acked' = acked
      /\ now \in Nat
  BY DEF Dequeue, history, Inv, TypeOK
<1>2. CASE ready = <<>>
  <2>1. ready' = ready /\ unack' = unack
    BY <1>2 DEF Dequeue
  <2>2. Launched' = Launched
    BY <1>1, <2>1 DEF Launched
  <2> QED BY <1>1, <2>1, <2>2, PlacesGrow, ReadyStays DEF TickInv, Inv
<1>3. CASE ready # <<>>
  <2>1. ready' = Tail(ready) /\ ready \in Seq(Duty) /\ Distinct(ready)
        /\ unack' = unack \cup {Head(ready)}
    BY <1>3 DEF Dequeue, Inv, Placed, TypeOK
  <2>2. ToSet(ready) = ToSet(ready') \cup {Head(ready)}
    BY <1>3, <2>1, TailReady
  <2>3. Launched' = Launched
    BY <1>1, <2>1, <2>2 DEF Launched
  <2>4. ArmedFor' /\ TickedFor' /\ AimDue'
    BY <1>1, <2>3, PlacesGrow DEF Inv
  <2>5. /\ Len(ready) \in Nat \ {0} /\ DOMAIN ready = 1 .. Len(ready)
        /\ DOMAIN ready' = 1 .. (Len(ready) - 1) /\ Head(ready) = ready[1]
        /\ \A i \in 1 .. (Len(ready) - 1) : ready'[i] = ready[i + 1]
    BY <1>3, <2>1, LenProperties, EmptySeq, HeadTailProperties
  <2>6. \A e : IsDue(e)' <=> IsDue(e)
    BY <1>1 DEF IsDue
  <2>7. ASSUME NEW i \in DOMAIN ready'
        PROVE  IsDue(ready[i])' \/ \E e \in LaunchedBefore(i)' : IsDue(e)'
    <3>1. i + 1 \in DOMAIN ready /\ ready'[i] = ready[i + 1]
      BY <2>5
    <3>2. \A j \in 1 .. (i + 1) - 1 : ready[j] = Head(ready) \/ \E k \in 1 .. i - 1 : ready[j] = ready'[k]
      <4> SUFFICES ASSUME NEW j \in 1 .. (i + 1) - 1, j # 1
                   PROVE  \E k \in 1 .. i - 1 : ready[j] = ready'[k]
        BY <2>5
      <4>1. j - 1 \in 1 .. i - 1 /\ j - 1 \in 1 .. (Len(ready) - 1) /\ (j - 1) + 1 = j
        BY <2>5
      <4>2. ready[j] = ready'[j - 1]
        BY <2>5, <4>1
      <4> QED BY <4>1, <4>2
    <3>3. LaunchedBefore(i + 1) \subseteq LaunchedBefore(i)'
      BY <1>1, <2>1, <3>2 DEF LaunchedBefore
    <3>4. IsDue(ready[i + 1]) \/ \E e \in LaunchedBefore(i + 1) : IsDue(e)
      BY <3>1 DEF TickInv, ReadyDue
    <3> QED BY <1>1, <2>6, <3>1, <3>3, <3>4 DEF IsDue
  <2> QED BY <2>4, <2>7 DEF TickInv, ReadyDue
<1> QED BY <1>2, <1>3

LEMMA TickInvStep == Inv /\ TickInv /\ [Next]_vars => TickInv'
<1> SUFFICES ASSUME Inv, TickInv, [Next]_vars PROVE TickInv'
  OBVIOUS
<1>1. TypeOK /\ now \in Nat /\ now >= now
  BY DEF Inv, TypeOK
<1>2. ASSUME NEW batch \in Batches, Enqueue(batch) PROVE TickInv'
  <2>1. /\ timer' = timer /\ now' = now /\ ready' = ready /\ unack' = unack /\ acked' = acked
        /\ delayHeap \subseteq delayHeap' /\ (heap' = heap \/ heap'.pc = "peek")
    BY <1>1, <1>2 DEF Enqueue, NotifyDelayHeap, TypeOK
  <2> QED BY <1>1, <2>1, PlacesGrow, ReadyStays DEF TickInv, Launched
<1>3. ASSUME NEW d \in Duty, Ack(d) PROVE TickInv'
  <2>1. /\ timer' = timer /\ now' = now /\ ready' = ready /\ d \in unack
        /\ unack' = unack \ {d} /\ acked' = acked \cup {d}
        /\ delayHeap \subseteq delayHeap' /\ (heap' = heap \/ heap'.pc = "peek")
    BY <1>1, <1>3 DEF Ack, Acknowledge, NotifyDelayHeap, TypeOK
  <2> QED BY <1>1, <2>1, PlacesGrow, ReadyStays DEF TickInv, Launched
<1>4. CASE DequeueWait \/ ClockTick \/ UNCHANGED vars
  <2>1. /\ timer' = timer /\ heap' = heap /\ ready' = ready /\ unack' = unack /\ acked' = acked
        /\ delayHeap' = delayHeap /\ now' \in Nat /\ now' >= now
    BY <1>1, <1>4 DEF DequeueWait, ClockTick, vars, queue, history
  <2> QED BY <1>1, <2>1, PlacesGrow, ReadyStays DEF TickInv, Launched
<1> QED BY <1>2, <1>3, <1>4, PeekTick, SelectTick, FiresTick, LaunchTick, DequeueTick
        DEF Next, QueueStep

\* No duty is ready before its active time, whatever is enqueued or
\* acknowledged while runDelayHeap waits, except after a Reset that left a tick
\* in the channel, and behind the duty, then due, that the tick was for
\* (duty_queue.go:217-246).
THEOREM EarlyNeedsStaleTick == WatchedSpec => []EarlyOnlyByStaleTick
<1>1. WatchedInit => TimerInv /\ TickInv /\ Init
  <2> SUFFICES ASSUME WatchedInit PROVE OnTime /\ TickInv /\ Init
    BY DEF TimerInv
  <2>1. Init
    BY DEF WatchedInit
  <2> QED BY <2>1 DEF Init, OnTime, NotEarly, Aim, ToSet, Unarmed, TickInv, ArmedFor,
                      TickedFor, AimDue, ReadyDue
<1>2. [Next /\ Watched]_watchedVars => [Next]_vars
  BY DEF watchedVars
<1>3. Inv /\ TimerInv /\ TickInv => EarlyOnlyByStaleTick
  <2> SUFFICES ASSUME Inv, TimerInv, TickInv, NEW i \in DOMAIN ready, now < ActiveTime[ready[i]]
               PROVE  staleTick /\ \E e \in LaunchedBefore(i) : now >= ActiveTime[e]
    BY DEF EarlyOnlyByStaleTick
  <2>1. ready[i] \in Duty /\ ready[i] \in ToSet(ready)
    BY ElementOfSeq, LenProperties DEF Inv, TypeOK, ToSet
  <2>2. ~(now >= ActiveTime[ready[i]])
    BY <2>1, DutyAssumption DEF Inv, TypeOK, DutyAssumption
  <2>3. staleTick
    BY <2>1, <2>2 DEF TimerInv, OnTime, NotEarly
  <2>4. \E e \in LaunchedBefore(i) : now >= ActiveTime[e]
    BY <2>2 DEF TickInv, ReadyDue, IsDue
  <2> QED BY <2>3, <2>4
<1>4. WatchedSpec => []Inv
  BY <1>1, <1>2, InvInit, InvStep, PTL DEF WatchedSpec
<1> QED BY <1>1, <1>2, <1>3, <1>4, TimerInvStep, TickInvStep, PTL DEF WatchedSpec
=============================================================================
