------------------------------ MODULE DutyQueue ------------------------------
(***************************************************************************)
(* The queue of duties of the validator (internal/server/duty_queue.go).   *)
(*                                                                         *)
(* Four kinds of goroutines meet here:                                     *)
(*   - the epoch handlers, which call Enqueue with the duties of a plan;   *)
(*   - runDelayHeap, which moves a duty from the delay heap to ready when  *)
(*     its timer fires;                                                    *)
(*   - the duty worker, which loops over Dequeue and starts a handler for  *)
(*     each duty it receives;                                              *)
(*   - the handlers, one per dequeued duty, which end by calling Ack.      *)
(* A critical section of the lock p.l is one step.  The steps between two  *)
(* critical sections (the select statements) are steps of their own,       *)
(* because the notifications of the queue are non-blocking sends on        *)
(* unbuffered channels: a send is received only if the other goroutine is  *)
(* parked in its select at that very moment, and is dropped otherwise.     *)
(*                                                                         *)
(* closeCh is never closed by the program and EmitStats only reads, so     *)
(* neither appears.                                                        *)
(***************************************************************************)
EXTENDS Integers, Sequences, FiniteSets, SequencesExt

CONSTANTS
  Duty,         \* identifiers of the duties (uuids, never used twice)
  NoDuty,       \* the nil duty nextDelayedEval returns for an empty heap
  BlockedBy,    \* BlockedBy[d]: the duties d is blocked by
  ActiveTime,   \* ActiveTime[d]: the time at which d is to be executed
  Batches,      \* the plans the epoch handlers enqueue, sequences of duties
  AsyncTimer,   \* TRUE: a tick that nobody received survives Timer.Reset
                \* (every program whose go.mod says go 1.22 or less)
  MaxTime       \* bound on the clock

ASSUME DutyAssumption ==
  /\ IsFiniteSet(Duty)
  /\ NoDuty \notin Duty
  /\ BlockedBy \in [Duty -> SUBSET Duty]
  /\ ActiveTime \in [Duty -> Nat]
  /\ Batches \subseteq Seq(Duty)
  /\ AsyncTimer \in BOOLEAN
  /\ MaxTime \in Nat

VARIABLES
  delayHeap,          \* the duties waiting in the heap for their active time
  blocked,            \* blocked[d]: what d still waits for, {} if no entry
  reverseBlockedMap,  \* reverseBlockedMap[d]: the duties to unblock after d
  ready,              \* the queue of duties ready to be processed
  unack,              \* the duties handed to a handler and not acknowledged
  ctxMap,             \* the duties that have a trace context
  stats,              \* the gauges of EvalStats
  heap,               \* runDelayHeap: its control point and the peeked duty
  timer,              \* delayTimer: its deadline and the tick in its channel
  worker,             \* the control point of the goroutine inside Dequeue
  now,                \* the clock
  enqueued, acked     \* history: the duties enqueued and acknowledged so far

queue == <<delayHeap, blocked, reverseBlockedMap, ready, unack, ctxMap, stats>>
history == <<enqueued, acked>>
vars == <<queue, heap, timer, worker, now, history>>

Unarmed == -1

TypeOK ==
  /\ delayHeap \in SUBSET Duty
  /\ blocked \in [Duty -> SUBSET Duty]
  /\ reverseBlockedMap \in [Duty -> SUBSET Duty]
  /\ ready \in Seq(Duty)
  /\ unack \in SUBSET Duty
  /\ ctxMap \in SUBSET Duty
  /\ stats \in [ready : Int, unacked : Int, blocked : Int, waiting : Int]
  /\ heap \in [pc : {"peek", "select", "parked", "fired"}, duty : Duty \cup {NoDuty}]
  /\ heap.pc = "fired" => heap.duty \in Duty
  /\ timer \in [at : Nat \cup {Unarmed}, tick : BOOLEAN]
  /\ worker \in {"start", "select", "parked", "panicked"}
  /\ now \in Nat
  /\ enqueued \in SUBSET Duty
  /\ acked \in SUBSET Duty

\* NewEvalQueue, with runDelayHeap and the duty worker just started.
Init ==
  /\ delayHeap = {}
  /\ blocked = [d \in Duty |-> {}]
  /\ reverseBlockedMap = [d \in Duty |-> {}]
  /\ ready = <<>>
  /\ unack = {}
  /\ ctxMap = {}
  /\ stats = [ready |-> 0, unacked |-> 0, blocked |-> 0, waiting |-> 0]
  /\ heap = [pc |-> "peek", duty |-> NoDuty]
  /\ timer = [at |-> Unarmed, tick |-> FALSE]
  /\ worker = "start"
  /\ now = 0
  /\ enqueued = {}
  /\ acked = {}

-----------------------------------------------------------------------------
(* Notifications: a send that nobody is parked to receive is dropped.      *)

\* select { case p.delayUpdateCh <- struct{}{}: default: }
NotifyDelayHeap ==
  heap' = IF heap.pc = "parked" THEN [heap EXCEPT !.pc = "peek"] ELSE heap

\* Mutant of NotifyWorker: enqueueLocked does not send on updateCh.
NotifyNobody == UNCHANGED worker

\* select { case p.updateCh <- struct{}{}: default: }
NotifyWorker ==
  worker' = IF worker = "parked" THEN "start" ELSE worker

\* The gauges change by the given amounts.
Count(inReady, inUnacked, inBlocked, inWaiting) ==
  stats' = [ready   |-> stats.ready + inReady,
            unacked |-> stats.unacked + inUnacked,
            blocked |-> stats.blocked + inBlocked,
            waiting |-> stats.waiting + inWaiting]

-----------------------------------------------------------------------------
(* Enqueue                                                                 *)

Dependents(batch, d) == {i \in DOMAIN batch : d \in BlockedBy[batch[i]]}

\* Mutants of ReverseAfter: nothing is appended, and every duty of the plan is.
ReverseUnchanged(batch, d) == reverseBlockedMap[d]
ReverseWholePlan(batch, d) ==
  IF Dependents(batch, d) = {} THEN reverseBlockedMap[d] ELSE ToSet(batch)

\* The list reverseBlockedMap[d] after the loop over a batch.  The loop makes
\* the list empty when it already exists and then appends, so only the last
\* dependent of d is left in it.
ReverseAfter(batch, d) ==
  IF Dependents(batch, d) = {}
  THEN reverseBlockedMap[d]
  ELSE {batch[last] : last \in {i \in Dependents(batch, d) :
                           \A j \in Dependents(batch, d) : j <= i}}

\* Mutant of Free: the duties that are blocked are pushed to the heap as well.
FreeAndBlocked(batch) == ToSet(batch)

Free(batch) == {d \in ToSet(batch) : BlockedBy[d] = {}}

\* Mutant of Edges: TotalBlocked does not grow.
NoEdges(batch) == {}

\* TotalBlocked grows by the length of every BlockedBy list.
Edges(batch) == {p \in (DOMAIN batch) \X Duty : p[2] \in BlockedBy[batch[p[1]]]}

Enqueue(batch) ==
  /\ batch # <<>>
  /\ ToSet(batch) \cap enqueued = {}
  /\ blocked' = [d \in Duty |-> IF d \in ToSet(batch) THEN BlockedBy[d] ELSE blocked[d]]
  /\ reverseBlockedMap' = [d \in Duty |-> ReverseAfter(batch, d)]
  /\ delayHeap' = delayHeap \cup Free(batch)
  /\ Count(0, 0, Cardinality(Edges(batch)), Cardinality(Free(batch)))
  /\ ctxMap' = ctxMap \cup ToSet(batch)
  /\ enqueued' = enqueued \cup ToSet(batch)
  /\ NotifyDelayHeap
  /\ UNCHANGED <<ready, unack, timer, worker, now, acked>>

-----------------------------------------------------------------------------
(* Dequeue, called in a loop by the single duty worker                     *)

\* The critical section: take the first ready duty, or find there is none.  A
\* duty without a trace context is an error, and the worker panics on it.
Dequeue ==
  /\ worker = "start"
  /\ IF ready = <<>>
     THEN /\ worker' = "select"
          /\ UNCHANGED <<ready, unack, stats>>
     ELSE /\ ready' = Tail(ready)
          /\ unack' = unack \cup {Head(ready)}
          /\ IF Head(ready) \in ctxMap
             THEN /\ Count(-1, 1, 0, 0)
                  /\ UNCHANGED worker
             ELSE /\ worker' = "panicked"
                  /\ UNCHANGED stats
  /\ UNCHANGED <<delayHeap, blocked, reverseBlockedMap, ctxMap, heap, timer, now, history>>

\* The select on updateCh, entered after the lock is released.
DequeueWait ==
  /\ worker = "select"
  /\ worker' = "parked"
  /\ UNCHANGED <<queue, heap, timer, now, history>>

-----------------------------------------------------------------------------
(* Ack                                                                     *)

\* The loop over reverseBlockedMap[d] returns an error at a duty that has no
\* entry or does not wait for d.  By then d has left unack and ctxMap; the list
\* never has two elements, so an error means that nothing was unblocked.
AckFails(d) == \E e \in reverseBlockedMap[d] : d \notin blocked[e]

Waiting(d) == IF AckFails(d) THEN {} ELSE reverseBlockedMap[d]

Unblocked(d) == {e \in Waiting(d) : blocked[e] = {d}}

Acknowledge(d) ==
  /\ unack' = unack \ {d}
  /\ ctxMap' = ctxMap \ {d}
  /\ acked' = acked \cup {d}
  /\ blocked' = [e \in Duty |-> IF e \in Waiting(d) THEN blocked[e] \ {d} ELSE blocked[e]]
  /\ delayHeap' = delayHeap \cup Unblocked(d)
  /\ Count(0, -1, -Cardinality(Unblocked(d)), Cardinality(Unblocked(d)))
  /\ IF Unblocked(d) = {} THEN UNCHANGED heap ELSE NotifyDelayHeap
  /\ UNCHANGED <<reverseBlockedMap, ready, timer, worker, now, enqueued>>

\* Only a duty that was handed out is acknowledged.  (Acknowledge alone is the
\* mutant of Ack that forgets this check.)
Ack(d) == d \in unack /\ Acknowledge(d)

-----------------------------------------------------------------------------
(* runDelayHeap                                                            *)

\* The heap yields a duty that no other duty precedes (ties in any order).
Earliest(d) == /\ d \in delayHeap
               /\ \A e \in delayHeap : ActiveTime[d] <= ActiveTime[e]

TickAfterReset == AsyncTimer /\ timer.tick

\* Mutant of PeekAndArm: the timer follows the heap, the duty to launch does not.
PeekAndArmStale ==
  /\ heap.pc = "peek"
  /\ \/ /\ delayHeap = {}
        /\ heap' = [pc |-> "select", duty |-> NoDuty]
        /\ UNCHANGED timer
     \/ \E d \in delayHeap :
        /\ Earliest(d)
        /\ heap' = [pc |-> "select", duty |-> IF heap.duty \in delayHeap THEN heap.duty ELSE d]
        /\ timer' = [at |-> ActiveTime[d], tick |-> TickAfterReset]
  /\ UNCHANGED <<queue, worker, now, history>>

\* nextDelayedEval, then NewTimer or Reset.  With an empty heap timerChannel
\* becomes nil and delayTimer is left as it is.
PeekAndArm ==
  /\ heap.pc = "peek"
  /\ \/ /\ delayHeap = {}
        /\ heap' = [pc |-> "select", duty |-> NoDuty]
        /\ UNCHANGED timer
     \/ \E d \in delayHeap :
        /\ Earliest(d)
        /\ heap' = [pc |-> "select", duty |-> d]
        /\ timer' = [at |-> ActiveTime[d], tick |-> TickAfterReset]
  /\ UNCHANGED <<queue, worker, now, history>>

\* Mutant of Listening: timerChannel is not set to nil for an empty heap.
AlwaysListening == TRUE

\* timerChannel is not nil.
Listening == heap.duty # NoDuty

\* The select: a tick that is already in the channel is received at once,
\* otherwise the goroutine parks on timerChannel (unless nil) and delayUpdateCh.
Select ==
  /\ heap.pc = "select"
  /\ IF Listening /\ timer.tick
     THEN /\ heap' = [heap EXCEPT !.pc = "fired"]
          /\ timer' = [timer EXCEPT !.tick = FALSE]
     ELSE /\ heap' = [heap EXCEPT !.pc = "parked"]
          /\ UNCHANGED timer
  /\ UNCHANGED <<queue, worker, now, history>>

\* The runtime fires the timer: the goroutine parked on its channel receives
\* the tick, otherwise the tick stays in the channel, which has room for one.
TimerFires ==
  /\ timer.at # Unarmed
  /\ now >= timer.at
  /\ IF heap.pc = "parked" /\ Listening
     THEN /\ heap' = [heap EXCEPT !.pc = "fired"]
          /\ timer' = [timer EXCEPT !.at = Unarmed]
     ELSE /\ timer' = [at |-> Unarmed, tick |-> TRUE]
          /\ UNCHANGED heap
  /\ UNCHANGED <<queue, worker, now, history>>

\* Mutant of Launch: removes the first duty of the heap, not the peeked one.
LaunchPops ==
  /\ heap.pc = "fired"
  /\ \E d \in delayHeap : Earliest(d) /\ delayHeap' = delayHeap \ {d}
  /\ ready' = Append(ready, heap.duty)
  /\ Count(1, 0, 0, -1)
  /\ NotifyWorker
  /\ heap' = [heap EXCEPT !.pc = "peek"]
  /\ UNCHANGED <<blocked, reverseBlockedMap, unack, ctxMap, timer, now, history>>

\* The critical section of case <-timerChannel, with enqueueLocked: the duty
\* that was peeked before the timer was armed becomes ready.
Launch ==
  /\ heap.pc = "fired"
  /\ delayHeap' = delayHeap \ {heap.duty}
  /\ ready' = Append(ready, heap.duty)
  /\ Count(1, 0, 0, -1)
  /\ NotifyWorker
  /\ heap' = [heap EXCEPT !.pc = "peek"]
  /\ UNCHANGED <<blocked, reverseBlockedMap, unack, ctxMap, timer, now, history>>

-----------------------------------------------------------------------------

ClockTick ==
  /\ now < MaxTime
  /\ now' = now + 1
  /\ UNCHANGED <<queue, heap, timer, worker, history>>

QueueStep == Dequeue \/ DequeueWait \/ PeekAndArm \/ Select \/ TimerFires \/ Launch

Next ==
  \/ \E batch \in Batches : Enqueue(batch)
  \/ \E d \in Duty : Ack(d)
  \/ QueueStep
  \/ ClockTick

Spec == Init /\ [][Next]_vars

\* Goroutines are scheduled, timers fire, the clock runs (up to its bound), and
\* a handler ends: its calls to the beacon node return or end the process.
\* Nothing is assumed of the epoch handlers.
Fairness ==
  /\ WF_vars(Dequeue)
  /\ WF_vars(DequeueWait)
  /\ WF_vars(PeekAndArm)
  /\ WF_vars(Select)
  /\ WF_vars(TimerFires)
  /\ WF_vars(Launch)
  /\ WF_vars(ClockTick)
  /\ \A d \in Duty : WF_vars(Ack(d))

FairSpec == Spec /\ Fairness

-----------------------------------------------------------------------------
(* Properties                                                              *)

IsBlocked(d) == blocked[d] # {}

Distinct(s) == \A i, j \in DOMAIN s : s[i] = s[j] => i = j

\* The places a duty goes through.
Place == [blocked |-> {d \in Duty : IsBlocked(d)},
          heap    |-> delayHeap,
          ready   |-> ToSet(ready),
          unack   |-> unack,
          acked   |-> acked]

\* Every duty given to Enqueue is in exactly one place until and after it is
\* acknowledged, and at most once in ready: Enqueue, Ack, runDelayHeap and
\* Dequeue, which each move duties under the lock, neither lose a duty nor hand
\* it out twice.
OnePlace ==
  /\ enqueued = UNION {Place[p] : p \in DOMAIN Place}
  /\ \A p, q \in DOMAIN Place : p # q => Place[p] \cap Place[q] = {}
  /\ Distinct(ready)

\* A duty is never waiting for its time, ready, running or done before all the
\* duties it is blocked by have been acknowledged.
BlockersFirst ==
  \A d \in delayHeap \cup ToSet(ready) \cup unack \cup acked : BlockedBy[d] \subseteq acked

\* Dequeue never fails with "context not found" (duty_queue.go:123-127), on which
\* runWorker would panic: a duty keeps its context until it is acknowledged.
DequeueNeverFails == worker # "panicked"

\* No two duties are blocked by the same duty, and a duty is blocked only by
\* duties of its own plan (or by duties that are never enqueued): what
\* Scheduler.Process produces.
SchedulerBatches ==
  /\ \A batch \in Batches : \A i, j \in DOMAIN batch :
        /\ batch[i] = batch[j] => i = j
        /\ \A other \in Batches :
              other # batch => /\ ToSet(batch) \cap ToSet(other) = {}
                               /\ BlockedBy[batch[i]] \cap ToSet(other) = {}
  /\ \A d, e \in UNION {ToSet(batch) : batch \in Batches} :
        d # e => BlockedBy[d] \cap BlockedBy[e] = {}

\* A duty is blocked by at most one other: Scheduler.Process gives an aggregation
\* its attestation, and the other duties nothing.
SingleBlocker == \A d \in Duty : \A a, b \in BlockedBy[d] : a = b

\* "wait for other tasks to unlock", "unblock pending tasks": a duty in blocked
\* never waits for a duty that was acknowledged, because no later Ack would
\* release it.
NoStrandedDuty == \A d \in Duty : blocked[d] \cap acked = {}

\* Ack never takes one of its error returns (the handler drops the error, so
\* the duties still to be unblocked would stay blocked).
AckNeverFails == \A d \in unack : ~AckFails(d)

\* The gauges that EmitStats publishes count what they are named after.
StatsExact ==
  /\ stats.ready = Len(ready)
  /\ stats.unacked = Cardinality(unack)
  /\ stats.waiting = Cardinality(delayHeap)
  /\ stats.blocked = Cardinality({d \in Duty : IsBlocked(d)})

\* "active_time is the time when this duty is meant to be executed": no duty is
\* ready before its active time.
NotEarly == \A d \in ToSet(ready) : now >= ActiveTime[d]

\* "updateCh notifies whenever there are new ready duties": a ready duty does
\* not stay in ready for ever.
ReadyIsDequeued ==
  \A d \in Duty : d \in ToSet(ready) ~> d \notin ToSet(ready)

-----------------------------------------------------------------------------
(* The inductive invariant behind the safety properties.                   *)

\* OnePlace, place by place.
Placed ==
  /\ \A d \in Duty : IsBlocked(d) =>
        d \in enqueued \ (delayHeap \cup ToSet(ready) \cup unack \cup acked)
  /\ delayHeap \subseteq enqueued \ (ToSet(ready) \cup unack \cup acked)
  /\ ToSet(ready) \subseteq enqueued \ (unack \cup acked)
  /\ unack \subseteq enqueued \ acked
  /\ acked \subseteq enqueued
  /\ \A d \in enqueued :
        IsBlocked(d) \/ d \in delayHeap \cup ToSet(ready) \cup unack \cup acked
  /\ Distinct(ready)

\* The duty runDelayHeap has peeked stays in the heap until it is launched, so
\* Launch removes what it makes ready, although the lock was released between.
PeekedInHeap ==
  heap.pc # "peek" /\ heap.duty # NoDuty => heap.duty \in delayHeap

\* A duty no longer waits only for what has been acknowledged.
Released ==
  \A d \in Duty : /\ blocked[d] \subseteq BlockedBy[d]
                  /\ d \in enqueued => BlockedBy[d] \subseteq blocked[d] \cup acked

Inv == /\ TypeOK
       /\ Placed
       /\ PeekedInHeap
       /\ Released
       /\ ctxMap = enqueued \ acked
       /\ DequeueNeverFails

\* What the reverse index holds for the plans of the scheduler: the one duty
\* that waits for d, which waits for it until d is acknowledged.
Indexed ==
  \A d, e \in Duty :
     /\ e \in reverseBlockedMap[d] <=> e \in enqueued /\ d \in BlockedBy[e]
     /\ e \in enqueued /\ d \in BlockedBy[e] => (d \in blocked[e] <=> d \notin acked)

\* Only planned duties are enqueued, and a plan as a whole.
Planned ==
  \A d \in enqueued : \E batch \in Batches :
     d \in ToSet(batch) /\ ToSet(batch) \subseteq enqueued

IndexInv == Indexed /\ Planned

-----------------------------------------------------------------------------
(* The queue implements DutyFlow.                                          *)

PhaseOf(d) ==
  IF d \in acked THEN "done"
  ELSE IF d \in unack THEN "running"
  ELSE IF d \in enqueued THEN "pending" ELSE "new"

Flow == INSTANCE DutyFlow WITH phase <- [d \in Duty |-> PhaseOf(d)]

\* Every step of the queue is a step of DutyFlow or changes nothing in it: a
\* duty starts at most once, after its blockers, and is finished once.
ImplementsDutyFlow == Flow!Spec
=============================================================================
