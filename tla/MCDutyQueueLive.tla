--------------------------- MODULE MCDutyQueueLive ---------------------------
(***************************************************************************)
(* The duty queue, observed by flags that tell whether a wake-up was       *)
(* missed, the condition under which every duty runs, and whether a tick   *)
(* outlived its timer, the condition under which one may run early.        *)
(***************************************************************************)
EXTENDS MCDutyQueue

VARIABLES
  heapMissed,    \* an update was sent in the window before runDelayHeap's select
  workerMissed,  \* a duty became ready in the window before Dequeue's select
  staleTick      \* delayTimer was Reset with a tick in its channel

\* The steps that send on delayUpdateCh.
SendsUpdate == \/ \E batch \in Batches : Enqueue(batch)
               \/ \E d \in Duty : Ack(d) /\ Unblocked(d) # {}

\* A send in the window is missed until the receiver looks at the queue again.
Watched ==
  /\ heapMissed' = IF heap.pc = "select" /\ SendsUpdate THEN TRUE
                   ELSE IF PeekAndArm THEN FALSE ELSE heapMissed
  /\ workerMissed' = IF worker = "select" /\ Launch THEN TRUE
                     ELSE IF Dequeue THEN FALSE ELSE workerMissed
  /\ staleTick' = (staleTick \/ (timer.tick /\ PeekAndArm /\ heap'.duty # NoDuty /\ timer'.tick))

watchedVars == <<vars, heapMissed, workerMissed, staleTick>>

WatchedInit == Init /\ heapMissed = FALSE /\ workerMissed = FALSE /\ staleTick = FALSE

WatchedSpec ==
  /\ WatchedInit
  /\ [][Next /\ Watched]_watchedVars
  /\ Fairness

\* What has left the delay heap before the i-th duty in ready.
LaunchedBefore(i) == unack \cup acked \cup {ready[j] : j \in 1 .. i - 1}

\* "active_time is the time when this duty is meant to be executed": no duty is
\* ready before that, although the one runDelayHeap has peeked need not be the
\* earliest any more when the timer fires, unless a tick that was not received
\* has survived a Reset; and then a duty whose time has come, for which the timer
\* fired, was launched before it.  Due of ValidatorServer rests on this.
EarlyOnlyByStaleTick ==
  \A i \in DOMAIN ready : now < ActiveTime[ready[i]] =>
    staleTick /\ \E e \in LaunchedBefore(i) : now >= ActiveTime[e]

\* Every duty that is enqueued together with its blockers is acknowledged in
\* the end, except after a wake-up sent in the window between Unlock and select
\* of Dequeue (duty_queue.go:136-138) or between nextDelayedEval and select of
\* runDelayHeap (220-234) that no later one makes up for: nothing else in
\* Enqueue, Ack, the timer or the two loops can stall a duty.
RunsUnlessWakeupMissed ==
  <>[](~heapMissed /\ ~workerMissed) =>
     \A d \in Duty :
        (d \in enqueued /\ BlockedBy[d] \subseteq enqueued) ~> d \in acked
=============================================================================
