----------------------------- MODULE MCDutyQueue -----------------------------
(***************************************************************************)
(* The workload the duty queue is checked with.                            *)
(***************************************************************************)
EXTENDS DutyQueue

CONSTANTS prop, att, agg, sync, orphan, dropped

\* Two plans as Scheduler.Process builds them: a proposal, an attestation and
\* its aggregation; then a sync committee duty and an aggregation whose
\* attestation was dropped from the plan by cleanDuties.
PlanDuty == {prop, att, agg, sync, orphan, dropped}
PlanBlockedBy == [d \in PlanDuty |-> CASE d = agg -> {att}
                                     [] d = orphan -> {dropped}
                                     [] OTHER -> {}]
PlanActiveTime == [d \in PlanDuty |-> CASE d = prop -> 1
                                      [] d \in {att, sync, dropped} -> 2
                                      [] d \in {agg, orphan} -> 3]
PlanBatches == {<<prop, att, agg>>, <<sync, orphan>>}

\* The workload meets the hypotheses of the theorems about Ack and the gauges.
ASSUME PlanIsScheduled == SchedulerBatches /\ SingleBlocker

=============================================================================
