--------------------------- MODULE SchedulerProofs ---------------------------
(***************************************************************************)
(* Proofs about the plans of the scheduler, for every assignment of the    *)
(* beacon node, every number of epochs and every interleaving.             *)
(***************************************************************************)
EXTENDS Scheduler, TLAPS

LEMMA QuotientNat ==
  ASSUME NEW a \in Nat, NEW b \in Nat \ {0}
  PROVE  a \div b \in Nat
OBVIOUS

\* An epoch's slots end before the slots of a later epoch begin.
LEMMA EpochsApart ==
  ASSUME NEW e \in Nat, NEW f \in Nat, e < f
  PROVE  (e + 1) * SlotsPerEpoch <= f * SlotsPerEpoch
<1> DEFINE S == SlotsPerEpoch
<1>1. S \in Nat
  BY SchedulerAssumption
<1>2. PICK k \in Nat : f = (e + 1) + k
  <2>1. f - (e + 1) \in Nat /\ f = (e + 1) + (f - (e + 1))
    OBVIOUS
  <2> QED BY <2>1
<1>3. f * S = (e + 1) * S + k * S
  BY <1>1, <1>2
<1>4. k * S >= 0
  BY <1>1
<1> QED BY <1>1, <1>3, <1>4

\* A slot is in one epoch.
LEMMA OneEpochPerSlot ==
  ASSUME NEW e \in Nat, NEW f \in Nat, NEW slot \in Int, SlotOf(slot, e), SlotOf(slot, f)
  PROVE  e = f
<1> DEFINE S == SlotsPerEpoch
<1>1. S \in Nat /\ e * S \in Int /\ f * S \in Int /\ (e + 1) * S \in Int /\ (f + 1) * S \in Int
  BY SchedulerAssumption
<1>2. e * S <= slot /\ slot < (e + 1) * S /\ f * S <= slot /\ slot < (f + 1) * S
  BY DEF SlotOf
<1>3. CASE e < f
  BY <1>1, <1>2, <1>3, EpochsApart
<1>4. CASE f < e
  BY <1>1, <1>2, <1>4, EpochsApart
<1> QED BY <1>3, <1>4

\* The loop over the slots of an epoch stays in the epoch.
LEMMA SlotsInside ==
  ASSUME NEW e \in Nat, NEW i \in 0 .. SlotsPerEpoch - 1
  PROVE  e * SlotsPerEpoch + i \in Nat /\ SlotOf(e * SlotsPerEpoch + i, e)
<1> DEFINE S == SlotsPerEpoch
<1>1. S \in Nat /\ i \in Nat /\ i < S /\ e * S \in Nat
  BY SchedulerAssumption
<1>2. (e + 1) * S = e * S + S
  BY <1>1
<1> QED BY <1>1, <1>2 DEF SlotOf

-----------------------------------------------------------------------------
(* What Process puts into a plan                                           *)

\* A duty of epoch e for one of the given validators.
ShapedFor(d, e, vals) ==
  /\ d \in DutyType
  /\ d.validator \in vals
  /\ SlotOf(d.slot, e)

LEMMA ProposalsShaped ==
  ASSUME NEW e \in Epoch, NEW vals \in SUBSET Validator, NEW d \in Proposals(e, vals)
  PROVE  ShapedFor(d, e, vals)
<1>1. PICK p \in ProposerDuties(e, vals) : d = NewDuty("blockProposal", p.validator, p.slot, 0)
  BY DEF Proposals
<1>2. /\ p.validator \in vals
      /\ \E i \in 0 .. SlotsPerEpoch - 1 : p.slot = e * SlotsPerEpoch + i
  BY DEF ProposerDuties, Of, InEpoch
<1>3. p.slot \in Nat /\ SlotOf(p.slot, e)
  BY <1>2, SlotsInside DEF Epoch
<1> QED BY <1>1, <1>2, <1>3 DEF ShapedFor, DutyType, NewDuty, Kind

LEMMA AttestationsShaped ==
  ASSUME NEW e \in Epoch, NEW vals \in SUBSET Validator, NEW d \in Attestations(e, vals)
  PROVE  ShapedFor(d, e, vals)
<1>1. PICK a \in Of(InEpoch(Attesters, e), vals) :
         d = NewDuty("attestation", a.validator, a.slot, 0)
  BY DEF Attestations
<1>2. /\ a.validator \in vals
      /\ \E i \in 0 .. SlotsPerEpoch - 1 : a.slot = e * SlotsPerEpoch + i
  BY DEF Of, InEpoch
<1>3. a.slot \in Nat /\ SlotOf(a.slot, e)
  BY <1>2, SlotsInside DEF Epoch
<1> QED BY <1>1, <1>2, <1>3 DEF ShapedFor, DutyType, NewDuty, Kind

LEMMA AggregatesShaped ==
  ASSUME NEW e \in Epoch, NEW vals \in SUBSET Validator, NEW d \in AttestationAggregates(e, vals)
  PROVE  ShapedFor(d, e, vals)
<1>1. PICK a \in Attestations(e, vals) :
         d = NewDuty("attestationAggregate", a.validator, a.slot, 0)
  BY DEF AttestationAggregates
<1>2. ShapedFor(a, e, vals)
  BY AttestationsShaped
<1> QED BY <1>1, <1>2 DEF ShapedFor, DutyType, NewDuty, Kind

LEMMA SyncMessagesShaped ==
  ASSUME NEW e \in Epoch, NEW vals \in SUBSET Validator, NEW d \in SyncMessages(e, vals)
  PROVE  ShapedFor(d, e, vals)
<1>1. PICK c \in CommitteeOf(e, vals), slot \in Slots(e) :
         d = NewDuty("syncCommittee", c.validator, slot, 0)
  BY DEF SyncMessages
<1>2. c.validator \in vals /\ slot \in Nat /\ SlotOf(slot, e)
  BY SlotsInside DEF CommitteeOf, Of, Slots, Epoch
<1> QED BY <1>1, <1>2 DEF ShapedFor, DutyType, NewDuty, Kind

LEMMA SubCommitteesNat ==
  ASSUME NEW c \in Committees
  PROVE  SubCommittees(c) \subseteq Nat
<1> SUFFICES ASSUME NEW i \in c.indices
             PROVE  i \div (SyncCommitteeSize \div 4) \in Nat
  BY DEF SubCommittees
<1>1. i \in Nat
  BY SchedulerAssumption
<1>2. SyncCommitteeSize \div 4 \in Nat \ {0}
  BY SchedulerAssumption
<1> QED BY <1>1, <1>2, QuotientNat

LEMMA SyncAggregatesShaped ==
  ASSUME NEW e \in Epoch, NEW vals \in SUBSET Validator, NEW d \in SyncAggregates(e, vals)
  PROVE  ShapedFor(d, e, vals)
<1>1. PICK c \in CommitteeOf(e, vals), slot \in Slots(e) :
         \E sub \in SubCommittees(c) :
            d = NewDuty("syncCommitteeAggregate", c.validator, slot, sub)
  BY DEF SyncAggregates
<1>2. c \in Committees /\ c.validator \in vals /\ slot \in Nat /\ SlotOf(slot, e)
  BY SlotsInside DEF CommitteeOf, Of, Slots, Epoch
<1>3. PICK sub \in Nat : d = NewDuty("syncCommitteeAggregate", c.validator, slot, sub)
  BY <1>1, <1>2, SubCommitteesNat
<1> QED BY <1>2, <1>3 DEF ShapedFor, DutyType, NewDuty, Kind

LEMMA DutiesShaped ==
  ASSUME NEW e \in Epoch, NEW vals \in SUBSET Validator, NEW d \in Duties(e, vals)
  PROVE  ShapedFor(d, e, vals)
BY ProposalsShaped, AttestationsShaped, AggregatesShaped,
   SyncMessagesShaped, SyncAggregatesShaped DEF Duties

\* More validators have more duties.
LEMMA DutiesMonotonic ==
  ASSUME NEW e, NEW vals, NEW more, vals \subseteq more
  PROVE  Duties(e, vals) \subseteq Duties(e, more)
<1>1. \A assigned : Of(assigned, vals) \subseteq Of(assigned, more)
  BY DEF Of
<1>2. Proposals(e, vals) \subseteq Proposals(e, more)
  BY <1>1 DEF Proposals, ProposerDuties
<1>3. Attestations(e, vals) \subseteq Attestations(e, more)
  BY <1>1 DEF Attestations
<1>4. AttestationAggregates(e, vals) \subseteq AttestationAggregates(e, more)
  BY <1>3 DEF AttestationAggregates
<1>5. CommitteeOf(e, vals) \subseteq CommitteeOf(e, more)
  BY <1>1 DEF CommitteeOf
<1>6. SyncMessages(e, vals) \subseteq SyncMessages(e, more)
  BY <1>5 DEF SyncMessages
<1>7. SyncAggregates(e, vals) \subseteq SyncAggregates(e, more)
  BY <1>5 DEF SyncAggregates
<1> QED BY <1>2, <1>3, <1>4, <1>6, <1>7 DEF Duties

LEMMA DutiesWellFormed ==
  ASSUME NEW e \in Epoch, NEW vals \in SUBSET Validator,
         \A v \in vals : ActivationEpoch[v] <= e, NEW d \in Duties(e, vals)
  PROVE  WellFormed(d, e)
BY DutiesShaped DEF ShapedFor, WellFormed

-----------------------------------------------------------------------------
(* The invariant, one lemma per action                                     *)

LEMMA InitPlanInv == Init => PlanInv
<1> SUFFICES ASSUME Init PROVE PlanInv
  OBVIOUS
<1>1. now \in Int
  BY SchedulerAssumption DEF Init
<1>2. plan \in [Epoch -> [duties : SUBSET DutyType,
                         fork : {"none", "phase0", "altair", "bellatrix"}, at : Int]]
  BY DEF Init, NoPlan
<1>3. TypeOK
  BY <1>1, <1>2 DEF Init, TypeOK, Idle
<1> QED BY <1>3 DEF Init, PlanInv, Idle, NoPlan

LEMMA WatchGenesisPlanInv == PlanInv /\ WatchGenesis => PlanInv'
<1> SUFFICES ASSUME PlanInv, WatchGenesis PROVE PlanInv'
  OBVIOUS
<1>1. EpochStart(1) \in Nat \ {0}
  BY SchedulerAssumption DEF EpochStart, AtSlot
<1>2. now \in Nat
  BY DEF PlanInv, TypeOK, WatchGenesis
<1>3. now \div EpochStart(1) \in Nat
  BY <1>1, <1>2, QuotientNat
<1>4. TypeOK'
  BY <1>3 DEF PlanInv, TypeOK, WatchGenesis
<1>5. \A e \in Epoch : handler[e].pc = "idle"
  BY DEF PlanInv, WatchGenesis, NoEpoch, Epoch
<1> QED BY <1>4, <1>5 DEF PlanInv, WatchGenesis, WellFormed

LEMMA WatchEpochPlanInv == PlanInv /\ WatchEpoch => PlanInv'
<1> SUFFICES ASSUME PlanInv, WatchEpoch PROVE PlanInv'
  OBVIOUS
<1>1. next \in Epoch /\ next' = next + 1 /\ next' > next
  BY DEF WatchEpoch, Following, Epoch
<1>2. TypeOK'
  BY <1>1 DEF PlanInv, TypeOK, WatchEpoch, Epoch
<1>3. \A e \in Epoch : handler'[e] =
        IF e = next THEN [pc |-> "started", validators |-> {}] ELSE handler[e]
  BY DEF PlanInv, TypeOK, WatchEpoch
<1>4. handler[next].pc = "idle"
  BY <1>1 DEF PlanInv, Epoch
<1>5. plan[next].duties = {}
  BY <1>1, <1>4 DEF PlanInv
<1>6. ASSUME NEW e \in Epoch
      PROVE  /\ \A v \in handler'[e].validators : ActivationEpoch[v] <= e
             /\ plan[e].duties # {} => handler'[e].pc = "planned" /\ plan[e].fork = Fork(e)
             /\ handler'[e].pc # "idle" => next' > e
  <2>1. CASE e = next
    BY <1>1, <1>3, <1>5, <2>1
  <2>2. CASE e # next
    BY <1>1, <1>3, <2>2 DEF PlanInv, Epoch
  <2> QED BY <2>1, <2>2
<1> QED BY <1>2, <1>6 DEF PlanInv, WatchEpoch, WellFormed

LEMMA ReadValidatorsPlanInv ==
  ASSUME PlanInv, NEW e \in Epoch, ReadValidators(e)
  PROVE  PlanInv'
<1>1. ActiveAt(e) \in SUBSET Validator /\ \A v \in ActiveAt(e) : ActivationEpoch[v] <= e
  BY DEF PlanInv, TypeOK, ActiveAt
<1>2. TypeOK'
  BY <1>1 DEF PlanInv, TypeOK, ReadValidators
<1>3. handler[e].pc = "started" /\ plan[e].duties = {} /\ next > e
  BY DEF PlanInv, ReadValidators
<1>4. \A f \in Epoch : handler'[f] =
        IF f = e THEN [pc |-> "query", validators |-> ActiveAt(e)] ELSE handler[f]
  BY DEF PlanInv, TypeOK, ReadValidators
<1> QED BY <1>1, <1>2, <1>3, <1>4 DEF PlanInv, ReadValidators, WellFormed

LEMMA QueryFailsPlanInv ==
  ASSUME PlanInv, NEW e \in Epoch, QueryFails(e)
  PROVE  PlanInv'
<1>1. TypeOK'
  BY DEF PlanInv, TypeOK, QueryFails
<1>2. handler[e].pc = "query" /\ plan[e].duties = {} /\ next > e
  BY DEF PlanInv, QueryFails
<1>3. \A f \in Epoch : /\ handler'[f].validators = handler[f].validators
                       /\ f # e => handler'[f] = handler[f]
  BY DEF PlanInv, TypeOK, QueryFails
<1> QED BY <1>1, <1>2, <1>3 DEF PlanInv, QueryFails, WellFormed

\* What Process changes: the plan of its epoch, which was empty.
LEMMA ProcessEffect ==
  ASSUME PlanInv, NEW e \in Epoch, Process(e)
  PROVE  /\ plan[e].duties = {}
         /\ \A f \in Epoch : f # e => plan'[f] = plan[f]
         /\ \A d \in plan'[e].duties : /\ WellFormed(d, e)
                                       /\ d \in Duties(e, Validator)
                                       /\ ActiveTime(d) > now
         /\ plan'[e].at = now
         /\ plan'[e].fork = Fork(e)
         /\ plan' \in [Epoch -> [duties : SUBSET DutyType,
                 fork : {"none", "phase0", "altair", "bellatrix"}, at : Int]]
<1> DEFINE duties == CleanDuties(Duties(e, handler[e].validators), now)
           made == [duties |-> duties, fork |-> Fork(e), at |-> now]
<1>1. /\ handler[e].validators \in SUBSET Validator
      /\ \A v \in handler[e].validators : ActivationEpoch[v] <= e
  BY DEF PlanInv, TypeOK
<1>2. \A d \in duties : /\ WellFormed(d, e)
                        /\ d \in Duties(e, Validator)
                        /\ ActiveTime(d) > now
  BY <1>1, DutiesWellFormed, DutiesMonotonic DEF CleanDuties
<1>3. Fork(e) \in {"phase0", "altair", "bellatrix"}
  BY DEF Fork
<1>4. duties \subseteq DutyType
  BY <1>2 DEF WellFormed
<1>5. made \in [duties : SUBSET DutyType,
               fork : {"none", "phase0", "altair", "bellatrix"}, at : Int]
  BY <1>3, <1>4 DEF PlanInv, TypeOK
<1>6. plan' = [plan EXCEPT ![e] = made]
  BY DEF Process
<1>7. plan[e].duties = {}
  BY DEF PlanInv, Process
<1> HIDE DEF duties
<1>8. plan' \in [Epoch -> [duties : SUBSET DutyType,
             fork : {"none", "phase0", "altair", "bellatrix"}, at : Int]]
  BY <1>5, <1>6 DEF PlanInv, TypeOK
<1>9. \A f \in Epoch : plan'[f] = IF f = e THEN made ELSE plan[f]
  BY <1>6 DEF PlanInv, TypeOK
<1> QED BY <1>2, <1>7, <1>8, <1>9

LEMMA ProcessPlanInv ==
  ASSUME PlanInv, NEW e \in Epoch, Process(e)
  PROVE  PlanInv'
<1>1. TypeOK'
  <2>1. plan' \in [Epoch -> [duties : SUBSET DutyType,
               fork : {"none", "phase0", "altair", "bellatrix"}, at : Int]]
    BY ProcessEffect
  <2>2. handler' \in [Epoch -> [pc : {"idle", "started", "query", "failed", "planned"},
                  validators : SUBSET Validator]]
    BY DEF PlanInv, TypeOK, Process
  <2> QED BY <2>1, <2>2 DEF PlanInv, TypeOK, Process
<1>2. next' = next /\ next > e
  BY DEF PlanInv, Process
<1>3. /\ handler'[e].pc = "planned"
      /\ \A f \in Epoch : /\ handler'[f].validators = handler[f].validators
                          /\ f # e => handler'[f] = handler[f]
  BY DEF PlanInv, TypeOK, Process
<1>4. ASSUME NEW f \in Epoch
      PROVE  /\ \A v \in handler'[f].validators : ActivationEpoch[v] <= f
             /\ \A d \in plan'[f].duties : WellFormed(d, f) /\ ActiveTime(d) > plan'[f].at
             /\ plan'[f].duties # {} => handler'[f].pc = "planned" /\ plan'[f].fork = Fork(f)
             /\ handler'[f].pc # "idle" => next' > f
  <2>1. CASE f = e
    BY <1>2, <1>3, <2>1, ProcessEffect DEF PlanInv
  <2>2. CASE f # e
    BY <1>2, <1>3, <2>2, ProcessEffect DEF PlanInv
  <2> QED BY <2>1, <2>2
<1> QED BY <1>1, <1>4 DEF PlanInv, WellFormed

LEMMA OthersPlanInv == PlanInv /\ (LearnValidators \/ ClockTick) => PlanInv'
<1> SUFFICES ASSUME PlanInv, LearnValidators \/ ClockTick PROVE PlanInv'
  OBVIOUS
<1>1. UNCHANGED <<next, handler, plan>>
  BY DEF LearnValidators, ClockTick, schedulerVars
<1>2. now' \in Int /\ known' \in SUBSET Validator
  BY DEF LearnValidators, ClockTick, schedulerVars, PlanInv, TypeOK
<1> QED BY <1>1, <1>2 DEF PlanInv, TypeOK, WellFormed

LEMMA NextPlanInv == PlanInv /\ [Next]_vars => PlanInv'
<1> SUFFICES ASSUME PlanInv, [Next]_vars PROVE PlanInv'
  OBVIOUS
<1>1. CASE WatchGenesis
  BY <1>1, WatchGenesisPlanInv
<1>2. CASE WatchEpoch
  BY <1>2, WatchEpochPlanInv
<1>3. ASSUME NEW e \in Epoch, EpochStep(e) PROVE PlanInv'
  BY <1>3, ReadValidatorsPlanInv, QueryFailsPlanInv, ProcessPlanInv DEF EpochStep
<1>4. CASE LearnValidators \/ ClockTick
  BY <1>4, OthersPlanInv
<1>5. CASE UNCHANGED vars
  BY <1>5 DEF vars, schedulerVars, PlanInv, TypeOK, WellFormed
<1> QED BY <1>1, <1>2, <1>3, <1>4, <1>5 DEF Next, SchedulerStep

\* However the goroutines of the epochs, watchDuties and validatorLifecycle
\* interleave, a plan has the duties Process builds (server.go:283-316).
THEOREM PlanInvInvariant == Spec => []PlanInv
BY InitPlanInv, NextPlanInv, PTL DEF Spec

-----------------------------------------------------------------------------
(* The theorems                                                            *)

\* The variables keep their types; in particular watchDuties computes an epoch
\* only once genesis is over.
THEOREM TypeCorrect == Spec => []TypeOK
<1>1. PlanInv => TypeOK
  BY DEF PlanInv
<1> QED BY PlanInvInvariant, <1>1, PTL

\* The plans of two epochs have no duty in common (Process, server.go:297).
THEOREM NeverPlannedTwice == Spec => []PlannedOnce
<1>1. PlanInv => PlannedOnce
  <2> SUFFICES ASSUME PlanInv, NEW e \in Epoch, NEW f \in Epoch,
                      NEW d \in plan[e].duties, d \in plan[f].duties
               PROVE  e = f
    BY DEF PlannedOnce
  <2>1. d.slot \in Int /\ SlotOf(d.slot, e) /\ SlotOf(d.slot, f)
    BY DEF PlanInv, WellFormed, DutyType
  <2> QED BY <2>1, OneEpochPerSlot DEF Epoch
<1> QED BY PlanInvInvariant, <1>1, PTL

\* Plans are made of duties of the epoch still to come, for active validators
\* of ours (HandleEpoch's filter of the proposers, cleanDuties).
THEOREM PlansAreSound == Spec => []PlanSound
<1>1. PlanInv => PlanSound
  BY DEF PlanInv, PlanSound, WellFormed, DutyType
<1> QED BY PlanInvInvariant, <1>1, PTL

\* The plans meet the hypothesis under which the duty queue never strands a
\* duty (NeverStranded and AckFindsDependents of DutyQueueProofs).
THEOREM PlansSuitTheQueue == Spec => []QueueHypothesis
<1>1. ASSUME PlanInv, NEW d \in Planned, NEW b \in Planned, d # b
      PROVE  BlockersOf(d) \cap BlockersOf(b) = {}
  <2>1. d \in DutyType /\ b \in DutyType
    BY <1>1 DEF Planned, PlanInv, WellFormed
  <2> QED BY <1>1, <2>1 DEF BlockersOf, NewDuty, DutyType
<1>2. ASSUME PlanInv, NEW e \in Epoch, NEW f \in Epoch, e # f, NEW d \in plan[e].duties
      PROVE  BlockersOf(d) \cap plan[f].duties = {}
  <2> SUFFICES ASSUME NEW b \in BlockersOf(d), b \in plan[f].duties PROVE FALSE
    OBVIOUS
  <2>1. b.slot = d.slot
    BY DEF BlockersOf, NewDuty
  <2>2. d.slot \in Int /\ SlotOf(d.slot, e) /\ SlotOf(b.slot, f)
    BY <1>2 DEF PlanInv, WellFormed, DutyType
  <2> QED BY <1>2, <2>1, <2>2, OneEpochPerSlot DEF Epoch
<1>3. PlanInv => QueueHypothesis
  BY <1>1, <1>2 DEF QueueHypothesis
<1> QED BY PlanInvInvariant, <1>3, PTL

\* Duties are built for the fork they are signed for (scheduler.go:224-232
\* against server.go:205-212).
THEOREM ForksAgree == Spec => []ForkAgrees
<1>1. PlanInv => ForkAgrees
  <2> SUFFICES ASSUME PlanInv, NEW e \in Epoch, NEW f \in Epoch,
                      NEW d \in plan[e].duties, SlotOf(d.slot, f)
               PROVE  plan[e].fork = SignFork(f)
    BY DEF ForkAgrees
  <2>1. d.slot \in Int /\ SlotOf(d.slot, e)
    BY DEF PlanInv, WellFormed, DutyType
  <2>2. e = f
    BY <2>1, OneEpochPerSlot DEF Epoch
  <2>3. plan[e].fork = Fork(e)
    BY DEF PlanInv
  <2> QED BY <2>2, <2>3 DEF Fork, SignFork
<1> QED BY PlanInvInvariant, <1>1, PTL

-----------------------------------------------------------------------------
(* What a plan has                                                         *)

\* A plan is what Process made of the validators that were read, cleaned at the
\* time it was made.
Made ==
  \A e \in Epoch : handler[e].pc = "planned" =>
    plan[e].duties = CleanDuties(Duties(e, handler[e].validators), plan[e].at)

LEMMA MadeStep == PlanInv /\ Made /\ [Next]_vars => Made'
<1> SUFFICES ASSUME PlanInv, Made, [Next]_vars PROVE Made'
  OBVIOUS
<1>1. CASE WatchEpoch
  <2>1. next \in Epoch /\ plan' = plan
        /\ \A e \in Epoch : e # next => handler'[e] = handler[e]
    BY <1>1 DEF WatchEpoch, PlanInv, TypeOK
  <2>2. handler'[next].pc # "planned"
    BY <1>1, <2>1 DEF WatchEpoch, PlanInv, TypeOK
  <2> QED BY <2>1, <2>2 DEF Made
<1>2. ASSUME NEW e \in Epoch, ReadValidators(e) \/ QueryFails(e) PROVE Made'
  <2>1. /\ plan' = plan /\ handler'[e].pc # "planned"
        /\ \A f \in Epoch : f # e => handler'[f] = handler[f]
    BY <1>2 DEF ReadValidators, QueryFails, PlanInv, TypeOK
  <2> QED BY <2>1 DEF Made
<1>3. ASSUME NEW e \in Epoch, Process(e) PROVE Made'
  <2> DEFINE duties == CleanDuties(Duties(e, handler[e].validators), now)
  <2>1. /\ handler'[e].validators = handler[e].validators
        /\ \A f \in Epoch : f # e => handler'[f] = handler[f]
    BY <1>3 DEF Process, PlanInv, TypeOK
  <2>2. /\ plan' = [plan EXCEPT ![e] = [duties |-> duties, fork |-> Fork(e), at |-> now]]
        /\ e \in DOMAIN plan
    BY <1>3 DEF Process, PlanInv, TypeOK
  <2> HIDE DEF duties
  <2>3. plan'[e].duties = duties /\ plan'[e].at = now
    BY <2>2
  <2>4. \A f \in Epoch : f # e => plan'[f] = plan[f]
    BY <2>2
  <2> QED BY <2>1, <2>3, <2>4 DEF Made, duties
<1>4. CASE WatchGenesis \/ LearnValidators \/ ClockTick \/ UNCHANGED vars
  BY <1>4 DEF WatchGenesis, LearnValidators, ClockTick, vars, schedulerVars, Made
<1> QED BY <1>1, <1>2, <1>3, <1>4 DEF Next, SchedulerStep, EpochStep

LEMMA MadeInvariant == Spec => []Made
<1>1. Init => Made
  BY DEF Init, Made, Idle
<1> QED BY <1>1, MadeStep, PlanInvInvariant, PTL DEF Spec

\* A plan lacks an assigned proposal, attestation or sync committee message only
\* if its time had come; the loops of Process skip no slot (scheduler.go:143-274).
THEOREM PlansAreComplete == Spec => []PlanComplete
<1>1. PlanInv /\ Made => PlanComplete
  <2> SUFFICES ASSUME PlanInv, Made, NEW e \in Epoch, handler[e].pc = "planned",
                      NEW kind \in {"blockProposal", "attestation", "syncCommittee"},
                      NEW v \in Validator, NEW i \in 0 .. SlotsPerEpoch - 1,
                      Assigned(NewDuty(kind, v, e * SlotsPerEpoch + i, 0), handler[e].validators),
                      ActiveTime(NewDuty(kind, v, e * SlotsPerEpoch + i, 0)) > plan[e].at
               PROVE  NewDuty(kind, v, e * SlotsPerEpoch + i, 0) \in plan[e].duties
    BY DEF PlanComplete
  <2> DEFINE vals == handler[e].validators
             slot == e * SlotsPerEpoch + i
             d == NewDuty(kind, v, slot, 0)
  <2>1. d.kind = kind /\ d.validator = v /\ d.slot = slot
    BY DEF NewDuty
  <2>2. v \in vals
    BY <2>1 DEF Assigned
  <2>3. ASSUME kind = "blockProposal" PROVE d \in Duties(e, vals)
    <3>1. [validator |-> v, slot |-> slot] \in Proposers
      BY <2>1, <2>3 DEF Assigned
    <3>2. [validator |-> v, slot |-> slot] \in ProposerDuties(e, vals)
      BY <2>2, <3>1 DEF ProposerDuties, Of, InEpoch
    <3>3. d \in Proposals(e, vals)
      BY <2>3, <3>2 DEF Proposals, NewDuty
    <3> QED BY <3>3 DEF Duties
  <2>4. ASSUME kind = "attestation" PROVE d \in Duties(e, vals)
    <3>1. [validator |-> v, slot |-> slot] \in Attesters
      BY <2>1, <2>4 DEF Assigned
    <3>2. [validator |-> v, slot |-> slot] \in Of(InEpoch(Attesters, e), vals)
      BY <2>2, <3>1 DEF Of, InEpoch
    <3>3. d \in Attestations(e, vals)
      BY <2>4, <3>2 DEF Attestations, NewDuty
    <3> QED BY <3>3 DEF Duties
  <2>5. ASSUME kind = "syncCommittee" PROVE d \in Duties(e, vals)
    <3>1. PICK c \in Committees : c.validator = v /\ SlotOf(slot, c.epoch)
      BY <2>1, <2>5 DEF Assigned
    <3>2. slot \in Int /\ SlotOf(slot, e) /\ e \in Nat /\ c.epoch \in Nat
      BY SlotsInside, SchedulerAssumption DEF Epoch
    <3>3. c.epoch = e
      BY <3>1, <3>2, OneEpochPerSlot
    <3>4. c \in CommitteeOf(e, vals) /\ slot \in Slots(e)
      BY <2>2, <3>1, <3>3 DEF CommitteeOf, Of, Slots
    <3>5. d \in SyncMessages(e, vals)
      BY <2>5, <3>1, <3>4 DEF SyncMessages, NewDuty
    <3> QED BY <3>5 DEF Duties
  <2>6. d \in Duties(e, vals)
    BY <2>3, <2>4, <2>5
  <2>7. d \in CleanDuties(Duties(e, vals), plan[e].at)
    BY <2>6 DEF CleanDuties
  <2>8. plan[e].duties = CleanDuties(Duties(e, vals), plan[e].at)
    BY DEF Made
  <2> HIDE DEF d
  <2>9. d \in plan[e].duties
    BY <2>7, <2>8
  <2> QED BY <2>9 DEF d
<1> QED BY <1>1, MadeInvariant, PlanInvInvariant, PTL

\* Only a plan made between the times of an attestation and of its aggregation
\* has the one without the other (cleanDuties, scheduler.go:290).
THEOREM OrphansComeFromTheWindow == Spec => []OrphansOnlyInWindow
<1>1. PlanInv /\ Made => OrphansOnlyInWindow
  <2> SUFFICES ASSUME PlanInv, Made, NEW e \in Epoch, NEW d \in plan[e].duties,
                      NEW b \in BlockersOf(d), ~(ActiveTime(b) <= plan[e].at)
               PROVE  b \in plan[e].duties
    BY DEF OrphansOnlyInWindow
  <2> DEFINE vals == handler[e].validators
  <2>1. plan[e].duties = CleanDuties(Duties(e, vals), plan[e].at)
    BY DEF Made, PlanInv
  <2>2. d \in Duties(e, vals) /\ d.kind = "attestationAggregate"
    BY <2>1 DEF CleanDuties, BlockersOf
  <2>3. d \in AttestationAggregates(e, vals)
    BY <2>2 DEF Duties, Proposals, Attestations, SyncMessages, SyncAggregates, NewDuty
  <2>4. PICK a \in Attestations(e, vals) :
          d = NewDuty("attestationAggregate", a.validator, a.slot, 0)
    BY <2>3 DEF AttestationAggregates
  <2>5. b = a
    BY <2>2, <2>4 DEF Attestations, BlockersOf, NewDuty
  <2>6. ActiveTime(b) > plan[e].at
    <3>1. vals \in SUBSET Validator /\ plan[e].at \in Int
      BY DEF PlanInv, TypeOK
    <3>2. a.slot \in Nat /\ a.kind = "attestation"
      BY <3>1, AttestationsShaped DEF ShapedFor, DutyType, Attestations, NewDuty
    <3>3. ActiveTime(b) \in Int
      BY <2>5, <3>2 DEF ActiveTime, AtSlot, Delay
    <3> QED BY <3>1, <3>3
  <2> QED BY <2>1, <2>4, <2>5, <2>6 DEF CleanDuties, Duties
<1> QED BY <1>1, MadeInvariant, PlanInvInvariant, PTL
=============================================================================
