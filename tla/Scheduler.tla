------------------------------ MODULE Scheduler ------------------------------
(***************************************************************************)
(* The scheduler: watchDuties (internal/server/server.go) starts a         *)
(* goroutine for every epoch, and each of them runs HandleEpoch and        *)
(* Process (internal/scheduler/scheduler.go), which ask the beacon node    *)
(* for the duties of the epoch and turn them into a plan.                  *)
(*                                                                         *)
(* Time is counted in thirds of a slot from genesis, because every delay   *)
(* of Process is a multiple of a third.  What the beacon node assigns is   *)
(* constant; what varies is when the goroutines run, which validators are  *)
(* known by then, and whether the beacon node answers.  Signatures are     *)
(* deterministic, so that being an aggregator is a constant too.  Sign     *)
(* finds every validator it is asked for: HandleEpoch has just read it     *)
(* from the state, and no validator is removed.                            *)
(***************************************************************************)
EXTENDS Integers, FiniteSets

CONSTANTS
  Validator,           \* the validators the server holds the keys of
  SlotsPerEpoch,
  SyncCommitteeSize,
  AltairForkEpoch, BellatrixForkEpoch,
  ActivationEpoch,     \* ActivationEpoch[v]: as the metadata of v says
  Proposers,           \* the beacon node's answers: [validator, slot],
  Attesters,           \*   [validator, slot] and
  Committees,          \*   [validator, epoch, indices]
  AttAggregator,       \* <<v, slot>>: v's selection proof makes it aggregator
  SyncAggregator,      \* <<v, slot, sub>>: the same for a sync subcommittee
  StartTimes,          \* when the server may start; genesis is at 0
  LastEpoch            \* bound on the epochs

Epoch == 0 .. LastEpoch

ASSUME SchedulerAssumption ==
  /\ SlotsPerEpoch \in Nat \ {0}
  /\ SyncCommitteeSize \in Nat /\ SyncCommitteeSize >= 4
  /\ AltairForkEpoch \in Nat /\ BellatrixForkEpoch \in Nat
  /\ ActivationEpoch \in [Validator -> Nat]
  /\ \A p \in Proposers : p.slot \in Nat
  /\ \A a \in Attesters : a.slot \in Nat
  /\ \A c \in Committees : c.epoch \in Nat /\ c.indices \subseteq Nat
  /\ StartTimes \subseteq Int
  /\ LastEpoch \in Nat

VARIABLES
  now,       \* the clock
  known,     \* the validators with an index and an activation epoch
  next,      \* watchDuties: the epoch it waits for, NoEpoch before genesis
  handler,   \* handler[e]: the goroutine of epoch e
  plan       \* plan[e]: what HandleEpoch(e) returned

schedulerVars == <<known, next, handler, plan>>
vars == <<now, schedulerVars>>

NoEpoch == -1

Kind == {"blockProposal", "attestation", "attestationAggregate",
         "syncCommittee", "syncCommitteeAggregate"}

Idle == [pc |-> "idle", validators |-> {}]
NoPlan == [duties |-> {}, fork |-> "none", at |-> 0]

-----------------------------------------------------------------------------
(* A duty is named by what it does; ids, slots and epochs follow from it.  *)

DutyType == [kind : Kind, validator : Validator, slot : Nat, sub : Nat]

NewDuty(kind, v, slot, sub) == [kind |-> kind, validator |-> v, slot |-> slot, sub |-> sub]

\* Mutant of BlockersOf: an aggregation waits for every attestation of its slot.
BlockersOfSlot(d) ==
  IF d.kind # "attestationAggregate" THEN {}
  ELSE {NewDuty("attestation", v, d.slot, 0) : v \in Validator}

BlockersOf(d) ==
  IF d.kind = "attestationAggregate"
  THEN {NewDuty("attestation", d.validator, d.slot, d.sub)} ELSE {}

\* The delays of Process, in thirds of a slot.
Delay == [blockProposal |-> 0, attestation |-> 1, attestationAggregate |-> 2,
          syncCommittee |-> 1, syncCommitteeAggregate |-> 2]

AtSlot(slot) == 3 * slot
ActiveTime(d) == AtSlot(d.slot) + Delay[d.kind]

\* Mutant of Slots: the loop of Process runs up to and including LastSlot.
SlotsAndOne(e) == {e * SlotsPerEpoch + i : i \in 0 .. SlotsPerEpoch}

Slots(e) == {e * SlotsPerEpoch + i : i \in 0 .. SlotsPerEpoch - 1}

EpochStart(e) == AtSlot(e * SlotsPerEpoch)

-----------------------------------------------------------------------------
(* The beacon node: the duties it knows of for an epoch.                   *)

InEpoch(assigned, e) ==
  {a \in assigned : \E i \in 0 .. SlotsPerEpoch - 1 : a.slot = e * SlotsPerEpoch + i}

Of(assigned, vals) == {a \in assigned : a.validator \in vals}

CommitteeOf(e, vals) == {c \in Of(Committees, vals) : c.epoch = e}

-----------------------------------------------------------------------------
(* Process                                                                 *)

\* Mutant of ProposerDuties: the proposals of all validators are kept.
AllProposerDuties(e, vals) == InEpoch(Proposers, e)

\* The beacon node returns the proposals of all validators, HandleEpoch keeps
\* those of its own.
ProposerDuties(e, vals) == Of(InEpoch(Proposers, e), vals)

Proposals(e, vals) ==
  {NewDuty("blockProposal", p.validator, p.slot, 0) : p \in ProposerDuties(e, vals)}

Attestations(e, vals) ==
  {NewDuty("attestation", a.validator, a.slot, 0) : a \in Of(InEpoch(Attesters, e), vals)}

\* The hash of v's signature of the slot decides.
IsAttestationAggregator(v, slot) == <<v, slot>> \in AttAggregator

AttestationAggregates(e, vals) ==
  {NewDuty("attestationAggregate", d.validator, d.slot, 0) :
     d \in {a \in Attestations(e, vals) : IsAttestationAggregator(a.validator, a.slot)}}

SyncMessages(e, vals) ==
  {NewDuty("syncCommittee", c.validator, slot, 0) : c \in CommitteeOf(e, vals), slot \in Slots(e)}

SubCommittees(c) == {i \div (SyncCommitteeSize \div 4) : i \in c.indices}

IsSyncCommitteeAggregator(v, slot, sub) == <<v, slot, sub>> \in SyncAggregator

SyncAggregates(e, vals) ==
  UNION {{NewDuty("syncCommitteeAggregate", c.validator, slot, sub) :
            sub \in {s \in SubCommittees(c) : IsSyncCommitteeAggregator(c.validator, slot, s)}} :
         c \in CommitteeOf(e, vals), slot \in Slots(e)}

Duties(e, vals) ==
  Proposals(e, vals) \cup Attestations(e, vals) \cup AttestationAggregates(e, vals)
    \cup SyncMessages(e, vals) \cup SyncAggregates(e, vals)

\* Mutant of CleanDuties: the duties of a slot that has begun are dropped.
CleanSlots(duties, time) == {d \in duties : AtSlot(d.slot) > time}

\* Mutant of CleanDuties: a duty of this very moment is kept.
CleanDutiesOfNow(duties, time) == {d \in duties : ActiveTime(d) >= time}

\* What starts after the given time; a duty of this very moment is dropped.
CleanDuties(duties, time) == {d \in duties : ActiveTime(d) > time}

\* Mutant of Fork: the fork starts an epoch later.
ForkLate(e) ==
  IF BellatrixForkEpoch < e THEN "bellatrix"
  ELSE IF AltairForkEpoch < e THEN "altair" ELSE "phase0"

Fork(e) ==
  IF BellatrixForkEpoch <= e THEN "bellatrix"
  ELSE IF AltairForkEpoch <= e THEN "altair" ELSE "phase0"

-----------------------------------------------------------------------------
(* The goroutines                                                          *)

Init ==
  /\ now \in StartTimes
  /\ known = {}
  /\ next = NoEpoch
  /\ handler = [e \in Epoch |-> Idle]
  /\ plan = [e \in Epoch |-> NoPlan]

\* Mutant of WatchGenesis: no wait for genesis.
WatchAtOnce ==
  /\ next = NoEpoch
  /\ next' = now \div EpochStart(1)
  /\ UNCHANGED <<now, known, handler, plan>>

\* watchDuties: the wait for genesis, then the epoch of the clock.
WatchGenesis ==
  /\ next = NoEpoch
  /\ now >= 0
  /\ next' = now \div EpochStart(1)
  /\ UNCHANGED <<now, known, handler, plan>>

\* Mutant of Following: the epoch of the clock instead of the next epoch.
ClockEpoch(e) == now \div EpochStart(1) + 1

Following(e) == e + 1

\* One turn of the loop of watchDuties: start the goroutine of the epoch that
\* has begun, and wait for the following one.
WatchEpoch ==
  /\ next \in Epoch
  /\ now >= EpochStart(next)
  /\ handler' = [handler EXCEPT ![next] = [pc |-> "started", validators |-> {}]]
  /\ next' = Following(next)
  /\ UNCHANGED <<now, known, plan>>

ActiveAt(e) == {v \in known : ActivationEpoch[v] <= e}

\* HandleEpoch: GetValidatorsActiveAt.
ReadValidators(e) ==
  /\ handler[e].pc = "started"
  /\ handler' = [handler EXCEPT ![e] = [pc |-> "query", validators |-> ActiveAt(e)]]
  /\ UNCHANGED <<now, known, next, plan>>

\* One of the three calls to the beacon node fails, or its answer cannot be
\* read: HandleEpoch returns the error, which watchDuties only logs.
QueryFails(e) ==
  /\ handler[e].pc = "query"
  /\ handler' = [handler EXCEPT ![e].pc = "failed"]
  /\ UNCHANGED <<now, known, next, plan>>

\* The beacon node has answered; Process builds the plan and cleans it.
Process(e) ==
  /\ handler[e].pc = "query"
  /\ plan' = [plan EXCEPT ![e] =
       [duties |-> CleanDuties(Duties(e, handler[e].validators), now),
        fork   |-> Fork(e),
        at     |-> now]]
  /\ handler' = [handler EXCEPT ![e].pc = "planned"]
  /\ UNCHANGED <<now, known, next>>

\* validatorLifecycle learns the index and activation epoch of validators.
LearnValidators ==
  /\ \E vals \in SUBSET (Validator \ known) : vals # {} /\ known' = known \cup vals
  /\ UNCHANGED <<now, next, handler, plan>>

ClockTick ==
  /\ now < EpochStart(LastEpoch + 1)
  /\ now' = now + 1
  /\ UNCHANGED schedulerVars

EpochStep(e) == ReadValidators(e) \/ QueryFails(e) \/ Process(e)

SchedulerStep == WatchGenesis \/ WatchEpoch \/ LearnValidators \/ \E e \in Epoch : EpochStep(e)

Next == SchedulerStep \/ ClockTick

Spec == Init /\ [][Next]_vars

\* Goroutines are scheduled, the clock runs, and the beacon node answers or
\* fails.  Nothing is assumed of the validators.
Fairness ==
  /\ WF_vars(WatchGenesis)
  /\ WF_vars(WatchEpoch)
  /\ WF_vars(ClockTick)
  /\ \A e \in Epoch : WF_vars(EpochStep(e))

FairSpec == Spec /\ Fairness

-----------------------------------------------------------------------------
(* Properties                                                              *)

\* The range of the variables.
TypeOK ==
  /\ now \in Int
  /\ known \in SUBSET Validator
  /\ next \in {NoEpoch} \cup Nat
  /\ handler \in [Epoch -> [pc : {"idle", "started", "query", "failed", "planned"},
                            validators : SUBSET Validator]]
  /\ plan \in [Epoch -> [duties : SUBSET DutyType,
                         fork : {"none", "phase0", "altair", "bellatrix"},
                         at : Int]]

SlotOf(slot, e) == e * SlotsPerEpoch <= slot /\ slot < (e + 1) * SlotsPerEpoch

Planned == UNION {plan[e].duties : e \in Epoch}

\* No duty is in the plans of two epochs, although each epoch is planned by a
\* goroutine of its own at a time of its own: the loop of Process over the slots
\* of the sync committee stops before LastSlot, the first of the next epoch.
PlannedOnce ==
  \A e, f \in Epoch : e # f => plan[e].duties \cap plan[f].duties = {}

\* A duty is planned only for a validator of ours that is active in the epoch
\* (the beacon node answers for proposers of the whole network), and for a time
\* after the plan was made, so that nothing is planned again after it has run.
PlanSound ==
  \A e \in Epoch : \A d \in plan[e].duties :
    /\ d.validator \in Validator
    /\ ActivationEpoch[d.validator] <= e
    /\ ActiveTime(d) > plan[e].at
    /\ SlotOf(d.slot, e)

\* What the beacon node assigns to the validators read by HandleEpoch.
Assigned(d, vals) ==
  /\ d.validator \in vals
  /\ CASE d.kind = "blockProposal" ->
             [validator |-> d.validator, slot |-> d.slot] \in Proposers
       [] d.kind = "attestation" ->
             [validator |-> d.validator, slot |-> d.slot] \in Attesters
       [] d.kind = "syncCommittee" ->
             \E c \in Committees : c.validator = d.validator
                                    /\ SlotOf(d.slot, c.epoch)

\* No assigned duty is left out of the plan of its epoch unless its time had
\* come when the plan was cleaned; in particular no slot between two epochs is
\* skipped by the sync committee.
PlanComplete ==
  \A e \in Epoch : handler[e].pc = "planned" =>
    \A kind \in {"blockProposal", "attestation", "syncCommittee"},
       v \in Validator, i \in 0 .. SlotsPerEpoch - 1 :
      LET d == NewDuty(kind, v, e * SlotsPerEpoch + i, 0)
      IN  Assigned(d, handler[e].validators) /\ ActiveTime(d) > plan[e].at
            => d \in plan[e].duties

\* "blockedBy is the list of duties for which this duty is blocked": the
\* duties a planned duty is blocked by are planned as well, so that it can run.
BlockersPlanned == \A d \in Planned : BlockersOf(d) \subseteq Planned

\* An aggregation is planned without its attestation only if the plan was made
\* in the third of a slot between the two, when cleanDuties drops the one and
\* keeps the other.
OrphansOnlyInWindow ==
  \A e \in Epoch : \A d \in plan[e].duties : \A b \in BlockersOf(d) :
    b \in plan[e].duties \/ ActiveTime(b) <= plan[e].at

\* What the duty queue relies on (SchedulerBatches of DutyQueue): no two planned
\* duties wait for the same duty, and none waits for a duty of another plan.
QueueHypothesis ==
  /\ \A d, b \in Planned : d # b => BlockersOf(d) \cap BlockersOf(b) = {}
  /\ \A e, f \in Epoch : e # f =>
        \A d \in plan[e].duties : BlockersOf(d) \cap plan[f].duties = {}

\* Sign (server.go:205-212) chooses the fork version anew from the epoch.
SignFork(e) ==
  IF BellatrixForkEpoch <= e THEN "bellatrix"
  ELSE IF AltairForkEpoch <= e THEN "altair" ELSE "phase0"

\* The fork written into the duties, which decides the form of the block, is the
\* one whose version Sign signs the duty with.
ForkAgrees ==
  \A e, f \in Epoch : \A d \in plan[e].duties :
    SlotOf(d.slot, f) => plan[e].fork = SignFork(f)

\* "active_time is the time when this duty is meant to be executed": a plan made
\* at the very start of its epoch, with every validator known, has all the
\* proposals of the epoch.
ProposalsPlanned ==
  \A e \in Epoch :
    /\ handler[e].pc = "planned"
    /\ handler[e].validators = Validator
    /\ plan[e].at = EpochStart(e)
    => \A p \in Of(InEpoch(Proposers, e), Validator) :
         NewDuty("blockProposal", p.validator, p.slot, 0) \in plan[e].duties

\* Every epoch from the one the server starts in is handled, whatever happens
\* to the goroutines of the epochs before it.
EveryEpochHandled ==
  \A e \in Epoch : next \in 0 .. e ~> handler[e].pc \in {"failed", "planned"}
-----------------------------------------------------------------------------
(* The inductive invariant behind PlannedOnce, PlanSound, QueueHypothesis    *)
(* and ForkAgrees.                                                           *)

\* Everything known of a planned duty: it has the shape Process gives it, in a
\* slot of its epoch, for a validator that is active.
WellFormed(d, e) ==
  /\ d \in DutyType
  /\ ActivationEpoch[d.validator] <= e
  /\ SlotOf(d.slot, e)

PlanInv ==
  /\ TypeOK
  /\ \A e \in Epoch :
       /\ \A v \in handler[e].validators : ActivationEpoch[v] <= e
       /\ \A d \in plan[e].duties : WellFormed(d, e) /\ ActiveTime(d) > plan[e].at
       /\ plan[e].duties # {} => handler[e].pc = "planned" /\ plan[e].fork = Fork(e)
       /\ handler[e].pc # "idle" => next > e
=============================================================================
