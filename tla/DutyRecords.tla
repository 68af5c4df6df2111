----------------------------- MODULE DutyRecords -----------------------------
(***************************************************************************)
(* The duties in the state: the epoch handlers write their plans, the      *)
(* handlers of the duties add the results (internal/server/server.go), and *)
(* the slashing checks of internal/server/state/state.go read them.        *)
(*                                                                         *)
(* A plan is in the queue before it is written, and it holds pointers: a   *)
(* handler may put its result into an object that the epoch handler is     *)
(* just writing.  Ids are fresh in each process, so that nobody touches    *)
(* the duties of the processes before.                                     *)
(***************************************************************************)
EXTENDS ValidatorLifecycle

CONSTANTS
  Duty,       \* the ids of the duties, rows of the state
  Job,        \* Job[d]: the kind, the validator and the slot of d
  Outcomes,   \* Outcomes[d]: the results the handler of d may return
  Plans       \* the plans of the epochs, sets of duties

ASSUME RecordsAssumption ==
  /\ Duty \subseteq Row /\ Duty \cap Validator = {}
  /\ Job \in [Duty -> [kind : STRING, validator : Nat, slot : Nat]]
  /\ Plans \subseteq SUBSET Duty
  /\ \A P, Q \in Plans : P # Q => P \cap Q = {}
  /\ \A d \in Duty : DutyObject(Job[d], NoResult) \in Value
  /\ \A d \in Duty : \A o \in Outcomes[d] :
        /\ o # NoResult
        /\ <<DutyObject(Job[d], NoResult), DutyObject(Job[d], o)>> \in InPlace
  /\ \A d \in Duty : Job[d].kind = "attestation" =>
        \A o \in Outcomes[d] : o = AttestationResult(o[1], o[2]) /\ o[1] \in Nat /\ o[2] \in Nat
  /\ Duty \cup {"handleNewEpoch"} \subseteq Caller
  /\ Duty \cap {"NewServer", "validatorLifecycle", "handleNewEpoch"} = {}

VARIABLES
  plan,       \* plan[P]: how far the epoch handler has come with P
  object,     \* object[d]: the object of d in this process
  handler,    \* handler[d]: how far the handler of d has come
  recorded    \* history: the duties whose UpsertDuty has returned nil

recordsVars == <<plan, object, handler, recorded>>
dutyVars == <<lifecycleVars, recordsVars>>

RecordsTypeOK ==
  /\ LifecycleTypeOK
  /\ plan \in [Plans -> {"none", "enqueued", "saving", "saved", "failed", "lost"}]
  /\ object \in [Duty -> Value \cup {Absent}]
  /\ handler \in [Duty -> {"none", "marked", "saving", "done"}]
  /\ recorded \in SUBSET Duty

RecordsInit ==
  /\ LifecycleInit
  /\ plan = [P \in Plans |-> "none"]
  /\ object = [d \in Duty |-> Absent]
  /\ handler = [d \in Duty |-> "none"]
  /\ recorded = {}

-----------------------------------------------------------------------------
(* handleNewEpoch                                                          *)

\* Rows S, with the objects as they are now.
Objects(S) == [r \in Row |-> IF r \in S THEN object[r] ELSE Absent]

EnqueuePlan(P) ==
  /\ server = "running"
  /\ plan[P] = "none"
  /\ plan' = [plan EXCEPT ![P] = "enqueued"]
  /\ object' = [d \in Duty |-> IF d \in P THEN DutyObject(Job[d], NoResult) ELSE object[d]]
  /\ UNCHANGED <<lifecycleVars, handler, recorded>>

\* UpsertDuties with the duties of the plan.
SavePlan(P) ==
  /\ plan[P] = "enqueued"
  /\ Begin("handleNewEpoch", Objects(P))
  /\ plan' = [plan EXCEPT ![P] = "saving"]
  /\ UNCHANGED <<lifeVars, object, handler, recorded>>

PlanSaved(P) ==
  /\ plan[P] = "saving"
  /\ txn.caller = "handleNewEpoch"
  /\ CommitMem
  /\ plan' = [plan EXCEPT ![P] = "saved"]
  /\ UNCHANGED <<lifeVars, object, handler, recorded>>

\* The error is logged; the duties stay in the queue.
PlanFails(P) ==
  /\ \/ plan[P] = "enqueued" /\ db = "closed" /\ UNCHANGED <<storeVars, faults>>
     \/ plan[P] = "saving" /\ txn.caller = "handleNewEpoch" /\ WriteFails /\ Fault
  /\ plan' = [plan EXCEPT ![P] = "failed"]
  /\ UNCHANGED <<server, lifecycle, shutdown, chain, boots, object, handler, recorded>>

-----------------------------------------------------------------------------
(* runWorker                                                               *)

\* The handler of d has returned: the result goes into the object.
Finish(d) ==
  /\ server = "running"
  /\ handler[d] = "none"
  /\ object[d] # Absent
  /\ \E o \in Outcomes[d] :
       /\ Complete(d, object[d], DutyObject(Job[d], o))
       /\ object' = [object EXCEPT ![d] = DutyObject(Job[d], o)]
  /\ handler' = [handler EXCEPT ![d] = "marked"]
  /\ UNCHANGED <<lifeVars, plan, recorded>>

\* UpsertDuty.  When it fails the handler panics and the process ends, as it
\* may at any point.
SaveResult(d) ==
  /\ handler[d] = "marked"
  /\ Begin(d, Objects({d}))
  /\ handler' = [handler EXCEPT ![d] = "saving"]
  /\ UNCHANGED <<lifeVars, plan, object, recorded>>

ResultSaved(d) ==
  /\ txn.caller = d
  /\ CommitMem
  /\ handler' = [handler EXCEPT ![d] = "done"]
  /\ recorded' = recorded \cup {d}
  /\ UNCHANGED <<lifeVars, plan, object>>

DutiesExit ==
  /\ Exit
  /\ plan' = [P \in Plans |-> IF plan[P] = "none" THEN "none" ELSE "lost"]
  /\ object' = [d \in Duty |-> Absent]
  /\ handler' = [d \in Duty |-> "none"]
  /\ UNCHANGED recorded

-----------------------------------------------------------------------------
(* SlashBlockCheck and SlashAttestCheck: TRUE where the code returns nil    *)

\* The first duty of some that have the same key: the one with the lowest id.
First(S) == CHOOSE d \in S : TRUE

\* The entries of an index from a bound upwards, and the first of them.  The
\* bound is the validator (and the name), not what the entries must begin with.
FromBlock(val) == {e \in index : e[1][1] = "block_proposer" /\ e[1][2] >= val}

FromAttest(val, name) ==
  {e \in index : /\ e[1][1] = "attest_proposer"
                 /\ AttestKeyLeq(<<"attest_proposer", val, name, 0>>, e[1])}

LowestProposal(val) ==
  {e[2] : e \in {a \in FromBlock(val) : \A b \in FromBlock(val) : BlockKeyLeq(a[1], b[1])}}

LowestAttestation(val, name) ==
  {e[2] : e \in {a \in FromAttest(val, name) :
                    \A b \in FromAttest(val, name) : AttestKeyLeq(a[1], b[1])}}

Result(d) == mem[d].result

\* Mutant of SlashBlockCheck: the roots are not compared.
SlashBlockCheckSlots(val, slot, root) ==
  LET lowest == LowestProposal(val)
  IN  lowest # {} => mem[First(lowest)].slot < slot

SlashBlockCheck(val, slot, root) ==
  LET atSlot == Found(<<"block_proposer", val, slot>>)
      lowest == LowestProposal(val)
  IN  /\ atSlot # {} => Result(First(atSlot)) = BlockResult(root)
      /\ lowest # {} => mem[First(lowest)].slot < slot

SlashAttestCheck(val, source, target) ==
  LET lowestSource == LowestAttestation(val, "source")
      lowestTarget == LowestAttestation(val, "target")
  IN  /\ lowestSource # {} => source >= Result(First(lowestSource))[1]
      /\ lowestTarget # {} => target > Result(First(lowestTarget))[2]

-----------------------------------------------------------------------------

PlanStep(P) == EnqueuePlan(P) \/ SavePlan(P) \/ PlanSaved(P) \/ PlanFails(P)

ResultStep(d) == Finish(d) \/ SaveResult(d) \/ ResultSaved(d)

RecordsStep == (\E P \in Plans : PlanStep(P)) \/ (\E d \in Duty : ResultStep(d))

RecordsNext ==
  \/ RecordsStep
  \/ DutiesExit
  \/ LifecycleStep /\ plan' = plan /\ object' = object /\ handler' = handler
                   /\ recorded' = recorded

RecordsSpec == RecordsInit /\ [][RecordsNext]_dutyVars

-----------------------------------------------------------------------------
(* Properties                                                              *)

\* The duties of one kind and validator that have a result: those that readers
\* see, and those whose handler has been told that they are recorded.
History(kind, val) ==
  {d \in Duty : /\ mem[d] # Absent /\ mem[d].result # NoResult
                /\ mem[d].kind = kind /\ mem[d].validator = val}

Recorded(kind, val) ==
  {d \in recorded : Job[d].kind = kind /\ Job[d].validator = val}

\* The duties with a result of the validators after val: an index scanned from
\* val upwards goes on to them when val has no entry.
After(kind, val) ==
  {d \in Duty : /\ mem[d] # Absent /\ mem[d].result # NoResult
                /\ mem[d].kind = kind /\ mem[d].validator > val}

\* Once UpsertDuty has returned, and for ever after, over restarts, a block whose
\* root is not one recorded for its slot is refused, and so is any block not above
\* the lowest slot.  Nothing else is refused to a validator with such a record,
\* whatever the others have signed; one without is refused only what a validator
\* after it explains.
BlockCheckExact(slots, roots) ==
  server = "running" =>
    \A val \in {Job[d].validator : d \in Duty} :
      LET own == History("block-proposal", val)
          told == Recorded("block-proposal", val)
          Above(S, slot) == \E d \in S : Job[d].slot < slot
          At(S, slot) == {d \in S : Job[d].slot = slot}
          IsRoot(d, root) == Result(d) = BlockResult(root)
      IN  \A slot \in slots, root \in roots :
            /\ Above(told, slot) /\ (\A d \in At(own, slot) : IsRoot(d, root))
                 => SlashBlockCheck(val, slot, root)
            /\ told # {} /\ SlashBlockCheck(val, slot, root)
                 => /\ Above(own, slot)
                    /\ At(told, slot) # {} => \E d \in At(own, slot) : IsRoot(d, root)
            /\ own = {} /\ ~SlashBlockCheck(val, slot, root)
                 => \E d \in After("block-proposal", val) : Job[d].slot >= slot

\* Likewise for attestations: a source below all that are recorded is refused,
\* and a target not above one of them, and nothing else.
AttestCheckExact(epochs) ==
  server = "running" =>
    \A val \in {Job[d].validator : d \in Duty} :
      LET own == History("attestation", val)
          told == Recorded("attestation", val)
          Above(S, s, t) == (\E d \in S : Result(d)[1] <= s) /\ (\E d \in S : Result(d)[2] < t)
      IN  \A s, t \in epochs :
            /\ Above(told, s, t) => SlashAttestCheck(val, s, t)
            /\ told # {} /\ SlashAttestCheck(val, s, t) => Above(own, s, t)
            /\ own = {} /\ ~SlashAttestCheck(val, s, t)
                 => \E d \in After("attestation", val) : s < Result(d)[1] \/ t <= Result(d)[2]

\* "index for EIP-3076 attest slash protection": a vote that passes is neither a
\* double vote nor surrounds, nor is surrounded by, a vote that is recorded.
NoSlashableVote(epochs) ==
  server = "running" =>
    \A d \in recorded : Job[d].kind = "attestation" =>
      \A s, t \in epochs :
        s <= t /\ SlashAttestCheck(Job[d].validator, s, t) =>
          /\ Result(d)[2] # t
          /\ ~(s < Result(d)[1] /\ Result(d)[2] < t)
          /\ ~(Result(d)[1] < s /\ t < Result(d)[2])
=============================================================================
