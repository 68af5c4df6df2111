---------------------------- MODULE MCServerState ----------------------------
(***************************************************************************)
(* The state of the server with its users.  In a behaviour either the      *)
(* validators move, or the plans with blocks, or the plans with            *)
(* attestations, or one plan with failing calls and a subscription         *)
(* service: the users share nothing but the lock of the writes, and their  *)
(* products are too large to check.                                        *)
(***************************************************************************)
EXTENDS Subscriptions, TLC

CONSTANTS v1, v2, block, second, again, other, att, later, foreign

VARIABLE focus

NetDuty == {block, second, again, other, att, later, foreign}
NetRow == {v1, v2} \cup NetDuty

NetIndex == [v \in {v1, v2} |-> IF v = v1 THEN 1 ELSE 2]

NetBlocks == {block, second, again, other}

\* Validator 1 proposes in two slots, in the second one again after a restart,
\* and validator 2 in the second; validator 1 attests twice, validator 2 once.
NetJob ==
  [d \in NetDuty |->
     [kind |-> IF d \in NetBlocks THEN "block-proposal" ELSE "attestation",
      validator |-> IF d \in {other, foreign} THEN 2 ELSE 1,
      slot |-> IF d \in {block, att, foreign} THEN 1 ELSE 2]]

NetOutcomes ==
  [d \in NetDuty |->
     CASE d \in {block, second, other} -> {BlockResult(1)}
       [] d = again -> {BlockResult(2)}
       [] d = att -> {AttestationResult(1, 2)}
       [] d = later -> {AttestationResult(0, 3)}
       [] d = foreign -> {AttestationResult(2, 2)}]

NetPlans == {{block, second}, {again, other}, {att}, {later, foreign}}

NetObject(d) == {DutyObject(NetJob[d], o) : o \in NetOutcomes[d] \cup {NoResult}}

NetValue ==
  {Bare} \cup {WithMetadata(i, e) : i \in 1 .. 2, e \in ActivationEpochs \cup {FarFuture}}
  \cup UNION {NetObject(d) : d \in DOMAIN NetJob}

NetIndexOf == [x \in NetValue |-> SchemaKeys(x)]
NetKey == UNION {SchemaKeys(x) : x \in NetValue}

NetInPlace ==
  UNION {{<<DutyObject(NetJob[d], NoResult), DutyObject(NetJob[d], o)>> : o \in NetOutcomes[d]} :
            d \in DOMAIN NetJob}

NetCaller == {"NewServer", "validatorLifecycle", "handleNewEpoch"} \cup DOMAIN NetJob

NetServiceKind == "beacon" :> "attestation"

MCInit ==
  /\ SubsInit
  /\ focus \in {"validators", "blocks", "votes", "subscriptions"}
  /\ focus # "validators" => chain = [v \in Validator |-> Unknown]

\* The plans that move.
FocusPlans ==
  CASE focus = "blocks" -> {{block, second}, {again, other}}
    [] focus = "votes" -> {{att}, {later, foreign}}
    [] focus = "subscriptions" -> {{later, foreign}}
    [] OTHER -> {}

\* The others are still.
Focused ==
  /\ focus # "validators" =>
        chain' = chain /\ shutdown' = shutdown /\ lifecycle'.pc \in {"off", "read"}
  /\ focus # "subscriptions" => loop' = loop
  /\ focus \in {"blocks", "votes"} => faults' = faults
  /\ \A P \in Plans \ FocusPlans : plan'[P] = plan[P]
  /\ \A P \in Plans : again \in P /\ boots = 1 => plan'[P] = plan[P]

mcVars == <<allVars, focus>>

\* The fairness of ValidatorLifecycle and of Subscriptions, for what moves.
MCSpec ==
  /\ MCInit
  /\ [][SubsNext /\ Focused /\ UNCHANGED focus]_mcVars
  /\ WF_lifecycleVars(focus = "validators" /\ NewServerStep)
  /\ WF_lifecycleVars(focus = "validators" /\ WriteStep)
  /\ WF_lifecycleVars(focus = "validators" /\ RoutineStep)
  /\ \A k \in Service : WF_allVars(focus = "subscriptions" /\ ServiceStep(k))

\* The properties of DutyRecords and Subscriptions, for these values: the slots,
\* roots and epochs go from below all that is recorded to above it.
BlockChecks == BlockCheckExact(1 .. 3, 1 .. 3)
AttestChecks == AttestCheckExact(0 .. 3)
NoSlashable == NoSlashableVote(0 .. 4)
DutiesSubmitted == focus = "subscriptions" => EveryDutySubmitted
=============================================================================
