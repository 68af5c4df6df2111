----------------------------- MODULE StateSchema -----------------------------
(***************************************************************************)
(* The contents of the two tables of the state and the indexes over them   *)
(* (internal/server/state/schema.go and index.go).                         *)
(***************************************************************************)
EXTENDS Integers

-----------------------------------------------------------------------------
(* Validators                                                              *)

\* A validator before its metadata is known.
Bare == [table |-> "validators", known |-> FALSE]

WithMetadata(i, e) ==
  [table |-> "validators", known |-> TRUE, index |-> i, activationEpoch |-> e]

\* "pending" is whether the metadata is set; the others exist with it only.
ValidatorKeys(v) ==
  {<<"pending", v.known>>} \cup
  IF v.known THEN {<<"index", v.index>>, <<"activationEpoch", v.activationEpoch>>} ELSE {}

-----------------------------------------------------------------------------
(* Duties                                                                  *)

\* The result of a duty that has none: Duty.Result is nil.
NoResult == <<>>

BlockResult(root) == <<root>>

AttestationResult(source, target) == <<source, target>>

\* A duty without its result, as the scheduler makes it, and with it.
DutyObject(job, result) ==
  [table |-> "duties", kind |-> job.kind, validator |-> job.validator,
   slot |-> job.slot, result |-> result]

\* What slashingBlockIndex and slashingAttestIndex give for a duty.
SlashingKeys(d) ==
  IF d.result = NoResult THEN {}
  ELSE CASE d.kind = "block-proposal" -> {<<"block_proposer", d.validator, d.slot>>}
         [] d.kind = "attestation" -> {<<"attest_proposer", d.validator, "source", d.result[1]>>,
                                       <<"attest_proposer", d.validator, "target", d.result[2]>>}
         [] OTHER -> {}

DutyKeys(d) == {<<"type", d.kind>>} \cup SlashingKeys(d)

SchemaKeys(v) == IF v.table = "validators" THEN ValidatorKeys(v) ELSE DutyKeys(v)

-----------------------------------------------------------------------------
(* The order of the keys of one index                                      *)

\* A key of the block index is the validator and the slot, both big endian.
BlockKeyLeq(a, b) == a[2] < b[2] \/ (a[2] = b[2] /\ a[3] <= b[3])

\* "source" and "target", each closed by a zero byte, sort in this order.
NameRank(name) == IF name = "source" THEN 0 ELSE 1

\* A key of the attestation index is the validator, the name and the epoch.
AttestKeyLeq(a, b) ==
  \/ a[2] < b[2]
  \/ a[2] = b[2] /\ NameRank(a[3]) < NameRank(b[3])
  \/ a[2] = b[2] /\ a[3] = b[3] /\ a[4] <= b[4]
=============================================================================
