-------------------------- MODULE MCValidatorServer --------------------------
(***************************************************************************)
(* One validator over two epochs.                                          *)
(***************************************************************************)
EXTENDS ValidatorServer, TLC

CONSTANTS v1, other

NetActivationEpoch == v1 :> 0

\* Epochs of one slot: an attestation with its aggregation in the first, another
\* attestation in the second; the blocks are somebody else's.
NetProposers == {[validator |-> other, slot |-> 0], [validator |-> other, slot |-> 1]}
NetAttesters == {[validator |-> v1, slot |-> 0], [validator |-> v1, slot |-> 1]}
NetAttAggregator == {<<v1, 0>>}

\* Epochs of two slots: an attestation with its aggregation in the first, and a
\* block in the last slot of the second.
BlockProposers == {[validator |-> v1, slot |-> 3]}
BlockAttesters == {[validator |-> v1, slot |-> 1]}
BlockAttAggregator == {<<v1, 1>>}

=============================================================================
