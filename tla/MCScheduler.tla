----------------------------- MODULE MCScheduler -----------------------------
(***************************************************************************)
(* Two validators of ours and one of the rest of the network over three    *)
(* epochs of two slots; the forks change between the epochs.               *)
(***************************************************************************)
EXTENDS Scheduler, TLC

CONSTANTS v1, v2, other

NetActivationEpoch == (v1 :> 0) @@ (v2 :> 1)

\* One proposer per slot: slot 0 and 2 open an epoch, 4 is not ours.
NetProposers == {[validator |-> v1, slot |-> 0], [validator |-> v2, slot |-> 1],
                 [validator |-> v1, slot |-> 2], [validator |-> v2, slot |-> 3],
                 [validator |-> other, slot |-> 4], [validator |-> v1, slot |-> 5]}

\* Every active validator attests once in every epoch.
NetAttesters == {[validator |-> v1, slot |-> 0], [validator |-> v1, slot |-> 3],
                 [validator |-> v1, slot |-> 4], [validator |-> v2, slot |-> 3],
                 [validator |-> v2, slot |-> 5]}

\* v1 sits in two subcommittees (of 8 seats each) in the first two epochs, v2
\* twice in one of them in the last two.
NetCommittees == {[validator |-> v1, epoch |-> 0, indices |-> {3, 8}],
                  [validator |-> v1, epoch |-> 1, indices |-> {3, 8}],
                  [validator |-> v2, epoch |-> 1, indices |-> {24, 31}],
                  [validator |-> v2, epoch |-> 2, indices |-> {24, 31}]}

NetAttAggregator == {<<v1, 0>>, <<v1, 3>>, <<v2, 3>>, <<v2, 5>>}
NetSyncAggregator == {<<v1, 1, 0>>, <<v1, 1, 1>>, <<v1, 2, 1>>, <<v2, 4, 3>>, <<v2, 5, 3>>}

\* Before genesis, and in the middle of the first two epochs.
NetStartTimes == {-7, 4, 7}
=============================================================================
