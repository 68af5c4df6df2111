SPECIFICATION Spec
CONSTANTS
  v1 = v1
  v2 = v2
  other = other
  Validator = {v1, v2}
  SlotsPerEpoch = 2
  SyncCommitteeSize = 32
  AltairForkEpoch = 1
  BellatrixForkEpoch = 2
  ActivationEpoch <- NetActivationEpoch
  Proposers <- NetProposers
  Attesters <- NetAttesters
  Committees <- NetCommittees
  AttAggregator <- NetAttAggregator
  SyncAggregator <- NetSyncAggregator
  StartTimes <- NetStartTimes
  LastEpoch = 2
INVARIANT ProposalsPlanned
CHECK_DEADLOCK FALSE
