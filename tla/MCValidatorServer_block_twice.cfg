SPECIFICATION ServerSpec
CONSTANTS
  v1 = v1
  other = other
  Validator = {v1}
  SlotsPerEpoch = 2
  SyncCommitteeSize = 32
  AltairForkEpoch = 0
  BellatrixForkEpoch = 1
  ActivationEpoch <- NetActivationEpoch
  Proposers <- BlockProposers
  Attesters <- BlockAttesters
  Committees = {}
  AttAggregator <- BlockAttAggregator
  SyncAggregator = {}
  StartTimes = {3}
  LastEpoch = 1
  MaxBoots = 2
INVARIANT ProposedOnce
CHECK_DEADLOCK FALSE
