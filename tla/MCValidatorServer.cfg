SPECIFICATION ServerFairSpec
CONSTANTS
  v1 = v1
  other = other
  Validator = {v1}
  SlotsPerEpoch = 1
  SyncCommitteeSize = 32
  AltairForkEpoch = 0
  BellatrixForkEpoch = 1
  ActivationEpoch <- NetActivationEpoch
  Proposers <- NetProposers
  Attesters <- NetAttesters
  Committees = {}
  AttAggregator <- NetAttAggregator
  SyncAggregator = {}
  StartTimes = {0}
  LastEpoch = 1
  MaxBoots = 2
INVARIANTS ServerInv OnceInv PublishedAgainOnlyIfEarly AggregateFindsResult AckedIsRecorded
PROPERTIES CompleteIsFinal ImplementsDutyLedger PublishedIsRecorded
CHECK_DEADLOCK FALSE
