SPECIFICATION WatchedSpec
CONSTANTS
  prop = prop
  att = att
  agg = agg
  sync = sync
  orphan = orphan
  dropped = dropped
  NoDuty = NoDuty
  Duty <- PlanDuty
  BlockedBy <- PlanBlockedBy
  ActiveTime <- PlanActiveTime
  Batches <- PlanBatches
  MaxTime = 3
  AsyncTimer = TRUE
INVARIANTS
  TypeOK
  Inv
  IndexInv
  OnePlace
  BlockersFirst
  NoStrandedDuty
  AckNeverFails
  StatsExact
  EarlyOnlyByStaleTick
PROPERTIES ImplementsDutyFlow RunsUnlessWakeupMissed
CHECK_DEADLOCK FALSE
