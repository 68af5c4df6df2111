SPECIFICATION FairSpec
CONSTANTS
  prop = prop
  att = att
  agg = agg
  sync = sync
  orphan = orphan
  dropped = dropped
  NoDuty = NoDuty
  Duty <- PlanDuty
  BlockedBy <- PlanBlockedBy
  ActiveTime <- PlanActiveTime
  Batches <- PlanBatches
  MaxTime = 3
  AsyncTimer = TRUE
PROPERTY ReadyIsDequeued
CHECK_DEADLOCK FALSE
