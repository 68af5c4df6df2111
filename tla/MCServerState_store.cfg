SPECIFICATION MCSpec
CONSTANTS
  v1 = v1
  v2 = v2
  block = block
  second = second
  again = again
  other = other
  att = att
  later = later
  foreign = foreign
  Absent = Absent
  NoCaller = NoCaller
  Row <- NetRow
  Value <- NetValue
  Key <- NetKey
  IndexOf <- NetIndexOf
  InPlace <- NetInPlace
  Caller <- NetCaller
  Validator = {v1, v2}
  ValidatorIndex <- NetIndex
  ActivationEpochs = {0, 1}
  FarFuture = 9
  MaxFaults = 1
  MaxBoots = 2
  Duty <- NetDuty
  Job <- NetJob
  Outcomes <- NetOutcomes
  Plans <- NetPlans
  Service = {"beacon"}
  ServiceKind <- NetServiceKind
INVARIANTS StoreInv QueriesExact BlockChecks AttestChecks
PROPERTIES ImplementsDurableStore EventuallyRegistered DutiesSubmitted
CHECK_DEADLOCK FALSE
