SPECIFICATION Spec
CONSTANTS
  b1 = b1
  None = None
  CRs = {c1}
  Operators = {o1}
  Buckets = {b1}
  Quotas = {0, 5}
  Specs <- EditedSpecs
  FaultKinds <- AllFaults
  MaxFaults = 2
  CacheMayLag = FALSE
  MaxGeneration = 2
  MaxIncarnation = 2
INVARIANTS TypeOK SnapshotInv GoneMeansRemoved ReadyMeansDeclared
PROPERTIES MatchingUntouched Managed Converges DeletedEventuallyGone
CHECK_DEADLOCK FALSE
