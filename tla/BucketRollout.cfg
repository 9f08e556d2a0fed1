SPECIFICATION SafetySpec
CONSTANTS
  b1 = b1
  None = None
  CRs = {c1}
  Operators = {o1, o2}
  Buckets = {b1}
  Quotas = {5}
  Specs <- OneSpec
  FaultKinds <- NoFaults
  MaxFaults = 0
  CacheMayLag = FALSE
  MaxGeneration = 1
  MaxIncarnation = 1
INVARIANTS GoneMeansRemoved
CHECK_DEADLOCK FALSE
