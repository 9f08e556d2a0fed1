SPECIFICATION SafetySpec
CONSTANTS
  c1 = c1
  u1 = u1
  u2 = u2
  k1 = k1
  None = None
  CRs = {c1}
  Operators = {o1}
  Users = {u1}
  KeyIds = {k1}
  GeneratedIds = {}
  SecretKeys = {s1, s2, s3, s4}
  Specs <- PinnedSpecs
  FaultKinds <- AllFaults
  MaxFaults = 2
  CacheMayLag = TRUE
  MaxGeneration = 2
  MaxIncarnation = 2
SYMMETRY RandomSymmetry
INVARIANTS TypeOK SnapshotInv NeverForgotten GoneMeansRevoked ReadyIsCurrent
PROPERTIES IssueNeedsFinalizer RecordedKeyKept
CHECK_DEADLOCK FALSE
