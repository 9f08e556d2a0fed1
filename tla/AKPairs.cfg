SPECIFICATION SafetySpec
CONSTANTS
  c1 = c1
  u1 = u1
  u2 = u2
  k1 = k1
  None = None
  CRs = {c1}
  Operators = {o1}
  Users = {u1, u2}
  KeyIds = {k1, g1, g2, u2}
  GeneratedIds = {g1, g2}
  SecretKeys = {s1, s2, s3, s4}
  Specs <- PairSpecs
  FaultKinds <- TraceableFaults
  MaxFaults = 3
  CacheMayLag = FALSE
  MaxGeneration = 1
  MaxIncarnation = 2
SYMMETRY RandomSymmetry
INVARIANTS GoneMeansRevoked OneKeyPerCR PairConsistent
PROPERTIES KeptIsIntact RevokeOnlyLost
CHECK_DEADLOCK FALSE
