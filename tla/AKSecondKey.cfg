SPECIFICATION SafetySpec
CONSTANTS
  c1 = c1
  u1 = u1
  u2 = u2
  k1 = k1
  None = None
  CRs = {c1}
  Operators = {o1}
  Users = {u1}
  KeyIds = {g1, g2}
  GeneratedIds = {g1, g2}
  SecretKeys = {s1, s2, s3}
  Specs <- GeneratedOnly
  FaultKinds <- UnrecordedKey
  MaxFaults = 1
  CacheMayLag = FALSE
  MaxGeneration = 1
  MaxIncarnation = 1
INVARIANTS OneKeyPerCR
CHECK_DEADLOCK FALSE
