SPECIFICATION SafetySpec
CONSTANTS
  c1 = c1
  u1 = u1
  u2 = u2
  k1 = k1
  None = None
  CRs = {c1}
  Operators = {o1}
  Users = {u1}
  KeyIds = {k1}
  GeneratedIds = {}
  SecretKeys = {s1, s2, s3}
  Specs <- PinnedOnly
  FaultKinds <- UnwritableSecret
  MaxFaults = 2
  CacheMayLag = FALSE
  MaxGeneration = 1
  MaxIncarnation = 1
PROPERTIES KeptIsIntact
CHECK_DEADLOCK FALSE
