SPECIFICATION Spec
CONSTANTS
  c1 = c1
  u1 = u1
  u2 = u2
  k1 = k1
  None = None
  CRs = {c1}
  Operators = {o1}
  Users = {u1, u2}
  KeyIds = {k1, g1, g2, u1, u2}
  GeneratedIds = {g1, g2}
  SecretKeys = {s1, s2, s3, s4}
  Specs <- MixedSpecs
  FaultKinds <- LiveFaults
  MaxFaults = 1
  CacheMayLag = FALSE
  MaxGeneration = 2
  MaxIncarnation = 1
PROPERTIES Converges DeletedEventuallyGone Quiescent
CHECK_DEADLOCK FALSE
