SPECIFICATION SafetySpec
CONSTANTS
  u1 = u1
  p1 = p1
  None = None
  CRs = {cp}
  UserCRs = {}
  PolicyCRs = {cp}
  Operators = {o1}
  UserNames = {u1}
  PolicyNames = {p1}
  Documents = {"read", "root"}
  Json <- AllJson
  Text <- Texts
  Requests <- AllRequests
  Passwords = {"old"}
  AttachChecked = TRUE
  Specs <- IamSpecs
  UserSpecs <- OneUser
  PolicySpecs <- RestrictedPolicies
  FaultKinds <- NoFaults
  MaxFaults = 0
  CacheMayLag = FALSE
  MaxGeneration = 2
  MaxIncarnation = 1
INVARIANTS ReadyMeansDeclared
CHECK_DEADLOCK FALSE
