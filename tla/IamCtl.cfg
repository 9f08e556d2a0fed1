SPECIFICATION Spec
CONSTANTS
  u1 = u1
  p1 = p1
  None = None
  CRs = {cu, cp}
  UserCRs = {cu}
  PolicyCRs = {cp}
  Operators = {o1}
  UserNames = {u1}
  PolicyNames = {p1}
  Documents = {"read", "denied"}
  Json <- AllJson
  Text <- Texts
  Requests <- AllRequests
  Passwords = {"old"}
  AttachChecked = TRUE
  Specs <- IamSpecs
  UserSpecs <- LiveUsers
  PolicySpecs <- LivePolicies
  FaultKinds <- IamFaults
  MaxFaults = 1
  CacheMayLag = FALSE
  MaxGeneration = 1
  MaxIncarnation = 1
INVARIANTS ReadyMeansDeclared
PROPERTIES Managed Converges DeletedEventuallyGone
CHECK_DEADLOCK FALSE
