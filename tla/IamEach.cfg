SPECIFICATION SafetySpec
CONSTANTS
  u1 = u1
  p1 = p1
  None = None
  CRs = {cu, cp}
  UserCRs = {cu}
  PolicyCRs = {cp}
  Operators = {o1}
  UserNames = {u1}
  PolicyNames = {p1}
  Documents = {"read", "reversed", "denied", "scoped"}
  Json <- AllJson
  Text <- Texts
  Requests <- AllRequests
  Passwords = {"old", "new"}
  AttachChecked = FALSE
  Specs <- IamSpecs
  UserSpecs <- ManyUsers
  PolicySpecs <- ManyPolicies
  FaultKinds <- AllFaults
  MaxFaults = 2
  CacheMayLag = TRUE
  MaxGeneration = 2
  MaxIncarnation = 1
CONSTRAINT OneKind
INVARIANTS TypeOK SnapshotInv GoneMeansRemoved ReadyMeansDeclared
PROPERTIES PasswordsStick InSyncUntouched
CHECK_DEADLOCK FALSE
