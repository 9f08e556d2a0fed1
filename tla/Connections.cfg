SPECIFICATION Spec
CONSTANTS
  c1 = c1
  app = app
  ops = ops
  admin = admin
  main = main
  e1 = e1
  e2 = e2
  l1 = l1
  l2 = l2
  None = None
  CRs = {c1}
  Operators = {o1}
  NamespaceOf <- Namespaces
  OperatorNamespace = ops
  Configs <- AllConfigs
  Accepted <- Servers
  Specs <- AllSpecs
  FaultKinds <- AllFaults
  MaxFaults = 2
  CacheMayLag = FALSE
  MaxGeneration = 1
  MaxIncarnation = 1
INVARIANTS TypeOK ResolvedAsConfigured
PROPERTIES Converges DeletedEventuallyGone
CHECK_DEADLOCK FALSE
