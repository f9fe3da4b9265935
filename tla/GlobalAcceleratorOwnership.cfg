SPECIFICATION Spec
CONSTANTS
  svc = svc
  ing = ing
  w1 = w1
  w2 = w2
  l1 = l1
  l2 = l2
  gcp = gcp
  api = api
  a1 = a1
  a2 = a2
  a3 = a3
  NoObj = NoObj
  NoAcc = NoAcc
  NoJob = NoJob
  None = None
  Keys = {svc}
  KindOf <- OneService
  Workers = {w1, w2}
  QueueOf <- TwoServiceWorkers
  LBs = {l1, l2, gcp, api}
  HostKind <- MCHostKind
  Names <- MCNames
  Ports <- MCPorts
  Versions <- MCVersions
  Edits <- AnyEdit
  Arns = {a1, a2, a3}
  Clusters <- MCClusters
  ClusterName = "here"
  FirstAccs <- OneForeign
  FaultSites <- MCFaultSites
  MaxFaults = 2
  MaxChanges = 3
  MaxCrashes = 1
SYMMETRY Interchangeable
INVARIANTS
  TypeOK
  AtMostOneAccelerator
  NoStaleFinding
  QuiescentSynced
PROPERTIES
  ImplementsLifecycle
  OnlyOwnerWrites
CHECK_DEADLOCK FALSE
