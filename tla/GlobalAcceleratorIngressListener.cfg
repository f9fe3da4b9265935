SPECIFICATION Spec
CONSTANTS
  svc = svc
  ing = ing
  w1 = w1
  w2 = w2
  l1 = l1
  l2 = l2
  gcp = gcp
  api = api
  a1 = a1
  a2 = a2
  a3 = a3
  NoObj = NoObj
  NoAcc = NoAcc
  NoJob = NoJob
  None = None
  Keys = {ing}
  KindOf <- OneIngress
  Workers = {w1}
  QueueOf <- IngressWorker
  LBs = {l1, l2, gcp, api}
  HostKind <- MCHostKind
  Names <- MCNames
  Ports <- MCPorts
  Versions <- MCVersions
  Edits <- Orderly
  Arns = {a1, a2, a3}
  Clusters <- MCClusters
  ClusterName = "here"
  FirstAccs <- OneForeign
  FaultSites <- IngressListenerFault
  MaxFaults = 1
  MaxChanges = 4
  MaxCrashes = 0
INVARIANTS
  QuiescentSynced
CHECK_DEADLOCK FALSE
