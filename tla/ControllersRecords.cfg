SPECIFICATION FairSpec
CONSTANTS
  svc = svc
  w1 = w1
  rw1 = rw1
  l1 = l1
  l2 = l2
  a1 = a1
  a2 = a2
  h1 = h1
  z1 = z1
  NoObj = NoObj
  NoAcc = NoAcc
  NoJob = NoJob
  None = None
  Foreign = Foreign
  Plain = Plain
  Keys = {svc}
  KindOf <- JustService
  Workers = {w1}
  QueueOf <- OneWorker
  LBs = {l1, l2}
  HostKind <- AllElb
  Names = {"default"}
  Ports = {80, 443}
  Versions <- MCVersions
  Edits <- Orderly
  Arns = {a1, a2}
  Clusters = {"here"}
  ClusterName = "here"
  FaultSites <- MCFaultSites
  RecordWorkers = {rw1}
  RecordQueueOf <- OneRecordWorker
  Hostnames = {h1}
  Zones = {z1}
  ZoneOf <- OneZone
  FirstDns <- NoDns
  RecordFaultSites = {}
  MaxFaults = 1
  MaxRecordFaults = 0
  MaxChanges = 4
INVARIANTS
  RecordsFollow
  NoAcceleratorLeft
  NoRecordLeft
PROPERTIES
  EventuallyQuiet
CHECK_DEADLOCK FALSE
