SPECIFICATION FairSpec
CONSTANTS
  svc = svc
  ing = ing
  w1 = w1
  w2 = w2
  l1 = l1
  l2 = l2
  gcp = gcp
  a1 = a1
  a2 = a2
  h1 = h1
  h2 = h2
  taken = taken
  z1 = z1
  z2 = z2
  NoObj = NoObj
  NoAcc = NoAcc
  NoJob = NoJob
  None = None
  Foreign = Foreign
  Plain = Plain
  Keys = {svc}
  KindOf <- JustService
  Workers = {w1}
  QueueOf <- ServiceWorker
  LBs = {l1, l2, gcp}
  HostKind <- MCHostKind
  Versions <- MCVersions
  Edits <- Created
  Arns = {a1, a2}
  Clusters = {"here", "elsewhere"}
  ClusterName = "here"
  Accelerators <- MCAccelerators
  AccEdits <- Appears
  Hostnames = {h1, h2, taken}
  Zones = {z1, z2}
  ZoneOf <- MCZoneOf
  FirstDns <- MCFirstDns
  FaultSites <- MCFaultSites
  MaxFaults = 1
  MaxChanges = 3
  MaxCrashes = 1
PROPERTIES
  WantedRecordsAppear
CHECK_DEADLOCK FALSE
