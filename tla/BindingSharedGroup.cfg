SPECIFICATION Spec
CONSTANTS
  b1 = b1
  b2 = b2
  w1 = w1
  w2 = w2
  r1 = r1
  r2 = r2
  l1 = l1
  l2 = l2
  api = api
  g1 = g1
  g2 = g2
  NoObj = NoObj
  NoGroup = NoGroup
  NoJob = NoJob
  None = None
  Blank = Blank
  Bindings = {b1, b2}
  Workers = {w1}
  Edits <- TwoServices
  FirstHosts <- OneBalancer
  RefEdits <- NoRefEdit
  LBs = {l1, l2, api}
  Elbs = {l1, l2}
  MortalGroups = {}
  FirstActive = {l1, l2}
  SpoilingFaults = FALSE
  Patient = FALSE
  MaxFaults = 0
  MaxChanges = 2
  MaxCrashes = 0
  Refs = {r1, r2}
  Groups = {g1, g2}
  Weights = {"light", "heavy"}
  FaultSites <- MCFaultSites
INVARIANTS
  RecordedIsBound
CHECK_DEADLOCK FALSE
