SPECIFICATION Spec
CONSTANTS
  b1 = b1
  b2 = b2
  w1 = w1
  w2 = w2
  r1 = r1
  r2 = r2
  l1 = l1
  l2 = l2
  api = api
  g1 = g1
  g2 = g2
  NoObj = NoObj
  NoGroup = NoGroup
  NoJob = NoJob
  None = None
  Blank = Blank
  Bindings = {b1}
  Workers = {w1, w2}
  Edits <- AnyEdit
  FirstHosts <- AnyHosts
  RefEdits <- AnyRefEdit
  LBs = {l1, l2, api}
  Elbs = {l1, l2}
  MortalGroups = {g1}
  FirstActive = {l1}
  SpoilingFaults = TRUE
  Patient = FALSE
  MaxFaults = 1
  MaxChanges = 3
  MaxCrashes = 1
  Refs = {r1}
  Groups = {g1, g2}
  Weights = {"light", "heavy"}
  FaultSites <- MCFaultSites
SYMMETRY Interchangeable
INVARIANTS
  TypeOK
  NeverAddsUnprotected
  NamesOnce
PROPERTIES
  ImplementsBindingLifecycle
CHECK_DEADLOCK FALSE
