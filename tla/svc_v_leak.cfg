SPECIFICATION Spec
CONSTANTS
  s1 = s1
  s2 = s2
  web = web
  db = db
  c1 = c1
  c2 = c2
  c3 = c3
  a1 = a1
  a2 = a2
  a3 = a3
  None = None
  DefaultName <- WebForAll
  Keys = {s1}
  VIPNames = {web}
  Configs = {c1}
  Invalid = {}
  Addrs = {a1}
  Specs <- OneSpec
  HasClient = TRUE
  FaultKinds = {}
  MaxEdits = 2
  MaxFaults = 0
CHECK_DEADLOCK FALSE
INVARIANTS
  NoVIPOutlivesServices
