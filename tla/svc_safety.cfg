SPECIFICATION Spec
CONSTANTS
  s1 = s1
  s2 = s2
  web = web
  db = db
  c1 = c1
  c2 = c2
  c3 = c3
  a1 = a1
  a2 = a2
  a3 = a3
  None = None
  DefaultName <- WebForAll
  Keys = {s1}
  VIPNames = {web, db}
  Configs = {c1, c2, c3}
  Invalid = {c3}
  Addrs = {a1, a2, a3}
  Specs <- RenameSpecs
  HasClient = TRUE
  FaultKinds = {"get", "put", "kube", "lost", "crash", "admin"}
  MaxEdits = 4
  MaxFaults = 2
SYMMETRY AddrSymmetry
CHECK_DEADLOCK FALSE
INVARIANTS
  IInv
PROPERTIES
  VIPCreatedUnderFinalizer
  RecordedVIPRemoved
  StatusOfCurrentSpec
  ImplementsLifecycle
