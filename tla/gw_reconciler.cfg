SPECIFICATION FairSpec
CONSTANTS
  k1 = k1
  gw = gw
  tn1 = tn1
  tn2 = tn2
  None = None
  Keys = {k1}
  Referents = {gw, tn1, tn2}
  Removable = {tn2}
  Specs <- ThreeSpecs
  FaultKinds = {"kube", "lost", "crash"}
  MaxEdits = 3
  MaxFaults = 1
CHECK_DEADLOCK FALSE
INVARIANTS
  IInv
PROPERTIES
  ReadyIsJustified
  ReadyInTheEnd
