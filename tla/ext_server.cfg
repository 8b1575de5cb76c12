SPECIFICATION FairSpec
CONSTANTS
  e1 = e1
  e2 = e2
  r1 = r1
  r2 = r2
  g1 = g1
  g2 = g2
  g3 = g3
  Refresher = refresher
  Nobody = nobody
  Callers = {e1, e2}
  Routes = {r1, r2}
  Gateways = {g1, g2, g3}
  Kind <- RouteKinds
  ParentKeys <- DefaultKeys
  GatewayKey <- GatewayKeys
  MaxChanges = 2
  MaxFaults = 1
CHECK_DEADLOCK FALSE
INVARIANTS
  LockInv
PROPERTIES
  RegistryStableDuringCall
  BlockedForGood
  CallsReturnOrBlock
  RegistryReflectsGateways
