SPECIFICATION FairSpec
CONSTANTS
  e1 = e1
  e2 = e2
  r1 = r1
  r2 = r2
  g1 = g1
  g2 = g2
  g3 = g3
  Refresher = refresher
  Nobody = nobody
  Callers = {e1}
  Routes = {r1}
  Gateways = {g1}
  Kind <- RouteKinds
  ParentKeys <- DefaultKeys
  GatewayKey <- GatewayKeys
  MaxChanges = 1
  MaxFaults = 0
CHECK_DEADLOCK FALSE
PROPERTIES
  EveryCallReturns
