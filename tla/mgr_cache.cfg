SPECIFICATION FairSpec
CONSTANTS
  p1 = p1
  p2 = p2
  t1 = t1
  s1 = s1
  c1 = c1
  None = None
  Nobody = nobody
  Calls = {p1, p2}
  Tailnets = {t1}
  Refs = {s1}
  Creds = {c1}
  MaxAge = 1
  MaxIdle = 0
  MaxTime = 2
  MaxChanges = 2
  MaxFaults = 1
CHECK_DEADLOCK FALSE
INVARIANTS
  IInv
PROPERTIES
  NoOlderTailnet
  BoundedStaleness
  InvalidationHolds
  ClientsShared
  CallsReturn
