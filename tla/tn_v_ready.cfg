SPECIFICATION FairSpec
CONSTANTS
  t1 = t1
  oauth1 = oauth1
  oauth2 = oauth2
  cred1 = cred1
  cred2 = cred2
  None = None
  Keys = {t1}
  SecretNames = {oauth1}
  Rotating = {}
  Credentials = {cred1}
  Domain <- DomainOf
  Empty = ""
  Undotted = {}
  Specs <- FullSpec
  FaultKinds = {"revoke"}
  MaxEdits = 1
  MaxFaults = 1
CHECK_DEADLOCK FALSE
PROPERTIES
  ReadyMeansFunctional
