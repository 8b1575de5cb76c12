SPECIFICATION FairSpec
CONSTANTS
  t1 = t1
  oauth1 = oauth1
  oauth2 = oauth2
  cred1 = cred1
  cred2 = cred2
  None = None
  Keys = {t1}
  SecretNames = {oauth1, oauth2}
  Rotating = {oauth2}
  Credentials = {cred1, cred2}
  Domain <- DomainOf
  Empty = ""
  Undotted = {"tail2.ts.net"}
  Specs <- SomeSpecs
  FaultKinds = {"kube", "lost", "tailscale", "revoke", "crash"}
  MaxEdits = 2
  MaxFaults = 1
CHECK_DEADLOCK FALSE
INVARIANTS
  KeysAccountedFor
  IInv
PROPERTIES
  DomainOfNamedSecret
  DeletionCompletes
  ConnectionReported
