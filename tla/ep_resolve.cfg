SPECIFICATION Spec
CONSTANTS
  Tokens <- TokensChosen
  Empty = ""
  NaN = NaN
  None = None
  Placeholder <- Host100
  Scan <- ScanGo
  Atoi <- AtoiGo
  Lookup <- LookupGo
  Protocols = {"tcp", "udp", "UDP"}
  UDP = {"udp", "UDP"}
  Digits = {"8080", "443", "1", "70000"}
  DNSLabels = {"web", "localhost", "443"}
  DNSNames = {"web", "localhost", "443", "web.default.svc"}
  AddressHosts = {"web", "100.64.0.7", "web.default.svc"}
  TooLong = {}
  Reserved = {"localhost"}
  Addresses <- VIPAddresses
  Backends <- BackendRefs
  PortSpecs <- Ports
  Heads <- HeadsChosen
  MaxLen = 2
CHECK_DEADLOCK FALSE
INVARIANTS
  IInv
  FirstSourceOnly
  HostsAndPortsKept
  SinglePortsMapped
  AdmittedBackendsKept
  AdmittedIsAccepted
