-------------------------- MODULE SpecValidation --------------------------
(***************************************************************************)
(* Which TailscaleServices are admitted: ValidateTailscaleService          *)
(* (src/internal/validation/validation.go), next to what the schema of the *)
(* object admits (the kubebuilder markers of                               *)
(* src/api/v1alpha1/tailscaleservice_types.go) and what the Tailscale      *)
(* client accepts (ValidateVIPService).  The strings are those of          *)
(* EndpointResolution, and a head is the rest of a spec: the name, the     *)
(* tags, the proxy section and the tailnet, which no endpoint depends on.  *)
(***************************************************************************)
EXTENDS EndpointResolution

CONSTANTS
    None,         \* an optional field that is left out
    Lookup,       \* protocol -> token -> the number of net.LookupPort, or NaN
    Digits,       \* tokens of digits only
    DNSLabels,    \* tokens that are DNS labels
    DNSNames,     \* tokens that are DNS names: labels between dots
    AddressHosts, \* tokens of the hosts that validAddressRegex takes
    TooLong,      \* tokens of more than 63 characters
    Reserved      \* tokens that are reservedServiceNames, in any case

MaxPort == 65535
SocketPorts == 0..MaxPort

(* A name is not empty; and the number of a token of digits, when it is a  *)
(* port, is the one that ParseInt and Sscanf read.  With a sign it is not: *)
(* Sscanf reads no sign into an unsigned number.                           *)
ASSUME NamesAssumption == Empty \notin DNSLabels \cup DNSNames \cup AddressHosts
ASSUME DigitsAssumption ==
    /\ Digits \subseteq Tokens /\ Empty \notin Digits
    /\ \A t \in Digits : Atoi[t] \in {NaN, Scan[t]}
ASSUME LookupAssumption ==
    \A net \in {"tcp", "udp"} : \A t \in Digits :
        Lookup[net][t] # NaN => Lookup[net][t] \in SocketPorts /\ Atoi[t] = Lookup[net][t]

(***************************************************************************)
(* validation.go                                                           *)
(***************************************************************************)
(* Not counting the parts, and taking the last for the port. *)
ValidPortFormat_Mutant(s) ==
    s[1] \in Protocols /\ Lookup[IF s[1] \in UDP THEN "udp" ELSE "tcp"][Last(s)] # NaN

(* isValidPortFormat: an empty port is port 0, a service name has the      *)
(* number of its protocol, a range has none.                               *)
ValidPortFormat(s) ==
    /\ Len(s) = 2 /\ s[1] \in Protocols
    /\ Lookup[IF s[1] \in UDP THEN "udp" ELSE "tcp"][s[2]] # NaN

ValidTagFormat(s) == Len(s) > 1 /\ s[1] = "tag" /\ s # <<"tag", Empty>>

ValidKubernetesService(s) ==
    Len(s) = 2 /\ Lookup["tcp"][s[2]] # NaN /\ s[1] \in DNSNames

(* validServiceNameRegex and validAddressRegex. *)
ValidServiceName(s) == Len(s) = 2 /\ s[1] = "svc" /\ s[2] \in DNSLabels
ValidAddress(s) == Len(s) = 2 /\ s[1] \in AddressHosts /\ s[2] \in Digits

ValidWeight(b) == b.weight = None \/ b.weight \in 1..100

(* Asking for an address only. *)
ValidBackend_Mutant(b) == b.ref # <<Empty>> /\ ValidWeight(b)

ValidBackend(b) ==
    /\ \/ b.type = "kubernetes" /\ ValidKubernetesService(b.ref)
       \/ b.type = "external" /\ ValidAddress(b.ref)
       \/ b.type = "tailscale" /\ b.ref # <<Empty>>
    /\ ValidWeight(b)

ConnectionTypes == {"ingress", "egress", "bidirectional"}

ValidProxy(p) ==
    (p.replicas = None \/ p.replicas >= 1) /\ p.type \in ConnectionTypes \cup {Empty}

ValidVIP(head, s) ==
    /\ head.name = <<Empty>> \/ ValidServiceName(head.name)
    /\ s.ports # <<>> /\ \A j \in DOMAIN s.ports : ValidPortFormat(s.ports[j])
    /\ head.tags # {} /\ \A t \in head.tags : ValidTagFormat(t)

(* ValidateTailscaleService; a proxy asks for a tailnet. *)
Admitted(head, s) ==
    /\ ValidVIP(head, s)
    /\ \A j \in DOMAIN s.backends : ValidBackend(s.backends[j])
    /\ head.proxy # None => ValidProxy(head.proxy) /\ head.tailnet # Empty

(***************************************************************************)
(* The schema                                                              *)
(***************************************************************************)
(* validation.go does not look at priorities. *)
SchemaPriority(b) == b.priority = None \/ b.priority >= 0

SchemaAdmits(head, s) ==
    /\ head.name # <<Empty>> =>
          Len(head.name) = 2 /\ head.name[1] = "svc" /\ head.name[2] \in DNSLabels
    /\ s.ports # <<>> /\ head.tags # {}
    /\ \A j \in DOMAIN s.backends :
          /\ s.backends[j].type \in {"kubernetes", "external", "tailscale"}
          /\ s.backends[j].weight # None => s.backends[j].weight \in 1..100
          /\ SchemaPriority(s.backends[j])
    /\ head.proxy # None =>
          /\ head.proxy.replicas # None => head.proxy.replicas >= 1
          /\ head.proxy.type \in ConnectionTypes \cup {Empty}

(***************************************************************************)
(* The client                                                              *)
(***************************************************************************)
(* ServiceName.Validate: "svc:" is taken off when it is there. *)
BaseName(name) == IF Len(name) > 1 /\ name[1] = "svc" THEN Tail(name) ELSE name

ValidName(name) ==
    LET base == BaseName(name) IN
    Len(base) = 1 /\ base[1] \in DNSLabels \ (TooLong \cup Reserved \cup {Empty})

(* ValidateVIPService, for the VIP service asked for with that name. *)
ClientAccepts(name, tags, ports) ==
    /\ ValidName(name)
    /\ \A j \in DOMAIN ports : ValidPort(ports[j])
    /\ \A t \in tags : t # <<Empty>>
=============================================================================
