------------------------ MODULE EndpointResolution ------------------------
(***************************************************************************)
(* How addresses and ports are read: resolveTailscaleServiceEndpoints of   *)
(* the extension server (src/internal/extension/server.go), one action per *)
(* round of its loops, next to what the controller makes of the same ports *)
(* (convertVIPPortsToPortMappings) and which of them the client accepts    *)
(* (validatePortSpec).                                                     *)
(*                                                                         *)
(* A string is the sequence of the tokens between its colons, so "" is     *)
(* <<Empty>>.  Scan and Atoi say which number Sscanf("%d") and ParseInt    *)
(* read in a token: Sscanf stops at the first character that is no digit,  *)
(* ParseInt fails there.                                                   *)
(***************************************************************************)
EXTENDS Integers, Sequences, SequencesExt

CONSTANTS
    Tokens,
    Empty,        \* the empty token
    NaN,          \* no number
    Placeholder,  \* the host "100.100.100.1"
    Scan, Atoi,   \* token -> number or NaN
    Protocols,    \* tokens that are "tcp" or "udp", in any case
    UDP,          \* those of them that are "udp"
    Addresses,    \* strings that may stand in VIPServiceStatus.Addresses
    Backends,     \* [type, ref, weight, priority] of a backend
    PortSpecs,    \* strings that may stand in VIPServiceSpec.Ports
    MaxLen        \* bound on the length of each list

Strings == Seq(Tokens) \ {<<>>}

ASSUME BoundAssumption == MaxLen \in Nat
ASSUME StringsAssumption ==
    /\ Empty \in Tokens /\ Placeholder \in Strings
    /\ Addresses \subseteq Strings /\ PortSpecs \subseteq Strings
    /\ \A b \in Backends : b.ref \in Strings
ASSUME NumbersAssumption ==
    /\ NaN \notin Int
    /\ Scan \in [Tokens -> Nat \cup {NaN}] /\ Atoi \in [Tokens -> Int \cup {NaN}]

Lists(S) == UNION {[1..n -> S] : n \in 0..MaxLen}
Services == [addresses : Lists(Addresses), backends : Lists(Backends),
             ports : Lists(PortSpecs) \ {<<>>}]

VARIABLES
    svc,        \* the TailscaleService
    stage,      \* the loop being run
    i,          \* its next round
    endpoints   \* lbEndpoints

vars == <<svc, stage, i, endpoints>>

Init ==
    /\ svc \in Services
    /\ stage = "addresses" /\ i = 1 /\ endpoints = <<>>

(***************************************************************************)
(* Reading                                                                 *)
(***************************************************************************)
OrDefault(n) == IF n = NaN THEN 80 ELSE n

(* Reading the port from the colon on, which is no number. *)
ParseAddress_Mutant(s) ==
    IF Len(s) = 1 THEN [host |-> s, port |-> 80] ELSE [host |-> Front(s), port |-> 80]

(* parseAddress and parseServiceReference: the last colon splits. *)
ParseAddress(s) ==
    IF Len(s) = 1 THEN [host |-> s, port |-> 80]
    ELSE [host |-> Front(s), port |-> OrDefault(Scan[Last(s)])]

(* parsePortFromVIPPortString: after the first colon, else the whole.      *)
ParsePort(s) ==
    IF Len(s) > 1 /\ Scan[s[2]] # NaN THEN Scan[s[2]] ELSE OrDefault(Scan[s[1]])

NoHost(e) == e.host = <<Empty>>

(* validatePortSpec of the Tailscale client. *)
ValidPort(s) ==
    \/ s = <<"do-not-validate">>
    \/ Len(s) > 1 /\ s[1] \in Protocols /\ s # <<s[1], Empty>>

(* One port of convertVIPPortsToPortMappings and what createProxyService   *)
(* makes of its protocol; NaN when ParseInt fails.                         *)
MappedPort(s) ==
    IF Len(s) = 1 THEN Atoi[s[1]] ELSE IF Len(s) = 2 THEN Atoi[s[2]] ELSE NaN

(* The mappings of the first k ports. *)
Mappings(ports) ==
    LET upTo[k \in 0..Len(ports)] ==
            IF k = 0 THEN <<>>
            ELSE IF MappedPort(ports[k]) = NaN THEN upTo[k - 1]
            ELSE Append(upTo[k - 1], [port |-> MappedPort(ports[k]),
                                      udp |-> Len(ports[k]) > 1 /\ ports[k][1] \in UDP])
    IN  upTo[Len(ports)]

(* Dropping the default. *)
PortMappings_Mutant(ports) == Mappings(ports)

PortMappings(ports) ==
    IF Mappings(ports) = <<>> THEN <<[port |-> 80, udp |-> FALSE]>> ELSE Mappings(ports)

(***************************************************************************)
(* resolveTailscaleServiceEndpoints                                        *)
(***************************************************************************)
Add(e) == endpoints' = IF NoHost(e) THEN endpoints ELSE Append(endpoints, e)

(* Going on with the next list even when this one gave endpoints. *)
Enter_Mutant(next) == stage' = next /\ i' = 1 /\ UNCHANGED <<svc, endpoints>>

Enter(next) ==
    /\ stage' = IF endpoints = <<>> THEN next ELSE "done"
    /\ i' = 1
    /\ UNCHANGED <<svc, endpoints>>

(* The addresses the controller found for the VIP service. *)
UseAddress ==
    /\ stage = "addresses" /\ i <= Len(svc.addresses)
    /\ Add(ParseAddress(svc.addresses[i]))
    /\ i' = i + 1
    /\ UNCHANGED <<svc, stage>>

AfterAddresses == stage = "addresses" /\ i > Len(svc.addresses) /\ Enter("backends")

(* Backends of type tailscale are not implemented. *)
UseBackend ==
    /\ stage = "backends" /\ i <= Len(svc.backends)
    /\ IF svc.backends[i].type \in {"kubernetes", "external"}
       THEN Add(ParseAddress(svc.backends[i].ref))
       ELSE UNCHANGED endpoints
    /\ i' = i + 1
    /\ UNCHANGED <<svc, stage>>

AfterBackends == stage = "backends" /\ i > Len(svc.backends) /\ Enter("ports")

UsePort ==
    /\ stage = "ports" /\ i <= Len(svc.ports)
    /\ endpoints' = Append(endpoints, [host |-> Placeholder, port |-> ParsePort(svc.ports[i])])
    /\ i' = i + 1
    /\ UNCHANGED <<svc, stage>>

(* "If absolutely no configuration": a service without ports. *)
AfterPorts ==
    /\ stage = "ports" /\ i > Len(svc.ports)
    /\ stage' = "done" /\ i' = 1
    /\ endpoints' = IF endpoints = <<>> THEN <<[host |-> Placeholder, port |-> 80]>>
                    ELSE endpoints
    /\ UNCHANGED svc

Next ==
    UseAddress \/ AfterAddresses \/ UseBackend \/ AfterBackends \/ UsePort \/ AfterPorts

Spec == Init /\ [][Next]_vars
=============================================================================
