------------------------ MODULE EndpointProperties ------------------------
(***************************************************************************)
(* What an Envoy cluster of a TailscaleService must point to.              *)
(***************************************************************************)
EXTENDS SpecValidation, FiniteSets

CONSTANT
    Heads   \* [name, tags, proxy, tailnet], the rest of a spec

ASSUME HeadsAssumption ==
    \A head \in Heads : head.name \in Strings /\ head.tags \subseteq Strings

Hosts == {endpoints[j].host : j \in DOMAIN endpoints}

(* What a reader of a string expects of it: without a port it is a host,   *)
(* with one colon it is a host and a port, and with more it is an IPv6     *)
(* address.                                                                *)
HostOf(s) == IF Len(s) = 2 THEN <<s[1]>> ELSE s
Named(s) == HostOf(s) # <<Empty>>

References == [k \in DOMAIN svc.backends |-> svc.backends[k].ref]

(* Where the usable addresses and backends are, and which one of them is   *)
(* the one at k.                                                           *)
NamedAddresses == {k \in DOMAIN svc.addresses : Named(svc.addresses[k])}
NamedBackends ==
    {k \in DOMAIN svc.backends :
        svc.backends[k].type \in {"kubernetes", "external"} /\ Named(References[k])}
Rank(S, k) == Cardinality({m \in S : m <= k})

HostsIn(S, strings) == {ParseAddress(strings[k]).host : k \in S}

(* The sources are tried in order and never mixed: the cluster has the     *)
(* VIP addresses, or else the backends, or else one placeholder per port,  *)
(* each entry giving exactly one endpoint, and never no endpoint at all.   *)
FirstSourceOnly ==
    stage = "done" =>
        /\ endpoints # <<>>
        /\ Len(endpoints) =
              IF NamedAddresses # {} THEN Cardinality(NamedAddresses)
              ELSE IF NamedBackends # {} THEN Cardinality(NamedBackends)
              ELSE Len(svc.ports)
        /\ Hosts = IF NamedAddresses # {} THEN HostsIn(NamedAddresses, svc.addresses)
                   ELSE IF NamedBackends # {} THEN HostsIn(NamedBackends, References)
                   ELSE {Placeholder}

IsIPv6(s) == Len(s) > 2

(* Without IPv6 addresses, every endpoint has the host and the port that   *)
(* its address was written with, in the order of the addresses.            *)
HostsAndPortsKept ==
    /\ stage = "done"
    /\ \A k \in DOMAIN svc.addresses : ~IsIPv6(svc.addresses[k])
    => \A k \in NamedAddresses :
          LET s == svc.addresses[k]
              e == endpoints[Rank(NamedAddresses, k)]
          IN  /\ e.host = HostOf(s)
              /\ Len(s) = 2 /\ s[2] \in Digits => Atoi[s[2]] \in {NaN, e.port}

(* The proxy gets at least one port, and every single port the client      *)
(* accepts: the number the cluster uses for it too, and its protocol.      *)
SinglePortsMapped ==
    LET mapped == PortMappings(svc.ports) IN
    /\ mapped # <<>>
    /\ \A j \in DOMAIN svc.ports :
          LET s == svc.ports[j] IN
          ValidPort(s) /\ Len(s) = 2 /\ s[2] \in Digits /\ Atoi[s[2]] # NaN =>
              \E x \in DOMAIN mapped :
                  mapped[x] = [port |-> ParsePort(s), udp |-> s[1] \in UDP]

(* When validation admits a service that has no usable address, Envoy     *)
(* gets every backend it can resolve, in order, with the host and, if it   *)
(* is a number, the port it was written with.                              *)
AdmittedBackendsKept ==
    stage = "done" /\ NamedAddresses = {} =>
        \A head \in Heads :
            Admitted(head, svc) =>
                LET used == {k \in DOMAIN svc.backends : svc.backends[k].type # "tailscale"} IN
                used # {} =>
                    /\ Len(endpoints) = Cardinality(used)
                    /\ \A k \in used :
                          LET s == References[k]
                              e == endpoints[Rank(used, k)]
                          IN  /\ e.host = <<s[1]>>
                              /\ s[2] \in Digits => Atoi[s[2]] \in {NaN, e.port}

(* The three gatekeepers agree: what validation admits, the schema admits  *)
(* if and only if no backend has a negative priority, and the Tailscale    *)
(* client accepts, unless it gives no name, a reserved one or one that is  *)
(* too long, or a port without a number.  And each of its ports that is a  *)
(* number is one a socket can have, the same for Envoy and for the proxy.  *)
AdmittedIsAccepted ==
    stage = "done" =>
        \A head \in Heads :
            Admitted(head, svc) =>
                /\ SchemaAdmits(head, svc) <=>
                      \A j \in DOMAIN svc.backends : SchemaPriority(svc.backends[j])
                /\ \/ head.name = <<Empty>> \/ Last(head.name) \in Reserved \cup TooLong
                   \/ \E j \in DOMAIN svc.ports : Last(svc.ports[j]) = Empty
                   \/ ClientAccepts(head.name, head.tags, svc.ports)
                /\ \A j \in DOMAIN svc.ports :
                      LET s == svc.ports[j] IN
                      Last(s) \in Digits =>
                          /\ MappedPort(s) \in SocketPorts
                          /\ ParsePort(s) = MappedPort(s)

(***************************************************************************)
(* The inductive invariant                                                 *)
(***************************************************************************)
TypeOK ==
    /\ svc \in Services
    /\ stage \in {"addresses", "backends", "ports", "done"}
    /\ i \in Nat \ {0}
    /\ endpoints \in Seq([host : Seq(Tokens), port : Nat])

(* The loop has added an endpoint for each usable string before round n.   *)
Filled(list, S, strings, n) ==
    LET before == {k \in S : k < n} IN
    /\ Len(list) = Cardinality(before)
    /\ \A k \in before : list[Rank(S, k)] = ParseAddress(strings[k])

Placed(n) ==
    /\ Len(endpoints) = n - 1
    /\ \A k \in DOMAIN endpoints :
          endpoints[k] = [host |-> Placeholder, port |-> ParsePort(svc.ports[k])]

LoopInv ==
    /\ stage = "addresses" =>
          /\ i <= Len(svc.addresses) + 1
          /\ Filled(endpoints, NamedAddresses, svc.addresses, i)
    /\ stage = "backends" =>
          /\ NamedAddresses = {}
          /\ i <= Len(svc.backends) + 1
          /\ Filled(endpoints, NamedBackends, References, i)
    /\ stage = "ports" =>
          /\ NamedAddresses = {} /\ NamedBackends = {}
          /\ i <= Len(svc.ports) + 1 /\ Placed(i)
    /\ stage = "done" =>
          IF NamedAddresses # {}
          THEN Filled(endpoints, NamedAddresses, svc.addresses, Len(svc.addresses) + 1)
          ELSE IF NamedBackends # {}
          THEN Filled(endpoints, NamedBackends, References, Len(svc.backends) + 1)
          ELSE Placed(Len(svc.ports) + 1)

IInv == TypeOK /\ LoopInv
=============================================================================
