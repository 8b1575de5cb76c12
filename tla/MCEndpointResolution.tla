----------------------- MODULE MCEndpointResolution -----------------------
(***************************************************************************)
(* Values for the constants of EndpointResolution.  The numbers are those  *)
(* Go reads in the tokens: "115c" starts with a number, "80-443" is a      *)
(* range, 70000 is no port, "+443" is 443 except for Sscanf, and "http"    *)
(* has a port for tcp only.                                                *)
(***************************************************************************)
EXTENDS EndpointProperties, TLC

Ports == {<<"tcp", "443">>, <<"udp", "443">>, <<"UDP", "8080">>, <<"8080">>,
          <<"http">>, <<"tcp", "http">>, <<"tcp", "">>, <<"tcp", "443", "1">>,
          <<"tcp", "80-443">>, <<"tcp", "70000">>, <<"tcp", "+443">>}

VIPAddresses == {<<"100.64.0.7">>, <<"100.64.0.7", "8080">>, <<"web.default.svc", "http">>,
         <<"", "443">>, <<"">>, <<"fd7a", "115c", "", "1">>}

Backend(type, ref, weight, priority) ==
    [type |-> type, ref |-> ref, weight |-> weight, priority |-> priority]

BackendRefs == {
    Backend("kubernetes", <<"web.default.svc", "443">>, None, None),
    Backend("kubernetes", <<"web.default.svc", "http">>, 100, -1),
    Backend("kubernetes", <<"fd7a", "115c", "", "1">>, 1, 0),
    Backend("kubernetes", <<"">>, 1, None),
    Backend("external", <<"100.64.0.7", "8080">>, 0, 0),
    Backend("external", <<"100.64.0.7", "70000">>, 1, 0),
    Backend("external", <<"100.64.0.7">>, 101, None),
    Backend("external", <<"", "443">>, 1, None),
    Backend("tailscale", <<"web">>, 1, 10)}

TokensChosen ==
    {"", "100.64.0.7", "100.100.100.1", "web.default.svc", "web", "localhost", "svc", "tag",
     "8080", "443", "+443", "80-443", "http", "70000", "tcp", "udp", "UDP", "fd7a", "115c", "1"}

AtoiGo ==
    [t \in TokensChosen |-> CASE t = "8080" -> 8080 [] t \in {"443", "+443"} -> 443 [] t = "1" -> 1
                        [] t = "70000" -> 70000 [] OTHER -> NaN]
ScanGo ==
    [t \in TokensChosen |-> CASE t = "80-443" -> 80 [] t = "115c" -> 115 [] t = "100.64.0.7" -> 100
                        [] t = "100.100.100.1" -> 100 [] t = "+443" -> NaN
                        [] OTHER -> AtoiGo[t]]
LookupGo ==
    [net \in {"tcp", "udp"} |->
        [t \in TokensChosen |-> CASE t = "" -> 0 [] t = "http" /\ net = "tcp" -> 80
                            [] t = "70000" -> NaN [] OTHER -> AtoiGo[t]]]

Host100 == <<"100.100.100.1">>

HeadOf(name, tags, proxy, tailnet) ==
    [name |-> name, tags |-> tags, proxy |-> proxy, tailnet |-> tailnet]

Web == {<<"tag", "web">>}

HeadsChosen == {
    HeadOf(<<"svc", "web">>, Web, None, ""),
    HeadOf(<<"svc", "web">>, Web, [replicas |-> 1, type |-> "egress"], "corp"),
    HeadOf(<<"svc", "web">>, Web, [replicas |-> 0, type |-> ""], "corp"),
    HeadOf(<<"svc", "web">>, Web, [replicas |-> None, type |-> "both"], "corp"),
    HeadOf(<<"svc", "web">>, Web, [replicas |-> None, type |-> ""], ""),
    HeadOf(<<"svc", "web">>, {<<"tag", "">>}, None, ""),
    HeadOf(<<"svc", "web">>, {<<"">>} \cup Web, None, ""),
    HeadOf(<<"svc", "web">>, {}, None, ""),
    HeadOf(<<"svc", "web", "1">>, Web, None, ""),
    HeadOf(<<"svc", "web.default.svc">>, Web, None, ""),
    HeadOf(<<"svc", "localhost">>, Web, None, ""),
    HeadOf(<<"web">>, Web, None, ""),
    HeadOf(<<"">>, Web, None, "")}
=============================================================================
