------------------------- MODULE MCExtensionServer -------------------------
(***************************************************************************)
(* Values for the constants of ExtensionServer: an HTTP route and a TLS    *)
(* route, the first and the last kind, one attached to a Gateway in        *)
(* "default" and one to a Gateway elsewhere.                               *)
(***************************************************************************)
EXTENDS ExtensionServer

CONSTANTS e1, e2, r1, r2, g1, g2, g3

RouteKinds == [r \in Routes |-> IF r = r1 THEN 1 ELSE LastKind]

DefaultKeys == [r \in Routes |-> IF r = r1 THEN {"default/eg"} ELSE {"default/edge"}]

(* g1 and g3 refer to the same Gateway, g2 to one outside "default". *)
GatewayKeys == [g \in Gateways |-> IF g = g2 THEN "prod/edge" ELSE "default/eg"]
=============================================================================
