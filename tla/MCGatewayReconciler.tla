------------------------ MODULE MCGatewayReconciler ------------------------
(***************************************************************************)
(* Values for the constants of GatewayReconciler.                          *)
(***************************************************************************)
EXTENDS GatewayReconciler, TLC

CONSTANTS k1, gw, tn1, tn2

(* No gatewayRef; one tailnet; two tailnets. *)
ThreeSpecs == {[gateway |-> None, names |-> <<tn2>>],
               [gateway |-> gw, names |-> <<tn1>>],
               [gateway |-> gw, names |-> <<tn1, tn2>>]}
=============================================================================
