-------------------------- MODULE MCClientManager --------------------------
(***************************************************************************)
(* Values for the constants of ClientManager: two calls for one tailnet,   *)
(* whose secret holds its credentials or does not.                         *)
(***************************************************************************)
EXTENDS ClientManagerProperties

CONSTANTS p1, p2, t1, s1, c1
=============================================================================
