------------------------ MODULE MCTailnetReconciler ------------------------
(***************************************************************************)
(* Values for the constants of TailnetReconciler: two sets of credentials, *)
(* each of a tailnet of its own.                                           *)
(***************************************************************************)
EXTENDS TailnetProperties, TLC

CONSTANTS t1, oauth1, oauth2, cred1, cred2

(* The first secret named in full, the rotating one with and without its   *)
(* namespace.                                                              *)
SomeSpecs == {[secret |-> oauth1, named |-> TRUE], [secret |-> oauth2, named |-> TRUE],
              [secret |-> oauth2, named |-> FALSE]}

FullSpec == {[secret |-> oauth1, named |-> TRUE]}

DomainOf == [c \in Credentials |-> IF c = cred1 THEN "tail1.ts.net" ELSE "tail2.ts.net"]
=============================================================================
