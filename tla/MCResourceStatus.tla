------------------------- MODULE MCResourceStatus -------------------------
(***************************************************************************)
(* Values for the constants of ResourceStatus: constructors of either      *)
(* severity and with contexts that do and do not overlap with those of     *)
(* their wrappers.                                                         *)
(***************************************************************************)
EXTENDS ResourceStatus

SomeFailures == {"validation", "discovery"}
=============================================================================
