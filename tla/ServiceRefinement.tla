------------------------- MODULE ServiceRefinement -------------------------
(***************************************************************************)
(* The refinement mapping from ServiceReconciler to VIPLifecycle.          *)
(***************************************************************************)
EXTENDS ServiceProperties

PhaseOf(o) ==
    CASE o.phase = "absent" -> "absent"
      [] o.phase = "deleting" -> "terminating"
      [] o.phase = "live" /\ o.finalizer -> "guarded"
      [] o.phase = "live" /\ ~o.finalizer -> "bare"

ClaimOf(o) == IF o.status.created THEN o.status.name ELSE None

Lifecycle == INSTANCE VIPLifecycle WITH
    phase <- [s \in Keys |-> PhaseOf(api[s])],
    claim <- [s \in Keys |-> ClaimOf(api[s])],
    exists <- {n \in VIPNames : Exists(n)}

(* The controller, its crashes, stale reads and refused or lost writes,    *)
(* implements the life cycle of VIP services, as long as deleting a VIP    *)
(* service does not fail.                                                  *)
ImplementsLifecycle == Lifecycle!Spec
=============================================================================
