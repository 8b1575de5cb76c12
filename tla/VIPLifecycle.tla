--------------------------- MODULE VIPLifecycle ---------------------------
(***************************************************************************)
(* What the TailscaleService controller promises about the VIP services of *)
(* a tailnet, without caches, queues, calls or faults: a VIP service       *)
(* appears only while an object that will clean it up is guarded by the    *)
(* finalizer; a claim to a VIP service is recorded only in a guarded       *)
(* object nobody asked to delete; and an object goes away only when the    *)
(* VIP service it claims is gone.                                          *)
(* ServiceReconciler implements this: see ServiceRefinement.               *)
(***************************************************************************)
CONSTANTS Keys, VIPNames, None

VARIABLES
    phase,   \* the life of each object
    claim,   \* the VIP service each object's status records as created
    exists   \* the VIP services in the tailnet

vars == <<phase, claim, exists>>

Phases == {"absent", "bare", "guarded", "terminating"}

TypeOK ==
    /\ phase \in [Keys -> Phases]
    /\ claim \in [Keys -> VIPNames \cup {None}]
    /\ exists \subseteq VIPNames

Init ==
    /\ phase = [s \in Keys |-> "absent"]
    /\ claim = [s \in Keys |-> None]
    /\ exists = {}

Move(s, from, to) ==
    /\ phase[s] = from
    /\ phase' = [phase EXCEPT ![s] = to]
    /\ UNCHANGED exists

Submit(s) == Move(s, "absent", "bare") /\ UNCHANGED claim
Withdraw(s) == Move(s, "bare", "absent") /\ UNCHANGED claim
Guard(s) == Move(s, "bare", "guarded") /\ UNCHANGED claim
Terminate(s) == Move(s, "guarded", "terminating") /\ UNCHANGED claim

Claim(s, n) ==
    /\ phase[s] = "guarded"
    /\ claim' = [claim EXCEPT ![s] = n]
    /\ UNCHANGED <<phase, exists>>

Gone(s) ==
    /\ claim[s] \notin exists
    /\ Move(s, "terminating", "absent")
    /\ claim' = [claim EXCEPT ![s] = None]

Provision(n) ==
    /\ \E s \in Keys : phase[s] \in {"guarded", "terminating"}
    /\ exists' = exists \cup {n}
    /\ UNCHANGED <<phase, claim>>

Remove(n) ==
    /\ n \in exists
    /\ exists' = exists \ {n}
    /\ UNCHANGED <<phase, claim>>

Next ==
    \/ \E s \in Keys :
          Submit(s) \/ Withdraw(s) \/ Guard(s) \/ Terminate(s) \/ Gone(s)
    \/ \E s \in Keys, n \in VIPNames : Claim(s, n)
    \/ \E n \in VIPNames : Provision(n) \/ Remove(n)

Spec == Init /\ [][Next]_vars
=============================================================================
