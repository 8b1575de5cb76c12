------------------------- MODULE GatewayReconciler -------------------------
(***************************************************************************)
(* The TailscaleGateway controller                                         *)
(* (src/internal/controller/tailscalegateway_controller.go): it checks     *)
(* that the Gateway and the TailscaleTailnets a TailscaleGateway names     *)
(* exist and publishes the outcome.  It has no finalizer, and it watches   *)
(* only TailscaleGateways; the other objects are read from informer caches *)
(* that may lag.                                                           *)
(*                                                                         *)
(* A Gateway and a TailscaleTailnet are told apart by their identity; an   *)
(* entry of Tailnets stands for the TailscaleTailnet called like it, since *)
(* its TailscaleTailnetRef is read by no code.                             *)
(***************************************************************************)
EXTENDS ControllerRuntime, Sequences, Functions

CONSTANTS
    Referents,   \* the Gateways and TailscaleTailnets there may be
    Removable,   \* those of them that may be deleted
    Specs        \* the specs users write: a Gateway, and the names of the entries of Tailnets

ASSUME RemovableAssumption == Removable \subseteq Referents
ASSUME SpecsAssumption ==
    \A sp \in Specs :
        /\ sp.gateway \in Referents \cup {None}
        /\ sp.names \in Seq(Referents) \ {<<>>}

VARIABLES
    there,   \* the Gateways and TailscaleTailnets in the API server
    shown,   \* those the informers show
    step     \* position in the list of tailnets

vars == <<cluster, worker, budgets, there, shown, step>>

Conditions == {"Unknown", "True", "False"}
StatusType == [gatewayValid : Conditions, tailnetsValid : Conditions, ready : Conditions]
ObjectType == [phase : {"absent", "live", "deleting"}, spec : Specs \cup {None}, status : StatusType]
Calls == {"ignore", "getGateway", "getTailnet", "status"}

NewStatus == [gatewayValid |-> "Unknown", tailnetsValid |-> "Unknown", ready |-> "Unknown"]
NoObject == [phase |-> "absent", spec |-> None, status |-> NewStatus]

TypeOK ==
    /\ RuntimeTypeOK(ObjectType, Calls)
    /\ there \subseteq Referents /\ shown \subseteq Referents
    /\ step \in Nat
    /\ IF pc = "idle" THEN step = 1 ELSE step \in 1..Len(obj.spec.names) + 1

Init ==
    /\ RuntimeInit(NoObject)
    /\ there \in SUBSET Referents /\ shown = there
    /\ step = 1

(***************************************************************************)
(* Users and controller-runtime (external)                                 *)
(***************************************************************************)
Create(k, sp) ==
    /\ api[k].phase = "absent"
    /\ UserWrite(k, [NoObject EXCEPT !.phase = "live", !.spec = sp])
    /\ UNCHANGED <<there, shown, step>>

Edit(k, sp) ==
    /\ api[k].phase # "absent" /\ api[k].spec # sp
    /\ UserWrite(k, [api[k] EXCEPT !.spec = sp])
    /\ UNCHANGED <<there, shown, step>>

(* An object lingers only for a finalizer somebody else has put on it. *)
Delete(k) ==
    /\ \/ api[k].phase = "live" /\ UserWrite(k, [api[k] EXCEPT !.phase = "deleting"])
       \/ api[k].phase # "absent" /\ UserWrite(k, NoObject)
    /\ UNCHANGED <<there, shown, step>>

ChangeReferent(r) ==
    /\ edits < MaxEdits /\ edits' = edits + 1
    /\ r \in there => r \in Removable
    /\ there' = IF r \in there THEN there \ {r} ELSE there \cup {r}
    /\ UNCHANGED <<cluster, worker, faults, shown, step>>

Deliver(k) == WatchEvent(k) /\ UNCHANGED <<there, shown, step>>

Fire(k) == TimerFires(k) /\ UNCHANGED <<there, shown, step>>

DeliverReferent(r) ==
    /\ (r \in there) # (r \in shown)
    /\ shown' = IF r \in there THEN shown \cup {r} ELSE shown \ {r}
    /\ UNCHANGED <<cluster, worker, budgets, there, step>>

Crash == Restart(NoObject) /\ shown' = there /\ step' = 1 /\ UNCHANGED there

(***************************************************************************)
(* Reconcile                                                               *)
(***************************************************************************)
FirstCall(o) == IF o.phase = "deleting" THEN "ignore" ELSE "getGateway"

Reconcile(k) == Begin(k, FirstCall(cache[k])) /\ UNCHANGED <<there, shown, step>>

Finish == Release(NoObject) /\ step' = 1 /\ UNCHANGED timers

(* An error, or a result with RequeueAfter. *)
FinishAndRequeue == ReleaseAndRequeue(NoObject) /\ step' = 1

Ignore ==
    /\ pc = "ignore"
    /\ Finish
    /\ UNCHANGED <<api, cache, stale, queue, budgets, there, shown>>

(* validateGatewayRef.  When it fails, the condition is set on the copy    *)
(* only: the error return does not write it.                               *)
GetGateway ==
    /\ pc = "getGateway"
    /\ \/ /\ obj.spec.gateway \in shown \cup {None}
          /\ pc' = "getTailnet"
          /\ obj' = [obj EXCEPT !.status.gatewayValid = "True"]
          /\ UNCHANGED <<timers, cur, conflict, step>>
       \/ /\ obj.spec.gateway \notin shown \cup {None}
          /\ FinishAndRequeue
    /\ UNCHANGED <<api, cache, stale, queue, budgets, there, shown>>

(* A missing tailnet is skipped. *)
GetTailnet_Mutant ==
    /\ pc = "getTailnet"
    /\ IF step <= Len(obj.spec.names)
       THEN step' = step + 1 /\ UNCHANGED <<pc, obj>>
       ELSE /\ pc' = "status" /\ UNCHANGED step
            /\ obj' = [obj EXCEPT !.status.tailnetsValid = "True", !.status.ready = "True"]
    /\ UNCHANGED <<cluster, cur, conflict, budgets, there, shown>>

(* One round of the loop of validateTailnetRefs.                           *)
GetTailnet ==
    /\ pc = "getTailnet"
    /\ \/ /\ step <= Len(obj.spec.names) /\ obj.spec.names[step] \in shown
          /\ step' = step + 1
          /\ UNCHANGED <<timers, pc, cur, obj, conflict>>
       \/ /\ step <= Len(obj.spec.names) /\ obj.spec.names[step] \notin shown
          /\ FinishAndRequeue
       \/ /\ step > Len(obj.spec.names)
          /\ pc' = "status"
          /\ obj' = [obj EXCEPT !.status.tailnetsValid = "True", !.status.ready = "True"]
          /\ UNCHANGED <<timers, cur, conflict, step>>
    /\ UNCHANGED <<api, cache, stale, queue, budgets, there, shown>>

(* A patch that does not carry the resourceVersion. *)
UpdateStatus_Mutant ==
    /\ pc = "status" /\ api[cur].phase # "absent"
    /\ Write(TRUE, [api[cur] EXCEPT !.status = obj.status])
    /\ FinishAndRequeue
    /\ UNCHANGED <<cache, queue, budgets, there, shown>>

UpdateStatus ==
    /\ pc = "status"
    /\ \E applied, ok \in BOOLEAN :
        Outcome(applied, ok) /\ Write(applied, [api[cur] EXCEPT !.status = obj.status])
    /\ FinishAndRequeue
    /\ UNCHANGED <<cache, queue, edits, there, shown>>

(***************************************************************************)
(* Specification                                                           *)
(***************************************************************************)
WorkerStep == Ignore \/ GetGateway \/ GetTailnet \/ UpdateStatus

Next ==
    \/ \E k \in Keys, sp \in Specs : Create(k, sp) \/ Edit(k, sp)
    \/ \E k \in Keys : Delete(k) \/ Deliver(k) \/ Fire(k) \/ Reconcile(k)
    \/ \E r \in Referents : ChangeReferent(r) \/ DeliverReferent(r)
    \/ Crash
    \/ WorkerStep

(* As in ServiceReconciler. *)
Fairness ==
    /\ WF_vars(WorkerStep)
    /\ \A k \in Keys : WF_vars(Deliver(k)) /\ WF_vars(Fire(k)) /\ SF_vars(Reconcile(k))
    /\ \A r \in Referents : WF_vars(DeliverReferent(r))

Spec == Init /\ [][Next]_vars

FairSpec == Spec /\ Fairness

(***************************************************************************)
(* Properties                                                              *)
(***************************************************************************)
Live(k) == api[k].phase = "live"

(* The Gateway and the tailnets a spec names. *)
Needs(sp) == ({sp.gateway} \ {None}) \cup Range(sp.names)

(* A status that says Ready is written only when everything the spec names *)
(* exists, the spec being the one in the API server then and not the one   *)
(* read at the start.  Of what may be deleted the informer may still show  *)
(* what is gone.                                                           *)
ReadyIsJustified ==
    [][\A k \in Keys :
          api'[k].status # api[k].status /\ api'[k].status.ready = "True"
          => Needs(api'[k].spec) \ Removable \subseteq there]_vars

(* Once all rests, an object whose Gateway and tailnets exist is Ready,    *)
(* although nothing tells the controller when one of them appears.         *)
ReadyInTheEnd ==
    <>[](\A k \in Keys : Live(k) /\ Needs(api[k].spec) \subseteq there =>
            api[k].status.ready = "True")

(***************************************************************************)
(* Why ReadyIsJustified holds: the inductive invariant                     *)
(***************************************************************************)
CacheInSync == \A k \in Keys : k \notin stale => cache[k] = api[k]

(* A copy that can still be written back has the API server's spec. *)
CopyInSync ==
    pc # "idle" /\ ~conflict => cur \notin stale /\ obj.spec = api[cur].spec

Specified(o) == o.phase # "absent" => o.spec \in Specs

ObjectsSpecified ==
    /\ \A k \in Keys : Specified(api[k]) /\ Specified(cache[k])
    /\ pc # "idle" => obj.spec \in Specs

(* What is never removed is there once an informer has shown it. *)
Present == there \cup Removable

(* The worker has found what it has gone past: the Gateway, then the       *)
(* tailnets before its position, all of them when it writes the status.    *)
FoundSoFar ==
    /\ pc \in {"ignore", "getGateway"} => step = 1
    /\ pc \in {"getTailnet", "status"} =>
          /\ obj.spec.gateway \in Present \cup {None}
          /\ \A i \in 1..Len(obj.spec.names) : i < step => obj.spec.names[i] \in Present
    /\ pc = "status" => step = Len(obj.spec.names) + 1

(* However caches lag and users, restarts and the worker interleave, the   *)
(* copies agree where they may be written, and what the worker counts as   *)
(* found exists unless it may be removed.                                  *)
IInv ==
    /\ TypeOK /\ CacheInSync /\ CopyInSync /\ ObjectsSpecified
    /\ shown \subseteq Present /\ FoundSoFar
=============================================================================
