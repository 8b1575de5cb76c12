------------------------- MODULE TailnetReconciler -------------------------
(***************************************************************************)
(* The TailscaleTailnet controller                                         *)
(* (src/internal/controller/tailscaletailnet_controller.go): it proves the *)
(* OAuth credentials of a Secret by creating and deleting an auth key,     *)
(* looks up the tailnet's domain, and publishes what it found.             *)
(*                                                                         *)
(* One action per remote call, as in ServiceReconciler.  The Secret is     *)
(* read from an informer cache of its own; nothing watches it.  What       *)
(* recordError and recordMetrics write after the last call stays in the    *)
(* worker's copy and is left out.                                          *)
(***************************************************************************)
EXTENDS ControllerRuntime

CONSTANTS
    SecretNames,   \* OAuth secrets a spec may name
    Specs,         \* the specs users write
    Credentials,   \* contents with client_id and client_secret
    Domain,        \* Credentials -> the domain of the tailnet they belong to
    Empty,         \* the empty domain
    Rotating,      \* the secrets whose contents may change
    Undotted       \* the tailnets where a device may have a name without a domain

Domains == {Domain[c] : c \in Credentials}
Contents == Credentials \cup {None}

(* named: does the spec give the namespace of the secret? *)
SpecType == [secret : SecretNames, named : BOOLEAN]

ASSUME SpecsAssumption == Specs \subseteq SpecType
ASSUME CredentialsAssumption == None \notin Credentials
ASSUME DomainAssumption ==
    DOMAIN Domain = Credentials /\ None # Empty /\ {None, Empty} \cap Domains = {}
ASSUME RotationAssumption == Rotating \subseteq SecretNames
ASSUME UndottedAssumption == Undotted \subseteq Domains

VARIABLES
    secrets,   \* the secrets in the API server; None is one that is missing or incomplete
    seen,      \* the informer's copy of them
    accepted,  \* the credentials the Tailscale API accepts
    devices,   \* how each tailnet's first device is named
    keys,      \* validation keys left in the tailnets
    cred       \* the credentials of the client of this pass

external == <<secrets, seen, accepted, devices>>
vars == <<cluster, worker, budgets, external, keys, cred>>

Conditions == {"Unknown", "True", "False"}
StatusType == [authenticated : Conditions, validated : Conditions, ready : Conditions,
               domain : Domains \cup {Empty, None}]
(* foreign: does the object carry a finalizer of somebody else? *)
ObjectType == [phase : {"absent", "live", "deleting"}, finalizer : BOOLEAN,
               foreign : BOOLEAN, spec : SpecType \cup {None}, status : StatusType]
Calls == {"addFinalizer", "getSecret", "createKey", "deleteKey", "discover", "status",
          "removeFinalizer"}

NewStatus == [authenticated |-> "Unknown", validated |-> "Unknown", ready |-> "Unknown",
              domain |-> None]
NoObject == [phase |-> "absent", finalizer |-> FALSE, foreign |-> FALSE, spec |-> None,
             status |-> NewStatus]

(* The first device of a tailnet, if it has one, has a name with its       *)
(* domain after the first dot, or a name without a dot, an empty one say.  *)
Devices ==
    {f \in [Domains -> {"none", "dotted", "undotted"}] :
        \A d \in Domains : f[d] = "undotted" => d \in Undotted}

TypeOK ==
    /\ RuntimeTypeOK(ObjectType, Calls)
    /\ secrets \in [SecretNames -> Contents]
    /\ seen \in [SecretNames -> Contents]
    /\ accepted \subseteq Credentials
    /\ devices \in Devices
    /\ keys \in Nat
    /\ cred \in Credentials \cup {None}

Init ==
    /\ RuntimeInit(NoObject)
    /\ secrets \in [SecretNames -> Contents] /\ seen = secrets
    /\ accepted = Credentials /\ devices \in Devices
    /\ keys = 0 /\ cred = None

(***************************************************************************)
(* Users and other controllers (external)                                  *)
(***************************************************************************)
Create(k, sp, foreign) ==
    /\ api[k].phase = "absent"
    /\ UserWrite(k, [NoObject EXCEPT !.phase = "live", !.spec = sp, !.foreign = foreign])
    /\ UNCHANGED <<external, keys, cred>>

Edit(k, sp) ==
    /\ api[k].phase # "absent" /\ api[k].spec # sp
    /\ UserWrite(k, [api[k] EXCEPT !.spec = sp])
    /\ UNCHANGED <<external, keys, cred>>

Delete(k) ==
    /\ api[k].phase = "live"
    /\ UserWrite(k, IF api[k].finalizer \/ api[k].foreign
                    THEN [api[k] EXCEPT !.phase = "deleting"] ELSE NoObject)
    /\ UNCHANGED <<external, keys, cred>>

(* The owner of the other finalizer drops it once the object is deleted.   *)
DropForeign(k) ==
    /\ api[k].phase = "deleting" /\ api[k].foreign
    /\ api' = [api EXCEPT ![k] = IF @.finalizer THEN [@ EXCEPT !.foreign = FALSE]
                                 ELSE NoObject]
    /\ Bump(k)
    /\ conflict' = (conflict \/ cur = k)
    /\ UNCHANGED <<cache, queue, timers, pc, cur, obj, budgets, external, keys, cred>>

ChangeSecret(n, v) ==
    /\ edits < MaxEdits /\ edits' = edits + 1
    /\ secrets[n] # v
    /\ n \in Rotating \/ secrets[n] = None
    /\ secrets' = [secrets EXCEPT ![n] = v]
    /\ UNCHANGED <<cluster, worker, faults, seen, accepted, devices, keys, cred>>

ChangeDevices ==
    /\ edits < MaxEdits /\ edits' = edits + 1
    /\ \E d \in Domains, name \in {"none", "dotted", "undotted"} :
          devices' = [devices EXCEPT ![d] = name] /\ devices' # devices
    /\ devices' \in Devices
    /\ UNCHANGED <<cluster, worker, faults, secrets, seen, accepted, keys, cred>>

(* The OAuth client is deleted or its secret expires in the tailnet.       *)
Revoke(c) ==
    /\ c \in accepted
    /\ Fault("revoke")
    /\ accepted' = accepted \ {c}
    /\ UNCHANGED <<cluster, worker, edits, secrets, seen, devices, keys, cred>>

(* Auth keys that nobody deleted expire. *)
ExpireKey ==
    /\ keys > 0 /\ pc # "deleteKey"
    /\ keys' = keys - 1
    /\ UNCHANGED <<cluster, worker, budgets, external, cred>>

(***************************************************************************)
(* controller-runtime (external)                                           *)
(***************************************************************************)
Deliver(k) == WatchEvent(k) /\ UNCHANGED <<external, keys, cred>>

Fire(k) == TimerFires(k) /\ UNCHANGED <<external, keys, cred>>

(* Secrets are cached for the client; no controller is told of them.       *)
DeliverSecret(n) ==
    /\ seen[n] # secrets[n]
    /\ seen' = [seen EXCEPT ![n] = secrets[n]]
    /\ UNCHANGED <<cluster, worker, budgets, secrets, accepted, devices, keys, cred>>

Crash ==
    /\ Restart(NoObject)
    /\ seen' = secrets /\ cred' = None
    /\ UNCHANGED <<secrets, accepted, devices, keys>>

(***************************************************************************)
(* Reconcile                                                               *)
(***************************************************************************)
(* The finalizer comes before the question whether the object is being     *)
(* deleted.                                                                *)
FirstCall(o) ==
    IF ~o.finalizer THEN "addFinalizer"
    ELSE IF o.phase = "deleting" THEN "removeFinalizer" ELSE "getSecret"

Reconcile(k) == Begin(k, FirstCall(cache[k])) /\ UNCHANGED <<external, keys, cred>>

Done == Release(NoObject) /\ cred' = None

Finish == Done /\ UNCHANGED timers

FinishAndRequeue == ReleaseAndRequeue(NoObject) /\ cred' = None

(* The API server refuses new finalizers on an object that is being        *)
(* deleted.                                                                *)
AddFinalizer ==
    /\ pc = "addFinalizer"
    /\ \/ /\ obj.phase = "live"
          /\ \E applied, ok \in BOOLEAN :
                /\ Outcome(applied, ok)
                /\ Write(applied, [api[cur] EXCEPT !.finalizer = TRUE])
                /\ IF ok THEN Finish ELSE FinishAndRequeue
       \/ /\ obj.phase = "deleting"
          /\ FinishAndRequeue
          /\ UNCHANGED <<api, stale, faults>>
    /\ UNCHANGED <<cache, queue, edits, external, keys>>

(* The namespace of the secret defaults to that of the TailscaleTailnet,   *)
(* which is empty, the kind being cluster-scoped: nothing is found there.  *)
SecretOf(sp) == IF sp.named THEN seen[sp.secret] ELSE None

(* createTailscaleClient.  When it fails, the condition is set on the copy *)
(* only: the error return does not write it.                               *)
GetSecret ==
    /\ pc = "getSecret"
    /\ \/ /\ SecretOf(obj.spec) \in Credentials
          /\ pc' = "createKey" /\ cred' = SecretOf(obj.spec)
          /\ UNCHANGED <<timers, cur, obj, conflict>>
       \/ /\ SecretOf(obj.spec) \notin Credentials
          /\ FinishAndRequeue
    /\ UNCHANGED <<api, cache, stale, queue, budgets, external, keys>>

(* Going on without deleting the key. *)
CreateKey_Mutant ==
    /\ pc = "createKey" /\ cred \in accepted
    /\ keys' = keys + 1
    /\ pc' = "discover"
    /\ obj' = [obj EXCEPT !.status.authenticated = "True"]
    /\ UNCHANGED <<cluster, budgets, cur, conflict, external, cred>>

(* CreateKey of validateOAuthCredentials. *)
CreateKey ==
    /\ pc = "createKey"
    /\ \/ /\ cred \in accepted
          /\ keys' = keys + 1
          /\ pc' = "deleteKey"
          /\ UNCHANGED <<timers, cur, obj, conflict, cred, faults>>
       \/ /\ cred \in accepted /\ Fault("lost")
          /\ keys' = keys + 1
          /\ FinishAndRequeue
       \/ /\ \/ cred \notin accepted /\ UNCHANGED faults
             \/ Fault("tailscale")
          /\ UNCHANGED keys
          /\ FinishAndRequeue
    /\ UNCHANGED <<api, cache, stale, queue, edits, external>>

(* DeleteKey; a failure is logged and the key left to expire.              *)
DeleteKey ==
    /\ pc = "deleteKey"
    /\ \/ cred \in accepted /\ keys' = keys - 1 /\ UNCHANGED faults
       \/ /\ \/ cred \notin accepted /\ UNCHANGED faults
             \/ Fault("tailscale")
          /\ UNCHANGED keys
    /\ pc' = "discover"
    /\ obj' = [obj EXCEPT !.status.authenticated = "True"]
    /\ UNCHANGED <<cluster, edits, cur, conflict, external, cred>>

(* DiscoverTailnetInfo: the domain is what follows the first dot in the    *)
(* name of the first device.  Without a device it fails, but not without a *)
(* dot.                                                                    *)
HasDevice(c) == devices[Domain[c]] # "none"
Discovered(c) == IF devices[Domain[c]] = "dotted" THEN Domain[c] ELSE Empty

(* discoverAndUpdateTailnetInfo.  A failure leaves the domain found before *)
(* and does not keep the tailnet from being Ready.                         *)
Discover ==
    /\ pc = "discover"
    /\ \/ /\ cred \in accepted /\ HasDevice(cred)
          /\ obj' = [obj EXCEPT !.status.validated = "True", !.status.ready = "True",
                                !.status.domain = Discovered(cred)]
          /\ UNCHANGED faults
       \/ /\ \/ ~(cred \in accepted /\ HasDevice(cred)) /\ UNCHANGED faults
             \/ Fault("tailscale")
          /\ obj' = [obj EXCEPT !.status.validated = "False", !.status.ready = "True"]
    /\ pc' = "status"
    /\ UNCHANGED <<cluster, edits, cur, conflict, external, keys, cred>>

(* A patch that does not carry the resourceVersion. *)
UpdateStatus_Mutant ==
    /\ pc = "status" /\ api[cur].phase # "absent"
    /\ Write(TRUE, [api[cur] EXCEPT !.status = obj.status])
    /\ FinishAndRequeue
    /\ UNCHANGED <<cache, queue, budgets, external, keys>>

UpdateStatus ==
    /\ pc = "status"
    /\ \E applied, ok \in BOOLEAN :
        Outcome(applied, ok) /\ Write(applied, [api[cur] EXCEPT !.status = obj.status])
    /\ FinishAndRequeue
    /\ UNCHANGED <<cache, queue, edits, external, keys>>

(* handleDeletion.  Another finalizer keeps the object. *)
RemoveFinalizer ==
    /\ pc = "removeFinalizer"
    /\ \E applied, ok \in BOOLEAN :
        /\ Outcome(applied, ok)
        /\ Write(applied, IF api[cur].foreign THEN [api[cur] EXCEPT !.finalizer = FALSE]
                          ELSE NoObject)
        /\ IF ok THEN Finish ELSE FinishAndRequeue
    /\ UNCHANGED <<cache, queue, edits, external, keys>>

(***************************************************************************)
(* Specification                                                           *)
(***************************************************************************)
WorkerStep ==
    \/ AddFinalizer \/ GetSecret \/ CreateKey \/ DeleteKey \/ Discover
    \/ UpdateStatus \/ RemoveFinalizer

Next ==
    \/ \E k \in Keys, sp \in Specs :
          Edit(k, sp) \/ \E foreign \in BOOLEAN : Create(k, sp, foreign)
    \/ \E k \in Keys : Delete(k) \/ DropForeign(k) \/ Deliver(k) \/ Fire(k) \/ Reconcile(k)
    \/ \E n \in SecretNames : DeliverSecret(n) \/ \E v \in Contents : ChangeSecret(n, v)
    \/ ChangeDevices
    \/ \E c \in Credentials : Revoke(c)
    \/ ExpireKey \/ Crash
    \/ WorkerStep

(* As in ServiceReconciler; other controllers drop their finalizers.       *)
Fairness ==
    /\ WF_vars(WorkerStep)
    /\ \A k \in Keys :
          /\ WF_vars(Deliver(k)) /\ WF_vars(Fire(k)) /\ SF_vars(Reconcile(k))
          /\ WF_vars(DropForeign(k))
    /\ \A n \in SecretNames : WF_vars(DeliverSecret(n))

Spec == Init /\ [][Next]_vars

FairSpec == Spec /\ Fairness
=============================================================================
