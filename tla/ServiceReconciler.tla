------------------------- MODULE ServiceReconciler -------------------------
(***************************************************************************)
(* The TailscaleService controller                                         *)
(* (src/internal/controller/tailscaleservice_controller.go) together with  *)
(* the proxy builder it calls (src/internal/proxy/builder.go), running     *)
(* against the Kubernetes API server, the informer cache and work queue of *)
(* controller-runtime, and the VIP service store of a tailnet.             *)
(*                                                                         *)
(* Reconcile is split at every remote call: each call is one action, and   *)
(* users, the informer, timers, crashes and failing calls interleave       *)
(* between any two of them.  What runs between two calls touches only the  *)
(* worker's private copy of the object and belongs to the action before.   *)
(***************************************************************************)
EXTENDS ControllerRuntime, Sequences

CONSTANTS
    VIPNames,     \* names of VIP services in the tailnet
    DefaultName,  \* Keys -> VIPNames: "svc:" + metadata.name, which drops the namespace
    Configs,      \* contents of a spec: ports, tags, backends
    Invalid,      \* names and contents ValidateVIPService rejects
    Addrs,        \* addresses the tailnet can allocate
    Specs,        \* the specs users write
    HasClient     \* is TailscaleServiceReconciler.TsClient set?

AllFaults == {"get", "put", "delete", "kube", "lost", "crash", "admin"}

SpecType == [vip : VIPNames \cup {None}, cfg : Configs \cup {None},
             proxy : BOOLEAN, tailnet : BOOLEAN]

ASSUME NoneAssumption == None \notin VIPNames \cup Configs \cup Addrs
ASSUME DefaultNameAssumption == DefaultName \in [Keys -> VIPNames]
ASSUME SpecsAssumption == Specs \subseteq {sp \in SpecType : sp.cfg # None}
ASSUME SwitchAssumption == HasClient \in BOOLEAN /\ FaultKinds \subseteq AllFaults

(* Operators named ..._Mutant are forms of the next definition that a      *)
(* mistake in the code would give; no specification uses them.             *)
ProxyOrder_Mutant == <<"ConfigSecret", "StatefulSet", "ServiceAccount", "Role",
                       "RoleBinding", "HeadlessService">>

(* The objects CreateProxyInfrastructure creates, in its order. *)
ProxyOrder == <<"ServiceAccount", "Role", "RoleBinding",
                "ConfigSecret", "StatefulSet", "HeadlessService">>
ProxyKinds == {ProxyOrder[i] : i \in 1..6}

VARIABLES
    step,      \* position in ProxyOrder
    vips,      \* VIP services in the tailnet
    children   \* proxy objects in the cluster, with their owner

vars == <<cluster, worker, step, vips, children, budgets>>

(***************************************************************************)
(* Data                                                                    *)
(***************************************************************************)
Conditions == {"Unknown", "True", "False"}

StatusType == [created : BOOLEAN, name : VIPNames \cup {None},
               tags : Configs \cup {None}, addr : Addrs \cup {None},
               backends : Configs \cup {None}, proxy : BOOLEAN,
               vipReady : Conditions, proxyReady : Conditions, ready : Conditions]
ObjectType == [phase : {"absent", "live", "deleting"}, finalizer : BOOLEAN,
               spec : SpecType, status : StatusType]
VIPType == [cfg : Configs \cup {None}, addr : Addrs \cup {None}]
Calls == {"addFinalizer", "checkVIP", "putVIP", "readVIP", "proxy", "status",
          "deleteVIP", "removeFinalizer"}

NoSpec == [vip |-> None, cfg |-> None, proxy |-> FALSE, tailnet |-> FALSE]
NewStatus == [created |-> FALSE, name |-> None, tags |-> None, addr |-> None,
              backends |-> None, proxy |-> FALSE, vipReady |-> "Unknown",
              proxyReady |-> "Unknown", ready |-> "Unknown"]
NoObject == [phase |-> "absent", finalizer |-> FALSE, spec |-> NoSpec,
             status |-> NewStatus]
NoVIP == [cfg |-> None, addr |-> None]

Exists(n) == vips[n].addr # None

(* The VIP service a spec asks for. *)
VIPName(s, sp) == IF sp.vip = None THEN DefaultName[s] ELSE sp.vip

Rejected(n, c) == {n, c} \cap Invalid # {}

TypeOK ==
    /\ RuntimeTypeOK(ObjectType, Calls)
    /\ step \in 1..6
    /\ vips \in [VIPNames -> VIPType]
    /\ children \in [Keys -> [ProxyKinds -> {"none", "owned", "orphan"}]]

Init ==
    /\ RuntimeInit(NoObject)
    /\ step = 1
    /\ vips = [n \in VIPNames |-> NoVIP]
    /\ children = [s \in Keys |-> [k \in ProxyKinds |-> "none"]]

(***************************************************************************)
(* Users: kubectl create, edit, delete (external)                          *)
(***************************************************************************)
(* An object that disappears leaves its children to the garbage collector. *)
Disown(s) ==
    children' = [children EXCEPT ![s] =
        [k \in ProxyKinds |-> IF @[k] = "owned" THEN "orphan" ELSE @[k]]]

Create(s, sp) ==
    /\ api[s].phase = "absent"
    /\ UserWrite(s, [NoObject EXCEPT !.phase = "live", !.spec = sp])
    /\ UNCHANGED <<step, vips, children>>

Edit(s, sp) ==
    /\ api[s].phase # "absent" /\ api[s].spec # sp
    /\ UserWrite(s, [api[s] EXCEPT !.spec = sp])
    /\ UNCHANGED <<step, vips, children>>

Delete(s) ==
    /\ api[s].phase = "live"
    /\ \/ /\ api[s].finalizer
          /\ UserWrite(s, [api[s] EXCEPT !.phase = "deleting"])
          /\ UNCHANGED children
       \/ /\ ~api[s].finalizer
          /\ UserWrite(s, NoObject)
          /\ Disown(s)
    /\ UNCHANGED <<step, vips>>

(***************************************************************************)
(* controller-runtime, garbage collector, administrators (external)        *)
(***************************************************************************)
Deliver(s) == WatchEvent(s) /\ UNCHANGED <<step, vips, children>>

Fire(s) == TimerFires(s) /\ UNCHANGED <<step, vips, children>>

Collect(s, k) ==
    /\ children[s][k] = "orphan"
    /\ children' = [children EXCEPT ![s][k] = "none"]
    /\ UNCHANGED <<cluster, worker, step, vips, budgets>>

Crash == Restart(NoObject) /\ step' = 1 /\ UNCHANGED <<vips, children>>

(* An administrator removes a VIP service from the tailnet. *)
AdminRemove(n) ==
    /\ Exists(n)
    /\ Fault("admin")
    /\ vips' = [vips EXCEPT ![n] = NoVIP]
    /\ UNCHANGED <<cluster, worker, step, children, edits>>

(***************************************************************************)
(* Reconcile                                                               *)
(***************************************************************************)
FirstCall_Mutant(o) ==
    IF o.phase = "deleting"
    THEN IF HasClient /\ o.status.created THEN "deleteVIP" ELSE "removeFinalizer"
    ELSE "checkVIP"

FirstCall(o) ==
    IF o.phase = "deleting"
    THEN IF HasClient /\ o.status.created THEN "deleteVIP" ELSE "removeFinalizer"
    ELSE IF o.finalizer THEN "checkVIP" ELSE "addFinalizer"

Reconcile(s) == Begin(s, FirstCall(cache[s])) /\ step' = 1 /\ UNCHANGED <<vips, children>>

Idle == Release(NoObject) /\ step' = 1

Finish == Idle /\ UNCHANGED timers

FinishAndRequeue == ReleaseAndRequeue(NoObject) /\ step' = 1

AddFinalizer ==
    /\ pc = "addFinalizer"
    /\ \E applied, ok \in BOOLEAN :
        Outcome(applied, ok) /\ Write(applied, [api[cur] EXCEPT !.finalizer = TRUE])
    /\ FinishAndRequeue
    /\ UNCHANGED <<cache, queue, vips, children, edits>>

(* updateBackendStatus and the Ready condition. *)
Complete(st) == [st EXCEPT !.backends = obj.spec.cfg, !.ready = "True"]

(* What follows a successful reconcileVIPService, up to the next call. *)
AfterVIP(st) ==
    LET up == [st EXCEPT !.vipReady = "True"] IN
    /\ \/ /\ ~obj.spec.proxy
          /\ pc' = "status" /\ obj' = [obj EXCEPT !.status = Complete(up)]
       \/ /\ obj.spec.proxy /\ ~obj.spec.tailnet
          /\ pc' = "status" /\ obj' = [obj EXCEPT !.status = [up EXCEPT !.proxyReady = "False"]]
       \/ /\ obj.spec.proxy /\ obj.spec.tailnet
          /\ pc' = "proxy" /\ obj' = [obj EXCEPT !.status = up]
    /\ UNCHANGED <<cur, conflict, step>>

(* The status fields every successful branch of reconcileVIPService sets. *)
Record(created) ==
    [obj.status EXCEPT !.created = created, !.name = VIPName(cur, obj.spec),
                       !.tags = obj.spec.cfg]

SkipVIP ==
    /\ pc = "checkVIP" /\ ~HasClient
    /\ AfterVIP(Record(FALSE))
    /\ UNCHANGED <<cluster, vips, children, budgets>>

(* Trusting the recorded Created instead of asking the tailnet. *)
CheckVIP_Mutant ==
    /\ pc = "checkVIP" /\ HasClient
    /\ \/ /\ Exists(VIPName(cur, obj.spec)) \/ obj.status.created
          /\ AfterVIP(Record(TRUE))
       \/ /\ ~Exists(VIPName(cur, obj.spec)) /\ ~obj.status.created
          /\ pc' = "putVIP"
          /\ UNCHANGED <<cur, obj, conflict, step>>
    /\ UNCHANGED <<cluster, vips, children, budgets>>

(* GetVIPService: an existing service is adopted as it is; not found and   *)
(* any error lead to the creation.                                         *)
CheckVIP ==
    /\ pc = "checkVIP" /\ HasClient
    /\ \/ /\ Exists(VIPName(cur, obj.spec))
          /\ AfterVIP(Record(TRUE))
          /\ UNCHANGED faults
       \/ /\ \/ ~Exists(VIPName(cur, obj.spec)) /\ UNCHANGED faults
             \/ Fault("get")
          /\ pc' = "putVIP"
          /\ UNCHANGED <<cur, obj, conflict, step>>
    /\ UNCHANGED <<cluster, vips, children, edits>>

(* The tailnet stores a PUT.  It allocates an address for a new service;   *)
(* for an existing one addrs is "Required for updates" and never sent, so  *)
(* it may also refuse.                                                     *)
Allocate(n, c) ==
    \/ /\ Exists(n)
       /\ vips' = [vips EXCEPT ![n].cfg = c]
    \/ /\ ~Exists(n)
       /\ \E a \in Addrs \ {vips[m].addr : m \in VIPNames} :
            vips' = [vips EXCEPT ![n] = [cfg |-> c, addr |-> a]]

PutFailed ==
    /\ pc' = "status"
    /\ obj' = [obj EXCEPT !.status.vipReady = "False"]
    /\ UNCHANGED <<cur, conflict, step>>

(* CreateOrUpdateVIPService. *)
PutVIP ==
    LET n == VIPName(cur, obj.spec) IN
    /\ pc = "putVIP"
    /\ \/ /\ ~Rejected(n, obj.spec.cfg)
          /\ Allocate(n, obj.spec.cfg)
          /\ pc' = "readVIP"
          /\ obj' = [obj EXCEPT !.status = Record(TRUE)]
          /\ UNCHANGED <<cur, conflict, step, faults>>
       \/ /\ ~Rejected(n, obj.spec.cfg)
          /\ Fault("lost")
          /\ Allocate(n, obj.spec.cfg)
          /\ PutFailed
       \/ /\ \/ (Rejected(n, obj.spec.cfg) \/ Exists(n)) /\ UNCHANGED faults
             \/ Fault("put")
          /\ UNCHANGED vips
          /\ PutFailed
    /\ UNCHANGED <<cluster, children, edits>>

(* Rolling the creation back when the addresses cannot be read. *)
ReadVIP_Mutant ==
    LET n == VIPName(cur, obj.spec) IN
    /\ pc = "readVIP"
    /\ \/ /\ Exists(n)
          /\ AfterVIP([obj.status EXCEPT !.addr = vips[n].addr])
          /\ UNCHANGED <<vips, faults>>
       \/ /\ Fault("get")
          /\ vips' = [vips EXCEPT ![n] = NoVIP]
          /\ PutFailed
    /\ UNCHANGED <<cluster, children, edits>>

(* The second GetVIPService, for the addresses; its errors are ignored. *)
ReadVIP ==
    LET n == VIPName(cur, obj.spec) IN
    /\ pc = "readVIP"
    /\ \/ /\ Exists(n)
          /\ AfterVIP([obj.status EXCEPT !.addr = vips[n].addr])
          /\ UNCHANGED faults
       \/ /\ \/ ~Exists(n) /\ UNCHANGED faults
             \/ Fault("get")
          /\ AfterVIP(obj.status)
    /\ UNCHANGED <<cluster, vips, children, edits>>

(* What reconcileProxy records when all of them are there. *)
ProxyUp(st) == [st EXCEPT !.proxy = TRUE, !.proxyReady = "True"]

(* Going on with the next object after a failure. *)
CreateProxyObject_Mutant ==
    /\ pc = "proxy"
    /\ \/ children' = [children EXCEPT ![cur][ProxyOrder[step]] = "owned"] /\ UNCHANGED faults
       \/ UNCHANGED children /\ Fault("kube")
    /\ \/ step < 6 /\ step' = step + 1 /\ UNCHANGED <<pc, obj>>
       \/ /\ step = 6 /\ pc' = "status" /\ UNCHANGED step
          /\ obj' = [obj EXCEPT !.status = Complete(ProxyUp(@))]
    /\ UNCHANGED <<cluster, cur, conflict, vips, edits>>

(* createOrUpdate of one proxy object: Create, and Update when that fails. *)
(* A lost answer to Create is made good by the Update; when the answer to  *)
(* that is lost too, the pass fails with the object in place.              *)
CreateProxyObject ==
    /\ pc = "proxy"
    /\ \/ /\ children' = [children EXCEPT ![cur][ProxyOrder[step]] = "owned"]
          /\ UNCHANGED faults
          /\ \/ /\ step < 6
                /\ step' = step + 1
                /\ UNCHANGED <<pc, obj>>
             \/ /\ step = 6
                /\ pc' = "status"
                /\ obj' = [obj EXCEPT !.status = Complete(ProxyUp(@))]
                /\ UNCHANGED step
       \/ /\ \/ Fault("kube") /\ UNCHANGED children
             \/ /\ Fault("lost")
                /\ children' = [children EXCEPT ![cur][ProxyOrder[step]] = "owned"]
          /\ pc' = "status"
          /\ obj' = [obj EXCEPT !.status.proxyReady = "False"]
          /\ UNCHANGED step
    /\ UNCHANGED <<cluster, cur, conflict, vips, edits>>

(* A patch that does not carry the resourceVersion. *)
UpdateStatus_Mutant ==
    /\ pc = "status" /\ api[cur].phase # "absent"
    /\ api' = [api EXCEPT ![cur].status = obj.status]
    /\ Bump(cur)
    /\ FinishAndRequeue
    /\ UNCHANGED <<cache, queue, vips, children, budgets>>

(* Status().Update, at the end of Reconcile or in updateStatusAndRequeue.  *)
UpdateStatus ==
    /\ pc = "status"
    /\ \E applied, ok \in BOOLEAN :
        Outcome(applied, ok) /\ Write(applied, [api[cur] EXCEPT !.status = obj.status])
    /\ FinishAndRequeue
    /\ UNCHANGED <<cache, queue, vips, children, edits>>

(***************************************************************************)
(* handleDeletion                                                          *)
(***************************************************************************)
(* Deleting the name the spec asks for now instead of the recorded one. *)
DeleteVIP_Mutant ==
    /\ pc = "deleteVIP"
    /\ vips' = [vips EXCEPT ![VIPName(cur, obj.spec)] = NoVIP]
    /\ pc' = "removeFinalizer"
    /\ UNCHANGED <<cluster, cur, obj, conflict, step, children, budgets>>

(* DeleteVIPService of the recorded name; an error is logged and ignored.  *)
DeleteVIP ==
    /\ pc = "deleteVIP"
    /\ \/ /\ vips' = [vips EXCEPT ![obj.status.name] = NoVIP]
          /\ UNCHANGED faults \/ Fault("lost")
       \/ /\ Fault("delete")
          /\ UNCHANGED vips
    /\ pc' = "removeFinalizer"
    /\ UNCHANGED <<cluster, cur, obj, conflict, step, children, edits>>

(* The Update that drops the finalizer lets the API server remove the      *)
(* object.                                                                 *)
RemoveFinalizer ==
    /\ pc = "removeFinalizer"
    /\ \E applied, ok \in BOOLEAN :
        /\ Outcome(applied, ok)
        /\ Write(applied, NoObject)
        /\ IF applied THEN Disown(cur) ELSE UNCHANGED children
        /\ IF ok THEN Finish ELSE FinishAndRequeue
    /\ UNCHANGED <<cache, queue, vips, edits>>

(***************************************************************************)
(* Specification                                                           *)
(***************************************************************************)
WorkerStep ==
    \/ AddFinalizer \/ SkipVIP \/ CheckVIP \/ PutVIP \/ ReadVIP
    \/ CreateProxyObject \/ UpdateStatus \/ DeleteVIP \/ RemoveFinalizer

Next ==
    \/ \E s \in Keys : \E sp \in Specs : Create(s, sp) \/ Edit(s, sp)
    \/ \E s \in Keys : Delete(s) \/ Deliver(s) \/ Fire(s) \/ Reconcile(s)
    \/ \E s \in Keys, k \in ProxyKinds : Collect(s, k)
    \/ \E n \in VIPNames : AdminRemove(n)
    \/ Crash
    \/ WorkerStep

(* Calls return, watches and timers fire, the garbage collector runs.  The *)
(* work queue is a FIFO drained by one worker, so a key that waits in it   *)
(* is taken in the end: strong fairness, as the worker is idle only now    *)
(* and then.  Nothing is assumed of users or faults.                       *)
Fairness ==
    /\ WF_vars(WorkerStep)
    /\ \A s \in Keys : WF_vars(Deliver(s)) /\ WF_vars(Fire(s)) /\ SF_vars(Reconcile(s))
    /\ \A s \in Keys, k \in ProxyKinds : WF_vars(Collect(s, k))

Spec == Init /\ [][Next]_vars

FairSpec == Spec /\ Fairness
=============================================================================
