------------------------- MODULE ServiceProperties -------------------------
(***************************************************************************)
(* What the TailscaleService controller must do, what keeps it right, and  *)
(* what the repository says of it that it does not do.                     *)
(***************************************************************************)
EXTENDS ServiceReconciler

(***************************************************************************)
(* Safety                                                                  *)
(***************************************************************************)
Live(s) == api[s].phase = "live"

(* A VIP service is created only on behalf of an object that still exists  *)
(* and carries the finalizer, although Reconcile acts on a cached copy     *)
(* several calls old: otherwise nothing would ever delete it.              *)
VIPCreatedUnderFinalizer ==
    [][\A n \in VIPNames : ~Exists(n) /\ Exists(n)' =>
          \E s \in Keys : s = cur /\ api[s].phase # "absent" /\ api[s].finalizer]_vars

(* When the finalizer goes, the VIP service that the status recorded in    *)
(* the API server names is gone, unless deleting it failed: handleDeletion *)
(* may have read an older status, but then its Update is refused.          *)
RecordedVIPRemoved ==
    [][\A s \in Keys : \A n \in VIPNames :
          /\ api[s].phase # "absent" /\ api[s].finalizer /\ api'[s].phase = "absent"
          /\ HasClient /\ "delete" \notin FaultKinds
          /\ api[s].status.created /\ api[s].status.name = n
          => ~Exists(n)']_vars

(* A status that reports the VIP service ready names the VIP service that  *)
(* the spec in the API server asks for when it is written, not the one     *)
(* Reconcile read several calls before.                                    *)
StatusOfCurrentSpec ==
    [][\A s \in Keys :
          /\ api'[s].status # api[s].status
          /\ api'[s].status.vipReady = "True"
          => api'[s].status.name = VIPName(s, api'[s].spec)]_vars

(* A StatefulSet of the present owner never runs without the account,      *)
(* role, binding and secret of that owner, through failed passes, garbage  *)
(* collection of an earlier owner and its re-creation under the same name. *)
StatefulSetHasItsNeeds ==
    \A s \in Keys : children[s]["StatefulSet"] = "owned" =>
        \A k \in {"ServiceAccount", "Role", "RoleBinding", "ConfigSecret"} :
            children[s][k] = "owned"

(* A published ProxyStatus or a True ProxyReady is backed by the complete  *)
(* proxy infrastructure.                                                   *)
ProxyStatusBacked ==
    \A s \in Keys :
        api[s].status.proxy \/ api[s].status.proxyReady = "True" =>
            \A k \in ProxyKinds : children[s][k] = "owned"

(* The VIP service a live object records as created is removed only for    *)
(* another object that shares its name and is being deleted: never by the  *)
(* passes of its own, not even by one that reads the deletion of an older  *)
(* object of the same name from the cache.                                 *)
LiveVIPKept ==
    [][\A s \in Keys : \A n \in VIPNames :
          /\ Live(s) /\ api[s].status.created /\ api[s].status.name = n
          /\ WorkerStep /\ Exists(n) /\ ~Exists(n)'
          => cur # s /\ obj.phase = "deleting" /\ obj.status.name = n]_vars

(***************************************************************************)
(* Why they hold: the inductive invariant                                  *)
(***************************************************************************)
(* The cache shows the API server's object unless an event is on its way.  *)
CacheInSync == \A s \in Keys : s \notin stale => cache[s] = api[s]

(* A copy that can still be written back is the API server's object, but   *)
(* for the status the worker is filling in.                                *)
CopyInSync ==
    pc # "idle" /\ ~conflict =>
        /\ cur \notin stale
        /\ obj.phase = api[cur].phase /\ obj.spec = api[cur].spec
        /\ pc \in {"addFinalizer", "checkVIP", "putVIP", "deleteVIP", "removeFinalizer"} =>
              obj = api[cur]

(* However old the cache, an object it shows live and guarded is still     *)
(* guarded, because only a worker that saw its deletion drops finalizers.  *)
CacheGuarded ==
    \A s \in Keys : cache[s].phase = "live" /\ cache[s].finalizer =>
        api[s].phase # "absent" /\ api[s].finalizer

WorkerGuarded ==
    /\ pc \in {"checkVIP", "putVIP", "readVIP", "proxy", "status"} =>
          api[cur].phase # "absent" /\ api[cur].finalizer
    /\ pc \in {"deleteVIP", "removeFinalizer"} => obj.phase = "deleting"

(* The status in the making is of the VIP service that the worker's copy   *)
(* of the spec asks for.                                                   *)
DescribesSpec(st) == st.name = VIPName(cur, obj.spec)

StatusInProgress ==
    /\ pc \in {"readVIP", "proxy"} => DescribesSpec(obj.status)
    /\ pc = "status" /\ obj.status.vipReady = "True" => DescribesSpec(obj.status)

(* Before the finalizer goes, the recorded VIP service has gone. *)
CleanedUp ==
    /\ pc = "deleteVIP" => HasClient /\ obj.status.created
    /\ pc = "removeFinalizer" /\ HasClient /\ obj.status.created /\ "delete" \notin FaultKinds =>
          \A n \in VIPNames : obj.status.name = n => ~Exists(n)

IInv ==
    /\ TypeOK /\ CacheInSync /\ CopyInSync /\ CacheGuarded /\ WorkerGuarded
    /\ StatusInProgress /\ CleanedUp

(* The same for the proxy objects: those before the step, which is the     *)
(* first until they are begun, are the owner's, and so is every object a   *)
(* status that can be written claims.                                      *)
ProxyInProgress ==
    /\ pc \in {"checkVIP", "putVIP", "readVIP"} => step = 1
    /\ pc = "proxy" => \A i \in 1..6 : i < step => children[cur][ProxyOrder[i]] = "owned"

ProxyClaimsBacked ==
    (pc # "idle" /\ ~conflict /\ (obj.status.proxy \/ obj.status.proxyReady = "True")) =>
        \A k \in ProxyKinds : children[cur][k] = "owned"

ProxyInv ==
    IInv /\ StatefulSetHasItsNeeds /\ ProxyStatusBacked /\ ProxyInProgress /\ ProxyClaimsBacked

(***************************************************************************)
(* Liveness                                                                *)
(***************************************************************************)
(* A deletion completes, even when DeleteVIPService fails.                 *)
DeletionCompletes ==
    \A s \in Keys : api[s].phase = "deleting" ~> api[s].phase # "deleting"

Acceptable(s) ==
    Live(s) /\ ~Rejected(VIPName(s, api[s].spec), api[s].spec.cfg)

(* Once users and faults rest, every acceptable object has its VIP service *)
(* and a status that names it, also after another object with the same VIP *)
(* name was deleted or an administrator removed the service.               *)
VIPProvided ==
    <>[](\A s \in Keys : Acceptable(s) =>
            /\ Exists(VIPName(s, api[s].spec))
            /\ api[s].status.created
            /\ api[s].status.name = VIPName(s, api[s].spec))

(* Once users and faults rest, an acceptable object that asks for a proxy  *)
(* and names a tailnet has one, and says so.                               *)
ProxyProvided ==
    <>[](\A s \in Keys :
            Acceptable(s) /\ api[s].spec.proxy /\ api[s].spec.tailnet =>
                /\ \A k \in ProxyKinds : children[s][k] = "owned"
                /\ api[s].status.proxyReady = "True" /\ api[s].status.ready = "True")

(***************************************************************************)
(* What the repository says and the code does not do                       *)
(***************************************************************************)
(* "Delete VIP service if it exists": when no object is left, neither is a *)
(* VIP service.                                                            *)
NoVIPOutlivesServices ==
    (\A s \in Keys : api[s].phase = "absent") => \A n \in VIPNames : ~Exists(n)
=============================================================================
