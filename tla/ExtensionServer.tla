-------------------------- MODULE ExtensionServer --------------------------
(***************************************************************************)
(* The Envoy Gateway extension server (src/internal/extension/server.go):  *)
(* gRPC calls to PostTranslateModify and the goroutine that refreshes the  *)
(* registry of gateways, around one sync.RWMutex.                          *)
(*                                                                         *)
(* A call takes the lock for writing and, for every route of every kind,   *)
(* shouldProcessRoute takes it again for reading.  What a route that is    *)
(* let through adds to the clusters is abstracted to the route itself.     *)
(***************************************************************************)
EXTENDS Integers, Sequences

CONSTANTS
    Callers,     \* concurrent gRPC calls
    Refresher,   \* the goroutine watchTailscaleGateways
    Nobody,      \* owner of a free lock
    Routes,      \* the Gateway API routes there may be
    Kind,        \* Routes -> 1..5: HTTP, GRPC, TCP, UDP, TLS, in the order listed
    ParentKeys,  \* Routes -> the keys "default/<name>" of its parentRefs
    Gateways,    \* the TailscaleGateway objects there may be
    GatewayKey,  \* Gateways -> "<namespace>/<name>" of the Gateway each refers to
    MaxChanges,  \* bound on the changes made to routes and gateways
    MaxFaults    \* bound on List calls that fail

LastKind == 5

ASSUME IdentityAssumption ==
    Refresher \notin Callers /\ Nobody \notin Callers \cup {Refresher}
ASSUME RoutesAssumption ==
    /\ Kind \in [Routes -> 1..LastKind]
    /\ \A r \in Routes : r \in DOMAIN ParentKeys
    /\ \A g \in Gateways : g \in DOMAIN GatewayKey
ASSUME BoundAssumption == MaxChanges \in Nat /\ MaxFaults \in Nat

VARIABLES
    routes,     \* the routes in the cluster
    gateways,   \* the TailscaleGateway objects in the cluster
    writer,     \* who holds mu for writing
    pc,         \* where each call is
    kind,       \* the kind of route each call is processing
    pending,    \* the routes of that kind it has not processed yet
    injected,   \* the routes whose backends it has added to its response
    refresh,    \* where the refresher is
    listed,     \* the gateways it has listed
    registry,   \* gatewayRegistry: the keys of the gateways to process
    changes, faults

cluster == <<routes, gateways>>
call == <<pc, kind, pending, injected>>
refresher == <<refresh, listed, registry>>
vars == <<cluster, writer, call, refresher, changes, faults>>

RegistryKeys == {GatewayKey[g] : g \in Gateways}

TypeOK ==
    /\ routes \subseteq Routes /\ gateways \subseteq Gateways
    /\ writer \in Callers \cup {Refresher, Nobody}
    /\ pc \in [Callers -> {"idle", "lock", "list", "route", "blocked", "unlock"}]
    /\ kind \in [Callers -> 1..LastKind]
    /\ pending \in [Callers -> SUBSET Routes]
    /\ injected \in [Callers -> SUBSET Routes]
    /\ refresh \in {"sleep", "lock", "update"}
    /\ listed \subseteq Gateways
    /\ registry \subseteq RegistryKeys
    /\ changes \in 0..MaxChanges /\ faults \in 0..MaxFaults

(* The operator starts in a cluster that may hold anything. *)
Init ==
    /\ routes \in SUBSET Routes /\ gateways \in SUBSET Gateways
    /\ writer = Nobody
    /\ pc = [c \in Callers |-> "idle"]
    /\ kind = [c \in Callers |-> 1]
    /\ pending = [c \in Callers |-> {}]
    /\ injected = [c \in Callers |-> {}]
    /\ refresh = "sleep" /\ listed = {} /\ registry = {}
    /\ changes = 0 /\ faults = 0

ListFails == faults < MaxFaults /\ faults' = faults + 1

(***************************************************************************)
(* The cluster (external)                                                  *)
(***************************************************************************)
ChangeRoutes ==
    /\ changes < MaxChanges /\ changes' = changes + 1
    /\ \E r \in Routes : routes' \in {routes \cup {r}, routes \ {r}} \ {routes}
    /\ UNCHANGED <<gateways, writer, call, refresher, faults>>

ChangeGateways ==
    /\ changes < MaxChanges /\ changes' = changes + 1
    /\ \E g \in Gateways : gateways' \in {gateways \cup {g}, gateways \ {g}} \ {gateways}
    /\ UNCHANGED <<routes, writer, call, refresher, faults>>

(***************************************************************************)
(* PostTranslateModify                                                     *)
(***************************************************************************)
(* Envoy Gateway translates and calls (external). *)
Call(c) ==
    /\ pc[c] = "idle"
    /\ pc' = [pc EXCEPT ![c] = "lock"]
    /\ UNCHANGED <<cluster, writer, kind, pending, injected, refresher, changes, faults>>

(* Not taking the lock. *)
Lock_Mutant(c) ==
    /\ pc[c] = "lock"
    /\ pc' = [pc EXCEPT ![c] = "list"]
    /\ kind' = [kind EXCEPT ![c] = 1]
    /\ injected' = [injected EXCEPT ![c] = {}]
    /\ UNCHANGED <<cluster, writer, pending, refresher, changes, faults>>

Lock(c) ==
    /\ pc[c] = "lock" /\ writer = Nobody
    /\ writer' = c
    /\ pc' = [pc EXCEPT ![c] = "list"]
    /\ kind' = [kind EXCEPT ![c] = 1]
    /\ injected' = [injected EXCEPT ![c] = {}]
    /\ UNCHANGED <<cluster, pending, refresher, changes, faults>>

(* Giving up on the first kind that cannot be listed, with the lock held. *)
ListRoutes_Mutant(c) ==
    /\ pc[c] = "list"
    /\ \/ /\ pending' = [pending EXCEPT ![c] = {r \in routes : Kind[r] = kind[c]}]
          /\ pc' = [pc EXCEPT ![c] = "route"]
          /\ UNCHANGED faults
       \/ /\ ListFails
          /\ pc' = [pc EXCEPT ![c] = "idle"]
          /\ UNCHANGED pending
    /\ UNCHANGED <<cluster, writer, kind, injected, refresher, changes>>

(* The List of processHTTPRoutes and its four siblings; when it fails, the *)
(* caller logs the error and goes on with the next kind.                   *)
ListRoutes(c) ==
    /\ pc[c] = "list"
    /\ \/ /\ pending' = [pending EXCEPT ![c] = {r \in routes : Kind[r] = kind[c]}]
          /\ UNCHANGED faults
       \/ /\ ListFails
          /\ pending' = [pending EXCEPT ![c] = {}]
    /\ pc' = [pc EXCEPT ![c] = "route"]
    /\ UNCHANGED <<cluster, writer, kind, injected, refresher, changes>>

(* shouldProcessRoute, with mu read-locked.  The keys it builds are all in *)
(* the namespace "default".                                                *)
ShouldProcessRoute(r) == registry = {} \/ ParentKeys[r] \cap registry # {}

(* RLock does not look at who the writer is: a reader waits for it to      *)
(* unlock even when it is the reader itself.                               *)
ProcessRoute(c) ==
    /\ pc[c] = "route"
    /\ \E r \in pending[c] :
        IF writer = Nobody
        THEN /\ pending' = [pending EXCEPT ![c] = @ \ {r}]
             /\ injected' = [injected EXCEPT ![c] =
                                IF ShouldProcessRoute(r) THEN @ \cup {r} ELSE @]
             /\ UNCHANGED pc
        ELSE /\ pc' = [pc EXCEPT ![c] = "blocked"]
             /\ UNCHANGED <<pending, injected>>
    /\ UNCHANGED <<cluster, writer, kind, refresher, changes, faults>>

NextKind(c) ==
    /\ pc[c] = "route" /\ pending[c] = {}
    /\ IF kind[c] < LastKind
       THEN /\ kind' = [kind EXCEPT ![c] = @ + 1]
            /\ pc' = [pc EXCEPT ![c] = "list"]
       ELSE /\ pc' = [pc EXCEPT ![c] = "unlock"]
            /\ UNCHANGED kind
    /\ UNCHANGED <<cluster, writer, pending, injected, refresher, changes, faults>>

(* The deferred Unlock wakes the readers that wait. *)
Unlock(c) ==
    /\ pc[c] = "unlock"
    /\ writer' = Nobody
    /\ pc' = [d \in Callers |-> IF d = c THEN "idle"
                                ELSE IF pc[d] = "blocked" THEN "route" ELSE pc[d]]
    /\ UNCHANGED <<cluster, kind, pending, injected, refresher, changes, faults>>

(***************************************************************************)
(* watchTailscaleGateways and refreshGatewayRegistry                       *)
(***************************************************************************)
(* Every 30 seconds: List, before taking the lock.  On error it sleeps.    *)
ListGateways ==
    /\ refresh = "sleep"
    /\ \/ /\ listed' = gateways
          /\ refresh' = "lock"
          /\ UNCHANGED faults
       \/ /\ ListFails
          /\ UNCHANGED <<refresh, listed>>
    /\ UNCHANGED <<cluster, writer, call, registry, changes>>

(* Rebuilding the registry without the lock. *)
LockRegistry_Mutant ==
    /\ refresh = "lock"
    /\ registry' = {GatewayKey[g] : g \in listed}
    /\ refresh' = "sleep"
    /\ UNCHANGED <<cluster, writer, call, listed, changes, faults>>

LockRegistry ==
    /\ refresh = "lock" /\ writer = Nobody
    /\ writer' = Refresher
    /\ refresh' = "update"
    /\ UNCHANGED <<cluster, call, listed, registry, changes, faults>>

(* Adding to the registry without clearing it. *)
UpdateRegistry_Mutant ==
    /\ refresh = "update"
    /\ registry' = registry \cup {GatewayKey[g] : g \in listed}
    /\ writer' = Nobody
    /\ refresh' = "sleep" /\ listed' = {}
    /\ pc' = [d \in Callers |-> IF pc[d] = "blocked" THEN "route" ELSE pc[d]]
    /\ UNCHANGED <<cluster, kind, pending, injected, changes, faults>>

UpdateRegistry ==
    /\ refresh = "update"
    /\ registry' = {GatewayKey[g] : g \in listed}
    /\ writer' = Nobody
    /\ refresh' = "sleep" /\ listed' = {}
    /\ pc' = [d \in Callers |-> IF pc[d] = "blocked" THEN "route" ELSE pc[d]]
    /\ UNCHANGED <<cluster, kind, pending, injected, changes, faults>>

(***************************************************************************)
(* Specification                                                           *)
(***************************************************************************)
CallStep(c) ==
    Lock(c) \/ ListRoutes(c) \/ ProcessRoute(c) \/ NextKind(c) \/ Unlock(c)

RefreshStep == ListGateways \/ LockRegistry \/ UpdateRegistry

Next ==
    \/ ChangeRoutes \/ ChangeGateways
    \/ \E c \in Callers : Call(c) \/ CallStep(c)
    \/ RefreshStep

(* Goroutines run; a sync.RWMutex hands itself over in turn, so a writer   *)
(* that waits gets it in the end if it is free again and again.            *)
Fairness ==
    /\ \A c \in Callers : WF_vars(CallStep(c)) /\ SF_vars(Lock(c))
    /\ WF_vars(RefreshStep) /\ SF_vars(LockRegistry)

Spec == Init /\ [][Next]_vars

FairSpec == Spec /\ Fairness

(***************************************************************************)
(* Properties                                                              *)
(***************************************************************************)
Inside(c) == pc[c] \in {"list", "route", "blocked", "unlock"}

(* Whoever is between Lock and Unlock owns mu: no two calls run at once    *)
(* and no call runs while the registry is rebuilt.                         *)
OwnsLock ==
    /\ \A c \in Callers : Inside(c) <=> writer = c
    /\ refresh = "update" <=> writer = Refresher

(* The registry a call filters routes by does not change under it. *)
RegistryStableDuringCall ==
    [][\A c \in Callers : Inside(c) => registry' = registry]_vars

(* A call that meets a single route never returns, and takes with it every *)
(* other call and every later refresh: shouldProcessRoute read-locks the   *)
(* mutex that PostTranslateModify holds.                                   *)
BlockedForGood ==
    [][\A c \in Callers : pc[c] = "blocked" =>
          /\ pc'[c] = "blocked"
          /\ registry' = registry
          /\ \A d \in Callers \ {c} : ~Inside(d)']_vars

(* So no call ever adds a cluster to its response. *)
NothingInjected == \A c \in Callers : injected[c] = {}

(* Every call returns, although refreshes, route changes, failing lists    *)
(* and other calls compete for the lock, unless some call met a route.     *)
CallsReturnOrBlock ==
    \A c \in Callers :
        pc[c] = "lock" ~> (pc[c] = "idle" \/ \E d \in Callers : pc[d] = "blocked")

(* The registry follows the gateways: once they rest it has their keys and *)
(* no others, unless some call met a route.                                *)
RegistryReflectsGateways ==
    <>[](\/ registry = {GatewayKey[g] : g \in gateways}
         \/ \E c \in Callers : pc[c] = "blocked")

(* "PostTranslateModify modifies the xDS configuration after translation": *)
(* it returns, also when there are routes.                                 *)
EveryCallReturns ==
    \A c \in Callers : pc[c] = "lock" ~> pc[c] = "idle"

(* The inductive invariant: NothingInjected needs that a call inside has   *)
(* the lock it waits for, and OwnsLock needs the types.                    *)
LockInv == TypeOK /\ OwnsLock /\ NothingInjected
=============================================================================
