# A verification project for tailscale-gateway

TLA+ models of the tailscale-gateway operator, the TLC runs that check them on
small instances, and theorems about them that TLAPS proves for every instance.
The reference is the code under `src/`; every definition that models code is
listed in `PROJECT.json` under `map` with the lines it stands for.

## 1. The system

The operator is one Go process (`cmd/main.go`): a controller-runtime manager
with three controllers, and a gRPC extension server for Envoy Gateway in a
goroutine beside it. They share nothing but the Kubernetes client, whose reads
come from informer caches.

| Component | State | Operations | What makes it correct |
|---|---|---|---|
| **TailscaleService controller** `internal/controller/tailscaleservice_controller.go` | TailscaleService objects (finalizer, spec, status); VIP services in a tailnet; the proxy's objects | `Reconcile`: finalizer, `reconcileVIPService`, `reconcileProxy`, `updateBackendStatus`, status, `handleDeletion` | VIP services exist exactly on behalf of objects that will clean them up; the status tells the truth about the current spec; every valid object is served in the end; deletions complete |
| **Proxy builder** `internal/proxy/builder.go` | ServiceAccount, Role, RoleBinding, Secret, StatefulSet, Service | `CreateProxyInfrastructure`, `createOrUpdate` | a StatefulSet never runs without what it needs; a status that claims the proxy is backed |
| **Tailscale client** `internal/tailscale/client.go` | none; speaks HTTP to the Tailscale API | VIP services, keys, devices; validation | an error means what its callers take it for |
| **TailscaleTailnet controller** `internal/controller/tailscaletailnet_controller.go` | TailscaleTailnet objects; validation keys in the tailnet | `Reconcile`: finalizer, client from a Secret, create and delete a key, discover the domain, status | no key is left without a fault; the reported domain is that of the named secret, if any; usable credentials are noticed; deletions complete |
| **TailscaleGateway controller** `internal/controller/tailscalegateway_controller.go` | conditions of TailscaleGateway objects | `Reconcile`: `validateGatewayRef`, `validateTailnetRefs`, status | Ready is justified when it is written, and is reached |
| **Extension server** `internal/extension/server.go` | `mu`, `gatewayRegistry` | `PostTranslateModify`, `refreshGatewayRegistry`; three hooks that return their input | calls return; the registry does not change under a call and follows the TailscaleGateways |
| **Endpoint resolution** (same file) | none | `resolveTailscaleServiceEndpoints`, `parseAddress`, `parsePortFromVIPPortString` | the cluster has the endpoints of the first usable source, with their hosts and ports; the proxy listens on the same ports |
| **MultiTailnetManager** `internal/tailscale/manager.go` | `clients` under an RWMutex, with the time each was made and last used | `GetClient` (double-checked locking, refresh), `InvalidateClient`, `RemoveClient`, the clean-up goroutine, `Cleanup` | a call gets a client of a version of the tailnet that is not older than the call, from credentials that are not older than an hour; an invalidated client does not come back; racing callers share one; every call returns. No code constructs it yet |
| **Validation** `internal/validation/validation.go`, beside the markers of the schema and the checks of the client | none | `ValidateTailscaleService` and all it calls | what it admits, everything behind it can use. No code calls it yet |
| **Status helpers and errors** `api/v1alpha1/status_conditions.go`, `internal/errors/errors.go` | conditions and recent errors of a status | `SetCondition`, `AddError`, the error builders, `Wrap`, the summaries | one condition per type, with the latest status and since when; the recent errors are the last ones, as severe as the failures were |
| Configuration, metrics types, common types, code generator | constants, declarations, build-time tool | | not modelled (section 9) |

How they interact: the controllers never call each other. Users create the three
kinds of objects; the TailscaleGateway controller reads TailscaleTailnets and
Gateways; the extension server reads TailscaleGateways, routes, and the
addresses the TailscaleService controller put into a status. The TailscaleService
and TailscaleTailnet controllers call the Tailscale API. Everything hard comes
from this: **reads are stale** (informers lag behind the API server), **writes are
conditional** (Update and Status().Update carry a resourceVersion), **answers get
lost**, **the process restarts between any two calls**, **users write between any two
calls**, and the Tailscale API has **no transaction with Kubernetes**. The
extension server adds a lock taken twice.

The hazards this exposes the code to are listed, each at its line and with the
properties that would catch it, in `PROJECT.json` under `hazards`.

## 2. The modules

| Module | Models | Extends |
|---|---|---|
| `ControllerRuntime` | what the controllers share: API server, cache, queue, timers, one worker, conflicts, lost answers, restart (external code) | |
| `ServiceReconciler` | the TailscaleService controller, the proxy builder and the VIP service store | `ControllerRuntime` |
| `ServiceProperties` | its properties and its inductive invariant | `ServiceReconciler` |
| `VIPLifecycle` | abstract specification: what the controller promises about VIP services | |
| `ServiceRefinement` | the mapping from `ServiceReconciler` to `VIPLifecycle` | `ServiceProperties` |
| `ServiceReconcilerProofs` | theorems: types, finalizer, status, the proxy objects | `ServiceProperties` |
| `ServiceRefinementProofs` | theorems: the refinement, and who removes VIP services | `ServiceRefinement`, `ServiceReconcilerProofs` |
| `TailnetReconciler`, `TailnetProperties` | the TailscaleTailnet controller and its properties | `ControllerRuntime` |
| `TailnetReconcilerProofs` | theorems | `TailnetProperties` |
| `GatewayReconciler` | the TailscaleGateway controller, its properties and its inductive invariant | `ControllerRuntime` |
| `GatewayReconcilerProofs` | theorems | `GatewayReconciler` |
| `ExtensionServer` | `PostTranslateModify`, the registry and the lock, with their properties | |
| `ExtensionServerProofs` | theorems | `ExtensionServer` |
| `EndpointResolution` | how the extension server, the controller and the client read addresses and ports | |
| `SpecValidation` | the validation package, the schema and the client's own validation | `EndpointResolution` |
| `EndpointProperties` | the properties of both and their inductive invariant | `SpecValidation` |
| `EndpointProofs` | theorems | `EndpointProperties` |
| `ClientManager`, `ClientManagerProperties` | MultiTailnetManager and its properties | |
| `ClientManagerProofs` | theorems | `ClientManagerProperties` |
| `ResourceStatus` | conditions, recent errors, and the errors that are built, wrapped and recorded, with their properties and inductive invariant | |
| `ResourceStatusProofs` | theorems | `ResourceStatus` |
| `MC...` | values of the constants for TLC | |

### How a controller is modelled

`SetupWithManager` leaves `MaxConcurrentReconciles` at one and sets no predicate,
so there is one worker and every change, the controller's own writes included,
puts the key into the queue. A pass of Reconcile is split at its **remote
calls**: `pc` names the call the worker is about to make, `obj` is its copy of the
object, and what the code does between two calls, which only touches that copy,
belongs to the action of the earlier call. So everybody else may act between any
two calls, and nowhere else, as in the program.

| Variable | In the code |
|---|---|
| `api[k]` | the object in the API server; `phase` is `deleting` once deletionTimestamp is set |
| `cache[k]`, `stale` | what `r.Get` returns; the keys for which that is behind `api` |
| `conflict` | has `api[cur]` changed since `obj` was read? Then Update fails |
| `queue`, `timers` | the work queue; `RequeueAfter`, `Requeue` and rate-limited errors |
| `vips[n]`, `children[k]` | VIP services of the tailnet; the proxy objects and whether the present object owns them |
| `secrets`, `seen`, `accepted`, `devices`, `keys` | OAuth secrets and their cached copies, the credentials Tailscale accepts, how the first device of each tailnet is named, if it has one; validation keys left |
| `edits`, `faults` | how much of the budgets `MaxEdits` and `MaxFaults` is used |

A write has four outcomes (`Outcome`): applied, refused because of a conflict,
failed, and applied with the answer lost. resourceVersions are not numbered: only
which copies are not the latest matters. Writing what is there already may or may not
make an event, since timestamps, which the models leave out, decide it.

`HasClient` is the field `TsClient` of the TailscaleService reconciler. `cmd/main.go`
passes nil and nothing sets it later, so `HasClient = FALSE` is the operator as
it is wired today (`svc_proxy`), and `HasClient = TRUE` is the
controller as its code is written to run with a client (the other `svc_` runs).

### How the extension server is modelled

Each concurrent gRPC call and the refresher is a process; the steps are the
acquisition of `mu`, each `List`, each route, and the release. A reader waits
for a writer to unlock even if it is itself that writer, as `sync.RWMutex` does.
What a route adds to the clusters is abstracted to the route itself. Endpoint
resolution is separate: a string is the sequence of tokens between its colons,
and the constants `Scan`, `Atoi` and `Lookup` say which number `Sscanf("%d")`, `ParseInt` and
`net.LookupPort` read in a token. The rounds of the loop of `convertVIPPortsToPortMappings` are the values of a
recursive function (`Mappings`). `SpecValidation` reads the same strings: a regular expression is the
set of tokens it matches, and `Heads` are the ways to write the rest of a spec (name, tags,
comment, proxy).

### How the client manager is modelled

Each goroutine in `GetClient` is a process. Only two things take time: a lock, and a
call to Kubernetes, which the code makes *under* the lock: `compare` is
`shouldRefreshClient` under the read lock, `recheck` the same under the write lock, `get` and
`secret` are the two reads of `createClientFromTailnet`. What runs between two of them is one
step. `rv` stands for the resourceVersion, and for the hash of it that is the version of an
entry. The variables `since`, `held`, `removed` and `handed` only record history for the properties:
what there was when a call began, when a secret last held given credentials, when a tailnet's
client was last removed, when it was last handed out. A read of Kubernetes in one step means that it
returns the current object; with a cached reader the properties hold relative to the cache.

### How statuses and errors are modelled

`ResourceStatus` lets callers set conditions and record errors in any order: an error is
built by one of the constructors, wrapped any number of times, hidden by `fmt.Errorf`, and recorded
by `AddError` or by `recordError` of the TailscaleTailnet controller. `calls` and `log` record that history.
The context of an error is the set of its keys; messages and hints are left out.

## 3. What the runs check

Passing runs:

| Run | Question | Bounds |
|---|---|---|
| `svc_safety` | Is a VIP service created only under a finalizer (`VIPCreatedUnderFinalizer`), gone before the finalizer (`RecordedVIPRemoved`), and reported only under the name the current spec asks for (`StatusOfCurrentSpec`)? Does the controller implement `VIPLifecycle` (`ImplementsLifecycle`)? | 1 object, 2 names, 3 contents of a spec (one invalid), 3 addresses, 4 edits, 2 faults of every kind but a failing DeleteVIPService |
| `svc_liveness` | Is the VIP service of a live object removed by nothing but the deletion of another object of that name (`LiveVIPKept`)? Do deletions complete (`DeletionCompletes`), and does every object left get its VIP service (`VIPProvided`), though another object with the same VIP name deletes it? | 2 objects with one VIP name, 4 edits, 1 fault of any kind |
| `svc_proxy` | Without a client, as in `main`: does a StatefulSet ever run without its needs (`StatefulSetHasItsNeeds`), is a claim ever without a proxy (`ProxyStatusBacked`), is an interrupted creation taken up again (`ProxyProvided`)? | 1 object, with and without proxy and tailnet, 4 edits, 2 faults, lost answers to the creation of a proxy object among them |
| `tn_reconciler` | Is every key left due to a fault (`KeysAccountedFor`), the domain that of the named secret or, where a device may have a name without one, empty (`DomainOfNamedSecret`)? Do deletions complete, and are usable credentials noticed after a rotation (`ConnectionReported`)? | 1 object, 2 secrets of which one rotates, specs with and without the secret's namespace, 2 credentials and tailnets, one with devices whose name has no dot, 2 edits, 1 fault |
| `gw_reconciler` | Is Ready justified when it is written (`ReadyIsJustified`); is it reached (`ReadyInTheEnd`)? | 1 object, a Gateway and 2 tailnets of which one may go, 3 edits, 1 fault |
| `ext_server` | Who holds the lock (`LockInv`)? Does the registry change under a call (`RegistryStableDuringCall`), does it follow the gateways (`RegistryReflectsGateways`)? What does a route do (`BlockedForGood`), and do calls return otherwise (`CallsReturnOrBlock`)? | 2 calls, 2 routes (first and last kind), 3 gateways (2 of one Gateway), 2 changes, 1 failing List |
| `ep_resolve` | Which endpoints (`FirstSourceOnly`), hosts (`HostsAndPortsKept`) and ports (`SinglePortsMapped`) come out? Do backends that validation admits survive the parser (`AdmittedBackendsKept`), and does the rest of an admitted spec suit the schema, the client, Envoy and the proxy (`AdmittedIsAccepted`, with the exceptions of section 8)? | all lists of up to 2 addresses, backends and ports, an IPv6 address included, 13 ways to write the rest of a spec |
| `mgr_cache` | What client does a call get (`NoOlderTailnet`, `BoundedStaleness`, `InvalidationHolds`), is it shared (`ClientsShared`), and does the call return (`CallsReturn`)? | 2 calls, 1 tailnet with 1 secret, MaxAge 1, MaxIdle 0, clock up to 2, 2 changes, 1 failing read |
| `status_errors` | Do the conditions tell the latest of each type and since when (`ConditionsTellTheLatest`), and the recent errors the failures they started as (`RecentErrorsTellTheFailures`)? | 2 types, 2 reasons, lists of 2 errors, 2 layers of wrapping, 3 writes, clock up to 1 |

`svc_safety`, `tn_reconciler`, `gw_reconciler`, `mgr_cache`, `ep_resolve` and `status_errors` also check
`IInv`, the inductive invariant of the proofs (section 5), of which `TypeOK` is a part; in `ext_server` it is
`LockInv`, of which `OwnsLock` and `NothingInjected` are parts.

Why the bounds are enough: the worker handles one object at a time, so
objects of different names influence each other only through a shared VIP name (the
two objects of `svc_liveness`) and the order of the queue. The shortest interesting
histories are create, edit or rename, delete, re-create, and two creations with a
deletion between: four edits. Two faults reach a fault during the recovery
from another. Two contents of a spec tell an old one from a new one, the third is
the one that validation rejects; addresses are interchangeable (symmetry, in a run
without liveness). In `tn_reconciler` the secrets start in any state, so two edits
are enough for a creation and a change of the secret's name or a deletion; what
rotates and what Tailscale accepts changes besides. `ext_server` starts with any
routes and gateways, and the two calls and the refresher can wait for each other in
any order. `mgr_cache` has one key because the code treats entries of different keys alike and they share only the lock (that two
keys may stand for one tailnet is in section 8); with
two calls one can be in every place of `GetClient` while the other fills or uses the cache, two
changes and a removal order any two versions around an invalidation, and a clock of three
instants makes a client that is just young enough and one that is too old. Three writes
in `status_errors` are one more than the list of errors keeps, and enough for a condition to change
and change back. `CHECK_DEADLOCK FALSE` is set because the system rightly stops once the
budgets of edits and faults are used and nothing is left to do.

Runs that show a disagreement between the code and what the repository says
(`findings`, with the quotes):

| Run | What happens |
|---|---|
| `svc_v_leak` | the object is deleted between the PUT of its VIP service and the status write; the VIP service stays for good |
| `ext_v_routes` | one route in the cluster and `PostTranslateModify` blocks on its own lock |
| `tn_v_ready` | a tailnet with revoked credentials stays Ready |

Every property of a passing run has a mutant (`PROJECT.json`, `mutants`; the operators named
`..._Mutant`): a plausible slip in the code that makes TLC find it violated.

## 4. Fairness

- `WF(WorkerStep)`: a remote call returns, with an answer or an error.
- `WF(Deliver)`, `WF(Fire)`: watches deliver and timers fire.
- `SF(Reconcile(k))`: the work queue is a FIFO drained by one worker. A key in it
  is taken in the end, though the worker is free only now and then, so weak
  fairness would not say it.
- `WF(Collect)`, `WF(DropForeign)`: the garbage collector and other controllers do their part.
- Extension server: goroutines run, and a waiting writer gets a mutex that becomes
  free again and again (`SF(Lock)`, `SF(LockRegistry)`): `sync.RWMutex` queues writers.

- Client manager: `SF(CallStep(p))` for every call. Goroutines run and calls to Kubernetes come back;
  `sync.RWMutex` lets waiting readers in when a writer leaves and a waiting writer in before
  readers that come later, so whoever waits for a lock that is free again and again gets it.

Nothing is assumed of users and faults but that the budgets end, which is what
"once users and faults rest" (`<>[]`) means.

## 5. What is proved

All theorems hold for every value of the constants that meets the named
assumptions (`None` is no name, specs have contents, default names are names,
bounds are naturals); nothing is assumed of the number of objects, names,
edits or faults. All safety properties of the passing runs are among them.

`ServiceReconcilerProofs`:

- `TypeCorrect`: `Spec => []TypeOK`.
- `Invariant`: `Spec => []IInv`. `TypeOK` and the properties are not inductive by
  themselves. `IInv` adds how the copies hang together: a cache that is
  not `stale` is current (`CacheInSync`); a worker's copy without `conflict` is the
  API server's object up to the status being filled in (`CopyInSync`); an object the
  cache shows live and guarded is still there and guarded, *however old the cache is*,
  as only a pass that saw the deletion drops the finalizer (`CacheGuarded`,
  `WorkerGuarded`); the status in the making names the VIP service the copy's spec asks for
  (`StatusInProgress`); at the removal of the finalizer the recorded VIP service is gone (`CleanedUp`).
- `GuardedCreation`, `StatusIsOfCurrentSpec`, `RecordedVIPIsRemoved`: the action
  properties `VIPCreatedUnderFinalizer`, `StatusOfCurrentSpec` and `RecordedVIPRemoved`, each from `IInv`:
  `WorkerGuarded` gives the first, `StatusInProgress` with `CopyInSync` the second
  (only a copy without conflict can be written), `CleanedUp` with `CopyInSync` the third.
- `ProxyInvariant` (`Spec => []ProxyInv`), from it `NeedsAreThere` and `ProxyIsBacked`. `ProxyInv` adds to
  `IInv` and the two properties that the objects before `step` are the owner's and that `step` is the first until the
  proxy is begun (`ProxyInProgress`), and that a copy that can be written claims the proxy only when all
  of it is owned (`ProxyClaimsBacked`). It holds because the owner carries the finalizer while a pass works for
  it, so nobody can disown its children (`OwnedStays`, `ChildrenSteps`), and because a copy claims more than
  before only at the last object (`CopySteps`).

`ServiceRefinementProofs`:

- `Refinement`: `"delete" \notin FaultKinds => (Spec => ImplementsLifecycle)`, where
  `ImplementsLifecycle` is `VIPLifecycle!Spec` under the mapping of `ServiceRefinement`; each step of the
  controller is one step of the life cycle or a stutter (`StepMaps`). The hypothesis is needed: a
  DeleteVIPService that fails is ignored. Whether there is a client does not matter. The invariant
  `RInv` adds to `IInv` that only an object with the finalizer records a VIP service, and by
  its name (`RecordsGuarded`); and that a writable copy is of a live object where the call is for
  one, and does not forget what is recorded (`CopyRecords`).
- `LiveVIPIsKept`: the action property `LiveVIPKept`. It needs `NotRevived`: a copy that shows the
  deletion of an object is never behind an object of the same name that has the finalizer already, as the
  pass that added it had seen the new object in the cache.

`ExtensionServerProofs`: `ExtensionTypeCorrect`; `LockInvariant` (`Spec => []LockInv`), from it `LockOwned`
(the lock belongs to whoever is between Lock and Unlock), `NeverInjects` (a part of it: inside a call `writer` is the
caller, so the read lock is never granted), `RegistryIsStable` and `BlockedStaysBlocked` (no action releases
a lock whose owner is blocked).

`TailnetReconcilerProofs`:

- `TailnetTypeCorrect`: `Spec => []TypeOK`, proved together with `KeyToDelete` (at
  DeleteKey there is a key), without which the count of keys could leave `Nat`.
- `TailnetInvariant`: `Spec => []IInv`. Besides `CacheInSync` and `CopyInSync` it
  says that an informer of a secret that never rotates shows it or nothing, so the
  credentials in use are those of the secret the copy names, with its namespace, and the domain found is
  one that `DiscoverTailnetInfo` may find with them, the empty one where names may lack a dot (`CredentialsOfSecret`, `DomainsOf`);
  and that every key left is backed by a fault, but for the one in the making while its
  credentials are good (`KeysBacked`). `KeysAccountedFor` alone is not inductive: once credentials are revoked
  between CreateKey and DeleteKey the key stays, and only the revocation, itself
  counted as a fault, pays for it.
- `KeysAreAccountedFor` and `DomainIsOfNamedSecret`: the invariant `KeysAccountedFor` and the
  action property `DomainOfNamedSecret`, from `IInv`; the latter with `WhoWritesStatus`,
  which says that a status becomes Validated only by an UpdateStatus without conflict.

`GatewayReconcilerProofs`: `GatewayInvariant` (`Spec => []IInv`), from it
`GatewayTypeCorrect` and `ReadyIsJustifiedByReferents` (`ReadyIsJustified`), for
lists of tailnets of any length. `TypeOK` is not inductive alone: that `step` stays in the
list needs the copy to have a spec. `FoundSoFar` says that what the pass has gone past exists
unless it may be removed, which holds because what is never removed stays in `there`.

`ClientManagerProofs`: `ManagerInvariant` (`Spec => []IInv`) and from it `ClientOfCurrentTailnet`,
`StalenessIsBounded`, `InvalidationIsKept` and `ClientsAreShared`, the four action properties of `mgr_cache`, for any
number of calls, tailnets, secrets and credentials. `IInv` says who holds the lock and that the client a
call asks Kubernetes about cannot go away meanwhile (`LockInv`); that an entry was made after the last removal,
from what its secret held (`EntryInv`); that versions only grow (`VersionInv`); that the client a call
looks at was young when the call began (`YoungInv`); and why a call that makes a client may
replace the one there (`ReplaceInv`).

`EndpointProofs`:

- `EndpointInvariant`: `Spec => []IInv`. `IInv` is the loop invariant: before round `n` there is one
  endpoint for each usable string of the present list before `n`, and it is at the *rank* of that string
  (`Filled`), or one placeholder for each port (`Placed`); and a list is only entered when those before it had no
  usable string. `RankOfNext` and `RanksCover` count: a rank is one more than the number of usable strings
  before, and every index is a rank.
- `OnlyFirstSource`, `HostsAndPortsAreKept`, `AdmittedBackendsAreKept`, `AdmittedIsAcceptedByAll`: the invariants of
  `ep_resolve` for lists of any length of strings in any tokens, from `IInv` at the end of the loops. For the last two
  an admitted backend that is resolved is usable (`AdmittedBackend`), an admitted port of digits has a
  number that everybody reads alike (`AdmittedPort`), and an admitted name is a label for the client
  (`AdmittedName`).
- `SinglePortsAreMapped`: about the recursive function `Mappings`. There is such a function for every number
  of ports, and after its `n`-th round each of the first `n` ports that `ParseInt` reads has its mapping
  (`PortsMapped`); what holds for 0 and passes from `n` to `n + 1` holds for all numbers, as a set of
  naturals that is not empty has a least element (`EveryRound`, `LeastElement`).

What is assumed of tokens is what Go's libraries do: `Sscanf` reads naturals and `ParseInt`
integers (`NumbersAssumption`); in a token of digits only, `ParseInt` reads what `Sscanf` reads or finds it too
large (`DigitsAssumption`); `LookupPort` gives ports up to 65535, and for a token of digits the number in it
(`LookupAssumption`); the regular expressions match no empty label, name or host (`NamesAssumption`).
The properties ask for the same port only of tokens of digits: with a sign, as in "tcp:+443",
`LookupPort` and `ParseInt` read 443 and `Sscanf` nothing (section 8).

`ResourceStatusProofs`: `StatusInvariant` (`Spec => []IInv`), from it `ConditionsAreTheLatest` and
`RecentErrorsAreTheFailures`, for any number of types, calls, errors and layers of wrapping. `IInv` says that each
condition is the call with which its type began to be what it is, and that there is one for each type
(`OnePerType`); what an error on its way up still has of the failure it started as (`ErrorOnItsWay`); and
which of the recorded errors are kept (`NewestFirst`). That the summaries count every
condition and every error once is counting: indices of a list without duplicates (`IndicesCounted`,
`TypesCounted`), disjoint sets (`DisjointCounted`), and, for the sum over the counts of
`GetErrorSummary`, which is a fold, the smallest set of keys for which the sum would be wrong
(`SmallestSubset`, `SumOfCounts`).

Each proof has one step per action; `Init => Inv`, `Inv /\ [Next]_vars => Inv'` and
the consequence are combined with PTL.

## 6. Only model-checked

Liveness: `DeletionCompletes`, `VIPProvided`, `ProxyProvided`, `ConnectionReported`, `ReadyInTheEnd`,
`CallsReturnOrBlock`, `RegistryReflectsGateways`, `CallsReturn`. The prover does neither fairness nor ENABLED,
so these hold for the bounds of section 3 only.

## 7. Abstractions

Contents of a spec (ports, tags, comment, backends) are one value `cfg`; the
DNS name, weights, counts, messages, events, labels and timestamps are left out.
The contents of the proxy objects are left out: only that they exist and who
owns them. That a PUT without `addrs` over an existing VIP service may be refused
or accepted follows the comment "Required for updates" in `client.go`. In
`TailnetReconciler` a tailnet has no first device, one whose name ends in the tailnet's own domain, or, for the
tailnets of `Undotted`, one whose name is empty or has no dot; a device shared in from another tailnet as the
first of the list is not modelled. A secret that lacks `client_id` or `client_secret` is the same as none,
as `createTailscaleClient` fails either way. A secret looked up without a namespace is not found, as the API server
has no namespaced object without one. `DeleteVIPService` of a name that
does not exist succeeds, as in the client. `Cleanup` of the client manager is called once, as its
`close` of a channel requires. `GetClient` stores the time in `lastUsed` under the read lock (`manager.go:61`), so
calls that do so at once race; in the model each store is one step, and what a torn or lost one would do
is not covered. Two resourceVersions never have the same hash.

## 8. Observed, without a run

What the models do as the code does, although a reader of the repository may expect
otherwise, and no run is spent on:

TailscaleService controller

- An edited spec never reaches a VIP service that exists: `CheckVIP` adopts it as it is, while the
  comment at `tailscaleservice_controller.go:129` says "creates or updates". The status then
  reports the tags of the edited spec (`:158`), while `tailscaleservice_types.go:188` says "ServiceTags are the actual
  tags applied to the VIP service": `StatusOfCurrentSpec` is about the name only.
- A rename leaves the old VIP service behind (`:153`): the status forgets its name, which is all that
  `handleDeletion` knows. `svc_v_leak` has one VIP name and does not show it.
- After a rename to a VIP service that exists, `status.vipServiceStatus` pairs the new
  name with the old addresses; an adopted service has none (`:156`).
- Ready stays True beside VIPServiceReady False, as the error path writes the conditions of
  an earlier pass back (`:95`). A removed proxy section leaves proxy, ProxyStatus and ProxyReady (`:102`).
- Two objects with one VIP name, which the default `svc:<name>` gives to equal names in two
  namespaces, both delete it (`:136`, `:349`): `LiveVIPKept` says that nothing else does, and `VIPProvided`
  that it comes back with the survivor's next pass.
- With the nil client of `main` no VIP service is created while VIPServiceReady is
  reported True (`cmd/main.go:148`).

TailscaleTailnet controller

- When the name of the first device is empty or has no dot, discovery succeeds without a domain (`client.go:304`): the
  tailnet becomes Validated with an empty TailnetInfo.Name, also over an earlier one
  (`tailscaletailnet_controller.go:226`), while `tailnettailscale_types.go:104` says "Name is the tailnet domain". A
  discovery that fails leaves the earlier name. `DomainOfNamedSecret` allows the empty name where a device may have
  such a name, and no other.
- Without OAuthSecretNamespace the secret is looked up in the object's own namespace
  (`tailscaletailnet_controller.go:150`), as `tailnettailscale_types.go:48` says. But the kind is cluster-scoped and has
  none, so the lookup always fails and such an object is never authenticated; `ConnectionReported` is about specs with the
  namespace, and `DomainOfNamedSecret` says that the others are never Validated.

TailscaleGateway controller and extension server

- `tailscaleTailnetRef` is never read: an entry of a TailscaleGateway stands for the
  TailscaleTailnet called like the entry (`tailscalegateway_controller.go:124`).
- TailnetsValid stays True after a tailnet is gone, as the failure condition is set on a copy
  that is not written (`tailscalegateway_controller.go:80`).
- Routes are looked up under "default/<name>" while the registry is keyed by the Gateway's
  namespace (`extension/server.go:273`).

Addresses, ports and validation

- The last group of an IPv6 address is taken for its port (`extension/server.go:411`, `:424`), which
  `HostsAndPortsKept` leaves out; `AdmittedBackendsKept` says that no backend that validation admits
  meets it.
- What validation admits and something behind it does not take, the exceptions `AdmittedIsAccepted`
  names: a default VIP name with dots, a name that is reserved or too long, and the port "tcp:", all refused by the
  client; a backend with a negative priority, refused by the schema, while validation does not look at priorities
  (`tailscaleservice_types.go:101`); and "tcp:https" and "web:https", which Envoy gets as port 80 and the proxy drops.
- A port with a sign, "tcp:+443", is admitted and mapped to 443 by the proxy, while `Sscanf` reads no sign into
  an unsigned number and Envoy gets port 80 (`extension/server.go:451`, `tailscaleservice_controller.go:266`).
- Validation takes 99999 as an external port. It refuses port ranges, which the client documents
  and the proxy drops (`tailscaleservice_controller.go:266`).

Client manager, errors and conditions

- The cache is keyed by "<namespace>/<name>" (`manager.go:54`), although a TailscaleTailnet has no namespace: callers of
  several namespaces have a client each of one tailnet, and `RemoveClient` drops only one of them (`manager.go:217`). The
  properties of `mgr_cache` are about one key.
- The OAuth client keeps the context of the call that created it (`manager.go:187`). A second `Cleanup`
  panics, and a `GetClient` after it fills the map again (`manager.go:246`).
- `IsErrorCode` is a type assertion, which `fmt.Errorf` with `%w` defeats (`errors.go:312`); for the same
  reason `Wrap` loses context and severity of what is below (`Hide` in `ResourceStatus`).
- What `recordError` adds to the status is on a copy that is written nowhere (`tailscaletailnet_controller.go:89`, `:264`),
  so the RecentErrors of a TailscaleTailnet never accumulate; `RecordError` in `ResourceStatus` is the
  function, not what becomes of its result.
- `recordError` records every failure with severity High and component "controller", while the schema
  allows "Controller" (`common_types.go:41`).
- `SetCondition` moves LastTransitionTime when only the reason changes; `GetConditionSummary` counts a
  Degraded or Progressing that is False as an error.

## 9. Not modelled

- `internal/config` reads the environment once at start, and nothing changes afterwards; `internal/metrics`
  declares counters nothing increments; `common_types.go` declares types, `zz_generated.deepcopy.go` is
  generated, and `tools/generate` runs at build time. None of them has behaviour to check.
- Without a caller in the operator and left out: `DeleteProxyInfrastructure`, the client's lists of VIP services and
  devices, deletion of devices, and its mock; the filters `GetErrorsByComponent` and `GetErrorsBySeverity`
  and the look-ups of `errors.go`.
- Flags, logging, probes, leader election and the metrics server of the extension server are I/O.
- The manifests the proxy builder writes are abstracted to their kind and owner.
- `LocalPolicyTargetReference` and the discovery and route-generation sections of the
  TailscaleGateway spec are read by no code.

## 10. Plan

Done: the three controllers, the extension server, endpoint resolution with validation, the client
manager, statuses and errors; the types and safety properties of all of them as
theorems, and the refinement of `VIPLifecycle`.

What could come next:

1. An abstract specification of the client cache, in which a call takes a client of some version its tailnet had
   since the call began in one step, and `ClientManager` shown to implement it.
2. A composition of the TailscaleTailnet and TailscaleGateway controllers, with the status
   writes of the former as the events of the latter, once the code watches TailscaleTailnets.
3. `ClientManager` composed with `TailnetReconciler`, whose status writes change the resourceVersion the
   cache is keyed by, once `main` constructs the manager.
4. Routes and registry without the second lock, once `shouldProcessRoute` can be reached.
