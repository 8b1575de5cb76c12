--------------------------- MODULE ClientManager ---------------------------
(***************************************************************************)
(* MultiTailnetManager (src/internal/tailscale/manager.go): a cache of     *)
(* Tailscale clients around one sync.RWMutex, filled by concurrent calls   *)
(* of GetClient that read a TailscaleTailnet and its OAuth secret while    *)
(* they hold the lock.                                                     *)
(*                                                                         *)
(* Only the calls to Kubernetes take time and fail; what runs between two  *)
(* of them is one step.  The hash an entry carries is that of its          *)
(* tailnet's resourceVersion, which no two versions share: rv stands for   *)
(* it.  since, held, removed and handed record history.               *)
(***************************************************************************)
EXTENDS Integers

CONSTANTS
    Calls,       \* goroutines that call GetClient
    Nobody,      \* owner of a free lock
    None,        \* no object, no client
    Tailnets,    \* the keys "<namespace>/<name>"
    Refs,        \* the secrets a TailscaleTailnet may name
    Creds,       \* usable contents of a secret
    MaxAge,      \* after which a client is refreshed: 1 hour
    MaxIdle,     \* after which an unused client is removed: 30 minutes
    MaxTime,     \* bound on the clock
    MaxChanges,  \* bound on changes to the cluster and removals of clients
    MaxFaults    \* bound on reads of Kubernetes that fail

ASSUME NobodyAssumption == Nobody \notin Calls
ASSUME BoundAssumption ==
    /\ MaxAge \in Nat /\ MaxIdle \in Nat
    /\ MaxTime \in Nat /\ MaxChanges \in Nat /\ MaxFaults \in Nat

Times == 0..MaxTime
Versions == 0..MaxChanges

VARIABLES
    now,
    tailnets,    \* the TailscaleTailnet objects
    secrets,     \* the credentials in each secret; None: none usable
    readers,     \* who holds mu for reading
    writer,      \* who holds mu for writing
    clients,     \* the cache
    pc,          \* where each call is
    named,       \* the tailnet it is for
    read,        \* the tailnet object it has read under the write lock
    changes,     \* also the latest resourceVersion
    faults,
    since,       \* when each call began, and its tailnet's version then
    held,        \* when each secret last ceased to hold each credential
    removed,     \* when each tailnet's client was last removed on request
    handed       \* when its present client was last returned

cluster == <<tailnets, secrets, held>>
cache == <<clients, removed, handed>>
call == <<pc, named, read, since>>
vars == <<now, cluster, cache, readers, writer, call, changes, faults>>

Tailnet == [ref : Refs, rv : Versions]

(* clientCacheEntry; born is the latest change when its secret was read.   *)
Entry == [cred : Creds, ref : Refs, rv : Versions, made : Times, used : Times,
          born : Versions]

ASSUME NoneAssumption == None \notin Creds \cup Tailnet \cup Entry

(* Before the first call and after one that returned an error, the client  *)
(* of the tailnet it read, or a client kept since it could not read it.    *)
Outside == {"idle", "current", "kept"}

TypeOK ==
    /\ now \in Times
    /\ tailnets \in [Tailnets -> Tailnet \cup {None}]
    /\ secrets \in [Refs -> Creds \cup {None}]
    /\ readers \subseteq Calls /\ writer \in Calls \cup {Nobody}
    /\ clients \in [Tailnets -> Entry \cup {None}]
    /\ pc \in [Calls -> Outside \cup {"rlock", "compare", "lock", "recheck", "get", "secret"}]
    /\ named \in [Calls -> Tailnets]
    /\ read \in [Calls -> Tailnet \cup {None}]
    /\ changes \in Versions /\ faults \in 0..MaxFaults
    /\ since \in [Calls -> [time : Times, rv : Versions]]
    /\ held \in [Refs -> [Creds -> Times]]
    /\ removed \in [Tailnets -> Versions]
    /\ handed \in [Tailnets -> Times]

(* NewMultiTailnetManager, in any cluster. *)
Init ==
    /\ now = 0
    /\ tailnets \in [Tailnets -> [ref : Refs, rv : {0}] \cup {None}]
    /\ secrets \in [Refs -> Creds \cup {None}]
    /\ readers = {} /\ writer = Nobody
    /\ clients = [t \in Tailnets |-> None]
    /\ pc = [p \in Calls |-> "idle"]
    /\ named \in [Calls -> Tailnets]
    /\ read = [p \in Calls |-> None]
    /\ changes = 0 /\ faults = 0
    /\ since = [p \in Calls |-> [time |-> 0, rv |-> 0]]
    /\ held = [r \in Refs |-> [c \in Creds |-> 0]]
    /\ removed = [t \in Tailnets |-> 0]
    /\ handed = [t \in Tailnets |-> 0]

(***************************************************************************)
(* The cluster and the clock (external)                                    *)
(***************************************************************************)
Tick ==
    /\ now < MaxTime /\ now' = now + 1
    /\ UNCHANGED <<cluster, cache, readers, writer, call, changes, faults>>

Change == changes < MaxChanges /\ changes' = changes + 1

(* A tailnet is created, edited, its status written, or it is deleted. *)
ChangeTailnet(t) ==
    /\ Change
    /\ \/ \E r \in Refs : tailnets' = [tailnets EXCEPT ![t] = [ref |-> r, rv |-> changes']]
       \/ tailnets[t] # None /\ tailnets' = [tailnets EXCEPT ![t] = None]
    /\ UNCHANGED <<now, secrets, held, cache, readers, writer, call, faults>>

ChangeSecret(r) ==
    /\ Change
    /\ \E c \in (Creds \cup {None}) \ {secrets[r]} : secrets' = [secrets EXCEPT ![r] = c]
    /\ held' = [held EXCEPT ![r] = [c \in Creds |-> IF c = secrets[r] THEN now ELSE @[c]]]
    /\ UNCHANGED <<now, tailnets, cache, readers, writer, call, faults>>

Fault == faults < MaxFaults /\ faults' = faults + 1

(* Get returns an error, or finds nothing, which is one too. *)
GetFails(object) == (object = None /\ UNCHANGED faults) \/ Fault

GetReturns(object) == object # None /\ UNCHANGED faults

(***************************************************************************)
(* GetClient                                                               *)
(***************************************************************************)
(* A writer that does not wait for the readers. *)
Free_Mutant == writer = Nobody

Free == writer = Nobody /\ readers = {}

Client(p) == clients[named[p]]

(* Counting from the last use. *)
TooOld_Mutant(e) == now - e.used > MaxAge

TooOld(e) == now - e.made > MaxAge

Goto(p, l) == pc' = [pc EXCEPT ![p] = l]

Leave(p, outcome) ==
    /\ Goto(p, outcome)
    /\ since' = [since EXCEPT ![p] = [time |-> 0, rv |-> 0]]

(* Return with the client of the cache, which is touched first. *)
Return(p, e, outcome) ==
    /\ Leave(p, outcome)
    /\ clients' = [clients EXCEPT ![named[p]] = [e EXCEPT !.used = now]]
    /\ handed' = [handed EXCEPT ![named[p]] = now]
    /\ UNCHANGED removed

ReturnError(p) == Leave(p, "idle") /\ UNCHANGED cache

Call(p) ==
    /\ pc[p] \in Outside /\ Goto(p, "rlock")
    /\ \E t \in Tailnets :
        /\ named' = [named EXCEPT ![p] = t]
        /\ since' = [since EXCEPT ![p] =
                [time |-> now, rv |-> IF tailnets[t] = None THEN 0 ELSE tailnets[t].rv]]
    /\ UNCHANGED <<now, cluster, cache, readers, writer, read, changes, faults>>

(* Without a client, or with one that is too old, the read lock is given   *)
(* up again at once.                                                       *)
RLock(p) ==
    /\ pc[p] = "rlock" /\ writer = Nobody
    /\ IF Client(p) = None \/ TooOld(Client(p))
       THEN Goto(p, "lock") /\ UNCHANGED readers
       ELSE Goto(p, "compare") /\ readers' = readers \cup {p}
    /\ UNCHANGED <<now, cluster, cache, writer, named, read, since, changes, faults>>

(* Not comparing the versions. *)
Keep_Mutant(p) ==
    LET tn == tailnets[named[p]] IN
    \/ GetReturns(tn) /\ Return(p, Client(p), "current")
    \/ GetFails(tn) /\ Return(p, Client(p), "kept")

(* shouldRefreshClient says no: the tailnet is as it was, or cannot be     *)
(* read.                                                                   *)
Keep(p) ==
    LET tn == tailnets[named[p]] IN
    \/ GetReturns(tn) /\ tn.rv = Client(p).rv /\ Return(p, Client(p), "current")
    \/ GetFails(tn) /\ Return(p, Client(p), "kept")

(* shouldRefreshClient says yes. *)
Refresh(p, next) ==
    LET tn == tailnets[named[p]] IN
    /\ GetReturns(tn) /\ tn.rv # Client(p).rv
    /\ Goto(p, next) /\ UNCHANGED <<cache, since>>

Compare(p) ==
    /\ pc[p] = "compare"
    /\ Keep(p) \/ Refresh(p, "lock")
    /\ readers' = readers \ {p}
    /\ UNCHANGED <<now, cluster, writer, named, read, changes>>

(* Without the double check. *)
Lock_Mutant(p) ==
    /\ pc[p] = "lock" /\ Free
    /\ writer' = p
    /\ Goto(p, "get")
    /\ UNCHANGED <<now, cluster, cache, readers, named, read, since, changes, faults>>

(* createAndCacheClient.  Double-check that another goroutine didn't       *)
(* create it.                                                              *)
Lock(p) ==
    /\ pc[p] = "lock" /\ Free
    /\ writer' = p
    /\ Goto(p, IF Client(p) = None \/ TooOld(Client(p)) THEN "get" ELSE "recheck")
    /\ UNCHANGED <<now, cluster, cache, readers, named, read, since, changes, faults>>

Recheck(p) ==
    /\ pc[p] = "recheck"
    /\ \/ Keep(p) /\ writer' = Nobody
       \/ Refresh(p, "get") /\ UNCHANGED writer
    /\ UNCHANGED <<now, cluster, readers, named, read, changes>>

(* An error return that keeps the lock. *)
GetTailnet_Mutant(p) ==
    /\ pc[p] = "get"
    /\ LET tn == tailnets[named[p]] IN
       \/ /\ GetReturns(tn)
          /\ read' = [read EXCEPT ![p] = tn]
          /\ Goto(p, "secret") /\ UNCHANGED <<cache, since>>
       \/ GetFails(tn) /\ ReturnError(p) /\ UNCHANGED read
    /\ UNCHANGED <<now, cluster, readers, writer, named, changes>>

GetTailnet(p) ==
    /\ pc[p] = "get"
    /\ LET tn == tailnets[named[p]] IN
       \/ /\ GetReturns(tn)
          /\ read' = [read EXCEPT ![p] = tn]
          /\ Goto(p, "secret") /\ UNCHANGED <<writer, cache, since>>
       \/ GetFails(tn) /\ ReturnError(p) /\ writer' = Nobody /\ UNCHANGED read
    /\ UNCHANGED <<now, cluster, readers, named, changes>>

NewClient(tn) ==
    [cred |-> secrets[tn.ref], ref |-> tn.ref, rv |-> tn.rv, made |-> now, used |-> now,
     born |-> changes]

(* createClientFromTailnet, and the deferred Unlock. *)
GetSecret(p) ==
    /\ pc[p] = "secret"
    /\ LET cred == secrets[read[p].ref] IN
       \/ GetReturns(cred) /\ Return(p, NewClient(read[p]), "current")
       \/ GetFails(cred) /\ ReturnError(p)
    /\ writer' = Nobody
    /\ read' = [read EXCEPT ![p] = None]
    /\ UNCHANGED <<now, cluster, readers, named, changes>>

(***************************************************************************)
(* The other operations, each in one critical section                      *)
(***************************************************************************)
(* Sparing the clients in use. *)
Forget_Mutant(T) ==
    LET unused == {t \in T : clients[t] # None /\ clients[t].used < now} IN
    /\ clients' = [t \in Tailnets |-> IF t \in unused THEN None ELSE clients[t]]
    /\ handed' = [t \in Tailnets |-> IF t \in unused THEN 0 ELSE handed[t]]

Forget(T) ==
    /\ clients' = [t \in Tailnets |-> IF t \in T THEN None ELSE clients[t]]
    /\ handed' = [t \in Tailnets |-> IF t \in T THEN 0 ELSE handed[t]]

(* RemoveClient and InvalidateClient remove one, Cleanup all of them. *)
Remove(T) ==
    /\ Free /\ Change
    /\ Forget(T)
    /\ removed' = [t \in Tailnets |-> IF t \in T THEN changes' ELSE removed[t]]
    /\ UNCHANGED <<now, cluster, readers, writer, call, faults>>

Idle == {t \in Tailnets : clients[t] # None /\ clients[t].used < now - MaxIdle}

(* performCleanup, which the ticker starts at any time. *)
PerformCleanup ==
    /\ Free /\ Idle # {}
    /\ Forget(Idle)
    /\ UNCHANGED <<now, cluster, removed, readers, writer, call, changes, faults>>

(***************************************************************************)
(* Specification                                                           *)
(***************************************************************************)
CallStep(p) ==
    RLock(p) \/ Compare(p) \/ Lock(p) \/ Recheck(p) \/ GetTailnet(p) \/ GetSecret(p)

Next ==
    \/ Tick
    \/ \E t \in Tailnets : ChangeTailnet(t) \/ Remove({t})
    \/ \E r \in Refs : ChangeSecret(r)
    \/ Remove(Tailnets) \/ PerformCleanup
    \/ \E p \in Calls : Call(p) \/ CallStep(p)

(* Goroutines run, calls to Kubernetes come back, and a sync.RWMutex lets  *)
(* in whoever waits: readers when a writer leaves, a writer before readers *)
(* that come later.                                                        *)
Fairness == \A p \in Calls : SF_vars(CallStep(p))

Spec == Init /\ [][Next]_vars

FairSpec == Spec /\ Fairness
=============================================================================
