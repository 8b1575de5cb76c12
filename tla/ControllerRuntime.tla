------------------------- MODULE ControllerRuntime -------------------------
(***************************************************************************)
(* What the three controllers share: the objects of one kind in the        *)
(* Kubernetes API server, the informer cache Reconcile reads, the work     *)
(* queue, and the single worker that runs Reconcile (controller-runtime    *)
(* with MaxConcurrentReconciles at its default of one, as SetupWithManager *)
(* leaves it).  None of this is code of the repository; it is modelled     *)
(* from how the repository uses it.                                        *)
(*                                                                         *)
(* An object is a record with at least a field phase: "absent", "live", or *)
(* "deleting" once its deletionTimestamp is set.  resourceVersions are not *)
(* numbered: stale and conflict say which copies are not the latest.       *)
(***************************************************************************)
EXTENDS Integers

CONSTANTS
    Keys,         \* namespace/name of the objects
    None,         \* an unset string, list or pointer
    FaultKinds,   \* what may go wrong
    MaxEdits,     \* bound on user operations
    MaxFaults     \* bound on faults

ASSUME KeysAssumption == None \notin Keys
ASSUME BoundAssumption == MaxEdits \in Nat /\ MaxFaults \in Nat

VARIABLES
    api,       \* the objects in the API server
    cache,     \* the informer's copy of them
    stale,     \* keys whose cached copy is behind the API server
    queue,     \* work queue
    timers,    \* keys waiting for RequeueAfter or for rate-limited back-off
    pc,        \* the call the worker is about to make
    cur,       \* the key being reconciled
    obj,       \* the worker's in-memory copy of the object
    conflict,  \* has the object been written since obj was read?
    edits, faults

cluster == <<api, cache, stale, queue, timers>>
worker == <<pc, cur, obj, conflict>>
budgets == <<edits, faults>>

RuntimeTypeOK(ObjectSet, CallSet) ==
    /\ api \in [Keys -> ObjectSet]
    /\ cache \in [Keys -> ObjectSet]
    /\ stale \subseteq Keys
    /\ queue \subseteq Keys
    /\ timers \subseteq Keys
    /\ pc \in CallSet \cup {"idle"}
    /\ cur \in Keys \cup {None}
    /\ (cur = None) <=> (pc = "idle")
    /\ obj \in ObjectSet
    /\ conflict \in BOOLEAN
    /\ edits \in 0..MaxEdits
    /\ faults \in 0..MaxFaults

RuntimeInit(blank) ==
    /\ api = [k \in Keys |-> blank] /\ cache = [k \in Keys |-> blank]
    /\ stale = {} /\ queue = {} /\ timers = {}
    /\ pc = "idle" /\ cur = None /\ obj = blank /\ conflict = FALSE
    /\ edits = 0 /\ faults = 0

Fault(kind) == kind \in FaultKinds /\ faults < MaxFaults /\ faults' = faults + 1

(***************************************************************************)
(* The API server                                                          *)
(***************************************************************************)
(* A write bumps the resourceVersion: the cache is behind and a copy the   *)
(* worker holds can no longer be written back.                             *)
Bump(k) == stale' = stale \cup {k}

(* A write by somebody else. *)
UserWrite(k, o) ==
    /\ edits < MaxEdits
    /\ edits' = edits + 1
    /\ api' = [api EXCEPT ![k] = o]
    /\ Bump(k)
    /\ conflict' = (conflict \/ cur = k)
    /\ UNCHANGED <<cache, queue, timers, pc, cur, obj, faults>>

(* Update and Status().Update carry the resourceVersion obj was read at.   *)
Fresh == ~conflict

(* The outcomes of a write by the worker: applied, refused, or applied     *)
(* with the answer lost.  ok is what the caller is told.                   *)
Outcome(applied, ok) ==
    \/ applied /\ ok /\ Fresh /\ UNCHANGED faults
    \/ ~applied /\ ~ok /\ ~Fresh /\ UNCHANGED faults
    \/ ~applied /\ ~ok /\ Fault("kube")
    \/ applied /\ ~ok /\ Fresh /\ Fault("lost")

(* What such a write leaves.  Writing what is there already is no write,   *)
(* unless the timestamps, which the models leave out, make it one.         *)
Write(applied, o) ==
    \/ applied /\ api' = [api EXCEPT ![cur] = o] /\ Bump(cur)
    \/ (applied => o = api[cur]) /\ UNCHANGED <<api, stale>>

(***************************************************************************)
(* Informer and work queue                                                 *)
(***************************************************************************)
(* The watch delivers what is in the API server now.  The handler has no   *)
(* predicate, so every change, the controller's own writes included, is    *)
(* enqueued.                                                               *)
WatchEvent(k) ==
    /\ k \in stale
    /\ cache' = [cache EXCEPT ![k] = api[k]]
    /\ stale' = stale \ {k}
    /\ queue' = queue \cup {k}
    /\ UNCHANGED <<api, timers, worker, budgets>>

TimerFires(k) ==
    /\ k \in timers
    /\ timers' = timers \ {k}
    /\ queue' = queue \cup {k}
    /\ UNCHANGED <<api, cache, stale, worker, budgets>>

(***************************************************************************)
(* The worker                                                              *)
(***************************************************************************)
(* It takes a key and Reconcile reads the object from the cache.  A key    *)
(* added again meanwhile stays in the queue until the worker is back.      *)
(* call is the first remote call the pass makes for that copy.             *)
Begin(k, call) ==
    /\ pc = "idle"
    /\ k \in queue
    /\ queue' = queue \ {k}
    /\ \/ /\ cache[k].phase = "absent"
          /\ UNCHANGED worker
       \/ /\ cache[k].phase # "absent"
          /\ cur' = k
          /\ obj' = cache[k]
          /\ conflict' = (k \in stale)
          /\ pc' = call
    /\ UNCHANGED <<api, cache, stale, timers, budgets>>

Release(blank) == pc' = "idle" /\ cur' = None /\ obj' = blank /\ conflict' = FALSE

(* A result with RequeueAfter or Requeue, or an error: the key comes back. *)
ReleaseAndRequeue(blank) == Release(blank) /\ timers' = timers \cup {cur}

(* The operator restarts: queue, timers and worker are lost, the cache is  *)
(* listed again and every object found is enqueued.                        *)
Restart(blank) ==
    /\ Fault("crash")
    /\ cache' = api
    /\ stale' = {}
    /\ queue' = {k \in Keys : api[k].phase # "absent"}
    /\ timers' = {}
    /\ Release(blank)
    /\ UNCHANGED <<api, edits>>
=============================================================================
