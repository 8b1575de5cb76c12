---------------------- MODULE GatewayReconcilerProofs ----------------------
(***************************************************************************)
(* Theorems about GatewayReconciler, for every set of objects, Gateways,   *)
(* tailnets and specs, with lists of tailnets of any length.               *)
(***************************************************************************)
EXTENDS GatewayReconciler, TLAPS

(***************************************************************************)
(* Facts about the operators                                               *)
(***************************************************************************)
(* The constant records are what the types say. *)
LEMMA ConstantTypes ==
    /\ NewStatus \in StatusType /\ NoObject \in ObjectType
    /\ Specified(NoObject) /\ NoObject.status = NewStatus
BY DEF NewStatus, StatusType, Conditions, NoObject, ObjectType, Specified

(* The tailnets of a spec are a list of referents. *)
LEMMA SpecNames ==
    ASSUME NEW sp \in Specs
    PROVE  /\ sp.names \in Seq(Referents) /\ Len(sp.names) \in Nat
           /\ Range(sp.names) = {sp.names[i] : i \in 1..Len(sp.names)}
<1>1. sp.names \in Seq(Referents)
  BY SpecsAssumption
<1>2. Len(sp.names) \in Nat /\ DOMAIN sp.names = 1..Len(sp.names)
  BY <1>1
<1> QED
  BY <1>1, <1>2 DEF Range

(* A fault is counted within its bound. *)
LEMMA FaultType ==
    ASSUME TypeOK, NEW kind, Fault(kind) \/ UNCHANGED faults
    PROVE  faults' \in 0..MaxFaults
BY BoundAssumption DEF TypeOK, RuntimeTypeOK, Fault

(* The outcome of a write counts at most one fault. *)
LEMMA OutcomeType ==
    ASSUME TypeOK, NEW applied, NEW ok, Outcome(applied, ok)
    PROVE  faults' \in 0..MaxFaults
BY FaultType DEF Outcome

(* A busy worker has a current object, with a spec. *)
LEMMA Busy ==
    ASSUME IInv, pc # "idle"
    PROVE  cur \in Keys /\ cur # None /\ obj \in ObjectType /\ obj.spec \in Specs
BY DEF IInv, TypeOK, RuntimeTypeOK, ObjectsSpecified

(***************************************************************************)
(* The inductive invariant                                                 *)
(***************************************************************************)
(* The initial states satisfy the inductive invariant. *)
LEMMA InvInit == Init => IInv
<1> SUFFICES ASSUME Init PROVE IInv
  OBVIOUS
<1>1. 0 \in 0..MaxEdits /\ 0 \in 0..MaxFaults /\ 1 \in Nat
  BY BoundAssumption
<1>2. /\ api \in [Keys -> ObjectType] /\ cache \in [Keys -> ObjectType]
      /\ \A k \in Keys : Specified(api[k]) /\ Specified(cache[k])
  BY ConstantTypes DEF Init, RuntimeInit
<1>3. /\ pc = "idle" /\ cur = None /\ obj = NoObject /\ conflict = FALSE
      /\ stale = {} /\ queue = {} /\ timers = {} /\ edits = 0 /\ faults = 0
      /\ step = 1 /\ there \subseteq Referents /\ shown = there
  BY DEF Init, RuntimeInit
<1>4. TypeOK
  BY <1>1, <1>2, <1>3, ConstantTypes DEF TypeOK, RuntimeTypeOK
<1>5. CacheInSync
  BY <1>3 DEF Init, RuntimeInit, CacheInSync
<1> QED
  BY <1>2, <1>3, <1>4, <1>5 DEF IInv, CopyInSync, ObjectsSpecified, FoundSoFar, Present

(* A user's write of an object with a spec keeps the invariant: the cache  *)
(* falls behind and the worker's copy becomes unwritable.                  *)
LEMMA UserWriteInv ==
    ASSUME IInv, NEW k \in Keys, NEW o \in ObjectType, Specified(o), UserWrite(k, o),
           UNCHANGED <<there, shown, step>>
    PROVE  IInv'
<1>1. /\ api \in [Keys -> ObjectType] /\ api' = [api EXCEPT ![k] = o]
      /\ stale' = stale \cup {k} /\ conflict' = (conflict \/ cur = k)
      /\ UNCHANGED <<cache, pc, cur, obj>>
  BY DEF IInv, TypeOK, RuntimeTypeOK, UserWrite, Bump
<1>2. edits' \in 0..MaxEdits
  BY BoundAssumption DEF IInv, TypeOK, RuntimeTypeOK, UserWrite
<1>3. TypeOK'
  <2>1. conflict' \in BOOLEAN
    BY <1>1 DEF IInv, TypeOK, RuntimeTypeOK
  <2>2. api' \in [Keys -> ObjectType] /\ stale' \subseteq Keys
    BY <1>1 DEF IInv, TypeOK, RuntimeTypeOK
  <2> QED
    BY <1>2, <2>1, <2>2 DEF IInv, TypeOK, RuntimeTypeOK, UserWrite
<1>4. CacheInSync'
  BY <1>1 DEF IInv, CacheInSync
<1>5. CopyInSync'
  <2> SUFFICES ASSUME pc # "idle", ~conflict, cur # k PROVE CopyInSync'
    BY <1>1 DEF CopyInSync
  <2> QED
    BY <1>1 DEF IInv, CopyInSync
<1>6. ObjectsSpecified'
  BY <1>1 DEF IInv, ObjectsSpecified, Specified
<1> QED
  BY <1>1, <1>3, <1>4, <1>5, <1>6 DEF IInv, FoundSoFar, Present

(* When the worker gives up or is done, nothing is claimed of it; what it  *)
(* wrote last has a spec.                                                  *)
LEMMA WorkerDoneInv ==
    ASSUME IInv, pc # "idle", NEW applied, NEW o \in ObjectType, Specified(o),
           Write(applied, o) \/ UNCHANGED <<api, stale>>,
           Release(NoObject), step' = 1, timers' \in {timers, timers \cup {cur}},
           faults' \in 0..MaxFaults, UNCHANGED <<cache, queue, edits, there, shown>>
    PROVE  IInv'
<1>1. cur \in Keys /\ api \in [Keys -> ObjectType]
  BY Busy DEF IInv, TypeOK, RuntimeTypeOK
<1>2. pc' = "idle" /\ cur' = None /\ obj' = NoObject /\ conflict' = FALSE
  BY DEF Release
<1>3. \/ UNCHANGED <<api, stale>>
      \/ api' = [api EXCEPT ![cur] = o] /\ stale' = stale \cup {cur}
  BY DEF Write, Bump
<1>4. api' \in [Keys -> ObjectType] /\ stale' \subseteq Keys
  BY <1>1, <1>3 DEF IInv, TypeOK, RuntimeTypeOK
<1>5. TypeOK'
  BY <1>1, <1>2, <1>4, ConstantTypes DEF IInv, TypeOK, RuntimeTypeOK
<1>6. CacheInSync'
  BY <1>1, <1>3 DEF IInv, CacheInSync
<1>7. ObjectsSpecified'
  BY <1>1, <1>2, <1>3 DEF IInv, ObjectsSpecified, Specified
<1> QED
  BY <1>2, <1>5, <1>6, <1>7 DEF IInv, CopyInSync, FoundSoFar, Present

(* Every action keeps the inductive invariant. *)
LEMMA InvNext == IInv /\ [Next]_vars => IInv'
<1> SUFFICES ASSUME IInv, [Next]_vars PROVE IInv'
  OBVIOUS
<1>a. /\ TypeOK /\ api \in [Keys -> ObjectType] /\ cache \in [Keys -> ObjectType]
      /\ \A k \in Keys : Specified(api[k]) /\ Specified(cache[k])
  BY DEF IInv, TypeOK, RuntimeTypeOK, ObjectsSpecified
<1>1. ASSUME NEW k \in Keys, NEW sp \in Specs, Create(k, sp) PROVE IInv'
  <2> DEFINE o == [NoObject EXCEPT !.phase = "live", !.spec = sp]
  <2>1. o \in ObjectType /\ Specified(o)
    BY ConstantTypes DEF ObjectType, Specified
  <2> HIDE DEF o
  <2> QED
    BY <1>1, <2>1, UserWriteInv DEF Create, o
<1>2. ASSUME NEW k \in Keys, NEW sp \in Specs, Edit(k, sp) PROVE IInv'
  <2>1. /\ [api[k] EXCEPT !.spec = sp] \in ObjectType
        /\ Specified([api[k] EXCEPT !.spec = sp])
    BY <1>a DEF ObjectType, Specified
  <2> QED
    BY <1>2, <2>1, UserWriteInv DEF Edit
<1>3. ASSUME NEW k \in Keys, Delete(k) PROVE IInv'
  <2>1. /\ [api[k] EXCEPT !.phase = "deleting"] \in ObjectType
        /\ api[k].phase = "live" => Specified([api[k] EXCEPT !.phase = "deleting"])
    BY <1>a DEF ObjectType, Specified
  <2> QED
    BY <1>3, <2>1, ConstantTypes, UserWriteInv DEF Delete
<1>4. ASSUME NEW r \in Referents, ChangeReferent(r) PROVE IInv'
  <2>1. edits' \in 0..MaxEdits
    BY <1>4, BoundAssumption DEF ChangeReferent, IInv, TypeOK, RuntimeTypeOK
  <2>2. there' \subseteq Referents /\ Present \subseteq Present'
    BY <1>4 DEF ChangeReferent, IInv, TypeOK, Present
  <2>3. UNCHANGED <<api, cache, stale, queue, timers, pc, cur, obj, conflict, faults, shown, step>>
    BY <1>4 DEF ChangeReferent, cluster, worker
  <2>4. TypeOK' /\ CacheInSync' /\ CopyInSync' /\ ObjectsSpecified'
    BY <2>1, <2>2, <2>3
    DEF IInv, TypeOK, RuntimeTypeOK, CacheInSync, CopyInSync, ObjectsSpecified
  <2>5. FoundSoFar'
    BY <2>2, <2>3 DEF IInv, FoundSoFar
  <2> QED
    BY <2>2, <2>3, <2>4, <2>5 DEF IInv
<1>5. ASSUME NEW k \in Keys, Deliver(k) PROVE IInv'
  <2>1. /\ cache' = [cache EXCEPT ![k] = api[k]] /\ stale' = stale \ {k} /\ k \in stale
        /\ queue' = queue \cup {k}
        /\ UNCHANGED <<api, timers, pc, cur, obj, conflict, edits, faults, there, shown, step>>
    BY <1>5 DEF Deliver, WatchEvent, worker, budgets
  <2>2. TypeOK' /\ CacheInSync' /\ ObjectsSpecified'
    BY <1>a, <2>1 DEF IInv, TypeOK, RuntimeTypeOK, CacheInSync, ObjectsSpecified
  <2> QED
    BY <2>1, <2>2 DEF IInv, CopyInSync, FoundSoFar, Present
<1>6. ASSUME NEW k \in Keys, Fire(k) PROVE IInv'
  BY <1>6 DEF Fire, TimerFires, worker, budgets, IInv, TypeOK, RuntimeTypeOK,
              CacheInSync, CopyInSync, ObjectsSpecified, FoundSoFar, Present
<1>7. ASSUME NEW r \in Referents, DeliverReferent(r) PROVE IInv'
  <2>1. shown' \subseteq Referents /\ shown' \subseteq Present
    BY <1>7 DEF DeliverReferent, IInv, TypeOK, Present
  <2> QED
    BY <1>7, <2>1
    DEF DeliverReferent, cluster, worker, budgets, IInv, TypeOK, RuntimeTypeOK,
        CacheInSync, CopyInSync, ObjectsSpecified, FoundSoFar, Present
<1>8. CASE Crash
  <2>1. faults' \in 0..MaxFaults
    BY <1>8, <1>a, FaultType DEF Crash, Restart
  <2>2. /\ pc' = "idle" /\ cur' = None /\ obj' = NoObject /\ conflict' = FALSE
        /\ cache' = api /\ stale' = {} /\ timers' = {} /\ queue' \subseteq Keys
        /\ UNCHANGED <<api, edits, there>> /\ shown' = there /\ step' = 1
    BY <1>8 DEF Crash, Restart, Release
  <2>3. TypeOK'
    BY <1>a, <2>1, <2>2, ConstantTypes DEF TypeOK, RuntimeTypeOK
  <2> QED
    BY <1>a, <2>2, <2>3
    DEF IInv, CacheInSync, CopyInSync, ObjectsSpecified, FoundSoFar, Present
<1>9. ASSUME NEW k \in Keys, Reconcile(k) PROVE IInv'
  <2>1. FirstCall(cache[k]) \in {"ignore", "getGateway"} /\ k # None
    BY KeysAssumption DEF FirstCall
  <2>2. /\ pc = "idle" /\ step = 1 /\ queue' = queue \ {k}
        /\ UNCHANGED <<api, cache, stale, timers, edits, faults, there, shown, step>>
    BY <1>9, <1>a DEF Reconcile, Begin, budgets, TypeOK
  <2>3. CASE UNCHANGED worker
    BY <2>2, <2>3
    DEF worker, IInv, TypeOK, RuntimeTypeOK, CacheInSync, CopyInSync, ObjectsSpecified,
        FoundSoFar, Present
  <2>4. CASE /\ cache[k].phase # "absent" /\ cur' = k /\ obj' = cache[k]
             /\ conflict' = (k \in stale) /\ pc' = FirstCall(cache[k])
    <3>1. conflict' \in BOOLEAN /\ pc' \in {"ignore", "getGateway"} /\ pc' # "idle"
      BY <2>1, <2>4
    <3>2. obj' \in ObjectType /\ obj'.spec \in Specs
      BY <1>a, <2>4 DEF Specified
    <3>3. step' \in 1..Len(obj'.spec.names) + 1
      <4>1. Len(obj'.spec.names) \in Nat
        BY <3>2, SpecNames
      <4> QED
        BY <2>2, <4>1
    <3>4. TypeOK'
      BY <2>1, <2>2, <2>4, <3>1, <3>2, <3>3 DEF IInv, TypeOK, RuntimeTypeOK, Calls
    <3>5. CopyInSync'
      BY <2>2, <2>4 DEF IInv, CopyInSync, CacheInSync
    <3> QED
      BY <2>2, <3>1, <3>2, <3>4, <3>5
      DEF IInv, CacheInSync, ObjectsSpecified, FoundSoFar, Present
  <2> QED
    BY <1>9, <2>3, <2>4 DEF Reconcile, Begin
<1>10. CASE Ignore
  BY <1>10, <1>a, ConstantTypes, FaultType, WorkerDoneInv DEF Ignore, Finish, budgets
<1>11. CASE GetGateway
  <2>1. cur \in Keys /\ cur # None /\ obj \in ObjectType /\ obj.spec \in Specs
    BY <1>11, Busy DEF GetGateway
  <2>2. UNCHANGED <<api, cache, stale, queue, edits, faults, there, shown>> /\ pc = "getGateway"
    BY <1>11 DEF GetGateway, budgets
  <2>3. CASE FinishAndRequeue
    BY <2>2, <2>3, <1>a, ConstantTypes, FaultType, WorkerDoneInv
    DEF FinishAndRequeue, ReleaseAndRequeue
  <2>4. CASE /\ obj.spec.gateway \in shown \cup {None}
             /\ pc' = "getTailnet"
             /\ obj' = [obj EXCEPT !.status.gatewayValid = "True"]
             /\ UNCHANGED <<timers, cur, conflict, step>>
    <3>1. obj' \in ObjectType /\ obj'.spec = obj.spec
      BY <2>1, <2>4 DEF ObjectType, StatusType, Conditions
    <3>2. TypeOK'
      BY <2>1, <2>2, <2>4, <3>1 DEF IInv, TypeOK, RuntimeTypeOK, Calls
    <3>3. CacheInSync' /\ CopyInSync' /\ ObjectsSpecified'
      BY <2>1, <2>2, <2>4, <3>1 DEF IInv, CacheInSync, CopyInSync, ObjectsSpecified
    <3>4. FoundSoFar'
      BY <2>2, <2>4, <3>1 DEF IInv, TypeOK, FoundSoFar, Present
    <3> QED
      BY <2>2, <3>2, <3>3, <3>4 DEF IInv, Present
  <2> QED
    BY <1>11, <2>3, <2>4 DEF GetGateway
<1>12. CASE GetTailnet
  <2>1. cur \in Keys /\ cur # None /\ obj \in ObjectType /\ obj.spec \in Specs
    BY <1>12, Busy DEF GetTailnet
  <2>2. UNCHANGED <<api, cache, stale, queue, edits, faults, there, shown>> /\ pc = "getTailnet"
    BY <1>12 DEF GetTailnet, budgets
  <2>3. Len(obj.spec.names) \in Nat /\ step \in 1..Len(obj.spec.names) + 1
    BY <2>1, <2>2, SpecNames DEF IInv, TypeOK
  <2>4. CASE FinishAndRequeue
    BY <2>2, <2>4, <1>a, ConstantTypes, FaultType, WorkerDoneInv
    DEF FinishAndRequeue, ReleaseAndRequeue
  <2>5. CASE /\ step <= Len(obj.spec.names) /\ obj.spec.names[step] \in shown
             /\ step' = step + 1 /\ UNCHANGED <<timers, pc, cur, obj, conflict>>
    <3>1. step' \in 1..Len(obj.spec.names) + 1 /\ step' \in Nat
      BY <2>3, <2>5
    <3>2. TypeOK'
      BY <2>2, <2>5, <3>1 DEF IInv, TypeOK, RuntimeTypeOK
    <3>3. ASSUME NEW i \in 1..Len(obj.spec.names), i < step'
          PROVE  obj.spec.names[i] \in Present
      <4>1. i < step \/ i = step
        BY <2>3, <2>5, <3>3
      <4> QED
        BY <2>2, <2>5, <4>1 DEF IInv, FoundSoFar
    <3>4. FoundSoFar'
      BY <2>2, <2>5, <3>3 DEF IInv, FoundSoFar, Present
    <3> QED
      BY <2>2, <2>5, <3>2, <3>4 DEF IInv, CacheInSync, CopyInSync, ObjectsSpecified, Present
  <2>6. CASE /\ step > Len(obj.spec.names) /\ pc' = "status"
             /\ obj' = [obj EXCEPT !.status.tailnetsValid = "True", !.status.ready = "True"]
             /\ UNCHANGED <<timers, cur, conflict, step>>
    <3>1. obj' \in ObjectType /\ obj'.spec = obj.spec
      BY <2>1, <2>6 DEF ObjectType, StatusType, Conditions
    <3>2. step = Len(obj.spec.names) + 1
      BY <2>3, <2>6
    <3>3. TypeOK'
      BY <2>1, <2>2, <2>6, <3>1 DEF IInv, TypeOK, RuntimeTypeOK, Calls
    <3>4. CacheInSync' /\ CopyInSync' /\ ObjectsSpecified'
      BY <2>1, <2>2, <2>6, <3>1 DEF IInv, CacheInSync, CopyInSync, ObjectsSpecified
    <3>5. FoundSoFar'
      BY <2>2, <2>6, <3>1, <3>2 DEF IInv, FoundSoFar, Present
    <3> QED
      BY <2>2, <3>3, <3>4, <3>5 DEF IInv, Present
  <2> QED
    BY <1>12, <2>4, <2>5, <2>6 DEF GetTailnet
<1>13. CASE UpdateStatus
  <2>1. cur \in Keys /\ pc # "idle" /\ obj.status \in StatusType
    BY <1>13, Busy DEF UpdateStatus, ObjectType
  <2> DEFINE o == [api[cur] EXCEPT !.status = obj.status]
  <2>2. o \in ObjectType /\ Specified(o)
    <3>1. api[cur] \in ObjectType /\ Specified(api[cur])
      BY <1>a, <2>1
    <3> QED
      BY <2>1, <3>1 DEF ObjectType, Specified
  <2>3. PICK applied \in BOOLEAN : (\E ok \in BOOLEAN : Outcome(applied, ok)) /\ Write(applied, o)
    BY <1>13 DEF UpdateStatus
  <2>4. faults' \in 0..MaxFaults
    BY <1>a, <2>3, OutcomeType
  <2> HIDE DEF o
  <2> QED
    BY <1>13, <2>1, <2>2, <2>3, <2>4, WorkerDoneInv
    DEF UpdateStatus, FinishAndRequeue, ReleaseAndRequeue
<1>14. CASE UNCHANGED vars
  BY <1>14 DEF vars, cluster, worker, budgets, IInv, TypeOK, RuntimeTypeOK,
               CacheInSync, CopyInSync, ObjectsSpecified, FoundSoFar, Present
<1> QED
  BY <1>1, <1>2, <1>3, <1>4, <1>5, <1>6, <1>7, <1>8, <1>9, <1>10, <1>11, <1>12, <1>13, <1>14
  DEF Next, WorkerStep

(* However caches lag and users, restarts and the worker interleave, the   *)
(* copies agree where they may be written, and what the worker counts as   *)
(* found exists unless it may be removed.                                  *)
THEOREM GatewayInvariant == Spec => []IInv
BY InvInit, InvNext, PTL DEF Spec

(* No interleaving takes the state out of its types; the position in the   *)
(* list of tailnets stays in the list, whatever spec the next pass reads.  *)
THEOREM GatewayTypeCorrect == Spec => []TypeOK
<1>1. IInv => TypeOK
  BY DEF IInv
<1> QED
  BY <1>1, GatewayInvariant, PTL

(***************************************************************************)
(* What a status that says Ready tells                                     *)
(***************************************************************************)
(* Who changes the status of an object: the user who creates or removes    *)
(* it, and UpdateStatus.                                                   *)
LEMMA WhoWritesStatus ==
    ASSUME IInv, Next, NEW k \in Keys, api'[k].status # api[k].status
    PROVE  \/ api'[k].status = NewStatus
           \/ k = cur /\ pc = "status" /\ Fresh /\ api'[k].spec = api[k].spec
<1> DEFINE New == api'[k].status = NewStatus
           Published == k = cur /\ pc = "status" /\ Fresh /\ api'[k].spec = api[k].spec
<1> SUFFICES New \/ Published
  OBVIOUS
<1>a. api \in [Keys -> ObjectType] /\ api[k] \in ObjectType
  BY DEF IInv, TypeOK, RuntimeTypeOK
<1>b. api' # api
  OBVIOUS
<1>1. ASSUME NEW j \in Keys, NEW sp \in Specs, Create(j, sp) PROVE New
  <2>1. [NoObject EXCEPT !.phase = "live", !.spec = sp].status = NewStatus
    BY DEF NoObject
  <2> QED
    BY <1>1, <1>a, <2>1 DEF Create, UserWrite
<1>2. ASSUME NEW j \in Keys, NEW sp \in Specs, Edit(j, sp) PROVE FALSE
  BY <1>2, <1>a DEF Edit, UserWrite, ObjectType
<1>3. ASSUME NEW j \in Keys, Delete(j) PROVE New
  BY <1>3, <1>a, ConstantTypes DEF Delete, UserWrite, ObjectType
<1>4. ASSUME NEW j \in Keys PROVE ~Deliver(j) /\ ~Fire(j) /\ ~Reconcile(j)
  BY <1>b DEF Deliver, WatchEvent, Fire, TimerFires, Reconcile, Begin
<1>5. ASSUME NEW r \in Referents PROVE ~ChangeReferent(r) /\ ~DeliverReferent(r)
  BY <1>b DEF ChangeReferent, DeliverReferent, cluster
<1>6. ~Crash /\ ~Ignore /\ ~GetGateway /\ ~GetTailnet
  BY <1>b DEF Crash, Restart, Ignore, GetGateway, GetTailnet
<1>7. CASE UpdateStatus
  <2>1. /\ pc = "status" /\ Fresh
        /\ api' = [api EXCEPT ![cur] = [api[cur] EXCEPT !.status = obj.status]]
    BY <1>7, <1>b DEF UpdateStatus, Write, Outcome
  <2>2. k = cur
    BY <1>a, <2>1
  <2>3. api'[k] = [api[k] EXCEPT !.status = obj.status]
    BY <1>a, <2>1, <2>2
  <2> QED
    BY <1>a, <2>1, <2>2, <2>3 DEF ObjectType
<1> HIDE DEF New, Published
<1> QED
  <2>1. ASSUME WorkerStep PROVE New \/ Published
    BY <2>1, <1>6, <1>7 DEF WorkerStep
  <2> QED
    BY <1>1, <1>2, <1>3, <1>4, <1>5, <1>6, <2>1 DEF Next

(* A status that says Ready is written only when everything exists that    *)
(* the spec then in the API server names, but for what may be removed,     *)
(* although spec, Gateway and tailnets were read one by one before.        *)
THEOREM ReadyIsJustifiedByReferents == Spec => ReadyIsJustified
<1> DEFINE Written(k) == api'[k].status # api[k].status /\ api'[k].status.ready = "True"
           A == \A k \in Keys : Written(k) => Needs(api'[k].spec) \ Removable \subseteq there
<1>1. ASSUME IInv, [Next]_vars PROVE [A]_vars
  <2> SUFFICES ASSUME Next, NEW k \in Keys, Written(k)
               PROVE  Needs(api'[k].spec) \ Removable \subseteq there
    BY <1>1 DEF A
  <2>1. NewStatus.ready # "True"
    BY DEF NewStatus
  <2>2. k = cur /\ pc = "status" /\ Fresh /\ api'[k].spec = api[k].spec
    BY <1>1, <2>1, WhoWritesStatus
  <2>3. obj.spec = api[k].spec /\ obj.spec \in Specs
    BY <1>1, <2>2, Busy DEF IInv, CopyInSync, Fresh
  <2>4. Len(obj.spec.names) \in Nat /\ step = Len(obj.spec.names) + 1
    BY <1>1, <2>2, <2>3, SpecNames DEF IInv, FoundSoFar
  <2>5. \A i \in 1..Len(obj.spec.names) : obj.spec.names[i] \in Present
    BY <1>1, <2>2, <2>4 DEF IInv, FoundSoFar
  <2>6. Range(obj.spec.names) \subseteq Present
    <3>1. Range(obj.spec.names) = {obj.spec.names[i] : i \in 1..Len(obj.spec.names)}
      BY <2>3, SpecNames
    <3> QED
      BY <2>5, <3>1
  <2>7. obj.spec.gateway \in Present \cup {None}
    BY <1>1, <2>2 DEF IInv, FoundSoFar
  <2>8. Needs(obj.spec) \subseteq Present
    BY <2>6, <2>7 DEF Needs
  <2> QED
    BY <2>2, <2>3, <2>8 DEF Present
<1> QED
  BY <1>1, GatewayInvariant, PTL DEF Spec, ReadyIsJustified
=============================================================================
