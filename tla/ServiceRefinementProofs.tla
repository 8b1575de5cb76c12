---------------------- MODULE ServiceRefinementProofs ----------------------
(***************************************************************************)
(* ServiceReconciler implements VIPLifecycle, for every set of services,   *)
(* names, specs and bounds, with a Tailscale client or without one, and    *)
(* under every fault but a DeleteVIPService that fails; and no pass of a   *)
(* live object takes the VIP service it records.                           *)
(***************************************************************************)
EXTENDS ServiceRefinement, ServiceReconcilerProofs

(***************************************************************************)
(* What the refinement needs besides IInv                                  *)
(***************************************************************************)
(* A status that records a VIP service names it, and a client created it. *)
NamesIt(o) == o.status.created => HasClient /\ o.status.name \in VIPNames

(* Only an object that carries the finalizer records one. *)
RecordsGuarded ==
    \A s \in Keys :
        /\ NamesIt(api[s]) /\ NamesIt(cache[s])
        /\ api[s].status.created => api[s].phase # "absent" /\ api[s].finalizer

(* The calls for an object nobody asked to delete. *)
LiveCalls == {"checkVIP", "putVIP", "readVIP", "proxy", "status"}

(* The worker's copy is of the kind its call is for, and a writable copy   *)
(* does not forget what the API server's status records.                   *)
CopyRecords ==
    /\ NamesIt(obj)
    /\ pc \in LiveCalls \cup {"addFinalizer"} => obj.phase = "live"
    /\ pc = "addFinalizer" => ~obj.finalizer
    /\ pc = "putVIP" => HasClient
    /\ pc # "idle" /\ ~conflict /\ api[cur].status.created => obj.status.created

RInv == IInv /\ RecordsGuarded /\ CopyRecords

(* What follows a successful reconcileVIPService keeps what is recorded. *)
LEMMA AfterVIPKeeps ==
    ASSUME obj \in ObjectType, NEW st \in StatusType, AfterVIP(st)
    PROVE  /\ obj'.status.created = st.created /\ obj'.status.name = st.name
           /\ obj'.phase = obj.phase /\ pc' \in {"status", "proxy"}
           /\ cur' = cur /\ conflict' = conflict
<1> DEFINE up == [st EXCEPT !.vipReady = "True"]
           noTailnet == [up EXCEPT !.proxyReady = "False"]
<1>1. /\ up \in StatusType /\ noTailnet \in StatusType
      /\ up.created = st.created /\ noTailnet.created = st.created
  BY DEF StatusType, Conditions
<1>2. \/ obj' = [obj EXCEPT !.status = up]
      \/ obj' = [obj EXCEPT !.status = noTailnet]
      \/ obj' = [obj EXCEPT !.status = Complete(up)]
  BY DEF AfterVIP
<1> HIDE DEF up, noTailnet
<1>3. CASE obj' = [obj EXCEPT !.status = up]
  BY <1>1, <1>3, AfterVIPType, WithStatusType DEF AfterVIP
<1>4. CASE obj' = [obj EXCEPT !.status = noTailnet]
  BY <1>1, <1>4, AfterVIPType, WithStatusType DEF AfterVIP
<1>5. CASE obj' = [obj EXCEPT !.status = Complete(up)]
  <2>1. Complete(up) \in StatusType /\ Complete(up).created = st.created
    BY <1>1, CompleteType
  <2>2. obj'.status.created = st.created
    BY <1>5, <2>1, WithStatusType
  <2> QED
    BY <2>2, AfterVIPType DEF AfterVIP
<1> QED
  BY <1>2, <1>3, <1>4, <1>5

(* Record says that the VIP service is there, under a name of the tailnet. *)
LEMMA RecordKeeps ==
    ASSUME obj \in ObjectType, cur \in Keys, NEW created \in BOOLEAN
    PROVE  Record(created).created = created /\ Record(created).name \in VIPNames
<1>1. VIPName(cur, obj.spec) \in VIPNames
  BY VIPNameType DEF ObjectType
<1> QED
  BY <1>1 DEF Record, ObjectType, StatusType

(* A call on behalf of a live object leaves the worker busy with that      *)
(* object, and forgets what was recorded only where there is no client.    *)
LEMMA LiveCallSteps ==
    ASSUME RInv, SkipVIP \/ CheckVIP \/ PutVIP \/ ReadVIP \/ CreateProxyObject
    PROVE  /\ pc \in LiveCalls /\ pc' \in LiveCalls /\ cur' = cur /\ conflict' = conflict
           /\ obj'.phase = obj.phase /\ NamesIt(obj')
           /\ HasClient /\ obj.status.created => obj'.status.created
           /\ pc' = "putVIP" => HasClient
<1> DEFINE Goal == /\ pc \in LiveCalls /\ pc' \in LiveCalls /\ cur' = cur /\ conflict' = conflict
                   /\ obj'.phase = obj.phase /\ NamesIt(obj')
                   /\ HasClient /\ obj.status.created => obj'.status.created
                   /\ pc' = "putVIP" => HasClient
<1>a. /\ TypeOK /\ obj \in ObjectType /\ obj.status \in StatusType /\ NamesIt(obj)
  BY DEF RInv, IInv, TypeOK, RuntimeTypeOK, ObjectType, CopyRecords
<1>b. cur \in Keys
  BY <1>a, Busy DEF SkipVIP, CheckVIP, PutVIP, ReadVIP, CreateProxyObject
<1>1. ASSUME NEW created \in BOOLEAN, AfterVIP(Record(created)), created = HasClient,
             pc = "checkVIP"
      PROVE  Goal
  <2>1. Record(created) \in StatusType
    BY <1>a, <1>b, RecordType
  <2>2. /\ obj'.status.created = Record(created).created /\ obj'.status.name = Record(created).name
        /\ obj'.phase = obj.phase /\ pc' \in {"status", "proxy"}
        /\ cur' = cur /\ conflict' = conflict
    BY <1>a, <1>1, <2>1, AfterVIPKeeps
  <2>3. Record(created).created = created /\ Record(created).name \in VIPNames
    BY <1>a, <1>b, RecordKeeps
  <2> QED
    BY <1>1, <2>2, <2>3 DEF LiveCalls, NamesIt
<1>2. CASE SkipVIP
  BY <1>1, <1>2, SwitchAssumption DEF SkipVIP
<1>3. CASE CheckVIP
  <2>1. CASE AfterVIP(Record(TRUE))
    BY <1>1, <1>3, <2>1, SwitchAssumption DEF CheckVIP
  <2>2. CASE pc' = "putVIP" /\ UNCHANGED <<cur, obj, conflict>>
    BY <1>a, <1>3, <2>2 DEF CheckVIP, LiveCalls, NamesIt
  <2> QED
    BY <1>3, <2>1, <2>2 DEF CheckVIP
<1>4. CASE PutVIP
  <2>1. pc = "putVIP" /\ pc' \in {"readVIP", "status"} /\ cur' = cur /\ conflict' = conflict
    BY <1>4 DEF PutVIP, PutFailed
  <2>2. CASE PutFailed
    <3>1. obj'.phase = obj.phase /\ obj'.status = [obj.status EXCEPT !.vipReady = "False"]
      BY <1>a, <2>2 DEF PutFailed, ObjectType
    <3> QED
      BY <1>a, <2>1, <3>1 DEF StatusType, LiveCalls, NamesIt
  <2>3. CASE obj' = [obj EXCEPT !.status = Record(TRUE)] /\ HasClient
    <3>1. obj'.phase = obj.phase /\ obj'.status = Record(TRUE)
      BY <1>a, <2>3 DEF ObjectType
    <3> QED
      BY <1>a, <1>b, <2>1, <2>3, <3>1, RecordKeeps DEF LiveCalls, NamesIt
  <2>4. HasClient
    BY <1>4 DEF RInv, CopyRecords, PutVIP
  <2> QED
    BY <1>4, <2>2, <2>3, <2>4 DEF PutVIP
<1>5. CASE ReadVIP
  <2> DEFINE st == [obj.status EXCEPT !.addr = vips[VIPName(cur, obj.spec)].addr]
  <2>1. vips[VIPName(cur, obj.spec)].addr \in Addrs \cup {None}
    BY <1>a, <1>b, VIPNameType DEF TypeOK, ObjectType, VIPType
  <2>2. /\ st \in StatusType /\ st.created = obj.status.created /\ st.name = obj.status.name
    BY <1>a, <2>1 DEF StatusType
  <2>3. pc = "readVIP" /\ (AfterVIP(st) \/ AfterVIP(obj.status))
    BY <1>5 DEF ReadVIP
  <2> HIDE DEF st
  <2>4. /\ obj'.status.created = obj.status.created /\ obj'.status.name = obj.status.name
        /\ obj'.phase = obj.phase /\ pc' \in {"status", "proxy"}
        /\ cur' = cur /\ conflict' = conflict
    BY <1>a, <2>2, <2>3, AfterVIPKeeps
  <2> QED
    BY <1>a, <2>3, <2>4 DEF LiveCalls, NamesIt
<1>6. CASE CreateProxyObject
  <2>1. pc = "proxy" /\ pc' \in {"proxy", "status"} /\ cur' = cur /\ conflict' = conflict
    BY <1>6 DEF CreateProxyObject
  <2>2. CASE obj' = obj
    BY <1>a, <2>1, <2>2 DEF LiveCalls, NamesIt
  <2>3. ASSUME NEW st \in StatusType, st.created = obj.status.created, st.name = obj.status.name,
               obj' = [obj EXCEPT !.status = st]
        PROVE  Goal
    BY <1>a, <2>1, <2>3, WithStatusType DEF LiveCalls, NamesIt
  <2>4. CASE obj' = [obj EXCEPT !.status.proxyReady = "False"]
    <3> DEFINE failed == [obj.status EXCEPT !.proxyReady = "False"]
    <3>1. failed \in StatusType /\ failed.created = obj.status.created /\ failed.name = obj.status.name
      BY <1>a DEF StatusType, Conditions
    <3>2. obj' = [obj EXCEPT !.status = failed]
      BY <1>a, <2>4 DEF ObjectType
    <3> HIDE DEF failed
    <3> QED
      BY <2>3, <3>1, <3>2
  <2>5. CASE obj' = [obj EXCEPT !.status = Complete(ProxyUp(@))]
    <3> DEFINE up == ProxyUp(obj.status)
    <3>1. up \in StatusType /\ up.created = obj.status.created /\ up.name = obj.status.name
      BY <1>a DEF ProxyUp, StatusType, Conditions
    <3>2. obj' = [obj EXCEPT !.status = Complete(up)]
      BY <1>a, <2>5 DEF ObjectType
    <3> HIDE DEF up
    <3>3. /\ Complete(up) \in StatusType /\ Complete(up).created = up.created
          /\ Complete(up).name = up.name
      BY <1>a, <3>1, CompleteType
    <3> QED
      BY <2>3, <3>1, <3>2, <3>3
  <2> QED
    BY <1>6, <2>2, <2>4, <2>5 DEF CreateProxyObject
<1> QED
  BY <1>2, <1>3, <1>4, <1>5, <1>6

(***************************************************************************)
(* The invariant                                                           *)
(***************************************************************************)
(* Neither an edit, a deletion nor the finalizer touches the status. *)
LEMMA EditedObject ==
    ASSUME NEW o \in ObjectType, NEW sp
    PROVE  /\ [o EXCEPT !.spec = sp].status = o.status /\ [o EXCEPT !.spec = sp].phase = o.phase
           /\ [o EXCEPT !.spec = sp].finalizer = o.finalizer
BY DEF ObjectType

LEMMA MarkedObject ==
    ASSUME NEW o \in ObjectType
    PROVE  /\ [o EXCEPT !.phase = "deleting"].status = o.status
           /\ [o EXCEPT !.phase = "deleting"].phase = "deleting"
           /\ [o EXCEPT !.phase = "deleting"].finalizer = o.finalizer
           /\ [o EXCEPT !.finalizer = TRUE].status = o.status
           /\ [o EXCEPT !.finalizer = TRUE].phase = o.phase
           /\ [o EXCEPT !.finalizer = TRUE].finalizer = TRUE
BY DEF ObjectType

LEMMA CreatedObject ==
    ASSUME NEW sp
    PROVE  /\ [NoObject EXCEPT !.phase = "live", !.spec = sp].status = NewStatus
           /\ [NoObject EXCEPT !.phase = "live", !.spec = sp].phase = "live"
           /\ [NoObject EXCEPT !.phase = "live", !.spec = sp].finalizer = FALSE
BY DEF NoObject

(* An object in the API server records a VIP service by name, and only     *)
(* while it carries the finalizer.                                         *)
Recorded(o) == NamesIt(o) /\ (o.status.created => o.phase # "absent" /\ o.finalizer)

(* An object that is none records nothing. *)
LEMMA BlankRecorded == Recorded(NoObject) /\ ~NoObject.status.created
BY DEF Recorded, NamesIt, NoObject, NewStatus

(* Every action keeps the records of the API server and the cache right. *)
LEMMA RecordsNext ==
    ASSUME RInv, [Next]_vars
    PROVE  RecordsGuarded'
<1>a. /\ TypeOK /\ api \in [Keys -> ObjectType] /\ cache \in [Keys -> ObjectType]
      /\ obj \in ObjectType
  BY DEF RInv, IInv, TypeOK, RuntimeTypeOK
<1>1. ASSUME NEW s \in Keys PROVE Recorded(api'[s])
  <2>1. Recorded(api[s]) /\ api[s] \in ObjectType
    BY <1>a DEF RInv, RecordsGuarded, Recorded
  <2>2. CASE api'[s] = api[s]
    BY <2>1, <2>2
  <2>3. CASE api'[s] # api[s]
    <3>1. Next
      BY <2>3 DEF vars, cluster
    <3>2. ASSUME NEW sp \in Specs, Create(s, sp) PROVE Recorded(api'[s])
      <4>1. api'[s] = [NoObject EXCEPT !.phase = "live", !.spec = sp] /\ sp \in SpecType
        BY <1>a, <3>2, SpecsAssumption DEF Create, UserWrite
      <4>2. api'[s].status = NewStatus
        BY <4>1, CreatedObject
      <4> QED
        BY <4>2 DEF Recorded, NamesIt, NewStatus
    <3>3. ASSUME NEW sp \in Specs, Edit(s, sp) PROVE Recorded(api'[s])
      <4>1. api'[s] = [api[s] EXCEPT !.spec = sp] /\ sp \in SpecType
        BY <1>a, <3>3, SpecsAssumption DEF Edit, UserWrite
      <4> QED
        BY <2>1, <4>1, EditedObject DEF Recorded, NamesIt
    <3>4. CASE Delete(s)
      <4>1. api'[s] = [api[s] EXCEPT !.phase = "deleting"] \/ api'[s] = NoObject
        BY <1>a, <3>4 DEF Delete, UserWrite
      <4> QED
        BY <2>1, <4>1, MarkedObject, BlankRecorded DEF Recorded, NamesIt
    <3>5. CASE s = cur /\ pc = "addFinalizer" /\ api'[s] = [api[s] EXCEPT !.finalizer = TRUE]
      BY <2>1, <3>5, MarkedObject DEF Recorded, NamesIt
    <3>6. CASE s = cur /\ pc = "status" /\ api'[s] = [api[s] EXCEPT !.status = obj.status]
      <4>1. api'[s].status = obj.status /\ api'[s].phase = api[s].phase
            /\ api'[s].finalizer = api[s].finalizer
        BY <2>1, <3>6 DEF ObjectType
      <4>2. api[s].phase # "absent" /\ api[s].finalizer
        BY <3>6 DEF RInv, IInv, WorkerGuarded
      <4>3. NamesIt(obj)
        BY DEF RInv, CopyRecords
      <4> QED
        BY <4>1, <4>2, <4>3 DEF Recorded, NamesIt
    <3>7. CASE api'[s] = NoObject
      BY <3>7, BlankRecorded
    <3> QED
      BY <1>a, <2>3, <3>1, <3>2, <3>3, <3>4, <3>5, <3>6, <3>7, WhoWrites
  <2> QED
    BY <2>2, <2>3
<1>2. ASSUME NEW s \in Keys PROVE NamesIt(cache'[s])
  <2>1. cache'[s] \in {cache[s], api[s]}
    <3>1. ASSUME NEW r \in Keys, Deliver(r) PROVE cache'[s] \in {cache[s], api[s]}
      BY <1>a, <3>1 DEF Deliver, WatchEvent
    <3>2. ASSUME NEW r \in Keys, NEW sp \in Specs, Create(r, sp) \/ Edit(r, sp) PROVE UNCHANGED cache
      BY <3>2 DEF Create, Edit, UserWrite
    <3>3. ASSUME NEW r \in Keys, Delete(r) \/ Fire(r) \/ Reconcile(r) PROVE UNCHANGED cache
      BY <3>3 DEF Delete, UserWrite, Fire, TimerFires, Reconcile, Begin
    <3>4. ASSUME NEW r \in Keys, NEW k \in ProxyKinds, Collect(r, k) PROVE UNCHANGED cache
      BY <3>4 DEF Collect, cluster
    <3>5. ASSUME NEW n \in VIPNames, AdminRemove(n) PROVE UNCHANGED cache
      BY <3>5 DEF AdminRemove, cluster
    <3>6. CASE Crash
      BY <3>6 DEF Crash, Restart
    <3>7. CASE WorkerStep \/ UNCHANGED vars
      BY <3>7 DEF WorkerStep, AddFinalizer, SkipVIP, CheckVIP, PutVIP, ReadVIP,
                  CreateProxyObject, UpdateStatus, DeleteVIP, RemoveFinalizer, vars, cluster
    <3> QED
      BY <3>1, <3>2, <3>3, <3>4, <3>5, <3>6, <3>7 DEF Next
  <2> QED
    BY <2>1 DEF RInv, RecordsGuarded
<1> QED
  BY <1>1, <1>2 DEF RecordsGuarded, Recorded, NamesIt

(* Nothing is claimed of an idle worker. *)
LEMMA IdleRecords ==
    ASSUME Idle
    PROVE  CopyRecords'
<1>1. pc' = "idle" /\ obj' = NoObject
  BY DEF Idle, Release
<1> QED
  BY <1>1 DEF CopyRecords, NamesIt, NoObject, NewStatus, LiveCalls

(* Every action keeps the worker's copy right. *)
LEMMA CopyNext ==
    ASSUME RInv, [Next]_vars
    PROVE  CopyRecords'
<1>a. /\ TypeOK /\ api \in [Keys -> ObjectType] /\ CopyRecords
  BY DEF RInv, IInv, TypeOK, RuntimeTypeOK
<1>1. CASE UNCHANGED <<pc, cur, obj, conflict, api>>
  BY <1>a, <1>1 DEF CopyRecords, NamesIt, LiveCalls
<1>2. ASSUME NEW s \in Keys, NEW o, UserWrite(s, o) PROVE CopyRecords'
  <2>1. /\ UNCHANGED <<pc, cur, obj>> /\ conflict' = (conflict \/ cur = s)
        /\ api' = [api EXCEPT ![s] = o]
    BY <1>2 DEF UserWrite
  <2>2. CASE cur = s
    BY <1>a, <2>1, <2>2 DEF CopyRecords, NamesIt, LiveCalls
  <2>3. CASE cur # s
    <3>1. pc # "idle" => api'[cur] = api[cur]
      BY <1>a, <2>1, <2>3, Busy
    <3> QED
      BY <1>a, <2>1, <2>3, <3>1 DEF CopyRecords, NamesIt, LiveCalls
  <2> QED
    BY <2>2, <2>3
<1>3. ASSUME NEW s \in Keys, NEW sp \in Specs, Create(s, sp) \/ Edit(s, sp) PROVE CopyRecords'
  BY <1>2, <1>3 DEF Create, Edit
<1>4. ASSUME NEW s \in Keys, Delete(s) PROVE CopyRecords'
  BY <1>2, <1>4 DEF Delete
<1>5. ASSUME NEW s \in Keys, Deliver(s) \/ Fire(s) PROVE CopyRecords'
  BY <1>1, <1>5 DEF Deliver, WatchEvent, Fire, TimerFires, worker
<1>6. ASSUME NEW s \in Keys, Reconcile(s) PROVE CopyRecords'
  <2>1. UNCHANGED api
    BY <1>6 DEF Reconcile, Begin
  <2>2. CASE UNCHANGED worker
    BY <1>1, <2>1, <2>2 DEF worker
  <2>3. CASE /\ cache[s].phase # "absent" /\ cur' = s /\ obj' = cache[s]
             /\ conflict' = (s \in stale) /\ pc' = FirstCall(cache[s])
    <3>1. cache[s].phase \in {"absent", "live", "deleting"}
      BY DEF RInv, IInv, TypeOK, RuntimeTypeOK, ObjectType
    <3>2. /\ pc' \notin {"putVIP", "idle"}
          /\ pc' \in LiveCalls \cup {"addFinalizer"} => obj'.phase = "live"
          /\ pc' = "addFinalizer" => ~obj'.finalizer
      BY <2>3, <3>1 DEF FirstCall, LiveCalls
    <3>3. NamesIt(obj')
      BY <2>3 DEF RInv, RecordsGuarded
    <3>4. ~conflict' => obj' = api[s]
      BY <2>3 DEF RInv, IInv, CacheInSync
    <3> QED
      BY <2>1, <2>3, <3>2, <3>3, <3>4 DEF CopyRecords, NamesIt, LiveCalls
  <2> QED
    BY <1>6, <2>2, <2>3 DEF Reconcile, Begin
<1>7. ASSUME NEW s \in Keys, NEW k \in ProxyKinds, Collect(s, k) PROVE CopyRecords'
  BY <1>1, <1>7 DEF Collect, worker, cluster
<1>8. ASSUME NEW n \in VIPNames, AdminRemove(n) PROVE CopyRecords'
  BY <1>1, <1>8 DEF AdminRemove, worker, cluster
<1>9. CASE Crash \/ AddFinalizer \/ UpdateStatus \/ RemoveFinalizer
  <2>1. Idle
    BY <1>9 DEF Crash, Restart, AddFinalizer, UpdateStatus, RemoveFinalizer, Finish,
                FinishAndRequeue, ReleaseAndRequeue, Idle
  <2> QED
    BY <2>1, IdleRecords
<1>10. CASE SkipVIP \/ CheckVIP \/ PutVIP \/ ReadVIP \/ CreateProxyObject
  <2>1. UNCHANGED api /\ cur \in Keys
    BY <1>a, <1>10, Busy DEF SkipVIP, CheckVIP, PutVIP, ReadVIP, CreateProxyObject, cluster
  <2>2. /\ pc \in LiveCalls /\ pc' \in LiveCalls /\ cur' = cur /\ conflict' = conflict
        /\ obj'.phase = obj.phase /\ NamesIt(obj')
        /\ HasClient /\ obj.status.created => obj'.status.created
        /\ pc' = "putVIP" => HasClient
    BY <1>10, LiveCallSteps
  <2>3. api[cur].status.created => HasClient
    BY <2>1 DEF RInv, RecordsGuarded, NamesIt
  <2> QED
    BY <1>a, <2>1, <2>2, <2>3 DEF CopyRecords, NamesIt, LiveCalls
<1>11. CASE DeleteVIP
  BY <1>a, <1>11 DEF DeleteVIP, cluster, CopyRecords, NamesIt, LiveCalls
<1>12. CASE UNCHANGED vars
  BY <1>1, <1>12 DEF vars, worker, cluster
<1> QED
  BY <1>3, <1>4, <1>5, <1>6, <1>7, <1>8, <1>9, <1>10, <1>11, <1>12 DEF Next, WorkerStep

(* The invariant of the refinement holds initially. *)
LEMMA RInit == Init => RInv
<1> SUFFICES ASSUME Init PROVE RecordsGuarded /\ CopyRecords
  BY InvInit DEF RInv
<1> QED
  BY DEF Init, RuntimeInit, RecordsGuarded, CopyRecords, NamesIt, NoObject, NewStatus, LiveCalls

(***************************************************************************)
(* The refinement                                                          *)
(***************************************************************************)
(* Where an object is in its life. *)
LEMMA PhaseCases ==
    ASSUME NEW o
    PROVE  /\ o.phase = "absent" => PhaseOf(o) = "absent"
           /\ o.phase = "deleting" => PhaseOf(o) = "terminating"
           /\ o.phase = "live" /\ o.finalizer => PhaseOf(o) = "guarded"
           /\ o.phase = "live" /\ ~o.finalizer => PhaseOf(o) = "bare"
BY DEF PhaseOf

(* A write to one object moves that object and no other. *)
LEMMA OneMoves ==
    ASSUME NEW s \in Keys, NEW o, api \in [Keys -> ObjectType], api' = [api EXCEPT ![s] = o]
    PROVE  /\ [r \in Keys |-> PhaseOf(api'[r])] =
                  [[r \in Keys |-> PhaseOf(api[r])] EXCEPT ![s] = PhaseOf(o)]
           /\ [r \in Keys |-> ClaimOf(api'[r])] =
                  [[r \in Keys |-> ClaimOf(api[r])] EXCEPT ![s] = ClaimOf(o)]
OBVIOUS

(* A write that keeps what the object records keeps all claims. *)
LEMMA SameClaim ==
    ASSUME NEW s \in Keys, NEW o, api \in [Keys -> ObjectType], api' = [api EXCEPT ![s] = o],
           ClaimOf(o) = ClaimOf(api[s])
    PROVE  [r \in Keys |-> ClaimOf(api'[r])] = [r \in Keys |-> ClaimOf(api[r])]
BY OneMoves

(* A write that keeps the object where it is keeps all phases. *)
LEMMA SamePhase ==
    ASSUME NEW s \in Keys, NEW o, api \in [Keys -> ObjectType], api' = [api EXCEPT ![s] = o],
           PhaseOf(o) = PhaseOf(api[s])
    PROVE  [r \in Keys |-> PhaseOf(api'[r])] = [r \in Keys |-> PhaseOf(api[r])]
BY OneMoves

(* A move of one object that leaves its claim and the tailnet alone. *)
LEMMA Moves ==
    ASSUME NEW s \in Keys, NEW o, api \in [Keys -> ObjectType], api' = [api EXCEPT ![s] = o],
           ClaimOf(o) = ClaimOf(api[s]), UNCHANGED vips
    PROVE  /\ PhaseOf(api[s]) = "absent" /\ PhaseOf(o) = "bare" => Lifecycle!Submit(s)
           /\ PhaseOf(api[s]) = "bare" /\ PhaseOf(o) = "absent" => Lifecycle!Withdraw(s)
           /\ PhaseOf(api[s]) = "bare" /\ PhaseOf(o) = "guarded" => Lifecycle!Guard(s)
           /\ PhaseOf(api[s]) = "guarded" /\ PhaseOf(o) = "terminating" => Lifecycle!Terminate(s)
           /\ PhaseOf(api[s]) = PhaseOf(o) => UNCHANGED Lifecycle!vars
<1>1. /\ [r \in Keys |-> PhaseOf(api'[r])] =
                  [[r \in Keys |-> PhaseOf(api[r])] EXCEPT ![s] = PhaseOf(o)]
      /\ [r \in Keys |-> ClaimOf(api'[r])] = [r \in Keys |-> ClaimOf(api[r])]
  BY OneMoves, SameClaim
<1>2. {n \in VIPNames : Exists(n)}' = {n \in VIPNames : Exists(n)}
  BY DEF Exists
<1>3. [r \in Keys |-> PhaseOf(api[r])][s] = PhaseOf(api[s])
  OBVIOUS
<1>4. PhaseOf(api[s]) = PhaseOf(o) => UNCHANGED Lifecycle!vars
  BY <1>1, <1>2, SamePhase DEF Lifecycle!vars
<1> QED
  BY <1>1, <1>2, <1>3, <1>4
  DEF Lifecycle!Submit, Lifecycle!Withdraw, Lifecycle!Guard, Lifecycle!Terminate, Lifecycle!Move

(* A step that leaves objects and tailnet alone is a stutter. *)
LEMMA Stutters ==
    ASSUME UNCHANGED <<api, vips>>
    PROVE  UNCHANGED Lifecycle!vars
BY DEF Lifecycle!vars, Exists

(* A VIP service appears on behalf of a guarded or terminating object. *)
LEMMA Provisions ==
    ASSUME RInv, NEW n \in VIPNames, NEW c \in Configs \cup {None}, Allocate(n, c),
           UNCHANGED api, pc = "putVIP"
    PROVE  Lifecycle!Provision(n)
<1>a. /\ TypeOK /\ vips \in [VIPNames -> VIPType]
  BY DEF RInv, IInv, TypeOK
<1>1. {m \in VIPNames : Exists(m)}' = {m \in VIPNames : Exists(m)} \cup {n}
  <2>1. vips' \in [VIPNames -> VIPType]
    BY <1>a, AllocateType
  <2>2. CASE Exists(n)
    <3>1. vips' = [vips EXCEPT ![n].cfg = c]
      BY <2>2 DEF Allocate
    <3>2. \A m \in VIPNames : vips'[m].addr = vips[m].addr
      BY <1>a, <3>1 DEF VIPType
    <3> QED
      BY <2>2, <3>2 DEF Exists
  <2>3. CASE ~Exists(n)
    <3>1. PICK a \in Addrs : vips' = [vips EXCEPT ![n] = [cfg |-> c, addr |-> a]]
      BY <2>3 DEF Allocate
    <3>2. a # None
      BY NoneAssumption
    <3>3. vips'[n].addr = a /\ \A m \in VIPNames \ {n} : vips'[m] = vips[m]
      BY <1>a, <3>1
    <3> QED
      BY <3>2, <3>3 DEF Exists
  <2> QED
    BY <2>2, <2>3
<1>2. cur \in Keys /\ api[cur].phase # "absent" /\ api[cur].finalizer
  BY <1>a, Busy DEF RInv, IInv, WorkerGuarded
<1>3. api[cur].phase \in {"absent", "live", "deleting"}
  BY <1>a, <1>2 DEF TypeOK, RuntimeTypeOK, ObjectType
<1>4. PhaseOf(api[cur]) \in {"guarded", "terminating"}
  BY <1>2, <1>3, PhaseCases
<1>5. [s \in Keys |-> PhaseOf(api[s])][cur] \in {"guarded", "terminating"}
  BY <1>2, <1>4
<1> QED
  BY <1>1, <1>2, <1>5 DEF Lifecycle!Provision

(* A VIP service that goes, if it was there, is removed. *)
LEMMA Removes ==
    ASSUME vips \in [VIPNames -> VIPType], NEW n \in VIPNames, UNCHANGED api,
           vips' = [vips EXCEPT ![n] = NoVIP]
    PROVE  Lifecycle!Remove(n) \/ UNCHANGED Lifecycle!vars
<1>1. {m \in VIPNames : Exists(m)}' = {m \in VIPNames : Exists(m)} \ {n}
  BY DEF Exists, NoVIP
<1>2. CASE Exists(n)
  BY <1>1, <1>2 DEF Lifecycle!Remove
<1>3. CASE ~Exists(n)
  BY <1>1, <1>3 DEF Lifecycle!vars
<1> QED
  BY <1>2, <1>3

(* A status is written for a guarded object only, and it drops no claim.   *)
LEMMA Claims ==
    ASSUME RInv, pc = "status", Fresh, UNCHANGED vips,
           api' = [api EXCEPT ![cur].status = obj.status]
    PROVE  \/ \E n \in VIPNames : Lifecycle!Claim(cur, n)
           \/ UNCHANGED Lifecycle!vars
<1> DEFINE o == [api[cur] EXCEPT !.status = obj.status]
<1>a. /\ TypeOK /\ api \in [Keys -> ObjectType] /\ cur \in Keys /\ api[cur] \in ObjectType
      /\ obj \in ObjectType
  BY Busy DEF RInv, IInv, TypeOK, RuntimeTypeOK
<1>1. o.status = obj.status /\ o.phase = api[cur].phase /\ o.finalizer = api[cur].finalizer
  BY <1>a DEF ObjectType
<1>2. api' = [api EXCEPT ![cur] = o]
  BY <1>a
<1>3. api[cur].phase = "live" /\ api[cur].finalizer
  BY DEF RInv, IInv, WorkerGuarded, CopyInSync, CopyRecords, LiveCalls, Fresh
<1> HIDE DEF o
<1>4. PhaseOf(o) = "guarded" /\ PhaseOf(api[cur]) = "guarded"
  BY <1>1, <1>3, PhaseCases
<1>5. [r \in Keys |-> PhaseOf(api'[r])] = [r \in Keys |-> PhaseOf(api[r])]
  BY <1>a, <1>2, <1>4, SamePhase
<1>6. CASE obj.status.created
  <2>1. obj.status.name \in VIPNames /\ ClaimOf(o) = obj.status.name
    BY <1>1, <1>6 DEF RInv, CopyRecords, NamesIt, ClaimOf
  <2>2. [r \in Keys |-> ClaimOf(api'[r])] =
          [[r \in Keys |-> ClaimOf(api[r])] EXCEPT ![cur] = obj.status.name]
    BY <1>a, <1>2, <2>1, OneMoves
  <2>3. {n \in VIPNames : Exists(n)}' = {n \in VIPNames : Exists(n)}
    BY DEF Exists
  <2>4. [r \in Keys |-> PhaseOf(api[r])][cur] = "guarded"
    BY <1>a, <1>4
  <2>5. Lifecycle!Claim(cur, obj.status.name)
    BY <1>5, <2>2, <2>3, <2>4 DEF Lifecycle!Claim
  <2> QED
    BY <2>1, <2>5
<1>7. CASE ~obj.status.created
  <2>1. ~api[cur].status.created
    BY <1>7 DEF RInv, CopyRecords, Fresh
  <2>2. ClaimOf(o) = ClaimOf(api[cur])
    BY <1>1, <1>7, <2>1 DEF ClaimOf
  <2> QED
    BY <1>a, <1>2, <1>4, <2>2, Moves
<1> QED
  BY <1>6, <1>7

(* The finalizer goes once the claimed VIP service has gone. *)
LEMMA Goes ==
    ASSUME RInv, pc = "removeFinalizer", Fresh, UNCHANGED vips, "delete" \notin FaultKinds,
           api' = [api EXCEPT ![cur] = NoObject]
    PROVE  Lifecycle!Gone(cur)
<1>a. /\ TypeOK /\ api \in [Keys -> ObjectType] /\ cur \in Keys
  BY Busy DEF RInv, IInv, TypeOK, RuntimeTypeOK
<1>1. obj = api[cur] /\ api[cur].phase = "deleting"
  BY DEF RInv, IInv, CopyInSync, WorkerGuarded, Fresh
<1>2. ClaimOf(api[cur]) \notin {n \in VIPNames : Exists(n)}
  <2>1. CASE api[cur].status.created
    <3>1. HasClient
      BY <1>a, <2>1 DEF RInv, RecordsGuarded, NamesIt
    <3>2. \A n \in VIPNames : obj.status.name = n => ~Exists(n)
      BY <1>1, <2>1, <3>1 DEF RInv, IInv, CleanedUp
    <3> QED
      BY <1>1, <2>1, <3>2 DEF ClaimOf
  <2>2. CASE ~api[cur].status.created
    BY <2>2, NoneAssumption DEF ClaimOf
  <2> QED
    BY <2>1, <2>2
<1>3. ClaimOf(NoObject) = None /\ PhaseOf(NoObject) = "absent" /\ PhaseOf(api[cur]) = "terminating"
  BY <1>1, PhaseCases DEF ClaimOf, NoObject, NewStatus
<1>4. /\ [r \in Keys |-> PhaseOf(api'[r])] =
                [[r \in Keys |-> PhaseOf(api[r])] EXCEPT ![cur] = "absent"]
      /\ [r \in Keys |-> ClaimOf(api'[r])] =
                [[r \in Keys |-> ClaimOf(api[r])] EXCEPT ![cur] = None]
  BY <1>a, <1>3, OneMoves
<1>5. {n \in VIPNames : Exists(n)}' = {n \in VIPNames : Exists(n)}
  BY DEF Exists
<1>6. /\ [r \in Keys |-> PhaseOf(api[r])][cur] = "terminating"
      /\ [r \in Keys |-> ClaimOf(api[r])][cur] \notin {n \in VIPNames : Exists(n)}
  BY <1>a, <1>2, <1>3
<1> QED
  BY <1>4, <1>5, <1>6 DEF Lifecycle!Gone, Lifecycle!Move

(* Every step of the controller is a step of the life cycle or a stutter.  *)
LEMMA StepMaps ==
    ASSUME RInv, [Next]_vars, "delete" \notin FaultKinds
    PROVE  [Lifecycle!Next]_Lifecycle!vars
<1> DEFINE Goal == [Lifecycle!Next]_Lifecycle!vars
<1>a. /\ TypeOK /\ api \in [Keys -> ObjectType] /\ obj \in ObjectType
      /\ vips \in [VIPNames -> VIPType]
  BY DEF RInv, IInv, TypeOK, RuntimeTypeOK
<1>b. \A s \in Keys : /\ api[s] \in ObjectType /\ api[s].phase \in {"absent", "live", "deleting"}
                      /\ api[s].status.created => api[s].phase # "absent" /\ api[s].finalizer
  BY <1>a DEF ObjectType, RInv, RecordsGuarded
<1>1. CASE UNCHANGED <<api, vips>>
  BY <1>1, Stutters
<1>2. ASSUME NEW s \in Keys, NEW sp \in Specs, Create(s, sp) PROVE Goal
  <2> DEFINE o == [NoObject EXCEPT !.phase = "live", !.spec = sp]
  <2>1. api' = [api EXCEPT ![s] = o] /\ UNCHANGED vips /\ api[s].phase = "absent"
    BY <1>2 DEF Create, UserWrite
  <2>2. o.status = NewStatus /\ o.phase = "live" /\ o.finalizer = FALSE
    BY CreatedObject
  <2> HIDE DEF o
  <2>3. ClaimOf(o) = ClaimOf(api[s])
    BY <1>b, <2>1, <2>2 DEF ClaimOf, NewStatus
  <2>4. PhaseOf(api[s]) = "absent" /\ PhaseOf(o) = "bare"
    BY <2>1, <2>2, PhaseCases
  <2>5. Lifecycle!Submit(s)
    BY <1>a, <2>1, <2>3, <2>4, Moves
  <2> QED
    BY <2>5 DEF Lifecycle!Next
<1>3. ASSUME NEW s \in Keys, NEW sp \in Specs, Edit(s, sp) PROVE Goal
  <2> DEFINE o == [api[s] EXCEPT !.spec = sp]
  <2>1. api' = [api EXCEPT ![s] = o] /\ UNCHANGED vips
    BY <1>3 DEF Edit, UserWrite
  <2>2. o.status = api[s].status /\ o.phase = api[s].phase /\ o.finalizer = api[s].finalizer
    BY <1>b, EditedObject
  <2> HIDE DEF o
  <2>3. ClaimOf(o) = ClaimOf(api[s]) /\ PhaseOf(api[s]) = PhaseOf(o)
    BY <2>2 DEF ClaimOf, PhaseOf
  <2> QED
    BY <1>a, <2>1, <2>3, Moves
<1>4. ASSUME NEW s \in Keys, Delete(s) PROVE Goal
  <2>1. CASE api[s].finalizer
    <3> DEFINE o == [api[s] EXCEPT !.phase = "deleting"]
    <3>1. api' = [api EXCEPT ![s] = o] /\ UNCHANGED vips /\ api[s].phase = "live"
      BY <1>4, <2>1 DEF Delete, UserWrite
    <3>2. o.status = api[s].status /\ o.phase = "deleting"
      BY <1>b, MarkedObject
    <3> HIDE DEF o
    <3>3. ClaimOf(o) = ClaimOf(api[s])
      BY <3>2 DEF ClaimOf
    <3>4. PhaseOf(api[s]) = "guarded" /\ PhaseOf(o) = "terminating"
      BY <2>1, <3>1, <3>2, PhaseCases
    <3>5. Lifecycle!Terminate(s)
      BY <1>a, <3>1, <3>3, <3>4, Moves
    <3> QED
      BY <3>5 DEF Lifecycle!Next
  <2>2. CASE ~api[s].finalizer
    <3>1. api' = [api EXCEPT ![s] = NoObject] /\ UNCHANGED vips /\ api[s].phase = "live"
      BY <1>4, <2>2 DEF Delete, UserWrite
    <3>2. ClaimOf(NoObject) = ClaimOf(api[s])
      BY <1>b, <2>2 DEF ClaimOf, NoObject, NewStatus
    <3>3. PhaseOf(api[s]) = "bare" /\ PhaseOf(NoObject) = "absent"
      BY <2>2, <3>1, PhaseCases DEF NoObject
    <3>4. Lifecycle!Withdraw(s)
      BY <1>a, <3>1, <3>2, <3>3, Moves
    <3> QED
      BY <3>4 DEF Lifecycle!Next
  <2> QED
    BY <2>1, <2>2
<1>5. ASSUME NEW s \in Keys, Deliver(s) \/ Fire(s) \/ Reconcile(s) PROVE Goal
  BY <1>1, <1>5 DEF Deliver, WatchEvent, Fire, TimerFires, Reconcile, Begin
<1>6. ASSUME NEW s \in Keys, NEW k \in ProxyKinds, Collect(s, k) PROVE Goal
  BY <1>1, <1>6 DEF Collect, cluster
<1>7. ASSUME NEW n \in VIPNames, AdminRemove(n) PROVE Goal
  <2>1. Lifecycle!Remove(n) \/ UNCHANGED Lifecycle!vars
    BY <1>a, <1>7, Removes DEF AdminRemove, cluster
  <2> QED
    BY <2>1 DEF Lifecycle!Next
<1>8. CASE Crash \/ SkipVIP \/ CheckVIP \/ ReadVIP \/ CreateProxyObject
  BY <1>1, <1>8 DEF Crash, Restart, SkipVIP, CheckVIP, ReadVIP, CreateProxyObject, cluster
<1>9. CASE AddFinalizer
  <2>1. CASE UNCHANGED api
    BY <1>1, <1>9, <2>1 DEF AddFinalizer
  <2>2. CASE api' # api
    <3> DEFINE o == [api[cur] EXCEPT !.finalizer = TRUE]
    <3>1. api' = [api EXCEPT ![cur] = o] /\ UNCHANGED vips /\ Fresh /\ pc = "addFinalizer" /\ cur \in Keys
      BY <1>a, <1>9, <2>2, Busy DEF AddFinalizer, Write, Outcome
    <3>2. api[cur].phase = "live" /\ ~api[cur].finalizer
      BY <3>1 DEF RInv, IInv, CopyInSync, CopyRecords, Fresh
    <3>3. o.status = api[cur].status /\ o.phase = api[cur].phase /\ o.finalizer = TRUE
      BY <1>b, <3>1, MarkedObject
    <3> HIDE DEF o
    <3>4. ClaimOf(o) = ClaimOf(api[cur])
      BY <3>3 DEF ClaimOf
    <3>5. PhaseOf(api[cur]) = "bare" /\ PhaseOf(o) = "guarded"
      BY <3>2, <3>3, PhaseCases
    <3>6. Lifecycle!Guard(cur)
      BY <1>a, <3>1, <3>4, <3>5, Moves
    <3> QED
      BY <3>1, <3>6 DEF Lifecycle!Next
  <2> QED
    BY <2>1, <2>2
<1>10. CASE PutVIP
  <2>1. /\ pc = "putVIP" /\ cur \in Keys /\ UNCHANGED api
        /\ UNCHANGED vips \/ Allocate(VIPName(cur, obj.spec), obj.spec.cfg)
    BY <1>a, <1>10, Busy DEF PutVIP, cluster
  <2>2. VIPName(cur, obj.spec) \in VIPNames /\ obj.spec.cfg \in Configs \cup {None}
    BY <1>a, <2>1, VIPNameType DEF ObjectType, SpecType
  <2>3. CASE Allocate(VIPName(cur, obj.spec), obj.spec.cfg)
    <3>1. Lifecycle!Provision(VIPName(cur, obj.spec))
      BY <2>1, <2>2, <2>3, Provisions
    <3> QED
      BY <2>2, <3>1 DEF Lifecycle!Next
  <2> QED
    BY <1>1, <2>1, <2>3
<1>11. CASE UpdateStatus
  <2>1. CASE UNCHANGED api
    BY <1>1, <1>11, <2>1 DEF UpdateStatus
  <2>2. CASE api' # api
    <3>1. /\ pc = "status" /\ Fresh /\ UNCHANGED vips
          /\ api' = [api EXCEPT ![cur].status = obj.status]
      BY <1>11, <2>2 DEF UpdateStatus, Write, Outcome
    <3>2. cur \in Keys
      BY <1>a, <3>1, Busy
    <3>3. \/ \E n \in VIPNames : Lifecycle!Claim(cur, n)
          \/ UNCHANGED Lifecycle!vars
      BY <3>1, Claims
    <3> QED
      BY <3>2, <3>3 DEF Lifecycle!Next
  <2> QED
    BY <2>1, <2>2
<1>12. CASE DeleteVIP
  <2>1. /\ pc = "deleteVIP" /\ UNCHANGED api
        /\ vips' = [vips EXCEPT ![obj.status.name] = NoVIP]
    BY <1>12 DEF DeleteVIP, Fault, cluster
  <2>2. obj.status.name \in VIPNames
    BY <2>1 DEF RInv, IInv, CleanedUp, CopyRecords, NamesIt
  <2>3. Lifecycle!Remove(obj.status.name) \/ UNCHANGED Lifecycle!vars
    BY <1>a, <2>1, <2>2, Removes
  <2> QED
    BY <2>2, <2>3 DEF Lifecycle!Next
<1>13. CASE RemoveFinalizer
  <2>1. CASE UNCHANGED api
    BY <1>1, <1>13, <2>1 DEF RemoveFinalizer
  <2>2. CASE api' # api
    <3>1. /\ pc = "removeFinalizer" /\ Fresh /\ UNCHANGED vips
          /\ api' = [api EXCEPT ![cur] = NoObject]
      BY <1>13, <2>2 DEF RemoveFinalizer, Write, Outcome
    <3>2. cur \in Keys
      BY <1>a, <3>1, Busy
    <3>3. Lifecycle!Gone(cur)
      BY <3>1, Goes
    <3> QED
      BY <3>2, <3>3 DEF Lifecycle!Next
  <2> QED
    BY <2>1, <2>2
<1>14. CASE UNCHANGED vars
  BY <1>1, <1>14 DEF vars, cluster
<1> QED
  BY <1>2, <1>3, <1>4, <1>5, <1>6, <1>7, <1>8, <1>9, <1>10, <1>11, <1>12, <1>13, <1>14
  DEF Next, WorkerStep

(* The initial states are those of the life cycle. *)
LEMMA InitMaps == Init => Lifecycle!Init
<1> SUFFICES ASSUME Init PROVE Lifecycle!Init
  OBVIOUS
<1>1. NoObject.phase = "absent" /\ ~NoObject.status.created
  BY DEF NoObject, NewStatus
<1>2. PhaseOf(NoObject) = "absent" /\ ClaimOf(NoObject) = None
  BY <1>1, PhaseCases DEF ClaimOf
<1>3. \A s \in Keys : api[s] = NoObject
  BY DEF Init, RuntimeInit
<1>4. \A n \in VIPNames : ~Exists(n)
  BY DEF Init, Exists, NoVIP
<1> QED
  BY <1>2, <1>3, <1>4 DEF Lifecycle!Init

(* The invariant of the refinement holds in every state. *)
LEMMA RInvariant == Spec => []RInv
<1>1. RInv /\ [Next]_vars => RInv'
  <2> SUFFICES ASSUME RInv, [Next]_vars PROVE RInv'
    OBVIOUS
  <2>1. IInv'
    BY InvNext DEF RInv
  <2> QED
    BY <2>1, RecordsNext, CopyNext DEF RInv
<1> QED
  BY <1>1, RInit, PTL DEF Spec

(* The controller, with its caches, crashes, and refused or lost writes,   *)
(* implements the life cycle of VIP services, as long as deleting a VIP    *)
(* service does not fail: handleDeletion ignores that failure.             *)
THEOREM Refinement == "delete" \notin FaultKinds => (Spec => ImplementsLifecycle)
<1> SUFFICES ASSUME "delete" \notin FaultKinds PROVE Spec => ImplementsLifecycle
  OBVIOUS
<1>1. RInv /\ [Next]_vars => [Lifecycle!Next]_Lifecycle!vars
  BY StepMaps
<1> QED
  BY <1>1, RInvariant, InitMaps, PTL DEF Spec, ImplementsLifecycle, Lifecycle!Spec

(***************************************************************************)
(* Who removes a VIP service that is recorded                              *)
(***************************************************************************)
(* A copy that shows the deletion of an object is never behind an object   *)
(* of the same name that has the finalizer already: the pass that added it *)
(* had seen the new object in the cache.                                   *)
NotRevived ==
    /\ \A s \in Keys :
          cache[s].phase = "deleting" => ~(api[s].phase = "live" /\ api[s].finalizer)
    /\ pc # "idle" /\ obj.phase = "deleting" =>
          ~(api[cur].phase = "live" /\ api[cur].finalizer)

(* Every action keeps it so. *)
LEMMA NotRevivedNext ==
    ASSUME RInv, NotRevived, [Next]_vars
    PROVE  NotRevived'
<1> DEFINE Guarded(o) == o.phase = "live" /\ o.finalizer
<1>a. /\ TypeOK /\ api \in [Keys -> ObjectType] /\ cache \in [Keys -> ObjectType]
      /\ obj \in ObjectType
  BY DEF RInv, IInv, TypeOK, RuntimeTypeOK
<1>1. CASE UNCHANGED <<pc, cur, obj, api, cache>>
  BY <1>1 DEF NotRevived
<1>2. ASSUME NEW s \in Keys, NEW o, UserWrite(s, o), Guarded(o) => Guarded(api[s])
      PROVE  NotRevived'
  <2>1. /\ UNCHANGED <<pc, cur, obj, cache>> /\ api' = [api EXCEPT ![s] = o]
    BY <1>2 DEF UserWrite
  <2>2. \A r \in Keys : Guarded(api'[r]) => Guarded(api[r])
    BY <1>a, <1>2, <2>1
  <2> QED
    BY <1>a, <2>1, <2>2, Busy DEF NotRevived
<1>3. ASSUME NEW s \in Keys, NEW sp \in Specs, Create(s, sp) PROVE NotRevived'
  <2>1. ~Guarded([NoObject EXCEPT !.phase = "live", !.spec = sp])
    BY CreatedObject
  <2> QED
    BY <1>2, <1>3, <2>1 DEF Create
<1>4. ASSUME NEW s \in Keys, NEW sp \in Specs, Edit(s, sp) PROVE NotRevived'
  <2> DEFINE o == [api[s] EXCEPT !.spec = sp]
  <2>1. Guarded(o) => Guarded(api[s])
    BY <1>a, EditedObject
  <2>2. UserWrite(s, o)
    BY <1>4 DEF Edit
  <2> HIDE DEF o
  <2> QED
    BY <1>2, <2>1, <2>2
<1>5. ASSUME NEW s \in Keys, Delete(s) PROVE NotRevived'
  <2> DEFINE o == [api[s] EXCEPT !.phase = "deleting"]
  <2>1. ~Guarded(o)
    BY <1>a, MarkedObject
  <2>2. ~Guarded(NoObject)
    BY DEF NoObject
  <2>3. UserWrite(s, o) \/ UserWrite(s, NoObject)
    BY <1>5 DEF Delete
  <2> HIDE DEF o
  <2> QED
    BY <1>2, <2>1, <2>2, <2>3
<1>6. ASSUME NEW s \in Keys, Deliver(s) PROVE NotRevived'
  <2>1. UNCHANGED <<pc, cur, obj, api>> /\ cache' = [cache EXCEPT ![s] = api[s]]
    BY <1>6 DEF Deliver, WatchEvent, worker
  <2> QED
    BY <1>a, <2>1 DEF NotRevived
<1>7. ASSUME NEW s \in Keys, Fire(s) PROVE NotRevived'
  BY <1>1, <1>7 DEF Fire, TimerFires, worker
<1>8. ASSUME NEW s \in Keys, Reconcile(s) PROVE NotRevived'
  <2>1. UNCHANGED <<api, cache>>
    BY <1>8 DEF Reconcile, Begin
  <2>2. UNCHANGED worker \/ (cur' = s /\ obj' = cache[s])
    BY <1>8 DEF Reconcile, Begin
  <2> QED
    BY <1>1, <2>1, <2>2 DEF NotRevived, worker
<1>9. ASSUME NEW s \in Keys, NEW k \in ProxyKinds, Collect(s, k) PROVE NotRevived'
  BY <1>1, <1>9 DEF Collect, worker, cluster
<1>10. ASSUME NEW n \in VIPNames, AdminRemove(n) PROVE NotRevived'
  BY <1>1, <1>10 DEF AdminRemove, worker, cluster
<1>11. CASE Crash
  BY <1>11 DEF Crash, Restart, Release, NotRevived
<1>12. CASE SkipVIP \/ CheckVIP \/ PutVIP \/ ReadVIP \/ CreateProxyObject
  <2>1. UNCHANGED <<api, cache>>
    BY <1>12 DEF SkipVIP, CheckVIP, PutVIP, ReadVIP, CreateProxyObject, cluster
  <2>2. pc \in LiveCalls /\ obj'.phase = obj.phase
    BY <1>12, LiveCallSteps
  <2>3. obj'.phase = "live"
    BY <2>2 DEF RInv, CopyRecords
  <2> QED
    BY <2>1, <2>3 DEF NotRevived
<1>13. CASE DeleteVIP
  BY <1>13 DEF DeleteVIP, cluster, NotRevived
<1>14. CASE AddFinalizer \/ UpdateStatus \/ RemoveFinalizer
  <2>1. pc' = "idle" /\ UNCHANGED cache /\ cur \in Keys
    BY <1>a, <1>14, Busy
    DEF AddFinalizer, UpdateStatus, RemoveFinalizer, Finish, FinishAndRequeue,
        ReleaseAndRequeue, Idle, Release
  <2>2. CASE UNCHANGED api
    BY <2>1, <2>2 DEF NotRevived
  <2>3. CASE AddFinalizer /\ api' # api
    <3>1. api' = [api EXCEPT ![cur].finalizer = TRUE] /\ Fresh /\ pc = "addFinalizer"
      BY <2>3 DEF AddFinalizer, Write, Outcome
    <3>2. cache[cur] = api[cur] /\ obj = api[cur]
      BY <2>1, <3>1 DEF RInv, IInv, CopyInSync, CacheInSync, Fresh
    <3>3. cache[cur].phase = "live"
      BY <3>1, <3>2 DEF RInv, CopyRecords
    <3> QED
      BY <1>a, <2>1, <3>1, <3>3 DEF NotRevived
  <2>4. CASE UpdateStatus /\ api' # api
    <3>1. api' = [api EXCEPT ![cur].status = obj.status]
      BY <2>4 DEF UpdateStatus, Write
    <3>2. \A s \in Keys : Guarded(api'[s]) => Guarded(api[s])
      BY <1>a, <2>1, <3>1 DEF ObjectType
    <3> QED
      BY <2>1, <3>2 DEF NotRevived
  <2>5. CASE RemoveFinalizer /\ api' # api
    <3>1. api' = [api EXCEPT ![cur] = NoObject]
      BY <2>5 DEF RemoveFinalizer, Write
    <3>2. \A s \in Keys : Guarded(api'[s]) => Guarded(api[s])
      BY <1>a, <2>1, <3>1 DEF NoObject
    <3> QED
      BY <2>1, <3>2 DEF NotRevived
  <2> QED
    BY <1>14, <2>2, <2>3, <2>4, <2>5
<1>15. CASE UNCHANGED vars
  BY <1>1, <1>15 DEF vars, worker, cluster
<1> QED
  BY <1>3, <1>4, <1>5, <1>6, <1>7, <1>8, <1>9, <1>10, <1>11, <1>12, <1>13, <1>14,
     <1>15 DEF Next, WorkerStep

(* The passes of a live object never remove the VIP service it records,    *)
(* whatever deletion of an older object of its name the cache still shows. *)
THEOREM LiveVIPIsKept == Spec => LiveVIPKept
<1> DEFINE A == \A s \in Keys : \A n \in VIPNames :
                  /\ Live(s) /\ api[s].status.created /\ api[s].status.name = n
                  /\ WorkerStep /\ Exists(n) /\ ~Exists(n)'
                  => cur # s /\ obj.phase = "deleting" /\ obj.status.name = n
<1>1. ASSUME RInv, NotRevived, [Next]_vars PROVE [A]_vars
  <2> SUFFICES ASSUME NEW s \in Keys, NEW n \in VIPNames,
                      Live(s), api[s].status.created, api[s].status.name = n,
                      WorkerStep, Exists(n), ~Exists(n)'
               PROVE  cur # s /\ obj.phase = "deleting" /\ obj.status.name = n
    BY DEF A
  <2>a. TypeOK /\ vips \in [VIPNames -> VIPType]
    BY <1>1 DEF RInv, IInv, TypeOK
  <2>1. ASSUME NEW m \in VIPNames, NEW c \in Configs \cup {None}, Allocate(m, c) PROVE Exists(n)'
    <3>1. CASE vips' = [vips EXCEPT ![m].cfg = c]
      BY <2>a, <3>1 DEF Exists, VIPType
    <3>2. CASE ~Exists(m) /\ \E a \in Addrs : vips' = [vips EXCEPT ![m] = [cfg |-> c, addr |-> a]]
      BY <2>a, <3>2 DEF Exists
    <3> QED
      BY <2>1, <3>1, <3>2 DEF Allocate
  <2>2. ~PutVIP
    <3> SUFFICES ASSUME PutVIP PROVE FALSE
      OBVIOUS
    <3>1. VIPName(cur, obj.spec) \in VIPNames /\ obj.spec.cfg \in Configs \cup {None}
      BY <2>a, Busy, VIPNameType DEF PutVIP, TypeOK, RuntimeTypeOK, ObjectType, SpecType
    <3> QED
      BY <2>1, <3>1 DEF PutVIP, Exists
  <2>3. DeleteVIP
    BY <2>2 DEF WorkerStep, AddFinalizer, SkipVIP, CheckVIP, ReadVIP, CreateProxyObject,
                UpdateStatus, RemoveFinalizer, Exists
  <2>4. obj.status.name = n
    BY <2>a, <2>3 DEF DeleteVIP, Exists
  <2>5. pc = "deleteVIP" /\ obj.phase = "deleting"
    BY <1>1, <2>3 DEF DeleteVIP, RInv, IInv, WorkerGuarded
  <2>6. api[s].finalizer
    BY <1>1 DEF RInv, RecordsGuarded
  <2> QED
    BY <1>1, <2>4, <2>5, <2>6 DEF NotRevived, Live
<1>2. Init => NotRevived
  BY DEF Init, RuntimeInit, NotRevived, NoObject
<1>3. RInv /\ NotRevived /\ [Next]_vars => NotRevived'
  BY NotRevivedNext
<1> QED
  BY <1>1, <1>2, <1>3, RInvariant, PTL DEF Spec, LiveVIPKept
=============================================================================
