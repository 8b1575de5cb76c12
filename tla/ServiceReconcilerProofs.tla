---------------------- MODULE ServiceReconcilerProofs ----------------------
(***************************************************************************)
(* Theorems about ServiceReconciler, for every set of services, names,     *)
(* specs, faults and bounds.                                               *)
(***************************************************************************)
EXTENDS ServiceProperties, TLAPS

(***************************************************************************)
(* Types                                                                   *)
(***************************************************************************)
(* The constant records are what the types say. *)
LEMMA ConstantTypes ==
    /\ NoSpec \in SpecType
    /\ NewStatus \in StatusType
    /\ NoObject \in ObjectType
    /\ NoVIP \in VIPType
BY DEF NoSpec, SpecType, NewStatus, StatusType, Conditions, NoObject, ObjectType,
       NoVIP, VIPType

(* The name a spec asks for is a name of the tailnet. *)
LEMMA VIPNameType ==
    ASSUME NEW s \in Keys, NEW sp \in SpecType
    PROVE  VIPName(s, sp) \in VIPNames
BY DefaultNameAssumption DEF VIPName, SpecType

(* Every step of ProxyOrder is the creation of one of ProxyKinds. *)
LEMMA ProxyOrderType ==
    ASSUME NEW i \in 1..6
    PROVE  ProxyOrder[i] \in ProxyKinds
BY DEF ProxyKinds

(* The fields reconcileVIPService sets keep the status well typed. *)
LEMMA RecordType ==
    ASSUME cur \in Keys, obj \in ObjectType, NEW created \in BOOLEAN
    PROVE  Record(created) \in StatusType
<1>1. VIPName(cur, obj.spec) \in VIPNames
  BY VIPNameType DEF ObjectType
<1> QED
  BY <1>1 DEF Record, ObjectType, StatusType, SpecType

(* Completing a status keeps it well typed. *)
LEMMA CompleteType ==
    ASSUME obj \in ObjectType, NEW st \in StatusType
    PROVE  /\ Complete(st) \in StatusType
           /\ Complete(st).name = st.name /\ Complete(st).tags = st.tags
           /\ Complete(st).proxy = st.proxy /\ Complete(st).proxyReady = st.proxyReady
           /\ Complete(st).created = st.created
BY DEF Complete, ObjectType, StatusType, SpecType, Conditions

(* Replacing its status keeps an object well typed. *)
LEMMA WithStatusType ==
    ASSUME NEW o \in ObjectType, NEW st \in StatusType
    PROVE  /\ [o EXCEPT !.status = st] \in ObjectType
           /\ [o EXCEPT !.status = st].status = st
           /\ [o EXCEPT !.status = st].phase = o.phase
           /\ [o EXCEPT !.status = st].finalizer = o.finalizer
           /\ [o EXCEPT !.status = st].spec = o.spec
BY DEF ObjectType

(* What follows a successful reconcileVIPService: the worker stays well    *)
(* typed, keeps the object's spec, and keeps what the step has recorded.   *)
LEMMA AfterVIPType ==
    ASSUME obj \in ObjectType, NEW st \in StatusType, AfterVIP(st)
    PROVE  /\ pc' \in {"status", "proxy"} /\ obj' \in ObjectType
           /\ obj'.phase = obj.phase /\ obj'.spec = obj.spec
           /\ obj'.status.name = st.name /\ obj'.status.tags = st.tags
           /\ obj'.status.proxy = st.proxy
           /\ obj'.status.proxyReady \in {st.proxyReady, "False"}
<1> DEFINE up == [st EXCEPT !.vipReady = "True"]
           noTailnet == [up EXCEPT !.proxyReady = "False"]
<1>1. /\ up \in StatusType /\ noTailnet \in StatusType
      /\ \A r \in {up, noTailnet} :
            r.name = st.name /\ r.tags = st.tags /\ r.proxy = st.proxy
      /\ up.proxyReady = st.proxyReady /\ noTailnet.proxyReady = "False"
  BY DEF StatusType, Conditions
<1>2. \/ pc' = "proxy" /\ obj' = [obj EXCEPT !.status = up]
      \/ pc' = "status" /\ obj' = [obj EXCEPT !.status = noTailnet]
      \/ pc' = "status" /\ obj' = [obj EXCEPT !.status = Complete(up)]
  BY DEF AfterVIP
<1> HIDE DEF up, noTailnet
<1>3. CASE pc' = "proxy" /\ obj' = [obj EXCEPT !.status = up]
  BY <1>1, <1>3, WithStatusType
<1>4. CASE pc' = "status" /\ obj' = [obj EXCEPT !.status = noTailnet]
  BY <1>1, <1>4, WithStatusType
<1>5. CASE pc' = "status" /\ obj' = [obj EXCEPT !.status = Complete(up)]
  BY <1>1, <1>5, CompleteType, WithStatusType
<1> QED
  BY <1>2, <1>3, <1>4, <1>5

(* A PUT leaves the worker's copy well typed: either the VIP service is    *)
(* recorded, or only the condition of the failure.                         *)
LEMMA PutVIPType ==
    ASSUME obj \in ObjectType, Record(TRUE) \in StatusType, PutVIP
    PROVE  /\ obj' \in ObjectType /\ obj'.phase = obj.phase /\ obj'.spec = obj.spec
           /\ \/ pc' = "readVIP" /\ obj'.status = Record(TRUE)
              \/ pc' = "status" /\ obj'.status.vipReady = "False"
<1> DEFINE failed == [obj.status EXCEPT !.vipReady = "False"]
<1>1. failed \in StatusType /\ failed.vipReady = "False"
  BY DEF ObjectType, StatusType, Conditions
<1>2. \/ pc' = "readVIP" /\ obj' = [obj EXCEPT !.status = Record(TRUE)]
      \/ pc' = "status" /\ obj' = [obj EXCEPT !.status = failed]
  BY DEF PutVIP, PutFailed, ObjectType
<1> HIDE DEF failed
<1>3. CASE pc' = "readVIP" /\ obj' = [obj EXCEPT !.status = Record(TRUE)]
  BY <1>3, WithStatusType
<1>4. CASE pc' = "status" /\ obj' = [obj EXCEPT !.status = failed]
  BY <1>1, <1>4, WithStatusType
<1> QED
  BY <1>2, <1>3, <1>4

(* Creating a proxy object keeps the worker's copy well typed and the      *)
(* fields reconcileVIPService has recorded.                                *)
LEMMA CreateProxyType ==
    ASSUME obj \in ObjectType, CreateProxyObject
    PROVE  /\ pc' \in {"proxy", "status"} /\ obj' \in ObjectType
           /\ obj'.phase = obj.phase /\ obj'.spec = obj.spec
           /\ obj'.status.name = obj.status.name /\ obj'.status.tags = obj.status.tags
           /\ \/ pc' = "proxy" /\ obj' = obj
              \/ pc' = "status" /\ step = 6
              \/ /\ pc' = "status"
                 /\ obj'.status.proxy = obj.status.proxy /\ obj'.status.proxyReady = "False"
<1> DEFINE failed == [obj.status EXCEPT !.proxyReady = "False"]
           done == [obj.status EXCEPT !.proxy = TRUE, !.proxyReady = "True"]
<1>1. /\ failed \in StatusType /\ done \in StatusType
      /\ \A r \in {failed, done} : r.name = obj.status.name /\ r.tags = obj.status.tags
      /\ failed.proxy = obj.status.proxy /\ failed.proxyReady = "False"
  BY DEF ObjectType, StatusType, Conditions
<1>2. \/ pc' = "proxy" /\ obj' = obj
      \/ pc' = "status" /\ obj' = [obj EXCEPT !.status = failed]
      \/ pc' = "status" /\ step = 6 /\ obj' = [obj EXCEPT !.status = Complete(done)]
  BY DEF CreateProxyObject, ProxyUp, ObjectType
<1> HIDE DEF failed, done
<1>3. CASE pc' = "proxy" /\ obj' = obj
  BY <1>3
<1>4. CASE pc' = "status" /\ obj' = [obj EXCEPT !.status = failed]
  BY <1>1, <1>4, WithStatusType
<1>5. CASE pc' = "status" /\ step = 6 /\ obj' = [obj EXCEPT !.status = Complete(done)]
  BY <1>1, <1>5, CompleteType, WithStatusType
<1> QED
  BY <1>2, <1>3, <1>4, <1>5

(* The initial states are well typed. *)
LEMMA TypeInit == Init => TypeOK
<1> SUFFICES ASSUME Init PROVE TypeOK
  OBVIOUS
<1>1. 0 \in 0..MaxEdits /\ 0 \in 0..MaxFaults
  BY BoundAssumption
<1>2. [s \in Keys |-> NoObject] \in [Keys -> ObjectType]
  BY ConstantTypes
<1>3. [n \in VIPNames |-> NoVIP] \in [VIPNames -> VIPType]
  BY ConstantTypes
<1>4. [s \in Keys |-> [k \in ProxyKinds |-> "none"]] \in
        [Keys -> [ProxyKinds -> {"none", "owned", "orphan"}]]
  OBVIOUS
<1>5. 1 \in 1..6
  OBVIOUS
<1>6. /\ api \in [Keys -> ObjectType] /\ cache \in [Keys -> ObjectType]
      /\ stale \subseteq Keys /\ queue \subseteq Keys /\ timers \subseteq Keys
  BY <1>2 DEF Init, RuntimeInit
<1>7. /\ pc \in Calls \cup {"idle"} /\ cur \in Keys \cup {None} /\ (cur = None <=> pc = "idle")
      /\ obj \in ObjectType /\ conflict \in BOOLEAN
  BY ConstantTypes DEF Init, RuntimeInit, Calls
<1> QED
  BY <1>1, <1>3, <1>4, <1>5, <1>6, <1>7 DEF Init, RuntimeInit, TypeOK, RuntimeTypeOK

(* A user's write keeps everything but the children well typed. *)
LEMMA UserWriteType ==
    ASSUME TypeOK, NEW s \in Keys, NEW o \in ObjectType, UserWrite(s, o),
           UNCHANGED <<step, vips>>,
           UNCHANGED children \/ Disown(s)
    PROVE  TypeOK'
<1>1. edits' \in 0..MaxEdits
  BY BoundAssumption DEF TypeOK, RuntimeTypeOK, UserWrite
<1>2. children' \in [Keys -> [ProxyKinds -> {"none", "owned", "orphan"}]]
  BY DEF TypeOK, RuntimeTypeOK, Disown
<1>3. api' \in [Keys -> ObjectType] /\ stale' \subseteq Keys
  BY DEF TypeOK, RuntimeTypeOK, UserWrite, Bump
<1> QED
  BY <1>1, <1>2, <1>3 DEF TypeOK, RuntimeTypeOK, UserWrite

(* A fault is counted within its bound. *)
LEMMA FaultType ==
    ASSUME TypeOK, NEW kind, Fault(kind) \/ UNCHANGED faults
    PROVE  faults' \in 0..MaxFaults
BY BoundAssumption DEF TypeOK, RuntimeTypeOK, Fault

(* The idle worker is well typed. *)
LEMMA IdleType ==
    ASSUME Idle
    PROVE  /\ pc' \in Calls \cup {"idle"} /\ cur' \in Keys \cup {None} /\ (cur' = None <=> pc' = "idle")
           /\ obj' \in ObjectType /\ conflict' \in BOOLEAN /\ step' \in 1..6
<1>1. pc' = "idle" /\ cur' = None /\ obj' = NoObject /\ conflict' = FALSE /\ step' = 1
  BY DEF Idle, Release
<1>2. 1 \in 1..6
  OBVIOUS
<1> QED
  BY <1>1, <1>2, ConstantTypes DEF Calls

(* A busy worker has a current service. *)
LEMMA Busy ==
    ASSUME TypeOK, pc # "idle"
    PROVE  cur \in Keys
BY DEF TypeOK, RuntimeTypeOK

(* The outcome of a write counts at most one fault. *)
LEMMA OutcomeType ==
    ASSUME TypeOK, NEW applied, NEW ok, Outcome(applied, ok)
    PROVE  faults' \in 0..MaxFaults
BY FaultType DEF Outcome

(* Writing the finalizer, the status or the removal keeps api typed. *)
LEMMA ApiWriteType ==
    ASSUME TypeOK, NEW s \in Keys, NEW o \in ObjectType
    PROVE  /\ [api EXCEPT ![s].finalizer = TRUE] \in [Keys -> ObjectType]
           /\ [api EXCEPT ![s].status = o.status] \in [Keys -> ObjectType]
           /\ [api EXCEPT ![s] = o] \in [Keys -> ObjectType]
<1>1. api[s] \in ObjectType
  BY DEF TypeOK, RuntimeTypeOK
<1>2. [api[s] EXCEPT !.finalizer = TRUE] \in ObjectType
  BY <1>1 DEF ObjectType
<1>3. [api[s] EXCEPT !.status = o.status] \in ObjectType
  BY <1>1 DEF ObjectType
<1> QED
  BY <1>2, <1>3 DEF TypeOK, RuntimeTypeOK

(* Every PUT leaves the tailnet well typed. *)
LEMMA AllocateType ==
    ASSUME TypeOK, NEW n \in VIPNames, NEW c \in Configs \cup {None}, Allocate(n, c)
    PROVE  vips' \in [VIPNames -> VIPType]
<1>1. CASE Exists(n)
  <2>1. [vips[n] EXCEPT !.cfg = c] \in VIPType
    BY DEF TypeOK, RuntimeTypeOK, VIPType
  <2> QED
    BY <1>1, <2>1 DEF Allocate, TypeOK, RuntimeTypeOK
<1>2. CASE ~Exists(n)
  BY <1>2 DEF Allocate, TypeOK, RuntimeTypeOK, VIPType
<1> QED
  BY <1>1, <1>2

(* Every action keeps the state well typed. *)
LEMMA TypeNext == TypeOK /\ [Next]_vars => TypeOK'
<1> SUFFICES ASSUME TypeOK, [Next]_vars PROVE TypeOK'
  OBVIOUS
<1>1. ASSUME NEW s \in Keys, NEW sp \in Specs, Create(s, sp) PROVE TypeOK'
  <2>1. sp \in SpecType
    BY SpecsAssumption
  <2>2. [NoObject EXCEPT !.phase = "live", !.spec = sp] \in ObjectType
    BY <2>1, ConstantTypes DEF ObjectType
  <2> QED
    BY <1>1, <2>2, UserWriteType DEF Create
<1>2. ASSUME NEW s \in Keys, NEW sp \in Specs, Edit(s, sp) PROVE TypeOK'
  <2>1. sp \in SpecType
    BY SpecsAssumption
  <2>2. [api[s] EXCEPT !.spec = sp] \in ObjectType
    BY <2>1 DEF TypeOK, RuntimeTypeOK, ObjectType
  <2> QED
    BY <1>2, <2>2, UserWriteType DEF Edit
<1>3. ASSUME NEW s \in Keys, Delete(s) PROVE TypeOK'
  <2>1. [api[s] EXCEPT !.phase = "deleting"] \in ObjectType
    BY DEF TypeOK, RuntimeTypeOK, ObjectType
  <2> QED
    BY <1>3, <2>1, ConstantTypes, UserWriteType DEF Delete
<1>4. ASSUME NEW s \in Keys, Deliver(s) PROVE TypeOK'
  BY <1>4 DEF Deliver, WatchEvent, TypeOK, RuntimeTypeOK, worker, budgets
<1>5. ASSUME NEW s \in Keys, Fire(s) PROVE TypeOK'
  BY <1>5 DEF Fire, TimerFires, TypeOK, RuntimeTypeOK, worker, budgets
<1>6. ASSUME NEW s \in Keys, Reconcile(s) PROVE TypeOK'
  <2>1. FirstCall(cache[s]) \in Calls
    BY DEF FirstCall, Calls
  <2>2. 1 \in 1..6 /\ s # None
    BY KeysAssumption
  <2>3. CASE cache[s].phase = "absent" /\ UNCHANGED worker
    BY <1>6, <2>3 DEF Reconcile, Begin, TypeOK, RuntimeTypeOK, worker, budgets
  <2>4. CASE /\ cur' = s /\ obj' = cache[s] /\ conflict' = (s \in stale)
             /\ pc' = FirstCall(cache[s]) /\ step' = 1
    <3>1. conflict' \in BOOLEAN
      BY <2>4
    <3>2. obj' \in ObjectType /\ pc' \in Calls \cup {"idle"} /\ pc' # "idle" /\ cur' \in Keys /\ cur' # None
      BY <2>1, <2>2, <2>4 DEF Calls, TypeOK, RuntimeTypeOK
    <3>3. step' \in 1..6
      BY <2>2, <2>4
    <3>4. /\ queue' = queue \ {s}
          /\ UNCHANGED <<api, cache, stale, timers, edits, faults, vips, children>>
      BY <1>6 DEF Reconcile, Begin, budgets
    <3> QED
      BY <3>1, <3>2, <3>3, <3>4 DEF TypeOK, RuntimeTypeOK
  <2> QED
    BY <1>6, <2>3, <2>4 DEF Reconcile, Begin
<1>7. ASSUME NEW s \in Keys, NEW k \in ProxyKinds, Collect(s, k) PROVE TypeOK'
  BY <1>7 DEF Collect, TypeOK, RuntimeTypeOK, cluster, worker, budgets
<1>8. ASSUME NEW n \in VIPNames, AdminRemove(n) PROVE TypeOK'
  <2>1. faults' \in 0..MaxFaults
    BY <1>8, FaultType DEF AdminRemove
  <2> QED
    BY <1>8, <2>1, ConstantTypes DEF AdminRemove, TypeOK, RuntimeTypeOK, cluster, worker
<1>9. CASE Crash
  <2>1. faults' \in 0..MaxFaults
    BY <1>9, FaultType DEF Crash, Restart, Idle
  <2>2. Idle
    BY <1>9 DEF Crash, Restart, Idle
  <2> QED
    BY <1>9, <2>1, <2>2, IdleType DEF Crash, Restart, Idle, TypeOK, RuntimeTypeOK
<1>10. CASE AddFinalizer
  <2>1. cur \in Keys
    BY <1>10, Busy DEF AddFinalizer, Write
  <2>2. faults' \in 0..MaxFaults
    BY <1>10, OutcomeType DEF AddFinalizer, Write
  <2>3. Idle /\ timers' = timers \cup {cur}
    BY <1>10 DEF AddFinalizer, Write, FinishAndRequeue, ReleaseAndRequeue, Idle
  <2>4. api' \in [Keys -> ObjectType] /\ stale' \subseteq Keys
    BY <1>10, <2>1, ApiWriteType DEF AddFinalizer, Write, Bump, TypeOK, RuntimeTypeOK
  <2> QED
    BY <1>10, <2>1, <2>2, <2>3, <2>4, IdleType DEF AddFinalizer, Write, TypeOK, RuntimeTypeOK
<1>11. CASE SkipVIP
  <2>1. cur \in Keys
    BY <1>11, Busy DEF SkipVIP
  <2>2. pc' \in {"status", "proxy"} /\ obj' \in ObjectType
    BY <1>11, <2>1, RecordType, AfterVIPType DEF SkipVIP, TypeOK, RuntimeTypeOK
  <2> QED
    BY <1>11, <2>1, <2>2, NoneAssumption
    DEF SkipVIP, AfterVIP, TypeOK, RuntimeTypeOK, Calls, cluster, budgets
<1>12. CASE CheckVIP
  <2>1. cur \in Keys
    BY <1>12, Busy DEF CheckVIP
  <2>2. pc' \in {"status", "proxy", "putVIP"} /\ obj' \in ObjectType
    BY <1>12, <2>1, RecordType, AfterVIPType DEF CheckVIP, TypeOK, RuntimeTypeOK
  <2>3. faults' \in 0..MaxFaults
    BY <1>12, FaultType DEF CheckVIP
  <2>4. cur' = cur /\ conflict' = conflict /\ step' = step
    BY <1>12 DEF CheckVIP, AfterVIP
  <2> QED
    BY <1>12, <2>1, <2>2, <2>3, <2>4, NoneAssumption DEF CheckVIP, TypeOK, RuntimeTypeOK, Calls, cluster
<1>13. CASE PutVIP
  <2>1. cur \in Keys
    BY <1>13, Busy DEF PutVIP
  <2>2. VIPName(cur, obj.spec) \in VIPNames /\ obj.spec.cfg \in Configs \cup {None}
    BY <2>1, VIPNameType DEF TypeOK, RuntimeTypeOK, ObjectType, SpecType
  <2>3. vips' \in [VIPNames -> VIPType]
    BY <1>13, <2>2, AllocateType DEF PutVIP, TypeOK, RuntimeTypeOK
  <2>4. obj \in ObjectType /\ Record(TRUE) \in StatusType
    BY <2>1, RecordType DEF TypeOK, RuntimeTypeOK
  <2>5. pc' \in {"readVIP", "status"} /\ obj' \in ObjectType
    BY <1>13, <2>4, PutVIPType
  <2>6. faults' \in 0..MaxFaults
    BY <1>13, FaultType DEF PutVIP
  <2>7. cur' = cur /\ conflict' = conflict /\ step' = step
    BY <1>13 DEF PutVIP, PutFailed
  <2> QED
    BY <1>13, <2>1, <2>3, <2>5, <2>6, <2>7, NoneAssumption DEF PutVIP, TypeOK, RuntimeTypeOK, Calls, cluster
<1>14. CASE ReadVIP
  <2>1. cur \in Keys
    BY <1>14, Busy DEF ReadVIP
  <2>2. VIPName(cur, obj.spec) \in VIPNames
    BY <2>1, VIPNameType DEF TypeOK, RuntimeTypeOK, ObjectType
  <2>3. /\ obj.status \in StatusType
        /\ [obj.status EXCEPT !.addr = vips[VIPName(cur, obj.spec)].addr] \in StatusType
    BY <2>2 DEF TypeOK, RuntimeTypeOK, ObjectType, StatusType, VIPType
  <2>4. pc' \in {"status", "proxy"} /\ obj' \in ObjectType
    BY <1>14, <2>3, AfterVIPType DEF ReadVIP, TypeOK, RuntimeTypeOK
  <2>5. faults' \in 0..MaxFaults
    BY <1>14, FaultType DEF ReadVIP
  <2>6. cur' = cur /\ conflict' = conflict /\ step' = step
    BY <1>14 DEF ReadVIP, AfterVIP
  <2> QED
    BY <1>14, <2>1, <2>4, <2>5, <2>6, NoneAssumption DEF ReadVIP, TypeOK, RuntimeTypeOK, Calls, cluster
<1>15. CASE CreateProxyObject
  <2>1. cur \in Keys
    BY <1>15, Busy DEF CreateProxyObject
  <2>2. ProxyOrder[step] \in ProxyKinds
    BY ProxyOrderType DEF TypeOK, RuntimeTypeOK
  <2>3. children' \in [Keys -> [ProxyKinds -> {"none", "owned", "orphan"}]]
    <3>1. [children[cur] EXCEPT ![ProxyOrder[step]] = "owned"] \in
            [ProxyKinds -> {"none", "owned", "orphan"}]
      BY <2>1, <2>2 DEF TypeOK, RuntimeTypeOK
    <3>2. \/ UNCHANGED children
          \/ children' = [children EXCEPT ![cur][ProxyOrder[step]] = "owned"]
      BY <1>15 DEF CreateProxyObject
    <3> QED
      BY <2>1, <3>1, <3>2 DEF TypeOK, RuntimeTypeOK
  <2>6. pc' \in {"proxy", "status"} /\ obj' \in ObjectType
    BY <1>15, CreateProxyType DEF TypeOK, RuntimeTypeOK
  <2>7. step' \in 1..6
    BY <1>15 DEF CreateProxyObject, TypeOK, RuntimeTypeOK
  <2>8. faults' \in 0..MaxFaults
    BY <1>15, FaultType DEF CreateProxyObject
  <2> QED
    BY <1>15, <2>1, <2>3, <2>6, <2>7, <2>8, NoneAssumption
    DEF CreateProxyObject, TypeOK, RuntimeTypeOK, Calls, cluster
<1>16. CASE UpdateStatus
  <2>1. cur \in Keys
    BY <1>16, Busy DEF UpdateStatus, Write
  <2>2. faults' \in 0..MaxFaults
    BY <1>16, OutcomeType DEF UpdateStatus, Write
  <2>3. Idle /\ timers' = timers \cup {cur}
    BY <1>16 DEF UpdateStatus, Write, FinishAndRequeue, ReleaseAndRequeue, Idle
  <2>4. api' \in [Keys -> ObjectType] /\ stale' \subseteq Keys
    <3>1. [api EXCEPT ![cur].status = obj.status] \in [Keys -> ObjectType]
      BY <2>1, ApiWriteType DEF TypeOK, RuntimeTypeOK
    <3> QED
      BY <1>16, <2>1, <3>1 DEF UpdateStatus, Write, Bump, TypeOK, RuntimeTypeOK
  <2> QED
    BY <1>16, <2>1, <2>2, <2>3, <2>4, IdleType DEF UpdateStatus, Write, TypeOK, RuntimeTypeOK
<1>17. CASE DeleteVIP
  <2>1. cur \in Keys
    BY <1>17, Busy DEF DeleteVIP
  <2>2. vips' \in [VIPNames -> VIPType]
    BY <1>17, ConstantTypes DEF DeleteVIP, TypeOK, RuntimeTypeOK
  <2>3. faults' \in 0..MaxFaults
    BY <1>17, FaultType DEF DeleteVIP
  <2> QED
    BY <1>17, <2>1, <2>2, <2>3, NoneAssumption DEF DeleteVIP, TypeOK, RuntimeTypeOK, Calls, cluster
<1>18. CASE RemoveFinalizer
  <2>1. cur \in Keys
    BY <1>18, Busy DEF RemoveFinalizer, Write
  <2>2. faults' \in 0..MaxFaults
    BY <1>18, OutcomeType DEF RemoveFinalizer, Write
  <2>3. Idle /\ timers' \in {timers, timers \cup {cur}}
    BY <1>18 DEF RemoveFinalizer, Write, Finish, FinishAndRequeue, ReleaseAndRequeue, Idle
  <2>4. api' \in [Keys -> ObjectType] /\ stale' \subseteq Keys
    BY <1>18, <2>1, ApiWriteType, ConstantTypes DEF RemoveFinalizer, Write, Bump, TypeOK, RuntimeTypeOK
  <2>5. children' \in [Keys -> [ProxyKinds -> {"none", "owned", "orphan"}]]
    BY <1>18 DEF RemoveFinalizer, Write, Disown, TypeOK, RuntimeTypeOK
  <2> QED
    BY <1>18, <2>1, <2>2, <2>3, <2>4, <2>5, IdleType DEF RemoveFinalizer, Write, TypeOK, RuntimeTypeOK
<1>19. CASE UNCHANGED vars
  BY <1>19 DEF vars, cluster, worker, budgets, TypeOK, RuntimeTypeOK
<1> QED
  BY <1>1, <1>2, <1>3, <1>4, <1>5, <1>6, <1>7, <1>8, <1>9, <1>10, <1>11, <1>12, <1>13,
     <1>14, <1>15, <1>16, <1>17, <1>18, <1>19 DEF Next, WorkerStep

(* TypeOK holds in every state: nothing the controller, its users, the     *)
(* cluster or a fault does leaves a field outside its type.                *)
THEOREM TypeCorrect == Spec => []TypeOK
BY TypeInit, TypeNext, PTL DEF Spec

(***************************************************************************)
(* The inductive invariant                                                 *)
(***************************************************************************)
(* Nothing is claimed of an idle worker. *)
LEMMA IdleInv ==
    ASSUME Idle
    PROVE  CopyInSync' /\ WorkerGuarded' /\ StatusInProgress' /\ CleanedUp'
BY DEF Idle, Release, CopyInSync, WorkerGuarded, StatusInProgress, CleanedUp

(* A user's write that does not take the finalizer from an object keeps    *)
(* the invariant: the worker's copy becomes unwritable.                    *)
LEMMA UserWriteInv ==
    ASSUME IInv, NEW s \in Keys, NEW o \in ObjectType, UserWrite(s, o), UNCHANGED vips,
           api[s].phase # "absent" /\ api[s].finalizer => o.phase # "absent" /\ o.finalizer
    PROVE  /\ CacheInSync' /\ CopyInSync' /\ CacheGuarded' /\ WorkerGuarded'
           /\ StatusInProgress' /\ CleanedUp'
<1>1. /\ api' = [api EXCEPT ![s] = o] /\ stale' = stale \cup {s}
      /\ conflict' = (conflict \/ cur = s)
      /\ UNCHANGED <<cache, pc, cur, obj, vips>>
  BY DEF UserWrite, Bump
<1>2. api \in [Keys -> ObjectType]
  BY DEF IInv, TypeOK, RuntimeTypeOK
<1>3. CacheInSync'
  BY <1>1, <1>2 DEF IInv, CacheInSync
<1>4. CopyInSync'
  <2> SUFFICES ASSUME pc # "idle", ~conflict, cur # s PROVE CopyInSync'
    BY <1>1 DEF CopyInSync
  <2> QED
    BY <1>1, <1>2 DEF IInv, CopyInSync
<1>5. CacheGuarded'
  BY <1>1, <1>2 DEF IInv, CacheGuarded
<1>6. WorkerGuarded'
  BY <1>1, <1>2 DEF IInv, WorkerGuarded
<1>7. StatusInProgress' /\ CleanedUp'
  BY <1>1 DEF IInv, StatusInProgress, CleanedUp, DescribesSpec, Exists
<1> QED
  BY <1>3, <1>4, <1>5, <1>6, <1>7

(* After reconcileVIPService the status describes the copy's spec. *)
LEMMA AfterVIPInv ==
    ASSUME IInv, pc \in {"checkVIP", "readVIP"}, NEW st \in StatusType, DescribesSpec(st),
           AfterVIP(st), UNCHANGED cluster
    PROVE  /\ CacheInSync' /\ CopyInSync' /\ CacheGuarded' /\ WorkerGuarded'
           /\ StatusInProgress' /\ CleanedUp'
<1>1. /\ UNCHANGED <<api, cache, stale, cur, conflict>>
      /\ pc' \in {"status", "proxy"}
  BY DEF cluster, AfterVIP
<1>2. obj \in ObjectType
  BY DEF IInv, TypeOK, RuntimeTypeOK
<1>3. /\ obj'.phase = obj.phase /\ obj'.spec = obj.spec
      /\ obj'.status.name = st.name /\ obj'.status.tags = st.tags
  BY <1>2, AfterVIPType
<1>4. CacheInSync' /\ CacheGuarded'
  BY <1>1 DEF IInv, CacheInSync, CacheGuarded
<1>5. CopyInSync'
  BY <1>1, <1>3 DEF IInv, CopyInSync
<1>6. WorkerGuarded' /\ CleanedUp'
  BY <1>1 DEF IInv, WorkerGuarded, CleanedUp
<1>7. StatusInProgress'
  BY <1>1, <1>3 DEF StatusInProgress, DescribesSpec, VIPName
<1> QED
  BY <1>4, <1>5, <1>6, <1>7

(* The status reconcileVIPService records describes the copy's spec. *)
LEMMA RecordDescribes ==
    ASSUME obj \in ObjectType, NEW created
    PROVE  DescribesSpec(Record(created))
BY DEF DescribesSpec, Record, ObjectType, StatusType

(* The inductive invariant holds initially. *)
LEMMA InvInit == Init => IInv
<1> SUFFICES ASSUME Init PROVE IInv
  OBVIOUS
<1>1. TypeOK
  BY TypeInit
<1>2. CacheInSync /\ CacheGuarded
  BY DEF Init, RuntimeInit, CacheInSync, CacheGuarded, NoObject
<1>3. pc = "idle"
  BY DEF Init, RuntimeInit
<1>4. CopyInSync /\ WorkerGuarded /\ StatusInProgress /\ CleanedUp
  BY <1>3 DEF CopyInSync, WorkerGuarded, StatusInProgress, CleanedUp
<1> QED
  BY <1>1, <1>2, <1>4 DEF IInv

(* Every action keeps the inductive invariant. *)
LEMMA InvNext == IInv /\ [Next]_vars => IInv'
<1> SUFFICES ASSUME IInv, [Next]_vars
             PROVE  /\ CacheInSync' /\ CopyInSync' /\ CacheGuarded' /\ WorkerGuarded'
                    /\ StatusInProgress' /\ CleanedUp'
  BY TypeNext DEF IInv
<1> DEFINE Goal == /\ CacheInSync' /\ CopyInSync' /\ CacheGuarded' /\ WorkerGuarded'
                   /\ StatusInProgress' /\ CleanedUp'
<1>a. TypeOK /\ obj \in ObjectType /\ api \in [Keys -> ObjectType]
  BY DEF IInv, TypeOK, RuntimeTypeOK
<1>1. ASSUME NEW s \in Keys, NEW sp \in Specs, Create(s, sp) PROVE Goal
  <2>1. [NoObject EXCEPT !.phase = "live", !.spec = sp] \in ObjectType
    BY SpecsAssumption, ConstantTypes DEF ObjectType
  <2>2. api[s].phase = "absent"
    BY <1>1 DEF Create
  <2> QED
    BY <1>1, <2>1, <2>2, UserWriteInv DEF Create
<1>2. ASSUME NEW s \in Keys, NEW sp \in Specs, Edit(s, sp) PROVE Goal
  <2> DEFINE o == [api[s] EXCEPT !.spec = sp]
  <2>1. o \in ObjectType /\ o.phase = api[s].phase /\ o.finalizer = api[s].finalizer
    BY <1>a, SpecsAssumption DEF ObjectType
  <2>2. UserWrite(s, o) /\ UNCHANGED vips
    BY <1>2 DEF Edit
  <2> HIDE DEF o
  <2> QED
    BY <2>1, <2>2, UserWriteInv
<1>3. ASSUME NEW s \in Keys, Delete(s) PROVE Goal
  <2>1. CASE api[s].finalizer
    <3> DEFINE o == [api[s] EXCEPT !.phase = "deleting"]
    <3>1. o \in ObjectType /\ o.phase = "deleting" /\ o.finalizer = api[s].finalizer
      BY <1>a DEF ObjectType
    <3>2. UserWrite(s, o) /\ UNCHANGED vips
      BY <1>3, <2>1 DEF Delete
    <3> HIDE DEF o
    <3> QED
      BY <2>1, <3>1, <3>2, UserWriteInv
  <2>2. CASE ~api[s].finalizer
    BY <1>3, <2>2, ConstantTypes, UserWriteInv DEF Delete
  <2> QED
    BY <2>1, <2>2
<1>4. ASSUME NEW s \in Keys, Deliver(s) PROVE Goal
  <2>1. /\ s \in stale /\ cache' = [cache EXCEPT ![s] = api[s]] /\ stale' = stale \ {s}
        /\ UNCHANGED <<api, pc, cur, obj, conflict, vips>>
    BY <1>4 DEF Deliver, WatchEvent, worker
  <2>2. CacheInSync'
    BY <2>1 DEF IInv, TypeOK, RuntimeTypeOK, CacheInSync
  <2>3. CopyInSync'
    BY <2>1 DEF IInv, CopyInSync
  <2>4. CacheGuarded'
    BY <2>1, <1>a DEF IInv, TypeOK, RuntimeTypeOK, CacheGuarded
  <2>5. WorkerGuarded' /\ StatusInProgress' /\ CleanedUp'
    BY <2>1 DEF IInv, WorkerGuarded, StatusInProgress, CleanedUp, DescribesSpec, Exists
  <2> QED
    BY <2>2, <2>3, <2>4, <2>5
<1>5. ASSUME NEW s \in Keys, Fire(s) PROVE Goal
  BY <1>5 DEF Fire, TimerFires, worker, IInv, CacheInSync, CopyInSync, CacheGuarded, WorkerGuarded,
              StatusInProgress, CleanedUp, DescribesSpec, Exists
<1>6. ASSUME NEW s \in Keys, Reconcile(s) PROVE Goal
  <2>1. UNCHANGED <<api, cache, stale, vips>>
    BY <1>6 DEF Reconcile, Begin
  <2>2. CacheInSync' /\ CacheGuarded'
    BY <2>1 DEF IInv, CacheInSync, CacheGuarded
  <2>3. CASE UNCHANGED worker
    BY <2>1, <2>2, <2>3 DEF worker, IInv, CopyInSync, WorkerGuarded,
              StatusInProgress, CleanedUp, DescribesSpec, Exists
  <2>4. CASE /\ cache[s].phase # "absent" /\ cur' = s /\ obj' = cache[s]
             /\ conflict' = (s \in stale) /\ pc' = FirstCall(cache[s])
    <3>1. CopyInSync'
      BY <2>1, <2>4 DEF IInv, CacheInSync, CopyInSync
    <3>2. /\ pc' \in {"addFinalizer", "checkVIP", "deleteVIP", "removeFinalizer"}
          /\ pc' = "checkVIP" => obj'.phase # "deleting" /\ obj'.finalizer
          /\ pc' \in {"deleteVIP", "removeFinalizer"} => obj'.phase = "deleting"
          /\ pc' = "deleteVIP" => HasClient /\ obj'.status.created
          /\ pc' = "removeFinalizer" => ~(HasClient /\ obj'.status.created)
      BY <2>4 DEF FirstCall
    <3>3. pc' = "checkVIP" => cache[s].phase = "live" /\ cache[s].finalizer
      <4>1. cache[s].phase \in {"absent", "live", "deleting"}
        BY DEF IInv, TypeOK, RuntimeTypeOK, ObjectType
      <4> QED
        BY <2>4, <3>2, <4>1
    <3>4. WorkerGuarded'
      BY <2>1, <2>4, <3>2, <3>3 DEF IInv, CacheGuarded, WorkerGuarded
    <3>5. StatusInProgress' /\ CleanedUp'
      BY <3>2 DEF StatusInProgress, CleanedUp
    <3> QED
      BY <2>2, <3>1, <3>4, <3>5
  <2> QED
    BY <1>6, <2>3, <2>4 DEF Reconcile, Begin
<1>7. ASSUME NEW s \in Keys, NEW k \in ProxyKinds, Collect(s, k) PROVE Goal
  BY <1>7 DEF Collect, cluster, worker, IInv, CacheInSync, CopyInSync, CacheGuarded,
              WorkerGuarded, StatusInProgress, CleanedUp, DescribesSpec, Exists
<1>8. ASSUME NEW n \in VIPNames, AdminRemove(n) PROVE Goal
  <2>1. UNCHANGED <<api, cache, stale, pc, cur, obj, conflict>>
    BY <1>8 DEF AdminRemove, cluster, worker
  <2>2. \A m \in VIPNames : Exists(m)' => Exists(m)
    BY <1>8, <1>a DEF AdminRemove, Exists, NoVIP, TypeOK, RuntimeTypeOK
  <2>3. CleanedUp'
    BY <2>1, <2>2 DEF IInv, CleanedUp
  <2> QED
    BY <2>1, <2>3 DEF IInv, CacheInSync, CopyInSync, CacheGuarded, WorkerGuarded,
                      StatusInProgress, DescribesSpec
<1>9. CASE Crash
  <2>1. Idle /\ cache' = api /\ stale' = {} /\ api' = api
    BY <1>9 DEF Crash, Restart, Idle
  <2>2. CacheInSync'
    BY <2>1 DEF CacheInSync
  <2>3. CacheGuarded'
    BY <2>1 DEF CacheGuarded
  <2> QED
    BY <2>1, <2>2, <2>3, IdleInv
<1>10. CASE AddFinalizer
  <2>1. cur \in Keys
    BY <1>a, <1>10, Busy DEF AddFinalizer, Write
  <2>2. Idle /\ UNCHANGED cache
    BY <1>10 DEF AddFinalizer, Write, FinishAndRequeue, ReleaseAndRequeue, Idle
  <2>3. CASE UNCHANGED <<api, stale>>
    BY <2>2, <2>3, IdleInv DEF IInv, CacheInSync, CacheGuarded
  <2>4. CASE api' = [api EXCEPT ![cur].finalizer = TRUE] /\ stale' = stale \cup {cur}
    <3>1. CacheInSync'
      BY <1>a, <2>1, <2>2, <2>4 DEF IInv, CacheInSync
    <3>2. \A s \in Keys : api'[s].phase = api[s].phase /\ (api[s].finalizer => api'[s].finalizer)
      BY <1>a, <2>1, <2>4 DEF ObjectType
    <3>3. CacheGuarded'
      BY <2>2, <3>2 DEF IInv, CacheGuarded
    <3> QED
      BY <2>2, <3>1, <3>3, IdleInv
  <2> QED
    BY <1>10, <2>3, <2>4 DEF AddFinalizer, Write, Bump
<1>11. CASE SkipVIP
  <2>1. Record(FALSE) \in StatusType
    BY <1>a, <1>11, Busy, RecordType DEF SkipVIP
  <2>2. AfterVIP(Record(FALSE)) /\ UNCHANGED cluster /\ pc \in {"checkVIP", "readVIP"}
    BY <1>11 DEF SkipVIP
  <2> QED
    BY <1>a, <2>1, <2>2, RecordDescribes, AfterVIPInv
<1>12. CASE CheckVIP
  <2>1. Record(TRUE) \in StatusType
    BY <1>a, <1>12, Busy, RecordType DEF CheckVIP
  <2>2. UNCHANGED cluster /\ pc = "checkVIP"
    BY <1>12 DEF CheckVIP
  <2>3. CASE AfterVIP(Record(TRUE))
    BY <1>a, <2>1, <2>2, <2>3, RecordDescribes, AfterVIPInv
  <2>4. CASE pc' = "putVIP" /\ UNCHANGED <<cur, obj, conflict>>
    BY <2>2, <2>4 DEF cluster, IInv, CacheInSync, CopyInSync, CacheGuarded, WorkerGuarded,
                      StatusInProgress, CleanedUp
  <2> QED
    BY <1>12, <2>3, <2>4 DEF CheckVIP
<1>13. CASE PutVIP
  <2>1. UNCHANGED <<api, cache, stale, cur, conflict>> /\ pc = "putVIP"
    BY <1>13 DEF PutVIP, PutFailed, cluster
  <2>2. Record(TRUE) \in StatusType
    BY <1>a, <1>13, Busy, RecordType DEF PutVIP
  <2>3. /\ obj'.phase = obj.phase /\ obj'.spec = obj.spec
        /\ pc' \in {"readVIP", "status"}
        /\ pc' = "readVIP" => obj'.status = Record(TRUE)
        /\ pc' = "status" => obj'.status.vipReady = "False"
    BY <1>a, <1>13, <2>2, PutVIPType
  <2>4. CopyInSync'
    BY <2>1, <2>3 DEF IInv, CopyInSync
  <2>5. StatusInProgress'
    <3>1. DescribesSpec(Record(TRUE))
      BY <1>a, RecordDescribes
    <3> QED
      BY <2>1, <2>3, <3>1 DEF StatusInProgress, DescribesSpec, VIPName
  <2>6. WorkerGuarded' /\ CleanedUp'
    BY <2>1, <2>3 DEF IInv, WorkerGuarded, CleanedUp
  <2> QED
    BY <2>1, <2>4, <2>5, <2>6 DEF IInv, CacheInSync, CacheGuarded
<1>14. CASE ReadVIP
  <2> DEFINE st == [obj.status EXCEPT !.addr = vips[VIPName(cur, obj.spec)].addr]
  <2>1. UNCHANGED cluster /\ pc = "readVIP"
    BY <1>14 DEF ReadVIP
  <2>2. DescribesSpec(obj.status)
    BY <2>1 DEF IInv, StatusInProgress
  <2>3. vips[VIPName(cur, obj.spec)].addr \in Addrs \cup {None}
    BY <1>a, <2>1, Busy, VIPNameType DEF TypeOK, RuntimeTypeOK, ObjectType, VIPType
  <2>4. obj.status \in StatusType /\ st \in StatusType
    BY <1>a, <2>3 DEF ObjectType, StatusType
  <2>5. DescribesSpec(st)
    BY <2>2, <2>4 DEF DescribesSpec, StatusType
  <2>6. AfterVIP(st) \/ AfterVIP(obj.status)
    BY <1>14 DEF ReadVIP
  <2> HIDE DEF st
  <2> QED
    BY <2>1, <2>2, <2>4, <2>5, <2>6, AfterVIPInv
<1>15. CASE CreateProxyObject
  <2>1. UNCHANGED <<api, cache, stale, cur, conflict, vips>> /\ pc = "proxy"
    BY <1>15 DEF CreateProxyObject, cluster
  <2>2. /\ obj'.phase = obj.phase /\ obj'.spec = obj.spec
        /\ obj'.status.name = obj.status.name /\ obj'.status.tags = obj.status.tags
        /\ pc' \in {"proxy", "status"}
    BY <1>a, <1>15, CreateProxyType
  <2>3. CopyInSync'
    BY <2>1, <2>2 DEF IInv, CopyInSync
  <2>4. StatusInProgress'
    BY <2>1, <2>2 DEF IInv, StatusInProgress, DescribesSpec, VIPName
  <2>5. WorkerGuarded' /\ CleanedUp'
    BY <2>1, <2>2 DEF IInv, WorkerGuarded, CleanedUp
  <2> QED
    BY <2>1, <2>3, <2>4, <2>5 DEF IInv, CacheInSync, CacheGuarded
<1>16. CASE UpdateStatus
  <2>1. cur \in Keys
    BY <1>a, <1>16, Busy DEF UpdateStatus, Write
  <2>2. Idle /\ UNCHANGED cache
    BY <1>16 DEF UpdateStatus, Write, FinishAndRequeue, ReleaseAndRequeue, Idle
  <2>3. CASE UNCHANGED <<api, stale>>
    BY <2>2, <2>3, IdleInv DEF IInv, CacheInSync, CacheGuarded
  <2>4. CASE api' = [api EXCEPT ![cur].status = obj.status] /\ stale' = stale \cup {cur}
    <3>1. CacheInSync'
      BY <1>a, <2>1, <2>2, <2>4 DEF IInv, CacheInSync
    <3>2. \A s \in Keys : api'[s].phase = api[s].phase /\ api'[s].finalizer = api[s].finalizer
      BY <1>a, <2>1, <2>4 DEF ObjectType
    <3>3. CacheGuarded'
      BY <2>2, <3>2 DEF IInv, CacheGuarded
    <3> QED
      BY <2>2, <3>1, <3>3, IdleInv
  <2> QED
    BY <1>16, <2>3, <2>4 DEF UpdateStatus, Write, Bump
<1>17. CASE DeleteVIP
  <2>1. UNCHANGED <<api, cache, stale, cur, obj, conflict>> /\ pc = "deleteVIP" /\ pc' = "removeFinalizer"
    BY <1>17 DEF DeleteVIP, cluster
  <2>2. "delete" \notin FaultKinds => vips' = [vips EXCEPT ![obj.status.name] = NoVIP]
    BY <1>17 DEF DeleteVIP, Fault
  <2>3. CleanedUp'
    BY <1>a, <2>1, <2>2 DEF CleanedUp, Exists, NoVIP, TypeOK, RuntimeTypeOK
  <2> QED
    BY <2>1, <2>3 DEF IInv, CacheInSync, CopyInSync, CacheGuarded, WorkerGuarded, StatusInProgress
<1>18. CASE RemoveFinalizer
  <2>1. cur \in Keys
    BY <1>a, <1>18, Busy DEF RemoveFinalizer, Write
  <2>2. Idle /\ UNCHANGED cache /\ pc = "removeFinalizer"
    BY <1>18 DEF RemoveFinalizer, Write, Finish, FinishAndRequeue, ReleaseAndRequeue, Idle
  <2>3. CASE UNCHANGED <<api, stale>>
    BY <2>2, <2>3, IdleInv DEF IInv, CacheInSync, CacheGuarded
  <2>4. CASE api' = [api EXCEPT ![cur] = NoObject] /\ stale' = stale \cup {cur} /\ Fresh
    <3>1. CacheInSync'
      BY <1>a, <2>1, <2>2, <2>4 DEF IInv, CacheInSync
    <3>2. cache[cur].phase = "deleting"
      BY <2>1, <2>2, <2>4 DEF Fresh, IInv, CacheInSync, CopyInSync, WorkerGuarded
    <3>3. CacheGuarded'
      BY <1>a, <2>1, <2>2, <2>4, <3>2 DEF IInv, CacheGuarded
    <3> QED
      BY <2>2, <3>1, <3>3, IdleInv
  <2> QED
    BY <1>18, <2>3, <2>4 DEF RemoveFinalizer, Write, Bump, Outcome
<1>19. CASE UNCHANGED vars
  BY <1>19 DEF vars, cluster, worker, IInv, CacheInSync, CopyInSync, CacheGuarded,
               WorkerGuarded, StatusInProgress, CleanedUp, DescribesSpec, Exists
<1> QED
  BY <1>1, <1>2, <1>3, <1>4, <1>5, <1>6, <1>7, <1>8, <1>9, <1>10, <1>11, <1>12, <1>13,
     <1>14, <1>15, <1>16, <1>17, <1>18, <1>19 DEF Next, WorkerStep

(* The inductive invariant holds in every state. *)
THEOREM Invariant == Spec => []IInv
BY InvInit, InvNext, PTL DEF Spec

(***************************************************************************)
(* What follows from it                                                    *)
(***************************************************************************)
(* Only a PUT makes a VIP service appear. *)
LEMMA OnlyPutCreates ==
    ASSUME TypeOK, Next, NEW n \in VIPNames, ~Exists(n), Exists(n)'
    PROVE  PutVIP
<1>1. vips' # vips
  BY DEF Exists
<1>2. ASSUME NEW m, vips' = [vips EXCEPT ![m] = NoVIP] PROVE FALSE
  BY <1>2 DEF TypeOK, RuntimeTypeOK, Exists, NoVIP
<1>3. ASSUME NEW s \in Keys, NEW sp \in Specs PROVE ~Create(s, sp) /\ ~Edit(s, sp)
  BY <1>1 DEF Create, Edit, UserWrite
<1>4. ASSUME NEW s \in Keys PROVE ~Delete(s) /\ ~Deliver(s) /\ ~Fire(s) /\ ~Reconcile(s)
  BY <1>1 DEF Delete, UserWrite, Deliver, WatchEvent, Fire, TimerFires, Reconcile, Begin
<1>5. ASSUME NEW s \in Keys, NEW k \in ProxyKinds PROVE ~Collect(s, k)
  BY <1>1 DEF Collect
<1>6. ~Crash /\ ~AddFinalizer /\ ~SkipVIP /\ ~CheckVIP /\ ~ReadVIP
  BY <1>1 DEF Crash, Restart, Idle, AddFinalizer, Write, SkipVIP, CheckVIP, ReadVIP
<1>7. ~CreateProxyObject /\ ~UpdateStatus /\ ~RemoveFinalizer
  BY <1>1 DEF CreateProxyObject, UpdateStatus, Write, RemoveFinalizer, Write
<1>8. ~DeleteVIP
  BY <1>1, <1>2 DEF DeleteVIP
<1>9. ASSUME NEW m \in VIPNames PROVE ~AdminRemove(m)
  BY <1>2 DEF AdminRemove
<1> QED
  BY <1>3, <1>4, <1>5, <1>6, <1>7, <1>8, <1>9 DEF Next, WorkerStep

(* A VIP service appears only on behalf of an object that carries the      *)
(* finalizer, whatever the age of the cache Reconcile started from.        *)
THEOREM GuardedCreation == Spec => VIPCreatedUnderFinalizer
<1> DEFINE A == \A n \in VIPNames : ~Exists(n) /\ Exists(n)' =>
                  \E s \in Keys : s = cur /\ api[s].phase # "absent" /\ api[s].finalizer
<1>1. ASSUME IInv, [Next]_vars PROVE [A]_vars
  <2> SUFFICES ASSUME Next, NEW n \in VIPNames, ~Exists(n), Exists(n)'
               PROVE  \E s \in Keys : s = cur /\ api[s].phase # "absent" /\ api[s].finalizer
    BY <1>1 DEF A
  <2>1. pc = "putVIP"
    BY <1>1, OnlyPutCreates DEF PutVIP, IInv
  <2>2. cur \in Keys
    BY <1>1, <2>1, Busy DEF IInv
  <2> QED
    BY <1>1, <2>1, <2>2 DEF IInv, WorkerGuarded
<1> QED
  BY <1>1, Invariant, PTL DEF Spec, VIPCreatedUnderFinalizer

(* Who changes an object, and how. *)
LEMMA WhoWrites ==
    ASSUME TypeOK, Next, NEW s \in Keys, api'[s] # api[s]
    PROVE  \/ \E sp \in Specs : Create(s, sp) \/ Edit(s, sp)
           \/ Delete(s)
           \/ /\ s = cur /\ Fresh /\ UNCHANGED vips
              /\ \/ pc = "addFinalizer" /\ api'[s] = [api[s] EXCEPT !.finalizer = TRUE]
                 \/ pc = "status" /\ api'[s] = [api[s] EXCEPT !.status = obj.status]
                 \/ pc = "removeFinalizer" /\ api'[s] = NoObject
<1> DEFINE Shape ==
       /\ s = cur /\ Fresh /\ UNCHANGED vips
       /\ \/ pc = "addFinalizer" /\ api'[s] = [api[s] EXCEPT !.finalizer = TRUE]
          \/ pc = "status" /\ api'[s] = [api[s] EXCEPT !.status = obj.status]
          \/ pc = "removeFinalizer" /\ api'[s] = NoObject
<1>1. api \in [Keys -> ObjectType]
  BY DEF TypeOK, RuntimeTypeOK
<1>2. ASSUME NEW r \in Keys, NEW sp \in Specs, Create(r, sp) \/ Edit(r, sp) PROVE r = s
  BY <1>1, <1>2 DEF Create, Edit, UserWrite
<1>3. ASSUME NEW r \in Keys, Delete(r) PROVE r = s
  BY <1>1, <1>3 DEF Delete, UserWrite
<1>4. ASSUME NEW r \in Keys PROVE ~Deliver(r) /\ ~Fire(r) /\ ~Reconcile(r)
  BY DEF Deliver, WatchEvent, Fire, TimerFires, Reconcile, Begin
<1>5. ASSUME NEW r \in Keys, NEW k \in ProxyKinds PROVE ~Collect(r, k)
  BY DEF Collect, cluster
<1>6. ASSUME NEW n \in VIPNames PROVE ~AdminRemove(n)
  BY DEF AdminRemove, cluster
<1>7. ~Crash /\ ~SkipVIP /\ ~CheckVIP /\ ~PutVIP /\ ~ReadVIP /\ ~CreateProxyObject /\ ~DeleteVIP
  BY DEF Crash, Restart, Idle, SkipVIP, CheckVIP, PutVIP, ReadVIP, CreateProxyObject, DeleteVIP, cluster
<1>8. CASE AddFinalizer
  <2>1. /\ pc = "addFinalizer" /\ Fresh /\ UNCHANGED vips
        /\ api' = [api EXCEPT ![cur].finalizer = TRUE]
    BY <1>8 DEF AddFinalizer, Write, Outcome
  <2>2. s = cur
    BY <1>1, <2>1
  <2> QED
    BY <1>1, <2>1, <2>2
<1>9. CASE UpdateStatus
  <2>1. /\ pc = "status" /\ Fresh /\ UNCHANGED vips
        /\ api' = [api EXCEPT ![cur].status = obj.status]
    BY <1>9 DEF UpdateStatus, Write, Outcome
  <2>2. s = cur
    BY <1>1, <2>1
  <2> QED
    BY <1>1, <2>1, <2>2
<1>10. CASE RemoveFinalizer
  <2>1. /\ pc = "removeFinalizer" /\ Fresh /\ UNCHANGED vips
        /\ api' = [api EXCEPT ![cur] = NoObject]
    BY <1>10 DEF RemoveFinalizer, Write, Outcome
  <2>2. s = cur
    BY <1>1, <2>1
  <2> QED
    BY <1>1, <2>1, <2>2
<1> QED
  BY <1>2, <1>3, <1>4, <1>5, <1>6, <1>7, <1>8, <1>9, <1>10 DEF Next, WorkerStep

(* A status that says the VIP service is ready names the one that the spec *)
(* in the API server asks for at the moment it is written.                 *)
THEOREM StatusIsOfCurrentSpec == Spec => StatusOfCurrentSpec
<1> DEFINE Written(s) == /\ api'[s].status # api[s].status
                         /\ api'[s].status.vipReady = "True"
           Right(s) == api'[s].status.name = VIPName(s, api'[s].spec)
           A == \A s \in Keys : Written(s) => Right(s)
<1>1. ASSUME IInv, [Next]_vars PROVE [A]_vars
  <2> SUFFICES ASSUME Next, NEW s \in Keys, Written(s) PROVE Right(s)
    BY <1>1 DEF A
  <2>1. TypeOK /\ api[s] \in ObjectType /\ api \in [Keys -> ObjectType] /\ obj \in ObjectType
    BY <1>1 DEF IInv, TypeOK, RuntimeTypeOK
  <2>2. ASSUME NEW sp \in Specs, Create(s, sp) PROVE FALSE
    BY <2>1, <2>2 DEF Create, UserWrite, NoObject, NewStatus
  <2>3. ASSUME NEW sp \in Specs, Edit(s, sp) PROVE FALSE
    BY <2>1, <2>3 DEF Edit, UserWrite, ObjectType
  <2>4. ~Delete(s)
    BY <2>1 DEF Delete, UserWrite, NoObject, NewStatus, ObjectType
  <2>5. api'[s] # [api[s] EXCEPT !.finalizer = TRUE] /\ api'[s] # NoObject
    BY <2>1 DEF ObjectType, NoObject, NewStatus
  <2>6. s = cur /\ Fresh /\ pc = "status" /\ api'[s] = [api[s] EXCEPT !.status = obj.status]
    BY <2>1, <2>2, <2>3, <2>4, <2>5, WhoWrites
  <2>7. api'[s].status = obj.status /\ api'[s].spec = api[s].spec
    BY <2>1, <2>6 DEF ObjectType
  <2>8. obj.spec = api[s].spec
    BY <1>1, <2>6 DEF IInv, CopyInSync, Fresh
  <2> QED
    BY <1>1, <2>6, <2>7, <2>8 DEF IInv, StatusInProgress, DescribesSpec
<1> QED
  BY <1>1, Invariant, PTL DEF Spec, StatusOfCurrentSpec

(* The finalizer goes only after the VIP service recorded in the API       *)
(* server has gone, if deleting it does not fail: an older status in the   *)
(* cache costs a refused write, never a forgotten VIP service.             *)
THEOREM RecordedVIPIsRemoved == Spec => RecordedVIPRemoved
<1> DEFINE A == \A s \in Keys : \A n \in VIPNames :
                  /\ api[s].phase # "absent" /\ api[s].finalizer /\ api'[s].phase = "absent"
                  /\ HasClient /\ "delete" \notin FaultKinds
                  /\ api[s].status.created /\ api[s].status.name = n
                  => ~Exists(n)'
<1>1. ASSUME IInv, [Next]_vars PROVE [A]_vars
  <2> SUFFICES ASSUME Next, NEW s \in Keys, NEW n \in VIPNames,
                      api[s].phase # "absent", api[s].finalizer, api'[s].phase = "absent",
                      HasClient, "delete" \notin FaultKinds,
                      api[s].status.created, api[s].status.name = n
               PROVE  ~Exists(n)'
    BY <1>1 DEF A
  <2>1. TypeOK /\ api[s] \in ObjectType /\ api \in [Keys -> ObjectType]
    BY <1>1 DEF IInv, TypeOK, RuntimeTypeOK
  <2>2. ASSUME NEW sp \in Specs PROVE ~Create(s, sp) /\ ~Edit(s, sp)
    BY <2>1 DEF Create, Edit, UserWrite, ObjectType
  <2>3. ~Delete(s)
    BY <2>1 DEF Delete, UserWrite, ObjectType
  <2>4. api'[s] # [api[s] EXCEPT !.finalizer = TRUE] /\ api'[s] # [api[s] EXCEPT !.status = obj.status]
    BY <2>1 DEF ObjectType
  <2>5. s = cur /\ Fresh /\ pc = "removeFinalizer" /\ UNCHANGED vips
    BY <2>1, <2>2, <2>3, <2>4, WhoWrites
  <2>6. obj = api[s]
    BY <1>1, <2>5 DEF IInv, CopyInSync, Fresh
  <2> QED
    BY <1>1, <2>5, <2>6 DEF IInv, CleanedUp, Exists
<1> QED
  BY <1>1, Invariant, PTL DEF Spec, RecordedVIPRemoved

(***************************************************************************)
(* The proxy objects: they are created one by one, and left to a garbage   *)
(* collector that may still be at work when the next owner of the same     *)
(* name comes.                                                             *)
(***************************************************************************)
(* All proxy objects of s are its owner's. *)
AllOwned(s) == \A k \in ProxyKinds : children[s][k] = "owned"

(* What a status says of the proxy. *)
ClaimsProxy(st) == st.proxy \/ st.proxyReady = "True"

(* The fixed list of kinds, as the provers need it. *)
LEMMA Kinds ==
    /\ ProxyKinds = {"ServiceAccount", "Role", "RoleBinding", "ConfigSecret",
                     "StatefulSet", "HeadlessService"}
    /\ ProxyOrder[1] = "ServiceAccount" /\ ProxyOrder[2] = "Role"
    /\ ProxyOrder[3] = "RoleBinding" /\ ProxyOrder[4] = "ConfigSecret"
    /\ ProxyOrder[5] = "StatefulSet" /\ ProxyOrder[6] = "HeadlessService"
<1>1. /\ ProxyOrder[1] = "ServiceAccount" /\ ProxyOrder[2] = "Role"
      /\ ProxyOrder[3] = "RoleBinding" /\ ProxyOrder[4] = "ConfigSecret"
      /\ ProxyOrder[5] = "StatefulSet" /\ ProxyOrder[6] = "HeadlessService"
  BY DEF ProxyOrder
<1>2. 1..6 = {1, 2, 3, 4, 5, 6}
  OBVIOUS
<1> HIDE DEF ProxyOrder
<1> QED
  BY <1>1, <1>2 DEF ProxyKinds

(* An object that has just appeared, or is none, claims no proxy. *)
LEMMA BlankClaimsNothing ==
    ASSUME NEW sp \in SpecType
    PROVE  /\ ~ClaimsProxy(NoObject.status)
           /\ ~ClaimsProxy([NoObject EXCEPT !.phase = "live", !.spec = sp].status)
BY DEF ClaimsProxy, NoObject, NewStatus

(* A step changes the children of s in one of four ways. *)
LEMMA ChildrenSteps ==
    ASSUME TypeOK, [Next]_vars, NEW s \in Keys, children'[s] # children[s]
    PROVE  \/ /\ Disown(s) /\ api' = [api EXCEPT ![s] = NoObject]
              /\ \/ pc' = "idle" /\ pc = "removeFinalizer"
                 \/ /\ ~api[s].finalizer /\ cur' = cur /\ pc' = pc
                    /\ cur = s => conflict'
           \/ \E k \in ProxyKinds : Collect(s, k)
           \/ /\ s = cur /\ CreateProxyObject
              /\ children' = [children EXCEPT ![cur][ProxyOrder[step]] = "owned"]
<1>1. children \in [Keys -> [ProxyKinds -> {"none", "owned", "orphan"}]]
  BY DEF TypeOK
<1>2. children' # children
  OBVIOUS
<1>3. ASSUME NEW r \in Keys, NEW sp \in Specs PROVE ~Create(r, sp) /\ ~Edit(r, sp)
  BY <1>2 DEF Create, Edit
<1>4. ASSUME NEW r \in Keys PROVE ~Deliver(r) /\ ~Fire(r) /\ ~Reconcile(r)
  BY <1>2 DEF Deliver, Fire, Reconcile
<1>5. /\ ~Crash /\ ~AddFinalizer /\ ~SkipVIP /\ ~CheckVIP /\ ~PutVIP /\ ~ReadVIP
      /\ ~UpdateStatus /\ ~DeleteVIP /\ ~UNCHANGED vars
  BY <1>2 DEF Crash, AddFinalizer, SkipVIP, CheckVIP, PutVIP, ReadVIP, UpdateStatus, DeleteVIP, vars
<1>6. ASSUME NEW n \in VIPNames PROVE ~AdminRemove(n)
  BY <1>2 DEF AdminRemove
<1>7. ASSUME NEW r \in Keys, Delete(r)
      PROVE  /\ Disown(s) /\ api' = [api EXCEPT ![s] = NoObject]
             /\ ~api[s].finalizer /\ cur' = cur /\ pc' = pc /\ (cur = s => conflict')
  <2>1. Disown(r) /\ ~api[r].finalizer /\ UserWrite(r, NoObject)
    BY <1>2, <1>7 DEF Delete
  <2>2. r = s
    BY <1>1, <2>1 DEF Disown
  <2> QED
    BY <2>1, <2>2 DEF UserWrite
<1>8. ASSUME NEW r \in Keys, NEW k \in ProxyKinds, Collect(r, k) PROVE Collect(s, k)
  <2>1. r = s
    BY <1>1, <1>8 DEF Collect
  <2> QED
    BY <1>8, <2>1
<1>9. CASE CreateProxyObject
  <2>1. children' = [children EXCEPT ![cur][ProxyOrder[step]] = "owned"]
    BY <1>2, <1>9 DEF CreateProxyObject
  <2>2. s = cur
    BY <1>1, <2>1
  <2> QED
    BY <1>9, <2>1, <2>2
<1>10. CASE RemoveFinalizer
  <2>1. Disown(cur) /\ pc = "removeFinalizer" /\ pc' = "idle"
    BY <1>2, <1>10 DEF RemoveFinalizer, Finish, FinishAndRequeue, Idle, Release, ReleaseAndRequeue
  <2>2. api' = [api EXCEPT ![cur] = NoObject]
    BY <1>2, <1>10 DEF RemoveFinalizer, Write, TypeOK, RuntimeTypeOK
  <2>3. s = cur
    BY <1>1, <2>1 DEF Disown
  <2> QED
    BY <2>1, <2>2, <2>3
<1> QED
  BY <1>3, <1>4, <1>5, <1>6, <1>7, <1>8, <1>9, <1>10 DEF Next, WorkerStep

(* Recording the VIP service leaves what a status claims of the proxy. *)
LEMMA RecordClaims ==
    ASSUME obj \in ObjectType, NEW created \in BOOLEAN
    PROVE  ClaimsProxy(Record(created)) <=> ClaimsProxy(obj.status)
BY DEF Record, ClaimsProxy, ObjectType, StatusType

(* Neither does going on after it. *)
LEMMA AfterVIPClaims ==
    ASSUME obj \in ObjectType, NEW st \in StatusType, AfterVIP(st), ClaimsProxy(obj'.status)
    PROVE  ClaimsProxy(st)
BY AfterVIPType DEF ClaimsProxy

(* Nor does the failure of a PUT. *)
LEMMA PutFailedClaims ==
    ASSUME obj \in ObjectType, PutFailed, ClaimsProxy(obj'.status)
    PROVE  ClaimsProxy(obj.status)
<1>1. obj'.status = [obj.status EXCEPT !.vipReady = "False"]
  BY DEF PutFailed, ObjectType
<1> QED
  BY <1>1 DEF ClaimsProxy, ObjectType, StatusType

(* A writable copy comes from the cache in step with the API server, or    *)
(* was there before; it claims more than before only once the last of the  *)
(* proxy objects is created.                                               *)
LEMMA CopySteps ==
    ASSUME IInv, [Next]_vars, pc' # "idle", ~conflict'
    PROVE  \/ /\ \E s \in Keys : cur' = s /\ obj' = api[s]
              /\ UNCHANGED <<api, children>>
           \/ /\ pc # "idle" /\ ~conflict /\ cur' = cur
              /\ ClaimsProxy(obj'.status) => ClaimsProxy(obj.status)
           \/ /\ pc = "proxy" /\ step = 6 /\ cur' = cur
              /\ children' = [children EXCEPT ![cur][ProxyOrder[6]] = "owned"]
<1> DEFINE Goal ==
           \/ /\ \E s \in Keys : cur' = s /\ obj' = api[s]
              /\ UNCHANGED <<api, children>>
           \/ /\ pc # "idle" /\ ~conflict /\ cur' = cur
              /\ ClaimsProxy(obj'.status) => ClaimsProxy(obj.status)
           \/ /\ pc = "proxy" /\ step = 6 /\ cur' = cur
              /\ children' = [children EXCEPT ![cur][ProxyOrder[6]] = "owned"]
<1>a. TypeOK /\ obj \in ObjectType /\ obj.status \in StatusType
  BY DEF IInv, TypeOK, RuntimeTypeOK, ObjectType
<1>1. CASE UNCHANGED <<pc, cur, obj, conflict>>
  BY <1>1
<1>2. ASSUME NEW s \in Keys, NEW o, UserWrite(s, o) PROVE Goal
  BY <1>2 DEF UserWrite
<1>3. ASSUME NEW s \in Keys, NEW sp \in Specs, Create(s, sp) \/ Edit(s, sp) PROVE Goal
  BY <1>2, <1>3 DEF Create, Edit
<1>4. ASSUME NEW s \in Keys, Delete(s) PROVE Goal
  BY <1>2, <1>4 DEF Delete
<1>5. ASSUME NEW s \in Keys, Deliver(s) \/ Fire(s) PROVE Goal
  BY <1>1, <1>5 DEF Deliver, WatchEvent, Fire, TimerFires, worker
<1>6. ASSUME NEW s \in Keys, Reconcile(s) PROVE Goal
  <2>1. CASE UNCHANGED worker
    BY <1>1, <2>1 DEF worker
  <2>2. CASE cur' = s /\ obj' = cache[s] /\ conflict' = (s \in stale)
    BY <1>6, <2>2 DEF Reconcile, Begin, IInv, CacheInSync
  <2> QED
    BY <1>6, <2>1, <2>2 DEF Reconcile, Begin
<1>7. ASSUME NEW s \in Keys, NEW k \in ProxyKinds, Collect(s, k) PROVE Goal
  BY <1>1, <1>7 DEF Collect, worker
<1>8. ASSUME NEW n \in VIPNames, AdminRemove(n) PROVE Goal
  BY <1>1, <1>8 DEF AdminRemove, worker
<1>9. ~Crash /\ ~AddFinalizer /\ ~UpdateStatus /\ ~RemoveFinalizer
  BY DEF Crash, Restart, AddFinalizer, UpdateStatus, RemoveFinalizer, Finish,
         FinishAndRequeue, Idle, Release, ReleaseAndRequeue
<1>10. CASE SkipVIP
  <2>1. /\ pc = "checkVIP" /\ cur' = cur /\ conflict' = conflict /\ AfterVIP(Record(FALSE))
        /\ Record(FALSE) \in StatusType
    BY <1>a, <1>10, Busy, RecordType DEF SkipVIP, AfterVIP
  <2>2. ClaimsProxy(obj'.status) => ClaimsProxy(obj.status)
    BY <1>a, <2>1, AfterVIPClaims, RecordClaims
  <2> QED
    BY <2>1, <2>2
<1>11. CASE CheckVIP
  <2>1. /\ pc = "checkVIP" /\ cur' = cur /\ conflict' = conflict
        /\ Record(TRUE) \in StatusType
        /\ obj' = obj \/ AfterVIP(Record(TRUE))
    BY <1>a, <1>11, Busy, RecordType DEF CheckVIP, AfterVIP
  <2>2. ClaimsProxy(obj'.status) => ClaimsProxy(obj.status)
    BY <1>a, <2>1, AfterVIPClaims, RecordClaims
  <2> QED
    BY <2>1, <2>2
<1>12. CASE PutVIP
  <2>1. /\ pc = "putVIP" /\ cur' = cur /\ conflict' = conflict
        /\ Record(TRUE) \in StatusType
        /\ obj' = [obj EXCEPT !.status = Record(TRUE)] \/ PutFailed
    BY <1>a, <1>12, Busy, RecordType DEF PutVIP, PutFailed
  <2>2. CASE PutFailed
    BY <1>a, <2>1, <2>2, PutFailedClaims
  <2>3. CASE obj' = [obj EXCEPT !.status = Record(TRUE)]
    <3>1. obj'.status = Record(TRUE)
      BY <1>a, <2>1, <2>3, WithStatusType
    <3>2. ClaimsProxy(Record(TRUE)) <=> ClaimsProxy(obj.status)
      BY <1>a, RecordClaims
    <3> QED
      BY <2>1, <3>1, <3>2
  <2> QED
    BY <2>1, <2>2, <2>3
<1>13. CASE ReadVIP
  <2> DEFINE st == [obj.status EXCEPT !.addr = vips[VIPName(cur, obj.spec)].addr]
  <2>1. /\ pc = "readVIP" /\ cur' = cur /\ conflict' = conflict
        /\ AfterVIP(st) \/ AfterVIP(obj.status)
    BY <1>13 DEF ReadVIP, AfterVIP
  <2>2. vips[VIPName(cur, obj.spec)].addr \in Addrs \cup {None}
    BY <1>a, <2>1, Busy, VIPNameType DEF TypeOK, RuntimeTypeOK, ObjectType, VIPType
  <2>3. st \in StatusType /\ (ClaimsProxy(st) => ClaimsProxy(obj.status))
    BY <1>a, <2>2 DEF StatusType, ClaimsProxy
  <2> HIDE DEF st
  <2> QED
    BY <1>a, <2>1, <2>3, AfterVIPClaims
<1>14. CASE CreateProxyObject
  <2>1. pc = "proxy" /\ cur' = cur /\ conflict' = conflict
    BY <1>14 DEF CreateProxyObject
  <2>2. CASE step = 6 /\ children' = [children EXCEPT ![cur][ProxyOrder[step]] = "owned"]
    BY <2>1, <2>2
  <2>3. CASE obj' = obj
    BY <2>1, <2>3
  <2>4. CASE obj' = [obj EXCEPT !.status.proxyReady = "False"]
    <3>1. obj'.status = [obj.status EXCEPT !.proxyReady = "False"]
      BY <1>a, <2>4 DEF ObjectType
    <3> QED
      BY <1>a, <2>1, <3>1 DEF ClaimsProxy, StatusType
  <2> QED
    BY <1>14, <2>2, <2>3, <2>4 DEF CreateProxyObject
<1>15. CASE DeleteVIP
  BY <1>15 DEF DeleteVIP
<1>16. CASE UNCHANGED vars
  BY <1>1, <1>16 DEF vars, worker
<1> QED
  BY <1>3, <1>4, <1>5, <1>6, <1>7, <1>8, <1>9, <1>10, <1>11, <1>12, <1>13, <1>14,
     <1>15, <1>16 DEF Next, WorkerStep

(* Owned children stay so while their owner does. *)
LEMMA OwnedStays ==
    ASSUME TypeOK, [Next]_vars, NEW s \in Keys, NEW k \in ProxyKinds,
           children[s][k] = "owned", children'[s][k] # "owned"
    PROVE  /\ Disown(s) /\ api' = [api EXCEPT ![s] = NoObject]
           /\ \/ pc' = "idle" /\ pc = "removeFinalizer"
              \/ ~api[s].finalizer /\ cur' = cur /\ pc' = pc /\ (cur = s => conflict')
<1>1. children \in [Keys -> [ProxyKinds -> {"none", "owned", "orphan"}]]
  BY DEF TypeOK
<1>2. ASSUME NEW j \in ProxyKinds PROVE ~Collect(s, j)
  BY <1>1 DEF Collect
<1>3. children' # [children EXCEPT ![cur][ProxyOrder[step]] = "owned"]
  BY <1>1
<1> QED
  BY <1>2, <1>3, ChildrenSteps

(***************************************************************************)
(* The inductive invariant                                                 *)
(***************************************************************************)
(* The StatefulSet is created fifth, after the objects it needs, and the   *)
(* garbage collector takes nothing from the present owner.                 *)
LEMMA NeedsNext ==
    ASSUME ProxyInv, [Next]_vars
    PROVE  StatefulSetHasItsNeeds'
<1> DEFINE Needs == {"ServiceAccount", "Role", "RoleBinding", "ConfigSecret"}
<1> SUFFICES ASSUME NEW s \in Keys, children'[s]["StatefulSet"] = "owned", NEW k \in Needs
             PROVE  children'[s][k] = "owned"
  BY DEF StatefulSetHasItsNeeds
<1>a. TypeOK /\ children \in [Keys -> [ProxyKinds -> {"none", "owned", "orphan"}]]
  BY DEF ProxyInv, IInv, TypeOK
<1>b. "StatefulSet" \in ProxyKinds /\ k \in ProxyKinds /\ k # "StatefulSet"
  BY Kinds
<1>1. CASE children'[s] = children[s]
  BY <1>1 DEF ProxyInv, StatefulSetHasItsNeeds
<1>2. CASE Disown(s)
  BY <1>a, <1>b, <1>2 DEF Disown
<1>3. ASSUME NEW j \in ProxyKinds, Collect(s, j) PROVE children'[s][k] = "owned"
  <2>1. children[s]["StatefulSet"] = "owned"
    BY <1>a, <1>b, <1>3 DEF Collect
  <2>2. children[s][k] = "owned"
    BY <2>1 DEF ProxyInv, StatefulSetHasItsNeeds
  <2> QED
    BY <1>a, <1>b, <1>3, <2>2 DEF Collect
<1>4. CASE /\ s = cur /\ CreateProxyObject
           /\ children' = [children EXCEPT ![cur][ProxyOrder[step]] = "owned"]
  <2>1. step \in 1..6 /\ pc = "proxy"
    BY <1>a, <1>4 DEF TypeOK, CreateProxyObject
  <2>2. children[s][k] = "owned" => children'[s][k] = "owned"
    BY <1>a, <1>b, <1>4
  <2>3. CASE children[s]["StatefulSet"] = "owned"
    BY <2>2, <2>3 DEF ProxyInv, StatefulSetHasItsNeeds
  <2>4. CASE children[s]["StatefulSet"] # "owned"
    <3>1. ProxyOrder[step] = "StatefulSet"
      BY <1>a, <1>b, <1>4, <2>4
    <3>2. step = 5
      BY <2>1, <3>1, Kinds
    <3>3. \A i \in 1..4 : children[s][ProxyOrder[i]] = "owned"
      BY <1>4, <2>1, <3>2 DEF ProxyInv, ProxyInProgress
    <3>4. children[s][k] = "owned"
      BY <3>3, Kinds
    <3> QED
      BY <2>2, <3>4
  <2> QED
    BY <2>3, <2>4
<1> QED
  BY <1>a, <1>1, <1>2, <1>3, <1>4, ChildrenSteps

(* The objects before the step are the owner's: nobody takes them from it  *)
(* as long as it carries the finalizer.                                    *)
LEMMA ProgressNext ==
    ASSUME ProxyInv, [Next]_vars
    PROVE  ProxyInProgress'
<1>a. TypeOK /\ children \in [Keys -> [ProxyKinds -> {"none", "owned", "orphan"}]] /\ step \in 1..6
  BY DEF ProxyInv, IInv, TypeOK
<1>1. \/ /\ pc' \in {"checkVIP", "putVIP", "readVIP"} => step' = 1
         /\ pc' = "proxy" => step' = 1
      \/ pc' = "proxy" /\ pc = "proxy" /\ cur' = cur /\ step' = step
      \/ /\ pc' = "proxy" /\ pc = "proxy" /\ cur' = cur /\ step' = step + 1
         /\ children' = [children EXCEPT ![cur][ProxyOrder[step]] = "owned"]
  <2> DEFINE Goal ==
      \/ /\ pc' \in {"checkVIP", "putVIP", "readVIP"} => step' = 1
         /\ pc' = "proxy" => step' = 1
      \/ pc' = "proxy" /\ pc = "proxy" /\ cur' = cur /\ step' = step
      \/ /\ pc' = "proxy" /\ pc = "proxy" /\ cur' = cur /\ step' = step + 1
         /\ children' = [children EXCEPT ![cur][ProxyOrder[step]] = "owned"]
  <2>a. pc \in {"checkVIP", "putVIP", "readVIP"} => step = 1
    BY DEF ProxyInv, ProxyInProgress
  <2>1. CASE UNCHANGED <<pc, cur, step>>
    BY <2>a, <2>1
  <2>2. ASSUME NEW s \in Keys, NEW sp \in Specs, Create(s, sp) \/ Edit(s, sp) PROVE Goal
    BY <2>1, <2>2 DEF Create, Edit, UserWrite
  <2>3. ASSUME NEW s \in Keys, Delete(s) \/ Deliver(s) \/ Fire(s) PROVE Goal
    BY <2>1, <2>3 DEF Delete, UserWrite, Deliver, WatchEvent, Fire, TimerFires, worker
  <2>4. ASSUME NEW s \in Keys, Reconcile(s) PROVE Goal
    BY <2>4 DEF Reconcile
  <2>5. ASSUME NEW s \in Keys, NEW k \in ProxyKinds, Collect(s, k) PROVE Goal
    BY <2>1, <2>5 DEF Collect, worker
  <2>6. ASSUME NEW n \in VIPNames, AdminRemove(n) PROVE Goal
    BY <2>1, <2>6 DEF AdminRemove, worker
  <2>7. CASE Crash \/ AddFinalizer \/ UpdateStatus \/ RemoveFinalizer
    BY <2>7 DEF Crash, Restart, AddFinalizer, UpdateStatus, RemoveFinalizer, Finish,
                FinishAndRequeue, Idle, Release, ReleaseAndRequeue
  <2>8. CASE SkipVIP \/ CheckVIP \/ PutVIP \/ ReadVIP
    BY <2>a, <2>8 DEF SkipVIP, CheckVIP, PutVIP, ReadVIP, AfterVIP, PutFailed
  <2>9. CASE CreateProxyObject
    BY <2>9 DEF CreateProxyObject
  <2>10. CASE DeleteVIP
    BY <2>10 DEF DeleteVIP
  <2>11. CASE UNCHANGED vars
    BY <2>1, <2>11 DEF vars, worker
  <2> QED
    BY <2>2, <2>3, <2>4, <2>5, <2>6, <2>7, <2>8, <2>9, <2>10, <2>11 DEF Next, WorkerStep
<1>2. CASE /\ pc' \in {"checkVIP", "putVIP", "readVIP"} => step' = 1
           /\ pc' = "proxy" => step' = 1
  BY <1>2 DEF ProxyInProgress
<1>3. CASE pc' = "proxy" /\ pc = "proxy" /\ cur' = cur /\ step' \in {step, step + 1}
  <2>1. cur \in Keys /\ api[cur].finalizer
    BY <1>a, <1>3, Busy DEF ProxyInv, IInv, WorkerGuarded
  <2>2. \A k \in ProxyKinds : children[cur][k] = "owned" => children'[cur][k] = "owned"
    BY <1>a, <1>3, <2>1, OwnedStays
  <2>3. \A i \in 1..6 : i < step => children'[cur][ProxyOrder[i]] = "owned"
    BY <1>3, <2>2, ProxyOrderType DEF ProxyInv, ProxyInProgress
  <2>4. CASE step' = step
    BY <1>3, <2>3, <2>4 DEF ProxyInProgress
  <2>5. CASE step' = step + 1 /\ children' = [children EXCEPT ![cur][ProxyOrder[step]] = "owned"]
    <3>1. children'[cur][ProxyOrder[step]] = "owned"
      BY <1>a, <2>1, <2>5, ProxyOrderType
    <3>2. \A i \in 1..6 : i < step + 1 => i < step \/ i = step
      BY <1>a
    <3> QED
      BY <1>3, <2>3, <2>5, <3>1, <3>2 DEF ProxyInProgress
  <2> QED
    BY <1>1, <1>3, <2>4, <2>5, <1>a
<1> QED
  BY <1>1, <1>2, <1>3

(* A writable copy claims the proxy only when all of it is the owner's.    *)
LEMMA ClaimsNext ==
    ASSUME ProxyInv, [Next]_vars
    PROVE  ProxyClaimsBacked'
<1> SUFFICES ASSUME pc' # "idle", ~conflict', ClaimsProxy(obj'.status), NEW k \in ProxyKinds
             PROVE  children'[cur'][k] = "owned"
  BY DEF ProxyClaimsBacked, ClaimsProxy
<1>a. /\ IInv /\ TypeOK /\ step \in 1..6
      /\ children \in [Keys -> [ProxyKinds -> {"none", "owned", "orphan"}]]
  BY DEF ProxyInv, IInv, TypeOK
<1>1. ASSUME NEW s \in Keys, cur' = s, obj' = api[s], UNCHANGED children
      PROVE  children'[cur'][k] = "owned"
  BY <1>1 DEF ProxyInv, ProxyStatusBacked, ClaimsProxy
<1>2. CASE /\ pc # "idle" /\ ~conflict /\ cur' = cur
           /\ ClaimsProxy(obj'.status) => ClaimsProxy(obj.status)
  <2>1. cur \in Keys /\ children[cur][k] = "owned"
    BY <1>a, <1>2, Busy DEF ProxyInv, ProxyClaimsBacked, ClaimsProxy
  <2> QED
    BY <1>a, <1>2, <2>1, OwnedStays
<1>3. CASE /\ pc = "proxy" /\ step = 6 /\ cur' = cur
           /\ children' = [children EXCEPT ![cur][ProxyOrder[6]] = "owned"]
  <2>1. cur \in Keys
    BY <1>a, <1>3, Busy
  <2>2. \A i \in 1..5 : children[cur][ProxyOrder[i]] = "owned"
    BY <1>3 DEF ProxyInv, ProxyInProgress
  <2>3. PICK i \in 1..6 : k = ProxyOrder[i]
    BY DEF ProxyKinds
  <2>4. CASE i = 6
    BY <1>a, <1>3, <2>1, <2>3, <2>4
  <2>5. CASE i # 6
    <3>1. i \in 1..5
      BY <2>3, <2>5
    <3>2. children[cur][k] = "owned"
      BY <2>2, <2>3, <3>1
    <3> QED
      BY <1>a, <1>3, <2>1, <3>2, ProxyOrderType
  <2> QED
    BY <2>4, <2>5
<1> QED
  BY <1>a, <1>1, <1>2, <1>3, CopySteps

(* A status in the API server claims the proxy only when all of it is the  *)
(* owner's: it was written from such a copy, and nothing is taken since.   *)
LEMMA BackedNext ==
    ASSUME ProxyInv, [Next]_vars
    PROVE  ProxyStatusBacked'
<1> SUFFICES ASSUME NEW s \in Keys, ClaimsProxy(api'[s].status), NEW k \in ProxyKinds
             PROVE  children'[s][k] = "owned"
  BY DEF ProxyStatusBacked, ClaimsProxy
<1>a. /\ TypeOK /\ api \in [Keys -> ObjectType]
  BY DEF ProxyInv, IInv, TypeOK, RuntimeTypeOK
<1>1. ~ClaimsProxy(NoObject.status)
  BY DEF ClaimsProxy, NoObject, NewStatus
<1>2. ClaimsProxy(api[s].status) => children[s][k] = "owned"
  BY DEF ProxyInv, ProxyStatusBacked, ClaimsProxy
<1>3. children[s][k] = "owned" => children'[s][k] = "owned"
  BY <1>a, <1>1, OwnedStays
<1>4. CASE api'[s].status = api[s].status
  BY <1>2, <1>3, <1>4
<1>5. CASE api'[s].status # api[s].status
  <2>1. Next /\ api'[s] # api[s]
    BY <1>5 DEF vars, cluster
  <2>2. ASSUME NEW sp \in Specs PROVE ~Create(s, sp) /\ ~Edit(s, sp)
    <3>1. api'[s] # [api[s] EXCEPT !.spec = sp]
      BY <1>a, <1>5 DEF ObjectType
    <3>2. api'[s] # [NoObject EXCEPT !.phase = "live", !.spec = sp]
      BY BlankClaimsNothing, SpecsAssumption
    <3> QED
      BY <1>a, <3>1, <3>2 DEF Create, Edit, UserWrite
  <2>3. ~Delete(s)
    <3>1. api'[s] # [api[s] EXCEPT !.phase = "deleting"]
      BY <1>a, <1>5 DEF ObjectType
    <3> QED
      BY <1>a, <1>1, <3>1 DEF Delete, UserWrite
  <2>4. api'[s] # [api[s] EXCEPT !.finalizer = TRUE]
    BY <1>a, <1>5 DEF ObjectType
  <2>5. s = cur /\ Fresh /\ pc = "status" /\ api'[s] = [api[s] EXCEPT !.status = obj.status]
    BY <1>a, <1>1, <2>1, <2>2, <2>3, <2>4, WhoWrites
  <2>6. ClaimsProxy(obj.status)
    BY <1>a, <2>5 DEF ObjectType
  <2>7. children[s][k] = "owned"
    BY <2>5, <2>6 DEF ProxyInv, ProxyClaimsBacked, ClaimsProxy, Fresh
  <2> QED
    BY <1>3, <2>7
<1> QED
  BY <1>4, <1>5

(* The invariant of the proxy objects holds initially. *)
LEMMA ProxyInit == Init => ProxyInv
<1> SUFFICES ASSUME Init PROVE ProxyInv
  OBVIOUS
<1>1. \A s \in Keys : ~ClaimsProxy(api[s].status)
  BY DEF Init, RuntimeInit, ClaimsProxy, NoObject, NewStatus
<1>2. ProxyStatusBacked
  BY <1>1 DEF ProxyStatusBacked, ClaimsProxy
<1>3. StatefulSetHasItsNeeds
  BY Kinds DEF Init, StatefulSetHasItsNeeds
<1>4. ProxyInProgress /\ ProxyClaimsBacked
  BY DEF Init, RuntimeInit, ProxyInProgress, ProxyClaimsBacked
<1> QED
  BY <1>2, <1>3, <1>4, InvInit DEF ProxyInv

(***************************************************************************)
(* Theorems                                                                *)
(***************************************************************************)
(* The inductive invariant of the proxy objects: those before the step are *)
(* the owner's, and so is all a writable copy or a status claims.          *)
THEOREM ProxyInvariant == Spec => []ProxyInv
<1>1. ProxyInv /\ [Next]_vars => ProxyInv'
  <2> SUFFICES ASSUME ProxyInv, [Next]_vars PROVE ProxyInv'
    OBVIOUS
  <2>1. IInv'
    BY InvNext DEF ProxyInv
  <2> QED
    BY <2>1, NeedsNext, ProgressNext, ClaimsNext, BackedNext DEF ProxyInv
<1> QED
  BY <1>1, ProxyInit, PTL DEF Spec

(* CreateProxyInfrastructure stops at the first failure and is taken up    *)
(* again from the start, while an earlier owner's objects are collected:   *)
(* still no StatefulSet runs without what its pods need.                   *)
THEOREM NeedsAreThere == Spec => []StatefulSetHasItsNeeds
<1>1. ProxyInv => StatefulSetHasItsNeeds
  BY DEF ProxyInv
<1> QED
  BY <1>1, ProxyInvariant, PTL

(* ProxyStatus and ProxyReady never outlive the objects they are about.    *)
THEOREM ProxyIsBacked == Spec => []ProxyStatusBacked
<1>1. ProxyInv => ProxyStatusBacked
  BY DEF ProxyInv
<1> QED
  BY <1>1, ProxyInvariant, PTL
=============================================================================
