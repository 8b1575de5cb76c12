---------------------- MODULE TailnetReconcilerProofs ----------------------
(***************************************************************************)
(* Theorems about TailnetReconciler, for every set of objects, secrets,    *)
(* credentials, faults and bounds.                                         *)
(***************************************************************************)
EXTENDS TailnetProperties, TLAPS

(***************************************************************************)
(* Types                                                                   *)
(***************************************************************************)
(* The constant records are what the types say. *)
LEMMA ConstantTypes == NewStatus \in StatusType /\ NoObject \in ObjectType
BY DEF NewStatus, StatusType, Conditions, NoObject, ObjectType

(* Credentials belong to one of the tailnets, and what is discovered with  *)
(* them is its domain, or none if its devices may have a name without one. *)
LEMMA DomainType ==
    ASSUME devices \in Devices, NEW c \in Credentials
    PROVE  /\ Domain[c] \in Domains /\ Discovered(c) \in Domains \cup {Empty}
           /\ HasDevice(c) => Discovered(c) \in DomainsOf(c)
<1>1. Domain[c] \in Domains
  BY DEF Domains
<1>2. /\ devices[Domain[c]] \in {"none", "dotted", "undotted"}
      /\ devices[Domain[c]] = "undotted" => Domain[c] \in Undotted
  BY <1>1 DEF Devices
<1> QED
  BY <1>1, <1>2 DEF Discovered, HasDevice, DomainsOf

(* The specs users write are well typed. *)
LEMMA SpecsType ==
    ASSUME NEW sp \in Specs
    PROVE  sp \in SpecType
BY SpecsAssumption

(* Changing one field keeps an object well typed, and its other fields.    *)
LEMMA ObjectFields ==
    ASSUME NEW o \in ObjectType, NEW st \in StatusType, NEW b \in BOOLEAN,
           NEW sp \in SpecType
    PROVE  /\ [o EXCEPT !.status = st] \in ObjectType
           /\ [o EXCEPT !.status = st].phase = o.phase
           /\ [o EXCEPT !.status = st].spec = o.spec
           /\ [o EXCEPT !.status = st].status = st
           /\ [o EXCEPT !.finalizer = b] \in ObjectType
           /\ [o EXCEPT !.finalizer = b].phase = o.phase
           /\ [o EXCEPT !.finalizer = b].spec = o.spec
           /\ [o EXCEPT !.finalizer = b].status = o.status
           /\ [o EXCEPT !.foreign = b] \in ObjectType
           /\ [o EXCEPT !.foreign = b].phase = o.phase
           /\ [o EXCEPT !.foreign = b].spec = o.spec
           /\ [o EXCEPT !.foreign = b].status = o.status
           /\ [o EXCEPT !.spec = sp] \in ObjectType
           /\ [o EXCEPT !.spec = sp].phase = o.phase
           /\ [o EXCEPT !.spec = sp].spec = sp
           /\ [o EXCEPT !.spec = sp].status = o.status
           /\ [o EXCEPT !.phase = "deleting"] \in ObjectType
           /\ [o EXCEPT !.phase = "deleting"].phase = "deleting"
           /\ [o EXCEPT !.phase = "deleting"].spec = o.spec
           /\ [o EXCEPT !.phase = "deleting"].status = o.status
BY DEF ObjectType

(* A fault is counted within its bound. *)
LEMMA FaultType ==
    ASSUME TypeOK, NEW kind, Fault(kind) \/ UNCHANGED faults
    PROVE  /\ faults' \in 0..MaxFaults
           /\ faults' >= faults
           /\ Fault(kind) => faults' = faults + 1
BY BoundAssumption DEF TypeOK, RuntimeTypeOK, Fault

(* The outcome of a write counts at most one fault. *)
LEMMA OutcomeType ==
    ASSUME TypeOK, NEW applied, NEW ok, Outcome(applied, ok)
    PROVE  faults' \in 0..MaxFaults /\ faults' >= faults
BY FaultType DEF Outcome

(* A busy worker has a current object. *)
LEMMA Busy ==
    ASSUME TypeOK, pc # "idle"
    PROVE  cur \in Keys
BY DEF TypeOK, RuntimeTypeOK

(* The idle worker is well typed. *)
LEMMA DoneType ==
    ASSUME Done
    PROVE  /\ pc' = "idle" /\ cur' = None /\ obj' = NoObject /\ conflict' = FALSE
           /\ cred' = None /\ obj' \in ObjectType
BY ConstantTypes DEF Done, Release

(* A user's write keeps the state well typed. *)
LEMMA UserWriteType ==
    ASSUME TypeOK, KeyToDelete, NEW k \in Keys, NEW o \in ObjectType, UserWrite(k, o),
           UNCHANGED <<external, keys, cred>>
    PROVE  TypeOK' /\ KeyToDelete'
<1>1. edits' \in 0..MaxEdits
  BY BoundAssumption DEF TypeOK, RuntimeTypeOK, UserWrite
<1>2. api' \in [Keys -> ObjectType] /\ stale' \subseteq Keys
  BY DEF TypeOK, RuntimeTypeOK, UserWrite, Bump
<1>3. conflict' \in BOOLEAN
  BY DEF TypeOK, RuntimeTypeOK, UserWrite
<1> QED
  BY <1>1, <1>2, <1>3 DEF TypeOK, RuntimeTypeOK, UserWrite, external, KeyToDelete

(* A write of the worker, after which it is idle, keeps the state well     *)
(* typed.                                                                  *)
LEMMA WorkerWriteType ==
    ASSUME TypeOK, pc # "idle", NEW applied, NEW o \in ObjectType,
           Write(applied, o) \/ UNCHANGED <<api, stale>>, Done,
           timers' \in {timers, timers \cup {cur}}, faults' \in 0..MaxFaults,
           UNCHANGED <<cache, queue, edits, external, keys>>
    PROVE  TypeOK' /\ KeyToDelete'
<1>1. cur \in Keys
  BY Busy
<1>2. api' \in [Keys -> ObjectType] /\ stale' \subseteq Keys
  BY <1>1 DEF Write, Bump, TypeOK, RuntimeTypeOK
<1> QED
  BY <1>1, <1>2, DoneType DEF TypeOK, RuntimeTypeOK, external, KeyToDelete

(* The initial states are well typed. *)
LEMMA TypeInit == Init => TypeOK /\ KeyToDelete
<1> SUFFICES ASSUME Init PROVE TypeOK /\ KeyToDelete
  OBVIOUS
<1>1. 0 \in 0..MaxEdits /\ 0 \in 0..MaxFaults
  BY BoundAssumption
<1>2. /\ api \in [Keys -> ObjectType] /\ cache \in [Keys -> ObjectType]
      /\ stale \subseteq Keys /\ queue \subseteq Keys /\ timers \subseteq Keys
  BY ConstantTypes DEF Init, RuntimeInit
<1>3. /\ pc = "idle" /\ cur = None /\ obj \in ObjectType /\ conflict \in BOOLEAN
  BY ConstantTypes DEF Init, RuntimeInit
<1> QED
  BY <1>1, <1>2, <1>3 DEF Init, RuntimeInit, TypeOK, RuntimeTypeOK, KeyToDelete

(* Every action keeps the state well typed, and a key there when it is to  *)
(* be deleted.                                                             *)
LEMMA TypeNext == TypeOK /\ KeyToDelete /\ [Next]_vars => TypeOK' /\ KeyToDelete'
<1> SUFFICES ASSUME TypeOK, KeyToDelete, [Next]_vars PROVE TypeOK' /\ KeyToDelete'
  OBVIOUS
<1>a. api \in [Keys -> ObjectType] /\ cache \in [Keys -> ObjectType] /\ obj \in ObjectType
  BY DEF TypeOK, RuntimeTypeOK
<1>1. ASSUME NEW k \in Keys, NEW sp \in Specs, NEW foreign \in BOOLEAN,
             Create(k, sp, foreign)
      PROVE  TypeOK' /\ KeyToDelete'
  <2>1. [NoObject EXCEPT !.phase = "live", !.spec = sp, !.foreign = foreign] \in ObjectType
    BY ConstantTypes, SpecsType DEF ObjectType
  <2> QED
    BY <1>1, <2>1, UserWriteType DEF Create
<1>2. ASSUME NEW k \in Keys, NEW sp \in Specs, Edit(k, sp)
      PROVE  TypeOK' /\ KeyToDelete'
  <2>1. [api[k] EXCEPT !.spec = sp] \in ObjectType
    BY <1>a, ConstantTypes, SpecsType, ObjectFields
  <2> QED
    BY <1>2, <2>1, UserWriteType DEF Edit
<1>3. ASSUME NEW k \in Keys, Delete(k) PROVE TypeOK' /\ KeyToDelete'
  <2>1. [api[k] EXCEPT !.phase = "deleting"] \in ObjectType
    BY <1>a DEF ObjectType
  <2> QED
    BY <1>3, <2>1, ConstantTypes, UserWriteType DEF Delete
<1>4. ASSUME NEW k \in Keys, DropForeign(k) PROVE TypeOK' /\ KeyToDelete'
  <2>1. [api[k] EXCEPT !.foreign = FALSE] \in ObjectType
    BY <1>a DEF ObjectType
  <2>2. api' \in [Keys -> ObjectType] /\ stale' \subseteq Keys
    BY <1>4, <1>a, <2>1, ConstantTypes DEF DropForeign, Bump, TypeOK, RuntimeTypeOK
  <2>3. conflict' \in BOOLEAN
    BY <1>4 DEF DropForeign, TypeOK, RuntimeTypeOK
  <2> QED
    BY <1>4, <2>2, <2>3 DEF DropForeign, budgets, external, TypeOK, RuntimeTypeOK, KeyToDelete
<1>5. ASSUME NEW n \in SecretNames, NEW v \in Contents, ChangeSecret(n, v)
      PROVE  TypeOK' /\ KeyToDelete'
  <2>1. edits' \in 0..MaxEdits
    BY <1>5, BoundAssumption DEF ChangeSecret, TypeOK, RuntimeTypeOK
  <2> QED
    BY <1>5, <2>1 DEF ChangeSecret, cluster, worker, TypeOK, RuntimeTypeOK, KeyToDelete
<1>6. CASE ChangeDevices
  <2>1. edits' \in 0..MaxEdits
    BY <1>6, BoundAssumption DEF ChangeDevices, TypeOK, RuntimeTypeOK
  <2>2. devices' \in Devices
    BY <1>6 DEF ChangeDevices
  <2> QED
    BY <1>6, <2>1, <2>2 DEF ChangeDevices, cluster, worker, TypeOK, RuntimeTypeOK, KeyToDelete
<1>7. ASSUME NEW c \in Credentials, Revoke(c) PROVE TypeOK' /\ KeyToDelete'
  <2>1. faults' \in 0..MaxFaults
    BY <1>7, FaultType DEF Revoke
  <2> QED
    BY <1>7, <2>1 DEF Revoke, cluster, worker, TypeOK, RuntimeTypeOK, KeyToDelete
<1>8. CASE ExpireKey
  BY <1>8 DEF ExpireKey, cluster, worker, budgets, external, TypeOK, RuntimeTypeOK, KeyToDelete
<1>9. ASSUME NEW k \in Keys, Deliver(k) PROVE TypeOK' /\ KeyToDelete'
  BY <1>9 DEF Deliver, WatchEvent, worker, budgets, external, TypeOK, RuntimeTypeOK, KeyToDelete
<1>10. ASSUME NEW k \in Keys, Fire(k) PROVE TypeOK' /\ KeyToDelete'
  BY <1>10 DEF Fire, TimerFires, worker, budgets, external, TypeOK, RuntimeTypeOK, KeyToDelete
<1>11. ASSUME NEW n \in SecretNames, DeliverSecret(n) PROVE TypeOK' /\ KeyToDelete'
  BY <1>11 DEF DeliverSecret, cluster, worker, budgets, TypeOK, RuntimeTypeOK, KeyToDelete
<1>12. CASE Crash
  <2>1. faults' \in 0..MaxFaults
    BY <1>12, FaultType DEF Crash, Restart
  <2>2. /\ pc' = "idle" /\ cur' = None /\ obj' = NoObject /\ conflict' = FALSE
    BY <1>12 DEF Crash, Restart, Release
  <2> QED
    BY <1>12, <1>a, <2>1, <2>2, ConstantTypes DEF Crash, Restart, TypeOK, RuntimeTypeOK, KeyToDelete
<1>13. ASSUME NEW k \in Keys, Reconcile(k) PROVE TypeOK' /\ KeyToDelete'
  <2>1. FirstCall(cache[k]) \in Calls \ {"deleteKey"} /\ "idle" \notin Calls /\ k # None
    BY KeysAssumption DEF FirstCall, Calls
  <2>2. CASE UNCHANGED worker
    BY <1>13, <2>2 DEF Reconcile, Begin, worker, budgets, external, TypeOK, RuntimeTypeOK, KeyToDelete
  <2>3. CASE /\ cur' = k /\ obj' = cache[k] /\ conflict' = (k \in stale)
             /\ pc' = FirstCall(cache[k])
    <3>1. conflict' \in BOOLEAN
      BY <2>3
    <3>2. pc' \in Calls \cup {"idle"} /\ pc' # "idle" /\ pc' # "deleteKey"
      BY <2>1, <2>3
    <3> QED
      BY <1>13, <1>a, <2>1, <2>3, <3>1, <3>2
      DEF Reconcile, Begin, budgets, external, TypeOK, RuntimeTypeOK, KeyToDelete
  <2> QED
    BY <1>13, <2>2, <2>3 DEF Reconcile, Begin
<1>14. CASE AddFinalizer
  <2>1. cur \in Keys /\ pc # "idle"
    BY <1>14, Busy DEF AddFinalizer
  <2>2. [api[cur] EXCEPT !.finalizer = TRUE] \in ObjectType
    BY <1>a, <2>1 DEF ObjectType
  <2>3. Done /\ timers' \in {timers, timers \cup {cur}}
    BY <1>14 DEF AddFinalizer, Finish, FinishAndRequeue, ReleaseAndRequeue, Done
  <2>4. faults' \in 0..MaxFaults
    BY <1>14, OutcomeType DEF AddFinalizer, TypeOK, RuntimeTypeOK
  <2>5. \/ \E applied \in BOOLEAN : Write(applied, [api[cur] EXCEPT !.finalizer = TRUE])
        \/ UNCHANGED <<api, stale>>
    BY <1>14 DEF AddFinalizer
  <2> QED
    BY <1>14, <2>1, <2>2, <2>3, <2>4, <2>5, WorkerWriteType DEF AddFinalizer
<1>15. CASE GetSecret
  <2>1. cur \in Keys
    BY <1>15, Busy DEF GetSecret
  <2>2. CASE pc' = "createKey" /\ cred' \in Credentials /\ UNCHANGED <<timers, cur, obj, conflict>>
    BY <1>15, <2>1, <2>2, KeysAssumption
    DEF GetSecret, budgets, external, TypeOK, RuntimeTypeOK, Calls, KeyToDelete
  <2>3. CASE FinishAndRequeue
    <3>1. Done /\ timers' = timers \cup {cur}
      BY <2>3 DEF FinishAndRequeue, ReleaseAndRequeue, Done
    <3> QED
      BY <1>15, <2>1, <3>1, DoneType
      DEF GetSecret, budgets, external, TypeOK, RuntimeTypeOK, KeyToDelete
  <2> QED
    BY <1>15, <2>2, <2>3 DEF GetSecret
<1>16. CASE CreateKey
  <2>1. cur \in Keys
    BY <1>16, Busy DEF CreateKey
  <2>2. faults' \in 0..MaxFaults
    BY <1>16, FaultType DEF CreateKey
  <2>3. keys' \in Nat
    BY <1>16 DEF CreateKey, TypeOK
  <2>4. CASE pc' = "deleteKey" /\ keys' = keys + 1 /\ UNCHANGED <<timers, cur, obj, conflict, cred>>
    <3>1. keys' > 0
      BY <2>4 DEF TypeOK
    <3> QED
      BY <1>16, <2>1, <2>2, <2>3, <2>4, <3>1, KeysAssumption
      DEF CreateKey, external, TypeOK, RuntimeTypeOK, Calls, KeyToDelete
  <2>5. CASE FinishAndRequeue
    <3>1. Done /\ timers' = timers \cup {cur}
      BY <2>5 DEF FinishAndRequeue, ReleaseAndRequeue, Done
    <3> QED
      BY <1>16, <2>1, <2>2, <2>3, <3>1, DoneType
      DEF CreateKey, external, TypeOK, RuntimeTypeOK, KeyToDelete
  <2> QED
    BY <1>16, <2>4, <2>5 DEF CreateKey
<1>17. CASE DeleteKey
  <2>1. cur \in Keys
    BY <1>17, Busy DEF DeleteKey
  <2>2. faults' \in 0..MaxFaults
    BY <1>17, FaultType DEF DeleteKey
  <2>3. keys' \in Nat
    BY <1>17 DEF DeleteKey, TypeOK, KeyToDelete
  <2>4. obj' \in ObjectType
    BY <1>17, <1>a DEF DeleteKey, ObjectType, StatusType, Conditions
  <2> QED
    BY <1>17, <2>1, <2>2, <2>3, <2>4, KeysAssumption
    DEF DeleteKey, cluster, external, TypeOK, RuntimeTypeOK, Calls, KeyToDelete
<1>18. CASE Discover
  <2>1. cur \in Keys
    BY <1>18, Busy DEF Discover
  <2>2. faults' \in 0..MaxFaults
    BY <1>18, FaultType DEF Discover
  <2>3. obj' \in ObjectType
    <3> DEFINE found == [obj.status EXCEPT !.validated = "True", !.ready = "True",
                                           !.domain = Discovered(cred)]
               failed == [obj.status EXCEPT !.validated = "False", !.ready = "True"]
    <3>1. cred \in accepted => found \in StatusType
      <4> SUFFICES ASSUME cred \in accepted PROVE found \in StatusType
        OBVIOUS
      <4>1. Discovered(cred) \in Domains \cup {Empty}
        BY DomainType DEF TypeOK
      <4> QED
        BY <1>a, <4>1 DEF ObjectType, StatusType, Conditions
    <3>2. failed \in StatusType
      BY <1>a DEF ObjectType, StatusType, Conditions
    <3>3. \/ cred \in accepted /\ obj' = [obj EXCEPT !.status = found]
          \/ obj' = [obj EXCEPT !.status = failed]
      BY <1>18, <1>a DEF Discover, ObjectType
    <3> HIDE DEF found, failed
    <3> QED
      BY <1>a, <3>1, <3>2, <3>3 DEF ObjectType
  <2> QED
    BY <1>18, <2>1, <2>2, <2>3, KeysAssumption
    DEF Discover, cluster, external, TypeOK, RuntimeTypeOK, Calls, KeyToDelete
<1>19. CASE UpdateStatus
  <2>1. cur \in Keys /\ pc # "idle"
    BY <1>19, Busy DEF UpdateStatus
  <2>2. obj.status \in StatusType
    BY <1>a DEF ObjectType
  <2>3. [api[cur] EXCEPT !.status = obj.status] \in ObjectType
    BY <1>a, <2>1, <2>2 DEF ObjectType
  <2>4. Done /\ timers' = timers \cup {cur}
    BY <1>19 DEF UpdateStatus, FinishAndRequeue, ReleaseAndRequeue, Done
  <2>5. PICK applied \in BOOLEAN :
          /\ \E ok \in BOOLEAN : Outcome(applied, ok)
          /\ Write(applied, [api[cur] EXCEPT !.status = obj.status])
    BY <1>19 DEF UpdateStatus
  <2> QED
    BY <1>19, <2>1, <2>3, <2>4, <2>5, OutcomeType, WorkerWriteType DEF UpdateStatus
<1>20. CASE RemoveFinalizer
  <2> DEFINE o == IF api[cur].foreign THEN [api[cur] EXCEPT !.finalizer = FALSE] ELSE NoObject
  <2>1. cur \in Keys /\ pc # "idle"
    BY <1>20, Busy DEF RemoveFinalizer
  <2>2. o \in ObjectType
    BY <1>a, <2>1, ConstantTypes DEF ObjectType
  <2>3. Done /\ timers' \in {timers, timers \cup {cur}}
    BY <1>20 DEF RemoveFinalizer, Finish, FinishAndRequeue, ReleaseAndRequeue, Done
  <2>4. PICK applied \in BOOLEAN : (\E ok \in BOOLEAN : Outcome(applied, ok)) /\ Write(applied, o)
    BY <1>20 DEF RemoveFinalizer
  <2> HIDE DEF o
  <2> QED
    BY <1>20, <2>1, <2>2, <2>3, <2>4, OutcomeType, WorkerWriteType DEF RemoveFinalizer
<1>21. CASE UNCHANGED vars
  BY <1>21 DEF vars, cluster, worker, budgets, external, TypeOK, RuntimeTypeOK, KeyToDelete
<1> QED
  BY <1>1, <1>2, <1>3, <1>4, <1>5, <1>6, <1>7, <1>8, <1>9, <1>10, <1>11, <1>12, <1>13,
     <1>14, <1>15, <1>16, <1>17, <1>18, <1>19, <1>20, <1>21 DEF Next, WorkerStep

(* TypeOK holds in every state; with it, a key that DeleteKey is about to  *)
(* delete is there.                                                        *)
THEOREM TailnetTypeCorrect == Spec => []TypeOK
<1>1. TypeOK /\ KeyToDelete /\ [Next]_vars => (TypeOK /\ KeyToDelete)'
  BY TypeNext
<1> QED
  BY TypeInit, <1>1, PTL DEF Spec

(***************************************************************************)
(* The inductive invariant                                                 *)
(***************************************************************************)
(* Nothing is claimed of an idle worker. *)
LEMMA DoneInv ==
    ASSUME Done
    PROVE  /\ CopyInSync'
           /\ pc' # "deleteKey"
           /\ pc' \notin {"createKey", "deleteKey", "discover", "status"}
BY DEF Done, Release, CopyInSync

(* Another's write of an object that names a secret leaves caches and      *)
(* copies in sync: the worker's copy becomes unwritable.                   *)
LEMMA OthersWriteInv ==
    ASSUME IInv, NEW k \in Keys, NEW o \in ObjectType, HasSecret(o),
           api' = [api EXCEPT ![k] = o], Bump(k), conflict' = (conflict \/ cur = k),
           UNCHANGED <<cache, pc, cur, obj>>
    PROVE  CacheInSync' /\ CopyInSync' /\ SpecNamesSecret'
<1>1. api \in [Keys -> ObjectType] /\ stale' = stale \cup {k}
  BY DEF IInv, TypeOK, RuntimeTypeOK, Bump
<1>2. CacheInSync'
  BY <1>1 DEF IInv, CacheInSync
<1>3. CopyInSync'
  <2> SUFFICES ASSUME pc # "idle", ~conflict, cur # k PROVE CopyInSync'
    BY DEF CopyInSync
  <2> QED
    BY <1>1 DEF IInv, CopyInSync
<1>4. SpecNamesSecret'
  BY <1>1 DEF IInv, SpecNamesSecret, HasSecret
<1> QED
  BY <1>2, <1>3, <1>4

(* A write of the worker, after which it is idle, keeps them in sync too.  *)
LEMMA WorkerWriteInv ==
    ASSUME IInv, pc # "idle", NEW applied, NEW o \in ObjectType, HasSecret(o),
           Write(applied, o) \/ UNCHANGED <<api, stale>>, Done, UNCHANGED cache
    PROVE  CacheInSync' /\ CopyInSync' /\ SpecNamesSecret'
<1>1. cur \in Keys /\ api \in [Keys -> ObjectType]
  BY Busy DEF IInv, TypeOK, RuntimeTypeOK
<1>2. pc' = "idle" /\ CopyInSync'
  BY DoneInv, DoneType
<1>3. CASE UNCHANGED <<api, stale>>
  BY <1>2, <1>3 DEF IInv, CacheInSync, SpecNamesSecret, HasSecret
<1>4. CASE api' = [api EXCEPT ![cur] = o] /\ stale' = stale \cup {cur}
  <2>1. CacheInSync'
    BY <1>1, <1>4 DEF IInv, CacheInSync
  <2>2. SpecNamesSecret'
    BY <1>1, <1>2, <1>4 DEF IInv, SpecNamesSecret, HasSecret
  <2> QED
    BY <1>2, <2>1, <2>2
<1> QED
  BY <1>3, <1>4 DEF Write, Bump

(* What the steps that do not touch secrets, keys or the worker's progress *)
(* keep.                                                                   *)
LEMMA CredentialsKept ==
    ASSUME IInv, UNCHANGED <<secrets, seen, cred>>,
           UNCHANGED <<pc, obj>> \/ pc' \notin {"createKey", "deleteKey", "discover", "status"}
    PROVE  CredentialsOfSecret'
BY DEF IInv, CredentialsOfSecret

(* What bounds the keys bounds them when more faults are counted. *)
LEMMA AtMost ==
    ASSUME NEW a \in Nat, NEW b \in Nat, NEW c \in Nat, c >= b, a <= b
    PROVE  a <= c
OBVIOUS

(* The same with a key in the making. *)
LEMMA AtMostOneMore ==
    ASSUME NEW a \in Nat, NEW b \in Nat, NEW c \in Nat, c >= b, a <= b + 1
    PROVE  a <= c + 1
OBVIOUS

(* A bound may be raised. *)
LEMMA AtMostMore ==
    ASSUME NEW a \in Nat, NEW b \in Nat, NEW n \in Nat, a <= b
    PROVE  a <= b + n
OBVIOUS

(* Keys that are all backed by faults are enough. *)
LEMMA FaultsSuffice ==
    ASSUME keys' \in Nat, faults' \in Nat, keys' <= faults'
    PROVE  KeysBacked'
<1> DEFINE n == IF (pc = "deleteKey" /\ cred \in accepted)' THEN 1 ELSE 0
<1>1. n \in Nat
  OBVIOUS
<1>2. keys' <= faults' + n
  <2> HIDE DEF n
  <2> QED
    BY <1>1, AtMostMore
<1> QED
  BY <1>2 DEF KeysBacked

(* A step that adds no key keeps the keys backed by faults. *)
LEMMA KeysKept ==
    ASSUME IInv, UNCHANGED <<keys, accepted, cred>>, faults' >= faults, faults' \in Nat,
           UNCHANGED pc \/ (pc # "deleteKey" /\ pc' # "deleteKey")
    PROVE  KeysBacked'
<1>1. keys \in Nat /\ faults \in Nat /\ keys' = keys
  BY BoundAssumption DEF IInv, TypeOK, RuntimeTypeOK
<1>2. (pc = "deleteKey" /\ cred \in accepted)' <=> pc = "deleteKey" /\ cred \in accepted
  OBVIOUS
<1>3. CASE pc = "deleteKey" /\ cred \in accepted
  <2>1. keys <= faults + 1
    BY <1>1, <1>3 DEF IInv, KeysBacked
  <2>2. keys <= faults' + 1
    BY <1>1, <2>1, AtMostOneMore
  <2>3. keys' <= faults' + 1
    BY <1>1, <2>2
  <2> QED
    BY <1>2, <1>3, <2>3 DEF KeysBacked
<1>4. CASE ~(pc = "deleteKey" /\ cred \in accepted)
  <2>1. keys <= faults
    BY <1>1, <1>4 DEF IInv, KeysBacked
  <2>2. keys <= faults'
    BY <1>1, <2>1, AtMost
  <2> QED
    BY <1>1, <2>2, FaultsSuffice
<1> QED
  BY <1>3, <1>4

(* The worker lets its client go when it is done. *)
LEMMA DoneSteps ==
    ASSUME IInv, Done, UNCHANGED <<external, keys>>, faults' \in Nat, faults' >= faults,
           pc # "deleteKey"
    PROVE  CredentialsOfSecret' /\ KeysBacked'
<1>1. pc' = "idle" /\ UNCHANGED <<secrets, seen, accepted, keys>>
  BY DoneType DEF external
<1>2. CredentialsOfSecret'
  BY <1>1 DEF IInv, CredentialsOfSecret
<1>3. keys \in Nat /\ faults \in Nat
  BY BoundAssumption DEF IInv, TypeOK, RuntimeTypeOK
<1>4. keys <= faults
  BY <1>3 DEF IInv, KeysBacked
<1>5. keys <= faults'
  BY <1>3, <1>4, AtMost
<1>6. KeysBacked'
  BY <1>1, <1>3, <1>5, FaultsSuffice
<1> QED
  BY <1>2, <1>6

(* The inductive invariant holds initially. *)
LEMMA InvInit == Init => IInv
<1> SUFFICES ASSUME Init PROVE IInv
  OBVIOUS
<1>1. TypeOK /\ KeyToDelete
  BY TypeInit
<1>2. CacheInSync /\ CopyInSync /\ SpecNamesSecret
  BY DEF Init, RuntimeInit, CacheInSync, CopyInSync, SpecNamesSecret, HasSecret, NoObject
<1>3. CredentialsOfSecret /\ KeysBacked
  BY DEF Init, RuntimeInit, CredentialsOfSecret, KeysBacked
<1> QED
  BY <1>1, <1>2, <1>3 DEF IInv

(* Every action keeps the inductive invariant. *)
LEMMA InvNext == IInv /\ [Next]_vars => IInv'
<1> DEFINE Goal == /\ CacheInSync' /\ CopyInSync' /\ SpecNamesSecret'
                   /\ CredentialsOfSecret' /\ KeysBacked'
<1> SUFFICES ASSUME IInv, [Next]_vars PROVE Goal
  BY TypeNext DEF IInv
<1>a. /\ TypeOK /\ KeyToDelete /\ TypeOK' /\ KeyToDelete'
      /\ obj \in ObjectType /\ api \in [Keys -> ObjectType] /\ cache \in [Keys -> ObjectType]
  BY TypeNext DEF IInv, TypeOK, RuntimeTypeOK
<1>b. faults \in Nat /\ faults' \in Nat /\ keys \in Nat /\ keys' \in Nat
  BY <1>a, BoundAssumption DEF TypeOK, RuntimeTypeOK
<1>c. UNCHANGED faults => faults' >= faults
  BY <1>b
<1>1. ASSUME NEW k \in Keys, NEW sp \in Specs, NEW foreign \in BOOLEAN,
             Create(k, sp, foreign)
      PROVE  Goal
  <2> DEFINE o == [NoObject EXCEPT !.phase = "live", !.spec = sp, !.foreign = foreign]
  <2>1. o \in ObjectType /\ HasSecret(o)
    BY ConstantTypes, SpecsType DEF ObjectType, HasSecret
  <2>2. UserWrite(k, o) /\ UNCHANGED <<external, keys, cred>>
    BY <1>1 DEF Create
  <2> HIDE DEF o
  <2>3. CacheInSync' /\ CopyInSync' /\ SpecNamesSecret'
    BY <2>1, <2>2, OthersWriteInv DEF UserWrite
  <2> QED
    BY <1>b, <1>c, <2>2, <2>3, CredentialsKept, KeysKept DEF UserWrite, external
<1>2. ASSUME NEW k \in Keys, NEW sp \in Specs, Edit(k, sp) PROVE Goal
  <2> DEFINE o == [api[k] EXCEPT !.spec = sp]
  <2>1. o \in ObjectType /\ HasSecret(o)
    BY <1>a, SpecsType DEF ObjectType, HasSecret
  <2>2. UserWrite(k, o) /\ UNCHANGED <<external, keys, cred>>
    BY <1>2 DEF Edit
  <2> HIDE DEF o
  <2>3. CacheInSync' /\ CopyInSync' /\ SpecNamesSecret'
    BY <2>1, <2>2, OthersWriteInv DEF UserWrite
  <2> QED
    BY <1>b, <1>c, <2>2, <2>3, CredentialsKept, KeysKept DEF UserWrite, external
<1>3. ASSUME NEW k \in Keys, Delete(k) PROVE Goal
  <2> DEFINE o == IF api[k].finalizer \/ api[k].foreign
                  THEN [api[k] EXCEPT !.phase = "deleting"] ELSE NoObject
  <2>1. o \in ObjectType /\ HasSecret(o)
    <3>1. api[k].phase # "absent" /\ api[k].spec \in SpecType
      BY <1>3 DEF Delete, IInv, SpecNamesSecret, HasSecret
    <3> QED
      BY <1>a, <3>1, ConstantTypes DEF ObjectType, HasSecret, NoObject
  <2>2. UserWrite(k, o) /\ UNCHANGED <<external, keys, cred>>
    BY <1>3 DEF Delete
  <2> HIDE DEF o
  <2>3. CacheInSync' /\ CopyInSync' /\ SpecNamesSecret'
    BY <2>1, <2>2, OthersWriteInv DEF UserWrite
  <2> QED
    BY <1>b, <1>c, <2>2, <2>3, CredentialsKept, KeysKept DEF UserWrite, external
<1>4. ASSUME NEW k \in Keys, DropForeign(k) PROVE Goal
  <2> DEFINE o == IF api[k].finalizer THEN [api[k] EXCEPT !.foreign = FALSE] ELSE NoObject
  <2>1. o \in ObjectType /\ HasSecret(o)
    BY <1>a, ConstantTypes DEF IInv, SpecNamesSecret, HasSecret, ObjectType, NoObject
  <2>2. /\ Bump(k) /\ conflict' = (conflict \/ cur = k)
        /\ UNCHANGED <<cache, pc, cur, obj, faults, external, keys, cred>>
    BY <1>4 DEF DropForeign, budgets
  <2>4. api' = [api EXCEPT ![k] = o]
    BY <1>4 DEF DropForeign
  <2> HIDE DEF o
  <2>3. CacheInSync' /\ CopyInSync' /\ SpecNamesSecret'
    BY <2>1, <2>2, <2>4, OthersWriteInv
  <2> QED
    BY <1>b, <1>c, <2>2, <2>3, CredentialsKept, KeysKept DEF external
<1>5. ASSUME NEW n \in SecretNames, NEW v \in Contents, ChangeSecret(n, v) PROVE Goal
  <2>1. /\ secrets' = [secrets EXCEPT ![n] = v] /\ (n \in Rotating \/ secrets[n] = None)
        /\ UNCHANGED <<api, cache, stale, pc, cur, obj, conflict, faults, seen, accepted,
                       keys, cred>>
    BY <1>5 DEF ChangeSecret, cluster, worker
  <2>2. secrets \in [SecretNames -> Contents] /\ None \notin Credentials
    BY <1>a, CredentialsAssumption DEF TypeOK
  <2>3. \A m \in SecretNames \ Rotating : secrets[m] # None => secrets'[m] = secrets[m]
    BY <2>1, <2>2
  <2>4. ASSUME NEW m \in SecretNames \ Rotating PROVE seen'[m] \in {secrets'[m], None}
    BY <2>1, <2>2, <2>3 DEF IInv, CredentialsOfSecret
  <2>5. pc # "idle" => obj.spec.secret \in SecretNames
    BY DEF IInv, SpecNamesSecret, SpecType
  <2>6. pc \in {"createKey", "deleteKey", "discover"} =>
          /\ cred \in Credentials /\ obj.spec.named
          /\ obj.spec.secret \notin Rotating => secrets'[obj.spec.secret] = cred
    BY <2>2, <2>3, <2>5 DEF IInv, CredentialsOfSecret
  <2>7. pc = "status" /\ obj.status.validated = "True" =>
          /\ obj.spec.named
          /\ obj.spec.secret \notin Rotating =>
                /\ secrets'[obj.spec.secret] \in Credentials
                /\ obj.status.domain \in DomainsOf(secrets'[obj.spec.secret])
    BY <2>2, <2>3, <2>5 DEF IInv, CredentialsOfSecret
  <2>8. CredentialsOfSecret'
    BY <2>1, <2>4, <2>6, <2>7 DEF CredentialsOfSecret
  <2> QED
    BY <1>b, <1>c, <2>1, <2>8, KeysKept
    DEF IInv, CacheInSync, CopyInSync, SpecNamesSecret, HasSecret
<1>6. CASE ChangeDevices
  <2>1. UNCHANGED <<api, cache, stale, pc, cur, obj, conflict, faults, secrets, seen, accepted,
                    keys, cred>>
    BY <1>6 DEF ChangeDevices, cluster, worker
  <2> QED
    BY <1>b, <1>c, <2>1, CredentialsKept, KeysKept
    DEF IInv, CacheInSync, CopyInSync, SpecNamesSecret, HasSecret
<1>7. ASSUME NEW c \in Credentials, Revoke(c) PROVE Goal
  <2>1. /\ faults' = faults + 1 /\ accepted' = accepted \ {c}
        /\ UNCHANGED <<api, cache, stale, pc, cur, obj, conflict, secrets, seen, keys, cred>>
    BY <1>7 DEF Revoke, Fault, cluster, worker
  <2>2. KeysBacked'
    <3>1. keys <= faults + 1
      <4>1. CASE pc = "deleteKey" /\ cred \in accepted
        BY <1>b, <4>1 DEF IInv, KeysBacked
      <4>2. CASE ~(pc = "deleteKey" /\ cred \in accepted)
        BY <1>b, <4>2 DEF IInv, KeysBacked
      <4> QED
        BY <4>1, <4>2
    <3>2. CASE (pc = "deleteKey" /\ cred \in accepted)'
      BY <1>b, <2>1, <3>1, <3>2 DEF KeysBacked
    <3>3. CASE ~(pc = "deleteKey" /\ cred \in accepted)'
      BY <1>b, <2>1, <3>1, <3>3 DEF KeysBacked
    <3> QED
      BY <3>2, <3>3
  <2> QED
    BY <2>1, <2>2, CredentialsKept
    DEF IInv, CacheInSync, CopyInSync, SpecNamesSecret, HasSecret
<1>8. CASE ExpireKey
  <2>1. /\ pc # "deleteKey" /\ keys > 0 /\ keys' = keys - 1
        /\ UNCHANGED <<api, cache, stale, pc, cur, obj, conflict, faults, secrets, seen,
                       accepted, cred>>
    BY <1>8 DEF ExpireKey, cluster, worker, budgets, external
  <2>2. KeysBacked'
    BY <1>b, <2>1 DEF IInv, KeysBacked
  <2> QED
    BY <2>1, <2>2, CredentialsKept
    DEF IInv, CacheInSync, CopyInSync, SpecNamesSecret, HasSecret
<1>9. ASSUME NEW k \in Keys, Deliver(k) PROVE Goal
  <2>1. /\ k \in stale /\ cache' = [cache EXCEPT ![k] = api[k]] /\ stale' = stale \ {k}
        /\ UNCHANGED <<api, pc, cur, obj, conflict, faults, secrets, seen, accepted, keys, cred>>
    BY <1>9 DEF Deliver, WatchEvent, worker, budgets, external
  <2>2. CacheInSync' /\ SpecNamesSecret'
    BY <1>a, <2>1 DEF IInv, CacheInSync, SpecNamesSecret, HasSecret
  <2>3. CopyInSync'
    BY <2>1 DEF IInv, CopyInSync
  <2> QED
    BY <1>b, <1>c, <2>1, <2>2, <2>3, CredentialsKept, KeysKept
<1>10. ASSUME NEW k \in Keys, Fire(k) PROVE Goal
  <2>1. UNCHANGED <<api, cache, stale, pc, cur, obj, conflict, faults, secrets, seen, accepted,
                    keys, cred>>
    BY <1>10 DEF Fire, TimerFires, worker, budgets, external
  <2> QED
    BY <1>b, <1>c, <2>1, CredentialsKept, KeysKept
    DEF IInv, CacheInSync, CopyInSync, SpecNamesSecret, HasSecret
<1>11. ASSUME NEW n \in SecretNames, DeliverSecret(n) PROVE Goal
  <2>1. /\ seen' = [seen EXCEPT ![n] = secrets[n]]
        /\ UNCHANGED <<api, cache, stale, pc, cur, obj, conflict, faults, secrets, accepted,
                       keys, cred>>
    BY <1>11 DEF DeliverSecret, cluster, worker, budgets
  <2>2. ASSUME NEW m \in SecretNames \ Rotating PROVE seen'[m] \in {secrets'[m], None}
    BY <1>a, <2>1 DEF IInv, CredentialsOfSecret, TypeOK
  <2>3. CredentialsOfSecret'
    BY <2>1, <2>2 DEF IInv, CredentialsOfSecret
  <2>4. CacheInSync' /\ CopyInSync' /\ SpecNamesSecret'
    BY <2>1 DEF IInv, CacheInSync, CopyInSync, SpecNamesSecret, HasSecret
  <2>5. KeysBacked'
    BY <1>b, <1>c, <2>1, KeysKept
  <2> QED
    BY <2>3, <2>4, <2>5
<1>12. CASE Crash
  <2>1. /\ faults' = faults + 1 /\ cache' = api /\ stale' = {} /\ seen' = secrets
        /\ pc' = "idle" /\ cred' = None
        /\ UNCHANGED <<api, secrets, accepted, keys>>
    BY <1>12 DEF Crash, Restart, Fault, Release
  <2>2. CacheInSync' /\ CopyInSync' /\ SpecNamesSecret'
    BY <2>1 DEF IInv, CacheInSync, CopyInSync, SpecNamesSecret, HasSecret
  <2>3. CredentialsOfSecret'
    BY <2>1 DEF CredentialsOfSecret
  <2>4. keys <= faults + 1
    <3>1. CASE pc = "deleteKey" /\ cred \in accepted
      BY <1>b, <3>1 DEF IInv, KeysBacked
    <3>2. CASE ~(pc = "deleteKey" /\ cred \in accepted)
      BY <1>b, <3>2 DEF IInv, KeysBacked
    <3> QED
      BY <3>1, <3>2
  <2>5. KeysBacked'
    BY <1>b, <2>1, <2>4 DEF KeysBacked
  <2> QED
    BY <2>2, <2>3, <2>5
<1>13. ASSUME NEW k \in Keys, Reconcile(k) PROVE Goal
  <2>1. UNCHANGED <<api, cache, stale, faults, secrets, seen, accepted, keys, cred>>
    BY <1>13 DEF Reconcile, Begin, budgets, external
  <2>2. CASE UNCHANGED worker
    <3>1. UNCHANGED <<pc, cur, obj, conflict>>
      BY <2>2 DEF worker
    <3> QED
      BY <1>b, <1>c, <2>1, <3>1, CredentialsKept, KeysKept
      DEF IInv, CacheInSync, CopyInSync, SpecNamesSecret, HasSecret
  <2>3. CASE /\ cache[k].phase # "absent" /\ cur' = k /\ obj' = cache[k]
             /\ conflict' = (k \in stale) /\ pc' = FirstCall(cache[k])
    <3>1. pc = "idle" /\ pc' \in {"addFinalizer", "removeFinalizer", "getSecret"}
      BY <1>13, <2>3 DEF Reconcile, Begin, FirstCall
    <3>2. CacheInSync' /\ CopyInSync'
      BY <2>1, <2>3 DEF IInv, CacheInSync, CopyInSync
    <3>3. SpecNamesSecret'
      BY <2>1, <2>3 DEF IInv, SpecNamesSecret, HasSecret
    <3> QED
      BY <1>b, <1>c, <2>1, <3>1, <3>2, <3>3, CredentialsKept, KeysKept
  <2> QED
    BY <1>13, <2>2, <2>3 DEF Reconcile, Begin
<1>14. CASE AddFinalizer
  <2> DEFINE o == [api[cur] EXCEPT !.finalizer = TRUE]
  <2>1. cur \in Keys /\ pc = "addFinalizer"
    BY <1>a, <1>14, Busy DEF AddFinalizer
  <2>2. o \in ObjectType /\ HasSecret(o)
    BY <1>a, <2>1 DEF IInv, SpecNamesSecret, HasSecret, ObjectType
  <2>3. Done /\ UNCHANGED <<cache, external, keys>>
    BY <1>14 DEF AddFinalizer, Finish, FinishAndRequeue, ReleaseAndRequeue, Done
  <2>4. \/ \E applied \in BOOLEAN : Write(applied, o)
        \/ UNCHANGED <<api, stale>>
    BY <1>14 DEF AddFinalizer
  <2>5. faults' >= faults
    BY <1>14, <1>a, <1>c, OutcomeType DEF AddFinalizer
  <2> HIDE DEF o
  <2>6. CacheInSync' /\ CopyInSync' /\ SpecNamesSecret'
    BY <2>1, <2>2, <2>3, <2>4, WorkerWriteInv
  <2>7. CredentialsOfSecret' /\ KeysBacked'
    BY <1>b, <2>1, <2>3, <2>5, DoneSteps
  <2> QED
    BY <2>6, <2>7
<1>15. CASE GetSecret
  <2>1. /\ pc = "getSecret" /\ obj.spec.secret \in SecretNames
        /\ UNCHANGED <<api, cache, stale, faults, secrets, seen, accepted, keys>>
    BY <1>15 DEF GetSecret, budgets, external, IInv, SpecNamesSecret, SpecType
  <2>2. CASE /\ SecretOf(obj.spec) \in Credentials /\ pc' = "createKey"
             /\ cred' = SecretOf(obj.spec) /\ UNCHANGED <<cur, obj, conflict>>
    <3>1. CacheInSync' /\ CopyInSync' /\ SpecNamesSecret'
      BY <2>1, <2>2 DEF IInv, CacheInSync, CopyInSync, SpecNamesSecret, HasSecret
    <3>2. obj.spec.named /\ cred' = seen[obj.spec.secret]
      BY <2>2, CredentialsAssumption DEF SecretOf
    <3>3. obj.spec.secret \notin Rotating => secrets[obj.spec.secret] = cred'
      BY <2>1, <2>2, <3>2, CredentialsAssumption DEF IInv, CredentialsOfSecret
    <3>5. CredentialsOfSecret'
      BY <2>1, <2>2, <3>2, <3>3 DEF IInv, CredentialsOfSecret
    <3>4. KeysBacked'
      BY <1>b, <2>1, <2>2 DEF IInv, KeysBacked
    <3> QED
      BY <3>1, <3>5, <3>4
  <2>3. CASE FinishAndRequeue
    <3>1. Done
      BY <2>3 DEF FinishAndRequeue, ReleaseAndRequeue, Done
    <3>2. CacheInSync' /\ CopyInSync' /\ SpecNamesSecret'
      BY <2>1, <3>1, DoneType DEF IInv, CacheInSync, CopyInSync, SpecNamesSecret, HasSecret
    <3>3. CredentialsOfSecret' /\ KeysBacked'
      BY <1>15, <1>b, <1>c, <2>1, <3>1, DoneSteps DEF GetSecret
    <3> QED
      BY <3>2, <3>3
  <2> QED
    BY <1>15, <2>2, <2>3 DEF GetSecret
<1>16. CASE CreateKey
  <2>1. /\ pc = "createKey"
        /\ UNCHANGED <<api, cache, stale, secrets, seen, accepted>>
    BY <1>16 DEF CreateKey, external
  <2>2. keys <= faults
    BY <1>b, <2>1 DEF IInv, KeysBacked
  <2>3. CASE /\ cred \in accepted /\ keys' = keys + 1 /\ pc' = "deleteKey"
             /\ UNCHANGED <<cur, obj, conflict, cred, faults>>
    <3>1. CacheInSync' /\ CopyInSync' /\ SpecNamesSecret'
      BY <2>1, <2>3 DEF IInv, CacheInSync, CopyInSync, SpecNamesSecret, HasSecret
    <3>2. CredentialsOfSecret'
      BY <2>1, <2>3 DEF IInv, CredentialsOfSecret
    <3>3. KeysBacked'
      BY <1>b, <2>1, <2>2, <2>3 DEF KeysBacked
    <3> QED
      BY <3>1, <3>2, <3>3
  <2>4. CASE /\ FinishAndRequeue
             /\ \/ keys' = keys + 1 /\ faults' = faults + 1
                \/ keys' = keys /\ faults' \in {faults, faults + 1}
    <3>1. Done
      BY <2>4 DEF FinishAndRequeue, ReleaseAndRequeue, Done
    <3>2. CacheInSync' /\ CopyInSync' /\ SpecNamesSecret'
      BY <2>1, <3>1, DoneType DEF IInv, CacheInSync, CopyInSync, SpecNamesSecret, HasSecret
    <3>3. CredentialsOfSecret'
      BY <2>1, <3>1, DoneType DEF IInv, CredentialsOfSecret
    <3>4. keys' <= faults'
      <4>1. CASE keys' = keys + 1 /\ faults' = faults + 1
        BY <1>b, <2>2, <4>1
      <4>2. CASE keys' = keys /\ faults' = faults + 1
        BY <1>b, <2>2, <4>2
      <4>3. CASE keys' = keys /\ faults' = faults
        BY <1>b, <2>2, <4>3
      <4> QED
        BY <2>4, <4>1, <4>2, <4>3
    <3>5. KeysBacked'
      BY <1>b, <3>4, FaultsSuffice
    <3> QED
      BY <3>2, <3>3, <3>5
  <2> QED
    BY <1>16, <2>3, <2>4 DEF CreateKey, Fault
<1>17. CASE DeleteKey
  <2>1. /\ pc = "deleteKey" /\ pc' = "discover"
        /\ obj' = [obj EXCEPT !.status.authenticated = "True"]
        /\ UNCHANGED <<api, cache, stale, cur, conflict, secrets, seen, accepted, cred>>
    BY <1>17 DEF DeleteKey, cluster, external
  <2>2. obj'.phase = obj.phase /\ obj'.spec = obj.spec
    BY <1>a, <2>1 DEF ObjectType
  <2>3. CacheInSync' /\ CopyInSync' /\ SpecNamesSecret'
    BY <2>1, <2>2 DEF IInv, CacheInSync, CopyInSync, SpecNamesSecret, HasSecret
  <2>4. CredentialsOfSecret'
    BY <2>1, <2>2 DEF IInv, CredentialsOfSecret
  <2>5. keys' <= faults'
    <3>1. CASE cred \in accepted /\ keys' = keys - 1 /\ UNCHANGED faults
      BY <1>b, <2>1, <3>1 DEF IInv, KeysBacked
    <3>2. CASE cred \notin accepted /\ keys' = keys /\ faults' = faults
      BY <1>b, <2>1, <3>2 DEF IInv, KeysBacked
    <3>3. CASE keys' = keys /\ faults' = faults + 1
      <4>1. keys <= faults + 1
        <5>1. CASE cred \in accepted
          BY <1>b, <2>1, <5>1 DEF IInv, KeysBacked
        <5>2. CASE cred \notin accepted
          BY <1>b, <2>1, <5>2 DEF IInv, KeysBacked
        <5> QED
          BY <5>1, <5>2
      <4> QED
        BY <3>3, <4>1
    <3> QED
      BY <1>17, <3>1, <3>2, <3>3 DEF DeleteKey, Fault
  <2>6. KeysBacked'
    BY <1>b, <2>1, <2>5 DEF KeysBacked
  <2> QED
    BY <2>3, <2>4, <2>6
<1>18. CASE Discover
  <2>1. /\ pc = "discover" /\ pc' = "status"
        /\ UNCHANGED <<api, cache, stale, cur, conflict, secrets, seen, accepted, keys, cred>>
    BY <1>18 DEF Discover, cluster, external
  <2>2. /\ obj'.phase = obj.phase /\ obj'.spec = obj.spec
        /\ \/ obj'.status.validated = "False"
           \/ HasDevice(cred) /\ obj'.status.domain = Discovered(cred)
    <3> DEFINE found == [obj.status EXCEPT !.validated = "True", !.ready = "True",
                                           !.domain = Discovered(cred)]
               failed == [obj.status EXCEPT !.validated = "False", !.ready = "True"]
    <3>1. /\ [obj EXCEPT !.status = found].phase = obj.phase
          /\ [obj EXCEPT !.status = found].spec = obj.spec
          /\ [obj EXCEPT !.status = found].status.domain = Discovered(cred)
      BY <1>a DEF ObjectType, StatusType
    <3>2. /\ [obj EXCEPT !.status = failed].phase = obj.phase
          /\ [obj EXCEPT !.status = failed].spec = obj.spec
          /\ [obj EXCEPT !.status = failed].status.validated = "False"
      BY <1>a DEF ObjectType, StatusType
    <3>3. \/ HasDevice(cred) /\ obj' = [obj EXCEPT !.status = found]
          \/ obj' = [obj EXCEPT !.status = failed]
      BY <1>18, <1>a DEF Discover, ObjectType
    <3> HIDE DEF found, failed
    <3> QED
      BY <3>1, <3>2, <3>3
  <2>3. CacheInSync' /\ CopyInSync' /\ SpecNamesSecret'
    BY <2>1, <2>2 DEF IInv, CacheInSync, CopyInSync, SpecNamesSecret, HasSecret
  <2>4. CredentialsOfSecret'
    <3>1. cred \in Credentials /\ obj.spec.named
      BY <2>1 DEF IInv, CredentialsOfSecret
    <3>2. HasDevice(cred) => Discovered(cred) \in DomainsOf(cred)
      BY <1>a, <3>1, DomainType DEF TypeOK
    <3> QED
      BY <2>1, <2>2, <3>1, <3>2 DEF IInv, CredentialsOfSecret
  <2>5. faults' >= faults
    BY <1>18, <1>a, FaultType DEF Discover
  <2>6. KeysBacked'
    BY <1>b, <2>1, <2>5, KeysKept
  <2> QED
    BY <2>3, <2>4, <2>6
<1>19. CASE UpdateStatus
  <2> DEFINE o == [api[cur] EXCEPT !.status = obj.status]
  <2>1. cur \in Keys /\ pc = "status"
    BY <1>a, <1>19, Busy DEF UpdateStatus
  <2>2. o \in ObjectType /\ HasSecret(o)
    BY <1>a, <2>1 DEF IInv, SpecNamesSecret, HasSecret, ObjectType
  <2>3. Done /\ UNCHANGED <<cache, external, keys>>
    BY <1>19 DEF UpdateStatus, FinishAndRequeue, ReleaseAndRequeue, Done
  <2>4. PICK applied \in BOOLEAN : (\E ok \in BOOLEAN : Outcome(applied, ok)) /\ Write(applied, o)
    BY <1>19 DEF UpdateStatus
  <2> HIDE DEF o
  <2>5. CacheInSync' /\ CopyInSync' /\ SpecNamesSecret'
    BY <2>1, <2>2, <2>3, <2>4, WorkerWriteInv
  <2>6. CredentialsOfSecret' /\ KeysBacked'
    BY <1>a, <1>b, <2>1, <2>3, <2>4, OutcomeType, DoneSteps
  <2> QED
    BY <2>5, <2>6
<1>20. CASE RemoveFinalizer
  <2> DEFINE o == IF api[cur].foreign THEN [api[cur] EXCEPT !.finalizer = FALSE] ELSE NoObject
  <2>1. cur \in Keys /\ pc = "removeFinalizer"
    BY <1>a, <1>20, Busy DEF RemoveFinalizer
  <2>2. o \in ObjectType /\ HasSecret(o)
    BY <1>a, <2>1, ConstantTypes DEF IInv, SpecNamesSecret, HasSecret, ObjectType, NoObject
  <2>3. Done /\ UNCHANGED <<cache, external, keys>>
    BY <1>20 DEF RemoveFinalizer, Finish, FinishAndRequeue, ReleaseAndRequeue, Done
  <2>4. PICK applied \in BOOLEAN : (\E ok \in BOOLEAN : Outcome(applied, ok)) /\ Write(applied, o)
    BY <1>20 DEF RemoveFinalizer
  <2> HIDE DEF o
  <2>5. CacheInSync' /\ CopyInSync' /\ SpecNamesSecret'
    BY <2>1, <2>2, <2>3, <2>4, WorkerWriteInv
  <2>6. CredentialsOfSecret' /\ KeysBacked'
    BY <1>a, <1>b, <2>1, <2>3, <2>4, OutcomeType, DoneSteps
  <2> QED
    BY <2>5, <2>6
<1>21. CASE UNCHANGED vars
  <2>1. UNCHANGED <<api, cache, stale, pc, cur, obj, conflict, faults, secrets, seen, accepted,
                    keys, cred>>
    BY <1>21 DEF vars, cluster, worker, budgets, external
  <2> QED
    BY <1>b, <1>c, <2>1, CredentialsKept, KeysKept
    DEF IInv, CacheInSync, CopyInSync, SpecNamesSecret, HasSecret
<1> QED
  BY <1>1, <1>2, <1>3, <1>4, <1>5, <1>6, <1>7, <1>8, <1>9, <1>10, <1>11, <1>12, <1>13,
     <1>14, <1>15, <1>16, <1>17, <1>18, <1>19, <1>20, <1>21 DEF Next, WorkerStep

(* The inductive invariant: how caches, the worker's copy, the credentials *)
(* in use and the keys in the tailnets hang together.                      *)
THEOREM TailnetInvariant == Spec => []IInv
BY InvInit, InvNext, PTL DEF Spec

(* However passes, crashes and revocations interleave, no more validation  *)
(* keys are left than faults happened.                                     *)
THEOREM KeysAreAccountedFor == Spec => []KeysAccountedFor
<1>1. ASSUME IInv PROVE KeysAccountedFor
  <2>1. keys \in Nat /\ faults \in Nat
    BY <1>1, BoundAssumption DEF IInv, TypeOK, RuntimeTypeOK
  <2>2. CASE pc = "deleteKey" /\ cred \in accepted
    BY <1>1, <2>1, <2>2 DEF IInv, KeysBacked, KeysAccountedFor
  <2>3. CASE pc = "deleteKey" /\ cred \notin accepted
    BY <1>1, <2>1, <2>3 DEF IInv, KeysBacked, KeysAccountedFor
  <2>4. CASE pc # "deleteKey"
    BY <1>1, <2>1, <2>4 DEF IInv, KeysBacked, KeysAccountedFor
  <2> QED
    BY <2>2, <2>3, <2>4
<1> QED
  BY <1>1, TailnetInvariant, PTL

(* Who changes the status of an object: the user who creates it, whoever   *)
(* lets it go, and UpdateStatus.                                           *)
LEMMA WhoWritesStatus ==
    ASSUME TypeOK, Next, NEW k \in Keys, api'[k].status # api[k].status
    PROVE  \/ api'[k].status = NewStatus
           \/ /\ k = cur /\ pc = "status" /\ Fresh /\ UNCHANGED secrets
              /\ api'[k].status = obj.status /\ api'[k].spec = api[k].spec
<1> DEFINE New == api'[k].status = NewStatus
           Published == /\ k = cur /\ pc = "status" /\ Fresh /\ UNCHANGED secrets
                        /\ api'[k].status = obj.status /\ api'[k].spec = api[k].spec
<1> SUFFICES New \/ Published
  OBVIOUS
<1>a. api \in [Keys -> ObjectType] /\ obj \in ObjectType /\ api[k] \in ObjectType
  BY DEF TypeOK, RuntimeTypeOK
<1>b. NoObject.status = NewStatus
  BY DEF NoObject
<1>c. api' # api
  OBVIOUS
<1>1. ASSUME NEW j \in Keys, NEW sp \in Specs, NEW foreign \in BOOLEAN,
             Create(j, sp, foreign)
      PROVE  New
  <2>1. [NoObject EXCEPT !.phase = "live", !.spec = sp, !.foreign = foreign].status = NewStatus
    BY DEF NoObject
  <2> QED
    BY <1>1, <1>a, <2>1 DEF Create, UserWrite
<1>2. ASSUME NEW j \in Keys, NEW sp \in Specs, Edit(j, sp) PROVE FALSE
  BY <1>2, <1>a DEF Edit, UserWrite, ObjectType
<1>3. ASSUME NEW j \in Keys, Delete(j) PROVE New
  BY <1>3, <1>a, <1>b DEF Delete, UserWrite, ObjectType
<1>4. ASSUME NEW j \in Keys, DropForeign(j) PROVE New
  BY <1>4, <1>a, <1>b DEF DropForeign, ObjectType
<1>5. ASSUME NEW j \in Keys PROVE ~Deliver(j) /\ ~Fire(j) /\ ~Reconcile(j)
  BY <1>c DEF Deliver, WatchEvent, Fire, TimerFires, Reconcile, Begin
<1>6. ASSUME NEW n \in SecretNames
      PROVE  ~DeliverSecret(n) /\ \A v \in Contents : ~ChangeSecret(n, v)
  BY <1>c DEF DeliverSecret, ChangeSecret, cluster
<1>7. ~ChangeDevices
  BY <1>c DEF ChangeDevices, cluster
<1>8. ASSUME NEW c \in Credentials PROVE ~Revoke(c)
  BY <1>c DEF Revoke, cluster
<1>9. ~ExpireKey /\ ~Crash /\ ~GetSecret /\ ~CreateKey /\ ~DeleteKey /\ ~Discover
  BY <1>c DEF ExpireKey, Crash, Restart, GetSecret, CreateKey, DeleteKey, Discover, cluster
<1>10. ~AddFinalizer
  <2>1. ASSUME api' = [api EXCEPT ![cur] = [api[cur] EXCEPT !.finalizer = TRUE]] PROVE FALSE
    BY <1>a, <2>1 DEF ObjectType
  <2> QED
    BY <1>c, <2>1 DEF AddFinalizer, Write
<1>11. CASE UpdateStatus
  <2>1. /\ pc = "status" /\ Fresh /\ UNCHANGED secrets
        /\ api' = [api EXCEPT ![cur] = [api[cur] EXCEPT !.status = obj.status]]
    BY <1>11, <1>c DEF UpdateStatus, Write, Outcome, external
  <2>2. k = cur
    BY <1>a, <2>1
  <2>3. api'[k] = [api[k] EXCEPT !.status = obj.status]
    BY <1>a, <2>1, <2>2
  <2> QED
    BY <1>a, <2>1, <2>2, <2>3 DEF ObjectType
<1>12. CASE RemoveFinalizer
  <2> DEFINE o == IF api[cur].foreign THEN [api[cur] EXCEPT !.finalizer = FALSE] ELSE NoObject
  <2>1. api' = [api EXCEPT ![cur] = o]
    BY <1>12, <1>c DEF RemoveFinalizer, Write
  <2>2. k = cur /\ api'[k] = o
    BY <1>a, <2>1
  <2> QED
    BY <1>a, <1>b, <2>2 DEF ObjectType
<1> HIDE DEF New, Published
<1> QED
  <2>1. ASSUME WorkerStep PROVE New \/ Published
    BY <2>1, <1>9, <1>10, <1>11, <1>12 DEF WorkerStep
  <2> QED
    BY <1>1, <1>2, <1>3, <1>4, <1>5, <1>6, <1>7, <1>8, <1>9, <2>1 DEF Next

(* A status that says the tailnet is validated names the tailnet of the    *)
(* secret in the spec it is written for, although the secret and the spec  *)
(* were read several calls before; it names none only for a tailnet where  *)
(* a device may have a name without a domain.                              *)
THEOREM DomainIsOfNamedSecret == Spec => DomainOfNamedSecret
<1> DEFINE A == \A k \in Keys : DomainWritten(k) => OfNamedSecret(api'[k])
<1>1. ASSUME IInv, [Next]_vars PROVE [A]_vars
  <2> SUFFICES ASSUME Next, NEW k \in Keys, DomainWritten(k) PROVE OfNamedSecret(api'[k])
    BY <1>1 DEF A
  <2>1. NewStatus.validated # "True"
    BY DEF NewStatus
  <2>2. /\ k = cur /\ pc = "status" /\ Fresh
        /\ api'[k].status = obj.status /\ api'[k].spec = api[k].spec
    BY <1>1, <2>1, WhoWritesStatus DEF IInv, DomainWritten
  <2>3. obj.spec = api[k].spec
    BY <1>1, <2>2 DEF IInv, CopyInSync, Fresh
  <2> QED
    BY <1>1, <2>2, <2>3 DEF IInv, CredentialsOfSecret, DomainWritten, OfNamedSecret
<1> QED
  BY <1>1, TailnetInvariant, PTL DEF Spec, DomainOfNamedSecret
=============================================================================
