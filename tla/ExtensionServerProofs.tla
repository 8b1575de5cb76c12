----------------------- MODULE ExtensionServerProofs -----------------------
(***************************************************************************)
(* The lock of the extension server, for any number of calls, routes and   *)
(* gateways: who is inside owns it, the registry stands still under a      *)
(* call, and a call that meets a route is stuck for good.                  *)
(***************************************************************************)
EXTENDS ExtensionServer, TLAPS

(* Type correctness alone: every action keeps the variables in their sets. *)
THEOREM ExtensionTypeCorrect == Spec => []TypeOK
<1>1. Init => TypeOK
  BY BoundAssumption DEF Init, TypeOK, LastKind
<1>2. TypeOK /\ [Next]_vars => TypeOK'
  <2> SUFFICES ASSUME TypeOK, [Next]_vars PROVE TypeOK'
    OBVIOUS
  <2> USE DEF TypeOK, LastKind, cluster, call, refresher
  <2>1. CASE ChangeRoutes
    BY <2>1, BoundAssumption DEF ChangeRoutes
  <2>2. CASE ChangeGateways
    BY <2>2, BoundAssumption DEF ChangeGateways
  <2>3. ASSUME NEW c \in Callers, Call(c) PROVE TypeOK'
    BY <2>3 DEF Call
  <2>4. ASSUME NEW c \in Callers, Lock(c) PROVE TypeOK'
    BY <2>4 DEF Lock
  <2>5. ASSUME NEW c \in Callers, ListRoutes(c) PROVE TypeOK'
    <3>1. faults' \in 0..MaxFaults
      BY <2>5, BoundAssumption DEF ListRoutes, ListFails
    <3>2. pending' \in [Callers -> SUBSET Routes]
      BY <2>5 DEF ListRoutes
    <3> QED
      BY <2>5, <3>1, <3>2 DEF ListRoutes
  <2>6. ASSUME NEW c \in Callers, ProcessRoute(c) PROVE TypeOK'
    <3>1. pending' \in [Callers -> SUBSET Routes] /\ injected' \in [Callers -> SUBSET Routes]
      BY <2>6 DEF ProcessRoute
    <3> QED
      BY <2>6, <3>1 DEF ProcessRoute
  <2>7. ASSUME NEW c \in Callers, NextKind(c) PROVE TypeOK'
    BY <2>7 DEF NextKind
  <2>8. ASSUME NEW c \in Callers, Unlock(c) PROVE TypeOK'
    BY <2>8 DEF Unlock
  <2>9. CASE ListGateways
    BY <2>9, BoundAssumption DEF ListGateways, ListFails
  <2>10. CASE LockRegistry
    BY <2>10 DEF LockRegistry
  <2>11. CASE UpdateRegistry
    BY <2>11 DEF UpdateRegistry, RegistryKeys
  <2>12. CASE UNCHANGED vars
    BY <2>12 DEF vars
  <2> QED
    BY <2>1, <2>2, <2>3, <2>4, <2>5, <2>6, <2>7, <2>8, <2>9, <2>10, <2>11, <2>12
    DEF Next, CallStep, RefreshStep
<1> QED
  BY <1>1, <1>2, PTL DEF Spec

(* Lock() and the deferred Unlock() bracket a call, and the refresher's    *)
(* update: the lock has one owner, and as every call owns it while it      *)
(* processes routes, its own RLock never succeeds and nothing is injected. *)
THEOREM LockInvariant == Spec => []LockInv
<1>1. Init => OwnsLock /\ NothingInjected
  BY IdentityAssumption DEF Init, OwnsLock, NothingInjected, Inside
<1>2. /\ TypeOK /\ OwnsLock /\ NothingInjected /\ [Next]_vars
      => OwnsLock' /\ NothingInjected'
  <2> SUFFICES ASSUME TypeOK, OwnsLock, NothingInjected, [Next]_vars
               PROVE  OwnsLock' /\ NothingInjected'
    OBVIOUS
  <2> USE IdentityAssumption DEF TypeOK, OwnsLock, NothingInjected, Inside, cluster, call, refresher
  <2>1. CASE ChangeRoutes
    BY <2>1 DEF ChangeRoutes
  <2>2. CASE ChangeGateways
    BY <2>2 DEF ChangeGateways
  <2>3. ASSUME NEW c \in Callers, Call(c) PROVE OwnsLock' /\ NothingInjected'
    BY <2>3 DEF Call
  <2>4. ASSUME NEW c \in Callers, Lock(c) PROVE OwnsLock' /\ NothingInjected'
    BY <2>4 DEF Lock
  <2>5. ASSUME NEW c \in Callers, ListRoutes(c) PROVE OwnsLock' /\ NothingInjected'
    BY <2>5 DEF ListRoutes
  <2>6. ASSUME NEW c \in Callers, ProcessRoute(c) PROVE OwnsLock' /\ NothingInjected'
    <3>1. writer = c
      BY <2>6 DEF ProcessRoute
    <3>2. pc' = [pc EXCEPT ![c] = "blocked"] /\ UNCHANGED injected
      BY <2>6, <3>1 DEF ProcessRoute
    <3> QED
      BY <2>6, <3>1, <3>2 DEF ProcessRoute
  <2>7. ASSUME NEW c \in Callers, NextKind(c) PROVE OwnsLock' /\ NothingInjected'
    BY <2>7 DEF NextKind
  <2>8. ASSUME NEW c \in Callers, Unlock(c) PROVE OwnsLock' /\ NothingInjected'
    BY <2>8 DEF Unlock
  <2>9. CASE ListGateways
    BY <2>9 DEF ListGateways
  <2>10. CASE LockRegistry
    BY <2>10 DEF LockRegistry
  <2>11. CASE UpdateRegistry
    BY <2>11 DEF UpdateRegistry
  <2>12. CASE UNCHANGED vars
    BY <2>12 DEF vars
  <2> QED
    BY <2>1, <2>2, <2>3, <2>4, <2>5, <2>6, <2>7, <2>8, <2>9, <2>10, <2>11, <2>12
    DEF Next, CallStep, RefreshStep
<1> QED
  BY <1>1, <1>2, ExtensionTypeCorrect, PTL DEF Spec, LockInv

(* Between its Lock and its Unlock a call owns mu, and so does the         *)
(* refresher: at most one of them is inside.                               *)
THEOREM LockOwned == Spec => []OwnsLock
BY LockInvariant, PTL DEF LockInv

(* No call ever adds a cluster, whatever the routes and gateways are.      *)
THEOREM NeverInjects == Spec => []NothingInjected
BY LockInvariant, PTL DEF LockInv

(* Only the refresher writes gatewayRegistry, and only with mu held.       *)
THEOREM RegistryIsStable == Spec => RegistryStableDuringCall
<1>1. LockInv /\ [Next]_vars => [\A c \in Callers : Inside(c) => registry' = registry]_vars
  <2> SUFFICES ASSUME LockInv, [Next]_vars, NEW c \in Callers, Inside(c)
               PROVE  registry' = registry
    OBVIOUS
  <2>1. refresh # "update"
    BY IdentityAssumption DEF LockInv, OwnsLock
  <2>2. \/ UNCHANGED registry
        \/ UpdateRegistry
    BY DEF Next, CallStep, RefreshStep, vars, refresher, ChangeRoutes, ChangeGateways, Call,
           Lock, ListRoutes, ProcessRoute, NextKind, Unlock, ListGateways, LockRegistry
  <2> QED
    BY <2>1, <2>2 DEF UpdateRegistry
<1> QED
  BY <1>1, LockInvariant, PTL DEF Spec, RegistryStableDuringCall

(* What a call blocked in its own RLock does to the server: it stays, the  *)
(* registry stays, and no other call gets past Lock.                       *)
THEOREM BlockedStaysBlocked == Spec => BlockedForGood
<1> DEFINE Stuck == \A c \in Callers : pc[c] = "blocked" =>
                       /\ pc'[c] = "blocked"
                       /\ registry' = registry
                       /\ \A d \in Callers \ {c} : ~Inside(d)'
<1>1. LockInv /\ LockInv' /\ [Next]_vars => [Stuck]_vars
  <2> SUFFICES ASSUME LockInv, LockInv', [Next]_vars, NEW c \in Callers, pc[c] = "blocked"
               PROVE  /\ pc'[c] = "blocked"
                      /\ registry' = registry
                      /\ \A d \in Callers \ {c} : ~Inside(d)'
    OBVIOUS
  <2>1. writer = c /\ refresh # "update" /\ \A d \in Callers \ {c} : ~Inside(d)
    BY IdentityAssumption DEF LockInv, OwnsLock, Inside
  <2>2. pc'[c] = "blocked" /\ registry' = registry
    <3> USE <2>1 DEF LockInv, TypeOK, Inside, call, refresher
    <3>1. CASE ChangeRoutes \/ ChangeGateways \/ UNCHANGED vars
      BY <3>1 DEF ChangeRoutes, ChangeGateways, vars
    <3>2. ASSUME NEW d \in Callers, Call(d)
          PROVE  pc'[c] = "blocked" /\ registry' = registry
      BY <3>2 DEF Call
    <3>3. ASSUME NEW d \in Callers, CallStep(d)
          PROVE  pc'[c] = "blocked" /\ registry' = registry
      BY <3>3, IdentityAssumption
      DEF CallStep, Lock, ListRoutes, ProcessRoute, NextKind, Unlock
    <3>4. CASE RefreshStep
      BY <3>4, IdentityAssumption DEF RefreshStep, ListGateways, LockRegistry, UpdateRegistry
    <3> QED
      BY <3>1, <3>2, <3>3, <3>4 DEF Next
  <2>3. writer' = c
    BY <2>2 DEF LockInv, OwnsLock, Inside
  <2> QED
    BY <2>2, <2>3 DEF LockInv, OwnsLock, Inside
<1> QED
  BY <1>1, LockInvariant, PTL DEF Spec, BlockedForGood
=============================================================================
