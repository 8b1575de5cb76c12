------------------------ MODULE ClientManagerProofs ------------------------
(***************************************************************************)
(* The client cache, for any number of calls, tailnets and secrets and     *)
(* every MaxAge and MaxIdle: its lock, and what a caller may count on.     *)
(***************************************************************************)
EXTENDS ClientManagerProperties, TLAPS

(* What returning a client does to the types of the cache. *)
LEMMA ReturnTypes ==
    ASSUME TypeOK, NEW p \in Calls, NEW e \in Entry, NEW o \in Outside, Return(p, e, o)
    PROVE  /\ pc' \in [Calls -> Outside \cup {"rlock", "compare", "lock", "recheck", "get", "secret"}]
           /\ since' \in [Calls -> [time : Times, rv : Versions]]
           /\ clients' \in [Tailnets -> Entry \cup {None}]
           /\ handed' \in [Tailnets -> Times] /\ removed' \in [Tailnets -> Versions]
<1>1. [e EXCEPT !.used = now] \in Entry
  BY DEF Entry, TypeOK
<1>2. [time |-> 0, rv |-> 0] \in [time : Times, rv : Versions]
  BY BoundAssumption DEF Times, Versions
<1> QED
  BY <1>1, <1>2 DEF Return, Leave, Goto, TypeOK

LEMMA ErrorTypes ==
    ASSUME TypeOK, NEW p \in Calls, ReturnError(p)
    PROVE  /\ pc' \in [Calls -> Outside \cup {"rlock", "compare", "lock", "recheck", "get", "secret"}]
           /\ since' \in [Calls -> [time : Times, rv : Versions]]
           /\ UNCHANGED cache
<1>1. [time |-> 0, rv |-> 0] \in [time : Times, rv : Versions]
  BY BoundAssumption DEF Times, Versions
<1> QED
  BY <1>1 DEF ReturnError, Leave, Goto, TypeOK, Outside

LEMMA FaultTypes ==
    ASSUME TypeOK, NEW x, GetFails(x) \/ GetReturns(x)
    PROVE  faults' \in 0..MaxFaults
BY BoundAssumption DEF TypeOK, GetFails, GetReturns, Fault

LEMMA ChangeTypes ==
    ASSUME TypeOK, Change PROVE changes' = changes + 1 /\ changes' \in Versions
BY BoundAssumption DEF TypeOK, Change, Versions

(* A call that looks at a client finds one. *)
LEMMA ClientTypes ==
    ASSUME TypeOK, LockInv, NEW p \in Calls, pc[p] \in {"compare", "recheck"}
    PROVE  Client(p) \in Entry
BY DEF TypeOK, LockInv, Client

LEMMA TouchedClient ==
    ASSUME TypeOK, NEW e \in Entry PROVE [e EXCEPT !.used = now] \in Entry
BY DEF Entry, TypeOK

(* shouldRefreshClient, with either outcome. *)
LEMMA DecideTypes ==
    ASSUME TypeOK, LockInv, NEW p \in Calls, pc[p] \in {"compare", "recheck"},
           Keep(p) \/ Refresh(p, "lock") \/ Refresh(p, "get")
    PROVE  /\ pc' \in [Calls -> Outside \cup {"rlock", "compare", "lock", "recheck", "get", "secret"}]
           /\ since' \in [Calls -> [time : Times, rv : Versions]]
           /\ clients' \in [Tailnets -> Entry \cup {None}]
           /\ handed' \in [Tailnets -> Times] /\ removed' \in [Tailnets -> Versions]
           /\ faults' \in 0..MaxFaults
<1>1. Client(p) \in Entry
  BY ClientTypes
<1>2. CASE Keep(p)
  <2>1. \E o \in Outside : Return(p, Client(p), o)
    BY <1>2 DEF Keep, Outside
  <2> QED
    BY <1>1, <1>2, <2>1, ReturnTypes, FaultTypes DEF Keep
<1>3. CASE Refresh(p, "lock") \/ Refresh(p, "get")
  BY <1>3, FaultTypes DEF Refresh, Goto, TypeOK, cache
<1> QED
  BY <1>2, <1>3

(* Every action keeps the variables in their sets. *)
LEMMA TypeStep == TypeOK /\ LockInv /\ [Next]_vars => TypeOK'
<1> SUFFICES ASSUME TypeOK, LockInv, [Next]_vars PROVE TypeOK'
  OBVIOUS
<1> USE DEF cluster, cache, call
<1>1. CASE Tick
  BY <1>1, BoundAssumption DEF Tick, TypeOK, Times
<1>2. ASSUME NEW t \in Tailnets, ChangeTailnet(t) PROVE TypeOK'
  <2>1. changes' \in Versions
    BY <1>2, ChangeTypes DEF ChangeTailnet
  <2>2. tailnets' \in [Tailnets -> Tailnet \cup {None}]
    BY <1>2, <2>1 DEF ChangeTailnet, TypeOK, Tailnet
  <2> QED
    BY <1>2, <2>1, <2>2 DEF ChangeTailnet, TypeOK
<1>3. ASSUME NEW r \in Refs, ChangeSecret(r) PROVE TypeOK'
  <2>1. changes' \in Versions
    BY <1>3, ChangeTypes DEF ChangeSecret
  <2>2. secrets' \in [Refs -> Creds \cup {None}] /\ held' \in [Refs -> [Creds -> Times]]
    BY <1>3 DEF ChangeSecret, TypeOK
  <2> QED
    BY <1>3, <2>1, <2>2 DEF ChangeSecret, TypeOK
<1>4. ASSUME NEW T \in SUBSET Tailnets, Remove(T) PROVE TypeOK'
  <2>1. changes' \in Versions
    BY <1>4, ChangeTypes DEF Remove
  <2>2. /\ clients' \in [Tailnets -> Entry \cup {None}]
        /\ handed' \in [Tailnets -> Times] /\ removed' \in [Tailnets -> Versions]
    BY <1>4, <2>1, BoundAssumption DEF Remove, Forget, TypeOK, Times
  <2> QED
    BY <1>4, <2>1, <2>2 DEF Remove, TypeOK
<1>5. CASE PerformCleanup
  <2>1. clients' \in [Tailnets -> Entry \cup {None}] /\ handed' \in [Tailnets -> Times]
    BY <1>5, BoundAssumption DEF PerformCleanup, Forget, TypeOK, Times
  <2> QED
    BY <1>5, <2>1 DEF PerformCleanup, TypeOK
<1>6. ASSUME NEW p \in Calls, Call(p) PROVE TypeOK'
  <2>1. since' \in [Calls -> [time : Times, rv : Versions]] /\ named' \in [Calls -> Tailnets]
    BY <1>6, BoundAssumption DEF Call, TypeOK, Tailnet, Versions
  <2> QED
    BY <1>6, <2>1 DEF Call, Goto, TypeOK
<1>7. ASSUME NEW p \in Calls, RLock(p) PROVE TypeOK'
  BY <1>7 DEF RLock, Goto, TypeOK
<1>8. ASSUME NEW p \in Calls, Compare(p) PROVE TypeOK'
  BY <1>8, DecideTypes DEF Compare, TypeOK
<1>9. ASSUME NEW p \in Calls, Lock(p) PROVE TypeOK'
  BY <1>9 DEF Lock, Goto, TypeOK
<1>10. ASSUME NEW p \in Calls, Recheck(p) PROVE TypeOK'
  BY <1>10, DecideTypes DEF Recheck, TypeOK
<1>11. ASSUME NEW p \in Calls, GetTailnet(p) PROVE TypeOK'
  <2>1. faults' \in 0..MaxFaults
    BY <1>11, FaultTypes DEF GetTailnet
  <2>2. CASE ReturnError(p) /\ writer' = Nobody /\ UNCHANGED read
    BY <1>11, <2>1, <2>2, ErrorTypes DEF GetTailnet, TypeOK
  <2>3. CASE /\ GetReturns(tailnets[named[p]])
             /\ read' = [read EXCEPT ![p] = tailnets[named[p]]]
             /\ Goto(p, "secret") /\ UNCHANGED <<writer, cache, since>>
    <3>1. read' \in [Calls -> Tailnet \cup {None}]
      BY <2>3 DEF TypeOK
    <3> QED
      BY <1>11, <2>1, <2>3, <3>1 DEF GetTailnet, Goto, TypeOK
  <2> QED
    BY <1>11, <2>2, <2>3 DEF GetTailnet
<1>12. ASSUME NEW p \in Calls, GetSecret(p) PROVE TypeOK'
  <2> DEFINE cred == secrets[read[p].ref]
             e == NewClient(read[p])
  <2>1. faults' \in 0..MaxFaults
    BY <1>12, FaultTypes DEF GetSecret
  <2>2. read' \in [Calls -> Tailnet \cup {None}]
    BY <1>12 DEF GetSecret, TypeOK
  <2>3. CASE GetReturns(cred) /\ Return(p, e, "current")
    <3>1. read[p] \in Tailnet
      BY <1>12 DEF GetSecret, LockInv, TypeOK
    <3>2. e \in Entry
      BY <1>12, <2>3, <3>1 DEF NewClient, GetReturns, TypeOK, Tailnet, Entry
    <3>3. "current" \in Outside
      BY DEF Outside
    <3> HIDE DEF e
    <3> QED
      BY <1>12, <2>1, <2>2, <2>3, <3>2, <3>3, ReturnTypes DEF GetSecret, TypeOK
  <2>4. CASE ReturnError(p)
    BY <1>12, <2>1, <2>2, <2>4, ErrorTypes DEF GetSecret, TypeOK
  <2> QED
    BY <1>12, <2>3, <2>4 DEF GetSecret
<1>13. CASE UNCHANGED vars
  BY <1>13 DEF vars, TypeOK
<1> QED
  BY <1>1, <1>2, <1>3, <1>4, <1>5, <1>6, <1>7, <1>8, <1>9, <1>10, <1>11, <1>12, <1>13
  DEF Next, CallStep

(***************************************************************************)
(* The lock.  Who does not hold it changes neither the cache nor whether   *)
(* another call holds it.                                                  *)
(***************************************************************************)
LEMMA LockStep == TypeOK /\ LockInv /\ [Next]_vars => LockInv'
<1> SUFFICES ASSUME TypeOK, LockInv, [Next]_vars PROVE LockInv'
  OBVIOUS
<1> USE NobodyAssumption, NoneAssumption DEF LockInv, Writing, Client, cluster, cache, call
<1>1. CASE Tick
  BY <1>1 DEF Tick
<1>2. ASSUME NEW t \in Tailnets, ChangeTailnet(t) PROVE LockInv'
  BY <1>2 DEF ChangeTailnet
<1>3. ASSUME NEW r \in Refs, ChangeSecret(r) PROVE LockInv'
  BY <1>3 DEF ChangeSecret
<1>4. ASSUME NEW T \in SUBSET Tailnets, Remove(T) PROVE LockInv'
  BY <1>4 DEF Remove, Free, TypeOK
<1>5. CASE PerformCleanup
  BY <1>5 DEF PerformCleanup, Free, TypeOK
<1>6. ASSUME NEW p \in Calls, Call(p) PROVE LockInv'
  BY <1>6 DEF Call, Goto, TypeOK, Outside
<1>7. ASSUME NEW p \in Calls, RLock(p) PROVE LockInv'
  BY <1>7 DEF RLock, Goto, TypeOK
<1>8. ASSUME NEW p \in Calls, Compare(p) PROVE LockInv'
  <2>1. CASE \E o \in {"current", "kept"} : Return(p, Client(p), o)
    <3>1. clients' \in [Tailnets -> Entry \cup {None}] /\ clients'[named[p]] # None
      BY <1>8, <2>1, ClientTypes, TouchedClient DEF Compare, Return, TypeOK
    <3>2. \A q \in Calls : Client(q) # None => Client(q)' # None
      BY <1>8, <2>1, <3>1 DEF Compare, Return, TypeOK
    <3> QED
      BY <1>8, <2>1, <3>2 DEF Compare, Return, Leave, Goto, TypeOK
  <2>2. CASE Refresh(p, "lock")
    BY <1>8, <2>2 DEF Compare, Refresh, Goto, TypeOK
  <2> QED
    BY <1>8, <2>1, <2>2 DEF Compare, Keep
<1>9. ASSUME NEW p \in Calls, Lock(p) PROVE LockInv'
  BY <1>9 DEF Lock, Free, Goto, TypeOK
<1>10. ASSUME NEW p \in Calls, Recheck(p) PROVE LockInv'
  <2>1. ASSUME NEW o \in {"current", "kept"}, Return(p, Client(p), o), writer' = Nobody
        PROVE  LockInv'
    <3>1. pc' = [pc EXCEPT ![p] = o]
      BY <2>1 DEF Return, Leave, Goto
    <3> QED
      BY <1>10, <2>1, <3>1 DEF Recheck, TypeOK
  <2>2. CASE Refresh(p, "get") /\ UNCHANGED writer
    BY <1>10, <2>2 DEF Recheck, Refresh, Goto, TypeOK
  <2> QED
    BY <1>10, <2>1, <2>2 DEF Recheck, Keep
<1>11. ASSUME NEW p \in Calls, GetTailnet(p) PROVE LockInv'
  <2>1. CASE ReturnError(p) /\ writer' = Nobody /\ UNCHANGED read
    BY <1>11, <2>1 DEF GetTailnet, ReturnError, Leave, Goto, TypeOK
  <2>2. CASE /\ GetReturns(tailnets[named[p]])
             /\ read' = [read EXCEPT ![p] = tailnets[named[p]]]
             /\ Goto(p, "secret") /\ UNCHANGED <<writer, cache, since>>
    BY <1>11, <2>2 DEF GetTailnet, GetReturns, Goto, TypeOK
  <2> QED
    BY <1>11, <2>1, <2>2 DEF GetTailnet
<1>12. ASSUME NEW p \in Calls, GetSecret(p) PROVE LockInv'
  <2>1. CASE ReturnError(p)
    BY <1>12, <2>1 DEF GetSecret, ReturnError, Leave, Goto, TypeOK
  <2>2. ASSUME NEW e, Return(p, e, "current") PROVE LockInv'
    BY <1>12, <2>2 DEF GetSecret, Return, Leave, Goto, TypeOK
  <2> QED
    BY <1>12, <2>1, <2>2 DEF GetSecret
<1>13. CASE UNCHANGED vars
  BY <1>13 DEF vars
<1> QED
  BY <1>1, <1>2, <1>3, <1>4, <1>5, <1>6, <1>7, <1>8, <1>9, <1>10, <1>11, <1>12, <1>13
  DEF Next, CallStep

(***************************************************************************)
(* The cache                                                               *)
(***************************************************************************)
(* Returning the client of the cache touches it and nothing else.          *)
LEMMA KeptClient ==
    ASSUME TypeOK, LockInv, NEW p \in Calls, pc[p] \in {"compare", "recheck"}, Keep(p)
    PROVE  /\ clients' = [clients EXCEPT ![named[p]] = [Client(p) EXCEPT !.used = now]]
           /\ handed' = [handed EXCEPT ![named[p]] = now]
           /\ UNCHANGED removed
           /\ \A t \in Tailnets : clients'[t] # None <=> clients[t] # None
           /\ \A t \in Tailnets : clients[t] # None =>
                /\ clients'[t].cred = clients[t].cred /\ clients'[t].ref = clients[t].ref
                /\ clients'[t].rv = clients[t].rv /\ clients'[t].made = clients[t].made
                /\ clients'[t].born = clients[t].born
                /\ clients'[t].used = IF t = named[p] THEN now ELSE clients[t].used
<1>1. /\ clients' = [clients EXCEPT ![named[p]] = [Client(p) EXCEPT !.used = now]]
      /\ handed' = [handed EXCEPT ![named[p]] = now]
      /\ UNCHANGED removed
  BY DEF Keep, Return
<1>2. Client(p) \in Entry /\ [Client(p) EXCEPT !.used = now] \in Entry
  BY ClientTypes, TouchedClient
<1>3. named[p] \in Tailnets /\ Client(p) = clients[named[p]]
  BY DEF TypeOK, Client
<1>4. \A t \in Tailnets : t # named[p] => clients'[t] = clients[t]
  BY <1>1 DEF TypeOK
<1>5. clients'[named[p]] = [Client(p) EXCEPT !.used = now]
  BY <1>1, <1>3 DEF TypeOK
<1>6. \A t \in Tailnets : clients'[t] # None <=> clients[t] # None
  BY <1>2, <1>3, <1>4, <1>5, NoneAssumption
<1>7. /\ clients'[named[p]].cred = Client(p).cred /\ clients'[named[p]].ref = Client(p).ref
      /\ clients'[named[p]].rv = Client(p).rv /\ clients'[named[p]].made = Client(p).made
      /\ clients'[named[p]].born = Client(p).born /\ clients'[named[p]].used = now
  BY <1>2, <1>5 DEF Entry
<1> QED
  BY <1>1, <1>3, <1>4, <1>6, <1>7

(* EntryInv for one tailnet, and that it only needs what it speaks of.     *)
EntryOK(t) ==
    /\ removed[t] <= clients[t].born
    /\ clients[t].made <= LastHeld(clients[t])
    /\ clients[t].made <= clients[t].used
    /\ clients[t].used = handed[t]
    /\ handed[t] <= now
    /\ clients[t].rv <= changes
    /\ tailnets[t] # None => clients[t].rv <= tailnets[t].rv

(* The step that caches a new client. *)
Made(p) ==
    GetReturns(secrets[read[p].ref]) /\ Return(p, NewClient(read[p]), "current")

(* A call that asks Kubernetes under a lock, with either outcome.          *)
LEMMA DecideEntry ==
    ASSUME TypeOK, LockInv, EntryInv, NEW p \in Calls, pc[p] \in {"compare", "recheck"},
           Keep(p) \/ UNCHANGED cache, UNCHANGED <<now, cluster, changes>>
    PROVE  EntryInv'
<1>1. CASE UNCHANGED cache
  BY <1>1 DEF EntryInv, LastHeld, cache, cluster
<1>2. CASE Keep(p)
  <2> SUFFICES ASSUME NEW t \in Tailnets, clients'[t] # None PROVE EntryOK(t)'
    BY DEF EntryInv, EntryOK
  <2>1. clients[t] # None /\ EntryOK(t)
    BY <1>2, KeptClient DEF EntryInv, EntryOK
  <2>2. clients[t] \in Entry
    BY <2>1 DEF TypeOK
  <2>3. /\ clients'[t].cred = clients[t].cred /\ clients'[t].ref = clients[t].ref
        /\ clients'[t].rv = clients[t].rv /\ clients'[t].made = clients[t].made
        /\ clients'[t].born = clients[t].born
        /\ clients'[t].used = IF t = named[p] THEN now ELSE clients[t].used
    BY <1>2, <2>1, KeptClient
  <2>4. handed'[t] = IF t = named[p] THEN now ELSE handed[t]
    BY <1>2, KeptClient DEF TypeOK
  <2>5. LastHeld(clients[t])' = LastHeld(clients[t])
    BY <2>3 DEF LastHeld, cluster
  <2>6. now' = now /\ changes' = changes /\ tailnets' = tailnets /\ removed' = removed
    BY <1>2, KeptClient DEF cluster
  <2>7. clients[t].made \in Nat /\ handed[t] \in Nat /\ now \in Nat
    BY <2>2, BoundAssumption DEF Entry, TypeOK, Times
  <2> QED
    BY <2>1, <2>3, <2>4, <2>5, <2>6, <2>7 DEF EntryOK
<1> QED
  BY <1>1, <1>2

LEMMA EntryStep == TypeOK /\ LockInv /\ EntryInv /\ VersionInv /\ [Next]_vars => EntryInv'
<1> SUFFICES ASSUME TypeOK, LockInv, EntryInv, VersionInv, [Next]_vars PROVE EntryInv'
  OBVIOUS
<1> USE DEF cluster, cache, call
<1>0. /\ now \in Nat /\ changes \in Nat
      /\ \A t \in Tailnets : removed[t] \in Nat /\ handed[t] \in Nat
      /\ \A t \in Tailnets : clients[t] # None =>
            /\ clients[t].made \in Nat /\ clients[t].born \in Nat /\ clients[t].rv \in Nat
            /\ clients[t].ref \in Refs /\ clients[t].cred \in Creds
      /\ \A t \in Tailnets : tailnets[t] # None => tailnets[t].rv \in Nat
  <2>1. \A t \in Tailnets : clients[t] # None => clients[t] \in Entry
    BY DEF TypeOK
  <2>2. \A t \in Tailnets : tailnets[t] # None => tailnets[t] \in Tailnet
    BY DEF TypeOK
  <2> QED
    BY <2>1, <2>2, BoundAssumption DEF TypeOK, Times, Versions, Entry, Tailnet
<1>1. CASE Tick
  BY <1>0, <1>1 DEF Tick, EntryInv, LastHeld
<1>2. ASSUME NEW t \in Tailnets, ChangeTailnet(t) PROVE EntryInv'
  <2>1. changes' = changes + 1
    BY <1>2, ChangeTypes DEF ChangeTailnet
  <2>2. \A u \in Tailnets : tailnets'[u] # None =>
            tailnets'[u] = tailnets[u] \/ tailnets'[u].rv = changes'
    BY <1>2 DEF ChangeTailnet, TypeOK
  <2> QED
    BY <1>0, <1>2, <2>1, <2>2 DEF ChangeTailnet, EntryInv, LastHeld
<1>3. ASSUME NEW r \in Refs, ChangeSecret(r) PROVE EntryInv'
  <2> SUFFICES ASSUME NEW t \in Tailnets, clients'[t] # None PROVE EntryOK(t)'
    BY DEF EntryInv, EntryOK
  <2>1. changes' = changes + 1 /\ UNCHANGED <<now, tailnets, clients, removed, handed>>
    BY <1>3, ChangeTypes DEF ChangeSecret
  <2>2. clients[t] # None /\ EntryOK(t)
    BY <2>1 DEF EntryInv, EntryOK
  <2>3. clients[t].made <= LastHeld(clients[t])'
    <3> DEFINE e == clients[t]
    <3>1. CASE e.ref # r
      <4>1. secrets'[e.ref] = secrets[e.ref] /\ held'[e.ref] = held[e.ref]
        BY <1>0, <1>3, <2>2, <3>1 DEF ChangeSecret, TypeOK
      <4> QED
        BY <2>1, <2>2, <4>1 DEF EntryOK, LastHeld
    <3>2. CASE e.ref = r /\ secrets'[r] = e.cred
      BY <1>0, <2>1, <2>2, <3>2 DEF EntryOK, LastHeld
    <3>3. CASE e.ref = r /\ secrets'[r] # e.cred /\ secrets[r] = e.cred
      <4>1. held'[r][e.cred] = now
        BY <1>0, <1>3, <2>2, <3>3 DEF ChangeSecret, TypeOK
      <4> QED
        BY <1>0, <2>1, <2>2, <3>3, <4>1 DEF EntryOK, LastHeld
    <3>4. CASE e.ref = r /\ secrets'[r] # e.cred /\ secrets[r] # e.cred
      <4>1. held'[r][e.cred] = held[r][e.cred]
        BY <1>0, <1>3, <2>2, <3>4 DEF ChangeSecret, TypeOK
      <4> QED
        BY <2>1, <2>2, <3>4, <4>1 DEF EntryOK, LastHeld
    <3> QED
      BY <3>1, <3>2, <3>3, <3>4
  <2> QED
    BY <1>0, <2>1, <2>2, <2>3 DEF EntryOK
<1>4. ASSUME NEW T \in SUBSET Tailnets, Remove(T) PROVE EntryInv'
  <2>1. changes' = changes + 1
    BY <1>4, ChangeTypes DEF Remove
  <2> QED
    BY <1>0, <1>4, <2>1 DEF Remove, Forget, EntryInv, LastHeld
<1>5. CASE PerformCleanup
  BY <1>5 DEF PerformCleanup, Forget, EntryInv, LastHeld
<1>6. ASSUME NEW p \in Calls, Call(p) \/ RLock(p) \/ Lock(p) PROVE EntryInv'
  BY <1>6 DEF Call, RLock, Lock, EntryInv, LastHeld
<1>7. ASSUME NEW p \in Calls, Compare(p) \/ Recheck(p) PROVE EntryInv'
  BY <1>7, DecideEntry DEF Compare, Recheck, Refresh
<1>8. ASSUME NEW p \in Calls, GetTailnet(p) PROVE EntryInv'
  BY <1>8 DEF GetTailnet, ReturnError, EntryInv, LastHeld
<1>9. ASSUME NEW p \in Calls, GetSecret(p) PROVE EntryInv'
  <2>1. CASE ReturnError(p)
    BY <1>9, <2>1 DEF GetSecret, ReturnError, EntryInv, LastHeld
  <2>2. CASE Made(p)
    <3> SUFFICES ASSUME NEW t \in Tailnets, clients'[t] # None PROVE EntryOK(t)'
      BY DEF EntryInv, EntryOK
    <3>1. UNCHANGED <<now, tailnets, secrets, held, removed, changes>>
      BY <1>9, <2>2 DEF GetSecret, Made, Return
    <3>2. CASE t # named[p]
      <4>1. clients'[t] = clients[t] /\ handed'[t] = handed[t]
        BY <2>2, <3>2 DEF Made, Return, TypeOK
      <4> QED
        BY <3>1, <4>1 DEF EntryInv, EntryOK, LastHeld
    <3>3. CASE t = named[p]
      <4>1. /\ clients'[t].made = now /\ clients'[t].used = now /\ handed'[t] = now
            /\ clients'[t].cred = secrets[read[p].ref] /\ clients'[t].ref = read[p].ref
            /\ clients'[t].rv = read[p].rv /\ clients'[t].born = changes
        BY <2>2, <3>3 DEF Made, NewClient, Return, TypeOK
      <4>2. LastHeld(clients[t])' = now
        BY <3>1, <4>1 DEF LastHeld
      <4>3. /\ removed[t] <= changes /\ read[p].rv <= changes
            /\ tailnets[t] # None => read[p].rv <= tailnets[t].rv
        BY <1>9, <3>3 DEF GetSecret, VersionInv
      <4> QED
        BY <1>0, <3>1, <4>1, <4>2, <4>3 DEF EntryOK
    <3> QED
      BY <3>2, <3>3
  <2> QED
    BY <1>9, <2>1, <2>2 DEF GetSecret, Made, NewClient
<1>10. CASE UNCHANGED vars
  BY <1>10 DEF vars, EntryInv, LastHeld
<1> QED
  BY <1>1, <1>2, <1>3, <1>4, <1>5, <1>6, <1>7, <1>8, <1>9, <1>10 DEF Next, CallStep

(***************************************************************************)
(* Versions and times                                                      *)
(***************************************************************************)
(* What a step may do to tailnets, changes and the clock.                  *)
LEMMA ClusterStep ==
    ASSUME TypeOK, VersionInv, [Next]_vars
    PROVE  /\ now <= now' /\ changes <= changes'
           /\ \A t \in Tailnets : tailnets'[t] # None =>
                 /\ tailnets'[t].rv <= changes'
                 /\ \/ tailnets[t] # None /\ tailnets'[t] = tailnets[t]
                    \/ changes < tailnets'[t].rv
<1> USE DEF cluster, cache, call
<1>0. now \in Nat /\ changes \in Nat
  BY BoundAssumption DEF TypeOK, Times, Versions
<1>1. CASE UNCHANGED <<now, cluster, changes>>
  BY <1>0, <1>1 DEF VersionInv
<1>2. CASE Tick
  BY <1>0, <1>2 DEF Tick, VersionInv
<1>3. ASSUME NEW t \in Tailnets, ChangeTailnet(t)
      PROVE  /\ now' = now /\ changes' = changes + 1
             /\ \A u \in Tailnets : tailnets'[u] # None =>
                   \/ tailnets[u] # None /\ tailnets'[u] = tailnets[u]
                   \/ tailnets'[u].rv = changes'
  <2>1. now' = now /\ changes' = changes + 1
    BY <1>3, ChangeTypes DEF ChangeTailnet
  <2>2. \A u \in Tailnets : tailnets'[u] # None =>
            \/ tailnets[u] # None /\ tailnets'[u] = tailnets[u]
            \/ tailnets'[u].rv = changes'
    BY <1>3 DEF ChangeTailnet, TypeOK
  <2> QED
    BY <2>1, <2>2
<1>4. ASSUME \/ \E r \in Refs : ChangeSecret(r)
             \/ \E T \in SUBSET Tailnets : Remove(T)
      PROVE  now' = now /\ changes' = changes + 1 /\ tailnets' = tailnets
  BY <1>4, ChangeTypes DEF ChangeSecret, Remove
<1>5. \/ UNCHANGED <<now, cluster, changes>> \/ Tick
      \/ \E t \in Tailnets : ChangeTailnet(t)
      \/ \E r \in Refs : ChangeSecret(r)
      \/ \E T \in SUBSET Tailnets : Remove(T)
  BY DEF Next, CallStep, PerformCleanup, Call, RLock, Compare, Lock, Recheck, GetTailnet,
         GetSecret, vars
<1>6. \A t \in Tailnets : tailnets[t] # None => tailnets[t].rv \in Nat /\ tailnets[t].rv <= changes
  <2>1. \A t \in Tailnets : tailnets[t] # None => tailnets[t] \in Tailnet
    BY DEF TypeOK
  <2> QED
    BY <2>1, BoundAssumption DEF VersionInv, Tailnet, Versions
<1>7. ASSUME NEW t \in Tailnets, ChangeTailnet(t)
      PROVE  /\ now <= now' /\ changes <= changes'
             /\ \A u \in Tailnets : tailnets'[u] # None =>
                   /\ tailnets'[u].rv <= changes'
                   /\ \/ tailnets[u] # None /\ tailnets'[u] = tailnets[u]
                      \/ changes < tailnets'[u].rv
  BY <1>0, <1>3, <1>6, <1>7
<1> QED
  BY <1>0, <1>1, <1>2, <1>4, <1>5, <1>6, <1>7

(* What it may do to a call.                                               *)
LEMMA CallStepOf ==
    ASSUME TypeOK, [Next]_vars, NEW p \in Calls
    PROVE  \/ UNCHANGED <<pc[p], named[p], since[p], read[p]>>
           \/ pc'[p] = "rlock" /\ Call(p)
           \/ /\ CallStep(p)
              /\ pc[p] \notin Outside /\ pc'[p] \notin Outside \cup {"secret"}
              /\ UNCHANGED <<named[p], since[p]>>
           \/ /\ GetTailnet(p) /\ GetReturns(tailnets[named[p]]) /\ pc'[p] = "secret"
              /\ read'[p] = tailnets[named[p]]
              /\ UNCHANGED <<named[p], since[p]>>
           \/ /\ CallStep(p)
              /\ pc'[p] \in Outside /\ named'[p] = named[p] /\ since'[p] = [time |-> 0, rv |-> 0]
<1> USE DEF cluster, cache, call, TypeOK, Goto, Outside
<1>1. CASE UNCHANGED call
  BY <1>1
<1>2. ASSUME NEW q \in Calls, Call(q) \/ CallStep(q), q # p
      PROVE  UNCHANGED <<pc[p], named[p], since[p], read[p]>>
  BY <1>2 DEF CallStep, Call, RLock, Compare, Lock, Recheck, GetTailnet, GetSecret, Keep,
              Refresh, Return, ReturnError, Leave
<1>3. CASE Call(p)
  BY <1>3 DEF Call
<1>4. CASE RLock(p) \/ Lock(p)
  BY <1>4 DEF RLock, Lock, CallStep
<1>5. CASE Compare(p) \/ Recheck(p)
  BY <1>5 DEF CallStep, Compare, Recheck, Keep, Refresh, Return, Leave
<1>6. CASE GetTailnet(p)
  BY <1>6 DEF CallStep, GetTailnet, ReturnError, Leave
<1>7. CASE GetSecret(p)
  BY <1>7 DEF CallStep, GetSecret, Return, ReturnError, Leave
<1> QED
  BY <1>1, <1>2, <1>3, <1>4, <1>5, <1>6, <1>7
  DEF Next, CallStep, vars, Tick, ChangeTailnet, ChangeSecret, Remove, PerformCleanup

LEMMA VersionStep ==
    TypeOK /\ TypeOK' /\ LockInv /\ VersionInv /\ [Next]_vars => VersionInv'
<1> SUFFICES ASSUME TypeOK, TypeOK', LockInv, VersionInv, [Next]_vars
             PROVE  VersionInv'
  OBVIOUS
<1> USE DEF cluster, cache, call
<1>0. /\ now \in Nat /\ now' \in Nat /\ changes \in Nat /\ changes' \in Nat
      /\ now <= now' /\ changes <= changes'
  BY ClusterStep, BoundAssumption DEF TypeOK, Times, Versions
<1>1. \A t \in Tailnets : removed'[t] <= changes'
  <2>1. \A t \in Tailnets : removed[t] \in Nat /\ removed[t] <= changes
    BY BoundAssumption DEF TypeOK, VersionInv, Versions
  <2>2. \A t \in Tailnets : removed'[t] = removed[t] \/ removed'[t] = changes'
    BY DEF Next, CallStep, vars, Tick, ChangeTailnet, ChangeSecret, Remove, PerformCleanup, Call,
       RLock, Compare, Lock, Recheck, GetTailnet, GetSecret, Keep, Refresh, Return, ReturnError
  <2> QED
    BY <1>0, <2>1, <2>2
<1>2. \A t \in Tailnets : tailnets'[t] # None => tailnets'[t].rv <= changes'
  BY ClusterStep
<1>3. ASSUME NEW p \in Calls
      PROVE  /\ since'[p].time <= now' /\ since'[p].rv <= changes'
             /\ pc'[p] \notin Outside /\ tailnets'[named'[p]] # None =>
                   since'[p].rv <= tailnets'[named'[p]].rv
             /\ pc'[p] = "secret" =>
                   /\ since'[p].rv <= read'[p].rv /\ read'[p].rv <= changes'
                   /\ tailnets'[named'[p]] # None => read'[p].rv <= tailnets'[named'[p]].rv
  <2>0. /\ named[p] \in Tailnets /\ since[p].time \in Nat /\ since[p].rv \in Nat
        /\ since[p].time <= now /\ since[p].rv <= changes
        /\ \A t \in Tailnets : tailnets[t] # None =>
              tailnets[t].rv \in Nat /\ tailnets[t].rv <= changes
    <3>1. \A t \in Tailnets : tailnets[t] # None => tailnets[t] \in Tailnet
      BY DEF TypeOK
    <3> QED
      BY <3>1, BoundAssumption DEF TypeOK, VersionInv, Tailnet, Times, Versions
  <2>1. \A t \in Tailnets : tailnets'[t] # None =>
            \/ tailnets[t] # None /\ tailnets'[t] = tailnets[t]
            \/ changes < tailnets'[t].rv
    BY ClusterStep
  <2>7. \A t \in Tailnets : tailnets'[t] # None => tailnets'[t].rv \in Nat
    <3>1. \A t \in Tailnets : tailnets'[t] # None => tailnets'[t] \in Tailnet
      BY DEF TypeOK
    <3> QED
      BY <3>1, BoundAssumption DEF Tailnet, Versions
  <2>2. CASE UNCHANGED <<pc[p], named[p], since[p], read[p]>>
    <3>1. pc[p] = "secret" => /\ read[p].rv \in Nat
                              /\ since[p].rv <= read[p].rv /\ read[p].rv <= changes
                              /\ tailnets[named[p]] # None => read[p].rv <= tailnets[named[p]].rv
      <4>1. pc[p] = "secret" => read[p] \in Tailnet
        BY DEF LockInv, TypeOK
      <4> QED
        BY <4>1, BoundAssumption DEF VersionInv, Tailnet, Versions
    <3> QED
      BY <1>0, <2>0, <2>1, <2>7, <2>2, <3>1 DEF VersionInv
  <2>3. CASE pc'[p] = "rlock" /\ Call(p)
    <3>1. since'[p] = [time |-> now,
                       rv |-> IF tailnets[named'[p]] = None THEN 0 ELSE tailnets[named'[p]].rv]
      BY <2>3 DEF Call, TypeOK
    <3>2. named'[p] \in Tailnets /\ now' = now /\ changes' = changes /\ tailnets' = tailnets
      BY <2>3 DEF Call, TypeOK
    <3> QED
      BY <1>0, <2>0, <2>3, <3>1, <3>2
  <2>4. CASE /\ pc[p] \notin Outside /\ pc'[p] \notin Outside \cup {"secret"}
             /\ UNCHANGED <<named[p], since[p]>>
    BY <1>0, <2>0, <2>1, <2>7, <2>4 DEF VersionInv
  <2>5. CASE /\ GetTailnet(p) /\ GetReturns(tailnets[named[p]]) /\ pc'[p] = "secret"
             /\ read'[p] = tailnets[named[p]]
             /\ UNCHANGED <<named[p], since[p]>>
    <3>1. pc[p] = "get" /\ now' = now /\ changes' = changes /\ tailnets' = tailnets
      BY <2>5 DEF GetTailnet
    <3>2. tailnets[named[p]] # None /\ since[p].rv <= tailnets[named[p]].rv
      BY <2>0, <2>5, <3>1 DEF GetReturns, VersionInv, Outside
    <3> QED
      BY <1>0, <2>0, <2>5, <3>1, <3>2
  <2>6. CASE /\ pc'[p] \in Outside /\ named'[p] = named[p]
             /\ since'[p] = [time |-> 0, rv |-> 0]
    BY <1>0, <2>6 DEF Outside
  <2> QED
    BY <2>2, <2>3, <2>4, <2>5, <2>6, CallStepOf
<1> QED
  BY <1>1, <1>2, <1>3 DEF VersionInv

(* Nobody touches the cache of a call that holds mu for writing.           *)
LEMMA CacheHeld ==
    ASSUME TypeOK, LockInv, [Next]_vars, NEW p \in Calls, writer = p, ~CallStep(p)
    PROVE  UNCHANGED <<cache, pc[p], named[p], read[p]>>
<1> USE NobodyAssumption DEF cluster, cache, call, LockInv, Writing
<1>1. ~(\E T \in SUBSET Tailnets : Remove(T)) /\ ~PerformCleanup
  BY DEF Remove, PerformCleanup, Free
<1>2. ASSUME NEW q \in Calls, CallStep(q) PROVE UNCHANGED <<cache, pc[p], named[p], read[p]>>
  <2>1. q # p
    BY <1>2
  <2>2. (RLock(q) /\ UNCHANGED cache) \/ Lock(q)
    BY <1>2, <2>1 DEF CallStep, RLock, Compare, Recheck, GetTailnet, GetSecret
  <2> QED
    BY <2>1, <2>2 DEF RLock, Lock, Goto, TypeOK
<1>3. ASSUME NEW q \in Calls, Call(q) PROVE UNCHANGED <<cache, pc[p], named[p], read[p]>>
  BY <1>3 DEF Call, Goto, TypeOK, Outside
<1> QED
  BY <1>1, <1>2, <1>3 DEF Next, vars, Tick, ChangeTailnet, ChangeSecret

LEMMA ReplaceStep ==
    /\ TypeOK /\ TypeOK' /\ LockInv /\ LockInv' /\ EntryInv /\ VersionInv
    /\ ReplaceInv /\ [Next]_vars
    => ReplaceInv'
<1> DEFINE Newer(p) == \/ TooOld(Client(p))
                       \/ pc[p] = "get" /\ (tailnets[named[p]] # None =>
                                              Client(p).rv < tailnets[named[p]].rv)
                       \/ pc[p] = "secret" /\ Client(p).rv < read[p].rv
<1> SUFFICES ASSUME TypeOK, TypeOK', LockInv, LockInv', EntryInv, VersionInv, ReplaceInv,
                    [Next]_vars, NEW p \in Calls, pc'[p] \in {"get", "secret"},
                    Client(p)' # None
             PROVE  Newer(p)'
  BY DEF ReplaceInv, Writing
<1>1. /\ \A t \in Tailnets : clients[t] # None =>
            clients[t].made \in Nat /\ clients[t].rv \in Nat /\ clients[t].rv <= changes
      /\ \A t \in Tailnets : tailnets'[t] # None => tailnets'[t].rv \in Nat
      /\ now \in Nat /\ now' \in Nat /\ changes \in Nat /\ named[p] \in Tailnets
  <2>1. \A t \in Tailnets : clients[t] # None => clients[t] \in Entry
    BY DEF TypeOK
  <2>2. \A t \in Tailnets : tailnets'[t] # None => tailnets'[t] \in Tailnet
    BY DEF TypeOK
  <2> QED
    BY <2>1, <2>2, BoundAssumption DEF TypeOK, EntryInv, Entry, Tailnet, Times, Versions
<1>2. CASE writer = p /\ ~CallStep(p)
  <2>1. UNCHANGED <<cache, pc[p], named[p], read[p]>>
    BY <1>2, CacheHeld
  <2>2. Client(p)' = Client(p) /\ Client(p) # None
    BY <2>1 DEF Client, cache
  <2>3. Newer(p)
    BY <1>2, <2>1, <2>2 DEF ReplaceInv, Writing
  <2>4. TooOld(Client(p)) => TooOld(Client(p))'
    <3>1. now <= now' /\ Client(p).made \in Nat
      BY <1>1, <2>2, ClusterStep DEF Client
    <3> QED
      BY <1>1, <2>2, <3>1, BoundAssumption DEF TooOld
  <2>5. CASE /\ pc[p] = "get"
             /\ tailnets[named[p]] # None => Client(p).rv < tailnets[named[p]].rv
    <3>1. tailnets'[named[p]] # None => Client(p).rv < tailnets'[named[p]].rv
      BY <1>1, <2>2, <2>5, ClusterStep DEF Client
    <3> QED
      BY <2>1, <2>2, <2>5, <3>1
  <2>6. CASE pc[p] = "secret" /\ Client(p).rv < read[p].rv
    BY <2>1, <2>2, <2>6
  <2> QED
    BY <2>3, <2>4, <2>5, <2>6
<1>3. CASE Lock(p)
  <2>1. Client(p)' = Client(p) /\ (Client(p) = None \/ TooOld(Client(p)))
    BY <1>3 DEF Lock, Goto, TypeOK, Client, cache, call
  <2>2. now' = now
    BY <1>3 DEF Lock
  <2> QED
    BY <2>1, <2>2 DEF TooOld
<1>4. CASE Recheck(p)
  <2>1. Refresh(p, "get")
    BY <1>4 DEF Recheck, Keep, Return, Leave, Goto, TypeOK
  <2>2. /\ Client(p)' = Client(p) /\ named' = named /\ tailnets' = tailnets
        /\ pc'[p] = "get" /\ tailnets[named[p]] # None
        /\ tailnets[named[p]].rv # Client(p).rv
    BY <1>4, <2>1 DEF Recheck, Refresh, GetReturns, Goto, TypeOK, Client, cache, cluster
  <2>3. Client(p).rv <= tailnets[named[p]].rv
    BY <1>1, <2>2 DEF EntryInv, Client
  <2> QED
    BY <1>1, <2>2, <2>3 DEF Client
<1>5. CASE GetTailnet(p)
  <2>1. /\ GetReturns(tailnets[named[p]]) /\ pc[p] = "get" /\ pc'[p] = "secret"
        /\ read'[p] = tailnets[named[p]] /\ Client(p)' = Client(p) /\ now' = now
    BY <1>5 DEF GetTailnet, GetReturns, ReturnError, Leave, Goto, TypeOK, Outside, Client, cache
  <2>2. Newer(p)
    BY <2>1 DEF ReplaceInv, Writing
  <2> QED
    BY <2>1, <2>2 DEF GetReturns, TooOld
<1>6. pc[p] \in {"get", "secret"} => writer = p
  BY DEF LockInv, Writing
<1>7. CallStep(p) => Lock(p) \/ Recheck(p) \/ GetTailnet(p)
  BY DEF CallStep, RLock, Compare, GetSecret, Keep, Refresh, Return, ReturnError, Leave, Goto,
         TypeOK, Outside
<1>8. ~CallStep(p) => pc[p] \in {"get", "secret"}
  BY CallStepOf DEF CallStep, Outside
<1> QED
  BY <1>2, <1>3, <1>4, <1>5, <1>6, <1>7, <1>8

(* A client in the cache keeps its birthday while a call looks at it.      *)
LEMMA YoungStep ==
    TypeOK /\ TypeOK' /\ LockInv /\ LockInv' /\ VersionInv /\ YoungInv /\ [Next]_vars => YoungInv'
<1> SUFFICES ASSUME TypeOK, TypeOK', LockInv, LockInv', VersionInv, YoungInv, [Next]_vars,
                    NEW p \in Calls, pc'[p] \in {"compare", "recheck"}
             PROVE  since'[p].time - MaxAge <= Client(p)'.made
  BY DEF YoungInv
<1> USE DEF cluster, cache, call
<1>0. named[p] \in Tailnets
  BY DEF TypeOK
<1>1. CASE RLock(p) \/ Lock(p)
  <2>1. /\ Client(p)' = Client(p) /\ Client(p) # None /\ ~TooOld(Client(p))
        /\ since' = since
    BY <1>1 DEF RLock, Lock, Goto, Client, TypeOK
  <2>2. Client(p).made \in Nat /\ since[p].time \in Nat /\ now \in Nat /\ since[p].time <= now
    <3>1. Client(p) \in Entry
      BY <1>0, <2>1 DEF TypeOK, Client
    <3> QED
      BY <3>1, BoundAssumption DEF TypeOK, VersionInv, Entry, Times
  <2> QED
    BY <2>1, <2>2, BoundAssumption DEF TooOld
<1>2. CASE ~RLock(p) /\ ~Lock(p)
  <2>1. pc'[p] = pc[p] /\ named'[p] = named[p] /\ since'[p] = since[p]
    <3>1. ~CallStep(p)
      BY <1>2 DEF CallStep, Compare, Recheck, GetTailnet, GetSecret, Keep, Refresh, Return,
                  ReturnError, Leave, Goto, TypeOK, Outside
    <3> QED
      BY <3>1, CallStepOf DEF CallStep, Outside
  <2>2. Client(p)'.made = Client(p).made
    <3>1. Client(p) # None /\ Client(p) \in Entry
      BY <2>1, ClientTypes DEF LockInv
    <3>2. CASE UNCHANGED cache
      BY <2>1, <3>2 DEF Client
    <3>3. ASSUME NEW q \in Calls, pc[q] \in {"compare", "recheck"}, Keep(q)
          PROVE  Client(p)'.made = Client(p).made
      <4>1. \A t \in Tailnets : clients[t] # None => clients'[t].made = clients[t].made
        BY <1>0, <3>3, KeptClient
      <4> QED
        BY <1>0, <2>1, <3>1, <4>1 DEF Client, TypeOK
    <3>4. ASSUME NEW q \in Calls, GetSecret(q) PROVE UNCHANGED cache
      <4>1. FALSE
        BY <2>1, <3>4, NobodyAssumption DEF GetSecret, LockInv, Writing
      <4> QED
        BY <4>1
    <3>5. ~(\E T \in SUBSET Tailnets : Remove(T)) /\ ~PerformCleanup
      BY <2>1, NobodyAssumption DEF Remove, PerformCleanup, Free, LockInv, Writing
    <3> QED
      BY <3>2, <3>3, <3>4, <3>5
      DEF Next, CallStep, vars, Tick, ChangeTailnet, ChangeSecret, Call, RLock, Compare, Lock,
          Recheck, GetTailnet, Refresh, ReturnError
  <2> QED
    BY <2>1, <2>2 DEF YoungInv
<1> QED
  BY <1>1, <1>2

(***************************************************************************)
(* The theorems                                                            *)
(***************************************************************************)
LEMMA ManagerInit == Init => IInv
<1> SUFFICES ASSUME Init PROVE IInv
  OBVIOUS
<1>1. TypeOK
  BY BoundAssumption DEF Init, TypeOK, Outside, Times, Versions, Tailnet
<1>2. LockInv /\ EntryInv /\ YoungInv /\ ReplaceInv
  BY NobodyAssumption DEF Init, LockInv, EntryInv, YoungInv, ReplaceInv, Writing, Client
<1>3. \A t \in Tailnets : tailnets[t] # None => tailnets[t].rv = 0
  BY DEF Init
<1>4. VersionInv
  BY <1>3 DEF Init, VersionInv, Outside
<1> QED
  BY <1>1, <1>2, <1>4 DEF IInv

(* The lock has one owner, a cached client is as its entry says, versions  *)
(* only grow: whatever calls, tailnets and secrets there are.              *)
THEOREM ManagerInvariant == Spec => []IInv
<1>1. IInv /\ [Next]_vars => IInv'
  <2> SUFFICES ASSUME IInv, [Next]_vars PROVE IInv'
    OBVIOUS
  <2>1. TypeOK' /\ LockInv' /\ EntryInv'
    BY TypeStep, LockStep, EntryStep DEF IInv
  <2>2. VersionInv'
    BY <2>1, VersionStep DEF IInv
  <2>3. YoungInv' /\ ReplaceInv'
    BY <2>1, YoungStep, ReplaceStep DEF IInv
  <2> QED
    BY <2>1, <2>2, <2>3 DEF IInv
<1> QED
  BY <1>1, ManagerInit, PTL DEF Spec

(* The ways to return a client.                                            *)
LEMMA ReturnStep ==
    ASSUME IInv, [Next]_vars, NEW p \in Calls, Returns(p)
    PROVE  /\ UNCHANGED <<now, secrets, held, tailnets, changes, removed>>
           /\ \/ /\ pc[p] \in {"compare", "recheck"} /\ Keep(p)
                 /\ pc'[p] = "current" =>
                       tailnets[named[p]] # None /\ tailnets[named[p]].rv = Client(p).rv
              \/ pc[p] = "secret" /\ Made(p)
<1> USE DEF IInv, TypeOK, Outside
<1>1. CallStep(p)
  BY CallStepOf DEF Returns, Call, Goto
<1>2. CASE Compare(p) \/ Recheck(p)
  <2>1. Keep(p)
    BY <1>2 DEF Compare, Recheck, Refresh, Goto, Returns
  <2>2. pc'[p] = "current" => GetReturns(tailnets[named[p]]) /\ tailnets[named[p]].rv = Client(p).rv
    BY <2>1 DEF Keep, Return, Leave, Goto
  <2> QED
    BY <1>2, <2>1, <2>2 DEF Compare, Recheck, Keep, Return, cluster, GetReturns
<1>3. CASE GetSecret(p)
  <2>1. ~ReturnError(p)
    BY DEF ReturnError, Leave, Goto, Returns
  <2> QED
    BY <1>3, <2>1 DEF GetSecret, Made, Return, cluster
<1> QED
  BY <1>1, <1>2, <1>3 DEF CallStep, RLock, Lock, GetTailnet, ReturnError, Leave, Goto, Returns

(* What the client returned is, in both ways.                              *)
LEMMA ReturnedClient ==
    ASSUME IInv, [Next]_vars, NEW p \in Calls, Returns(p)
    PROVE  /\ Returned(p).rv <= changes
           /\ pc'[p] = "current" => since[p].rv <= Returned(p).rv
           /\ since[p].time - MaxAge <= LastHeld(Returned(p))
           /\ removed[named[p]] <= Returned(p).born
<1> USE DEF IInv
<1> DEFINE t == named[p]
<1>0. /\ t \in Tailnets /\ now \in Nat /\ since[p].time \in Nat /\ since[p].time <= now
      /\ MaxAge \in Nat
  BY BoundAssumption DEF TypeOK, VersionInv, Times
<1>1. CASE pc[p] = "secret" /\ Made(p)
  <2>1. /\ Returned(p).cred = secrets[read[p].ref] /\ Returned(p).ref = read[p].ref
        /\ Returned(p).rv = read[p].rv /\ Returned(p).born = changes
    BY <1>0, <1>1 DEF Made, NewClient, Return, Returned, TypeOK
  <2>2. LastHeld(Returned(p)) = now
    BY <2>1 DEF LastHeld
  <2> QED
    BY <1>0, <1>1, <2>1, <2>2 DEF VersionInv
<1>2. CASE /\ pc[p] \in {"compare", "recheck"} /\ Keep(p)
           /\ pc'[p] = "current" => tailnets[t] # None /\ tailnets[t].rv = Client(p).rv
  <2>1. clients[t] # None /\ Client(p) = clients[t]
    BY <1>0, <1>2 DEF LockInv, Client
  <2>2. /\ Returned(p).cred = clients[t].cred /\ Returned(p).ref = clients[t].ref
        /\ Returned(p).rv = clients[t].rv /\ Returned(p).born = clients[t].born
    BY <1>0, <1>2, <2>1, KeptClient DEF Returned
  <2>3. LastHeld(Returned(p)) = LastHeld(clients[t])
    BY <2>2 DEF LastHeld
  <2>4. clients[t].made <= LastHeld(clients[t]) /\ clients[t].rv <= changes
        /\ removed[t] <= clients[t].born
    BY <1>0, <2>1 DEF EntryInv
  <2>5. pc'[p] = "current" => since[p].rv <= clients[t].rv
    BY <1>0, <1>2, <2>1 DEF VersionInv, Outside
  <2>6. since[p].time - MaxAge <= clients[t].made
    BY <1>0, <1>2, <2>1 DEF YoungInv
  <2>7. clients[t].made \in Nat /\ LastHeld(clients[t]) \in Nat
    <3>1. clients[t] \in Entry
      BY <1>0, <2>1 DEF TypeOK
    <3> QED
      BY <1>0, <3>1, BoundAssumption DEF TypeOK, Entry, LastHeld, Times
  <2> QED
    BY <1>0, <2>2, <2>3, <2>4, <2>5, <2>6, <2>7
<1> QED
  BY <1>1, <1>2, ReturnStep

(* NoOlderTailnet: shouldRefreshClient compares versions, and they grow.   *)
THEOREM ClientOfCurrentTailnet == Spec => NoOlderTailnet
<1>1. IInv /\ [Next]_vars =>
        [\A p \in Calls : Returns(p) =>
            /\ pc'[p] = "current" => since[p].rv <= Returned(p).rv
            /\ Returned(p).rv <= changes]_vars
  BY ReturnedClient
<1> QED
  BY <1>1, ManagerInvariant, PTL DEF Spec, NoOlderTailnet

(* BoundedStaleness: a client older than MaxAge is made anew, also when    *)
(* reads fail.                                                             *)
THEOREM StalenessIsBounded == Spec => BoundedStaleness
<1>1. IInv /\ [Next]_vars =>
        [\A p \in Calls : Returns(p) =>
            since[p].time - MaxAge <= LastHeld(Returned(p))]_vars
  BY ReturnedClient
<1> QED
  BY <1>1, ManagerInvariant, PTL DEF Spec, BoundedStaleness

(* InvalidationHolds: who removes a client waits for the calls that use or *)
(* make one.                                                               *)
THEOREM InvalidationIsKept == Spec => InvalidationHolds
<1>1. IInv /\ [Next]_vars =>
        [\A p \in Calls : Returns(p) => removed[named[p]] <= Returned(p).born]_vars
  BY ReturnedClient
<1> QED
  BY <1>1, ManagerInvariant, PTL DEF Spec, InvalidationHolds

(* ClientsShared: whoever makes a client has looked at the present one     *)
(* with mu held, and whoever drops one was asked to or found it idle.      *)
THEOREM ClientsAreShared == Spec => ClientsShared
<1> DEFINE Fine(t) == IF clients'[t] = None
                      THEN removed'[t] # removed[t] \/ now - handed[t] > MaxIdle
                      ELSE \/ clients'[t] = [clients[t] EXCEPT !.used = clients'[t].used]
                           \/ TooOld(clients[t])
                           \/ clients[t].rv < clients'[t].rv
<1>1. ASSUME IInv, [Next]_vars, NEW t \in Tailnets, clients[t] # None PROVE Fine(t)
  <2> USE DEF IInv, cluster, cache, call
  <2>0. clients[t] \in Entry
    BY <1>1 DEF TypeOK
  <2>1. CASE clients'[t] = clients[t]
    BY <1>1, <2>0, <2>1 DEF Entry
  <2>2. ASSUME NEW T \in SUBSET Tailnets, Remove(T) PROVE Fine(t)
    <3>1. CASE t \in T
      <4>1. removed'[t] = changes + 1 /\ clients'[t] = None
        BY <1>1, <2>2, <3>1, ChangeTypes DEF Remove, Forget
      <4>2. removed[t] <= changes /\ removed[t] \in Nat /\ changes \in Nat
        BY <1>1, BoundAssumption DEF VersionInv, TypeOK, Versions
      <4> QED
        BY <4>1, <4>2
    <3>2. CASE t \notin T
      BY <2>1, <2>2, <3>2 DEF Remove, Forget
    <3> QED
      BY <3>1, <3>2
  <2>3. CASE PerformCleanup
    <3>1. CASE t \in Idle
      <4>1. clients[t].used < now - MaxIdle /\ clients[t].used = handed[t] /\ clients'[t] = None
        BY <1>1, <2>3, <3>1 DEF PerformCleanup, Forget, Idle, EntryInv
      <4>2. handed[t] \in Nat /\ now \in Nat /\ MaxIdle \in Nat
        BY <1>1, BoundAssumption DEF TypeOK, Times
      <4> QED
        BY <4>1, <4>2
    <3>2. CASE t \notin Idle
      BY <2>1, <2>3, <3>2 DEF PerformCleanup, Forget
    <3> QED
      BY <3>1, <3>2
  <2>4. ASSUME NEW p \in Calls, pc[p] \in {"compare", "recheck"}, Keep(p) PROVE Fine(t)
    <3>1. CASE t # named[p]
      <4>1. clients'[t] = clients[t]
        BY <1>1, <2>4, <3>1, KeptClient DEF TypeOK
      <4> QED
        BY <2>1, <4>1
    <3>2. CASE t = named[p]
      <4>1. clients'[t] = [clients[t] EXCEPT !.used = now]
        BY <1>1, <2>4, <3>2, KeptClient DEF TypeOK, Client
      <4>2. clients'[t].used = now /\ clients'[t] # None
        BY <1>1, <2>0, <2>4, <4>1, KeptClient DEF Entry
      <4> QED
        BY <4>1, <4>2
    <3> QED
      BY <3>1, <3>2
  <2>5. ASSUME NEW p \in Calls, pc[p] = "secret", Made(p) PROVE Fine(t)
    <3>1. CASE t # named[p]
      <4>1. clients'[t] = clients[t]
        BY <2>5, <3>1 DEF Made, Return, TypeOK
      <4> QED
        BY <2>1, <4>1
    <3>2. CASE t = named[p]
      <4>1. clients'[t].rv = read[p].rv
        BY <1>1, <2>5, <3>2 DEF Made, NewClient, Return, TypeOK
      <4>2. TooOld(clients[t]) \/ clients[t].rv < read[p].rv
        BY <1>1, <2>5, <3>2 DEF ReplaceInv, Writing, Client
      <4>3. clients'[t] # None
        <5>1. read[p] \in Tailnet
          BY <1>1, <2>5 DEF LockInv, TypeOK
        <5>2. NewClient(read[p]) \in Entry
          BY <1>1, <2>5, <5>1 DEF Made, NewClient, GetReturns, TypeOK, Tailnet, Entry
        <5>3. clients'[t] \in Entry
          BY <1>1, <2>5, <3>2, <5>2, TouchedClient DEF Made, Return, TypeOK
        <5> QED
          BY <5>3, NoneAssumption
      <4> QED
        BY <4>1, <4>2, <4>3
    <3> QED
      BY <3>1, <3>2
  <2>6. \/ UNCHANGED clients \/ PerformCleanup
        \/ \E T \in SUBSET Tailnets : Remove(T)
        \/ \E p \in Calls : \/ pc[p] \in {"compare", "recheck"} /\ Keep(p)
                            \/ pc[p] = "secret" /\ Made(p)
    BY <1>1 DEF Next, CallStep, vars, Tick, ChangeTailnet, ChangeSecret, Call, RLock, Compare, Lock,
       Recheck, GetTailnet, GetSecret, Refresh, ReturnError, Made
  <2> QED
    BY <2>1, <2>2, <2>3, <2>4, <2>5, <2>6
<1>2. IInv /\ [Next]_vars => [\A t \in Tailnets : clients[t] # None => Fine(t)]_vars
  BY <1>1
<1> QED
  BY <1>2, ManagerInvariant, PTL DEF Spec, ClientsShared
=============================================================================
