---------------------- MODULE ClientManagerProperties ----------------------
(***************************************************************************)
(* What a caller of GetClient may count on.                                *)
(***************************************************************************)
EXTENDS ClientManager

Writing(p) == pc[p] \in {"recheck", "get", "secret"}

(* Who reads and who writes the map: readers exclude the writer, and the   *)
(* client a call looks at while it waits for Kubernetes cannot go away.    *)
LockInv ==
    /\ \A p \in Calls : p \in readers <=> pc[p] = "compare"
    /\ \A p \in Calls : Writing(p) <=> writer = p
    /\ writer # Nobody => readers = {}
    /\ \A p \in Calls : pc[p] \in {"compare", "recheck"} => Client(p) # None
    /\ \A p \in Calls : pc[p] = "secret" => read[p] # None

(* When the secret a client was made from still held its credentials. *)
LastHeld(e) == IF secrets[e.ref] = e.cred THEN now ELSE held[e.ref][e.cred]

(* A cached client was made after the last request to remove it, from the  *)
(* credentials its secret held then, was touched when it was returned, and *)
(* is of no later version than its tailnet.                                *)
EntryInv ==
    \A t \in Tailnets : clients[t] # None =>
        /\ removed[t] <= clients[t].born
        /\ clients[t].made <= LastHeld(clients[t])
        /\ clients[t].made <= clients[t].used
        /\ clients[t].used = handed[t]
        /\ handed[t] <= now
        /\ clients[t].rv <= changes
        /\ tailnets[t] # None => clients[t].rv <= tailnets[t].rv

(* Versions and times only grow: what a call sees is not older than what   *)
(* was there when it began, nor newer than what is there.                  *)
VersionInv ==
    /\ \A t \in Tailnets : removed[t] <= changes
    /\ \A t \in Tailnets : tailnets[t] # None => tailnets[t].rv <= changes
    /\ \A p \in Calls : since[p].time <= now /\ since[p].rv <= changes
    /\ \A p \in Calls : pc[p] \notin Outside /\ tailnets[named[p]] # None =>
          since[p].rv <= tailnets[named[p]].rv
    /\ \A p \in Calls : pc[p] = "secret" =>
          /\ since[p].rv <= read[p].rv /\ read[p].rv <= changes
          /\ tailnets[named[p]] # None => read[p].rv <= tailnets[named[p]].rv

(* A client a call asks Kubernetes about was not too old when it began.    *)
YoungInv ==
    \A p \in Calls : pc[p] \in {"compare", "recheck"} =>
        since[p].time - MaxAge <= Client(p).made

(* A call makes a client only where there is none, or in the place of one  *)
(* that is too old or of an older version.                                 *)
ReplaceInv ==
    \A p \in Calls : Writing(p) /\ pc[p] # "recheck" /\ Client(p) # None =>
        \/ TooOld(Client(p))
        \/ pc[p] = "get" /\ (tailnets[named[p]] # None => Client(p).rv < tailnets[named[p]].rv)
        \/ pc[p] = "secret" /\ Client(p).rv < read[p].rv

(* The inductive invariant. *)
IInv == TypeOK /\ LockInv /\ EntryInv /\ VersionInv /\ YoungInv /\ ReplaceInv

Returns(p) == pc[p] \notin Outside /\ pc'[p] \in {"current", "kept"}
Returned(p) == clients'[named[p]]

(* The client returned is of the version the tailnet had when the call     *)
(* began, or of a later one, unless the tailnet could not be read; and it  *)
(* is of no later one than exists.                                         *)
NoOlderTailnet ==
    [][\A p \in Calls : Returns(p) =>
          /\ pc'[p] = "current" => since[p].rv <= Returned(p).rv
          /\ Returned(p).rv <= changes]_vars

(* However it was found, with failing reads too, the credentials of the    *)
(* client returned were in the secret it was made from at most MaxAge      *)
(* before the call began.                                                  *)
BoundedStaleness ==
    [][\A p \in Calls : Returns(p) =>
          since[p].time - MaxAge <= LastHeld(Returned(p))]_vars

(* InvalidateClient is "useful for error handling": no call returns a      *)
(* client whose secret was read before the tailnet's client was last       *)
(* removed.                                                                *)
InvalidationHolds ==
    [][\A p \in Calls : Returns(p) => removed[named[p]] <= Returned(p).born]_vars

(* Callers share a client: one that is not too old is replaced only for a  *)
(* newer version of the tailnet, whoever races, and it is dropped only on  *)
(* request or when nobody was given it for MaxIdle.                        *)
ClientsShared ==
    [][\A t \in Tailnets : clients[t] # None =>
          IF clients'[t] = None
          THEN removed'[t] # removed[t] \/ now - handed[t] > MaxIdle
          ELSE \/ clients'[t] = [clients[t] EXCEPT !.used = clients'[t].used]
               \/ TooOld(clients[t])
               \/ clients[t].rv < clients'[t].rv]_vars

(* Every call returns, although calls to Kubernetes fail, under the lock   *)
(* too, and others compete for it.                                         *)
CallsReturn == \A p \in Calls : pc[p] = "rlock" ~> pc[p] \in Outside
=============================================================================
