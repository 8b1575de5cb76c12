------------------------- MODULE TailnetProperties -------------------------
(***************************************************************************)
(* What the TailscaleTailnet controller must do, and what its API says and *)
(* it does not do.                                                         *)
(***************************************************************************)
EXTENDS TailnetReconciler

Live(k) == api[k].phase = "live"

(* Every validation key left in a tailnet is due to something that went    *)
(* wrong, once: a lost answer, a failed deletion, revoked credentials or a *)
(* crash between CreateKey and DeleteKey.                                  *)
KeysAccountedFor == keys <= faults + (IF pc = "deleteKey" THEN 1 ELSE 0)

(* The domains DiscoverTailnetInfo may find with a set of credentials:     *)
(* the tailnet's own, or none when a device may have a name without one.   *)
DomainsOf(c) == {Domain[c]} \cup (IF Domain[c] \in Undotted THEN {Empty} ELSE {})

(* A status is published that says Validated, for a spec with a secret     *)
(* that does not change.                                                   *)
DomainWritten(k) ==
    /\ api'[k].status # api[k].status
    /\ api'[k].status.validated = "True"
    /\ api'[k].spec.secret \notin Rotating

(* The object's status is of the tailnet of the secret its spec names.     *)
OfNamedSecret(o) ==
    /\ o.spec.named /\ secrets[o.spec.secret] \in Credentials
    /\ o.status.domain \in DomainsOf(secrets[o.spec.secret])

(* With a secret that does not change, a status that is Validated names    *)
(* the tailnet of the secret the spec names when the status is written,    *)
(* though the secret was read several calls before; or no tailnet, if its  *)
(* first device can have a name without a domain.  A spec without the      *)
(* secret's namespace never gets that far.                                 *)
DomainOfNamedSecret == [][\A k \in Keys : DomainWritten(k) => OfNamedSecret(api'[k])]_vars

(* A deletion completes: whether the object goes before the controller got *)
(* to add its finalizer, while it works on the object, or has to outlast   *)
(* another finalizer that keeps AddFinalizer failing.                      *)
DeletionCompletes ==
    \A k \in Keys : api[k].phase = "deleting" ~> api[k].phase # "deleting"

Usable(k) ==
    Live(k) /\ api[k].spec.named /\ secrets[api[k].spec.secret] \in accepted

(* Once all rests, an object with usable credentials is reported connected *)
(* to their tailnet, also when the secret came or was rotated later, of    *)
(* which the controller is not told, and with its domain, if the name of   *)
(* the first device has one.                                               *)
ConnectionReported ==
    <>[](\A k \in Keys : Usable(k) =>
            /\ api[k].status.authenticated = "True" /\ api[k].status.ready = "True"
            /\ devices[Domain[secrets[api[k].spec.secret]]] = "dotted" =>
                  api[k].status.domain = Domain[secrets[api[k].spec.secret]])

(* "TailnetReady indicates that the tailnet connection is ready and        *)
(* functional": once all rests, Ready is not claimed with credentials that *)
(* are missing or refused.                                                 *)
ReadyMeansFunctional ==
    <>[](\A k \in Keys : Live(k) /\ api[k].status.ready = "True" => Usable(k))

(***************************************************************************)
(* Why the safety properties hold: the inductive invariant                 *)
(***************************************************************************)
(* The cache shows the API server's object unless an event is on its way.  *)
CacheInSync == \A k \in Keys : k \notin stale => cache[k] = api[k]

(* A copy that can still be written back is the API server's object, but   *)
(* for the status the worker is filling in.                                *)
CopyInSync ==
    pc # "idle" /\ ~conflict =>
        /\ cur \notin stale
        /\ obj.phase = api[cur].phase /\ obj.spec = api[cur].spec

HasSecret(o) == o.phase # "absent" => o.spec \in SpecType

SpecNamesSecret ==
    /\ \A k \in Keys : HasSecret(api[k]) /\ HasSecret(cache[k])
    /\ pc # "idle" => obj.phase # "absent" /\ obj.spec \in SpecType

(* Of secrets that never rotate the informer lags only for new ones, and   *)
(* the credentials in use are those of the secret the worker's copy names, *)
(* with its namespace.                                                     *)
CredentialsOfSecret ==
    /\ \A n \in SecretNames \ Rotating : seen[n] \in {secrets[n], None}
    /\ pc \in {"createKey", "deleteKey", "discover"} =>
          /\ cred \in Credentials /\ obj.spec.named
          /\ obj.spec.secret \notin Rotating => secrets[obj.spec.secret] = cred
    /\ pc = "status" /\ obj.status.validated = "True" =>
          /\ obj.spec.named
          /\ obj.spec.secret \notin Rotating =>
                /\ secrets[obj.spec.secret] \in Credentials
                /\ obj.status.domain \in DomainsOf(secrets[obj.spec.secret])

(* A key in the making is deleted unless its credentials were revoked,     *)
(* which was a fault.                                                      *)
KeysBacked ==
    keys <= faults + (IF pc = "deleteKey" /\ cred \in accepted THEN 1 ELSE 0)

KeyToDelete == pc = "deleteKey" => keys > 0

IInv ==
    /\ TypeOK /\ CacheInSync /\ CopyInSync /\ SpecNamesSecret /\ CredentialsOfSecret
    /\ KeysBacked /\ KeyToDelete
=============================================================================
