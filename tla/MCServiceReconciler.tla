------------------------ MODULE MCServiceReconciler ------------------------
(***************************************************************************)
(* Values for the constants of ServiceReconciler.                          *)
(***************************************************************************)
EXTENDS ServiceRefinement, TLC

CONSTANTS s1, s2, web, db, c1, c2, c3, a1, a2, a3

Plain(n, c) == [vip |-> n, cfg |-> c, proxy |-> FALSE, tailnet |-> FALSE]
Proxied(c, t) == [vip |-> None, cfg |-> c, proxy |-> TRUE, tailnet |-> t]

(* ns1/web and ns2/web share the default name svc:web. *)
WebForAll == [s \in Keys |-> web]

(* c3 has a port ValidateVIPService rejects. *)
RenameSpecs == {Plain(None, c1), Plain(None, c2), Plain(None, c3), Plain(db, c1)}
ProxySpecs == {Plain(None, c1), Proxied(c1, TRUE), Proxied(c1, FALSE)}
OneSpec == {Plain(None, c1)}

AddrSymmetry == Permutations(Addrs)
=============================================================================
