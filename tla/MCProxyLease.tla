----------------------------- MODULE MCProxyLease -----------------------------
(* ProxyLease with the values TLC needs. *)
EXTENDS ProxyLease, TLC

CONSTANTS f1, f2, n1, n2

TwoFlows == {f1, f2}
TwoNodes == {n1, n2}
ProxySymmetry == Permutations(TwoFlows) \union Permutations(TwoNodes)
=============================================================================
