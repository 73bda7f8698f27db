----------------------------- MODULE MCRpcCall -----------------------------
(* Small instances of RpcCall.                                             *)
EXTENDS RpcCall, FiniteSets, TLC

AllNodes == {Addrs}
SomeNodes == {{}, Addrs}
Symmetry == Permutations(Calls) \cup Permutations(Conns)

(* One call at most goes on to its second try: the other shows what retries *)
(* do to those who share the pool.                                         *)
OneRetries == Cardinality({k \in Calls : try[k] > 0}) <= 1
=============================================================================
