----------------------------- MODULE MCRpcProxy -----------------------------
(* Small instances of RpcProxy. *)
EXTENDS RpcProxy, TLC

CONSTANTS r1, r2
RequestSymmetry == Permutations({r1, r2})
=============================================================================
