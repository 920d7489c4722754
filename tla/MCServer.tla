----------------------------- MODULE MCServer -----------------------------
(* Server on a small set of connections, with its connections symmetric.   *)
EXTENDS Server, TLC

ConnSymmetry == Permutations(Conns)
=============================================================================
