---------------------------- MODULE MCRpcServer -----------------------------
(* Instances of RpcServer for TLC. *)
EXTENDS RpcServer, TLC

\* Threads are interchangeable, and so are rotators.
Symmetry == Permutations(Threads) \cup Permutations(Rotators)
=============================================================================
