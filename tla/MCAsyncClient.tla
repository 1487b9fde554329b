---------------------------- MODULE MCAsyncClient ----------------------------
(* Instances of AsyncClient for TLC. *)
EXTENDS AsyncClient, TLC

Symmetry == Permutations(Calls)
==============================================================================
