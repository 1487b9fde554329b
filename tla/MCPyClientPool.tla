--------------------------- MODULE MCPyClientPool ---------------------------
(* Instances of PyClientPool for TLC; the threads are numbers. *)
EXTENDS PyClientPool

\* The second call of thread 1 returns what cannot be serialized.
OneBadCall == {<<1, 2>>}
=============================================================================
