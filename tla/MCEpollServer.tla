--------------------------- MODULE MCEpollServer ---------------------------
(* Instances of EpollServer for TLC. *)
EXTENDS EpollServer, TLC

\* Connections, workers and descriptors are interchangeable.
Symmetry == Permutations(Conns) \cup Permutations(Workers) \cup Permutations(Fds)

\* Bound: only one connection makes all of its MaxCalls calls.
FewCalls == Cardinality({c \in Conns : calls[c] = MaxCalls}) <= 1
=============================================================================
