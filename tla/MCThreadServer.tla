--------------------------- MODULE MCThreadServer ---------------------------
(* Instances of ThreadServer for TLC; the connections are numbers. *)
EXTENDS ThreadServer

\* Requests of one length, but for the first call of the second connection.
MixedLengths == [r \in Conns \X (1..MaxCalls) |-> IF r = <<2, 1>> THEN 80 ELSE 64]

\* All requests have the same length.
EqualLengths == [r \in Conns \X (1..MaxCalls) |-> 64]

\* Bounds on three connections: they are made in the order of their numbers,
\* and the second and the third make one call between them.  This only cuts off
\* connects and the beginning of calls, which no fairness condition is about.
FewCalls ==
  /\ calls[2] + calls[3] <= 1
  /\ \A c \in Conns \ {1} : cstate[c] # "new" => cstate[c - 1] # "new"
=============================================================================
