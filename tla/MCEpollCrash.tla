---------------------------- MODULE MCEpollCrash ----------------------------
(* Instances of EpollCrash for TLC. *)
EXTENDS EpollCrash

\* Bound: one connection makes all its MaxCalls calls, the others fewer.  It
\* only cuts off the beginning of calls, which no fairness condition is about.
FewCalls == \A c \in Conns : calls[c] = MaxCalls => c = CHOOSE d \in Conns : TRUE
=============================================================================
