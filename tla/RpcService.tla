----------------------------- MODULE RpcService -----------------------------
(***************************************************************************)
(* What the named-pipe transport promises to the two ends of a connection, *)
(* whatever the threads, the descriptors and the streams in between:       *)
(* a connection carries one call at a time; the server executes a call at  *)
(* most once and in the order of the calls; a caller that gets a response  *)
(* gets the one to its own call, after the call was executed.  A call may  *)
(* fail at any time, before or after it was executed.                      *)
(***************************************************************************)
EXTENDS Naturals, Sequences

CONSTANT Conns

VARIABLES
  calls,      \* calls begun on each connection
  executed,   \* the calls the server has executed, in order
  result      \* what the last call returned, or that it has not returned

vars == <<calls, executed, result>>

Outcome(k, n) == [kind |-> k, call |-> n]

Init ==
  /\ calls = [c \in Conns |-> 0]
  /\ executed = [c \in Conns |-> <<>>]
  /\ result = [c \in Conns |-> Outcome("none", 0)]

\* The last call executed on c; 0 if none was.
LastExecuted(c) == IF executed[c] = <<>> THEN 0 ELSE executed[c][Len(executed[c])]

\* A call begins when none is in progress; it may fail on the spot.
Call(c) ==
  /\ result[c].kind # "pending"
  /\ calls' = [calls EXCEPT ![c] = @ + 1]
  /\ \E r \in {Outcome("pending", 0), Outcome("failed", 0)} :
        result' = [result EXCEPT ![c] = r]
  /\ UNCHANGED executed

Execute(c) ==
  /\ LastExecuted(c) < calls[c]
  /\ executed' = [executed EXCEPT ![c] = Append(@, calls[c])]
  /\ UNCHANGED <<calls, result>>

Reply(c) ==
  /\ result[c].kind = "pending"
  /\ LastExecuted(c) = calls[c]
  /\ result' = [result EXCEPT ![c] = Outcome("reply", calls[c])]
  /\ UNCHANGED <<calls, executed>>

Fail(c) ==
  /\ result[c].kind = "pending"
  /\ result' = [result EXCEPT ![c] = Outcome("failed", 0)]
  /\ UNCHANGED <<calls, executed>>

Next == \E c \in Conns : Call(c) \/ Execute(c) \/ Reply(c) \/ Fail(c)

Spec == Init /\ [][Next]_vars
=============================================================================
