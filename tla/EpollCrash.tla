----------------------------- MODULE EpollCrash -----------------------------
(***************************************************************************)
(* The epoll server and its clients when the server's process may be       *)
(* killed at any moment, and started again (searpc_named_pipe_server_start *)
(* unlinks the old socket and binds a new one).  The kernel closes every   *)
(* descriptor of the dead process; nothing of its memory survives, and no  *)
(* client of the library connects a second time.                           *)
(***************************************************************************)
EXTENDS EpollServer

CONSTANT MaxCrashes   \* bound: how often the process is killed

ASSUME CrashAssumption == MaxCrashes \in Nat

VARIABLES
  alive,     \* the server's process runs
  crashes    \* how often it was killed

crashVars == <<vars, alive, crashes>>

CrashInit == Init /\ alive = TRUE /\ crashes = 0

\* The connections on which the dying process may leave half a response.
Writing == {Sock(w) : w \in {v \in Workers : wpc[v] = "wtext"}}

\* What the client of c sees: the reset of a connection that nobody accepted
\* or that has unread requests, else end of file.
PeerAfterKill(c) ==
  IF \E i \in 1..Len(backlog) : backlog[i] = c THEN "reset"
  ELSE IF heap[c] = "live" THEN IF c2s[c] = <<>> THEN "eof" ELSE "reset"
  ELSE peer[c]

Kill ==
  /\ alive
  /\ crashes < MaxCrashes
  /\ alive' = FALSE
  /\ crashes' = crashes + 1
  /\ \E cut \in SUBSET Writing :
       s2c' = [c \in Conns |->
                 IF c \in cut
                   THEN Append(s2c[c], [part |-> "cut", call |-> calls[c]])
                   ELSE s2c[c]]
  /\ peer' = [c \in Conns |-> PeerAfterKill(c)]
  /\ backlog' = <<>>
  /\ heap' = [c \in Conns |-> IF heap[c] = "live" THEN "freed" ELSE heap[c]]
  /\ connfd' = [c \in Conns |-> None]
  /\ fdtab' = [f \in Fds |-> None]
  /\ reg' = [f \in Fds |-> None]
  /\ events' = {} /\ accepting' = FALSE /\ pool' = <<>>
  /\ wpc' = [w \in Workers |-> "idle"]
  /\ wdata' = [w \in Workers |-> None]
  /\ wfd' = [w \in Workers |-> None]
  /\ wreq' = [w \in Workers |-> 0]
  /\ wret' = [w \in Workers |-> 0]
  /\ UNCHANGED <<clientVars, c2s, executed>>

\* A new process: the old socket file is deleted and a new one is bound.
searpc_named_pipe_server_start ==
  /\ ~alive
  /\ alive' = TRUE
  /\ UNCHANGED <<vars, crashes>>

\* Without a process at the other end connect() is refused.
Step ==
  /\ Next
  /\ alive \/ (serverVars' = serverVars /\ backlog' = backlog)
  /\ UNCHANGED <<alive, crashes>>

CrashNext == Step \/ Kill \/ searpc_named_pipe_server_start

CrashSpec == CrashInit /\ [][CrashNext]_crashVars

\* Both ends run: the listener, each worker, and a client inside a call are
\* threads the scheduler does not starve, the server's as long as it lives.
\* epoll_wait rotates the list of ready sockets, so that a socket that stays
\* ready is reported in the end even if every batch is full.  Nothing makes an
\* application connect, begin a call, free its client or die, and nothing makes
\* the server be killed or started.
Running(A) == A /\ alive /\ UNCHANGED <<alive, crashes>>

CrashFairness ==
  /\ WF_crashVars(Running(epoll_listen))
  /\ \A d \in Conns \cup {pipe_fd} :
        SF_crashVars(Running(epoll_listen_Wait /\ \E e \in events' : e.data = d))
  /\ \A w \in Workers : WF_crashVars(Running(\/ handle_named_pipe_client_with_threadpool(w)
                                             \/ epoll_handler(w)))
  /\ \A c \in Conns : WF_crashVars(searpc_named_pipe_send(c)
                                     /\ UNCHANGED <<serverVars, alive, crashes>>)

FairCrashSpec == CrashSpec /\ CrashFairness

-----------------------------------------------------------------------------
\* Whatever is killed and restarted, a connection's calls are executed at most
\* once and in order, and a response a caller gets is the response to its own
\* call, which was executed (transport.c:229-298, 623-662): no request and no
\* half-read response is left in a socket for the next call to find.
OwnReplyAtMostOnce ==
  \A c \in Conns :
    /\ \A i, j \in DOMAIN executed[c] : i < j => executed[c][i] < executed[c][j]
    /\ result[c].kind = "reply" =>
         /\ result[c].call = calls[c]
         /\ \E i \in DOMAIN executed[c] : executed[c][i] = calls[c]

\* A call returns, if only with an error, unless its process dies: with fewer
\* workers than connections, with batches smaller than the number of ready
\* sockets, and on a server that is killed in the middle of it
\* (transport.c:300-378, 647, 654).
CallsReturn ==
  \A c \in Conns : result[c].kind = "pending"
                     ~> (result[c].kind # "pending" \/ cstate[c] = "gone")

\* The data and the descriptor of a client that is gone are reclaimed
\* wherever its connection was when it went (transport.c:293-296, 353-358).
GoneIsReclaimed ==
  \A c \in Conns : (cstate[c] = "gone" /\ heap[c] = "live") ~> heap[c] = "freed"

\* lib/searpc-client.h:139 of every failure of the transport: "in case of
\* transport error, the following code and message will be set in GError".
\* A caller is never handed a buffer that holds no response.
TransportErrorReported == \A c \in Conns : result[c].kind # "garbage"
=============================================================================
