---------------------------- MODULE PyClientPool ----------------------------
(***************************************************************************)
(* The Python named-pipe client and server (pysearpc/named_pipe.py).       *)
(*                                                                         *)
(* Threads of an application share one NamedPipeClient.  A call takes a    *)
(* transport from a bounded FIFO queue or connects a new one, sends the    *)
(* request on it, and puts it back after the whole response was read; on   *)
(* any exception the transport is dropped, and CPython closes its socket   *)
(* with the last reference.  NamedPipeServer starts a PipeHandlerThread    *)
(* for each connection.  Its process may be killed and started again.      *)
(*                                                                         *)
(* recvall and sendall (pysearpc/utils.py) transfer everything or raise    *)
(* NetworkError: a text of which only a part was sent is, for its reader,  *)
(* a text that never comes.                                                *)
(***************************************************************************)
EXTENDS Naturals, Sequences, FiniteSets

CONSTANTS
  Threads,         \* the application's threads
  MaxCalls,        \* bound: calls made by one thread
  MaxTransports,   \* bound: transports created
  PoolSize,        \* pool_size of the client
  Backlog,         \* the length of the listening socket's queue
  MaxKills,        \* bound: how often the server is killed
  Unserializable   \* the requests whose function returns what json.dumps rejects

ASSUME PoolAssumption ==
  /\ MaxCalls \in Nat /\ MaxTransports \in Nat /\ MaxKills \in Nat
  /\ PoolSize \in Nat \ {0} /\ Backlog \in Nat \ {0}
  /\ Unserializable \subseteq Threads \X Nat

\* Transports are numbered in the order of their creation; 0 is none.
Transports == 1..MaxTransports

None == 0

VARIABLES
  pool,      \* self._pool, a queue.Queue(pool_size)
  tpc,       \* where each thread is in call_remote_func_sync
  held,      \* its local variable transport
  calls,     \* how many calls it has begun
  result,    \* what its last call returned or raised
  made,      \* transports created so far
  sock,      \* the client's end of each transport's socket
  peer,      \* the server's end
  c2s, s2c,  \* the units in the socket
  up,        \* the server's process runs
  kills,     \* how often it was killed
  backlog,   \* connections not yet accepted
  hpc,       \* where each connection's PipeHandlerThread is in run
  hreq,      \* the request it handles
  latest,    \* accept_loop's variables connfd and t: the last one accepted
  executed   \* what the server has executed for each thread, in order

clientVars == <<pool, tpc, held, calls, result, made, sock>>
streamVars == <<peer, c2s, s2c>>
serverVars == <<up, kills, backlog, hpc, hreq, latest, executed>>
vars == <<clientVars, streamVars, serverVars>>

ThreadStates == {"gone", "idle", "connect", "header", "body", "resp_header", "resp", "return"}

\* The states in which a thread has a transport.
Holding == ThreadStates \ {"gone", "idle", "connect"}

HandlerStates == {"none", "header", "body", "call", "resp_header", "resp", "ended"}

\* A request is named by its thread and the number of its call.
Requests == Threads \X Nat

NoRequest == <<>>

Units == [part : {"header", "body"}, req : Requests]

\* "read": transport.send has returned, the call not yet; req is the request
\* whose response was read.
Outcomes == [kind : {"none", "pending", "read", "reply", "failed"},
             req : Requests \cup {NoRequest}]

Outcome(k, r) == [kind |-> k, req |-> r]

TypeOK ==
  /\ pool \in Seq(Transports) /\ Len(pool) <= PoolSize
  /\ tpc \in [Threads -> ThreadStates]
  /\ held \in [Threads -> Transports \cup {None}]
  /\ calls \in [Threads -> Nat]
  /\ result \in [Threads -> Outcomes]
  /\ made \in 0..MaxTransports
  /\ sock \in [Transports -> {"none", "open", "closed"}]
  /\ peer \in [Transports -> {"none", "open", "closed"}]
  /\ c2s \in [Transports -> Seq(Units)]
  /\ s2c \in [Transports -> Seq(Units)]
  /\ up \in BOOLEAN
  /\ kills \in Nat
  /\ backlog \in Seq(Transports)
  /\ hpc \in [Transports -> HandlerStates]
  /\ hreq \in [Transports -> Requests \cup {NoRequest}]
  /\ latest \in Transports \cup {None}
  /\ executed \in [Threads -> Seq(Nat)]

Init ==
  /\ pool = <<>>
  /\ tpc = [t \in Threads |-> "idle"]
  /\ held = [t \in Threads |-> None]
  /\ calls = [t \in Threads |-> 0]
  /\ result = [t \in Threads |-> Outcome("none", NoRequest)]
  /\ made = 0
  /\ sock = [s \in Transports |-> "none"]
  /\ peer = [s \in Transports |-> "none"]
  /\ c2s = [s \in Transports |-> <<>>]
  /\ s2c = [s \in Transports |-> <<>>]
  /\ up = TRUE /\ kills = 0 /\ backlog = <<>>
  /\ hpc = [s \in Transports |-> "none"]
  /\ hreq = [s \in Transports |-> NoRequest]
  /\ latest = None
  /\ executed = [t \in Threads |-> <<>>]

-----------------------------------------------------------------------------
(* NamedPipeClient.call_remote_func_sync.                                  *)

\* The request the thread is making.
Current(t) == <<t, calls[t]>>

Begin(t) ==
  /\ tpc[t] = "idle"
  /\ calls[t] < MaxCalls
  /\ calls' = [calls EXCEPT ![t] = @ + 1]
  /\ result' = [result EXCEPT ![t] = Outcome("pending", NoRequest)]

\* The call ends with an exception or a response.
End(t, r) ==
  /\ tpc' = [tpc EXCEPT ![t] = "idle"]
  /\ held' = [held EXCEPT ![t] = None]
  /\ result' = [result EXCEPT ![t] = r]

\* MUTANT of get_transport_Pooled: the transport stays in the queue.
Pooled_NotTaken(t) ==
  /\ Begin(t)
  /\ pool # <<>>
  /\ held' = [held EXCEPT ![t] = Head(pool)]
  /\ tpc' = [tpc EXCEPT ![t] = "header"]
  /\ UNCHANGED <<pool, made, sock, streamVars, serverVars>>

\* _get_transport, with a transport in the queue.
get_transport_Pooled(t) ==
  /\ Begin(t)
  /\ pool # <<>>
  /\ pool' = Tail(pool)
  /\ held' = [held EXCEPT ![t] = Head(pool)]
  /\ tpc' = [tpc EXCEPT ![t] = "header"]
  /\ UNCHANGED <<made, sock, streamVars, serverVars>>

\* _get_transport, queue.Empty.
get_transport_Empty(t) ==
  /\ Begin(t)
  /\ pool = <<>>
  /\ tpc' = [tpc EXCEPT ![t] = "connect"]
  /\ UNCHANGED <<pool, held, made, sock, streamVars, serverVars>>

\* _create_transport; connect blocks while the backlog is full.
create_transport(t) ==
  /\ tpc[t] = "connect"
  /\ up
  /\ Len(backlog) < Backlog
  /\ made < MaxTransports
  /\ made' = made + 1
  /\ sock' = [sock EXCEPT ![made + 1] = "open"]
  /\ peer' = [peer EXCEPT ![made + 1] = "open"]
  /\ backlog' = Append(backlog, made + 1)
  /\ held' = [held EXCEPT ![t] = made + 1]
  /\ tpc' = [tpc EXCEPT ![t] = "header"]
  /\ UNCHANGED <<pool, calls, result, c2s, s2c, up, kills, hpc, hreq, latest, executed>>

\* connect is refused: the exception leaves the call, and the new transport,
\* which nobody refers to, is gone.
create_transport_Refused(t) ==
  /\ tpc[t] = "connect"
  /\ ~up
  /\ End(t, Outcome("failed", NoRequest))
  /\ UNCHANGED <<pool, calls, made, sock, streamVars, serverVars>>

\* sendall of the header or of the body.
send_Write(t, part, next) ==
  /\ tpc[t] = part
  /\ peer[held[t]] = "open"
  /\ c2s' = [c2s EXCEPT ![held[t]] = Append(@, [part |-> part, req |-> Current(t)])]
  /\ tpc' = [tpc EXCEPT ![t] = next]
  /\ UNCHANGED <<pool, held, calls, result, made, sock, peer, s2c, serverVars>>

send_Header(t) == send_Write(t, "header", "body")

send_Body(t) == send_Write(t, "body", "resp_header")

\* recvall of the response's header.
send_RecvHeader(t) ==
  /\ tpc[t] = "resp_header"
  /\ s2c[held[t]] # <<>>
  /\ s2c' = [s2c EXCEPT ![held[t]] = Tail(@)]
  /\ tpc' = [tpc EXCEPT ![t] = "resp"]
  /\ UNCHANGED <<pool, held, calls, result, made, sock, peer, c2s, serverVars>>

\* recvall of the response's text.
send_RecvResp(t) ==
  /\ tpc[t] = "resp"
  /\ s2c[held[t]] # <<>>
  /\ s2c' = [s2c EXCEPT ![held[t]] = Tail(@)]
  /\ result' = [result EXCEPT ![t] = Outcome("read", Head(s2c[held[t]]).req)]
  /\ tpc' = [tpc EXCEPT ![t] = "return"]
  /\ UNCHANGED <<pool, held, calls, made, sock, peer, c2s, serverVars>>

\* The guard of send_NetworkError.
ServerGone(t) ==
  /\ tpc[t] \in {"header", "body", "resp_header", "resp"}
  /\ peer[held[t]] = "closed"
  /\ tpc[t] \in {"resp_header", "resp"} => s2c[held[t]] = <<>>

\* MUTANT of send_NetworkError: the transport is returned in a "finally".
NetworkError_Returned(t) ==
  /\ ServerGone(t)
  /\ Len(pool) < PoolSize
  /\ pool' = Append(pool, held[t])
  /\ End(t, Outcome("failed", NoRequest))
  /\ UNCHANGED <<calls, made, sock, streamVars, serverVars>>

\* MUTANT of send_NetworkError: the request is sent again on a new transport.
NetworkError_Retried(t) ==
  /\ ServerGone(t)
  /\ sock' = [sock EXCEPT ![held[t]] = "closed"]
  /\ tpc' = [tpc EXCEPT ![t] = "connect"]
  /\ held' = [held EXCEPT ![t] = None]
  /\ UNCHANGED <<pool, calls, result, made, streamVars, serverVars>>

\* MUTANT of send_NetworkError: recvall does not test for the end of file.
NetworkError_WritesOnly(t) ==
  /\ ServerGone(t)
  /\ tpc[t] \in {"header", "body"}
  /\ sock' = [sock EXCEPT ![held[t]] = "closed"]
  /\ End(t, Outcome("failed", NoRequest))
  /\ UNCHANGED <<pool, calls, made, streamVars, serverVars>>

\* sendall and recvall raise NetworkError on a connection the server has
\* closed, recvall after the last of what was sent: the transport is dropped.
send_NetworkError(t) ==
  /\ ServerGone(t)
  /\ sock' = [sock EXCEPT ![held[t]] = "closed"]
  /\ End(t, Outcome("failed", NoRequest))
  /\ UNCHANGED <<pool, calls, made, streamVars, serverVars>>

\* _return_transport, and the call returns what send returned.
return_transport_Put(t) ==
  /\ tpc[t] = "return"
  /\ Len(pool) < PoolSize
  /\ pool' = Append(pool, held[t])
  /\ End(t, Outcome("reply", result[t].req))
  /\ UNCHANGED <<calls, made, sock, streamVars, serverVars>>

\* MUTANT of return_transport_Full: a queue without a bound.
Full_Put(t) ==
  /\ tpc[t] = "return"
  /\ Len(pool) >= PoolSize
  /\ pool' = Append(pool, held[t])
  /\ End(t, Outcome("reply", result[t].req))
  /\ UNCHANGED <<calls, made, sock, streamVars, serverVars>>

\* _return_transport, queue.Full: transport.stop().
return_transport_Full(t) ==
  /\ tpc[t] = "return"
  /\ Len(pool) >= PoolSize
  /\ sock' = [sock EXCEPT ![held[t]] = "closed"]
  /\ End(t, Outcome("reply", result[t].req))
  /\ UNCHANGED <<pool, calls, made, streamVars, serverVars>>

call_remote_func_sync(t) ==
  \/ create_transport(t) \/ create_transport_Refused(t)
  \/ send_Header(t) \/ send_Body(t) \/ send_RecvHeader(t) \/ send_RecvResp(t)
  \/ send_NetworkError(t)
  \/ return_transport_Put(t) \/ return_transport_Full(t)

\* The application's process ends, wherever its threads are.
AppExits ==
  /\ \E t \in Threads : tpc[t] # "gone"
  /\ tpc' = [t \in Threads |-> "gone"]
  /\ held' = [t \in Threads |-> None]
  /\ pool' = <<>>
  /\ sock' = [s \in Transports |-> IF sock[s] = "open" THEN "closed" ELSE sock[s]]
  /\ UNCHANGED <<calls, result, made, streamVars, serverVars>>

-----------------------------------------------------------------------------
(* NamedPipeServer and PipeHandlerThread.                                  *)

\* accept_loop: the new connection takes the place of the last one in connfd
\* and t; if that one's thread has ended, this drops the last reference to its
\* socket.
accept_loop ==
  /\ up
  /\ backlog # <<>>
  /\ LET s == Head(backlog) IN
       /\ backlog' = Tail(backlog)
       /\ hpc' = [hpc EXCEPT ![s] = "header"]
       /\ latest' = s
       /\ peer' = [q \in Transports |->
                     IF q = latest /\ hpc[q] = "ended" THEN "closed" ELSE peer[q]]
  /\ UNCHANGED <<clientVars, c2s, s2c, up, kills, hreq, executed>>

\* An exception leaves run: the thread ends, and its socket is closed unless
\* accept_loop still refers to it.
Ends(s) ==
  /\ hpc' = [hpc EXCEPT ![s] = "ended"]
  /\ peer' = [peer EXCEPT ![s] = IF s = latest THEN "open" ELSE "closed"]

\* recvall of the request's header.
run_RecvHeader(s) ==
  /\ hpc[s] = "header"
  /\ c2s[s] # <<>>
  /\ c2s' = [c2s EXCEPT ![s] = Tail(@)]
  /\ hpc' = [hpc EXCEPT ![s] = "body"]
  /\ UNCHANGED <<clientVars, peer, s2c, up, kills, backlog, hreq, latest, executed>>

\* recvall of the request's text.
run_RecvBody(s) ==
  /\ hpc[s] = "body"
  /\ c2s[s] # <<>>
  /\ c2s' = [c2s EXCEPT ![s] = Tail(@)]
  /\ hreq' = [hreq EXCEPT ![s] = Head(c2s[s]).req]
  /\ hpc' = [hpc EXCEPT ![s] = "call"]
  /\ UNCHANGED <<clientVars, peer, s2c, up, kills, backlog, latest, executed>>

\* MUTANT of run_RecvEOF: the end of file is not seen inside a request.
RecvEOF_HeaderOnly(s) ==
  /\ hpc[s] = "header"
  /\ c2s[s] = <<>>
  /\ sock[s] = "closed"
  /\ Ends(s)
  /\ UNCHANGED <<clientVars, c2s, s2c, up, kills, backlog, hreq, latest, executed>>

\* recvall raises NetworkError at the end of file.
run_RecvEOF(s) ==
  /\ hpc[s] \in {"header", "body"}
  /\ c2s[s] = <<>>
  /\ sock[s] = "closed"
  /\ Ends(s)
  /\ UNCHANGED <<clientVars, c2s, s2c, up, kills, backlog, hreq, latest, executed>>

Execute(s) ==
  executed' = [executed EXCEPT ![hreq[s][1]] = Append(@, hreq[s][2])]

\* searpc_server.call_function: what the function raises is part of the
\* response.
run_Call(s) ==
  /\ hpc[s] = "call"
  /\ hreq[s] \notin Unserializable
  /\ Execute(s)
  /\ hpc' = [hpc EXCEPT ![s] = "resp_header"]
  /\ UNCHANGED <<clientVars, streamVars, up, kills, backlog, hreq, latest>>

\* json.dumps of the returned value is outside the try: its TypeError leaves
\* call_function and run.
run_CallRaises(s) ==
  /\ hpc[s] = "call"
  /\ hreq[s] \in Unserializable
  /\ Execute(s)
  /\ Ends(s)
  /\ UNCHANGED <<clientVars, c2s, s2c, up, kills, backlog, hreq, latest>>

\* sendall of the response's header or of its text.
run_Write(s, pc, part, next) ==
  /\ hpc[s] = pc
  /\ sock[s] = "open"
  /\ s2c' = [s2c EXCEPT ![s] = Append(@, [part |-> part, req |-> hreq[s]])]
  /\ hpc' = [hpc EXCEPT ![s] = next]
  /\ UNCHANGED <<clientVars, peer, c2s, up, kills, backlog, hreq, latest, executed>>

run_SendHeader(s) == run_Write(s, "resp_header", "header", "resp")

run_SendResp(s) == run_Write(s, "resp", "body", "header")

\* sendall raises NetworkError: the client's end is closed.
run_SendFails(s) ==
  /\ hpc[s] \in {"resp_header", "resp"}
  /\ sock[s] = "closed"
  /\ Ends(s)
  /\ UNCHANGED <<clientVars, c2s, s2c, up, kills, backlog, hreq, latest, executed>>

PipeHandlerThread(s) ==
  \/ run_RecvHeader(s) \/ run_RecvBody(s) \/ run_RecvEOF(s)
  \/ run_Call(s) \/ run_CallRaises(s)
  \/ run_SendHeader(s) \/ run_SendResp(s) \/ run_SendFails(s)

\* The server's process is killed: its threads and its sockets are gone.
Kill ==
  /\ up
  /\ kills < MaxKills
  /\ up' = FALSE
  /\ kills' = kills + 1
  /\ backlog' = <<>>
  /\ peer' = [s \in Transports |-> IF peer[s] = "open" THEN "closed" ELSE peer[s]]
  /\ hpc' = [s \in Transports |-> IF hpc[s] = "none" THEN "none" ELSE "ended"]
  /\ latest' = None
  /\ UNCHANGED <<clientVars, c2s, s2c, hreq, executed>>

\* start: init_socket removes the old socket file and binds a new one.
start ==
  /\ ~up
  /\ up' = TRUE
  /\ UNCHANGED <<clientVars, streamVars, kills, backlog, hpc, hreq, latest, executed>>

Next ==
  \/ \E t \in Threads :
       get_transport_Pooled(t) \/ get_transport_Empty(t) \/ call_remote_func_sync(t)
  \/ AppExits
  \/ accept_loop
  \/ \E s \in Transports : PipeHandlerThread(s)
  \/ Kill
  \/ start

Spec == Init /\ [][Next]_vars

\* Threads run; nothing makes the application call or exit, and nothing makes
\* the server be killed or started.
Fairness ==
  /\ \A t \in Threads : WF_vars(call_remote_func_sync(t))
  /\ WF_vars(accept_loop)
  /\ \A s \in Transports : WF_vars(PipeHandlerThread(s))

FairSpec == Spec /\ Fairness

-----------------------------------------------------------------------------
(* Properties.                                                             *)

Pooled == {pool[i] : i \in DOMAIN pool}

\* Two threads never use the same transport, a transport in use is not in the
\* pool, none is in the pool twice, both kinds are open, and an open socket is
\* always in the pool or in use: none leaks, on exceptions and with a full
\* pool too (named_pipe.py:78-100).
TransportsExclusive ==
  /\ \A i, j \in DOMAIN pool : pool[i] = pool[j] => i = j
  /\ \A t \in Threads : tpc[t] \in Holding =>
       /\ held[t] \notin Pooled
       /\ \A u \in Threads : tpc[u] \in Holding /\ held[u] = held[t] => u = t
  /\ \A s \in Transports :
       sock[s] = "open" <=>
         s \in Pooled \cup {held[t] : t \in {u \in Threads : tpc[u] \in Holding}}

\* A transport in the pool has nothing in flight: both streams are empty, and
\* the server's thread waits for the next request, unless the server that had
\* the connection is gone (named_pipe.py:51-69, 83-100, 151-166).
PooledIsQuiet ==
  \A s \in Pooled :
    /\ c2s[s] = <<>> /\ s2c[s] = <<>>
    /\ hpc[s] = "header" \/ peer[s] = "closed"

\* What a caller can tell: the response to another thread's call is none of
\* its own calls'.
CallerSees(t) ==
  LET r == result[t] IN
  IF r.kind = "read" THEN [kind |-> "pending", call |-> 0] ELSE
  IF r.kind = "reply" THEN [kind |-> "reply", call |-> IF r.req[1] = t THEN r.req[2] ELSE 0]
                      ELSE [kind |-> r.kind, call |-> 0]

Service == INSTANCE RpcService WITH
  Conns <- Threads, result <- [t \in Threads |-> CallerSees(t)]

\* For each thread of the application the shared client is the service that
\* one connection of its own would be, over any restarts: a call is executed
\* at most once and in order, and returns its own response or an exception
\* (named_pipe.py:51-69, 83-100, 151-166).
Implements == Service!Spec

\* Open transports whose server's end is closed.
Stale == {s \in Transports : sock[s] = "open" /\ peer[s] = "closed"}

\* After a restart every connection of the old server costs one failed call:
\* while a server runs, a transport goes stale only if its handler raised, and
\* a call fails only by using up a stale transport (named_pipe.py:78-100).
StaleFailsOnce ==
  [][up => /\ up' => \A s \in Stale' \ Stale : hreq[s] \in Unserializable
           /\ \A t \in Threads :
                result'[t].kind = "failed" /\ result[t].kind # "failed" =>
                  held[t] \in Stale /\ held[t] \notin Stale']_vars

\* The handler of the thread's call has raised, and accept_loop still refers to
\* the socket: the thread waits for a response that nobody will send.
Abandoned(t) ==
  /\ Current(t) \in Unserializable
  /\ tpc[t] \in Holding /\ held[t] = latest /\ hpc[latest] = "ended"

\* A call returns or raises, whatever becomes of the server and of the calls of
\* other threads, with one exception: the call whose result cannot be serialized
\* on the connection accepted last, while no other connection is accepted and
\* the server is not killed (named_pipe.py:51-69, 96-100, 136-166, utils.py:6-36).
CallsReturn ==
  \A t \in Threads :
    result[t].kind = "pending" ~>
      (tpc[t] = "gone" \/ result[t].kind \in {"reply", "failed"} \/ []Abandoned(t))

\* The thread that serves a transport the client has closed ends
\* (named_pipe.py:151-156).
ClosedIsServedNoMore ==
  \A s \in Transports : sock[s] = "closed" ~> hpc[s] \in {"none", "ended"}
=============================================================================
