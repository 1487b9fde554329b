----------------------------- MODULE EpollServer -----------------------------
(***************************************************************************)
(* The named-pipe server in its epoll mode (server->use_epoll):            *)
(* the listener thread of epoll_listen, and the threads that run           *)
(* epoll_handler, one request at a time, for the connections the listener  *)
(* hands to them (lib/searpc-named-pipe-transport.c).                      *)
(*                                                                         *)
(* A connection's ServerHandlerData is allocated when it is accepted and   *)
(* travels as a bare pointer: in the epoll registration, in the events     *)
(* epoll_wait copied out, in the pool's queue, in the hands of a worker.   *)
(* There is no reference count and no lock; what the pointer is worth      *)
(* depends on the order of EPOLL_CTL_DEL, the push, EPOLL_CTL_ADD, close   *)
(* and g_free.  A connection is accepted once, so the model names the      *)
(* allocation after the connection.                                        *)
(***************************************************************************)
EXTENDS NamedPipeClient, Integers, FiniteSets

CONSTANTS
  Workers,     \* the pool's threads (without a pool: one per connection)
  Fds,         \* the descriptors the process may have open for connections
  MAX_EVENTS,  \* events one epoll_wait may return
  pipe_fd,     \* the event data of the listening socket
  None

\* epoll_data is a union: events[i].data.fd is compared with pipe_fd even
\* when data.ptr was stored.  The model assumes, as the code does, that no
\* ServerHandlerData pointer looks like that descriptor.
ASSUME EpollAssumption ==
  /\ pipe_fd \notin Conns
  /\ None \notin Conns /\ None \notin Fds
  /\ MAX_EVENTS \in Nat \ {0}

VARIABLES
  fdtab,      \* the socket behind each descriptor
  heap,       \* each connection's ServerHandlerData: none, live or freed
  connfd,     \* its connfd field
  reg,        \* the epoll instance: the pointer registered for a descriptor
  events,     \* events returned by epoll_wait, not yet handled
  accepting,  \* the listener is in its accept loop
  pool,       \* the GThreadPool's queue of pushed pointers
  wpc,        \* where each worker is in epoll_handler
  wdata,      \* its handler_data
  wfd,        \* its local connfd
  wreq,       \* the call whose request it has read
  wret        \* its local ret

listenVars == <<reg, events, accepting, pool>>
workerVars == <<wpc, wdata, wfd, wreq, wret>>
serverVars == <<fdtab, heap, connfd, listenVars, workerVars, executed>>
vars       == <<pipeVars, serverVars>>

Events == [data : Conns \cup {pipe_fd}, hup : BOOLEAN]

WorkerStates == {"idle", "len", "text", "call", "wlen", "wtext", "add", "out"}

TypeOK ==
  /\ PipeTypeOK
  /\ fdtab \in [Fds -> Conns \cup {None}]
  /\ heap \in [Conns -> {"none", "live", "freed"}]
  /\ connfd \in [Conns -> Fds \cup {None}]
  /\ reg \in [Fds -> Conns \cup {None}]
  /\ events \in SUBSET Events
  /\ accepting \in BOOLEAN
  /\ pool \in Seq(Conns)
  /\ wpc \in [Workers -> WorkerStates]
  /\ wdata \in [Workers -> Conns \cup {None}]
  /\ wfd \in [Workers -> Fds \cup {None}]
  /\ wreq \in [Workers -> Nat]
  /\ wret \in [Workers -> {0, -1}]
  /\ executed \in [Conns -> Seq(Nat)]

Init ==
  /\ PipeInit
  /\ fdtab = [f \in Fds |-> None]
  /\ heap = [c \in Conns |-> "none"]
  /\ connfd = [c \in Conns |-> None]
  /\ reg = [f \in Fds |-> None]
  /\ events = {}
  /\ accepting = FALSE
  /\ pool = <<>>
  /\ wpc = [w \in Workers |-> "idle"]
  /\ wdata = [w \in Workers |-> None]
  /\ wfd = [w \in Workers |-> None]
  /\ wreq = [w \in Workers |-> 0]
  /\ wret = [w \in Workers |-> 0]
  /\ executed = [c \in Conns |-> <<>>]

-----------------------------------------------------------------------------
(* System calls and allocation.                                            *)

\* close(f): the peer sees it, and epoll forgets the descriptor.
CloseFd(f) ==
  /\ fdtab' = [fdtab EXCEPT ![f] = None]
  /\ reg' = [reg EXCEPT ![f] = None]
  /\ IF fdtab[f] = None THEN UNCHANGED peer ELSE HangUp(fdtab[f])

\* g_free(d): its fields are gone with it.
Free(d) ==
  /\ heap' = [heap EXCEPT ![d] = "freed"]
  /\ connfd' = [connfd EXCEPT ![d] = None]

FreeFds == {f \in Fds : fdtab[f] = None}

\* The sockets with something to report, as epoll_wait would report them now:
\* the listening socket if a connection waits, a registered socket if it has
\* bytes to read or its peer is gone.  Registrations are level-triggered.
ReadyEvents ==
  {[data |-> pipe_fd, hup |-> FALSE] : x \in {y \in {1} : backlog # <<>>}}
  \cup
  {[data |-> reg[f], hup |-> cstate[fdtab[f]] = "gone"] :
     f \in {g \in Fds : /\ reg[g] # None
                        /\ \/ c2s[fdtab[g]] # <<>>
                           \/ cstate[fdtab[g]] = "gone"}}

-----------------------------------------------------------------------------
(* The listener thread: epoll_listen.                                      *)

\* epoll_wait returns at most MAX_EVENTS of the events there are.
epoll_listen_Wait ==
  /\ events = {}
  /\ ~accepting
  /\ ReadyEvents # {}
  /\ \E batch \in SUBSET ReadyEvents :
       /\ IF Cardinality(ReadyEvents) <= MAX_EVENTS
             THEN batch = ReadyEvents
             ELSE Cardinality(batch) = MAX_EVENTS
       /\ events' = batch
  /\ UNCHANGED <<pipeVars, fdtab, heap, connfd, reg, accepting, pool,
                 workerVars, executed>>

\* The event of the listening socket: enter the accept loop.
epoll_listen_NewClient(e) ==
  /\ e \in events
  /\ ~accepting
  /\ e.data = pipe_fd
  /\ events' = events \ {e}
  /\ accepting' = TRUE
  /\ UNCHANGED <<pipeVars, fdtab, heap, connfd, reg, pool, workerVars, executed>>

\* MUTANT of epoll_listen_Accept: the result of accept is not tested.
Accept_Unchecked(f) ==
  /\ accepting
  /\ backlog # <<>>
  /\ f \in FreeFds \/ FreeFds = {}
  /\ LET c  == Head(backlog)
         fd == IF f \in FreeFds THEN f ELSE -1
     IN  /\ fdtab' = IF fd = -1 THEN fdtab ELSE [fdtab EXCEPT ![fd] = c]
         /\ heap' = [heap EXCEPT ![c] = "live"]
         /\ connfd' = [connfd EXCEPT ![c] = fd]
         /\ reg' = IF fd = -1 THEN reg ELSE [reg EXCEPT ![fd] = c]
  /\ backlog' = Tail(backlog)
  /\ UNCHANGED <<clientVars, c2s, s2c, peer, events, accepting, pool,
                 workerVars, executed>>

\* One turn of the accept loop: a descriptor, a ServerHandlerData, and its
\* registration.
epoll_listen_Accept(f) ==
  /\ accepting
  /\ backlog # <<>>
  /\ f \in FreeFds
  /\ LET c == Head(backlog)
     IN  /\ fdtab' = [fdtab EXCEPT ![f] = c]
         /\ heap' = [heap EXCEPT ![c] = "live"]
         /\ connfd' = [connfd EXCEPT ![c] = f]
         /\ reg' = [reg EXCEPT ![f] = c]
  /\ backlog' = Tail(backlog)
  /\ UNCHANGED <<clientVars, c2s, s2c, peer, events, accepting, pool,
                 workerVars, executed>>

\* EPOLL_CTL_ADD fails: the new connection is closed and its data freed.
epoll_listen_AcceptAddFails(f) ==
  /\ accepting
  /\ backlog # <<>>
  /\ f \in FreeFds
  /\ LET c == Head(backlog)
     IN  Free(c) /\ HangUp(c)
  /\ backlog' = Tail(backlog)
  /\ UNCHANGED <<clientVars, c2s, s2c, fdtab, listenVars, workerVars, executed>>

\* accept fails, with EAGAIN once the backlog is empty, with EMFILE when no
\* descriptor is left: the loop ends and waiting connections stay queued.
epoll_listen_AcceptEnds ==
  /\ accepting
  /\ backlog = <<>> \/ FreeFds = {}
  /\ accepting' = FALSE
  /\ UNCHANGED <<pipeVars, fdtab, heap, connfd, reg, events, pool, workerVars,
                 executed>>

\* MUTANT of epoll_listen_Hup: the socket is not closed.
Hup_NoClose(e) ==
  /\ e \in events
  /\ ~accepting
  /\ e.data # pipe_fd /\ e.hup
  /\ events' = events \ {e}
  /\ Free(e.data)
  /\ reg' = [reg EXCEPT ![connfd[e.data]] = None]
  /\ UNCHANGED <<clientVars, c2s, s2c, peer, fdtab, backlog, accepting, pool,
                 workerVars, executed>>

\* The peer hung up: free the data, drop the registration, close the socket.
\* Bytes the socket still holds are never read.
epoll_listen_Hup(e) ==
  /\ e \in events
  /\ ~accepting
  /\ e.data # pipe_fd /\ e.hup
  /\ events' = events \ {e}
  /\ Free(e.data)
  /\ CloseFd(connfd[e.data])
  /\ UNCHANGED <<clientVars, c2s, s2c, backlog, accepting, pool, workerVars,
                 executed>>

\* MUTANT of epoll_listen_Dispatch: the socket stays registered.
Dispatch_NoDel(e) ==
  /\ e \in events
  /\ ~accepting
  /\ e.data # pipe_fd /\ ~e.hup
  /\ events' = events \ {e}
  /\ pool' = Append(pool, e.data)
  /\ UNCHANGED <<pipeVars, fdtab, heap, connfd, reg, accepting, workerVars, executed>>

\* The socket is readable: take it out of epoll and hand it to a worker.
epoll_listen_Dispatch(e) ==
  /\ e \in events
  /\ ~accepting
  /\ e.data # pipe_fd /\ ~e.hup
  /\ events' = events \ {e}
  /\ reg' = [reg EXCEPT ![connfd[e.data]] = None]
  /\ pool' = Append(pool, e.data)
  /\ UNCHANGED <<pipeVars, fdtab, heap, connfd, accepting, workerVars, executed>>

epoll_listen ==
  \/ epoll_listen_Wait
  \/ \E e \in events : \/ epoll_listen_NewClient(e)
                       \/ epoll_listen_Hup(e)
                       \/ epoll_listen_Dispatch(e)
  \/ \E f \in Fds : epoll_listen_Accept(f) \/ epoll_listen_AcceptAddFails(f)
  \/ epoll_listen_AcceptEnds

-----------------------------------------------------------------------------
(* The worker threads: epoll_handler.                                      *)

Goto(w, label) == wpc' = [wpc EXCEPT ![w] = label]

\* "ret = -1; goto out"
GotoOut(w) ==
  /\ Goto(w, "out")
  /\ wret' = [wret EXCEPT ![w] = -1]

\* The socket behind worker w's connfd.
Sock(w) == fdtab[wfd[w]]

\* A free thread of the pool takes the oldest pointer.
handle_named_pipe_client_with_threadpool(w) ==
  /\ wpc[w] = "idle"
  /\ pool # <<>>
  /\ Goto(w, "len")
  /\ wdata' = [wdata EXCEPT ![w] = Head(pool)]
  /\ wfd' = [wfd EXCEPT ![w] = connfd[Head(pool)]]
  /\ pool' = Tail(pool)
  /\ UNCHANGED <<pipeVars, fdtab, heap, connfd, reg, events, accepting, wreq,
                 wret, executed>>

epoll_handler_ReadLen(w) ==
  /\ wpc[w] = "len"
  /\ c2s[Sock(w)] # <<>>
  /\ Goto(w, "text")
  /\ c2s' = Take(c2s, Sock(w))
  /\ UNCHANGED <<clientVars, s2c, peer, backlog, fdtab, heap, connfd, listenVars,
                 wdata, wfd, wreq, wret, executed>>

\* A whole text is read and parses.
epoll_handler_ReadText(w) ==
  /\ wpc[w] = "text"
  /\ c2s[Sock(w)] # <<>>
  /\ Head(c2s[Sock(w)]).part = "text"
  /\ Goto(w, "call")
  /\ wreq' = [wreq EXCEPT ![w] = Head(c2s[Sock(w)]).call]
  /\ c2s' = Take(c2s, Sock(w))
  /\ UNCHANGED <<clientVars, s2c, peer, backlog, fdtab, heap, connfd, listenVars,
                 wdata, wfd, wret, executed>>

\* The peer is gone and the request stops short, before or inside the text:
\* len stays 0, or request_from_json is given a buffer that ends in zeros.
epoll_handler_ReadFails(w) ==
  /\ wpc[w] \in {"len", "text"}
  /\ cstate[Sock(w)] = "gone"
  /\ \/ c2s[Sock(w)] = <<>> /\ UNCHANGED c2s
     \/ /\ c2s[Sock(w)] # <<>> /\ Head(c2s[Sock(w)]).part = "cut"
        /\ c2s' = Take(c2s, Sock(w))
  /\ GotoOut(w)
  /\ UNCHANGED <<clientVars, s2c, peer, backlog, fdtab, heap, connfd, listenVars,
                 wdata, wfd, wreq, executed>>

\* MUTANT of epoll_handler_Call: a call that fails is not answered.
Call_NoAnswer(w) ==
  /\ wpc[w] = "call"
  /\ executed' = [executed EXCEPT ![Sock(w)] = Append(@, wreq[w])]
  /\ \/ Goto(w, "wlen") /\ UNCHANGED wret
     \/ GotoOut(w)
  /\ UNCHANGED <<pipeVars, fdtab, heap, connfd, listenVars, wdata, wfd, wreq>>

\* searpc_server_call_function runs the request.
epoll_handler_Call(w) ==
  /\ wpc[w] = "call"
  /\ Goto(w, "wlen")
  /\ executed' = [executed EXCEPT ![Sock(w)] = Append(@, wreq[w])]
  /\ UNCHANGED <<pipeVars, fdtab, heap, connfd, listenVars, wdata, wfd, wreq, wret>>

\* The length of the response, and then the response, are written.
epoll_handler_Write(w, part, from, to) ==
  /\ wpc[w] = from
  /\ cstate[Sock(w)] # "gone"
  /\ Goto(w, to)
  /\ s2c' = Put(s2c, Sock(w), part, wreq[w])
  /\ UNCHANGED <<clientVars, c2s, peer, backlog, fdtab, heap, connfd, listenVars,
                 wdata, wfd, wreq, wret, executed>>

epoll_handler_WriteLen(w) == epoll_handler_Write(w, "len", "wlen", "wtext")

\* MUTANT of epoll_handler_WriteText: the handler loops for the next request,
\* as named_pipe_client_handler does.
WriteText_Loop(w) == epoll_handler_Write(w, "text", "wtext", "len")

epoll_handler_WriteText(w) == epoll_handler_Write(w, "text", "wtext", "add")

\* MUTANT of epoll_handler_WriteFails: "goto out" without "ret = -1".
WriteFails_RetZero(w) ==
  /\ wpc[w] \in {"wlen", "wtext"}
  /\ cstate[Sock(w)] = "gone"
  /\ Goto(w, "out")
  /\ UNCHANGED <<pipeVars, fdtab, heap, connfd, listenVars, wdata, wfd, wreq, wret,
                 executed>>

\* Either write fails with EPIPE.
epoll_handler_WriteFails(w) ==
  /\ wpc[w] \in {"wlen", "wtext"}
  /\ cstate[Sock(w)] = "gone"
  /\ GotoOut(w)
  /\ UNCHANGED <<pipeVars, fdtab, heap, connfd, listenVars, wdata, wfd, wreq,
                 executed>>

\* The socket goes back into epoll.  From here the listener, or the next
\* worker, may already own the data while this worker is still on its way out.
epoll_handler_Add(w) ==
  /\ wpc[w] = "add"
  /\ reg' = [reg EXCEPT ![wfd[w]] = wdata[w]]
  /\ Goto(w, "out")
  /\ UNCHANGED <<pipeVars, fdtab, heap, connfd, events, accepting, pool, wdata,
                 wfd, wreq, wret, executed>>

epoll_handler_AddFails(w) ==
  /\ wpc[w] = "add"
  /\ GotoOut(w)
  /\ UNCHANGED <<pipeVars, fdtab, heap, connfd, listenVars, wdata, wfd, wreq,
                 executed>>

\* The function returns and its locals are gone.
ReturnToPool(w) ==
  /\ Goto(w, "idle")
  /\ wdata' = [wdata EXCEPT ![w] = None]
  /\ wfd' = [wfd EXCEPT ![w] = None]
  /\ wreq' = [wreq EXCEPT ![w] = 0]
  /\ wret' = [wret EXCEPT ![w] = 0]

\* MUTANT of epoll_handler_Out: the test of ret is missing.
Out_Always(w) ==
  /\ wpc[w] = "out"
  /\ CloseFd(wfd[w])
  /\ Free(wdata[w])
  /\ ReturnToPool(w)
  /\ UNCHANGED <<clientVars, c2s, s2c, backlog, events, accepting, pool, executed>>

\* The label out: after a failure the worker closes the socket and frees the
\* data; otherwise it leaves both alone.
epoll_handler_Out(w) ==
  /\ wpc[w] = "out"
  /\ IF wret[w] < 0
       THEN CloseFd(wfd[w]) /\ Free(wdata[w])
       ELSE UNCHANGED <<fdtab, reg, peer, heap, connfd>>
  /\ ReturnToPool(w)
  /\ UNCHANGED <<clientVars, c2s, s2c, backlog, events, accepting, pool, executed>>

epoll_handler(w) ==
  \/ epoll_handler_ReadLen(w)
  \/ epoll_handler_ReadText(w)
  \/ epoll_handler_ReadFails(w)
  \/ epoll_handler_Call(w)
  \/ epoll_handler_WriteLen(w)
  \/ epoll_handler_WriteText(w)
  \/ epoll_handler_WriteFails(w)
  \/ epoll_handler_Add(w)
  \/ epoll_handler_AddFails(w)
  \/ epoll_handler_Out(w)

-----------------------------------------------------------------------------
Next ==
  \/ epoll_listen
  \/ \E w \in Workers : handle_named_pipe_client_with_threadpool(w) \/ epoll_handler(w)
  \/ \E c \in Conns : ClientNext(c) /\ UNCHANGED serverVars

Spec == Init /\ [][Next]_vars

-----------------------------------------------------------------------------
(* Safety.                                                                 *)

\* A worker that will still use its data: every worker between the pool and
\* out, except one that put its socket back into epoll and is about to return.
Busy(w) == wpc[w] # "idle" /\ ~(wpc[w] = "out" /\ wret[w] = 0)

Registered(c) == {f \in Fds : reg[f] = c}
Queued(c)     == {i \in 1..Len(pool) : pool[i] = c}
HeldBy(c)     == {w \in Workers : Busy(w) /\ wdata[w] = c}

\* Everyone who holds the pointer to c's ServerHandlerData and will use it.
Owners(c) == ({"epoll"} \X Registered(c)) \cup ({"pool"} \X Queued(c))
               \cup ({"worker"} \X HeldBy(c))

\* From accept to g_free a ServerHandlerData has exactly one owner: the epoll
\* registration, a place in the pool's queue, or a worker.  So no two threads
\* serve one connection, none uses freed data, and none is lost (leaked), in
\* whatever order EPOLL_CTL_DEL, the push, EPOLL_CTL_ADD, close and g_free of
\* the listener and the workers meet (transport.c:229-374).
OwnedOnce ==
  \A c \in Conns :
    IF heap[c] = "live" THEN \E o \in Owners(c) : Owners(c) = {o}
                        ELSE Owners(c) = {}

\* An event that epoll_wait copied out and the listener has not handled is
\* never stale: its pointer is live data still registered under its own
\* descriptor, although workers close and free between the two, and no second
\* event of the batch names it (transport.c:318-374).
EventsCurrent ==
  \A e \in events : e.data # pipe_fd =>
    /\ heap[e.data] = "live"
    /\ connfd[e.data] \in Registered(e.data)
    /\ \A e2 \in events : e2.data = e.data => e2 = e

\* An open descriptor belongs to exactly one live ServerHandlerData, and a
\* busy worker's copy of the descriptor still means its own connection: no
\* descriptor leaks, and none is closed and handed out by accept again while
\* a worker reads or writes on it (transport.c:232, 293-296, 343-358).
DescriptorsMatch ==
  /\ \A f \in Fds, c \in Conns :
        fdtab[f] = c <=> heap[c] = "live" /\ connfd[c] = f
  /\ \A w \in Workers : Busy(w) => fdtab[wfd[w]] = wdata[w]

\* A worker in its first read always finds a length: threads of the pool are
\* never parked on idle connections, which is what the epoll mode is for
\* (transport.c:240).
NoIdleWorker ==
  \A w \in Workers : wpc[w] = "len" => c2s[wdata[w]] # <<>>

\* The server and its clients implement the service: calls on a connection
\* are executed at most once and in order, and a call returns the response to
\* itself or an error.  The client does not test for end of file and would
\* return an uninitialised buffer (transport.c:647-661), so this rests on the
\* server too: as long as its process lives it never closes a connection in
\* good order between the request it has read and the response
\* (transport.c:229-298, 623-662).
Implements == Service!Spec
=============================================================================
