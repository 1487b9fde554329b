---------------------------- MODULE ThreadServer ----------------------------
(***************************************************************************)
(* The named-pipe server without epoll: the accept loop of                 *)
(* named_pipe_listen, and threads that run named_pipe_client_handler, each *)
(* for one connection until the client is gone                             *)
(* (lib/searpc-named-pipe-transport.c).                                    *)
(*                                                                         *)
(* The handler reads every request of its connection into one buffer,      *)
(* which is not cleared in between and comes uncleared from g_malloc.      *)
(* pipe_read_n returns the number of bytes it got, and the handler tests   *)
(* only for -1: after end of file it parses what the buffer held before.   *)
(* The history variable cut tells when that can have happened.             *)
(***************************************************************************)
EXTENDS NamedPipeClient, FiniteSets

CONSTANTS
  Workers,    \* the pool's threads (without a pool: one per connection)
  MaxFds,     \* descriptors the process may have open for connections
  MaxQueue,   \* bound: pool queue in which failed accepts still pile up
  ReqLen,     \* the length of the JSON text of each call
  None

ASSUME ThreadAssumption ==
  /\ None \notin Conns
  /\ MaxFds \in Nat /\ MaxQueue \in Nat
  /\ ReqLen \in [Conns \X (1..MaxCalls) -> Nat \ {0}]

VARIABLES
  open,      \* the connections the server has a descriptor for
  pool,      \* pushed ServerHandlerData: its connfd, None for -1
  wpc,       \* where each thread is in named_pipe_client_handler
  wconn,     \* its connfd
  wlen,      \* its len, while it reads a request
  buf,       \* the last request its buf held, whole or in part
  cut        \* history: a client died between the length and the text

serverVars == <<open, pool, wpc, wconn, wlen, buf, executed>>
vars       == <<pipeVars, serverVars, cut>>

\* A buffer holds the text of a call (call 0: a text made of two requests), or
\* memory that was no request before, of length 0.
Requests == [conn : Conns \cup {None}, call : Nat, len : Nat]
Request(c, n, l) == [conn |-> c, call |-> n, len |-> l]
Blank == Request(None, 0, 0)

WorkerStates == {"idle", "len", "text", "call", "wlen", "wtext", "out"}

TypeOK ==
  /\ PipeTypeOK
  /\ open \in SUBSET Conns
  /\ pool \in Seq(Conns \cup {None})
  /\ wpc \in [Workers -> WorkerStates]
  /\ wconn \in [Workers -> Conns \cup {None}]
  /\ wlen \in [Workers -> Nat]
  /\ buf \in [Workers -> Requests]
  /\ executed \in [Conns -> Seq(Nat)]
  /\ cut \in BOOLEAN

Init ==
  /\ PipeInit
  /\ open = {}
  /\ pool = <<>>
  /\ wpc = [w \in Workers |-> "idle"]
  /\ wconn = [w \in Workers |-> None]
  /\ wlen = [w \in Workers |-> 0]
  /\ buf = [w \in Workers |-> Blank]
  /\ executed = [c \in Conns |-> <<>>]
  /\ cut = FALSE

-----------------------------------------------------------------------------
(* The listener thread: named_pipe_listen.                                 *)

\* MUTANT of named_pipe_listen_Accept: a connection that finds the pool full
\* is not pushed.
Accept_NotPushed ==
  /\ backlog # <<>>
  /\ Cardinality(open) < MaxFds
  /\ open' = open \cup {Head(backlog)}
  /\ pool' = IF pool = <<>> THEN Append(pool, Head(backlog)) ELSE pool
  /\ backlog' = Tail(backlog)
  /\ UNCHANGED <<clientVars, c2s, s2c, peer, wpc, wconn, wlen, buf, executed>>

\* A connection is accepted and pushed.
named_pipe_listen_Accept ==
  /\ backlog # <<>>
  /\ Cardinality(open) < MaxFds
  /\ open' = open \cup {Head(backlog)}
  /\ pool' = Append(pool, Head(backlog))
  /\ backlog' = Tail(backlog)
  /\ UNCHANGED <<clientVars, c2s, s2c, peer, wpc, wconn, wlen, buf, executed>>

\* MUTANT of named_pipe_listen_AcceptFails: the field connfd is not set, and
\* is what the memory holds: descriptor 0.
AcceptFails_NoConnfd ==
  /\ Cardinality(open) >= MaxFds
  /\ Len(pool) < MaxQueue
  /\ pool' = Append(pool, 0)
  /\ UNCHANGED <<pipeVars, open, wpc, wconn, wlen, buf, executed>>

\* Without a free descriptor accept returns -1 at once, which is not tested:
\* a handler is queued for descriptor -1, and the loop goes round.
named_pipe_listen_AcceptFails ==
  /\ Cardinality(open) >= MaxFds
  /\ Len(pool) < MaxQueue
  /\ pool' = Append(pool, None)
  /\ UNCHANGED <<pipeVars, open, wpc, wconn, wlen, buf, executed>>

named_pipe_listen == named_pipe_listen_Accept \/ named_pipe_listen_AcceptFails

-----------------------------------------------------------------------------
(* The handler threads: named_pipe_client_handler.                         *)

Goto(w, label) == wpc' = [wpc EXCEPT ![w] = label]

\* A free thread takes the oldest connection.  Its buffer comes from g_malloc:
\* memory of another kind, or a buffer that this or another thread has freed,
\* with its contents.
handle_named_pipe_client_with_threadpool(w) ==
  /\ wpc[w] = "idle"
  /\ pool # <<>>
  /\ Goto(w, "len")
  /\ wconn' = [wconn EXCEPT ![w] = Head(pool)]
  /\ \/ buf' = [buf EXCEPT ![w] = Blank]
     \/ \E v \in Workers : /\ wpc[v] = "idle"
                           /\ buf' = [buf EXCEPT ![v] = buf[w], ![w] = buf[v]]
  /\ pool' = Tail(pool)
  /\ UNCHANGED <<pipeVars, open, wlen, executed>>

client_handler_ReadLen(w) ==
  /\ wpc[w] = "len"
  /\ wconn[w] # None
  /\ c2s[wconn[w]] # <<>>
  /\ Goto(w, "text")
  /\ wlen' = [wlen EXCEPT ![w] = ReqLen[<<wconn[w], Head(c2s[wconn[w]]).call>>]]
  /\ c2s' = Take(c2s, wconn[w])
  /\ UNCHANGED <<clientVars, s2c, peer, backlog, open, pool, wconn, buf, executed>>

\* MUTANT of client_handler_ReadLenEnds: len is not reset before it is read, and
\* holds the length of the last response, here as long as the request.
ReadLenEnds_OldLen(w) ==
  /\ wpc[w] = "len"
  /\ wconn[w] # None => cstate[wconn[w]] = "gone" /\ c2s[wconn[w]] = <<>>
  /\ Goto(w, IF wlen[w] = 0 THEN "out" ELSE "text")
  /\ UNCHANGED <<pipeVars, open, pool, wconn, wlen, buf, executed>>

\* End of file instead of a length (len stays 0), or EBADF: leave the loop.
client_handler_ReadLenEnds(w) ==
  /\ wpc[w] = "len"
  /\ wconn[w] # None => cstate[wconn[w]] = "gone" /\ c2s[wconn[w]] = <<>>
  /\ Goto(w, "out")
  /\ UNCHANGED <<pipeVars, open, pool, wconn, wlen, buf, executed>>

client_handler_ReadText(w) ==
  /\ wpc[w] = "text"
  /\ c2s[wconn[w]] # <<>>
  /\ Head(c2s[wconn[w]]).part = "text"
  /\ Goto(w, "call")
  /\ buf' = [buf EXCEPT ![w] = Request(wconn[w], Head(c2s[wconn[w]]).call, wlen[w])]
  /\ c2s' = Take(c2s, wconn[w])
  /\ UNCHANGED <<clientVars, s2c, peer, backlog, open, pool, wconn, wlen, executed>>

\* What the first len bytes of the buffer may parse as when nothing of the text
\* came: an older text of that length, or a shorter one that white space
\* follows.  The beginning of a longer one does not parse.
Leftover(w) == {Blank} \cup IF buf[w].len <= wlen[w] THEN {buf[w]} ELSE {}

\* The same when the text of call n was cut short: its beginning and then what
\* is left of an older text may be either text, or a third one.
Mixtures(w, n) ==
  Leftover(w) \cup
  IF buf[w] = Blank THEN {}
    ELSE {Request(wconn[w], n, wlen[w]), Request(wconn[w], 0, wlen[w])}

\* The buffer parses as b, or not at all and the loop is left.
request_from_json(w, b) ==
  IF b = Blank THEN Goto(w, "out") /\ UNCHANGED buf
               ELSE Goto(w, "call") /\ buf' = [buf EXCEPT ![w] = b]

\* The client is gone and the text did not come, or not all of it.  That is
\* not the -1 the handler tests for, and it parses the buffer all the same.
client_handler_ReadTextStops(w) ==
  /\ wpc[w] = "text"
  /\ cstate[wconn[w]] = "gone"
  /\ \/ /\ c2s[wconn[w]] = <<>>
        /\ \E b \in Leftover(w) : request_from_json(w, b)
        /\ UNCHANGED c2s
     \/ /\ c2s[wconn[w]] # <<>>
        /\ Head(c2s[wconn[w]]).part = "cut"
        /\ \E b \in Mixtures(w, Head(c2s[wconn[w]]).call) : request_from_json(w, b)
        /\ c2s' = Take(c2s, wconn[w])
  /\ UNCHANGED <<clientVars, s2c, peer, backlog, open, pool, wconn, wlen, executed>>

\* searpc_server_call_function runs the request in the buffer.
client_handler_Call(w) ==
  /\ wpc[w] = "call"
  /\ Goto(w, "wlen")
  /\ executed' = [executed EXCEPT ![buf[w].conn] = Append(@, buf[w].call)]
  /\ UNCHANGED <<pipeVars, open, pool, wconn, wlen, buf>>

\* The length of the response, and then the response, are written.
client_handler_Write(w, part, from, to) ==
  /\ wpc[w] = from
  /\ cstate[wconn[w]] # "gone"
  /\ Goto(w, to)
  /\ s2c' = Put(s2c, wconn[w], part, buf[w].call)
  /\ UNCHANGED <<clientVars, c2s, peer, backlog, open, pool, wconn, wlen, buf, executed>>

client_handler_WriteLen(w) == client_handler_Write(w, "len", "wlen", "wtext")

client_handler_WriteText(w) == client_handler_Write(w, "text", "wtext", "len")

\* Either write fails with EPIPE.
client_handler_WriteFails(w) ==
  /\ wpc[w] \in {"wlen", "wtext"}
  /\ cstate[wconn[w]] = "gone"
  /\ Goto(w, "out")
  /\ UNCHANGED <<pipeVars, open, pool, wconn, wlen, buf, executed>>

\* MUTANT of client_handler_Out: the descriptor is not closed.
Out_NoClose(w) ==
  /\ wpc[w] = "out"
  /\ Goto(w, "idle")
  /\ wconn' = [wconn EXCEPT ![w] = None]
  /\ wlen' = [wlen EXCEPT ![w] = 0]
  /\ UNCHANGED <<pipeVars, open, pool, buf, executed>>

\* After the loop: close the descriptor, free the data and the buffer.
client_handler_Out(w) ==
  /\ wpc[w] = "out"
  /\ Goto(w, "idle")
  /\ IF wconn[w] = None THEN UNCHANGED <<open, peer>>
       ELSE HangUp(wconn[w]) /\ open' = open \ {wconn[w]}
  /\ wconn' = [wconn EXCEPT ![w] = None]
  /\ wlen' = [wlen EXCEPT ![w] = 0]
  /\ UNCHANGED <<clientVars, c2s, s2c, backlog, pool, buf, executed>>

named_pipe_client_handler(w) ==
  \/ client_handler_ReadLen(w)
  \/ client_handler_ReadLenEnds(w)
  \/ client_handler_ReadText(w)
  \/ client_handler_ReadTextStops(w)
  \/ client_handler_Call(w)
  \/ client_handler_WriteLen(w)
  \/ client_handler_WriteText(w)
  \/ client_handler_WriteFails(w)
  \/ client_handler_Out(w)

-----------------------------------------------------------------------------
ServerNext ==
  \/ named_pipe_listen
  \/ \E w \in Workers : \/ handle_named_pipe_client_with_threadpool(w)
                        \/ named_pipe_client_handler(w)

\* A step of client c is a death between the length and the text of a request.
NoteCut(c) == cut' = (cut \/ (cstate[c] = "text" /\ cstate'[c] = "gone"))

Next ==
  \/ ServerNext /\ UNCHANGED cut
  \/ \E c \in Conns : ClientNext(c) /\ NoteCut(c) /\ UNCHANGED serverVars

Spec == Init /\ [][Next]_vars

\* The listener, every handler thread and every client inside a call run.
Fairness ==
  /\ WF_vars(named_pipe_listen_Accept /\ UNCHANGED cut)
  /\ \A w \in Workers : WF_vars(/\ \/ handle_named_pipe_client_with_threadpool(w)
                                   \/ named_pipe_client_handler(w)
                                /\ UNCHANGED cut)
  /\ \A c \in Conns : WF_vars(searpc_named_pipe_send(c) /\ UNCHANGED <<serverVars, cut>>)

FairSpec == Spec /\ Fairness

-----------------------------------------------------------------------------
\* Until a client dies between the length and the text of a request, the thread
\* mode implements the service: each call executed at most once and in order,
\* and answered to its caller, whatever the lengths of the requests and
\* whoever else dies when (transport.c:487-552).  After such a death the handler
\* executes what its buffer happens to hold: see OnlyValidRequests.
Implements == Service!Init /\ [][Service!Next \/ cut']_(Service!vars)

\* README.markdown:220: "Once you get a valid request, call the
\* `searpc_server_call_function()` routine".  A handler calls a function for a
\* request only if it received that request, once.
OnlyValidRequests ==
  \A c \in Conns : \A i, j \in DOMAIN executed[c] :
    executed[c][i] # 0 /\ (i < j => executed[c][i] < executed[c][j])

\* A handler that still uses its connection has the descriptor to itself, and
\* an open descriptor is on its way to a handler or has one: none leaks, though
\* handlers for descriptor -1 close it too (transport.c:392-403, 544-551).
DescriptorsMatch ==
  \A c \in Conns :
    IF c \in open
      THEN Cardinality({w \in Workers : wconn[w] = c})
             + Cardinality({i \in DOMAIN pool : pool[i] = c}) = 1
      ELSE \A w \in Workers : wconn[w] # c

\* A call returns unless its process dies, or every thread is kept for good by
\* some other connection: a thread stays with its client, busy or not, and the
\* pool's queue does not move meanwhile (transport.c:391-409, 487-552).
CallsReturn ==
  \A c \in Conns :
    result[c].kind = "pending"
      ~> \/ result[c].kind # "pending"
         \/ cstate[c] = "gone"
         \/ [](\A w \in Workers : wconn[w] \notin {c, None})
=============================================================================
