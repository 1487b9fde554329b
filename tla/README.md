# libsearpc in TLA+

This directory specifies libsearpc, a small RPC library in C (with a Python sibling):
which threads touch which connection, what a caller can be told, and what is left
when a process dies in the middle. The modules are translated from the sources under
`lib/` and `pysearpc/` (the file `searpc-named-pipe-transport.c` is called
`transport.c` below). TLC checks the configurations on small instances; TLAPS checks
the theorems for every value of the constants.

## 1. The system

| part | state | operations | talks to |
|------|-------|------------|----------|
| named-pipe client (`transport.c:58-78, 554-662`) | the socket, where the call is | connect, send (write length, write text, read length, read text), free | server, over one AF_UNIX stream |
| server, epoll mode (`transport.c:220-378`) | a `ServerHandlerData` per connection, the epoll set, the events of a batch, the pool's queue, each worker's locals | `epoll_listen`: wait, accept, drop, dispatch; `epoll_handler`: one request | clients; workers and listener share pointers without a lock |
| server, thread mode (`transport.c:381-552`) | the pool's queue, each handler's connection and buffer | accept and push; `named_pipe_client_handler`: all requests of a connection | clients |
| server start (`transport.c:80-218`) | socket file, listening descriptor, epoll descriptor | create, start | |
| framing (`transport.c:664-770`) | | `pipe_write_n`, `pipe_read_n`, request to and from JSON | client, both servers |
| registry and dispatch (`searpc-server.c`) | service, function and marshal tables | create and remove service, register marshal and function, call function | called by the servers' threads, no lock |
| slow log (`searpc-server.c:203-256, 321-362`) | `slow_log_fp` and its lock | init, reopen, print | dispatch |
| client calls (`searpc-client.c:63-335, 558-708`) | | encode a call, send, decode the response | transport |
| asynchronous calls (`searpc-client.c:338-547`) | `AsyncCallData` | send, generic callback | transport, application callback |
| GObject and JSON (`searpc-utils.c`, `searpc-utils.h`) | | serialize, deserialize | generated marshals, decoders |
| Python named-pipe client and server (`pysearpc/named_pipe.py`) | bounded pool of transports | get, send, return | either server |

What is hard here. In the epoll mode a connection's data is a bare pointer that the
listener, the pool's queue and the workers pass to one another through epoll
registrations; the code is right only if DEL, push, ADD, close and free happen in the
right order on every path, failures included. In the thread mode a thread is tied to
a connection and a buffer is reused from request to request. On both sides
`pipe_read_n` returns fewer bytes than asked for at end of file, and its callers test
for -1 only. Processes die anywhere, descriptors run out, and `EPOLL_CTL_ADD` may
fail. Above the transport the tables of services and functions have no lock and hold
keys that point into their values, the slow log is rotated while calls write to it,
and values pass through two conversions with casts, a NULL that is not JSON's null,
and strings JSON cannot hold. `PROJECT.json` lists these hazards line by line with
the properties that cover them, and says why where none does.

What makes each part correct:

* epoll mode: each `ServerHandlerData` has exactly one owner from accept to
  free; events are never stale; descriptors and data correspond; every call of
  a live client returns; everything of a dead client is reclaimed; workers do
  not wait on idle connections.
* thread mode: only requests that were received are executed; descriptors do
  not leak; a call returns unless other connections keep every thread.
* both, with the client: a call is executed at most once, in order, and its
  caller gets its own response or an error (`RpcService`).
* Python client: a transport is one thread's or the pool's; what is in the pool
  has nothing in flight; after a restart every old connection costs one failed
  call.
* framing: however reads and writes cut the stream, the text that arrives is the
  text that was sent.
* registry and dispatch: the tables lead to live memory only, and a call runs the
  function registered last under its name.
* slow log: nobody writes to a file that was closed, every file is closed once, and
  a line is written only for a call whose beginning was timed.
* client calls: the function gets the parameters that were passed, the caller the
  result or the error of the function; the memory of an asynchronous call is freed
  once and not used afterwards.

## 2. The modules

* `NamedPipeClient` - the client end and the two byte streams of each connection. A
  stream is a sequence of units, a length or a text, tagged with the number of the
  call. The two writes and two reads of `searpc_named_pipe_send` are separate
  actions; a read at end of file takes the path the code takes (`len` keeps the
  request's length, the buffer is returned unread: result `"garbage"`). `Die` is a
  client process that disappears inside a call, perhaps inside the write of a text,
  which leaves a text that is `"cut"`. `executed` is the history of the calls a
  server has taken, `Service` the abstract specification both modes implement. What
  the kernel does (end of file after an orderly close, ECONNRESET after a close with
  unread data, EPIPE, a backlog) is marked external in the map.
* `EpollServer` extends it with `epoll_listen` and `epoll_handler`. `heap` is
  the allocation state of each connection's `ServerHandlerData` (a connection is
  accepted once, so the data has the connection's name), `connfd` its field,
  `fdtab` the process's descriptor table, `reg` the epoll set, `events` the
  batch, `pool` the queue; `wpc`, `wdata`, `wfd`, `wreq`, `wret` are the workers'
  program counters and locals. Descriptors are reused as soon as they are
  closed. One action is one system call together with the assignments that
  follow it; the steps a thread takes without touching shared state are not
  separated. Without a pool the code starts a thread per dispatch: an instance
  with as many workers as connections.
* `EpollCrash` extends `EpollServer`: the server's process may be killed at any
  point, inside a response too, and started again.
* `ThreadServer` extends `NamedPipeClient` with `named_pipe_listen` and
  `named_pipe_client_handler`. `buf` is what a handler's buffer holds, `ReqLen`
  the length of each request's text: at end of file the handler parses the first
  `len` bytes of the old buffer, which may succeed if the old text was as long, or
  shorter with white space behind it (`Leftover`). A text that was cut short over an
  old one may parse as either, as a third text, or not at all (`Mixtures`): a
  nondeterministic choice, and so is what `g_malloc` hands a new handler, other
  memory or the buffer any idle thread has freed. The history variable `cut` says
  that a client has died between the length and the text of a request.
* `RpcService` is the abstract specification: at most one call at a time per
  connection, executed at most once and in order, answered with its own response
  or an error. `EpollServer` and `ThreadServer` are checked to implement it
  (`Implements`), the latter until a client dies between the length and the text of
  a request (`cut`), with the result `"transport_error"` read as `"failed"`.
* `PyClientPool` - the Python client and server. `pool` is the `queue.Queue`,
  `tpc` and `held` a thread's place in `call_remote_func_sync` and its local
  `transport`; `hpc` and `hreq` are the `PipeHandlerThread`s. The four transfers
  of a call and the four of a handler are separate actions. `recvall` and
  `sendall` raise where the C code goes on, so half a text is a text that never
  comes. A socket is closed when its last reference goes: on the client with the
  exception, on the server with the thread, except for the connection that
  `accept_loop` accepted last, which its local variables keep (`latest`). `Kill`
  and `start` are the server's process, `AppExits` is the application's.
  It implements the same `RpcService`, with a thread in the place of a connection.
* `AsyncClient` - `searpc_client_async_call_v` and
  `searpc_client_generic_callback`. `heap` says for each call whether the text,
  the `AsyncCallData`, the result and the `GError` are live; the decoders are
  reduced to what they allocate (`Fret`). The transport belongs to the
  application: it refuses a call or accepts it and calls back once, before,
  while or after `async_send` returns. It may also free the text, as
  `searpc-client.h:28-29` asks of it (`async_send_FreeText`, `sender_freed`).
* `PipeFrames` - the bytes under a unit of the other modules: `pipe_write_n` and
  `pipe_read_n` on one direction of a connection (`kind` says which). `left` is
  what the writer has still to write, `stream` the socket, `got` what the reader
  has read; a length has `HeaderLen` digits of one bit (`Bit`), and `bufsize` and
  `len` are taken modulo `Word`, `Pow2[HeaderLen]`. `read_Header` takes every number
  with the digits that came; those that did not come are what the code leaves in
  `len`: 0 in the handler, anything in the client.
* `RpcServer` - `searpc-server.c`. `heap` holds services and function items in
  order of allocation, with a flag for freed ones; a table's entry has the owner
  of its key apart from its value, as GLib keeps the old key when a value is
  replaced. A look-up that compares with a freed key may or may not find it.
  `pc` and `call` are the threads inside `searpc_server_call_function`, `rpc`, `fp`
  and `oldfp` the threads inside `searpc_server_reopen_slow_log`. `known` is a
  history variable: what the application was told is registered; `had_log` is
  another: the server was started with a log. A server without one may be told to
  reopen it: then the first rotator's `oldfp` is NULL, and `fclose` of it ends the
  process. In the model that rotator stops there (`Stuck`); the steps others still
  take are those they take before the process ends.
* `GObjectJson` - the conversions as operators over tagged values, with integers
  of three widths (a span is half the number of values: 2^7, 2^31, 2^63). An object
  and those it holds are a function from places in this tree to properties, and so
  is its JSON: the code's functions call themselves for an object that is held, the
  operators do at every place what they do at the top. `ClientCalls` extends it and `AsyncClient`: a call goes from
  the caller's parameters through `fcall_to_str`, a generated marshal (translated
  from the template in `searpc-codegen.py`) and the fret functions back to the
  caller, synchronously or through `searpc_client_generic_callback`; for an
  asynchronous call what `GObjectJson` computes decides which of `AsyncClient`'s
  responses it is (`Class`).
* `MCEpollServer`, `MCEpollCrash`, `MCThreadServer`, `MCPyClientPool`,
  `MCPipeFrames`, `MCRpcServer`, `MCClientCalls` and `MCAsyncClient` are the
  instances for TLC.
* `NamedPipeClientProofs`, `EpollServerProofs`, `EpollServiceProofs`,
  `ThreadServerProofs`, `PyClientPoolProofs`, `PipeFramesProofs`,
  `ClientCallsProofs` and `RpcServerProofs` hold the theorems (section 4).

Operators marked MUTANT are faulty variants of the definition that follows them;
each breaks one property and shows that the property depends on the code. No
specification uses them.

Assumptions: in the modules above `PipeFrames` a length is written and read as
one unit, which `FramesWhole` justifies while both processes live; SIGPIPE is
ignored by the application, as the code expects (its writes test for -1);
`events[i].data.fd == pipe_fd` never holds for a stored pointer
(`EpollAssumption`); `pthread_create` succeeds; requests of the library's own
client parse; Python's `accept` does not fail; an asynchronous transport copies
the request text before it accepts the call. Of the application `RpcServer` assumes
two disciplines the code does not enforce: it creates, removes and registers while
no call runs (`Quiet`), and it registers a name of a service once (`RegisterOnce`,
dropped in `server_reregister`). `Quiet` stays: the tests and demos register before
they serve, and a change of a table during a look-up is a data race inside GLib's hash
table, whose outcomes are those of GLib's code. No property is about it.

## 3. The runs

| run | question | instance | result |
|-----|----------|----------|--------|
| `epoll` | pointers, events, descriptors, idle workers, `Implements` | 3 connections, 1 call each and 2 on one of them, 2 descriptors, 2 workers, batches of 2, symmetric | holds |
| `epoll_crash` | the promises to callers when the server is killed and restarted; calls return; dead clients are reclaimed | 2 connections, 2 calls on one and 1 on the other, 1 worker, batches of 1, 1 crash | holds |
| `epoll_crash_transport_error` | is every failure a transport error? | 2 connections, 1 crash | violated |
| `thread` | `Implements` until a request is cut, descriptors, which calls return | 3 connections, 2 calls on one and 1 on the others, 2 threads, 3 descriptors, a backlog of 1, all requests but one of equal length | holds |
| `thread_stale_buffer` | are only received requests executed? | equal lengths, 1 thread | violated |
| `py_pool` | the shared Python client over a restart: owners of transports, quiet pool, `Implements`, failures, returns | 2 threads, 2 calls each, pool of 1, 4 transports, 1 kill, 1 value that cannot be serialized | holds |
| `frames` | whole frames, the limit of the buffer, arrival | 2 frames in either direction, lengths of 3 bits, texts of 1 to 9 bytes, a socket of 3 bytes, a first buffer of 2 | holds |
| `client` | parameters, results, errors and memory of a call | 1 call of each type in each of the 3 ways, spans of 1, 2 and 4 (1, 2 and 3 bits), a property of each type | holds |
| `client_string` | does the generic call return what the function returned? | as above | violated |
| `async_error` | can a callback free its error, as the test's does? | 1 call | violated |
| `server` | tables, dispatch, rotation of the slow log | 1 service, 2 names, 2 functions, 2 calling and 2 rotating threads, 4 allocations, 3 files | holds |
| `server_reregister` | is a function's name its key? | 1 service, 1 name, registered again | violated |

Why the bounds are enough to be interesting. Three connections on two
descriptors make accept fail with EMFILE and reuse a descriptor while another
connection is in flight. Two calls on a connection are needed for a response to
reach the wrong call, for a second worker to get a connection while the first is
still on its way out of `epoll_handler`, and for a buffer to hold an old request;
that one connection makes them is enough for each of these, and the constraint
`FewCalls` cuts off the others' second calls. It only removes the beginning of
calls, which no fairness condition is about, so it cannot make a liveness property
hold that would fail without it within those calls.
One worker for two connections, with batches of one event, is the smallest
instance in which a connection could be passed over for ever. A pool of one for
two threads is full when both return and empty when both begin; four transports
are as many as four calls can create, so that bound never cuts a behaviour. In
`thread` the third connection waits for a thread, perhaps for ever, and accept fails
while all descriptors are taken (Linux takes a descriptor before it waits for a
connection); its constraint `FewCalls` cuts off connects and the beginning of calls
only, as above. With lengths of 3 bits the texts of 4 and 5
bytes are on either side of half the range, 7, 8 and 9 around its end, and a socket
of 3 bytes splits every text. Spans of 1, 2 and 4 keep every pair of widths
apart and let TLC try every value of every type. Four allocations suffice for a
service with a function, removed and made again. The safety properties do not
depend on the bounds at all: they are proved (section 4).

Deadlock is not checked: with a bounded number of calls the system may come to
rest, and a client at rest may stay connected.

Fairness. Threads run: the listener, every worker, and a client inside a call
(weak fairness of their next step). `epoll_crash` also needs that
`epoll_wait` does not pass over a socket that stays ready when batches are full;
Linux moves level-triggered sockets to the end of the ready list after reporting
them, which is strong fairness of a batch with that socket. In `py_pool` the
threads inside a call, `accept_loop` and the handler threads run. In `frames` the
writer and the reader run. Nothing makes an
application connect, call, free its client or die, and nothing makes the server
be killed or started.

Liveness. Two of the three `CallsReturn` name what a call may wait for without
end, and nothing else. In the thread mode a thread stays with its connection, so
that a call waits for ever if other connections keep every thread for good; TLC
finds that behaviour when the disjunct is left out. In `py_pool` a call waits for
ever if its value cannot be serialized, its handler has died of it, and its
connection is still the last that `accept_loop` accepted (`Abandoned`, for good).
`FramesArrive` leaves out requests above half the range: `BufferLimit` says what
becomes of them.

### What the violations and one other finding show

* `epoll_crash_transport_error`: the server reads a request and is killed. The
  client's read of the length meets end of file, `pipe_read_n` returns 0, and
  `searpc_named_pipe_send` (`transport.c:647-661`) returns a buffer of the
  *request's* length with nothing in it. `lib/searpc-client.h:139` promises a
  transport error. As long as the server lives this cannot happen: `Implements`
  in `epoll` has no step that returns garbage.
* `thread_stale_buffer`: a client sends the length of its second request and
  dies; the second request is as long as the first. The handler
  (`transport.c:513`) parses the first request again and executes it a second
  time. The epoll mode clears its buffer and is not affected, and neither is the
  thread mode before such a death (`Implements` in `thread`).
* `client_string`: `searpc_client_call` (`searpc-client.c:130`) decodes a response
  of type string with the length of the request. It parses only if the two are as
  long, or by chance of what lies behind the response. The typed function
  `searpc_client_call__string` does it right (`ResultArrives`).
* `server_reregister`: after a second registration of a name the table's key is
  the name of the freed item (`searpc-server.c:313`), so a look-up compares with
  freed memory and may miss the function.
* `async_error`: `searpc_client_generic_callback` frees the error itself after a
  transport failure (`searpc-client.c:362`) and leaves it to the callback after
  every other failure. The callback in `tests/searpc.c:393` frees it: twice, if
  the transport had failed. With `AppFreesError = FALSE` the error of an RPC
  failure is never freed instead.
* The text of an asynchronous call, in the passing run `client`:
  `searpc_client_async_call_v` frees it when `async_send` has returned
  (`searpc-client.c:428`), and `searpc-client.h:28-29` says of it "the sender should
  free it when not needed". `TextFreedByBoth` states what follows: it is freed twice
  by exactly the transports that do as they are told, and once by the others, such as
  that of `tests/searpc.c`. `CallDataOwned` is therefore about the data and the result.

## 4. The theorems

All of them hold for every value of the constants that satisfies the assumption of
the module; none assumes a bound. The assumptions: `MaxCalls` and the sizes are
naturals, a backlog, a batch and a pool hold something (`ClientAssumption`,
`EpollAssumption`, `PoolAssumption`, `ThreadAssumption`, `CrashAssumption`,
`ServerAssumption`); `None` and the listening descriptor are no connection; the
slow log may be opened at least once; a text has a byte, and the handler's first
buffer is a power of two within the header's range, as 4096 is (`FramesAssumption`);
a char is narrower than an int and an int than a long (`WidthAssumption`); what is
passed and returned is what C's types and jansson admit: numbers within their width,
properties with values of their type, UTF-8 in a JSON value (`CallsAssumption`). Every inductive invariant was checked with
TLC on a small instance before it was proved.

| module | theorem | states | of |
|--------|---------|--------|----|
| `EpollServerProofs` | `TypeCorrect`, `DataIsOwnedOnce`, `EventsAreCurrent`, `DescriptorsAreMatched` | `TypeOK`, `OwnedOnce`, `EventsCurrent`, `DescriptorsMatch` | `EpollServer` |
| `EpollServiceProofs` | `EpollImplements`, `WorkersAreNotIdle` | `Implements` (refinement), `NoIdleWorker` | `EpollServer` |
| `EpollServiceProofs` | `RepliesAreOwn` | `OwnReplyAtMostOnce` | `EpollCrash` |
| `ThreadServerProofs` | `TypeCorrect`, `DescriptorsAreMatched`, `ThreadImplements` | `TypeOK`, `DescriptorsMatch`, `Implements` (refinement, until a request is cut) | `ThreadServer` |
| `PyClientPoolProofs` | `TypeCorrect`, `TransportsAreExclusive`, `PoolIsQuiet`, `StaleTransportsFailOnce`, `PoolImplements` | `TypeOK`, `TransportsExclusive`, `PooledIsQuiet`, `StaleFailsOnce` (action property), `Implements` (refinement) | `PyClientPool` |
| `PipeFramesProofs` | `TypeCorrect`, `TextsFitBuffer`, `FramesArriveWhole` | `TypeOK`, `BufferLimit`, `FramesWhole` | `PipeFrames` |
| `ClientCallsProofs` | `TypeCorrect`, `DataFreedOnce`, `TextIsFreedByBoth` | `TypeOK`, `CallDataOwned`, `TextFreedByBoth` | `AsyncClient` |
| `ClientCallsProofs` | `ParametersArrive`, `ResultsArrive`, `CallsRefineAsync`, `CallsOwnData` | `ParamsArrive`, `ResultArrives`, the refinement of `AsyncClient`, `CallDataOwned` and `TextFreedByBoth` | `ClientCalls` |
| `RpcServerProofs` | `TypeCorrect`, `LoggedCallsAreTimed`, `RotationIsSafe`, `TablesStayLive`, `CallsAreDispatched` | `TypeOK`, `LoggedIsTimed`, `RotationSafe`, `TablesLive`, `DispatchesKnown` | `RpcServer` |

`NamedPipeClientProofs` holds what the C servers' proofs share: what `Append` and
`Tail` do to a typed stream, what a client's step leaves alone, and the conversation
on one connection: `TalkOK(c, at)` says what its streams may hold and whether its last
call was executed, for every place its client and its handler can be at; there are at
most two units in a stream, all of the last call. Each step of a client and each read,
execution, write and close of a server is shown once to keep it, and the two modes
cite these lemmas.

**Owners in the epoll mode** (`EpollServerProofs`). None of the invariants is
inductive alone: the listener may hand out a registered pointer because no worker
holds it; a worker may free its pointer because no event names it; accept may reuse
a descriptor because its last owner closed and freed together. `Inv` says this owner
by owner: registered, queued and held pointers are live and mutually exclusive
(`RegOK`, `PoolOK`, `HeldOK`), live data has an owner (`LiveOK`), descriptors and
live data correspond (`FdOK`), events name registered pointers, once
(`EventsCurrent`), a waiting connection has no data yet (`BacklogOK`), and `ret` is
set on the way out only (`RetOK`), which is how a worker that has put its socket back
is told from one that will free it. There is one lemma per action; `CloseAndFree` is
the common part of the two places that close and free (`transport.c:294` and `355`).

**The epoll mode implements the service** (`EpollServiceProofs`). The service sees
calls, executions and results; between them lie two streams, the listener and a
worker. `TalkInv` (`TalkOK` of every connection, at the place of its worker) is
inductive together with `Inv`, which gives a connection at most one worker, and
`PeerOK`, by which the server's end is open while the connection waits or has data.
An execution then is of the last call and of a call not executed before, and a
response that is read is the last call's. That a caller never gets an unread buffer
needs one thing more, how a living server closes (`WellClosed`): after a request it
did not answer it closes with an error the client sees, and after an answer it closes
behind a whole response. `WorkersAreNotIdle` follows from a second invariant: whoever
is to read a request (an event that is no hang-up, the queue, a worker in its first
read) has bytes in the socket that nobody else takes (`ReadableOK`).

**Crashes** (the last part of `EpollServiceProofs`). `WellClosed` fails when the process is killed, the
rest does not: `PeerAfterKill` leaves at most a part of the last response, of an
executed call (`LeftOver`), no worker survives, and no second call goes into a closed
connection, so a new process, which never sees the old connections, executes nothing
of theirs. `CrashInv` adds that a caller's response is to an executed call
(`ServedOK`). It allows the unread buffer that `epoll_crash_transport_error` shows.

**The thread mode** (`ThreadServerProofs`). `HolderInv`: an open descriptor is in
the queue or with one thread, never both, a closed one with none, and a connection
in the backlog has no descriptor yet. The handlers that failed accepts queue for
descriptor -1 are apart. `CallNumbers` (lengths in streams and locals are those of
calls that were begun) is what the type of a buffer needs.

For the refinement `ServiceInv` adds the conversations (`ThreadsTalk` for a thread's
connection, with the length it has read and the request in its buffer, `OthersTalk`
for the rest), that the server leaves and closes only connections whose client is
gone (`EndsOK`), and that a client that is gone has left no request without its text
(`RequestsWhole`). The invariant is `Inv` and, as long as `cut` is false,
`ServiceInv`: before a cut a handler that has read a length finds the text behind it,
so it never parses what its buffer held before, whatever the lengths of the requests;
the only step that makes `cut` true is the death itself, and `cut` stays true
(`CutStays`). `thread_stale_buffer` shows what can happen from then on.

**The Python client** (`PyClientPoolProofs`). `Inv` adds to the owners that a
transport not yet made is not open (`MadeOK`), which is why a new one is nobody's,
and that a handler past its second `recvall` has a request (`ReqOK`). The owner part
is proved by kind of move (keep, take, make, close, put), so that each action cites
one lemma. `TalkInv` relates, as in the epoll mode, a thread's place in a call to the
streams of its transport and to the place of the handler: for a transport that a
thread holds (`HeldTalk`), one in the pool, which is quiet (`PoolTalk`), and one that
a running client has closed, whose handler has no request left (`ClosedTalk`). When
the application exits in the middle of calls, handlers may still execute their
requests, one transport for each thread at most (`OrphanTalk`). The rest is about
calls, handlers, backlog and ended handlers (`CallsOK`, `HandlerOK`, `BacklogOK`,
`EndedOK`). `PooledIsQuiet`, `StaleFailsOnce` and the refinement are read off `Inv /\
TalkInv`, over any number of kills.

**Frames** (`PipeFramesProofs`). That a text arrives whole depends on everything
before it in the stream. `FrameInv` therefore speaks of a sequence no variable holds:
there are a sequence of all bytes the writer has begun to write and a place where
each frame starts in it, such that the socket, what the reader has got and what the
writer has left are the stretches of it they should be (`Layout`, `Begun`,
`InSocket`, `InStep`). A reader in step that has all digits of a header has the
length that was written, if it fits: digits determine a number below `Word`, by
induction on their count. A request whose length does not fit keeps the reader in
step too, since no more bytes are written than the cut length says (`Size`); of
responses those before the first that does not fit are counted (`Fits`), and of that
one the bytes its cut length says. `BufferLimit` needs that
`bufsize` is a power of two until it wraps around (`BufferInv`): it can then become 0
only from `Word / 2`, and is doubled there only for a longer request.

**Calls** (`ClientCallsProofs`). Asynchronous calls first: for each call, the places
of caller and callback that go together (`PlacesOK`) decide which of the text, the
`AsyncCallData` and the result are live (`TextOK`, `DataOK`, `ResultOK`), whether
the transport calls back before, while or after `async_send` returns, and whenever
it frees the text.

Then their data, asynchronous or not. The lemmas follow a value on its way: an
integer of a signed or an unsigned type through `json_integer` and the cast back
(`SignedThroughJson`, `UnsignedThroughJson`; an unsigned long comes back although
JSON's integers are signed), a property of every type (`IntegerSurvives`,
`OtherSurvives`, `UnknownLost`), an object with those it holds (`ObjectsSurvive`),
the parameters in the array (`NodesInPlace`: the loop that appends leaves every node
in its place, less the missing ones before it), an error of any code, a code of 0 too
(`ErrorThrough`), a result of every type (`ValueThrough`). `DataInv` says of each
stage of a call what is on its way, from which `ParamsArrive` and `ResultArrives` are
read off. `CallsRefineAsync` shows that the data decide nothing that `AsyncClient`
does not allow for, so its theorems hold of these calls too (`CallsOwnData`).

The prover cannot instantiate the library's induction theorems, whose parameter is an
operator. `SetInduction`, in the two modules that need it, has a set in its place and
follows from the existence of a least element. With it the recursive functions
(`Pow2`, the loop in `fcall_to_str`) are shown to exist and to be what they should.

**The server library** (`RpcServerProofs`). The slow log: who holds the lock is at
the place where it prints, to the current file (`LockOK`), and a file is open exactly
if it is the current one, one about to be put in its place, or one about to be
closed, each by one thread only (`FilesOK`). `LoggedIsTimed` rests on `slow_log_fp`
never being cleared, and being set at most once in a server that had none, by a
rotator that is `Stuck` from then on: a call that began without a log ends without
one, or a rotator is in `fclose(NULL)`. The tables: under `RegisterOnce`, the discipline whose lack
`server_reregister` shows to be fatal, keys and values of an entry are of one live
allocation (`TablesOK`), the tables agree with what the application was told
(`KnownOK`, `FuncsOK`), and what a call has found is still there when it runs
(`FoundOK`). `TablesStayLive` and `CallsAreDispatched` are stated under
`RegisterOnce`, the others without.

Only model-checked: liveness under fairness, which the prover does not support: the
three `CallsReturn`, `GoneIsReclaimed`, `FramesArrive`, `ClosedIsServedNoMore`. Every
invariant and action property of the passing runs, and every refinement, is a theorem.

## 5. Plan

Done: both modes of the named-pipe transport with crashes, its framing, the server
library with its slow log, client calls of every kind with their conversions, the
Python client and server; the theorems of section 4. What is left is outside the
prover's reach (liveness) or not modelled (section 6).

## 6. Not modelled

* The failure paths of `searpc_named_pipe_server_start` (`transport.c:124-211`):
  sequential, run once, and followed by the end of the process. Freeing a client
  whose connect failed (`transport.c:615`) and a `pthread_create` that fails
  (`transport.c:210`) are listed as hazards; the repository states nothing of what
  should happen.
* The Windows branches, which the models' system calls do not describe.
* The code generators themselves (they print C text at build time; what they
  print is `marshal`), `searpc_compute_signature` (a checksum, the constant
  `Sigs`), and `pysearpc/client.py`, whose decorators wrap a call into a list.
* The demos over TCP and the test framework: users of the library.
