------------------------- MODULE EpollServiceProofs -------------------------
(***************************************************************************)
(* EpollServer implements RpcService, for any set of connections, workers  *)
(* and descriptors, and never parks a worker on an idle connection.        *)
(*                                                                         *)
(* The service sees a connection's calls, executions and results; the      *)
(* implementation passes them through two streams and through the hands of *)
(* the client, the listener and a worker.  TalkOK of NamedPipeClientProofs *)
(* says what may be in the streams, and whether the last call was          *)
(* executed, for every place the two ends can be at; with Inv of           *)
(* EpollServerProofs, which gives a connection at most one worker, it is   *)
(* inductive.  WellClosed adds how the server closes while its process     *)
(* lives; the theorems about EpollCrash, below, do without it.              *)
(***************************************************************************)
EXTENDS EpollCrash, EpollServerProofs, TLAPS

WorkersTalk ==
  \A w \in Workers : wpc[w] \in Middle =>
    /\ TalkOK(wdata[w], wpc[w])
    /\ wpc[w] # "text" => wreq[w] = calls[wdata[w]]

OthersTalk ==
  \A c \in Conns :
    (\A w \in Workers : wpc[w] \in Middle => wdata[w] # c) => TalkOK(c, "rest")

\* The server's end is open while a connection waits or has data.
PeerOK ==
  /\ \A c \in Conns : heap[c] = "live" \/ cstate[c] = "new" => peer[c] = "open"
  /\ \A i \in 1..Len(backlog) : peer[backlog[i]] = "open"

\* Whoever is to read a request finds its length: the listener in an event
\* that is no hang-up, the pool, and a worker in its first read.
ReadableOK ==
  /\ \A e \in events : e.data # pipe_fd /\ ~e.hup => c2s[e.data] # <<>>
  /\ \A i \in 1..Len(pool) : c2s[pool[i]] # <<>>
  /\ NoIdleWorker

TalkInv == WorkersTalk /\ OthersTalk /\ CallsOK

-----------------------------------------------------------------------------
(* The clients' steps.                                                     *)

\* A worker in the middle of a request is busy, and so has its connection to
\* itself.
LEMMA MiddleFacts ==
  ASSUME Inv, NEW w \in Workers, wpc[w] \in Middle
  PROVE  /\ Busy(w)
         /\ wdata[w] \in Conns
         /\ heap[wdata[w]] = "live"
<1>1. Busy(w)
  BY DEF Middle, Busy
<1> QED BY <1>1 DEF Inv, PointerInv, HeldOK

\* A client's step keeps every conversation legal.
LEMMA ClientTalkStep ==
  ASSUME Inv, PeerOK, TalkInv, NEW c \in Conns, ClientNext(c), UNCHANGED serverVars
  PROVE  TalkInv'
<1>0. /\ UNCHANGED <<wpc, wdata, wreq, heap, executed>>
      /\ PipeTypeOK /\ executed \in [Conns -> Seq(Nat)]
  BY DEF Inv, TypeOK, serverVars, workerVars
<1>1. CallsOK'
  BY <1>0, ClientCalls DEF TalkInv
<1>3. ASSUME NEW d \in Conns, NEW at \in Middle \cup {"rest"}, TalkOK(d, at)
      PROVE  TalkOK(d, at)'
  <2>1. CASE d = c
    BY <1>0, <1>3, <2>1, ClientTalk DEF TalkInv
  <2>2. CASE d # c
    <3>1. /\ cstate'[d] = cstate[d] /\ calls'[d] = calls[d] /\ c2s'[d] = c2s[d]
          /\ s2c'[d] = s2c[d] /\ peer'[d] = peer[d] /\ executed'[d] = executed[d]
      BY <1>0, <2>2, ClientEffect
    <3> QED BY <1>3, <3>1, TalkLocal
  <2> QED BY <2>1, <2>2
<1>4. WorkersTalk'
  <2> SUFFICES ASSUME NEW w \in Workers, wpc[w] \in Middle
               PROVE  /\ TalkOK(wdata[w], wpc[w])'
                      /\ wpc[w] # "text" => wreq[w] = calls'[wdata[w]]
    BY <1>0 DEF WorkersTalk
  <2>1. TalkOK(wdata[w], wpc[w]) /\ (wpc[w] # "text" => wreq[w] = calls[wdata[w]])
    BY DEF TalkInv, WorkersTalk
  <2>2. wdata[w] \in Conns
    BY MiddleFacts
  <2>3. TalkOK(wdata[w], wpc[w])'
    BY <1>0, <1>3, <2>1, <2>2
  <2>4. wpc[w] # "text" => calls'[wdata[w]] = calls[wdata[w]]
    <3> SUFFICES ASSUME wpc[w] # "text", wdata[w] = c
                 PROVE  calls'[c] = calls[c]
      BY <1>0, <2>2, ClientEffect
    <3>1. cstate[c] \notin {"ready"}
      BY <2>1 DEF TalkOK, AtCallOK, AtWriteTextOK, Middle
    <3> QED BY <3>1 DEF ClientNext, searpc_named_pipe_client_connect, pipe_send_WriteLen,
              pipe_send_WriteLenFails, searpc_named_pipe_send, pipe_send_WriteText,
              pipe_send_WriteTextFails, pipe_send_ReadLen, pipe_send_ReadText,
              pipe_send_ReadTextEOF, pipe_send_ReadFails, Return, Die,
              searpc_free_client_with_pipe_transport
  <2> QED BY <2>1, <2>3, <2>4
<1>5. OthersTalk'
  <2> SUFFICES ASSUME NEW d \in Conns, \A w \in Workers : wpc[w] \in Middle => wdata[w] # d
               PROVE  TalkOK(d, "rest")'
    BY <1>0 DEF OthersTalk
  <2>1. TalkOK(d, "rest")
    BY DEF TalkInv, OthersTalk
  <2> QED BY <1>3, <2>1
<1> QED BY <1>1, <1>4, <1>5 DEF TalkInv

-----------------------------------------------------------------------------
(* The server's steps.                                                     *)

\* Steps that move pointers and descriptors, not bytes, and leave the workers
\* in the middle of a request alone, leave the conversations alone.
LEMMA QuietStep ==
  ASSUME Inv, PeerOK, TalkInv,
         UNCHANGED <<cstate, calls, result, c2s, s2c, peer, executed>>,
         \A w \in Workers : wpc[w] \in Middle \/ wpc'[w] \in Middle =>
           wpc'[w] = wpc[w] /\ wdata'[w] = wdata[w] /\ wreq'[w] = wreq[w]
  PROVE  TalkInv'
<1>1. ASSUME NEW d \in Conns, NEW at, TalkOK(d, at)
      PROVE  TalkOK(d, at)'
  BY <1>1, TalkLocal
<1>2. WorkersTalk'
  <2> SUFFICES ASSUME NEW w \in Workers, wpc'[w] \in Middle
               PROVE  /\ TalkOK(wdata[w], wpc[w])'
                      /\ wpc'[w] # "text" => wreq'[w] = calls[wdata[w]]
                      /\ wpc'[w] = wpc[w] /\ wdata'[w] = wdata[w]
    BY DEF WorkersTalk
  <2>1. wpc'[w] = wpc[w] /\ wdata'[w] = wdata[w] /\ wreq'[w] = wreq[w]
    OBVIOUS
  <2>2. TalkOK(wdata[w], wpc[w]) /\ (wpc[w] # "text" => wreq[w] = calls[wdata[w]])
    BY <2>1 DEF TalkInv, WorkersTalk
  <2>3. wdata[w] \in Conns
    BY <2>1, MiddleFacts
  <2>4. \A d \in Conns, at \in Middle : TalkOK(d, at) => TalkOK(d, at)'
    BY <1>1
  <2> QED BY <2>1, <2>2, <2>3, <2>4
<1>3. OthersTalk'
  <2> SUFFICES ASSUME NEW d \in Conns, \A w \in Workers : wpc'[w] \in Middle => wdata'[w] # d
               PROVE  TalkOK(d, "rest")'
    BY DEF OthersTalk
  <2>1. \A w \in Workers : wpc[w] \in Middle => wdata[w] # d
    OBVIOUS
  <2>2. TalkOK(d, "rest")
    BY <2>1 DEF TalkInv, OthersTalk
  <2> QED BY <1>1, <2>2
<1>4. CallsOK'
  <2>1. \A d \in Conns : Service!LastExecuted(d)' = Service!LastExecuted(d)
    BY DEF Service!LastExecuted
  <2> QED BY <2>1 DEF TalkInv, CallsOK
<1> QED BY <1>2, <1>3, <1>4 DEF TalkInv

\* A connection is closed when no worker is in the middle of a request of it.
LEMMA CloseStep ==
  ASSUME Inv, PeerOK, TalkInv, NEW d \in Conns,
         peer[d] = "open",
         \A w \in Workers : wpc[w] \in Middle => wdata[w] # d,
         UNCHANGED <<cstate, calls, result, c2s, s2c, executed>>,
         HangUp(d),
         \A w \in Workers : wpc[w] \in Middle \/ wpc'[w] \in Middle =>
           wpc'[w] = wpc[w] /\ wdata'[w] = wdata[w] /\ wreq'[w] = wreq[w]
  PROVE  TalkInv'
<1>t. /\ peer \in [Conns -> PeerStates]
      /\ cstate \in [Conns -> ClientStates]
  BY DEF Inv, TypeOK, PipeTypeOK
<1>p. /\ peer'[d] = IF c2s[d] = <<>> THEN "eof" ELSE "reset"
      /\ \A c \in Conns : c # d => peer'[c] = peer[c]
  BY <1>t DEF HangUp
<1>1. ASSUME NEW c \in Conns, c # d, NEW at, TalkOK(c, at)
      PROVE  TalkOK(c, at)'
  BY <1>p, <1>1, TalkLocal
<1>2. TalkOK(d, "rest")'
  <2>1. TalkOK(d, "rest")
    BY DEF TalkInv, OthersTalk
  <2> QED BY <1>p, <2>1, ServerCloses
<1>3. WorkersTalk'
  <2> SUFFICES ASSUME NEW w \in Workers, wpc'[w] \in Middle
               PROVE  /\ TalkOK(wdata[w], wpc[w])'
                      /\ wpc'[w] # "text" => wreq'[w] = calls[wdata[w]]
                      /\ wpc'[w] = wpc[w] /\ wdata'[w] = wdata[w]
    BY DEF WorkersTalk
  <2>1. wpc'[w] = wpc[w] /\ wdata'[w] = wdata[w] /\ wreq'[w] = wreq[w]
    OBVIOUS
  <2>2. TalkOK(wdata[w], wpc[w]) /\ (wpc[w] # "text" => wreq[w] = calls[wdata[w]])
    BY <2>1 DEF TalkInv, WorkersTalk
  <2>3. wdata[w] \in Conns /\ wdata[w] # d
    BY <2>1, MiddleFacts
  <2>4. \A c \in Conns, at \in Middle : c # d /\ TalkOK(c, at) => TalkOK(c, at)'
    BY <1>1
  <2> QED BY <2>1, <2>2, <2>3, <2>4
<1>4. OthersTalk'
  <2> SUFFICES ASSUME NEW c \in Conns, \A w \in Workers : wpc'[w] \in Middle => wdata'[w] # c
               PROVE  TalkOK(c, "rest")'
    BY DEF OthersTalk
  <2>1. \A w \in Workers : wpc[w] \in Middle => wdata[w] # c
    OBVIOUS
  <2>2. TalkOK(c, "rest")
    BY <2>1 DEF TalkInv, OthersTalk
  <2> QED BY <1>1, <1>2, <2>2
<1>5. CallsOK'
  <2>1. \A c \in Conns : Service!LastExecuted(c)' = Service!LastExecuted(c)
    BY DEF Service!LastExecuted
  <2> QED BY <2>1 DEF TalkInv, CallsOK
<1> QED BY <1>3, <1>4, <1>5 DEF TalkInv

\* A busy worker's place is the place of its connection.
LEMMA BusyPlace ==
  ASSUME Inv, PeerOK, TalkInv, NEW w \in Workers, Busy(w)
  PROVE  /\ TalkOK(wdata[w], Place(wpc[w]))
         /\ peer[wdata[w]] = "open"
         /\ wdata[w] \in Conns
         /\ \A v \in Workers : v # w /\ wpc[v] \in Middle => wdata[v] # wdata[w]
<1>1. wdata[w] \in Conns /\ heap[wdata[w]] = "live"
  BY DEF Inv, PointerInv, HeldOK
<1>2. \A v \in Workers : v # w /\ wpc[v] \in Middle => wdata[v] # wdata[w]
  <2>1. \A v \in Workers : wpc[v] \in Middle => Busy(v)
    BY MiddleFacts
  <2> QED BY <2>1 DEF Inv, PointerInv, HeldOK
<1>3. TalkOK(wdata[w], Place(wpc[w]))
  <2>1. CASE wpc[w] \in Middle
    BY <2>1 DEF TalkInv, WorkersTalk, Place
  <2>2. CASE wpc[w] \notin Middle
    BY <1>1, <1>2, <2>2 DEF TalkInv, OthersTalk, Place
  <2> QED BY <2>1, <2>2
<1> QED BY <1>1, <1>2, <1>3 DEF PeerOK

\* A worker's step in its own conversation leaves the others alone.
LEMMA WorkerStep ==
  ASSUME Inv, PeerOK, TalkInv, NEW w \in Workers, Busy(w),
         NEW to \in WorkerStates, wpc' = [wpc EXCEPT ![w] = to],
         UNCHANGED <<cstate, calls, peer, heap, wdata>>,
         \A v \in Workers : v # w => wreq'[v] = wreq[v],
         \A d \in Conns : d # wdata[w] =>
           c2s'[d] = c2s[d] /\ s2c'[d] = s2c[d] /\ executed'[d] = executed[d],
         TalkOK(wdata[w], Place(to))',
         to \in Middle \ {"text"} => wreq'[w] = calls[wdata[w]]
  PROVE  WorkersTalk' /\ OthersTalk'
<1>t. wpc \in [Workers -> WorkerStates]
  BY DEF Inv, TypeOK
<1>0. /\ wdata[w] \in Conns
      /\ \A v \in Workers : v # w /\ wpc[v] \in Middle => wdata[v] # wdata[w]
  BY BusyPlace
<1>1. ASSUME NEW d \in Conns, d # wdata[w], NEW at, TalkOK(d, at)
      PROVE  TalkOK(d, at)'
  BY <1>1, TalkLocal
<1>2. WorkersTalk'
  <2> SUFFICES ASSUME NEW v \in Workers, wpc'[v] \in Middle
               PROVE  /\ TalkOK(wdata[v], wpc[v])'
                      /\ wpc'[v] # "text" => wreq'[v] = calls[wdata[v]]
    BY DEF WorkersTalk
  <2>1. CASE v = w
    <3>1. wpc'[w] = to
      BY <1>t
    <3>2. TalkOK(wdata[w], wpc[w])'
      BY <2>1, <3>1 DEF Place
    <3> QED BY <2>1, <3>1, <3>2
  <2>2. CASE v # w
    <3>1. wpc'[v] = wpc[v]
      BY <1>t, <2>2
    <3>2. TalkOK(wdata[v], wpc[v]) /\ (wpc[v] # "text" => wreq[v] = calls[wdata[v]])
      BY <3>1 DEF TalkInv, WorkersTalk
    <3>3. wdata[v] \in Conns /\ wdata[v] # wdata[w]
      BY <1>0, <2>2, <3>1, MiddleFacts
    <3>4. \A d \in Conns, at \in Middle : d # wdata[w] /\ TalkOK(d, at) => TalkOK(d, at)'
      BY <1>1
    <3> QED BY <2>2, <3>1, <3>2, <3>3, <3>4
  <2> QED BY <2>1, <2>2
<1>3. OthersTalk'
  <2> SUFFICES ASSUME NEW d \in Conns, \A v \in Workers : wpc'[v] \in Middle => wdata[v] # d
               PROVE  TalkOK(d, "rest")'
    BY DEF OthersTalk
  <2>1. CASE d = wdata[w]
    <3>1. to \notin Middle
      BY <1>t, <2>1
    <3> QED BY <2>1, <3>1 DEF Place
  <2>2. CASE d # wdata[w]
    <3>1. \A v \in Workers : wpc[v] \in Middle => wdata[v] # d
      BY <1>t, <2>2
    <3>2. TalkOK(d, "rest")
      BY <3>1 DEF TalkInv, OthersTalk
    <3> QED BY <1>1, <2>2, <3>2
  <2> QED BY <2>1, <2>2
<1> QED BY <1>2, <1>3

\* A worker reads the length of a request.
LEMMA ReadLenTalk ==
  ASSUME Inv, PeerOK, TalkInv, NEW w \in Workers, epoll_handler_ReadLen(w)
  PROVE  TalkInv'
<1>t. c2s \in [Conns -> Seq(Units)]
  BY DEF Inv, TypeOK, PipeTypeOK
<1>b. PICK c \in Conns : c = wdata[w] /\ Busy(w) /\ Sock(w) = c
  BY BusySock DEF epoll_handler_ReadLen, Busy
<1>0. /\ wpc[w] = "len"
      /\ c2s[c] # <<>>
      /\ wpc' = [wpc EXCEPT ![w] = "text"]
      /\ c2s'[c] = Tail(c2s[c])
      /\ \A d \in Conns : d # c => c2s'[d] = c2s[d]
      /\ UNCHANGED <<cstate, calls, result, s2c, peer, heap, wdata, wreq, executed>>
  BY <1>b, <1>t DEF epoll_handler_ReadLen, Goto, Take, clientVars
<1>1. TalkOK(c, "rest") /\ peer[c] = "open" /\ PipeTypeOK
  BY <1>b, <1>0, BusyPlace DEF Place, Middle, Inv, TypeOK
<1>2. TalkOK(c, "text")'
  BY <1>0, <1>1, ServerReadsLen
<1>3. TalkOK(c, Place("text"))'
  BY <1>2 DEF Place, Middle
<1>4. WorkersTalk' /\ OthersTalk'
  BY <1>0, <1>b, <1>3, WorkerStep DEF WorkerStates
<1>5. CallsOK'
  BY <1>0 DEF TalkInv, CallsOK, Service!LastExecuted
<1> QED BY <1>4, <1>5 DEF TalkInv

\* A worker reads the text of a request: it is the client's last call.
LEMMA ReadTextTalk ==
  ASSUME Inv, PeerOK, TalkInv, NEW w \in Workers, epoll_handler_ReadText(w)
  PROVE  TalkInv'
<1>t. c2s \in [Conns -> Seq(Units)] /\ wreq \in [Workers -> Nat]
  BY DEF Inv, TypeOK, PipeTypeOK
<1>b. PICK c \in Conns : c = wdata[w] /\ Busy(w) /\ Sock(w) = c
  BY BusySock DEF epoll_handler_ReadText, Busy
<1>0. /\ wpc[w] = "text"
      /\ c2s[c] # <<>>
      /\ Head(c2s[c]).part = "text"
      /\ wpc' = [wpc EXCEPT ![w] = "call"]
      /\ wreq'[w] = Head(c2s[c]).call
      /\ \A v \in Workers : v # w => wreq'[v] = wreq[v]
      /\ c2s'[c] = Tail(c2s[c])
      /\ \A d \in Conns : d # c => c2s'[d] = c2s[d]
      /\ UNCHANGED <<cstate, calls, result, s2c, peer, heap, wdata, executed>>
  BY <1>b, <1>t DEF epoll_handler_ReadText, Goto, Take, clientVars
<1>1. TalkOK(c, "text")
  BY <1>b, <1>0, BusyPlace DEF Place, Middle
<1>2. TalkOK(c, "call")' /\ Head(c2s[c]).call = calls[c]
  BY <1>0, <1>1, ServerReadsText
<1>3. wreq'[w] = calls[c]
  BY <1>0, <1>2
<1>4. TalkOK(c, Place("call"))'
  BY <1>2 DEF Place, Middle
<1>5. WorkersTalk' /\ OthersTalk'
  BY <1>0, <1>b, <1>3, <1>4, WorkerStep DEF WorkerStates
<1>6. CallsOK'
  BY <1>0 DEF TalkInv, CallsOK, Service!LastExecuted
<1> QED BY <1>5, <1>6 DEF TalkInv

\* The client is gone before its request is complete.
LEMMA ReadFailsTalk ==
  ASSUME Inv, PeerOK, TalkInv, NEW w \in Workers, epoll_handler_ReadFails(w)
  PROVE  TalkInv'
<1>t. c2s \in [Conns -> Seq(Units)]
  BY DEF Inv, TypeOK, PipeTypeOK
<1>b. PICK c \in Conns : c = wdata[w] /\ Busy(w) /\ Sock(w) = c
  BY BusySock DEF epoll_handler_ReadFails, Busy
<1>0. /\ wpc[w] \in {"len", "text"}
      /\ cstate[c] = "gone"
      /\ \/ c2s[c] = <<>> /\ c2s'[c] = <<>>
         \/ c2s[c] # <<>> /\ Head(c2s[c]).part = "cut" /\ c2s'[c] = Tail(c2s[c])
      /\ wpc' = [wpc EXCEPT ![w] = "out"]
      /\ \A d \in Conns : d # c => c2s'[d] = c2s[d]
      /\ UNCHANGED <<cstate, calls, result, s2c, peer, heap, wdata, wreq, executed>>
  BY <1>b, <1>t DEF epoll_handler_ReadFails, Goto, GotoOut, Take, clientVars
<1>1. peer[c] = "open" /\ \E at \in {"rest", "text"} : TalkOK(c, at)
  BY <1>b, <1>0, BusyPlace DEF Place, Middle
<1>2. TalkOK(c, "rest")'
  BY <1>0, <1>1, ServerReadStops
<1>3. TalkOK(c, Place("out"))'
  BY <1>2 DEF Place, Middle
<1>4. WorkersTalk' /\ OthersTalk'
  BY <1>0, <1>b, <1>3, WorkerStep DEF WorkerStates, Middle
<1>5. CallsOK'
  BY <1>0 DEF TalkInv, CallsOK, Service!LastExecuted
<1> QED BY <1>4, <1>5 DEF TalkInv

\* A worker executes the request it read, once.
LEMMA CallTalk ==
  ASSUME Inv, PeerOK, TalkInv, NEW w \in Workers, epoll_handler_Call(w)
  PROVE  /\ TalkInv'
         /\ Service!Execute(wdata[w])
<1>b. PICK c \in Conns : c = wdata[w] /\ Busy(w) /\ Sock(w) = c /\ TypeOK
  BY BusySock DEF epoll_handler_Call, Busy, Inv
<1>1. wreq[w] = calls[c] /\ calls[c] \in Nat
  BY <1>b DEF TalkInv, WorkersTalk, Middle, epoll_handler_Call, TypeOK, PipeTypeOK
<1>0. /\ wpc[w] = "call"
      /\ wpc' = [wpc EXCEPT ![w] = "wlen"]
      /\ executed' = [executed EXCEPT ![c] = Append(@, calls[c])]
      /\ UNCHANGED <<cstate, calls, result, c2s, s2c, peer, heap, wdata, wreq>>
  BY <1>b, <1>1 DEF epoll_handler_Call, Goto, pipeVars, clientVars, streamVars
<1>2. TalkOK(c, "call") /\ PipeTypeOK /\ executed \in [Conns -> Seq(Nat)]
  BY <1>b, <1>0, BusyPlace DEF Place, Middle, TypeOK
<1>3. /\ TalkOK(c, "wlen")'
      /\ Service!Execute(c)
      /\ Service!LastExecuted(c)' = calls[c]
      /\ \A d \in Conns : d # c => executed'[d] = executed[d]
  BY <1>0, <1>2, ServerExecutes
<1>4. TalkOK(c, Place("wlen"))'
  BY <1>3 DEF Place, Middle
<1>5. WorkersTalk' /\ OthersTalk'
  BY <1>0, <1>1, <1>3, <1>b, <1>4, WorkerStep DEF WorkerStates
<1>6. CallsOK'
  BY <1>0, <1>2, <1>3, ExecutedCalls DEF TalkInv
<1> QED BY <1>b, <1>3, <1>5, <1>6 DEF TalkInv

\* A worker writes the length of the response.
LEMMA WriteLenTalk ==
  ASSUME Inv, PeerOK, TalkInv, NEW w \in Workers, epoll_handler_WriteLen(w)
  PROVE  TalkInv'
<1>t. s2c \in [Conns -> Seq(Units)]
  BY DEF Inv, TypeOK, PipeTypeOK
<1>b. PICK c \in Conns : c = wdata[w] /\ Busy(w) /\ Sock(w) = c
  BY BusySock DEF epoll_handler_WriteLen, epoll_handler_Write, Busy
<1>1. wreq[w] = calls[c]
  BY <1>b DEF TalkInv, WorkersTalk, Middle, epoll_handler_WriteLen, epoll_handler_Write
<1>0. /\ wpc[w] = "wlen"
      /\ cstate[c] # "gone"
      /\ wpc' = [wpc EXCEPT ![w] = "wtext"]
      /\ s2c'[c] = Append(s2c[c], Unit(c, "len"))
      /\ \A d \in Conns : d # c => s2c'[d] = s2c[d]
      /\ UNCHANGED <<cstate, calls, result, c2s, peer, heap, wdata, wreq, executed>>
  BY <1>b, <1>t, <1>1
  DEF epoll_handler_WriteLen, epoll_handler_Write, Goto, Put, Unit, clientVars
<1>2. TalkOK(c, "wlen")
  BY <1>b, <1>0, BusyPlace DEF Place, Middle
<1>3. TalkOK(c, "wtext")'
  BY <1>0, <1>2, ServerWritesLen
<1>4. TalkOK(c, Place("wtext"))'
  BY <1>3 DEF Place, Middle
<1>5. WorkersTalk' /\ OthersTalk'
  BY <1>0, <1>1, <1>b, <1>4, WorkerStep DEF WorkerStates
<1>6. CallsOK'
  BY <1>0 DEF TalkInv, CallsOK, Service!LastExecuted
<1> QED BY <1>5, <1>6 DEF TalkInv

\* A worker writes the response.
LEMMA WriteTextTalk ==
  ASSUME Inv, PeerOK, TalkInv, NEW w \in Workers, epoll_handler_WriteText(w)
  PROVE  TalkInv'
<1>t. s2c \in [Conns -> Seq(Units)]
  BY DEF Inv, TypeOK, PipeTypeOK
<1>b. PICK c \in Conns : c = wdata[w] /\ Busy(w) /\ Sock(w) = c
  BY BusySock DEF epoll_handler_WriteText, epoll_handler_Write, Busy
<1>1. wreq[w] = calls[c]
  BY <1>b DEF TalkInv, WorkersTalk, Middle, epoll_handler_WriteText, epoll_handler_Write
<1>0. /\ wpc[w] = "wtext"
      /\ cstate[c] # "gone"
      /\ wpc' = [wpc EXCEPT ![w] = "add"]
      /\ s2c'[c] = Append(s2c[c], Unit(c, "text"))
      /\ \A d \in Conns : d # c => s2c'[d] = s2c[d]
      /\ UNCHANGED <<cstate, calls, result, c2s, peer, heap, wdata, wreq, executed>>
  BY <1>b, <1>t, <1>1
  DEF epoll_handler_WriteText, epoll_handler_Write, Goto, Put, Unit, clientVars
<1>2. TalkOK(c, "wtext")
  BY <1>b, <1>0, BusyPlace DEF Place, Middle
<1>3. TalkOK(c, "rest")'
  BY <1>0, <1>2, ServerWritesText
<1>4. TalkOK(c, Place("add"))'
  BY <1>3 DEF Place, Middle
<1>5. WorkersTalk' /\ OthersTalk'
  BY <1>0, <1>b, <1>4, WorkerStep DEF WorkerStates, Middle
<1>6. CallsOK'
  BY <1>0 DEF TalkInv, CallsOK, Service!LastExecuted
<1> QED BY <1>5, <1>6 DEF TalkInv

\* The client is gone before the response is written.
LEMMA WriteFailsTalk ==
  ASSUME Inv, PeerOK, TalkInv, NEW w \in Workers, epoll_handler_WriteFails(w)
  PROVE  TalkInv'
<1>b. PICK c \in Conns : c = wdata[w] /\ Busy(w) /\ Sock(w) = c
  BY BusySock DEF epoll_handler_WriteFails, Busy
<1>0. /\ wpc[w] \in {"wlen", "wtext"}
      /\ cstate[c] = "gone"
      /\ wpc' = [wpc EXCEPT ![w] = "out"]
      /\ UNCHANGED <<cstate, calls, result, c2s, s2c, peer, heap, wdata, wreq, executed>>
  BY <1>b DEF epoll_handler_WriteFails, Goto, GotoOut, pipeVars, clientVars, streamVars
<1>1. \E at \in {"wlen", "wtext"} : TalkOK(c, at)
  BY <1>b, <1>0, BusyPlace DEF Place, Middle
<1>r. TalkOK(c, "rest")'
  BY <1>0, <1>1, ServerWriteStops
<1>2. TalkOK(c, Place("out"))'
  BY <1>r DEF Place, Middle
<1>3. WorkersTalk' /\ OthersTalk'
  BY <1>0, <1>b, <1>2, WorkerStep DEF WorkerStates, Middle
<1>4. CallsOK'
  BY <1>0 DEF TalkInv, CallsOK, Service!LastExecuted
<1> QED BY <1>3, <1>4 DEF TalkInv

-----------------------------------------------------------------------------
(* The invariant.                                                          *)

\* The connection that accept takes next is open.
LEMMA HeadOpen ==
  ASSUME Inv, PeerOK, backlog # <<>>
  PROVE  peer[Head(backlog)] = "open"
<1>1. backlog \in Seq(Conns)
  BY DEF Inv, TypeOK, PipeTypeOK
<1>2. Head(backlog) = backlog[1] /\ Len(backlog) \in Nat \ {0}
  BY <1>1, TailFacts
<1>3. 1 \in 1..Len(backlog)
  BY <1>2
<1> QED BY <1>2, <1>3 DEF PeerOK

\* The listener's steps: they close a connection only between two requests.
LEMMA ListenTalk ==
  ASSUME Inv, PeerOK, TalkInv, epoll_listen
  PROVE  TalkInv' /\ UNCHANGED <<calls, result, executed>>
<1>1. CASE epoll_listen_Wait \/ epoll_listen_AcceptEnds
  <2>1. UNCHANGED <<cstate, calls, result, c2s, s2c, peer, executed, wpc, wdata, wreq>>
    BY <1>1 DEF epoll_listen_Wait, epoll_listen_AcceptEnds, pipeVars, clientVars,
                streamVars, workerVars
  <2> QED BY <2>1, QuietStep
<1>2. ASSUME NEW e \in events, epoll_listen_NewClient(e) \/ epoll_listen_Dispatch(e)
      PROVE  TalkInv' /\ UNCHANGED <<calls, result, executed>>
  <2>1. UNCHANGED <<cstate, calls, result, c2s, s2c, peer, executed, wpc, wdata, wreq>>
    BY <1>2 DEF epoll_listen_NewClient, epoll_listen_Dispatch, pipeVars, clientVars,
                streamVars, workerVars
  <2> QED BY <2>1, QuietStep
<1>3. ASSUME NEW f \in Fds, epoll_listen_Accept(f)
      PROVE  TalkInv' /\ UNCHANGED <<calls, result, executed>>
  <2>1. UNCHANGED <<cstate, calls, result, c2s, s2c, peer, executed, wpc, wdata, wreq>>
    BY <1>3 DEF epoll_listen_Accept, clientVars, workerVars
  <2> QED BY <2>1, QuietStep
<1>4. ASSUME NEW f \in Fds, epoll_listen_AcceptAddFails(f)
      PROVE  TalkInv' /\ UNCHANGED <<calls, result, executed>>
  <2>0. backlog # <<>>
    BY <1>4 DEF epoll_listen_AcceptAddFails
  <2>1. PICK d \in Conns : d = Head(backlog) /\ heap[d] = "none" /\ peer[d] = "open"
    BY <2>0, BacklogTail, HeadOpen
  <2>2. /\ UNCHANGED <<cstate, calls, result, c2s, s2c, executed, wpc, wdata, wreq>>
        /\ HangUp(d)
    BY <1>4, <2>1 DEF epoll_listen_AcceptAddFails, clientVars, workerVars
  <2>3. \A w \in Workers : wpc[w] \in Middle => wdata[w] # d
    BY <2>1, MiddleFacts
  <2> QED BY <2>1, <2>2, <2>3, CloseStep
<1>5. ASSUME NEW e \in events, epoll_listen_Hup(e)
      PROVE  TalkInv' /\ UNCHANGED <<calls, result, executed>>
  <2>1. PICK d \in Conns : d = e.data
    BY <1>5 DEF epoll_listen_Hup, Inv, TypeOK, Events
  <2>2. /\ heap[d] = "live" /\ connfd[d] \in Fds /\ reg[connfd[d]] = d /\ d # None
        /\ fdtab[connfd[d]] = d
    BY <1>5, <2>1, EpollAssumption
    DEF epoll_listen_Hup, Inv, PointerInv, EventsCurrent, Registered, FdOK
  <2>3. /\ UNCHANGED <<cstate, calls, result, c2s, s2c, executed, wpc, wdata, wreq>>
        /\ HangUp(d)
    BY <1>5, <2>1, <2>2 DEF epoll_listen_Hup, CloseFd, clientVars, workerVars
  <2>4. \A w \in Workers : wpc[w] \in Middle => wdata[w] # d
    <3>1. \A w \in Workers : wpc[w] \in Middle => Busy(w)
      BY MiddleFacts
    <3> QED BY <2>2, <3>1 DEF Inv, PointerInv, HeldOK
  <2>5. peer[d] = "open"
    BY <2>2 DEF PeerOK
  <2> QED BY <2>3, <2>4, <2>5, CloseStep
<1> QED BY <1>1, <1>2, <1>3, <1>4, <1>5 DEF epoll_listen

\* The steps of a worker before and after the middle of a request.
LEMMA EdgeTalk ==
  ASSUME Inv, PeerOK, TalkInv, NEW w \in Workers,
         \/ handle_named_pipe_client_with_threadpool(w)
         \/ epoll_handler_Add(w) \/ epoll_handler_AddFails(w) \/ epoll_handler_Out(w)
  PROVE  TalkInv' /\ UNCHANGED <<calls, result, executed>>
<1>t. /\ wpc \in [Workers -> WorkerStates]
      /\ wdata \in [Workers -> Conns \cup {None}]
      /\ wreq \in [Workers -> Nat]
      /\ wret \in [Workers -> {0, -1}]
  BY DEF Inv, TypeOK
<1>m. \A v \in Workers : wpc[v] \in Middle \/ wpc'[v] \in Middle =>
           wpc'[v] = wpc[v] /\ wdata'[v] = wdata[v] /\ wreq'[v] = wreq[v]
  <2>1. CASE handle_named_pipe_client_with_threadpool(w)
    BY <1>t, <2>1 DEF handle_named_pipe_client_with_threadpool, Goto, Middle
  <2>2. CASE epoll_handler_Add(w) \/ epoll_handler_AddFails(w)
    BY <1>t, <2>2 DEF epoll_handler_Add, epoll_handler_AddFails, GotoOut, Goto, Middle
  <2>3. CASE epoll_handler_Out(w)
    BY <1>t, <2>3 DEF epoll_handler_Out, ReturnToPool, Goto, Middle
  <2> QED BY <2>1, <2>2, <2>3
<1>c. UNCHANGED <<cstate, calls, result, c2s, s2c, executed>>
  BY DEF handle_named_pipe_client_with_threadpool, epoll_handler_Add,
         epoll_handler_AddFails, epoll_handler_Out, pipeVars, clientVars, streamVars
<1>1. CASE ~(epoll_handler_Out(w) /\ wret[w] < 0)
  <2>1. UNCHANGED peer
    BY <1>1 DEF handle_named_pipe_client_with_threadpool, epoll_handler_Add,
                epoll_handler_AddFails, epoll_handler_Out, pipeVars, streamVars
  <2> QED BY <1>c, <1>m, <2>1, QuietStep
<1>2. CASE epoll_handler_Out(w) /\ wret[w] < 0
  <2>1. wpc[w] = "out" /\ Busy(w)
    BY <1>2 DEF epoll_handler_Out, Busy
  <2>2. PICK d \in Conns : d = wdata[w] /\ fdtab[wfd[w]] = d /\ d # None
    BY <2>1, BusySock, EpollAssumption DEF Sock
  <2>3. HangUp(d)
    BY <1>2, <2>2 DEF epoll_handler_Out, CloseFd
  <2>4. peer[d] = "open" /\ \A v \in Workers : wpc[v] \in Middle => wdata[v] # d
    BY <2>1, <2>2, BusyPlace DEF Middle
  <2> QED BY <1>c, <1>m, <2>3, <2>4, CloseStep
<1> QED BY <1>1, <1>2

\* Before the first connection there is nothing to talk about.
LEMMA TalkInit ==
  ASSUME Init
  PROVE  TalkInv
<1> USE DEF Init, PipeInit
<1>1. WorkersTalk
  BY DEF WorkersTalk, Middle
<1>2. OthersTalk
  BY DEF OthersTalk, TalkOK, RestOK
<1>3. CallsOK
  <2>1. \A c \in Conns : /\ Service!LastExecuted(c) = 0 /\ calls[c] = 0
                         /\ cstate[c] = "new" /\ result[c].kind = "none"
    BY DEF Service!LastExecuted, Returned
  <2> HIDE DEF Init, PipeInit
  <2>2. ASSUME NEW c \in Conns
        PROVE  Service!LastExecuted(c) <= calls[c]
    <3>1. Service!LastExecuted(c) = 0 /\ calls[c] = 0
      BY <2>1
    <3> HIDE DEF Service!LastExecuted
    <3> QED BY <3>1
  <2>3. \A c \in Conns : result[c].kind # "pending" /\ cstate[c] \notin InCall
    BY <2>1 DEF InCall
  <2> QED BY <2>2, <2>3 DEF CallsOK
<1> QED BY <1>1, <1>2, <1>3 DEF TalkInv

\* Every step keeps every conversation legal.
LEMMA TalkNext ==
  ASSUME Inv, PeerOK, TalkInv, [Next]_vars
  PROVE  TalkInv'
<1>1. CASE epoll_listen
  BY <1>1, ListenTalk
<1>2. ASSUME NEW w \in Workers, handle_named_pipe_client_with_threadpool(w)
      PROVE  TalkInv'
  BY <1>2, EdgeTalk
<1>3. ASSUME NEW w \in Workers, epoll_handler(w)
      PROVE  TalkInv'
  BY <1>3, ReadLenTalk, ReadTextTalk, ReadFailsTalk, CallTalk, WriteLenTalk,
     WriteTextTalk, WriteFailsTalk, EdgeTalk
  DEF epoll_handler
<1>4. ASSUME NEW c \in Conns, ClientNext(c), UNCHANGED serverVars
      PROVE  TalkInv'
  BY <1>4, ClientTalkStep
<1>5. CASE UNCHANGED vars
  <2>1. UNCHANGED <<cstate, calls, result, c2s, s2c, peer, executed, wpc, wdata, wreq>>
    BY <1>5 DEF vars, pipeVars, clientVars, streamVars, serverVars, workerVars
  <2> QED BY <2>1, QuietStep
<1> QED BY <1>1, <1>2, <1>3, <1>4, <1>5 DEF Next

\* A server's step closes no connection, and then changes only open ones, or
\* it closes one open connection between two requests.
Closes(d) ==
  /\ cstate[d] # "new" /\ peer[d] = "open"
  /\ \A w \in Workers : wpc[w] \in Middle => wdata[w] # d
  /\ HangUp(d)
  /\ UNCHANGED <<s2c, executed>>
  /\ \A c \in Conns : heap'[c] = "live" => heap[c] = "live" /\ c # d
  /\ \A i \in 1..Len(backlog') :
       backlog'[i] # d /\ \E j \in 1..Len(backlog) : backlog'[i] = backlog[j]

ClosesNone ==
  /\ UNCHANGED peer
  /\ \A c \in Conns : peer[c] # "open" => s2c'[c] = s2c[c] /\ executed'[c] = executed[c]
  /\ \A c \in Conns : heap'[c] = "live" =>
       heap[c] = "live" \/ \E j \in 1..Len(backlog) : c = backlog[j]
  /\ \A i \in 1..Len(backlog') : \E j \in 1..Len(backlog) : backlog'[i] = backlog[j]

\* The listener closes a connection that hung up, or that it cannot register.
LEMMA ListenCloses ==
  ASSUME Inv, PeerOK, epoll_listen
  PROVE  ClosesNone \/ \E d \in Conns : Closes(d)
<1>t. /\ heap \in [Conns -> {"none", "live", "freed"}] /\ backlog \in Seq(Conns)
      /\ connfd \in [Conns -> Fds \cup {None}]
  BY DEF Inv, TypeOK, PipeTypeOK
<1>b. \A i \in 1..Len(backlog) : heap[backlog[i]] = "none" /\ cstate[backlog[i]] # "new"
  BY DEF Inv, PointerInv, BacklogOK
<1>h. ASSUME backlog # <<>>
      PROVE  /\ \E j \in 1..Len(backlog) : Head(backlog) = backlog[j]
             /\ \A i \in 1..Len(Tail(backlog)) :
                  \E j \in 1..Len(backlog) : Tail(backlog)[i] = backlog[j]
  <2>1. /\ Head(backlog) = backlog[1] /\ Len(backlog) \in Nat \ {0}
        /\ Len(Tail(backlog)) = Len(backlog) - 1
        /\ \A i \in 1..Len(Tail(backlog)) : Tail(backlog)[i] = backlog[i + 1]
    BY <1>t, <1>h, TailFacts
  <2>2. \A i \in 1..Len(Tail(backlog)) : i + 1 \in 1..Len(backlog)
    BY <2>1
  <2>3. 1 \in 1..Len(backlog)
    BY <2>1
  <2> QED BY <2>1, <2>2, <2>3
<1>1. ASSUME UNCHANGED <<peer, s2c, executed, heap, backlog>>
      PROVE  ClosesNone
  BY <1>1 DEF ClosesNone
<1>2. CASE epoll_listen_Wait \/ epoll_listen_AcceptEnds
  BY <1>1, <1>2 DEF epoll_listen_Wait, epoll_listen_AcceptEnds, pipeVars, streamVars
<1>3. ASSUME NEW e \in events, epoll_listen_NewClient(e) \/ epoll_listen_Dispatch(e)
      PROVE  ClosesNone
  BY <1>1, <1>3 DEF epoll_listen_NewClient, epoll_listen_Dispatch, pipeVars, streamVars
<1>4. ASSUME NEW f \in Fds, epoll_listen_Accept(f)
      PROVE  ClosesNone
  <2>1. /\ backlog # <<>> /\ UNCHANGED <<peer, s2c, executed>>
        /\ backlog' = Tail(backlog)
        /\ heap' = [heap EXCEPT ![Head(backlog)] = "live"]
    BY <1>4 DEF epoll_listen_Accept
  <2>2. \A c \in Conns : heap'[c] = "live" => heap[c] = "live" \/ c = Head(backlog)
    BY <1>t, <2>1
  <2> QED BY <1>h, <2>1, <2>2 DEF ClosesNone
<1>5. ASSUME NEW f \in Fds, epoll_listen_AcceptAddFails(f)
      PROVE  \E d \in Conns : Closes(d)
  <2>1. backlog # <<>> /\ backlog' = Tail(backlog) /\ UNCHANGED <<s2c, executed>>
    BY <1>5 DEF epoll_listen_AcceptAddFails
  <2>2. PICK d \in Conns : /\ d = Head(backlog) /\ heap[d] = "none" /\ peer[d] = "open"
                           /\ cstate[d] # "new"
    BY <2>1, BacklogTail, HeadOpen
  <2>3. HangUp(d) /\ heap' = [heap EXCEPT ![d] = "freed"]
    BY <1>5, <2>2 DEF epoll_listen_AcceptAddFails, Free
  <2>4. \A w \in Workers : wpc[w] \in Middle => wdata[w] # d
    BY <2>2, MiddleFacts
  <2>5. \A c \in Conns : heap'[c] = "live" => heap[c] = "live" /\ c # d
    BY <1>t, <2>3
  <2>6. \A i \in 1..Len(backlog') : backlog'[i] # d
    BY <2>1, <2>2, BacklogTail
  <2> QED BY <1>h, <2>1, <2>2, <2>3, <2>4, <2>5, <2>6 DEF Closes
<1>6. ASSUME NEW e \in events, epoll_listen_Hup(e)
      PROVE  \E d \in Conns : Closes(d)
  <2>1. PICK d \in Conns : d = e.data
    BY <1>6 DEF epoll_listen_Hup, Inv, TypeOK, Events
  <2>2. /\ heap[d] = "live" /\ connfd[d] \in Fds /\ reg[connfd[d]] = d /\ d # None
        /\ fdtab[connfd[d]] = d
    BY <1>6, <2>1, EpollAssumption
    DEF epoll_listen_Hup, Inv, PointerInv, EventsCurrent, Registered, FdOK
  <2>3. /\ UNCHANGED <<s2c, executed, backlog>>
        /\ HangUp(d) /\ heap' = [heap EXCEPT ![d] = "freed"]
    BY <1>6, <2>1, <2>2 DEF epoll_listen_Hup, CloseFd, Free
  <2>4. \A w \in Workers : wpc[w] \in Middle => wdata[w] # d
    <3>1. \A w \in Workers : wpc[w] \in Middle => Busy(w)
      BY MiddleFacts
    <3> QED BY <2>2, <3>1 DEF Inv, PointerInv, HeldOK
  <2>5. \A c \in Conns : heap'[c] = "live" => heap[c] = "live" /\ c # d
    BY <1>t, <2>3
  <2>6. cstate[d] # "new" /\ peer[d] = "open"
    BY <2>2 DEF PeerOK, Inv, PointerInv, BacklogOK
  <2>7. \A i \in 1..Len(backlog) : backlog[i] # d
    BY <1>b, <2>2
  <2> QED BY <2>3, <2>4, <2>5, <2>6, <2>7 DEF Closes
<1> QED BY <1>2, <1>3, <1>4, <1>5, <1>6 DEF epoll_listen

\* A worker changes the streams of its own connection only, which is open, and
\* closes it after a failure.
LEMMA WorkerCloses ==
  ASSUME Inv, PeerOK, NEW w \in Workers,
         handle_named_pipe_client_with_threadpool(w) \/ epoll_handler(w)
  PROVE  ClosesNone \/ \E d \in Conns : Closes(d)
<1>t. /\ heap \in [Conns -> {"none", "live", "freed"}]
      /\ s2c \in [Conns -> Seq(Units)] /\ executed \in [Conns -> Seq(Nat)]
  BY DEF Inv, TypeOK, PipeTypeOK
<1>b. ASSUME Busy(w)
      PROVE  /\ wdata[w] \in Conns /\ Sock(w) = wdata[w] /\ heap[wdata[w]] = "live"
             /\ peer[wdata[w]] = "open" /\ cstate[wdata[w]] # "new"
             /\ \A i \in 1..Len(backlog) : backlog[i] # wdata[w]
             /\ \A v \in Workers : v # w /\ wpc[v] \in Middle => wdata[v] # wdata[w]
  <2>1. wdata[w] \in Conns /\ Sock(w) = wdata[w] /\ heap[wdata[w]] = "live"
    BY <1>b, BusySock DEF Inv, PointerInv, HeldOK
  <2>2. peer[wdata[w]] = "open" /\ cstate[wdata[w]] # "new"
    BY <2>1 DEF PeerOK, Inv, PointerInv, BacklogOK
  <2>3. \A i \in 1..Len(backlog) : backlog[i] # wdata[w]
    BY <2>1 DEF Inv, PointerInv, BacklogOK
  <2>4. \A v \in Workers : v # w /\ wpc[v] \in Middle => wdata[v] # wdata[w]
    <3>1. \A v \in Workers : wpc[v] \in Middle => Busy(v)
      BY MiddleFacts
    <3> QED BY <1>b, <3>1 DEF Inv, PointerInv, HeldOK
  <2> QED BY <2>1, <2>2, <2>3, <2>4
<1>1. ASSUME UNCHANGED <<peer, heap, backlog>>,
             \A c \in Conns : peer[c] # "open" => s2c'[c] = s2c[c] /\ executed'[c] = executed[c]
      PROVE  ClosesNone
  BY <1>1 DEF ClosesNone
<1>2. CASE \/ handle_named_pipe_client_with_threadpool(w) \/ epoll_handler_ReadLen(w)
           \/ epoll_handler_ReadText(w) \/ epoll_handler_ReadFails(w)
           \/ epoll_handler_WriteFails(w) \/ epoll_handler_Add(w)
           \/ epoll_handler_AddFails(w) \/ (epoll_handler_Out(w) /\ ~(wret[w] < 0))
  <2>1. UNCHANGED <<peer, heap, backlog, s2c, executed>>
    BY <1>2 DEF handle_named_pipe_client_with_threadpool, epoll_handler_ReadLen,
       epoll_handler_ReadText, epoll_handler_ReadFails, epoll_handler_WriteFails,
       epoll_handler_Add, epoll_handler_AddFails, epoll_handler_Out, pipeVars, streamVars
  <2> QED BY <1>1, <2>1
<1>3. CASE epoll_handler_Call(w) \/ epoll_handler_WriteLen(w) \/ epoll_handler_WriteText(w)
  <2>1. Busy(w)
    BY <1>3 DEF epoll_handler_Call, epoll_handler_WriteLen, epoll_handler_WriteText,
                epoll_handler_Write, Busy
  <2>2. UNCHANGED <<peer, heap, backlog>>
    BY <1>3 DEF epoll_handler_Call, epoll_handler_WriteLen, epoll_handler_WriteText,
                epoll_handler_Write, pipeVars, streamVars
  <2>3. \A c \in Conns : c # Sock(w) => s2c'[c] = s2c[c] /\ executed'[c] = executed[c]
    BY <1>t, <1>3 DEF epoll_handler_Call, epoll_handler_WriteLen, epoll_handler_WriteText,
                      epoll_handler_Write, Put, pipeVars, streamVars
  <2> QED BY <1>1, <1>b, <2>1, <2>2, <2>3
<1>4. CASE epoll_handler_Out(w) /\ wret[w] < 0
  <2>1. wpc[w] = "out" /\ Busy(w)
    BY <1>4 DEF epoll_handler_Out, Busy
  <2>2. PICK d \in Conns : d = wdata[w] /\ fdtab[wfd[w]] = d /\ d # None
    BY <2>1, BusySock, EpollAssumption DEF Sock
  <2>3. /\ HangUp(d) /\ heap' = [heap EXCEPT ![d] = "freed"]
        /\ UNCHANGED <<s2c, executed, backlog>>
    BY <1>4, <2>2 DEF epoll_handler_Out, CloseFd, Free
  <2>4. \A v \in Workers : wpc[v] \in Middle => wdata[v] # d
    BY <1>b, <2>1, <2>2 DEF Middle
  <2>5. \A c \in Conns : heap'[c] = "live" => heap[c] = "live" /\ c # d
    BY <1>t, <2>3
  <2> QED BY <1>b, <2>1, <2>2, <2>3, <2>4, <2>5 DEF Closes
<1> QED BY <1>2, <1>3, <1>4 DEF epoll_handler

\* A server's step is not a client's.
LEMMA ServerKeepsClients ==
  ASSUME \/ epoll_listen
         \/ \E w \in Workers : handle_named_pipe_client_with_threadpool(w) \/ epoll_handler(w)
  PROVE  UNCHANGED <<cstate, calls, result>>
<1>1. CASE epoll_listen
  BY <1>1 DEF epoll_listen, epoll_listen_Wait, epoll_listen_NewClient, epoll_listen_Hup,
     epoll_listen_Dispatch, epoll_listen_Accept, epoll_listen_AcceptAddFails,
     epoll_listen_AcceptEnds, pipeVars, clientVars
<1>2. ASSUME NEW w \in Workers,
             handle_named_pipe_client_with_threadpool(w) \/ epoll_handler(w)
      PROVE  UNCHANGED <<cstate, calls, result>>
  BY <1>2
  DEF handle_named_pipe_client_with_threadpool, epoll_handler, epoll_handler_ReadLen,
      epoll_handler_ReadText, epoll_handler_ReadFails, epoll_handler_Call,
      epoll_handler_WriteLen, epoll_handler_WriteText, epoll_handler_Write,
      epoll_handler_WriteFails, epoll_handler_Add, epoll_handler_AddFails,
      epoll_handler_Out, pipeVars, clientVars
<1> QED BY <1>1, <1>2

\* A connection that waits to be accepted, or has data, stays open.
LEMMA PeerNext ==
  ASSUME Inv, PeerOK, [Next]_vars
  PROVE  PeerOK'
<1>t. /\ cstate \in [Conns -> ClientStates] /\ backlog \in Seq(Conns)
      /\ peer \in [Conns -> PeerStates]
  BY DEF Inv, TypeOK, PipeTypeOK
<1>e. \A j \in 1..Len(backlog) : backlog[j] \in Conns
  BY <1>t
<1>1. ASSUME UNCHANGED cstate, ClosesNone
      PROVE  PeerOK'
  <2>1. \A c \in Conns : heap'[c] = "live" => peer[c] = "open"
    BY <1>1 DEF ClosesNone, PeerOK
  <2>2. \A i \in 1..Len(backlog') : peer[backlog'[i]] = "open"
    BY <1>1 DEF ClosesNone, PeerOK
  <2>3. peer' = peer
    BY <1>1 DEF ClosesNone
  <2> QED BY <1>1, <2>1, <2>2, <2>3 DEF PeerOK
<1>2. ASSUME UNCHANGED cstate, NEW d \in Conns, Closes(d)
      PROVE  PeerOK'
  <2>1. \A c \in Conns : c # d => peer'[c] = peer[c]
    BY <1>t, <1>2 DEF Closes, HangUp
  <2>2. \A c \in Conns : heap'[c] = "live" => c # d /\ peer[c] = "open"
    BY <1>2 DEF Closes, PeerOK
  <2>3. \A i \in 1..Len(backlog') :
          backlog'[i] \in Conns /\ backlog'[i] # d /\ peer[backlog'[i]] = "open"
    BY <1>2, <1>e DEF Closes, PeerOK
  <2>4. \A c \in Conns : cstate[c] = "new" => c # d /\ peer[c] = "open"
    BY <1>2 DEF Closes, PeerOK
  <2> QED BY <1>2, <2>1, <2>2, <2>3, <2>4 DEF PeerOK
<1>3. CASE epoll_listen
  BY <1>1, <1>2, <1>3, ListenCloses, ServerKeepsClients
<1>4. ASSUME NEW w \in Workers,
             handle_named_pipe_client_with_threadpool(w) \/ epoll_handler(w)
      PROVE  PeerOK'
  BY <1>1, <1>2, <1>4, WorkerCloses, ServerKeepsClients
<1>5. ASSUME NEW c \in Conns, ClientNext(c), UNCHANGED serverVars
      PROVE  PeerOK'
  <2>1. peer' = peer /\ heap' = heap
    BY <1>5, ClientEffect DEF Inv, TypeOK, serverVars
  <2>2. CASE searpc_named_pipe_client_connect(c)
    <3>1. /\ cstate[c] = "new" /\ cstate' = [cstate EXCEPT ![c] = "ready"]
          /\ backlog' = Append(backlog, c)
      BY <2>2 DEF searpc_named_pipe_client_connect
    <3>2. /\ Len(backlog') = Len(backlog) + 1 /\ Len(backlog) \in Nat
          /\ \A i \in 1..Len(backlog) : backlog'[i] = backlog[i]
          /\ backlog'[Len(backlog) + 1] = c
      BY <1>t, <3>1, AppendFacts
    <3>3. \A i \in 1..Len(backlog') : i \in 1..Len(backlog) \/ i = Len(backlog) + 1
      BY <3>2
    <3>4. \A i \in 1..Len(backlog') : peer[backlog'[i]] = "open"
      BY <3>1, <3>2, <3>3 DEF PeerOK
    <3>5. \A d \in Conns : cstate'[d] = "new" => cstate[d] = "new"
      BY <1>t, <3>1
    <3> QED BY <2>1, <3>4, <3>5 DEF PeerOK
  <2>3. CASE ~searpc_named_pipe_client_connect(c)
    <3>1. /\ backlog' = backlog
          /\ \E s \in ClientStates \ {"new"} : cstate' = [cstate EXCEPT ![c] = s]
      BY <1>t, <1>5, <2>3, ClientPlaces
    <3>2. \A d \in Conns : cstate'[d] = "new" => cstate[d] = "new"
      BY <1>t, <3>1
    <3> QED BY <2>1, <3>1, <3>2 DEF PeerOK
  <2> QED BY <2>2, <2>3
<1>6. CASE UNCHANGED vars
  BY <1>6 DEF PeerOK, vars, pipeVars, clientVars, streamVars, serverVars
<1> QED BY <1>3, <1>4, <1>5, <1>6 DEF Next

\* No connection is closed before there is one.
LEMMA PeerInit ==
  ASSUME Init
  PROVE  PeerOK
<1>1. Len(<<>>) = 0 /\ 1..0 = {}
  OBVIOUS
<1> QED BY <1>1 DEF Init, PipeInit, PeerOK

\* In every reachable state the two ends of every connection agree.
THEOREM TalkInvariance == Spec => [](Inv /\ PeerOK /\ TalkInv)
<1>1. Init => Inv /\ PeerOK /\ TalkInv
  BY InvInit, PeerInit, TalkInit
<1>2. Inv /\ PeerOK /\ TalkInv /\ [Next]_vars => (Inv /\ PeerOK /\ TalkInv)'
  BY InvNext, PeerNext, TalkNext
<1> QED BY <1>1, <1>2, PTL DEF Spec

-----------------------------------------------------------------------------
(* The refinement.                                                         *)

\* The connection of a client's step is somewhere in its conversation.
LEMMA SomePlace ==
  ASSUME Inv, PeerOK, TalkInv, NEW c \in Conns
  PROVE  \E at \in Middle \cup {"rest"} : TalkOK(c, at)
BY DEF TalkInv, WorkersTalk, OthersTalk

\* While the process lives it closes a connection with the whole response in
\* the stream, or in a way the client sees.
WellClosed ==
  \A c \in Conns : peer[c] # "open" =>
    /\ cstate[c] = "wait" => \/ peer[c] = "reset" /\ s2c[c] = <<>>
                             \/ peer[c] = "eof" /\ Answered(c)
    /\ cstate[c] = "reply" => peer[c] = "eof" /\ HalfRead(c)

\* No step of a client returns a buffer without a response.
LEMMA NoEOF ==
  ASSUME Inv, TalkInv, WellClosed, NEW c \in Conns
  PROVE  ~pipe_send_ReadTextEOF(c)
<1> SUFFICES ASSUME pipe_send_ReadTextEOF(c)
             PROVE  FALSE
  OBVIOUS
<1>1. cstate[c] = "reply" /\ TextStops(c) /\ peer[c] = "eof"
  BY DEF pipe_send_ReadTextEOF
<1>2. HalfRead(c)
  BY <1>1 DEF WellClosed
<1>3. Head(One(Unit(c, "text"))) = Unit(c, "text") /\ One(Unit(c, "text")) # <<>>
  BY ShortStreams
<1>4. Unit(c, "text").part = "text"
  BY UnitFacts
<1> QED BY <1>1, <1>2, <1>3, <1>4 DEF HalfRead, TextStops

\* What is in the stream of a closed connection stays what it was.
LEMMA SameResponse ==
  ASSUME NEW c \in Conns, calls'[c] = calls[c], executed'[c] = executed[c], s2c'[c] = s2c[c]
  PROVE  (Answered(c)' <=> Answered(c)) /\ (HalfRead(c)' <=> HalfRead(c))
<1>1. /\ \A part : One(Unit(c, part))' = One(Unit(c, part))
      /\ \A p, q : Two(Unit(c, p), Unit(c, q))' = Two(Unit(c, p), Unit(c, q))
      /\ Done(c)' <=> Done(c)
  BY SameUnits
<1> QED BY <1>1 DEF Answered, HalfRead

\* A client reads the response that the server left before it closed.
LEMMA WellClosedClient ==
  ASSUME Inv, WellClosed, NEW c \in Conns, ClientNext(c), UNCHANGED serverVars
  PROVE  WellClosed'
<1>t. /\ PipeTypeOK /\ cstate \in [Conns -> ClientStates] /\ s2c \in [Conns -> Seq(Units)]
      /\ executed' = executed
  BY DEF Inv, TypeOK, PipeTypeOK, serverVars
<1>e. /\ peer' = peer
      /\ \A d \in Conns : d # c =>
           cstate'[d] = cstate[d] /\ calls'[d] = calls[d] /\ s2c'[d] = s2c[d]
  BY <1>t, ClientEffect
<1>1. ASSUME NEW d \in Conns, d # c, peer[d] # "open"
      PROVE  /\ cstate'[d] = "wait" => \/ peer[d] = "reset" /\ s2c'[d] = <<>>
                                       \/ peer[d] = "eof" /\ Answered(d)'
             /\ cstate'[d] = "reply" => peer[d] = "eof" /\ HalfRead(d)'
  <2>1. (Answered(d)' <=> Answered(d)) /\ (HalfRead(d)' <=> HalfRead(d))
    BY <1>t, <1>e, <1>1, SameResponse
  <2> QED BY <1>e, <1>1, <2>1 DEF WellClosed
<1>2. ASSUME peer[c] # "open"
      PROVE  /\ cstate'[c] # "wait"
             /\ cstate'[c] = "reply" => peer[c] = "eof" /\ HalfRead(c)'
  <2>1. CASE pipe_send_ReadLen(c)
    <3>1. /\ cstate[c] = "wait" /\ cstate'[c] = "reply" /\ calls' = calls
          /\ \/ s2c[c] # <<>> /\ s2c'[c] = Tail(s2c[c])
             \/ s2c[c] = <<>> /\ peer[c] = "eof"
      BY <1>t, <2>1 DEF pipe_send_ReadLen, Take
    <3>2. Answered(c) /\ peer[c] = "eof"
      BY <1>2, <3>1, ShortStreams DEF WellClosed, Answered
    <3>3. s2c'[c] = One(Unit(c, "text")) /\ Done(c)
      BY <3>1, <3>2, ShortStreams DEF Answered
    <3>4. One(Unit(c, "text"))' = One(Unit(c, "text")) /\ (Done(c)' <=> Done(c))
      BY <1>t, <3>1, SameUnits
    <3> QED BY <3>1, <3>2, <3>3, <3>4 DEF HalfRead
  <2>2. CASE ~pipe_send_ReadLen(c)
    <3>1. cstate'[c] \notin {"wait", "reply"}
      BY <1>t, <1>2, <2>2
      DEF ClientNext, searpc_named_pipe_client_connect, pipe_send_WriteLen,
          pipe_send_WriteLenFails, searpc_named_pipe_send, pipe_send_WriteText,
          pipe_send_WriteTextFails, pipe_send_ReadText, pipe_send_ReadTextEOF,
          pipe_send_ReadFails, Return, Die, searpc_free_client_with_pipe_transport
    <3> QED BY <3>1
  <2> QED BY <2>1, <2>2
<1> QED BY <1>e, <1>1, <1>2 DEF WellClosed

\* A server that closes between two requests closes well.
LEMMA WellClosedServer ==
  ASSUME Inv, TalkInv, WellClosed, UNCHANGED <<cstate, calls>>,
         ClosesNone \/ \E d \in Conns : Closes(d)
  PROVE  WellClosed'
<1>t. peer \in [Conns -> PeerStates]
  BY DEF Inv, TypeOK, PipeTypeOK
<1>1. ASSUME NEW c \in Conns, peer[c] # "open", peer'[c] = peer[c],
             s2c'[c] = s2c[c], executed'[c] = executed[c]
      PROVE  /\ cstate'[c] = "wait" => \/ peer'[c] = "reset" /\ s2c'[c] = <<>>
                                       \/ peer'[c] = "eof" /\ Answered(c)'
             /\ cstate'[c] = "reply" => peer'[c] = "eof" /\ HalfRead(c)'
  <2>1. (Answered(c)' <=> Answered(c)) /\ (HalfRead(c)' <=> HalfRead(c))
    BY <1>1, SameResponse
  <2> QED BY <1>1, <2>1 DEF WellClosed
<1>2. CASE ClosesNone
  <2>1. /\ peer' = peer
        /\ \A c \in Conns : peer[c] # "open" => s2c'[c] = s2c[c] /\ executed'[c] = executed[c]
    BY <1>2 DEF ClosesNone
  <2> QED BY <1>1, <2>1 DEF WellClosed
<1>3. ASSUME NEW d \in Conns, Closes(d)
      PROVE  WellClosed'
  <2>1. /\ peer[d] = "open" /\ s2c' = s2c /\ executed' = executed
        /\ peer'[d] = IF c2s[d] = <<>> THEN "eof" ELSE "reset"
        /\ \A c \in Conns : c # d => peer'[c] = peer[c]
    BY <1>t, <1>3 DEF Closes, HangUp
  <2>2. RestOK(d)
    BY <1>3 DEF Closes, TalkInv, OthersTalk, TalkOK
  <2>3. (Answered(d)' <=> Answered(d)) /\ (HalfRead(d)' <=> HalfRead(d))
    BY <2>1, SameResponse
  <2>4. \A x, y : Two(x, y) # <<>>
    BY ShortStreams
  <2>5. /\ cstate'[d] = "wait" => \/ peer'[d] = "reset" /\ s2c'[d] = <<>>
                                  \/ peer'[d] = "eof" /\ Answered(d)'
        /\ cstate'[d] = "reply" => peer'[d] = "eof" /\ HalfRead(d)'
    BY <2>1, <2>2, <2>3, <2>4 DEF RestOK
  <2> QED BY <1>1, <2>1, <2>5 DEF WellClosed
<1> QED BY <1>2, <1>3

\* While the process lives no client meets end of file inside a call.
LEMMA WellClosedNext ==
  ASSUME Inv, PeerOK, TalkInv, WellClosed, [Next]_vars
  PROVE  WellClosed'
<1>1. CASE epoll_listen
  BY <1>1, ListenCloses, ServerKeepsClients, WellClosedServer
<1>2. ASSUME NEW w \in Workers,
             handle_named_pipe_client_with_threadpool(w) \/ epoll_handler(w)
      PROVE  WellClosed'
  BY <1>2, WorkerCloses, ServerKeepsClients, WellClosedServer
<1>3. ASSUME NEW c \in Conns, ClientNext(c), UNCHANGED serverVars
      PROVE  WellClosed'
  BY <1>3, WellClosedClient
<1>4. CASE UNCHANGED vars
  <2>1. UNCHANGED <<cstate, calls, s2c, peer, executed>>
    BY <1>4 DEF vars, pipeVars, clientVars, streamVars, serverVars
  <2>2. \A c \in Conns : (Answered(c)' <=> Answered(c)) /\ (HalfRead(c)' <=> HalfRead(c))
    BY <2>1, SameResponse
  <2> QED BY <2>1, <2>2 DEF WellClosed
<1> QED BY <1>1, <1>2, <1>3, <1>4 DEF Next

\* The server's process lives, and so what is said of closed connections holds.
LEMMA AlwaysWellClosed == Spec => [](Inv /\ PeerOK /\ TalkInv /\ WellClosed)
<1>1. Init => WellClosed
  BY DEF Init, PipeInit, WellClosed
<1>2. Inv /\ PeerOK /\ TalkInv /\ WellClosed /\ [Next]_vars => WellClosed'
  BY WellClosedNext
<1> QED BY <1>1, <1>2, TalkInvariance, PTL DEF Spec

\* Every step of the server and its clients is a step of the service, or one
\* the service does not see.
LEMMA StepRefines ==
  ASSUME Inv, PeerOK, TalkInv, WellClosed, [Next]_vars
  PROVE  [Service!Next]_(Service!vars)
<1>0. ASSUME UNCHANGED <<calls, executed, result>>
      PROVE  UNCHANGED Service!vars
  BY <1>0 DEF Service!vars
<1>1. CASE epoll_listen
  BY <1>0, <1>1, ListenTalk
<1>2. ASSUME NEW w \in Workers,
             handle_named_pipe_client_with_threadpool(w) \/ epoll_handler(w)
      PROVE  [Service!Next]_(Service!vars)
  <2>1. CASE epoll_handler_Call(w)
    <3>1. wdata[w] \in Conns
      BY <2>1, MiddleFacts DEF epoll_handler_Call, Middle
    <3> QED BY <2>1, <3>1, CallTalk DEF Service!Next
  <2>2. CASE ~epoll_handler_Call(w)
    <3>1. UNCHANGED <<calls, executed, result>>
      BY <1>2, <2>2
      DEF handle_named_pipe_client_with_threadpool, epoll_handler, epoll_handler_ReadLen,
          epoll_handler_ReadText, epoll_handler_ReadFails, epoll_handler_WriteLen,
          epoll_handler_WriteText, epoll_handler_Write, epoll_handler_WriteFails,
          epoll_handler_Add, epoll_handler_AddFails, epoll_handler_Out,
          pipeVars, clientVars, streamVars
    <3> QED BY <1>0, <3>1
  <2> QED BY <2>1, <2>2
<1>3. ASSUME NEW c \in Conns, ClientNext(c), UNCHANGED serverVars
      PROVE  [Service!Next]_(Service!vars)
  <2>1. UNCHANGED executed
    BY <1>3 DEF serverVars
  <2>2. PipeTypeOK /\ CallsOK
    BY DEF Inv, TypeOK, TalkInv
  <2>3. PICK at \in Middle \cup {"rest"} : TalkOK(c, at)
    BY SomePlace
  <2>4. \/ Service!Call(c) \/ Service!Reply(c) \/ Service!Fail(c)
        \/ UNCHANGED <<calls, executed, result>>
    BY <1>3, <2>1, <2>2, <2>3, ClientRefines, NoEOF
  <2> QED BY <1>0, <2>4 DEF Service!Next
<1>4. CASE UNCHANGED vars
  BY <1>0, <1>4 DEF vars, pipeVars, clientVars, serverVars
<1> QED BY <1>1, <1>2, <1>3, <1>4 DEF Next

\* The initial states of the server are initial states of the service.
LEMMA InitRefines ==
  ASSUME Init
  PROVE  Service!Init
BY DEF Init, PipeInit, Service!Init, Service!Outcome, Returned, CallerSees

\* The server in its epoll mode and its clients implement the service: a call
\* is executed at most once, in order, and its caller gets the response to
\* that call or an error, whoever dies when (transport.c:229-298, 623-662).
THEOREM EpollImplements == Spec => Implements
<1>1. Init => Service!Init
  BY InitRefines
<1>2. Inv /\ PeerOK /\ TalkInv /\ WellClosed /\ [Next]_vars
        => [Service!Next]_(Service!vars)
  BY StepRefines
<1>3. Spec => Service!Spec
  BY <1>1, <1>2, AlwaysWellClosed, PTL DEF Spec, Service!Spec
<1> QED BY <1>3 DEF Implements

-----------------------------------------------------------------------------
(* No worker is parked on an idle connection.                              *)

\* Steps after which nobody new is to read, and nothing was read.
LEMMA ReadableKept ==
  ASSUME Inv, ReadableOK,
         events' \subseteq events,
         pool' = pool,
         \A w \in Workers : wpc'[w] = "len" => wpc[w] = "len" /\ wdata'[w] = wdata[w],
         \A c \in Conns : c2s[c] # <<>> => c2s'[c] # <<>>
  PROVE  ReadableOK'
<1>1. \A e \in events : e.data # pipe_fd => e.data \in Conns
  BY DEF Inv, TypeOK, Events
<1>2. \A i \in 1..Len(pool) : pool[i] \in Conns
  BY DEF Inv, TypeOK
<1>3. \A w \in Workers : wpc[w] = "len" => wdata[w] \in Conns
  BY DEF Inv, PointerInv, HeldOK, Busy
<1> QED BY <1>1, <1>2, <1>3 DEF ReadableOK, NoIdleWorker

\* A worker reads from its own connection, which nobody else is to read.
LEMMA ReadableTaken ==
  ASSUME Inv, ReadableOK, NEW w \in Workers, Busy(w),
         events' = events, pool' = pool, wdata' = wdata,
         NEW to \in WorkerStates \ {"len"}, wpc' = [wpc EXCEPT ![w] = to],
         \A c \in Conns : c # wdata[w] => c2s'[c] = c2s[c]
  PROVE  ReadableOK'
<1>t. wpc \in [Workers -> WorkerStates]
  BY DEF Inv, TypeOK
<1>1. \A e \in events : e.data # pipe_fd => e.data \in Conns /\ e.data # wdata[w]
  <2>1. \A e \in events : e.data # pipe_fd => e.data \in Conns
    BY DEF Inv, TypeOK, Events
  <2> QED BY <2>1, EpollAssumption
          DEF Inv, PointerInv, EventsCurrent, Registered, HeldOK
<1>2. \A i \in 1..Len(pool) : pool[i] \in Conns /\ pool[i] # wdata[w]
  <2>1. \A i \in 1..Len(pool) : pool[i] \in Conns
    BY DEF Inv, TypeOK
  <2> QED BY <2>1 DEF Inv, PointerInv, HeldOK
<1>3. ASSUME NEW v \in Workers, wpc'[v] = "len"
      PROVE  wpc[v] = "len" /\ wdata[v] \in Conns /\ wdata[v] # wdata[w]
  <2>1. v # w /\ wpc[v] = "len"
    BY <1>t, <1>3
  <2>2. Busy(v)
    BY <2>1 DEF Busy
  <2> QED BY <2>1, <2>2 DEF Inv, PointerInv, HeldOK
<1> QED BY <1>1, <1>2, <1>3 DEF ReadableOK, NoIdleWorker

\* The listener hands out readable connections only, and they stay readable
\* until a worker has read from them.
LEMMA ReadableNext ==
  ASSUME Inv, ReadableOK, [Next]_vars
  PROVE  ReadableOK'
<1>t. /\ wpc \in [Workers -> WorkerStates]
      /\ wdata \in [Workers -> Conns \cup {None}]
      /\ pool \in Seq(Conns)
  BY DEF Inv, TypeOK
<1>1. CASE epoll_listen_Wait
  <2>0. UNCHANGED <<c2s, pool, wpc, wdata>> /\ events' \subseteq ReadyEvents
    BY <1>1 DEF epoll_listen_Wait, pipeVars, streamVars, workerVars
  <2>1. ASSUME NEW e \in events', e.data # pipe_fd, ~e.hup
        PROVE  c2s[e.data] # <<>>
    <3>1. PICK f \in Fds :
            /\ reg[f] # None
            /\ c2s[fdtab[f]] # <<>> \/ cstate[fdtab[f]] = "gone"
            /\ e = [data |-> reg[f], hup |-> cstate[fdtab[f]] = "gone"]
      BY <2>0, <2>1 DEF ReadyEvents
    <3>2. e.data = reg[f] /\ e.hup = (cstate[fdtab[f]] = "gone")
      BY <3>1
    <3>3. fdtab[f] = reg[f]
      BY <3>1 DEF Inv, PointerInv, RegOK, FdOK, TypeOK
    <3> QED BY <2>1, <3>1, <3>2, <3>3
  <2> QED BY <2>0, <2>1 DEF ReadableOK, NoIdleWorker
<1>2. CASE epoll_listen_AcceptEnds
  <2>1. UNCHANGED <<events, c2s, pool, wpc, wdata>>
    BY <1>2 DEF epoll_listen_AcceptEnds, pipeVars, streamVars, workerVars
  <2> QED BY <2>1, ReadableKept
<1>3. ASSUME NEW e \in events, epoll_listen_NewClient(e) \/ epoll_listen_Hup(e)
      PROVE  ReadableOK'
  <2>1. UNCHANGED <<c2s, pool, wpc, wdata>> /\ events' \subseteq events
    BY <1>3 DEF epoll_listen_NewClient, epoll_listen_Hup, pipeVars, streamVars, workerVars
  <2> QED BY <2>1, ReadableKept
<1>4. ASSUME NEW e \in events, epoll_listen_Dispatch(e)
      PROVE  ReadableOK'
  <2>1. /\ UNCHANGED <<c2s, wpc, wdata>> /\ events' \subseteq events
        /\ pool' = Append(pool, e.data)
        /\ e.data # pipe_fd /\ ~e.hup
    BY <1>4 DEF epoll_listen_Dispatch, pipeVars, streamVars, workerVars
  <2>2. e.data \in Conns /\ c2s[e.data] # <<>>
    BY <2>1 DEF ReadableOK, Inv, TypeOK, Events
  <2>3. /\ Len(pool) \in Nat
        /\ Len(pool') = Len(pool) + 1
        /\ \A i \in 1..Len(pool) : pool'[i] = pool[i]
        /\ pool'[Len(pool) + 1] = e.data
    BY <1>t, <2>1, <2>2, AppendFacts
  <2> QED BY <2>1, <2>2, <2>3 DEF ReadableOK, NoIdleWorker
<1>5. ASSUME NEW f \in Fds, epoll_listen_Accept(f) \/ epoll_listen_AcceptAddFails(f)
      PROVE  ReadableOK'
  <2>1. UNCHANGED <<events, c2s, pool, wpc, wdata>>
    BY <1>5 DEF epoll_listen_Accept, epoll_listen_AcceptAddFails, listenVars, workerVars
  <2> QED BY <2>1, ReadableKept
<1>6. ASSUME NEW w \in Workers, handle_named_pipe_client_with_threadpool(w)
      PROVE  ReadableOK'
  <2>1. /\ UNCHANGED <<events, c2s>>
        /\ pool # <<>>
        /\ pool' = Tail(pool)
        /\ wpc' = [wpc EXCEPT ![w] = "len"]
        /\ wdata' = [wdata EXCEPT ![w] = Head(pool)]
    BY <1>6 DEF handle_named_pipe_client_with_threadpool, Goto, pipeVars, streamVars
  <2>2. /\ Head(pool) = pool[1]
        /\ Len(pool) \in Nat \ {0}
        /\ Len(Tail(pool)) = Len(pool) - 1
        /\ \A i \in 1..Len(Tail(pool)) : Tail(pool)[i] = pool[i + 1]
    BY <1>t, <2>1, TailFacts
  <2>3. c2s[Head(pool)] # <<>> /\ \A i \in 1..Len(pool') : c2s[pool'[i]] # <<>>
    BY <2>1, <2>2 DEF ReadableOK
  <2> QED BY <1>t, <2>1, <2>3 DEF ReadableOK, NoIdleWorker
<1>7. ASSUME NEW w \in Workers,
             \/ epoll_handler_ReadLen(w) \/ epoll_handler_ReadText(w)
             \/ epoll_handler_ReadFails(w)
      PROVE  ReadableOK'
  <2>1. Busy(w) /\ Sock(w) = wdata[w] /\ wdata[w] \in Conns
    BY <1>7, BusySock
    DEF epoll_handler_ReadLen, epoll_handler_ReadText, epoll_handler_ReadFails, Busy
  <2>2. /\ \E to \in WorkerStates \ {"len"} : wpc' = [wpc EXCEPT ![w] = to]
        /\ UNCHANGED <<events, pool, wdata>>
        /\ c2s' = c2s \/ c2s' = Take(c2s, wdata[w])
    BY <1>7, <2>1
    DEF epoll_handler_ReadLen, epoll_handler_ReadText, epoll_handler_ReadFails, Goto,
        GotoOut, WorkerStates, listenVars
  <2>3. \A c \in Conns : c # wdata[w] => c2s'[c] = c2s[c]
    BY <2>1, <2>2 DEF Take, Inv, TypeOK, PipeTypeOK
  <2> QED BY <2>1, <2>2, <2>3, ReadableTaken
<1>8. ASSUME NEW w \in Workers,
             \/ epoll_handler_Call(w) \/ epoll_handler_WriteLen(w)
             \/ epoll_handler_WriteText(w) \/ epoll_handler_WriteFails(w)
             \/ epoll_handler_Add(w) \/ epoll_handler_AddFails(w)
      PROVE  ReadableOK'
  <2>1. /\ \E to \in WorkerStates \ {"len"} : wpc' = [wpc EXCEPT ![w] = to]
        /\ UNCHANGED <<events, pool, wdata, c2s>>
    BY <1>8
    DEF epoll_handler_Call, epoll_handler_WriteLen, epoll_handler_WriteText,
        epoll_handler_Write, epoll_handler_WriteFails, epoll_handler_Add,
        epoll_handler_AddFails, Goto, GotoOut, WorkerStates, listenVars, pipeVars, streamVars
  <2>2. \A v \in Workers : wpc'[v] = "len" => wpc[v] = "len"
    BY <1>t, <2>1
  <2> QED BY <2>1, <2>2, ReadableKept
<1>9. ASSUME NEW w \in Workers, epoll_handler_Out(w)
      PROVE  ReadableOK'
  <2>1. /\ wpc' = [wpc EXCEPT ![w] = "idle"]
        /\ wdata' = [wdata EXCEPT ![w] = None]
        /\ UNCHANGED <<events, pool, c2s>>
    BY <1>9 DEF epoll_handler_Out, ReturnToPool, Goto
  <2>2. \A v \in Workers : wpc'[v] = "len" => wpc[v] = "len" /\ wdata'[v] = wdata[v]
    BY <1>t, <2>1
  <2> QED BY <2>1, <2>2, ReadableKept
<1>10. ASSUME NEW c \in Conns, ClientNext(c), UNCHANGED serverVars
       PROVE  ReadableOK'
  <2>1. UNCHANGED <<events, pool, wpc, wdata>>
    BY <1>10 DEF serverVars, listenVars, workerVars
  <2>2. \A d \in Conns : c2s[d] # <<>> => c2s'[d] # <<>>
    BY <1>10, ClientEffect DEF Inv, TypeOK
  <2> QED BY <2>1, <2>2, ReadableKept
<1>11. CASE UNCHANGED vars
  <2>1. UNCHANGED <<events, c2s, pool, wpc, wdata>>
    BY <1>11 DEF vars, pipeVars, streamVars, serverVars, listenVars, workerVars
  <2> QED BY <2>1, ReadableKept
<1> QED
  BY <1>1, <1>2, <1>3, <1>4, <1>5, <1>6, <1>7, <1>8, <1>9, <1>10, <1>11
  DEF Next, epoll_listen, epoll_handler

\* A worker in its first read always finds a length: the epoll mode never
\* parks a thread of the pool on an idle connection (transport.c:240).
THEOREM WorkersAreNotIdle == Spec => []NoIdleWorker
<1>1. Init => ReadableOK
  BY DEF Init, ReadableOK, NoIdleWorker
<1>2. Inv /\ ReadableOK /\ [Next]_vars => ReadableOK'
  BY ReadableNext
<1>3. ReadableOK => NoIdleWorker
  BY DEF ReadableOK
<1> QED BY <1>1, <1>2, <1>3, Invariant, PTL DEF Spec

-----------------------------------------------------------------------------
(***************************************************************************)
(* What EpollCrash keeps of EpollServer's promises when the process is     *)
(* killed at any moment and started again, any number of times.            *)
(*                                                                         *)
(* A dying process breaks WellClosed, what is said above of the way a      *)
(* connection is closed: half a response may be left behind.  It does not  *)
(* break the rest.  Wherever the kill meets a call, what lies in the       *)
(* response stream belongs to that call, which was executed (LeftOver),    *)
(* and no client sends a second call into a connection that was closed.    *)
(***************************************************************************)

\* The calls of a connection are executed in order, and a response that was
\* returned is the last call's, which is the one executed last.
ServedOK ==
  \A c \in Conns :
    /\ \A i, j \in 1..Len(executed[c]) : i < j => executed[c][i] < executed[c][j]
    /\ result[c].kind = "reply" => result[c].call = calls[c] /\ calls[c] # 0 /\ Done(c)

CrashInv == Inv /\ PeerOK /\ TalkInv /\ ServedOK

-----------------------------------------------------------------------------
(* The kill.                                                               *)

\* The pointers and descriptors of the dead process are gone.
LEMMA KillInv ==
  ASSUME Inv, Kill
  PROVE  Inv'
<1>t. TypeOK /\ PointerInv
  BY DEF Inv
<1>1. PipeTypeOK'
  <2>1. s2c' \in [Conns -> Seq(Units)]
    <3>1. PICK cut \in SUBSET Writing :
            s2c' = [c \in Conns |->
                      IF c \in cut
                        THEN Append(s2c[c], [part |-> "cut", call |-> calls[c]])
                        ELSE s2c[c]]
      BY DEF Kill
    <3>2. ASSUME NEW c \in Conns
          PROVE  /\ s2c[c] \in Seq(Units)
                 /\ Append(s2c[c], [part |-> "cut", call |-> calls[c]]) \in Seq(Units)
      <4>1. s2c[c] \in Seq(Units) /\ calls[c] \in Nat
        BY <1>t DEF TypeOK, PipeTypeOK
      <4>2. [part |-> "cut", call |-> calls[c]] \in Units
        BY <4>1 DEF Units
      <4> QED BY <4>1, <4>2, AppendFacts
    <3> QED BY <3>1, <3>2
  <2>2. peer' \in [Conns -> PeerStates]
    BY <1>t DEF Kill, PeerAfterKill, TypeOK, PipeTypeOK, PeerStates
  <2>3. backlog' \in Seq(Conns)
    BY DEF Kill
  <2>4. UNCHANGED <<cstate, calls, result, c2s>>
    BY DEF Kill, clientVars
  <2> QED BY <1>t, <2>1, <2>2, <2>3, <2>4 DEF TypeOK, PipeTypeOK
<1>2. TypeOK'
  <2>1. heap' \in [Conns -> {"none", "live", "freed"}]
    BY <1>t DEF Kill, TypeOK
  <2>2. /\ fdtab' \in [Fds -> Conns \cup {None}]
        /\ connfd' \in [Conns -> Fds \cup {None}]
        /\ reg' \in [Fds -> Conns \cup {None}]
        /\ events' \in SUBSET Events
        /\ pool' \in Seq(Conns)
    BY DEF Kill
  <2>3. /\ wpc' \in [Workers -> WorkerStates]
        /\ wdata' \in [Workers -> Conns \cup {None}]
        /\ wfd' \in [Workers -> Fds \cup {None}]
        /\ wreq' \in [Workers -> Nat]
        /\ wret' \in [Workers -> {0, -1}]
    BY DEF Kill, WorkerStates
  <2>4. accepting' \in BOOLEAN /\ executed' \in [Conns -> Seq(Nat)]
    BY <1>t DEF Kill, TypeOK
  <2> QED BY <1>1, <2>1, <2>2, <2>3, <2>4 DEF TypeOK
<1>3. PointerInv'
  <2>1. /\ \A f \in Fds : reg'[f] = None /\ fdtab'[f] = None
        /\ \A w \in Workers : wpc'[w] = "idle" /\ wret'[w] = 0
        /\ events' = {} /\ pool' = <<>> /\ backlog' = <<>> /\ cstate' = cstate
    BY DEF Kill, clientVars
  <2>2. \A c \in Conns : heap'[c] # "live" /\ (heap[c] = "none" => heap'[c] = "none")
    BY <1>t DEF Kill, TypeOK
  <2>3. Len(<<>>) = 0 /\ 1..0 = {}
    OBVIOUS
  <2>4. \A w \in Workers : ~Busy(w)'
    BY <2>1 DEF Busy
  <2>5. RegOK' /\ PoolOK' /\ HeldOK' /\ LiveOK' /\ EventsCurrent' /\ RetOK'
    BY <2>1, <2>2, <2>3, <2>4 DEF RegOK, PoolOK, HeldOK, LiveOK, EventsCurrent, RetOK
  <2>6. FdOK'
    BY <2>1, <2>2, EpollAssumption DEF FdOK
  <2>7. BacklogOK'
    BY <1>t, <2>1, <2>2, <2>3 DEF BacklogOK, PointerInv
  <2> QED BY <2>5, <2>6, <2>7 DEF PointerInv
<1> QED BY <1>2, <1>3 DEF Inv

\* Half a response is left only where the length of the response was written.
LEMMA KillResponse ==
  ASSUME Inv, PeerOK, TalkInv, Kill, NEW c \in Conns
  PROVE  \/ s2c'[c] = s2c[c]
         \/ /\ heap[c] = "live" /\ Done(c)
            /\ s2c'[c] = Append(s2c[c], Unit(c, "cut"))
<1>1. PICK cut \in SUBSET Writing :
        s2c' = [d \in Conns |->
                  IF d \in cut
                    THEN Append(s2c[d], [part |-> "cut", call |-> calls[d]])
                    ELSE s2c[d]]
  BY DEF Kill
<1>2. CASE c \notin cut
  BY <1>1, <1>2
<1>3. CASE c \in cut
  <2>1. PICK w \in Workers : wpc[w] = "wtext" /\ Sock(w) = c
    BY <1>3 DEF Writing
  <2>2. /\ wdata[w] = c /\ heap[c] = "live"
    BY <2>1, BusySock, MiddleFacts DEF Middle, Busy
  <2>3. TalkOK(c, "wtext")
    BY <2>1, <2>2 DEF TalkInv, WorkersTalk, Middle
  <2>4. Done(c)
    BY <2>3 DEF TalkOK, AtWriteTextOK
  <2> QED BY <1>1, <1>3, <2>2, <2>4 DEF Unit
<1> QED BY <1>2, <1>3

\* A kill leaves every conversation as a closed one, or untouched.
LEMMA KillTalk ==
  ASSUME Inv, PeerOK, TalkInv, Kill
  PROVE  PeerOK' /\ TalkInv'
<1>t. /\ heap \in [Conns -> {"none", "live", "freed"}]
      /\ s2c \in [Conns -> Seq(Units)] /\ calls \in [Conns -> Nat] /\ TypeOK
  BY DEF Inv, TypeOK, PipeTypeOK
<1>0. /\ UNCHANGED <<cstate, calls, result, c2s, executed>>
      /\ backlog' = <<>>
      /\ \A w \in Workers : wpc'[w] = "idle"
      /\ \A c \in Conns : peer'[c] = PeerAfterKill(c)
      /\ \A c \in Conns : heap'[c] # "live"
  BY <1>t DEF Kill, clientVars
<1>1. PeerOK'
  <2>1. Len(<<>>) = 0 /\ 1..0 = {}
    OBVIOUS
  <2>2. ASSUME NEW c \in Conns, cstate[c] = "new"
        PROVE  peer'[c] = "open"
    <3>1. /\ heap[c] = "none" /\ peer[c] = "open"
          /\ \A i \in 1..Len(backlog) : backlog[i] # c
      BY <2>2 DEF PeerOK, Inv, PointerInv, BacklogOK
    <3> QED BY <1>0, <3>1 DEF PeerAfterKill
  <2> QED BY <1>0, <2>1, <2>2 DEF PeerOK
<1>2. CallsOK'
  <2>1. \A c \in Conns : Service!LastExecuted(c)' = Service!LastExecuted(c)
    BY <1>0 DEF Service!LastExecuted
  <2> QED BY <1>0, <2>1 DEF TalkInv, CallsOK
<1>3. WorkersTalk'
  BY <1>0 DEF WorkersTalk, Middle
<1>4. OthersTalk'
  <2> SUFFICES ASSUME NEW c \in Conns
               PROVE  TalkOK(c, "rest")'
    BY DEF OthersTalk
  <2>1. PICK at \in Middle \cup {"rest"} : TalkOK(c, at)
    BY SomePlace
  <2>2. ClosedOK(c)
    BY <2>1, LeftOver
  <2>3. ClosedOK(c)'
    <3> SUFFICES ASSUME cstate[c] \in {"wait", "reply"}, NEW i \in 1..Len(s2c'[c])
                 PROVE  s2c'[c][i].call = calls[c] /\ Done(c)
      <4>1. Done(c)' <=> Done(c)
        BY <1>0, SameUnits
      <4> QED BY <1>0, <4>1 DEF ClosedOK
    <3>1. CASE s2c'[c] = s2c[c]
      BY <2>2, <3>1 DEF ClosedOK
    <3>2. CASE Done(c) /\ s2c'[c] = Append(s2c[c], Unit(c, "cut"))
      <4>1. Unit(c, "cut") \in Units /\ s2c[c] \in Seq(Units)
        BY <1>t DEF Unit, Units
      <4>2. /\ Len(s2c'[c]) = Len(s2c[c]) + 1 /\ Len(s2c[c]) \in Nat
            /\ \A k \in 1..Len(s2c[c]) : s2c'[c][k] = s2c[c][k]
            /\ s2c'[c][Len(s2c[c]) + 1] = Unit(c, "cut")
        BY <3>2, <4>1, AppendFacts
      <4>3. i \in 1..Len(s2c[c]) \/ i = Len(s2c[c]) + 1
        BY <4>2
      <4>4. Unit(c, "cut").call = calls[c]
        BY UnitFacts
      <4> QED BY <2>2, <3>2, <4>2, <4>3, <4>4 DEF ClosedOK
    <3> QED BY <3>1, <3>2, KillResponse
  <2>4. CASE peer'[c] # "open"
    BY <2>3, <2>4 DEF TalkOK
  <2>5. CASE peer'[c] = "open"
    <3>1. heap[c] # "live" /\ peer[c] = "open"
      BY <1>0, <2>5 DEF PeerAfterKill
    <3>2. s2c'[c] = s2c[c]
      BY <3>1, KillResponse
    <3>3. TalkOK(c, "rest")
      BY <3>1, MiddleFacts DEF TalkInv, OthersTalk
    <3> QED BY <1>0, <2>5, <3>1, <3>2, <3>3, TalkLocal
  <2> QED BY <2>4, <2>5
<1> QED BY <1>1, <1>2, <1>3, <1>4 DEF TalkInv

-----------------------------------------------------------------------------
(* What the callers get.                                                   *)

\* A connection's executions are in order and end with the last.
LEMMA ExecuteServed ==
  ASSUME TypeOK, CallsOK, ServedOK, NEW c \in Conns, Service!Execute(c),
         UNCHANGED <<calls, result>>
  PROVE  ServedOK'
<1>t. executed \in [Conns -> Seq(Nat)] /\ calls \in [Conns -> Nat]
  BY DEF TypeOK, PipeTypeOK
<1>0. /\ Service!LastExecuted(c) < calls[c]
      /\ executed' = [executed EXCEPT ![c] = Append(@, calls[c])]
  BY DEF Service!Execute
<1>1. /\ Service!LastExecuted(c)' = calls[c]
      /\ \A d \in Conns : d # c => executed'[d] = executed[d]
  BY <1>t, <1>0, ExecutedLast
<1>2. \A d \in Conns : d # c => (Done(d)' <=> Done(d))
  BY <1>1, SameUnits
<1>3. Done(c)'
  BY <1>1 DEF Done
<1>4. \A i, j \in 1..Len(executed'[c]) : i < j => executed'[c][i] < executed'[c][j]
  <2>1. executed[c] \in Seq(Nat) /\ calls[c] \in Nat /\ executed'[c] = Append(executed[c], calls[c])
    BY <1>t, <1>0
  <2>2. /\ Len(executed'[c]) = Len(executed[c]) + 1 /\ Len(executed[c]) \in Nat
        /\ \A i \in 1..Len(executed[c]) : executed'[c][i] = executed[c][i]
        /\ executed'[c][Len(executed[c]) + 1] = calls[c]
    BY <2>1, AppendFacts
  <2>3. \A i \in 1..Len(executed[c]) : executed[c][i] \in Nat
    BY <2>1
  <2>4. ASSUME NEW i \in 1..Len(executed[c])
        PROVE  executed[c][i] < calls[c]
    <3>1. executed[c] # <<>>
      <4>1. Len(<<>>) = 0 /\ 1..0 = {}
        OBVIOUS
      <4> QED BY <4>1
    <3>2. Service!LastExecuted(c) = executed[c][Len(executed[c])]
      BY <3>1 DEF Service!LastExecuted
    <3>3. executed[c][i] <= executed[c][Len(executed[c])]
      <4>1. Len(executed[c]) \in 1..Len(executed[c])
        BY <2>2
      <4>2. \A k, j \in 1..Len(executed[c]) : k < j => executed[c][k] < executed[c][j]
        BY DEF ServedOK
      <4>3. CASE i = Len(executed[c])
        BY <2>3, <4>1, <4>3
      <4>4. CASE i < Len(executed[c])
        BY <2>3, <4>1, <4>2, <4>4
      <4> QED BY <2>2, <4>3, <4>4
    <3>4. /\ executed[c][i] \in Nat /\ executed[c][Len(executed[c])] \in Nat
          /\ executed[c][Len(executed[c])] < calls[c]
      <4>1. Len(executed[c]) \in 1..Len(executed[c])
        BY <2>2
      <4> QED BY <1>0, <2>3, <3>2, <4>1
    <3> QED BY <2>1, <3>3, <3>4
  <2> SUFFICES ASSUME NEW i \in 1..Len(executed'[c]), NEW j \in 1..Len(executed'[c]), i < j
               PROVE  executed'[c][i] < executed'[c][j]
    OBVIOUS
  <2>5. i \in 1..Len(executed[c]) /\ (j \in 1..Len(executed[c]) \/ j = Len(executed[c]) + 1)
    BY <2>2
  <2>6. CASE j \in 1..Len(executed[c])
    BY <2>2, <2>5, <2>6 DEF ServedOK
  <2>7. CASE j = Len(executed[c]) + 1
    BY <2>2, <2>4, <2>5, <2>7
  <2> QED BY <2>5, <2>6, <2>7
<1> QED BY <1>1, <1>2, <1>3, <1>4 DEF ServedOK

\* A client's step returns the response to its own call, or none.
LEMMA ClientServed ==
  ASSUME Inv, PeerOK, TalkInv, ServedOK, NEW c \in Conns, ClientNext(c), UNCHANGED serverVars
  PROVE  ServedOK'
<1>t. /\ PipeTypeOK /\ result \in [Conns -> Results] /\ s2c \in [Conns -> Seq(Units)]
      /\ executed' = executed
  BY DEF Inv, TypeOK, PipeTypeOK, serverVars
<1>1. \A d \in Conns : d # c => calls'[d] = calls[d] /\ result'[d] = result[d]
  BY <1>t, ClientEffect
<1>2. \A d \in Conns : d # c => (Done(d)' <=> Done(d))
  BY <1>t, <1>1, SameUnits
<1>3. result'[c].kind = "reply" =>
        result'[c].call = calls'[c] /\ calls'[c] # 0 /\ Done(c)'
  <2>1. CASE UNCHANGED <<calls, result>>
    <3>1. Done(c)' <=> Done(c)
      BY <1>t, <2>1, SameUnits
    <3> QED BY <2>1, <3>1 DEF ServedOK
  <2>2. CASE pipe_send_ReadText(c)
    <3>1. /\ cstate[c] = "reply" /\ s2c[c] # <<>> /\ calls' = calls
          /\ result'[c].call = Head(s2c[c]).call
      BY <1>t, <2>2 DEF pipe_send_ReadText, TextStops, Return, Returned
    <3>2. PICK at \in Middle \cup {"rest"} : TalkOK(c, at)
      BY SomePlace
    <3>3. ClosedOK(c)
      BY <3>2, LeftOver
    <3>4. Head(s2c[c]) = s2c[c][1] /\ Len(s2c[c]) \in Nat \ {0}
      BY <1>t, <3>1, TailFacts
    <3>5. 1 \in 1..Len(s2c[c])
      BY <3>4
    <3>6. Head(s2c[c]).call = calls[c] /\ Done(c)
      BY <3>1, <3>3, <3>4, <3>5 DEF ClosedOK
    <3>7. Done(c)' <=> Done(c)
      BY <1>t, <3>1, SameUnits
    <3>8. calls[c] # 0
      BY <3>1 DEF TalkInv, CallsOK, InCall
    <3> QED BY <3>1, <3>6, <3>7, <3>8
  <2>3. CASE ~UNCHANGED <<calls, result>> /\ ~pipe_send_ReadText(c)
    <3>1. \E k \in {"pending", "transport_error", "garbage"} :
            result' = [result EXCEPT ![c] = Returned(k, 0)]
      BY <2>3
      DEF ClientNext, searpc_named_pipe_client_connect, pipe_send_WriteLen,
          pipe_send_WriteLenFails, searpc_named_pipe_send, pipe_send_WriteText,
          pipe_send_WriteTextFails, pipe_send_ReadLen, pipe_send_ReadTextEOF,
          pipe_send_ReadFails, Return, Die, searpc_free_client_with_pipe_transport
    <3> QED BY <1>t, <3>1 DEF Returned
  <2> QED BY <2>1, <2>2, <2>3
<1> QED BY <1>t, <1>1, <1>2, <1>3 DEF ServedOK

\* Steps the callers do not see.
LEMMA UnseenServed ==
  ASSUME ServedOK, UNCHANGED <<calls, result, executed>>
  PROVE  ServedOK'
<1>1. \A c \in Conns : Done(c)' <=> Done(c)
  BY SameUnits
<1> QED BY <1>1 DEF ServedOK

\* Every step of EpollServer keeps the order and the answers.
LEMMA NextServed ==
  ASSUME Inv, PeerOK, TalkInv, ServedOK, [Next]_vars
  PROVE  ServedOK'
<1>1. CASE epoll_listen
  BY <1>1, ListenTalk, UnseenServed
<1>2. ASSUME NEW w \in Workers,
             handle_named_pipe_client_with_threadpool(w) \/ epoll_handler(w)
      PROVE  ServedOK'
  <2>1. UNCHANGED <<calls, result>>
    BY <1>2, ServerKeepsClients
  <2>2. CASE epoll_handler_Call(w)
    <3>1. wdata[w] \in Conns /\ TypeOK /\ CallsOK
      BY <2>2, MiddleFacts DEF epoll_handler_Call, Middle, Inv, TalkInv
    <3>2. Service!Execute(wdata[w])
      BY <2>2, CallTalk
    <3> QED BY <2>1, <3>1, <3>2, ExecuteServed
  <2>3. CASE ~epoll_handler_Call(w)
    <3>1. UNCHANGED executed
      BY <1>2, <2>3
      DEF handle_named_pipe_client_with_threadpool, epoll_handler, epoll_handler_ReadLen,
          epoll_handler_ReadText, epoll_handler_ReadFails, epoll_handler_WriteLen,
          epoll_handler_WriteText, epoll_handler_Write, epoll_handler_WriteFails,
          epoll_handler_Add, epoll_handler_AddFails, epoll_handler_Out
    <3> QED BY <2>1, <3>1, UnseenServed
  <2> QED BY <2>2, <2>3
<1>3. ASSUME NEW c \in Conns, ClientNext(c), UNCHANGED serverVars
      PROVE  ServedOK'
  BY <1>3, ClientServed
<1>4. CASE UNCHANGED vars
  <2>1. UNCHANGED <<calls, result, executed>>
    BY <1>4 DEF vars, pipeVars, clientVars, serverVars
  <2> QED BY <2>1, UnseenServed
<1> QED BY <1>1, <1>2, <1>3, <1>4 DEF Next

-----------------------------------------------------------------------------
(* The theorem.                                                            *)

\* A kill, a restart and every step in between keep the invariant.
LEMMA CrashNextInv ==
  ASSUME CrashInv, [CrashNext]_crashVars
  PROVE  CrashInv'
<1>0. Inv /\ PeerOK /\ TalkInv /\ ServedOK
  BY DEF CrashInv
<1>1. ASSUME [Next]_vars
      PROVE  CrashInv'
  BY <1>0, <1>1, InvNext, PeerNext, TalkNext, NextServed DEF CrashInv
<1>2. CASE Step
  BY <1>1, <1>2 DEF Step
<1>3. CASE Kill
  <2>1. UNCHANGED <<calls, result, executed>>
    BY <1>3 DEF Kill, clientVars
  <2> QED BY <1>0, <1>3, <2>1, KillInv, KillTalk, UnseenServed DEF CrashInv
<1>4. CASE searpc_named_pipe_server_start \/ UNCHANGED crashVars
  BY <1>1, <1>4 DEF searpc_named_pipe_server_start, crashVars
<1> QED BY <1>2, <1>3, <1>4 DEF CrashNext

\* However often the process is killed and started again, in whatever states of
\* its threads and its clients: CrashInv holds.
THEOREM CrashInvariance == CrashSpec => []CrashInv
<1>1. ASSUME CrashInit PROVE CrashInv
  <2>1. Init
    BY <1>1 DEF CrashInit
  <2>2. Inv /\ PeerOK /\ TalkInv
    BY <2>1, InvInit, TalkInit, PeerInit
  <2>3. ServedOK
    <3>1. Len(<<>>) = 0 /\ 1..0 = {}
      OBVIOUS
    <3> QED BY <2>1, <3>1 DEF Init, PipeInit, ServedOK, Returned
  <2> QED BY <2>2, <2>3 DEF CrashInv
<1>2. CrashInv /\ [CrashNext]_crashVars => CrashInv'
  BY CrashNextInv
<1> QED BY <1>1, <1>2, PTL DEF CrashSpec

\* Killed and restarted at any moment, the epoll server executes the calls of
\* a connection at most once and in order, and a response that a caller gets is
\* the response to its own, executed call (transport.c:229-298, 623-662).
THEOREM RepliesAreOwn == CrashSpec => []OwnReplyAtMostOnce
<1>1. ASSUME CrashInv PROVE OwnReplyAtMostOnce
  <2> SUFFICES ASSUME NEW c \in Conns
               PROVE  /\ \A i, j \in DOMAIN executed[c] : i < j => executed[c][i] < executed[c][j]
                      /\ result[c].kind = "reply" =>
                           /\ result[c].call = calls[c]
                           /\ \E i \in DOMAIN executed[c] : executed[c][i] = calls[c]
    BY DEF OwnReplyAtMostOnce
  <2>1. executed[c] \in Seq(Nat)
    BY <1>1 DEF CrashInv, Inv, TypeOK
  <2>2. DOMAIN executed[c] = 1..Len(executed[c]) /\ Len(executed[c]) \in Nat
    BY <2>1
  <2>3. ASSUME result[c].kind = "reply"
        PROVE  /\ result[c].call = calls[c]
               /\ \E i \in DOMAIN executed[c] : executed[c][i] = calls[c]
    <3>1. /\ result[c].call = calls[c] /\ calls[c] # 0
          /\ Service!LastExecuted(c) = calls[c]
      BY <1>1, <2>3 DEF CrashInv, ServedOK, Done
    <3>2. executed[c] # <<>>
      BY <3>1 DEF Service!LastExecuted
    <3>3. Len(executed[c]) \in DOMAIN executed[c]
      BY <2>1, <2>2, <3>2
    <3> QED BY <3>1, <3>2, <3>3 DEF Service!LastExecuted
  <2> QED BY <1>1, <2>2, <2>3 DEF CrashInv, ServedOK
<1> QED BY <1>1, CrashInvariance, PTL
=============================================================================
