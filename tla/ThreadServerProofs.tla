------------------------- MODULE ThreadServerProofs -------------------------
(***************************************************************************)
(* Theorems about ThreadServer, for any set of connections and threads,    *)
(* any lengths of requests and any limit on descriptors.                   *)
(*                                                                         *)
(* DescriptorsMatch counts the holders of a descriptor.  It is preserved   *)
(* because a descriptor goes from the backlog to the queue and from the    *)
(* queue to a thread, and a connection that waits to be accepted is at     *)
(* neither: HolderInv says so place by place.  The type of wlen rests on   *)
(* the numbers of the calls in the request stream, which CallNumbers       *)
(* bounds.                                                                 *)
(*                                                                         *)
(* The refinement adds ServiceInv: every connection's conversation is      *)
(* legal, as in the epoll mode, and a client that is gone has left whole   *)
(* requests.  The latter is so until a client dies between the length and  *)
(* the text of a request, and means that no handler reads an end of file   *)
(* where a text should be: what its buffer held before is overwritten.     *)
(***************************************************************************)
EXTENDS ThreadServer, NamedPipeClientProofs, FiniteSetTheorems, TLAPS

\* A request in the stream is one of the calls that were made.
Numbered == [part : {"len", "text", "cut"}, call : 1..MaxCalls]

CallNumbers ==
  /\ c2s \in [Conns -> Seq(Numbered)]
  /\ \A c \in Conns : calls[c] <= MaxCalls /\ (cstate[c] \in InCall => calls[c] >= 1)

\* A queued descriptor is open and queued once.
PoolOK ==
  \A i \in 1..Len(pool) : pool[i] # None =>
    /\ pool[i] \in open
    /\ \A j \in 1..Len(pool) : pool[i] = pool[j] => i = j

\* A thread's descriptor is open, and neither queued nor another thread's.
HeldOK ==
  \A w \in Workers :
    /\ wpc[w] = "idle" => wconn[w] = None
    /\ wpc[w] \notin {"idle", "len", "out"} => wconn[w] # None
    /\ wconn[w] # None =>
         /\ wconn[w] \in open
         /\ \A i \in 1..Len(pool) : pool[i] # wconn[w]
         /\ \A v \in Workers : wconn[v] = wconn[w] => v = w

\* An open descriptor is queued or a thread's.
OpenOK ==
  \A c \in open : \/ \E i \in 1..Len(pool) : pool[i] = c
                  \/ \E w \in Workers : wconn[w] = c

\* A connection that waits to be accepted waits once and has no descriptor.
BacklogOK ==
  /\ \A i \in 1..Len(backlog) :
       /\ backlog[i] \notin open
       /\ cstate[backlog[i]] # "new"
       /\ \A j \in 1..Len(backlog) : backlog[i] = backlog[j] => i = j
  /\ \A c \in Conns : cstate[c] = "new" => c \notin open

HolderInv == PoolOK /\ HeldOK /\ OpenOK /\ BacklogOK

Inv == TypeOK /\ CallNumbers /\ HolderInv

-----------------------------------------------------------------------------
(* The clients' steps.                                                     *)

\* A write of a numbered unit and a read keep the request stream numbered.
LEMMA NumberedStream ==
  ASSUME NEW st \in [Conns -> Seq(Numbered)], NEW c \in Conns
  PROVE  /\ \A part \in {"len", "text", "cut"}, n \in 1..MaxCalls :
               Put(st, c, part, n) \in [Conns -> Seq(Numbered)]
         /\ st[c] # <<>> => Take(st, c) \in [Conns -> Seq(Numbered)]
         /\ st[c] # <<>> => Head(st[c]).call \in 1..MaxCalls
<1>1. ASSUME NEW part \in {"len", "text", "cut"}, NEW n \in 1..MaxCalls
      PROVE  Put(st, c, part, n) \in [Conns -> Seq(Numbered)]
  <2>1. [part |-> part, call |-> n] \in Numbered
    BY <1>1 DEF Numbered
  <2>2. Append(st[c], [part |-> part, call |-> n]) \in Seq(Numbered)
    BY <2>1, AppendFacts
  <2> QED BY <2>2 DEF Put
<1>2. ASSUME st[c] # <<>>
      PROVE  Take(st, c) \in [Conns -> Seq(Numbered)] /\ Head(st[c]).call \in 1..MaxCalls
  <2>1. Tail(st[c]) \in Seq(Numbered) /\ Head(st[c]) \in Numbered
    BY <1>2, TailFacts
  <2>2. Head(st[c]).call \in 1..MaxCalls
    BY <2>1 DEF Numbered
  <2> QED BY <2>1, <2>2 DEF Take
<1> QED BY <1>1, <1>2

\* A client numbers its calls from 1 to MaxCalls.
LEMMA ClientNumbers ==
  ASSUME PipeTypeOK, CallNumbers, NEW c \in Conns, ClientNext(c)
  PROVE  CallNumbers'
<1> USE ClientAssumption DEF PipeTypeOK, CallNumbers, InCall, clientVars, streamVars
<1>1. CASE searpc_named_pipe_client_connect(c)
  BY <1>1 DEF searpc_named_pipe_client_connect
<1>2. CASE pipe_send_WriteLen(c)
  <2>1. calls[c] + 1 \in 1..MaxCalls
    BY <1>2 DEF pipe_send_WriteLen
  <2>2. c2s' \in [Conns -> Seq(Numbered)]
    BY <1>2, <2>1, NumberedStream DEF pipe_send_WriteLen
  <2> QED BY <1>2, <2>1, <2>2 DEF pipe_send_WriteLen
<1>3. CASE pipe_send_WriteLenFails(c)
  BY <1>3 DEF pipe_send_WriteLenFails
<1>4. CASE pipe_send_WriteText(c)
  <2>1. calls[c] \in 1..MaxCalls
    BY <1>4 DEF pipe_send_WriteText
  <2>2. c2s' \in [Conns -> Seq(Numbered)]
    BY <1>4, <2>1, NumberedStream DEF pipe_send_WriteText
  <2> QED BY <1>4, <2>1, <2>2 DEF pipe_send_WriteText
<1>5. CASE pipe_send_WriteTextFails(c)
  BY <1>5 DEF pipe_send_WriteTextFails, Return
<1>6. CASE pipe_send_ReadLen(c)
  BY <1>6 DEF pipe_send_ReadLen
<1>7. CASE pipe_send_ReadText(c)
  BY <1>7 DEF pipe_send_ReadText, Return
<1>8. CASE pipe_send_ReadTextEOF(c)
  BY <1>8 DEF pipe_send_ReadTextEOF, Return
<1>9. CASE pipe_send_ReadFails(c)
  BY <1>9 DEF pipe_send_ReadFails, Return
<1>10. CASE searpc_free_client_with_pipe_transport(c)
  BY <1>10 DEF searpc_free_client_with_pipe_transport
<1>11. CASE Die(c)
  <2>1. calls[c] \in 1..MaxCalls
    BY <1>11 DEF Die
  <2>2. c2s' \in [Conns -> Seq(Numbered)]
    <3>1. Put(c2s, c, "cut", calls[c]) \in [Conns -> Seq(Numbered)]
      BY <2>1, NumberedStream
    <3> QED BY <1>11, <3>1 DEF Die
  <2> QED BY <1>11, <2>1, <2>2 DEF Die
<1> QED
  BY <1>1, <1>2, <1>3, <1>4, <1>5, <1>6, <1>7, <1>8, <1>9, <1>10, <1>11
  DEF ClientNext, searpc_named_pipe_send

\* A client's step changes nothing of the server's; it may add its own, new
\* connection to the backlog.
LEMMA ClientStep ==
  ASSUME Inv, NEW c \in Conns, ClientNext(c), UNCHANGED serverVars, cut' \in BOOLEAN
  PROVE  Inv'
<1>1. PipeTypeOK' /\ CallNumbers'
  BY ClientTypes, ClientNumbers DEF Inv, TypeOK
<1>2. TypeOK'
  BY <1>1 DEF Inv, TypeOK, serverVars
<1>3. PoolOK' /\ HeldOK' /\ OpenOK'
  BY DEF Inv, HolderInv, PoolOK, HeldOK, OpenOK, serverVars
<1>4. BacklogOK'
  <2>0. /\ cstate \in [Conns -> ClientStates] /\ backlog \in Seq(Conns)
        /\ open' = open
    BY DEF Inv, TypeOK, PipeTypeOK, serverVars
  <2>1. CASE searpc_named_pipe_client_connect(c)
    <3>1. /\ cstate[c] = "new"
          /\ cstate' = [cstate EXCEPT ![c] = "ready"]
          /\ backlog' = Append(backlog, c)
      BY <2>1 DEF searpc_named_pipe_client_connect
    <3>2. /\ Len(backlog') = Len(backlog) + 1
          /\ \A i \in 1..Len(backlog) : backlog'[i] = backlog[i]
          /\ backlog'[Len(backlog) + 1] = c
          /\ Len(backlog) \in Nat
          /\ \A i \in 1..Len(backlog) : backlog[i] \in Conns
      BY <2>0, <3>1, AppendFacts
    <3>3. \A i \in 1..Len(backlog) : backlog[i] # c
      BY <3>1 DEF Inv, HolderInv, BacklogOK
    <3> QED BY <2>0, <3>1, <3>2, <3>3 DEF Inv, HolderInv, BacklogOK
  <2>2. CASE ~searpc_named_pipe_client_connect(c)
    <3>1. /\ backlog' = backlog
          /\ \E s \in ClientStates \ {"new"} : cstate' = [cstate EXCEPT ![c] = s]
          /\ cstate[c] # "new"
      BY <2>0, <2>2, ClientPlaces
    <3>2. \A d \in Conns : cstate'[d] = "new" <=> cstate[d] = "new"
      BY <2>0, <3>1
    <3>3. \A i \in 1..Len(backlog) : backlog[i] \in Conns
      BY <2>0
    <3> QED BY <2>0, <3>1, <3>2, <3>3 DEF Inv, HolderInv, BacklogOK
  <2> QED BY <2>1, <2>2
<1> QED BY <1>1, <1>2, <1>3, <1>4 DEF Inv, HolderInv

-----------------------------------------------------------------------------
(* The listener's steps.                                                   *)

\* A connection goes from the backlog to the queue: it had no descriptor, so
\* neither the queue nor a thread had it.
LEMMA AcceptStep ==
  ASSUME Inv, named_pipe_listen_Accept,
         UNCHANGED cut
  PROVE  Inv'
<1> DEFINE c == Head(backlog)
<1>0. /\ backlog # <<>>
      /\ open' = open \cup {c}
      /\ pool' = Append(pool, c)
      /\ backlog' = Tail(backlog)
      /\ UNCHANGED <<clientVars, c2s, s2c, peer, wpc, wconn, wlen, buf, executed>>
  BY DEF named_pipe_listen_Accept
<1>t. backlog \in Seq(Conns) /\ pool \in Seq(Conns \cup {None})
  BY DEF Inv, TypeOK, PipeTypeOK
<1>1. /\ c \in Conns
      /\ c = backlog[1]
      /\ Len(backlog) \in Nat \ {0}
      /\ Tail(backlog) \in Seq(Conns)
      /\ Len(Tail(backlog)) = Len(backlog) - 1
      /\ \A i \in 1..Len(Tail(backlog)) : Tail(backlog)[i] = backlog[i + 1]
  BY <1>0, <1>t, TailFacts
<1>2. \A i \in 1..Len(backlog) : backlog[i] \in Conns
  BY <1>t
<1>3. c \notin open /\ cstate[c] # "new"
  BY <1>1 DEF Inv, HolderInv, BacklogOK
<1>4. /\ pool' \in Seq(Conns \cup {None})
      /\ Len(pool) \in Nat
      /\ Len(pool') = Len(pool) + 1
      /\ \A i \in 1..Len(pool) : pool'[i] = pool[i]
      /\ pool'[Len(pool) + 1] = c
  BY <1>0, <1>1, <1>t, AppendFacts
<1>5. /\ c # None
      /\ \A i \in 1..Len(pool) : pool[i] # c
      /\ \A w \in Workers : wconn[w] # c
  BY <1>1, <1>3, ThreadAssumption DEF Inv, HolderInv, PoolOK, HeldOK
<1> HIDE DEF c
<1>6. TypeOK' /\ CallNumbers'
  BY <1>0, <1>1, <1>4 DEF Inv, TypeOK, PipeTypeOK, CallNumbers, clientVars
<1>7. PoolOK'
  BY <1>0, <1>4, <1>5 DEF Inv, HolderInv, PoolOK
<1>8. HeldOK'
  BY <1>0, <1>4, <1>5 DEF Inv, HolderInv, HeldOK
<1>9. OpenOK'
  BY <1>0, <1>4 DEF Inv, HolderInv, OpenOK
<1>10. BacklogOK'
  <2>1. \A i \in 1..Len(backlog') :
          /\ backlog'[i] # c
          /\ backlog'[i] \notin open
          /\ cstate[backlog'[i]] # "new"
          /\ \A j \in 1..Len(backlog') : backlog'[i] = backlog'[j] => i = j
    BY <1>0, <1>1 DEF Inv, HolderInv, BacklogOK
  <2> QED BY <1>0, <1>3, <2>1 DEF Inv, HolderInv, BacklogOK, clientVars
<1> QED BY <1>6, <1>7, <1>8, <1>9, <1>10 DEF Inv, HolderInv

\* A handler is queued for descriptor -1, of which there may be many.
LEMMA AcceptFailsStep ==
  ASSUME Inv, named_pipe_listen_AcceptFails,
         UNCHANGED cut
  PROVE  Inv'
<1>0. /\ pool' = Append(pool, None)
      /\ UNCHANGED <<pipeVars, open, wpc, wconn, wlen, buf, executed>>
  BY DEF named_pipe_listen_AcceptFails
<1>t. pool \in Seq(Conns \cup {None})
  BY DEF Inv, TypeOK
<1>4. /\ pool' \in Seq(Conns \cup {None})
      /\ Len(pool) \in Nat
      /\ Len(pool') = Len(pool) + 1
      /\ \A i \in 1..Len(pool) : pool'[i] = pool[i]
      /\ pool'[Len(pool) + 1] = None
  BY <1>0, <1>t, AppendFacts
<1>6. TypeOK' /\ CallNumbers'
  BY <1>0, <1>4 DEF Inv, TypeOK, PipeTypeOK, CallNumbers, pipeVars, clientVars, streamVars
<1>7. PoolOK'
  BY <1>0, <1>4 DEF Inv, HolderInv, PoolOK
<1>8. HeldOK'
  BY <1>0, <1>4 DEF Inv, HolderInv, HeldOK
<1>9. OpenOK'
  BY <1>0, <1>4 DEF Inv, HolderInv, OpenOK
<1>10. BacklogOK'
  BY <1>0 DEF Inv, HolderInv, BacklogOK, pipeVars, clientVars, streamVars
<1> QED BY <1>6, <1>7, <1>8, <1>9, <1>10 DEF Inv, HolderInv

-----------------------------------------------------------------------------
(* The threads' steps.                                                     *)

\* A descriptor goes from the head of the queue to a thread that had none.
LEMMA TakeStep ==
  ASSUME Inv, NEW w \in Workers, handle_named_pipe_client_with_threadpool(w),
         UNCHANGED cut
  PROVE  Inv'
<1> DEFINE c == Head(pool)
<1>0. /\ wpc[w] = "idle"
      /\ pool # <<>>
      /\ wpc' = [wpc EXCEPT ![w] = "len"]
      /\ wconn' = [wconn EXCEPT ![w] = c]
      /\ pool' = Tail(pool)
      /\ \/ buf' = [buf EXCEPT ![w] = Blank]
         \/ \E v \in Workers : buf' = [buf EXCEPT ![v] = buf[w], ![w] = buf[v]]
      /\ UNCHANGED <<pipeVars, open, wlen, executed>>
  BY DEF handle_named_pipe_client_with_threadpool, Goto
<1>t. /\ pool \in Seq(Conns \cup {None})
      /\ wpc \in [Workers -> WorkerStates]
      /\ wconn \in [Workers -> Conns \cup {None}]
      /\ buf \in [Workers -> Requests]
  BY DEF Inv, TypeOK
<1>1. /\ c \in Conns \cup {None}
      /\ c = pool[1]
      /\ Len(pool) \in Nat \ {0}
      /\ pool' \in Seq(Conns \cup {None})
      /\ Len(pool') = Len(pool) - 1
      /\ \A i \in 1..Len(pool') : pool'[i] = pool[i + 1]
  BY <1>0, <1>t, TailFacts
<1>2. /\ wconn[w] = None
      /\ c # None => /\ c \in open
                     /\ \A i \in 1..Len(pool') : pool'[i] # c
                     /\ \A v \in Workers : wconn[v] # c
  BY <1>0, <1>1 DEF Inv, HolderInv, PoolOK, HeldOK
<1> HIDE DEF c
<1>3. TypeOK' /\ CallNumbers'
  <2>1. Blank \in Requests
    BY DEF Blank, Request, Requests
  <2>2. buf' \in [Workers -> Requests]
    BY <1>0, <1>t, <2>1
  <2>3. wpc' \in [Workers -> WorkerStates]
    BY <1>0, <1>t DEF WorkerStates
  <2> QED BY <1>0, <1>1, <1>t, <2>2, <2>3
          DEF Inv, TypeOK, PipeTypeOK, CallNumbers, pipeVars, clientVars, streamVars
<1>4. PoolOK'
  BY <1>0, <1>1 DEF Inv, HolderInv, PoolOK
<1>5. HeldOK'
  <2>1. ASSUME NEW v \in Workers, v # w
        PROVE  /\ wpc'[v] = wpc[v] /\ wconn'[v] = wconn[v]
               /\ wconn[v] # None => wconn[v] # c
    BY <1>0, <1>2, <1>t, <2>1
  <2>2. wpc'[w] = "len" /\ wconn'[w] = c
    BY <1>0, <1>t
  <2> QED BY <1>0, <1>1, <1>2, <2>1, <2>2 DEF Inv, HolderInv, HeldOK
<1>6. OpenOK'
  <2> SUFFICES ASSUME NEW d \in open
               PROVE  \/ \E i \in 1..Len(pool') : pool'[i] = d
                      \/ \E v \in Workers : wconn'[v] = d
    BY <1>0 DEF OpenOK
  <2>1. CASE \E v \in Workers : wconn[v] = d
    <3>1. PICK v \in Workers : wconn[v] = d
      BY <2>1
    <3>2. v # w
      BY <1>2, <3>1, ThreadAssumption DEF Inv, TypeOK
    <3> QED BY <1>0, <1>t, <3>1, <3>2
  <2>2. CASE \E i \in 1..Len(pool) : pool[i] = d
    <3>1. PICK i \in 1..Len(pool) : pool[i] = d
      BY <2>2
    <3>2. CASE i = 1
      BY <1>0, <1>1, <1>t, <3>1, <3>2
    <3>3. CASE i # 1
      <4>1. i - 1 \in 1..Len(pool') /\ pool'[i - 1] = d
        BY <1>1, <3>1, <3>3
      <4> QED BY <4>1
    <3> QED BY <3>2, <3>3
  <2> QED BY <2>1, <2>2 DEF Inv, HolderInv, OpenOK
<1>7. BacklogOK'
  BY <1>0 DEF Inv, HolderInv, BacklogOK, pipeVars, clientVars, streamVars
<1> QED BY <1>3, <1>4, <1>5, <1>6, <1>7 DEF Inv, HolderInv

\* While a thread serves its connection it only moves its program counter and
\* the bytes: who holds which descriptor stays as it is.
LEMMA ServingStep ==
  ASSUME Inv, NEW w \in Workers, NEW to \in WorkerStates \ {"idle"},
         wpc' = [wpc EXCEPT ![w] = to],
         wpc[w] # "idle",
         wconn[w] # None \/ to = "out",
         UNCHANGED <<open, pool, wconn, backlog, cstate>>
  PROVE  HolderInv'
<1>t. wpc \in [Workers -> WorkerStates]
  BY DEF Inv, TypeOK
<1>1. PoolOK' /\ OpenOK' /\ BacklogOK'
  BY DEF Inv, HolderInv, PoolOK, OpenOK, BacklogOK
<1>2. HeldOK'
  BY <1>t DEF Inv, HolderInv, HeldOK
<1> QED BY <1>1, <1>2 DEF HolderInv

\* What a thread knows of the unit at the head of its connection's stream.
LEMMA HeadUnit ==
  ASSUME Inv, NEW w \in Workers, wconn[w] # None, c2s[wconn[w]] # <<>>
  PROVE  /\ wconn[w] \in Conns
         /\ Head(c2s[wconn[w]]).call \in 1..MaxCalls
         /\ Head(c2s[wconn[w]]).call \in Nat
         /\ Take(c2s, wconn[w]) \in [Conns -> Seq(Units)]
         /\ Take(c2s, wconn[w]) \in [Conns -> Seq(Numbered)]
<1>1. wconn[w] \in Conns /\ c2s \in [Conns -> Seq(Units)] /\ c2s \in [Conns -> Seq(Numbered)]
  BY DEF Inv, TypeOK, PipeTypeOK, CallNumbers
<1>2. Take(c2s, wconn[w]) \in [Conns -> Seq(Units)]
  BY <1>1, StreamTypes
<1>3. /\ Take(c2s, wconn[w]) \in [Conns -> Seq(Numbered)]
      /\ Head(c2s[wconn[w]]).call \in 1..MaxCalls
  BY <1>1, NumberedStream
<1> QED BY <1>1, <1>2, <1>3

\* A thread reads the length of a request: one of the lengths of ReqLen.
LEMMA ReadLenStep ==
  ASSUME Inv, NEW w \in Workers, client_handler_ReadLen(w),
         UNCHANGED cut
  PROVE  Inv'
<1> DEFINE l == ReqLen[<<wconn[w], Head(c2s[wconn[w]]).call>>]
<1>0. /\ wpc[w] = "len"
      /\ wconn[w] # None
      /\ c2s[wconn[w]] # <<>>
      /\ wpc' = [wpc EXCEPT ![w] = "text"]
      /\ wlen' = [wlen EXCEPT ![w] = l]
      /\ c2s' = Take(c2s, wconn[w])
      /\ UNCHANGED <<clientVars, s2c, peer, backlog, open, pool, wconn, buf, executed>>
  BY Zenon DEF client_handler_ReadLen, Goto
<1> HIDE DEF l
<1>1. /\ wconn[w] \in Conns
      /\ Head(c2s[wconn[w]]).call \in 1..MaxCalls
      /\ c2s' \in [Conns -> Seq(Units)]
      /\ c2s' \in [Conns -> Seq(Numbered)]
  BY <1>0, HeadUnit
<1>2. l \in Nat \ {0}
  BY <1>1, ThreadAssumption, Zenon DEF l
<1>3. TypeOK'
  BY <1>0, <1>1, <1>2 DEF Inv, TypeOK, PipeTypeOK, WorkerStates, clientVars
<1>4. CallNumbers'
  BY <1>0, <1>1 DEF Inv, CallNumbers, clientVars
<1>5. HolderInv'
  BY <1>0, ServingStep DEF WorkerStates, clientVars
<1> QED BY <1>3, <1>4, <1>5 DEF Inv

\* A thread finds no further request.
LEMMA ReadLenEndsStep ==
  ASSUME Inv, NEW w \in Workers, client_handler_ReadLenEnds(w),
         UNCHANGED cut
  PROVE  Inv'
<1> USE DEF client_handler_ReadLenEnds, Goto, pipeVars, clientVars, streamVars
<1>1. TypeOK'
  BY DEF Inv, TypeOK, PipeTypeOK, WorkerStates
<1>2. CallNumbers'
  BY DEF Inv, CallNumbers
<1>3. HolderInv'
  BY ServingStep DEF WorkerStates
<1> QED BY <1>1, <1>2, <1>3 DEF Inv

\* A thread that is past its first read has a connection.
LEMMA ServingHasConn ==
  ASSUME Inv, NEW w \in Workers, wpc[w] \notin {"idle", "len", "out"}
  PROVE  wconn[w] # None /\ wconn[w] \in Conns
BY DEF Inv, TypeOK, HolderInv, HeldOK

\* A thread reads the text of a request into its buffer.
LEMMA ReadTextStep ==
  ASSUME Inv, NEW w \in Workers, client_handler_ReadText(w),
         UNCHANGED cut
  PROVE  Inv'
<1> USE DEF client_handler_ReadText, Goto
<1>0. wconn[w] # None
  BY ServingHasConn
<1>1. /\ wconn[w] \in Conns
      /\ Head(c2s[wconn[w]]).call \in Nat
      /\ c2s' \in [Conns -> Seq(Units)]
      /\ c2s' \in [Conns -> Seq(Numbered)]
  BY <1>0, HeadUnit
<1>2. Request(wconn[w], Head(c2s[wconn[w]]).call, wlen[w]) \in Requests
  BY <1>1 DEF Request, Requests, Inv, TypeOK
<1>3. TypeOK'
  BY <1>1, <1>2 DEF Inv, TypeOK, PipeTypeOK, WorkerStates, clientVars
<1>4. CallNumbers'
  BY <1>1 DEF Inv, CallNumbers, clientVars
<1>5. HolderInv'
  BY <1>0, ServingStep DEF WorkerStates, clientVars
<1> QED BY <1>3, <1>4, <1>5 DEF Inv

\* The text stops short, and the thread parses what its buffer holds.
LEMMA ReadTextStopsStep ==
  ASSUME Inv, NEW w \in Workers, client_handler_ReadTextStops(w),
         UNCHANGED cut
  PROVE  Inv'
<1>0. wconn[w] # None /\ wconn[w] \in Conns
  BY ServingHasConn DEF client_handler_ReadTextStops
<1>1. /\ wpc[w] = "text"
      /\ \E to \in {"call", "out"} : wpc' = [wpc EXCEPT ![w] = to]
      /\ UNCHANGED <<clientVars, s2c, peer, backlog, open, pool, wconn, wlen, executed>>
  BY DEF client_handler_ReadTextStops, request_from_json, Goto
<1>2. /\ c2s' \in [Conns -> Seq(Units)]
      /\ c2s' \in [Conns -> Seq(Numbered)]
      /\ buf' \in [Workers -> Requests]
  <2>t. buf \in [Workers -> Requests] /\ wlen[w] \in Nat
    BY DEF Inv, TypeOK
  <2>j. ASSUME NEW b \in Requests, request_from_json(w, b)
        PROVE  buf' \in [Workers -> Requests]
    BY <2>j, <2>t DEF request_from_json
  <2>l. Leftover(w) \subseteq Requests
    BY <2>t DEF Leftover, Blank, Request, Requests
  <2>1. CASE UNCHANGED c2s /\ \E b \in Leftover(w) : request_from_json(w, b)
    BY <2>1, <2>j, <2>l DEF Inv, TypeOK, PipeTypeOK, CallNumbers
  <2>2. CASE /\ c2s[wconn[w]] # <<>>
             /\ c2s' = Take(c2s, wconn[w])
             /\ \E b \in Mixtures(w, Head(c2s[wconn[w]]).call) : request_from_json(w, b)
    <3>1. /\ Head(c2s[wconn[w]]).call \in Nat
          /\ c2s' \in [Conns -> Seq(Units)]
          /\ c2s' \in [Conns -> Seq(Numbered)]
      BY <1>0, <2>2, HeadUnit
    <3>2. Mixtures(w, Head(c2s[wconn[w]]).call) \subseteq Requests
      BY <1>0, <2>t, <2>l, <3>1 DEF Mixtures, Request, Requests
    <3> QED BY <2>2, <2>j, <3>1, <3>2
  <2> QED BY <2>1, <2>2 DEF client_handler_ReadTextStops
<1>3. TypeOK'
  BY <1>1, <1>2 DEF Inv, TypeOK, PipeTypeOK, WorkerStates, clientVars
<1>4. CallNumbers'
  BY <1>1, <1>2 DEF Inv, CallNumbers, clientVars
<1>5. HolderInv'
  BY <1>0, <1>1, ServingStep DEF WorkerStates, clientVars
<1> QED BY <1>3, <1>4, <1>5 DEF Inv

\* A thread executes the request in its buffer.
LEMMA CallStep ==
  ASSUME Inv, NEW w \in Workers, client_handler_Call(w),
         UNCHANGED cut
  PROVE  Inv'
<1> USE DEF client_handler_Call, Goto, pipeVars, clientVars, streamVars
<1>0. wconn[w] # None
  BY ServingHasConn
<1>1. executed' \in [Conns -> Seq(Nat)]
  <2>1. buf[w].call \in Nat /\ executed \in [Conns -> Seq(Nat)]
    BY DEF Inv, TypeOK, Requests
  <2>2. \A d \in Conns : Append(executed[d], buf[w].call) \in Seq(Nat)
    BY <2>1, AppendFacts
  <2> QED BY <2>1, <2>2
<1>2. TypeOK'
  BY <1>1 DEF Inv, TypeOK, PipeTypeOK, WorkerStates
<1>3. CallNumbers'
  BY DEF Inv, CallNumbers
<1>4. HolderInv'
  BY <1>0, ServingStep DEF WorkerStates
<1> QED BY <1>2, <1>3, <1>4 DEF Inv

\* A thread writes a part of the response.
LEMMA WriteStep ==
  ASSUME Inv, NEW w \in Workers, client_handler_WriteLen(w) \/ client_handler_WriteText(w),
         UNCHANGED cut
  PROVE  Inv'
<1>1. PICK part \in {"len", "text"}, from \in {"wlen", "wtext"}, to \in {"wtext", "len"} :
        client_handler_Write(w, part, from, to)
  BY DEF client_handler_WriteLen, client_handler_WriteText
<1> USE <1>1 DEF client_handler_Write, Goto, clientVars
<1>2. wconn[w] # None /\ wconn[w] \in Conns
  BY ServingHasConn
<1>3. s2c' \in [Conns -> Seq(Units)]
  <2>1. buf[w].call \in Nat /\ s2c \in [Conns -> Seq(Units)]
    BY DEF Inv, TypeOK, PipeTypeOK, Requests
  <2> QED BY <1>2, <2>1, StreamTypes
<1>4. TypeOK'
  BY <1>3 DEF Inv, TypeOK, PipeTypeOK, WorkerStates
<1>5. CallNumbers'
  BY DEF Inv, CallNumbers
<1>6. HolderInv'
  BY <1>2, ServingStep DEF WorkerStates
<1> QED BY <1>4, <1>5, <1>6 DEF Inv

\* A thread's write fails.
LEMMA WriteFailsStep ==
  ASSUME Inv, NEW w \in Workers, client_handler_WriteFails(w),
         UNCHANGED cut
  PROVE  Inv'
<1> USE DEF client_handler_WriteFails, Goto, pipeVars, clientVars, streamVars
<1>1. TypeOK'
  BY DEF Inv, TypeOK, PipeTypeOK, WorkerStates
<1>2. CallNumbers'
  BY DEF Inv, CallNumbers
<1>3. HolderInv'
  BY ServingStep DEF WorkerStates
<1> QED BY <1>1, <1>2, <1>3 DEF Inv

\* A thread closes its descriptor, which nobody else has, and is idle again.
LEMMA OutStep ==
  ASSUME Inv, NEW w \in Workers, client_handler_Out(w),
         UNCHANGED cut
  PROVE  Inv'
<1>t. /\ open \in SUBSET Conns
      /\ wpc \in [Workers -> WorkerStates]
      /\ wconn \in [Workers -> Conns \cup {None}]
      /\ wlen \in [Workers -> Nat]
      /\ peer \in [Conns -> PeerStates]
      /\ pool \in Seq(Conns \cup {None})
      /\ None \notin Conns
  BY ThreadAssumption DEF Inv, TypeOK, PipeTypeOK
<1>0. /\ wpc' = [wpc EXCEPT ![w] = "idle"]
      /\ wconn' = [wconn EXCEPT ![w] = None]
      /\ wlen' = [wlen EXCEPT ![w] = 0]
      /\ open' = open \ {wconn[w]}
      /\ UNCHANGED <<clientVars, c2s, s2c, backlog, pool, buf, executed>>
  BY <1>t DEF client_handler_Out, Goto
<1>p. peer' \in [Conns -> PeerStates]
  BY <1>t DEF client_handler_Out, HangUp, PeerStates
<1>1. TypeOK' /\ CallNumbers'
  BY <1>0, <1>p, <1>t DEF Inv, TypeOK, PipeTypeOK, CallNumbers, WorkerStates, clientVars
<1>2. PoolOK'
  BY <1>0, <1>t DEF Inv, HolderInv, PoolOK, HeldOK
<1>3. HeldOK'
  <2>1. ASSUME NEW v \in Workers, v # w
        PROVE  /\ wpc'[v] = wpc[v] /\ wconn'[v] = wconn[v]
               /\ wconn[v] # None => wconn[v] # wconn[w]
    BY <1>0, <1>t, <2>1 DEF Inv, HolderInv, HeldOK
  <2>2. wpc'[w] = "idle" /\ wconn'[w] = None
    BY <1>0, <1>t
  <2> QED BY <1>0, <1>t, <2>1, <2>2 DEF Inv, HolderInv, HeldOK
<1>4. OpenOK'
  <2> SUFFICES ASSUME NEW d \in open, d # wconn[w]
               PROVE  \/ \E i \in 1..Len(pool) : pool[i] = d
                      \/ \E v \in Workers : wconn'[v] = d
    BY <1>0 DEF OpenOK
  <2>1. \A v \in Workers : wconn[v] = d => wconn'[v] = d
    BY <1>0, <1>t
  <2> QED BY <2>1 DEF Inv, HolderInv, OpenOK
<1>5. BacklogOK'
  BY <1>0 DEF Inv, HolderInv, BacklogOK, clientVars
<1> QED BY <1>1, <1>2, <1>3, <1>4, <1>5 DEF Inv, HolderInv

-----------------------------------------------------------------------------
(* The theorems.                                                           *)

\* No descriptor is open at first, and nobody waits.
LEMMA InitInv ==
  ASSUME Init
  PROVE  Inv
<1> USE DEF Init, PipeInit
<1>1. TypeOK
  <2>1. PipeTypeOK
    BY DEF PipeTypeOK, ClientStates, PeerStates, Results, Returned
  <2>2. cut \in BOOLEAN
    BY Zenon
  <2>3. /\ open \in SUBSET Conns
        /\ pool \in Seq(Conns \cup {None})
        /\ wpc \in [Workers -> WorkerStates]
        /\ wconn \in [Workers -> Conns \cup {None}]
        /\ wlen \in [Workers -> Nat]
        /\ buf \in [Workers -> Requests]
        /\ executed \in [Conns -> Seq(Nat)]
    BY DEF Requests, Blank, Request, WorkerStates
  <2> HIDE DEF Init, PipeInit
  <2> QED BY <2>1, <2>2, <2>3, Zenon DEF TypeOK
<1>2. CallNumbers
  BY ClientAssumption DEF CallNumbers, InCall
<1>3. HolderInv
  BY DEF HolderInv, PoolOK, HeldOK, OpenOK, BacklogOK
<1> QED BY <1>1, <1>2, <1>3 DEF Inv

\* Every step of the server and of its clients preserves the invariant.
LEMMA NextInv ==
  ASSUME Inv, [Next]_vars
  PROVE  Inv'
<1>1. ASSUME named_pipe_listen, UNCHANGED cut
      PROVE  Inv'
  BY <1>1, AcceptStep, AcceptFailsStep DEF named_pipe_listen
<1>2. ASSUME NEW w \in Workers, handle_named_pipe_client_with_threadpool(w), UNCHANGED cut
      PROVE  Inv'
  BY <1>2, TakeStep
<1>3. ASSUME NEW w \in Workers, named_pipe_client_handler(w), UNCHANGED cut
      PROVE  Inv'
  BY <1>3, ReadLenStep, ReadLenEndsStep, ReadTextStep, ReadTextStopsStep, CallStep,
     WriteStep, WriteFailsStep, OutStep
  DEF named_pipe_client_handler
<1>4. ASSUME NEW c \in Conns, ClientNext(c), UNCHANGED serverVars, NoteCut(c)
      PROVE  Inv'
  <2>1. cut' \in BOOLEAN
    BY <1>4 DEF NoteCut
  <2> QED BY <1>4, <2>1, ClientStep
<1>5. CASE UNCHANGED vars
  BY <1>5 DEF Inv, TypeOK, PipeTypeOK, CallNumbers, HolderInv, PoolOK, HeldOK, OpenOK,
              BacklogOK, vars, pipeVars, clientVars, streamVars, serverVars
<1> QED BY <1>1, <1>2, <1>3, <1>4, <1>5 DEF Next, ServerNext

\* The invariant holds in every state the server and its clients reach.
THEOREM Invariance == Spec => []Inv
<1>1. Init => Inv
  BY InitInv
<1>2. Inv /\ [Next]_vars => Inv'
  BY NextInv
<1> QED BY <1>1, <1>2, PTL DEF Spec

\* Every variable keeps its type, whatever is in the buffers: a length that a
\* thread reads is one that a client wrote (transport.c:487-552).
THEOREM TypeCorrect == Spec => []TypeOK
<1>1. Inv => TypeOK
  BY DEF Inv
<1> QED BY <1>1, Invariance, PTL

\* An open descriptor has exactly one holder, in the queue or a thread, and a
\* closed one is used by no thread, although failed accepts queue handlers for
\* descriptor -1 as well (transport.c:392-403, 544-551).
THEOREM DescriptorsAreMatched == Spec => []DescriptorsMatch
<1>1. ASSUME Inv
      PROVE  DescriptorsMatch
  <2> SUFFICES ASSUME NEW c \in Conns
               PROVE  IF c \in open
                        THEN Cardinality({w \in Workers : wconn[w] = c})
                               + Cardinality({i \in DOMAIN pool : pool[i] = c}) = 1
                        ELSE \A w \in Workers : wconn[w] # c
    BY DEF DescriptorsMatch
  <2>0. c # None /\ DOMAIN pool = 1..Len(pool)
    BY <1>1, ThreadAssumption DEF Inv, TypeOK
  <2>1. CASE c \notin open
    BY <1>1, <2>0, <2>1 DEF Inv, HolderInv, HeldOK
  <2>2. CASE c \in open
    <3> DEFINE W == {w \in Workers : wconn[w] = c}
               P == {i \in DOMAIN pool : pool[i] = c}
    <3>1. CASE W = {}
      <4>1. PICK i \in 1..Len(pool) : pool[i] = c
        BY <1>1, <2>2, <3>1 DEF Inv, HolderInv, OpenOK
      <4>2. P = {i}
        BY <1>1, <2>0, <4>1 DEF Inv, HolderInv, PoolOK
      <4>3. Cardinality(P) = 1 /\ Cardinality(W) = 0
        BY <3>1, <4>2, FS_EmptySet, FS_Singleton
      <4> QED BY <2>2, <4>3
    <3>2. CASE W # {}
      <4>1. PICK w \in Workers : wconn[w] = c
        BY <3>2
      <4>2. W = {w}
        BY <1>1, <2>0, <4>1 DEF Inv, HolderInv, HeldOK
      <4>3. P = {}
        BY <1>1, <2>0, <4>1 DEF Inv, HolderInv, HeldOK
      <4>4. Cardinality(P) = 0 /\ Cardinality(W) = 1
        BY <4>2, <4>3, FS_EmptySet, FS_Singleton
      <4> QED BY <2>2, <4>4
    <3> QED BY <3>1, <3>2
  <2> QED BY <2>1, <2>2
<1>2. Inv => DescriptorsMatch
  BY <1>1
<1> QED BY <1>2, Invariance, PTL

-----------------------------------------------------------------------------
(* The conversations of the threads with their clients.                    *)

\* A thread in the middle of a request: once it has read the text, the request
\* in its buffer is the last call's.
ThreadsTalk ==
  \A w \in Workers : wpc[w] \in Middle =>
    /\ TalkOK(wconn[w], wpc[w])
    /\ wpc[w] # "text" => buf[w].conn = wconn[w] /\ buf[w].call = calls[wconn[w]]

OthersTalk ==
  \A c \in Conns :
    (\A w \in Workers : wpc[w] \in Middle => wconn[w] # c) => TalkOK(c, "rest")

\* A client that is gone has left no request without its text.
RequestsWhole ==
  /\ \A w \in Workers : wpc[w] = "text" /\ cstate[wconn[w]] = "gone" =>
       c2s[wconn[w]] # <<>> /\ Head(c2s[wconn[w]]).part = "text"
  /\ \A c \in Conns :
       cstate[c] = "gone" /\ c2s[c] # <<>> /\ Head(c2s[c]).part = "len" =>
         Tail(c2s[c]) # <<>> /\ Head(Tail(c2s[c])).part = "text"

\* The server leaves and closes only connections whose client is gone.
EndsOK ==
  /\ \A w \in Workers : wpc[w] = "out" /\ wconn[w] # None => cstate[wconn[w]] = "gone"
  /\ \A c \in Conns : peer[c] # "open" => cstate[c] = "gone" /\ c \notin open
  /\ \A i \in 1..Len(backlog) : peer[backlog[i]] = "open"

ServiceInv == ThreadsTalk /\ OthersTalk /\ RequestsWhole /\ EndsOK /\ CallsOK

\* The types the conversations depend on.
LEMMA TalkTypes ==
  ASSUME Inv
  PROVE  /\ PipeTypeOK /\ executed \in [Conns -> Seq(Nat)]
         /\ wpc \in [Workers -> WorkerStates]
         /\ wconn \in [Workers -> Conns \cup {None}]
         /\ wlen \in [Workers -> Nat]
         /\ buf \in [Workers -> Requests]
BY DEF Inv, TypeOK

\* A thread's place is the place of its connection, which is open and which no
\* other thread has.
LEMMA ThreadPlace ==
  ASSUME Inv, ServiceInv, NEW w \in Workers, wconn[w] # None
  PROVE  /\ TalkOK(wconn[w], Place(wpc[w]))
         /\ peer[wconn[w]] = "open"
         /\ wconn[w] \in Conns
         /\ \A v \in Workers : v # w => wconn[v] # wconn[w]
<1>1. wconn[w] \in Conns /\ wconn[w] \in open
  BY DEF Inv, TypeOK, HolderInv, HeldOK
<1>2. \A v \in Workers : v # w => wconn[v] # wconn[w]
  BY DEF Inv, HolderInv, HeldOK
<1>3. TalkOK(wconn[w], Place(wpc[w]))
  <2>1. CASE wpc[w] \in Middle
    BY <2>1 DEF ServiceInv, ThreadsTalk, Place
  <2>2. CASE wpc[w] \notin Middle
    BY <1>1, <1>2, <2>2 DEF ServiceInv, OthersTalk, Place
  <2> QED BY <2>1, <2>2
<1> QED BY <1>1, <1>2, <1>3 DEF ServiceInv, EndsOK

\* A thread in the middle of a request has a connection.
LEMMA MiddleHasConn ==
  ASSUME Inv, NEW w \in Workers, wpc[w] \in Middle
  PROVE  wconn[w] # None /\ wconn[w] \in Conns
BY ServingHasConn DEF Middle

\* A thread's step in its own conversation leaves the others alone.
LEMMA ThreadStep ==
  ASSUME Inv, ServiceInv, NEW w \in Workers, wconn[w] # None,
         NEW to \in WorkerStates, wpc' = [wpc EXCEPT ![w] = to],
         UNCHANGED <<cstate, calls, peer, wconn>>,
         \A v \in Workers : v # w => buf'[v] = buf[v],
         \A d \in Conns : d # wconn[w] =>
           c2s'[d] = c2s[d] /\ s2c'[d] = s2c[d] /\ executed'[d] = executed[d],
         TalkOK(wconn[w], Place(to))',
         to \in Middle \ {"text"} =>
           buf'[w].conn = wconn[w] /\ buf'[w].call = calls[wconn[w]]
  PROVE  ThreadsTalk' /\ OthersTalk'
<1>t. wpc \in [Workers -> WorkerStates]
  BY TalkTypes
<1>0. /\ wconn[w] \in Conns
      /\ \A v \in Workers : v # w => wconn[v] # wconn[w]
  BY ThreadPlace
<1>1. ASSUME NEW d \in Conns, d # wconn[w], NEW at, TalkOK(d, at)
      PROVE  TalkOK(d, at)'
  BY <1>1, TalkLocal
<1>2. ThreadsTalk'
  <2> SUFFICES ASSUME NEW v \in Workers, wpc'[v] \in Middle
               PROVE  /\ TalkOK(wconn[v], wpc[v])'
                      /\ wpc'[v] # "text" =>
                           buf'[v].conn = wconn[v] /\ buf'[v].call = calls[wconn[v]]
    BY DEF ThreadsTalk
  <2>1. CASE v = w
    <3>1. wpc'[w] = to
      BY <1>t
    <3>2. TalkOK(wconn[w], wpc[w])'
      BY <2>1, <3>1 DEF Place
    <3> QED BY <2>1, <3>1, <3>2
  <2>2. CASE v # w
    <3>1. wpc'[v] = wpc[v] /\ buf'[v] = buf[v]
      BY <1>t, <2>2
    <3>2. /\ TalkOK(wconn[v], wpc[v])
          /\ wpc[v] # "text" => buf[v].conn = wconn[v] /\ buf[v].call = calls[wconn[v]]
      BY <3>1 DEF ServiceInv, ThreadsTalk
    <3>3. wconn[v] \in Conns /\ wconn[v] # wconn[w]
      BY <1>0, <2>2, <3>1, MiddleHasConn
    <3>4. \A d \in Conns, at \in Middle : d # wconn[w] /\ TalkOK(d, at) => TalkOK(d, at)'
      BY <1>1
    <3>5. TalkOK(wconn[v], wpc[v])'
      BY <3>1, <3>2, <3>3, <3>4
    <3> QED BY <3>1, <3>2, <3>5
  <2> QED BY <2>1, <2>2
<1>3. OthersTalk'
  <2> SUFFICES ASSUME NEW d \in Conns, \A v \in Workers : wpc'[v] \in Middle => wconn[v] # d
               PROVE  TalkOK(d, "rest")'
    BY DEF OthersTalk
  <2>1. CASE d = wconn[w]
    <3>1. to \notin Middle
      BY <1>t, <2>1
    <3> QED BY <2>1, <3>1 DEF Place
  <2>2. CASE d # wconn[w]
    <3>1. \A v \in Workers : wpc[v] \in Middle => wconn[v] # d
      BY <1>t, <2>2
    <3>2. TalkOK(d, "rest")
      BY <3>1 DEF ServiceInv, OthersTalk
    <3> QED BY <1>1, <2>2, <3>2
  <2> QED BY <2>1, <2>2
<1> QED BY <1>2, <1>3

\* Steps that move connections between the backlog, the queue and threads that
\* are not in the middle of a request, or close one that is at rest.
LEMMA MoveStep ==
  ASSUME Inv, ServiceInv, UNCHANGED <<cstate, calls, c2s, s2c, executed>>,
         \A d \in Conns : \/ peer'[d] = peer[d]
                          \/ /\ peer'[d] # "open"
                             /\ \A w \in Workers : wpc[w] \in Middle => wconn[w] # d,
         \A w \in Workers : wpc[w] \in Middle \/ wpc'[w] \in Middle =>
           wpc'[w] = wpc[w] /\ wconn'[w] = wconn[w] /\ buf'[w] = buf[w]
  PROVE  ThreadsTalk' /\ OthersTalk'
<1>1. ASSUME NEW d \in Conns, NEW at, peer'[d] = peer[d], TalkOK(d, at)
      PROVE  TalkOK(d, at)'
  BY <1>1, TalkLocal
<1>2. ThreadsTalk'
  <2> SUFFICES ASSUME NEW w \in Workers, wpc'[w] \in Middle
               PROVE  /\ TalkOK(wconn[w], wpc[w])'
                      /\ wpc'[w] # "text" =>
                           buf'[w].conn = wconn'[w] /\ buf'[w].call = calls[wconn'[w]]
    BY DEF ThreadsTalk
  <2>1. wpc'[w] = wpc[w] /\ wconn'[w] = wconn[w] /\ buf'[w] = buf[w]
    OBVIOUS
  <2>2. /\ TalkOK(wconn[w], wpc[w])
        /\ wpc[w] # "text" => buf[w].conn = wconn[w] /\ buf[w].call = calls[wconn[w]]
    BY <2>1 DEF ServiceInv, ThreadsTalk
  <2>3. wconn[w] \in Conns
    BY <2>1, MiddleHasConn
  <2>4. peer'[wconn[w]] = peer[wconn[w]]
    BY <2>1, <2>3
  <2>5. \A d \in Conns, at \in Middle :
          peer'[d] = peer[d] /\ TalkOK(d, at) => TalkOK(d, at)'
    BY <1>1
  <2>6. TalkOK(wconn[w], wpc[w])'
    BY <2>1, <2>2, <2>3, <2>4, <2>5
  <2> QED BY <2>1, <2>2, <2>6
<1>3. OthersTalk'
  <2> SUFFICES ASSUME NEW d \in Conns, \A w \in Workers : wpc'[w] \in Middle => wconn'[w] # d
               PROVE  TalkOK(d, "rest")'
    BY DEF OthersTalk
  <2>1. \A w \in Workers : wpc[w] \in Middle => wconn[w] # d
    OBVIOUS
  <2>2. TalkOK(d, "rest")
    BY <2>1 DEF ServiceInv, OthersTalk
  <2>3. CASE peer'[d] = peer[d]
    BY <1>1, <2>2, <2>3
  <2>4. CASE peer'[d] # "open"
    BY <2>2, <2>4, ServerCloses
  <2> QED BY <2>3, <2>4
<1> QED BY <1>2, <1>3

\* A step that takes nothing from the requests leaves them whole.
LEMMA WholeKept ==
  ASSUME ServiceInv, UNCHANGED <<cstate, c2s>>,
         \A w \in Workers : wpc'[w] = "text" => wpc[w] = "text" /\ wconn'[w] = wconn[w]
  PROVE  RequestsWhole'
<1>1. RequestsWhole
  BY DEF ServiceInv
<1> QED BY <1>1 DEF RequestsWhole

\* The same for a step that takes a unit from one connection's requests.
LEMMA OneRead ==
  ASSUME Inv, ServiceInv, NEW w \in Workers, NEW c \in Conns, wconn[w] = c,
         UNCHANGED <<cstate, wconn>>,
         \A d \in Conns : d # c => c2s'[d] = c2s[d],
         \A v \in Workers : v # w => wpc'[v] = wpc[v],
         \/ wpc'[w] # "text" /\ c2s'[c] = <<>>
         \/ cstate[c] = "gone" => c2s'[c] # <<>> /\ Head(c2s'[c]).part = "text"
  PROVE  RequestsWhole'
<1>0. RequestsWhole
  BY DEF ServiceInv
<1>1. ASSUME NEW v \in Workers, wpc'[v] = "text", cstate[wconn[v]] = "gone"
      PROVE  c2s'[wconn[v]] # <<>> /\ Head(c2s'[wconn[v]]).part = "text"
  <2>1. CASE v = w
    BY <1>1, <2>1
  <2>2. CASE v # w
    <3>1. wpc[v] = "text"
      BY <1>1, <2>2
    <3>2. wconn[v] \in Conns /\ wconn[v] # c
      BY <2>2, <3>1, ServingHasConn, ThreadPlace
    <3> QED BY <1>0, <1>1, <3>1, <3>2 DEF RequestsWhole
  <2> QED BY <2>1, <2>2
<1>2. ASSUME NEW d \in Conns, cstate[d] = "gone", c2s'[d] # <<>>, Head(c2s'[d]).part = "len"
      PROVE  Tail(c2s'[d]) # <<>> /\ Head(Tail(c2s'[d])).part = "text"
  <2>1. d # c
    BY <1>2
  <2> QED BY <1>0, <1>2, <2>1 DEF RequestsWhole
<1> QED BY <1>1, <1>2 DEF RequestsWhole

\* Steps after which nothing was called and nothing executed.
LEMMA CallsKept ==
  ASSUME CallsOK, UNCHANGED <<cstate, calls, result, executed>>
  PROVE  CallsOK'
<1>1. \A c \in Conns : Service!LastExecuted(c)' = Service!LastExecuted(c)
  BY DEF Service!LastExecuted
<1> QED BY <1>1 DEF CallsOK

-----------------------------------------------------------------------------
(* The steps keep the conversations legal.                                 *)

\* A connection is accepted; no thread has it yet.
LEMMA AcceptTalk ==
  ASSUME Inv, ServiceInv, named_pipe_listen
  PROVE  ServiceInv'
<1>0. /\ UNCHANGED <<cstate, calls, result, c2s, s2c, peer, wpc, wconn, wlen, buf, executed>>
      /\ \/ /\ backlog # <<>>
            /\ open' = open \cup {Head(backlog)} /\ backlog' = Tail(backlog)
         \/ UNCHANGED <<open, backlog>>
  BY DEF named_pipe_listen, named_pipe_listen_Accept, named_pipe_listen_AcceptFails,
         pipeVars, clientVars, streamVars
<1>1. ThreadsTalk' /\ OthersTalk'
  BY <1>0, MoveStep
<1>2. RequestsWhole'
  BY <1>0, WholeKept
<1>3. EndsOK'
  <2>1. CASE backlog # <<>> /\ open' = open \cup {Head(backlog)} /\ backlog' = Tail(backlog)
    <3>1. backlog \in Seq(Conns)
      BY DEF Inv, TypeOK, PipeTypeOK
    <3>2. /\ Head(backlog) = backlog[1]
          /\ Len(backlog) \in Nat \ {0}
          /\ Len(backlog') = Len(backlog) - 1
          /\ \A i \in 1..Len(backlog') : backlog'[i] = backlog[i + 1]
      BY <2>1, <3>1, TailFacts
    <3>3. peer[Head(backlog)] = "open"
      BY <3>2 DEF ServiceInv, EndsOK
    <3>4. \A i \in 1..Len(backlog') : peer[backlog'[i]] = "open"
      BY <3>2 DEF ServiceInv, EndsOK
    <3> QED BY <1>0, <2>1, <3>3, <3>4 DEF ServiceInv, EndsOK
  <2>2. CASE UNCHANGED <<open, backlog>>
    BY <1>0, <2>2 DEF ServiceInv, EndsOK
  <2> QED BY <1>0, <2>1, <2>2
<1>4. CallsOK'
  BY <1>0, CallsKept DEF ServiceInv
<1> QED BY <1>1, <1>2, <1>3, <1>4 DEF ServiceInv

\* A thread takes a connection, and a buffer that no busy thread has.
LEMMA TakeTalk ==
  ASSUME Inv, ServiceInv, NEW w \in Workers, handle_named_pipe_client_with_threadpool(w)
  PROVE  ServiceInv'
<1>t. /\ wpc \in [Workers -> WorkerStates]
      /\ wconn \in [Workers -> Conns \cup {None}]
      /\ buf \in [Workers -> Requests]
  BY TalkTypes
<1>0. /\ wpc[w] = "idle"
      /\ wpc' = [wpc EXCEPT ![w] = "len"]
      /\ wconn' = [wconn EXCEPT ![w] = Head(pool)]
      /\ \/ buf' = [buf EXCEPT ![w] = Blank]
         \/ \E v \in Workers : wpc[v] = "idle" /\ buf' = [buf EXCEPT ![v] = buf[w], ![w] = buf[v]]
      /\ UNCHANGED <<cstate, calls, result, c2s, s2c, peer, backlog, open, wlen, executed>>
  BY DEF handle_named_pipe_client_with_threadpool, Goto, pipeVars, clientVars, streamVars
<1>1. /\ \A v \in Workers : v # w => wpc'[v] = wpc[v] /\ wconn'[v] = wconn[v]
      /\ wpc'[w] = "len"
  BY <1>0, <1>t
<1>b. \A v \in Workers : wpc[v] # "idle" => buf'[v] = buf[v]
  BY <1>0, <1>t
<1>2. ThreadsTalk' /\ OthersTalk'
  BY <1>0, <1>1, <1>b, MoveStep DEF Middle
<1>3. RequestsWhole'
  BY <1>0, <1>1, WholeKept
<1>4. EndsOK'
  BY <1>0, <1>1 DEF ServiceInv, EndsOK
<1>5. CallsOK'
  BY <1>0, CallsKept DEF ServiceInv
<1> QED BY <1>2, <1>3, <1>4, <1>5 DEF ServiceInv

\* A thread reads a length: that of the last call, whose text follows if the
\* client is gone.
LEMMA ReadLenTalk ==
  ASSUME Inv, ServiceInv, NEW w \in Workers, client_handler_ReadLen(w)
  PROVE  ServiceInv'
<1>t. /\ PipeTypeOK
      /\ c2s \in [Conns -> Seq(Units)]
      /\ wpc \in [Workers -> WorkerStates]
      /\ wlen \in [Workers -> Nat]
  BY TalkTypes DEF PipeTypeOK
<1>b. PICK c \in Conns : /\ c = wconn[w] /\ wconn[w] # None
                         /\ TalkOK(c, Place(wpc[w])) /\ peer[c] = "open"
  BY ThreadPlace DEF client_handler_ReadLen
<1>0. /\ wpc[w] = "len"
      /\ c2s[c] # <<>>
      /\ wpc' = [wpc EXCEPT ![w] = "text"]
      /\ c2s' = Take(c2s, c)
      /\ UNCHANGED <<cstate, calls, result, s2c, peer, backlog, open, wconn, buf, executed>>
  BY <1>b DEF client_handler_ReadLen, Goto, clientVars
<1>c. c2s'[c] = Tail(c2s[c]) /\ \A d \in Conns : d # c => c2s'[d] = c2s[d]
  BY <1>0, <1>t DEF Take
<1>1. TalkOK(c, "rest")
  BY <1>b, <1>0 DEF Place, Middle
<1>2. TalkOK(c, "text")' /\ Head(c2s[c]).call = calls[c]
  BY <1>b, <1>0, <1>c, <1>1, <1>t, ServerReadsLen
<1>3. TalkOK(c, Place("text"))'
  BY <1>2 DEF Place, Middle
<1>4. /\ \A v \in Workers : v # w => wpc'[v] = wpc[v]
      /\ wpc'[w] = "text"
  BY <1>0, <1>t
<1>5. ThreadsTalk' /\ OthersTalk'
  BY <1>b, <1>0, <1>c, <1>3, <1>4, ThreadStep DEF WorkerStates, Middle
<1>6. RequestsWhole'
  <2>1. Head(c2s[c]).part = "len"
    <3>1. \/ c2s[c] = One(Unit(c, "len"))
          \/ c2s[c] = Two(Unit(c, "len"), Unit(c, "text"))
          \/ c2s[c] = Two(Unit(c, "len"), Unit(c, "cut"))
      BY <1>b, <1>0, <1>1, <1>t DEF TalkOK, RestOK, PipeTypeOK, ClientStates
    <3>2. \A x, y : Head(One(x)) = x /\ Head(Two(x, y)) = x
      BY ShortStreams
    <3>3. Unit(c, "len").part = "len"
      BY UnitFacts
    <3> QED BY <3>1, <3>2, <3>3
  <2>2. cstate[c] = "gone" => c2s'[c] # <<>> /\ Head(c2s'[c]).part = "text"
    BY <1>0, <1>c, <2>1 DEF ServiceInv, RequestsWhole
  <2> QED BY <1>b, <1>0, <1>c, <1>4, <2>2, OneRead
<1>7. EndsOK'
  BY <1>0, <1>4 DEF ServiceInv, EndsOK
<1>8. CallsOK'
  BY <1>0, CallsKept DEF ServiceInv
<1> QED BY <1>5, <1>6, <1>7, <1>8 DEF ServiceInv

\* A thread finds no further request, because its client is gone.
LEMMA ReadLenEndsTalk ==
  ASSUME Inv, ServiceInv, NEW w \in Workers, client_handler_ReadLenEnds(w)
  PROVE  ServiceInv'
<1>t. wpc \in [Workers -> WorkerStates]
  BY TalkTypes
<1>0. /\ wpc[w] = "len"
      /\ wconn[w] # None => cstate[wconn[w]] = "gone"
      /\ wpc' = [wpc EXCEPT ![w] = "out"]
      /\ UNCHANGED <<cstate, calls, result, c2s, s2c, peer, backlog, open, wconn, wlen, buf,
                     executed>>
  BY DEF client_handler_ReadLenEnds, Goto, pipeVars, clientVars, streamVars
<1>1. wpc'[w] = "out" /\ \A v \in Workers : v # w => wpc'[v] = wpc[v]
  BY <1>0, <1>t
<1>2. ThreadsTalk' /\ OthersTalk'
  BY <1>0, <1>1, MoveStep DEF Middle
<1>3. RequestsWhole'
  BY <1>0, <1>1, WholeKept
<1>4. EndsOK'
  BY <1>0, <1>1 DEF ServiceInv, EndsOK
<1>5. CallsOK'
  BY <1>0, CallsKept DEF ServiceInv
<1> QED BY <1>2, <1>3, <1>4, <1>5 DEF ServiceInv

\* A thread reads a text: that of the last call.
LEMMA ReadTextTalk ==
  ASSUME Inv, ServiceInv, NEW w \in Workers, client_handler_ReadText(w)
  PROVE  ServiceInv'
<1>t. /\ c2s \in [Conns -> Seq(Units)]
      /\ wpc \in [Workers -> WorkerStates]
      /\ buf \in [Workers -> Requests]
  BY TalkTypes DEF PipeTypeOK
<1>a. wpc[w] = "text" /\ wconn[w] # None
  BY ServingHasConn DEF client_handler_ReadText
<1>b. PICK c \in Conns : c = wconn[w] /\ TalkOK(c, Place(wpc[w]))
  BY <1>a, ThreadPlace
<1>0. /\ c2s[c] # <<>>
      /\ Head(c2s[c]).part = "text"
      /\ wpc' = [wpc EXCEPT ![w] = "call"]
      /\ buf' = [buf EXCEPT ![w] = Request(c, Head(c2s[c]).call, wlen[w])]
      /\ c2s' = Take(c2s, c)
      /\ UNCHANGED <<cstate, calls, result, s2c, peer, backlog, open, wconn, wlen, executed>>
  BY <1>b DEF client_handler_ReadText, Goto, clientVars
<1>c. c2s'[c] = Tail(c2s[c]) /\ \A d \in Conns : d # c => c2s'[d] = c2s[d]
  BY <1>0, <1>t DEF Take
<1>1. TalkOK(c, "text")
  BY <1>a, <1>b DEF Place, Middle
<1>2. TalkOK(c, "call")' /\ Head(c2s[c]).call = calls[c]
  BY <1>0, <1>c, <1>1, ServerReadsText
<1>3. TalkOK(c, Place("call"))'
  BY <1>2 DEF Place, Middle
<1>4. /\ buf'[w] = Request(c, calls[c], wlen[w])
      /\ \A v \in Workers : v # w => buf'[v] = buf[v]
      /\ \A v \in Workers : v # w => wpc'[v] = wpc[v]
      /\ wpc'[w] = "call"
  BY <1>0, <1>2, <1>t
<1>5. buf'[w].conn = c /\ buf'[w].call = calls[c]
  BY <1>4 DEF Request
<1>7. ThreadsTalk' /\ OthersTalk'
  BY <1>a, <1>b, <1>0, <1>c, <1>3, <1>4, <1>5, ThreadStep DEF WorkerStates
<1>8. RequestsWhole'
  <2>1. c2s'[c] = <<>>
    BY <1>2 DEF TalkOK, AtCallOK
  <2> QED BY <1>b, <1>0, <1>c, <1>4, <2>1, OneRead
<1>9. EndsOK'
  BY <1>0, <1>4 DEF ServiceInv, EndsOK
<1>10. CallsOK'
  BY <1>0, CallsKept DEF ServiceInv
<1> QED BY <1>7, <1>8, <1>9, <1>10 DEF ServiceInv

\* A text does not fail to come.
LEMMA TextComes ==
  ASSUME Inv, ServiceInv, NEW w \in Workers
  PROVE  ~client_handler_ReadTextStops(w)
<1> SUFFICES ASSUME client_handler_ReadTextStops(w)
             PROVE  FALSE
  OBVIOUS
<1>1. wpc[w] = "text" /\ cstate[wconn[w]] = "gone"
  BY DEF client_handler_ReadTextStops
<1>2. c2s[wconn[w]] # <<>> /\ Head(c2s[wconn[w]]).part = "text"
  BY <1>1 DEF ServiceInv, RequestsWhole
<1> QED BY <1>2 DEF client_handler_ReadTextStops

\* A thread executes the request it read, once.
LEMMA CallTalk ==
  ASSUME Inv, ServiceInv, NEW w \in Workers, client_handler_Call(w)
  PROVE  ServiceInv' /\ Service!Execute(wconn[w])
<1>t. /\ PipeTypeOK /\ executed \in [Conns -> Seq(Nat)]
      /\ calls \in [Conns -> Nat]
      /\ wpc \in [Workers -> WorkerStates]
  BY TalkTypes DEF PipeTypeOK
<1>a. wpc[w] = "call" /\ wconn[w] # None
  BY ServingHasConn DEF client_handler_Call
<1>b. PICK c \in Conns : c = wconn[w] /\ TalkOK(c, Place(wpc[w]))
  BY <1>a, ThreadPlace
<1>1. /\ TalkOK(c, "call")
      /\ buf[w].conn = c /\ buf[w].call = calls[c]
  BY <1>a, <1>b DEF Place, Middle, ServiceInv, ThreadsTalk
<1>0. /\ wpc' = [wpc EXCEPT ![w] = "wlen"]
      /\ executed' = [executed EXCEPT ![c] = Append(@, calls[c])]
      /\ UNCHANGED <<cstate, calls, result, c2s, s2c, peer, backlog, open, wconn, wlen, buf>>
  BY <1>1 DEF client_handler_Call, Goto, pipeVars, clientVars, streamVars
<1>2. /\ TalkOK(c, "wlen")'
      /\ Service!Execute(c)
      /\ Service!LastExecuted(c)' = calls[c]
      /\ \A d \in Conns : d # c => executed'[d] = executed[d]
  BY <1>0, <1>1, <1>t, ServerExecutes
<1>3. TalkOK(c, Place("wlen"))'
  BY <1>2 DEF Place, Middle
<1>4. wpc'[w] = "wlen" /\ \A v \in Workers : v # w => wpc'[v] = wpc[v]
  BY <1>0, <1>t
<1>5. ThreadsTalk' /\ OthersTalk'
  BY <1>a, <1>b, <1>0, <1>1, <1>2, <1>3, ThreadStep DEF WorkerStates
<1>6. RequestsWhole'
  BY <1>0, <1>4, WholeKept
<1>7. EndsOK'
  BY <1>0, <1>4 DEF ServiceInv, EndsOK
<1>8. CallsOK'
  BY <1>0, <1>2, <1>t, ExecutedCalls DEF ServiceInv
<1> QED BY <1>b, <1>2, <1>5, <1>6, <1>7, <1>8 DEF ServiceInv

\* A thread writes a part of the response to the call it executed.
LEMMA WriteTalk ==
  ASSUME Inv, ServiceInv, NEW w \in Workers,
         client_handler_WriteLen(w) \/ client_handler_WriteText(w)
  PROVE  ServiceInv'
<1>t. s2c \in [Conns -> Seq(Units)] /\ wpc \in [Workers -> WorkerStates]
  BY TalkTypes DEF PipeTypeOK
<1>p. PICK part \in {"len", "text"}, from \in {"wlen", "wtext"}, to \in {"wtext", "len"} :
        /\ client_handler_Write(w, part, from, to)
        /\ from = "wlen" => part = "len" /\ to = "wtext"
        /\ from = "wtext" => part = "text" /\ to = "len"
  BY DEF client_handler_WriteLen, client_handler_WriteText
<1>a. wpc[w] = from /\ wconn[w] # None
  BY <1>p, ServingHasConn DEF client_handler_Write
<1>b. PICK c \in Conns : c = wconn[w] /\ TalkOK(c, Place(wpc[w]))
  BY <1>a, ThreadPlace
<1>1. TalkOK(c, from) /\ buf[w].conn = c /\ buf[w].call = calls[c]
  BY <1>a, <1>b DEF Place, Middle, ServiceInv, ThreadsTalk
<1>0. /\ cstate[c] # "gone"
      /\ wpc' = [wpc EXCEPT ![w] = to]
      /\ s2c' = Put(s2c, c, part, calls[c])
      /\ UNCHANGED <<cstate, calls, result, c2s, peer, backlog, open, wconn, wlen, buf,
                     executed>>
  BY <1>p, <1>b, <1>1 DEF client_handler_Write, Goto, clientVars
<1>2. /\ s2c'[c] = Append(s2c[c], Unit(c, part))
      /\ \A d \in Conns : d # c => s2c'[d] = s2c[d]
  BY <1>0, <1>t DEF Put, Unit
<1>3. TalkOK(c, Place(to))'
  <2>1. CASE from = "wlen"
    <3>1. TalkOK(c, "wtext")'
      BY <1>p, <1>0, <1>1, <1>2, <2>1, ServerWritesLen
    <3> QED BY <1>p, <2>1, <3>1 DEF Place, Middle
  <2>2. CASE from = "wtext"
    <3>1. TalkOK(c, "rest")'
      BY <1>p, <1>0, <1>1, <1>2, <2>2, ServerWritesText
    <3> QED BY <1>p, <2>2, <3>1 DEF Place, Middle
  <2> QED BY <2>1, <2>2
<1>4. wpc'[w] = to /\ \A v \in Workers : v # w => wpc'[v] = wpc[v]
  BY <1>0, <1>t
<1>5. ThreadsTalk' /\ OthersTalk'
  BY <1>a, <1>b, <1>0, <1>1, <1>2, <1>3, ThreadStep DEF WorkerStates
<1>6. RequestsWhole'
  BY <1>p, <1>0, <1>4, WholeKept
<1>7. EndsOK'
  BY <1>0, <1>4 DEF ServiceInv, EndsOK
<1>8. CallsOK'
  BY <1>0, CallsKept DEF ServiceInv
<1> QED BY <1>5, <1>6, <1>7, <1>8 DEF ServiceInv

\* A thread's client is gone before the response is written.
LEMMA WriteFailsTalk ==
  ASSUME Inv, ServiceInv, NEW w \in Workers, client_handler_WriteFails(w)
  PROVE  ServiceInv'
<1>t. wpc \in [Workers -> WorkerStates]
  BY TalkTypes
<1>a. wpc[w] \in {"wlen", "wtext"} /\ wconn[w] # None
  BY ServingHasConn DEF client_handler_WriteFails
<1>b. PICK c \in Conns : c = wconn[w] /\ TalkOK(c, Place(wpc[w]))
  BY <1>a, ThreadPlace
<1>0. /\ cstate[c] = "gone"
      /\ wpc' = [wpc EXCEPT ![w] = "out"]
      /\ UNCHANGED <<cstate, calls, result, c2s, s2c, peer, backlog, open, wconn, wlen, buf,
                     executed>>
  BY <1>b DEF client_handler_WriteFails, Goto, pipeVars, clientVars, streamVars
<1>1. \E at \in {"wlen", "wtext"} : TalkOK(c, at)
  BY <1>a, <1>b DEF Place, Middle
<1>2. TalkOK(c, "rest")'
  BY <1>0, <1>1, ServerWriteStops
<1>3. TalkOK(c, Place("out"))'
  BY <1>2 DEF Place, Middle
<1>4. wpc'[w] = "out" /\ \A v \in Workers : v # w => wpc'[v] = wpc[v]
  BY <1>0, <1>t
<1>5. ThreadsTalk' /\ OthersTalk'
  BY <1>a, <1>b, <1>0, <1>3, ThreadStep DEF WorkerStates, Middle
<1>6. RequestsWhole'
  BY <1>0, <1>4, WholeKept
<1>7. EndsOK'
  BY <1>b, <1>0, <1>4 DEF ServiceInv, EndsOK
<1>8. CallsOK'
  BY <1>0, CallsKept DEF ServiceInv
<1> QED BY <1>5, <1>6, <1>7, <1>8 DEF ServiceInv

\* A thread closes the connection its client has left.
LEMMA OutTalk ==
  ASSUME Inv, ServiceInv, NEW w \in Workers, client_handler_Out(w)
  PROVE  ServiceInv'
<1>t. /\ wpc \in [Workers -> WorkerStates]
      /\ wconn \in [Workers -> Conns \cup {None}]
      /\ wlen \in [Workers -> Nat]
      /\ peer \in [Conns -> PeerStates]
      /\ None \notin Conns
  BY TalkTypes, ThreadAssumption DEF PipeTypeOK
<1>0. /\ wpc[w] = "out"
      /\ wpc' = [wpc EXCEPT ![w] = "idle"]
      /\ wconn' = [wconn EXCEPT ![w] = None]
      /\ wconn[w] = None => UNCHANGED <<open, peer>>
      /\ wconn[w] # None => HangUp(wconn[w]) /\ open' = open \ {wconn[w]}
      /\ UNCHANGED <<cstate, calls, result, c2s, s2c, backlog, pool, buf, executed>>
  BY DEF client_handler_Out, Goto, clientVars
<1>1. /\ wpc'[w] = "idle"
      /\ \A v \in Workers : v # w =>
           wpc'[v] = wpc[v] /\ wconn'[v] = wconn[v]
  BY <1>0, <1>t
<1>2. wconn[w] # None =>
        /\ cstate[wconn[w]] = "gone" /\ wconn[w] \in Conns /\ wconn[w] \in open
        /\ \A v \in Workers : v # w => wconn[v] # wconn[w]
  BY <1>0, <1>t DEF ServiceInv, EndsOK, Inv, HolderInv, HeldOK
<1>3. \A d \in Conns : \/ peer'[d] = peer[d] /\ (d \in open' => d \in open)
                       \/ peer'[d] # "open" /\ d = wconn[w] /\ d \notin open'
  <2>1. CASE wconn[w] = None
    BY <1>0, <2>1
  <2>2. CASE wconn[w] # None
    <3>1. /\ peer' = [peer EXCEPT ![wconn[w]] =
                        IF c2s[wconn[w]] = <<>> THEN "eof" ELSE "reset"]
          /\ open' = open \ {wconn[w]}
      BY <1>0, <2>2 DEF HangUp
    <3> QED BY <1>2, <1>t, <2>2, <3>1
  <2> QED BY <2>1, <2>2
<1>4. ThreadsTalk' /\ OthersTalk'
  <2>1. \A d \in Conns : \/ peer'[d] = peer[d]
                         \/ /\ peer'[d] # "open"
                            /\ \A v \in Workers : wpc[v] \in Middle => wconn[v] # d
    BY <1>0, <1>2, <1>3, <1>t DEF Middle
  <2>2. \A v \in Workers : wpc[v] \in Middle \/ wpc'[v] \in Middle =>
          wpc'[v] = wpc[v] /\ wconn'[v] = wconn[v] /\ buf'[v] = buf[v]
    BY <1>0, <1>1 DEF Middle
  <2> QED BY <1>0, <2>1, <2>2, MoveStep
<1>5. RequestsWhole'
  BY <1>0, <1>1, WholeKept
<1>6. EndsOK'
  <2>1. \A v \in Workers : wpc'[v] = "out" /\ wconn'[v] # None => cstate[wconn'[v]] = "gone"
    BY <1>1 DEF ServiceInv, EndsOK
  <2>2. \A c \in Conns : peer'[c] # "open" => cstate[c] = "gone" /\ c \notin open'
    BY <1>2, <1>3, <1>t DEF ServiceInv, EndsOK
  <2>3. \A i \in 1..Len(backlog) : peer'[backlog[i]] = "open"
    <3> SUFFICES ASSUME NEW i \in 1..Len(backlog)
                 PROVE  peer'[backlog[i]] = "open"
      OBVIOUS
    <3>1. backlog \in Seq(Conns)
      BY TalkTypes DEF PipeTypeOK
    <3>2. backlog[i] \in Conns
      BY <3>1
    <3>3. backlog[i] \notin open /\ peer[backlog[i]] = "open"
      BY DEF Inv, HolderInv, BacklogOK, ServiceInv, EndsOK
    <3>4. backlog[i] # wconn[w]
      BY <1>2, <1>t, <3>2, <3>3
    <3> QED BY <1>3, <3>2, <3>3, <3>4
  <2> QED BY <1>0, <2>1, <2>2, <2>3 DEF EndsOK
<1>7. CallsOK'
  BY <1>0, CallsKept DEF ServiceInv
<1> QED BY <1>4, <1>5, <1>6, <1>7 DEF ServiceInv

\* A client that leaves, but not between a length and a text, writes nothing.
LEMMA ClientLeaves ==
  ASSUME PipeTypeOK, NEW c \in Conns, ClientNext(c), cstate'[c] = "gone", cstate[c] # "text"
  PROVE  cstate[c] \in {"ready", "wait", "reply"} /\ c2s' = c2s
<1> USE DEF PipeTypeOK, ClientStates
<1>1. CASE searpc_free_client_with_pipe_transport(c)
  BY <1>1 DEF searpc_free_client_with_pipe_transport, streamVars
<1>2. CASE Die(c)
  BY <1>2 DEF Die, InCall
<1>3. CASE searpc_named_pipe_client_connect(c)
  BY <1>3 DEF searpc_named_pipe_client_connect
<1>4. CASE pipe_send_WriteLen(c) \/ pipe_send_WriteLenFails(c)
  BY <1>4 DEF pipe_send_WriteLen, pipe_send_WriteLenFails
<1>5. CASE searpc_named_pipe_send(c)
  BY <1>5 DEF searpc_named_pipe_send, pipe_send_WriteText, pipe_send_WriteTextFails,
     pipe_send_ReadLen, pipe_send_ReadText, pipe_send_ReadTextEOF, pipe_send_ReadFails, Return
<1> QED BY <1>1, <1>2, <1>3, <1>4, <1>5 DEF ClientNext

\* Except between a length and a text, what the client has sent and the server
\* has not read is a whole request, or its text.
LEMMA WholeHere ==
  ASSUME NEW c \in Conns, NEW at \in Middle \cup {"rest"}, TalkOK(c, at),
         peer[c] = "open", cstate[c] \in {"ready", "wait", "reply"}
  PROVE  /\ at = "text" => c2s[c] # <<>> /\ Head(c2s[c]).part = "text"
         /\ c2s[c] # <<>> /\ Head(c2s[c]).part = "len" =>
              Tail(c2s[c]) # <<>> /\ Head(Tail(c2s[c])).part = "text"
<1>1. CASE at = "text"
  <2>1. c2s[c] = One(Unit(c, "text"))
    BY <1>1 DEF TalkOK, AtTextOK
  <2>2. c2s[c] # <<>> /\ Head(c2s[c]) = Unit(c, "text")
    BY <2>1, ShortStreams
  <2>3. Unit(c, "text").part = "text"
    BY UnitFacts
  <2> QED BY <2>2, <2>3
<1>2. CASE at = "rest"
  <2>1. c2s[c] = <<>> \/ c2s[c] = Two(Unit(c, "len"), Unit(c, "text"))
    BY <1>2 DEF TalkOK, RestOK
  <2> QED BY <1>2, <2>1, ShortStreams, UnitFacts
<1>3. CASE at \in {"call", "wlen", "wtext"}
  BY <1>3 DEF TalkOK, AtCallOK, AtWriteTextOK
<1> QED BY <1>1, <1>2, <1>3 DEF Middle

\* A client's step keeps every conversation legal; unless it is a death between
\* the length and the text, it leaves whole requests.
LEMMA ClientTalkStep ==
  ASSUME Inv, ServiceInv, NEW c \in Conns, ClientNext(c), UNCHANGED serverVars,
         ~(cstate[c] = "text" /\ cstate'[c] = "gone")
  PROVE  ServiceInv'
<1>0. /\ UNCHANGED <<open, wpc, wconn, wlen, buf, executed>>
      /\ PipeTypeOK /\ executed \in [Conns -> Seq(Nat)]
  BY TalkTypes DEF serverVars
<1>e. /\ peer' = peer
      /\ \A d \in Conns : d # c =>
           /\ cstate'[d] = cstate[d] /\ calls'[d] = calls[d]
           /\ c2s'[d] = c2s[d] /\ s2c'[d] = s2c[d]
  BY <1>0, ClientEffect
<1>1. CallsOK'
  BY <1>0, ClientCalls DEF ServiceInv
<1>2. ASSUME NEW d \in Conns, NEW at \in Middle \cup {"rest"}, TalkOK(d, at)
      PROVE  TalkOK(d, at)'
  <2>1. CASE d = c
    BY <1>0, <1>2, <2>1, ClientTalk DEF ServiceInv
  <2>2. CASE d # c
    BY <1>0, <1>e, <1>2, <2>2, TalkLocal
  <2> QED BY <2>1, <2>2
<1>s. cstate[c] # "ready" => calls' = calls
  BY DEF ClientNext, searpc_named_pipe_client_connect, pipe_send_WriteLen,
         pipe_send_WriteLenFails, searpc_named_pipe_send, pipe_send_WriteText,
         pipe_send_WriteTextFails, pipe_send_ReadLen, pipe_send_ReadText,
         pipe_send_ReadTextEOF, pipe_send_ReadFails, Return, Die,
         searpc_free_client_with_pipe_transport
<1>3. ThreadsTalk'
  <2> SUFFICES ASSUME NEW w \in Workers, wpc[w] \in Middle
               PROVE  /\ TalkOK(wconn[w], wpc[w])'
                      /\ wpc[w] # "text" =>
                           buf[w].conn = wconn[w] /\ buf[w].call = calls'[wconn[w]]
    BY <1>0 DEF ThreadsTalk
  <2>1. /\ TalkOK(wconn[w], wpc[w])
        /\ wpc[w] # "text" => buf[w].conn = wconn[w] /\ buf[w].call = calls[wconn[w]]
    BY DEF ServiceInv, ThreadsTalk
  <2>2. wconn[w] \in Conns
    BY MiddleHasConn
  <2>3. TalkOK(wconn[w], wpc[w])'
    BY <1>0, <1>2, <2>1, <2>2
  <2>4. calls'[wconn[w]] = calls[wconn[w]]
    <3>1. cstate[wconn[w]] # "ready"
      BY <2>1 DEF TalkOK, AtTextOK, AtCallOK, AtWriteTextOK, Middle
    <3> QED BY <1>e, <1>s, <2>2, <3>1
  <2> QED BY <2>1, <2>3, <2>4
<1>4. OthersTalk'
  <2> SUFFICES ASSUME NEW d \in Conns, \A w \in Workers : wpc[w] \in Middle => wconn[w] # d
               PROVE  TalkOK(d, "rest")'
    BY <1>0 DEF OthersTalk
  <2>1. TalkOK(d, "rest")
    BY DEF ServiceInv, OthersTalk
  <2> QED BY <1>2, <2>1
<1>5. RequestsWhole'
  <2>0. RequestsWhole
    BY DEF ServiceInv
  <2>1. CASE cstate'[c] # "gone"
    <3>1. \A d \in Conns : cstate'[d] = "gone" => cstate[d] = "gone" /\ c2s'[d] = c2s[d]
      BY <1>e, <2>1
    <3>2. \A w \in Workers : wpc[w] = "text" => wconn[w] \in Conns
      BY ServingHasConn
    <3> QED BY <1>0, <2>0, <3>1, <3>2 DEF RequestsWhole
  <2>2. CASE cstate'[c] = "gone"
    <3>1. cstate[c] \in {"ready", "wait", "reply"} /\ c2s' = c2s
      BY <1>0, <2>2, ClientLeaves
    <3>2. peer[c] = "open"
      BY <3>1 DEF ServiceInv, EndsOK
    <3>3. ASSUME NEW at \in Middle \cup {"rest"}, TalkOK(c, at)
          PROVE  /\ at = "text" => c2s[c] # <<>> /\ Head(c2s[c]).part = "text"
                 /\ c2s[c] # <<>> /\ Head(c2s[c]).part = "len" =>
                      Tail(c2s[c]) # <<>> /\ Head(Tail(c2s[c])).part = "text"
      BY <3>1, <3>2, <3>3, WholeHere
    <3>4. \A w \in Workers : wpc[w] = "text" /\ wconn[w] = c =>
            c2s[c] # <<>> /\ Head(c2s[c]).part = "text"
      <4>1. ASSUME NEW w \in Workers, wpc[w] = "text", wconn[w] = c
            PROVE  TalkOK(c, "text")
        BY <4>1 DEF ServiceInv, ThreadsTalk, Middle
      <4> QED BY <3>3, <4>1 DEF Middle
    <3>5. c2s[c] # <<>> /\ Head(c2s[c]).part = "len" =>
            Tail(c2s[c]) # <<>> /\ Head(Tail(c2s[c])).part = "text"
      <4>1. PICK at \in Middle \cup {"rest"} : TalkOK(c, at)
        BY DEF ServiceInv, ThreadsTalk, OthersTalk
      <4> QED BY <3>3, <4>1
    <3>6. \A w \in Workers : wpc[w] = "text" => wconn[w] \in Conns
      BY ServingHasConn
    <3>7. \A d \in Conns : d # c => cstate'[d] = cstate[d]
      BY <1>e
    <3> QED BY <1>0, <2>0, <3>1, <3>4, <3>5, <3>6, <3>7 DEF RequestsWhole
  <2> QED BY <2>1, <2>2
<1>6. EndsOK'
  <2>1. cstate[c] # "gone"
    BY DEF ClientNext, searpc_named_pipe_client_connect, pipe_send_WriteLen,
           pipe_send_WriteLenFails, searpc_named_pipe_send, pipe_send_WriteText,
           pipe_send_WriteTextFails, pipe_send_ReadLen, pipe_send_ReadText,
           pipe_send_ReadTextEOF, pipe_send_ReadFails, Return, Die, InCall,
           searpc_free_client_with_pipe_transport
  <2>2. \A d \in Conns : cstate[d] = "gone" => cstate'[d] = "gone"
    BY <1>e, <2>1
  <2>3. \A w \in Workers : wpc[w] = "out" /\ wconn[w] # None => cstate'[wconn[w]] = "gone"
    BY <2>2 DEF Inv, TypeOK, ServiceInv, EndsOK
  <2>4. \A i \in 1..Len(backlog') : peer[backlog'[i]] = "open"
    <3>1. CASE searpc_named_pipe_client_connect(c)
      <4>1. cstate[c] = "new" /\ backlog' = Append(backlog, c) /\ backlog \in Seq(Conns)
        BY <1>0, <3>1 DEF searpc_named_pipe_client_connect, PipeTypeOK
      <4>2. /\ Len(backlog') = Len(backlog) + 1
            /\ \A i \in 1..Len(backlog) : backlog'[i] = backlog[i]
            /\ backlog'[Len(backlog) + 1] = c
            /\ Len(backlog) \in Nat
        BY <4>1, AppendFacts
      <4>3. peer[c] = "open"
        BY <4>1 DEF ServiceInv, EndsOK
      <4> QED BY <4>2, <4>3 DEF ServiceInv, EndsOK
    <3>2. CASE ~searpc_named_pipe_client_connect(c)
      <4>1. backlog' = backlog
        BY <1>0, <3>2, ClientPlaces DEF PipeTypeOK
      <4> QED BY <4>1 DEF ServiceInv, EndsOK
    <3> QED BY <3>1, <3>2
  <2> QED BY <1>0, <1>e, <2>2, <2>3, <2>4 DEF ServiceInv, EndsOK
<1> QED BY <1>1, <1>3, <1>4, <1>5, <1>6 DEF ServiceInv

\* No conversation has begun.
LEMMA ServiceInit ==
  ASSUME Init
  PROVE  ServiceInv
<1> USE DEF Init, PipeInit
<1>1. \A c \in Conns : TalkOK(c, "rest")
  BY DEF TalkOK, RestOK
<1>2. ThreadsTalk /\ OthersTalk
  BY <1>1 DEF ThreadsTalk, OthersTalk, Middle
<1>3. RequestsWhole
  BY DEF RequestsWhole
<1>4. EndsOK
  BY DEF EndsOK
<1>5. CallsOK
  <2>1. \A c \in Conns : Service!LastExecuted(c) = 0
    BY DEF Service!LastExecuted
  <2>2. \A c \in Conns : /\ calls[c] = 0
                          /\ cstate[c] = "new"
                          /\ result[c].kind = "none"
    BY DEF Returned
  <2>3. \A c \in Conns : Service!LastExecuted(c) <= calls[c]
    <3>1. 0 <= 0
      OBVIOUS
    <3> QED BY <2>1, <2>2, <3>1, Zenon
  <2> HIDE DEF Init, PipeInit
  <2> QED BY <2>2, <2>3 DEF CallsOK, InCall
<1> QED BY <1>2, <1>3, <1>4, <1>5 DEF ServiceInv

\* Every step keeps the conversations legal, until a request is cut short.
LEMMA ServiceNext ==
  ASSUME Inv, ServiceInv, [Next]_vars, ~cut'
  PROVE  ServiceInv'
<1>1. CASE named_pipe_listen
  BY <1>1, AcceptTalk
<1>2. ASSUME NEW w \in Workers, handle_named_pipe_client_with_threadpool(w)
      PROVE  ServiceInv'
  BY <1>2, TakeTalk
<1>3. ASSUME NEW w \in Workers, named_pipe_client_handler(w)
      PROVE  ServiceInv'
  BY <1>3, ReadLenTalk, ReadLenEndsTalk, ReadTextTalk, TextComes, CallTalk,
     WriteTalk, WriteFailsTalk, OutTalk
  DEF named_pipe_client_handler
<1>4. ASSUME NEW c \in Conns, ClientNext(c), UNCHANGED serverVars, NoteCut(c)
      PROVE  ServiceInv'
  <2>1. ~(cstate[c] = "text" /\ cstate'[c] = "gone")
    BY <1>4 DEF NoteCut
  <2> QED BY <1>4, <2>1, ClientTalkStep
<1>5. CASE UNCHANGED vars
  <2>1. UNCHANGED <<cstate, calls, result, c2s, s2c, peer, backlog, open, wpc, wconn, wlen,
                    buf, executed>>
    BY <1>5 DEF vars, pipeVars, clientVars, streamVars, serverVars
  <2>2. ThreadsTalk' /\ OthersTalk'
    BY <2>1, MoveStep
  <2>3. RequestsWhole'
    BY <2>1, WholeKept
  <2>4. EndsOK' /\ CallsOK'
    BY <2>1, CallsKept DEF ServiceInv, EndsOK
  <2> QED BY <2>2, <2>3, <2>4 DEF ServiceInv
<1> QED BY <1>1, <1>2, <1>3, <1>4, <1>5 DEF Next, ServerNext

-----------------------------------------------------------------------------
(* The refinement.                                                         *)

\* Every step of the server and its clients is a step of the service, or one
\* the service does not see.  No client reads end of file inside a call: the
\* server closes only what its client has left.
LEMMA StepRefines ==
  ASSUME Inv, ServiceInv, [Next]_vars
  PROVE  [Service!Next]_(Service!vars)
<1>0. ASSUME UNCHANGED <<calls, executed, result>>
      PROVE  UNCHANGED Service!vars
  BY <1>0 DEF Service!vars
<1>1. CASE named_pipe_listen
  <2>1. UNCHANGED <<calls, executed, result>>
    BY <1>1 DEF named_pipe_listen, named_pipe_listen_Accept, named_pipe_listen_AcceptFails,
                pipeVars, clientVars
  <2> QED BY <1>0, <2>1
<1>2. ASSUME NEW w \in Workers,
             handle_named_pipe_client_with_threadpool(w) \/ named_pipe_client_handler(w)
      PROVE  [Service!Next]_(Service!vars)
  <2>1. CASE client_handler_Call(w)
    <3>1. wconn[w] \in Conns
      BY <2>1, ServingHasConn DEF client_handler_Call
    <3> QED BY <2>1, <3>1, CallTalk DEF Service!Next
  <2>2. CASE ~client_handler_Call(w)
    <3>1. UNCHANGED <<calls, executed, result>>
      BY <1>2, <2>2
      DEF handle_named_pipe_client_with_threadpool, named_pipe_client_handler,
          client_handler_ReadLen, client_handler_ReadLenEnds, client_handler_ReadText,
          client_handler_ReadTextStops, client_handler_WriteLen, client_handler_WriteText,
          client_handler_Write, client_handler_WriteFails, client_handler_Out,
          pipeVars, clientVars
    <3> QED BY <1>0, <3>1
  <2> QED BY <2>1, <2>2
<1>3. ASSUME NEW c \in Conns, ClientNext(c), UNCHANGED serverVars
      PROVE  [Service!Next]_(Service!vars)
  <2>1. UNCHANGED executed /\ PipeTypeOK /\ CallsOK
    BY <1>3, TalkTypes DEF serverVars, ServiceInv
  <2>2. PICK at \in Middle \cup {"rest"} : TalkOK(c, at)
    BY DEF ServiceInv, ThreadsTalk, OthersTalk
  <2>3. ~pipe_send_ReadTextEOF(c)
    BY DEF pipe_send_ReadTextEOF, ServiceInv, EndsOK
  <2>4. \/ Service!Call(c) \/ Service!Reply(c) \/ Service!Fail(c)
        \/ UNCHANGED <<calls, executed, result>>
    BY <1>3, <2>1, <2>2, <2>3, ClientRefines
  <2> QED BY <1>0, <2>4 DEF Service!Next
<1>4. CASE UNCHANGED vars
  BY <1>0, <1>4 DEF vars, pipeVars, clientVars, serverVars
<1> QED BY <1>1, <1>2, <1>3, <1>4 DEF Next, ServerNext

\* That a request was cut short is not forgotten.
LEMMA CutStays ==
  ASSUME cut \in BOOLEAN, cut, [Next]_vars
  PROVE  cut'
BY DEF Next, NoteCut, vars

\* Until a client dies between the length and the text of a request, the server
\* in its thread mode and its clients implement the service, whatever the lengths
\* of the requests, whatever the buffers still hold and whoever else dies when
\* (transport.c:487-552, 623-662).
THEOREM ThreadImplements == Spec => Implements
<1> DEFINE J == Inv /\ (~cut => ServiceInv)
<1>1. Init => J /\ Service!Init
  <2>1. Init => Service!Init
    BY DEF Init, PipeInit, Service!Init, Service!Outcome, Returned, CallerSees
  <2> QED BY <2>1, InitInv, ServiceInit
<1>c. ASSUME J, [Next]_vars, cut
      PROVE  cut'
  BY <1>c, CutStays DEF Inv, TypeOK
<1>2. J /\ [Next]_vars => J'
  BY <1>c, NextInv, ServiceNext
<1>3. J /\ [Next]_vars => [Service!Next \/ cut']_(Service!vars)
  BY <1>c, StepRefines
<1> QED BY <1>1, <1>2, <1>3, PTL DEF Spec, Implements
=============================================================================
