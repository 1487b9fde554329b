------------------------- MODULE PyClientPoolProofs -------------------------
(***************************************************************************)
(* Theorems about PyClientPool, for any number of threads, transports,     *)
(* calls and kills and any size of the pool: every transport of the shared *)
(* Python client has one owner, and the client implements RpcService.      *)
(*                                                                         *)
(* TransportsExclusive is not inductive alone: that a transport put back   *)
(* is not in the pool already rests on the thread having it alone, and     *)
(* that a new one is nobody's rests on the numbers above made being free.  *)
(*                                                                         *)
(* The second half is about what is said on a transport.  TalkOK gives the *)
(* contents of both streams and the place of the handler for every place   *)
(* of the thread that has it; a pooled one is quiet, one the client closed *)
(* is at rest, and what the application leaves when it exits is at most    *)
(* one unexecuted request for each of its threads.                         *)
(***************************************************************************)
EXTENDS PyClientPool, TLAPS

\* A transport is in the pool at most once, and open.
PoolOK ==
  \A i \in 1..Len(pool) :
    /\ sock[pool[i]] = "open"
    /\ \A j \in 1..Len(pool) : pool[i] = pool[j] => i = j

\* A thread's transport is open, not in the pool and no other thread's.
HeldOK ==
  \A t \in Threads : tpc[t] \in Holding =>
    /\ held[t] \in Transports
    /\ sock[held[t]] = "open"
    /\ \A i \in 1..Len(pool) : pool[i] # held[t]
    /\ \A u \in Threads : tpc[u] \in Holding /\ held[u] = held[t] => u = t

\* An open transport has an owner.
OpenOK ==
  \A s \in Transports : sock[s] = "open" =>
    \/ \E i \in 1..Len(pool) : pool[i] = s
    \/ \E t \in Threads : tpc[t] \in Holding /\ held[t] = s

\* The transports not yet made are not open.
MadeOK == \A s \in Transports : s > made => sock[s] # "open"

OwnerInv == PoolOK /\ HeldOK /\ OpenOK /\ MadeOK

\* A handler that is past its second recvall has a request.
ReqOK ==
  \A s \in Transports :
    hpc[s] \in {"call", "resp_header", "resp"} => hreq[s] \in Requests

Inv == TypeOK /\ ReqOK /\ OwnerInv

-----------------------------------------------------------------------------
(* Sequences.                                                              *)

\* What Append does to a sequence.
LEMMA AppendFacts ==
  ASSUME NEW S, NEW s \in Seq(S), NEW x \in S
  PROVE  /\ Append(s, x) \in Seq(S)
         /\ Len(s) \in Nat
         /\ Len(Append(s, x)) = Len(s) + 1
         /\ \A i \in 1..Len(s) : Append(s, x)[i] = s[i]
         /\ Append(s, x)[Len(s) + 1] = x
  OBVIOUS

\* What Head and Tail are of a sequence that is not empty.
LEMMA TailFacts ==
  ASSUME NEW S, NEW s \in Seq(S), s # <<>>
  PROVE  /\ Head(s) \in S
         /\ Head(s) = s[1]
         /\ Len(s) \in Nat \ {0}
         /\ Tail(s) \in Seq(S)
         /\ Len(Tail(s)) = Len(s) - 1
         /\ \A i \in 1..Len(Tail(s)) : Tail(s)[i] = s[i + 1]
  OBVIOUS

\* A stream keeps its type when a unit is written to it or read from it.
LEMMA StreamTypes ==
  ASSUME NEW st \in [Transports -> Seq(Units)], NEW s \in Transports
  PROVE  /\ \A part \in {"header", "body"}, r \in Requests :
              [st EXCEPT ![s] = Append(@, [part |-> part, req |-> r])]
                \in [Transports -> Seq(Units)]
         /\ st[s] # <<>> => /\ [st EXCEPT ![s] = Tail(@)] \in [Transports -> Seq(Units)]
                            /\ Head(st[s]).req \in Requests
<1>1. ASSUME NEW part \in {"header", "body"}, NEW r \in Requests
      PROVE  [st EXCEPT ![s] = Append(@, [part |-> part, req |-> r])]
               \in [Transports -> Seq(Units)]
  <2>1. [part |-> part, req |-> r] \in Units
    BY <1>1 DEF Units
  <2> QED BY <2>1, AppendFacts
<1>2. ASSUME st[s] # <<>>
      PROVE  /\ [st EXCEPT ![s] = Tail(@)] \in [Transports -> Seq(Units)]
             /\ Head(st[s]).req \in Requests
  <2>1. Tail(st[s]) \in Seq(Units) /\ Head(st[s]) \in Units
    BY <1>2, TailFacts
  <2> QED BY <2>1 DEF Units
<1> QED BY <1>1, <1>2

\* The outcomes a call can have.
LEMMA OutcomeTypes ==
  \A k \in {"none", "pending", "read", "reply", "failed"}, r \in Requests \cup {NoRequest} :
    Outcome(k, r) \in Outcomes
BY DEF Outcome, Outcomes

-----------------------------------------------------------------------------
(* Who owns a transport.  Only a thread's steps and AppExits move one.     *)

\* The server's steps leave the client alone.
LEMMA ServerOwner ==
  ASSUME OwnerInv, UNCHANGED clientVars
  PROVE  OwnerInv'
BY DEF OwnerInv, PoolOK, HeldOK, OpenOK, MadeOK, clientVars

\* Nor does a step of a thread that keeps its transport and stays in Holding.
LEMMA KeepOwner ==
  ASSUME OwnerInv, TypeOK, NEW t \in Threads, NEW pc \in Holding,
         tpc[t] \in Holding, tpc' = [tpc EXCEPT ![t] = pc],
         UNCHANGED <<pool, held, made, sock>>
  PROVE  OwnerInv'
<1>1. \A u \in Threads : tpc'[u] \in Holding <=> tpc[u] \in Holding
  BY DEF TypeOK
<1> QED BY <1>1 DEF OwnerInv, PoolOK, HeldOK, OpenOK, MadeOK

\* A thread that has nothing moves between states in which it has nothing.
LEMMA IdleOwner ==
  ASSUME OwnerInv, TypeOK, NEW t \in Threads, NEW pc \in {"idle", "connect"},
         tpc[t] \notin Holding, tpc' = [tpc EXCEPT ![t] = pc],
         \A u \in Threads : tpc[u] \in Holding => held'[u] = held[u],
         UNCHANGED <<pool, made, sock>>
  PROVE  OwnerInv'
<1>1. \A u \in Threads : tpc'[u] \in Holding <=> tpc[u] \in Holding
  BY DEF TypeOK, Holding
<1> QED BY <1>1 DEF OwnerInv, PoolOK, HeldOK, OpenOK, MadeOK

\* The head of the queue becomes the thread's transport.
LEMMA TakeOwner ==
  ASSUME OwnerInv, TypeOK, NEW t \in Threads, tpc[t] \notin Holding,
         pool # <<>>, pool' = Tail(pool),
         held' = [held EXCEPT ![t] = Head(pool)],
         tpc' = [tpc EXCEPT ![t] = "header"],
         UNCHANGED <<made, sock>>
  PROVE  OwnerInv'
<1> DEFINE s == Head(pool)
<1>1. /\ s \in Transports /\ s = pool[1] /\ Len(pool) \in Nat \ {0}
      /\ Len(pool') = Len(pool) - 1
      /\ \A i \in 1..Len(pool') : pool'[i] = pool[i + 1]
  BY TailFacts DEF TypeOK
<1>2. \A i \in 1..Len(pool') : i + 1 \in 1..Len(pool) /\ pool'[i] # s
  BY <1>1 DEF OwnerInv, PoolOK
<1>3. \A u \in Threads : u # t => tpc'[u] = tpc[u] /\ held'[u] = held[u]
  BY DEF TypeOK
<1>4. tpc'[t] = "header" /\ held'[t] = s /\ "header" \in Holding
  BY DEF TypeOK, Holding, ThreadStates
<1> HIDE DEF s
<1>5. PoolOK'
  <2> SUFFICES ASSUME NEW i \in 1..Len(pool')
               PROVE  /\ sock[pool'[i]] = "open"
                      /\ \A j \in 1..Len(pool') : pool'[i] = pool'[j] => i = j
    BY DEF PoolOK
  <2> QED BY <1>1, <1>2 DEF OwnerInv, PoolOK
<1>6. HeldOK'
  <2> SUFFICES ASSUME NEW u \in Threads, tpc'[u] \in Holding
               PROVE  /\ held'[u] \in Transports
                      /\ sock[held'[u]] = "open"
                      /\ \A i \in 1..Len(pool') : pool'[i] # held'[u]
                      /\ \A v \in Threads : tpc'[v] \in Holding /\ held'[v] = held'[u] => v = u
    BY DEF HeldOK
  <2>1. CASE u = t
    BY <2>1, <1>1, <1>2, <1>3, <1>4 DEF OwnerInv, HeldOK, PoolOK
  <2>2. CASE u # t
    BY <2>2, <1>1, <1>2, <1>3, <1>4 DEF OwnerInv, HeldOK
  <2> QED BY <2>1, <2>2
<1>7. OpenOK'
  <2> SUFFICES ASSUME NEW q \in Transports, sock[q] = "open"
               PROVE  \/ \E i \in 1..Len(pool') : pool'[i] = q
                      \/ \E u \in Threads : tpc'[u] \in Holding /\ held'[u] = q
    BY DEF OpenOK
  <2>1. CASE \E i \in 1..Len(pool) : pool[i] = q
    <3> PICK i \in 1..Len(pool) : pool[i] = q
      BY <2>1
    <3>1. CASE i = 1
      BY <3>1, <1>1, <1>4
    <3>2. CASE i # 1
      <4>1. i - 1 \in 1..Len(pool') /\ pool'[i - 1] = q
        BY <3>2, <1>1
      <4> QED BY <4>1
    <3> QED BY <3>1, <3>2
  <2>2. CASE \E u \in Threads : tpc[u] \in Holding /\ held[u] = q
    BY <2>2, <1>3
  <2> QED BY <2>1, <2>2 DEF OwnerInv, OpenOK
<1>8. MadeOK'
  BY DEF OwnerInv, MadeOK
<1> QED BY <1>5, <1>6, <1>7, <1>8 DEF OwnerInv

\* A new transport becomes the thread's.
LEMMA MakeOwner ==
  ASSUME OwnerInv, TypeOK, NEW t \in Threads, tpc[t] \notin Holding,
         made < MaxTransports, made' = made + 1,
         sock' = [sock EXCEPT ![made + 1] = "open"],
         held' = [held EXCEPT ![t] = made + 1],
         tpc' = [tpc EXCEPT ![t] = "header"],
         UNCHANGED pool
  PROVE  OwnerInv'
<1> DEFINE s == made + 1
<1>1. s \in Transports /\ sock[s] # "open" /\ made \in Nat
  BY PoolAssumption DEF TypeOK, Transports, OwnerInv, MadeOK
<1>2. \A q \in Transports : sock'[q] = IF q = s THEN "open" ELSE sock[q]
  BY DEF TypeOK
<1>3. \A u \in Threads : u # t => tpc'[u] = tpc[u] /\ held'[u] = held[u]
  BY DEF TypeOK
<1>4. tpc'[t] = "header" /\ held'[t] = s /\ "header" \in Holding
  BY DEF TypeOK, Holding, ThreadStates
<1>5. \A i \in 1..Len(pool) : pool[i] \in Transports /\ pool[i] # s
  BY <1>1 DEF OwnerInv, PoolOK, TypeOK
<1>6. MadeOK'
  BY <1>1, <1>2 DEF OwnerInv, MadeOK, Transports
<1> HIDE DEF s
<1>7. PoolOK'
  BY <1>2, <1>5 DEF OwnerInv, PoolOK
<1>8. HeldOK'
  BY <1>1, <1>2, <1>3, <1>4, <1>5 DEF OwnerInv, HeldOK
<1>9. OpenOK'
  BY <1>2, <1>3, <1>4 DEF OwnerInv, OpenOK
<1> QED BY <1>6, <1>7, <1>8, <1>9 DEF OwnerInv

\* The thread closes its transport.
LEMMA CloseOwner ==
  ASSUME OwnerInv, TypeOK, NEW t \in Threads, tpc[t] \in Holding,
         sock' = [sock EXCEPT ![held[t]] = "closed"],
         held' = [held EXCEPT ![t] = None],
         tpc' = [tpc EXCEPT ![t] = "idle"],
         UNCHANGED <<pool, made>>
  PROVE  OwnerInv'
<1>1. \A q \in Transports : sock'[q] = IF q = held[t] THEN "closed" ELSE sock[q]
  BY DEF TypeOK
<1>2. \A u \in Threads : u # t => tpc'[u] = tpc[u] /\ held'[u] = held[u]
  BY DEF TypeOK
<1>3. tpc'[t] \notin Holding
  BY DEF TypeOK, Holding
<1>4. \A i \in 1..Len(pool) : pool[i] \in Transports /\ pool[i] # held[t]
  BY DEF OwnerInv, HeldOK, TypeOK
<1>5. PoolOK'
  BY <1>1, <1>4 DEF OwnerInv, PoolOK
<1>6. HeldOK'
  BY <1>1, <1>2, <1>3, <1>4 DEF OwnerInv, HeldOK
<1>7. OpenOK'
  BY <1>1, <1>2 DEF OwnerInv, OpenOK
<1>8. MadeOK'
  BY <1>1 DEF OwnerInv, MadeOK
<1> QED BY <1>5, <1>6, <1>7, <1>8 DEF OwnerInv

\* The thread puts its transport into the queue.
LEMMA PutOwner ==
  ASSUME OwnerInv, TypeOK, NEW t \in Threads, tpc[t] \in Holding,
         pool' = Append(pool, held[t]),
         held' = [held EXCEPT ![t] = None],
         tpc' = [tpc EXCEPT ![t] = "idle"],
         UNCHANGED <<sock, made>>
  PROVE  OwnerInv'
<1>1. /\ held[t] \in Transports /\ sock[held[t]] = "open"
      /\ \A i \in 1..Len(pool) : pool[i] # held[t]
  BY DEF OwnerInv, HeldOK
<1>2. /\ Len(pool) \in Nat /\ Len(pool') = Len(pool) + 1
      /\ \A i \in 1..Len(pool) : pool'[i] = pool[i]
      /\ pool'[Len(pool) + 1] = held[t]
  BY <1>1, AppendFacts DEF TypeOK
<1>3. \A u \in Threads : u # t => tpc'[u] = tpc[u] /\ held'[u] = held[u]
  BY DEF TypeOK
<1>4. tpc'[t] \notin Holding
  BY DEF TypeOK, Holding
<1>i. \A i \in 1..Len(pool') : i \in 1..Len(pool) \/ i = Len(pool) + 1
  BY <1>2
<1>5. PoolOK'
  BY <1>1, <1>2, <1>i DEF OwnerInv, PoolOK
<1>6. HeldOK'
  BY <1>1, <1>2, <1>3, <1>4, <1>i DEF OwnerInv, HeldOK
<1>7. OpenOK'
  <2> SUFFICES ASSUME NEW q \in Transports, sock[q] = "open"
               PROVE  \/ \E i \in 1..Len(pool') : pool'[i] = q
                      \/ \E u \in Threads : tpc'[u] \in Holding /\ held'[u] = q
    BY DEF OpenOK
  <2>1. CASE \E i \in 1..Len(pool) : pool[i] = q
    <3> PICK i \in 1..Len(pool) : pool[i] = q
      BY <2>1
    <3>1. i \in 1..Len(pool') /\ pool'[i] = q
      BY <1>2
    <3> QED BY <3>1
  <2>2. CASE q = held[t]
    <3>1. Len(pool) + 1 \in 1..Len(pool')
      BY <1>2
    <3> QED BY <3>1, <2>2, <1>2
  <2>3. CASE \E u \in Threads : u # t /\ tpc[u] \in Holding /\ held[u] = q
    BY <2>3, <1>3
  <2> QED BY <2>1, <2>2, <2>3 DEF OwnerInv, OpenOK
<1>8. MadeOK'
  BY DEF OwnerInv, MadeOK
<1> QED BY <1>5, <1>6, <1>7, <1>8 DEF OwnerInv

\* The application ends: every socket is closed and nobody has one.
LEMMA ExitOwner ==
  ASSUME OwnerInv, TypeOK, AppExits
  PROVE  OwnerInv'
<1>1. \A q \in Transports : sock'[q] # "open"
  BY DEF AppExits, TypeOK
<1>2. \A u \in Threads : tpc'[u] \notin Holding
  BY DEF AppExits, Holding
<1>3. pool' = <<>>
  BY DEF AppExits
<1> QED BY <1>1, <1>2, <1>3 DEF OwnerInv, PoolOK, HeldOK, OpenOK, MadeOK

-----------------------------------------------------------------------------
(* One lemma for the steps of a thread, one for those of the server.       *)

\* Every step of a thread of the application preserves the invariant.
LEMMA ThreadStep ==
  ASSUME Inv, NEW t \in Threads,
         get_transport_Pooled(t) \/ get_transport_Empty(t) \/ call_remote_func_sync(t)
  PROVE  Inv'
<1> USE OutcomeTypes DEF streamVars, serverVars
<1>r. /\ \A pc \in {"header", "body", "resp_header", "resp", "return"} : pc \in Holding
      /\ \A pc \in {"idle", "connect"} : pc \notin Holding /\ pc \in ThreadStates
      /\ Holding \subseteq ThreadStates
  BY DEF Holding, ThreadStates
<1>c. /\ calls[t] \in Nat /\ Current(t) \in Requests
      /\ result[t].req \in Requests \cup {NoRequest}
      /\ tpc[t] \in Holding => held[t] \in Transports
      /\ Outcome("pending", NoRequest) \in Outcomes /\ Outcome("failed", NoRequest) \in Outcomes
  BY DEF Inv, TypeOK, Current, Requests, Outcomes, OwnerInv, HeldOK
<1>1. CASE get_transport_Pooled(t)
  <2> USE <1>1 DEF get_transport_Pooled, Begin
  <2>1. Head(pool) \in Transports /\ Tail(pool) \in Seq(Transports) /\ Len(Tail(pool)) <= PoolSize
    BY TailFacts, PoolAssumption DEF Inv, TypeOK
  <2>2. TypeOK'
    <3>1. pool' \in Seq(Transports) /\ Len(pool') <= PoolSize
      BY <2>1
    <3>2. held' \in [Threads -> Transports \cup {None}] /\ tpc' \in [Threads -> ThreadStates]
      BY <2>1, <1>r DEF Inv, TypeOK
    <3>3. calls' \in [Threads -> Nat] /\ result' \in [Threads -> Outcomes]
      BY <1>c DEF Inv, TypeOK
    <3> QED BY <3>1, <3>2, <3>3 DEF Inv, TypeOK
  <2>3. OwnerInv'
    BY <1>r, TakeOwner DEF Inv
  <2> QED BY <2>2, <2>3 DEF Inv, ReqOK
<1>2. CASE get_transport_Empty(t)
  <2> USE <1>2 DEF get_transport_Empty, Begin
  <2>1. TypeOK'
    BY <1>r, <1>c DEF Inv, TypeOK
  <2>2. OwnerInv'
    BY <1>r, IdleOwner DEF Inv
  <2> QED BY <2>1, <2>2 DEF Inv, ReqOK
<1>3. CASE create_transport(t)
  <2> USE <1>3 DEF create_transport
  <2>1. made + 1 \in Transports /\ made + 1 \in 0..MaxTransports
    BY PoolAssumption DEF Inv, TypeOK, Transports
  <2>2. Append(backlog, made + 1) \in Seq(Transports)
    BY <2>1, AppendFacts DEF Inv, TypeOK
  <2>3. TypeOK'
    BY <2>1, <2>2, <1>r DEF Inv, TypeOK
  <2>4. OwnerInv'
    BY <1>r, MakeOwner DEF Inv
  <2> QED BY <2>3, <2>4 DEF Inv, ReqOK
<1>4. CASE create_transport_Refused(t)
  <2> USE <1>4 DEF create_transport_Refused, End
  <2>1. TypeOK'
    BY <1>r, <1>c DEF Inv, TypeOK
  <2>2. tpc[t] \notin Holding /\ \A u \in Threads : tpc[u] \in Holding => held'[u] = held[u]
    BY <1>r DEF Inv, TypeOK
  <2>3. OwnerInv'
    BY <2>2, IdleOwner DEF Inv
  <2> QED BY <2>1, <2>3 DEF Inv, ReqOK
<1>5. ASSUME NEW part \in {"header", "body"}, NEW next \in {"body", "resp_header"},
             send_Write(t, part, next)
      PROVE  Inv'
  <2> USE <1>5 DEF send_Write
  <2>1. c2s' \in [Transports -> Seq(Units)]
    BY <1>r, <1>c, StreamTypes DEF Inv, TypeOK
  <2>2. TypeOK'
    BY <2>1, <1>r DEF Inv, TypeOK
  <2>3. OwnerInv'
    BY <1>r, KeepOwner DEF Inv
  <2> QED BY <2>2, <2>3 DEF Inv, ReqOK
<1>6. CASE send_RecvHeader(t)
  <2> USE <1>6 DEF send_RecvHeader
  <2>1. s2c' \in [Transports -> Seq(Units)]
    BY <1>r, <1>c, StreamTypes DEF Inv, TypeOK
  <2>2. TypeOK'
    BY <2>1, <1>r DEF Inv, TypeOK
  <2>3. OwnerInv'
    BY <1>r, KeepOwner DEF Inv
  <2> QED BY <2>2, <2>3 DEF Inv, ReqOK
<1>7. CASE send_RecvResp(t)
  <2> USE <1>7 DEF send_RecvResp
  <2>1. s2c' \in [Transports -> Seq(Units)] /\ Head(s2c[held[t]]).req \in Requests
    BY <1>r, <1>c, StreamTypes DEF Inv, TypeOK
  <2>2. TypeOK'
    BY <2>1, <1>r DEF Inv, TypeOK
  <2>3. OwnerInv'
    BY <1>r, KeepOwner DEF Inv
  <2> QED BY <2>2, <2>3 DEF Inv, ReqOK
<1>8. CASE send_NetworkError(t)
  <2> USE <1>8 DEF send_NetworkError, ServerGone, End
  <2>1. TypeOK'
    BY <1>r, <1>c DEF Inv, TypeOK
  <2>2. OwnerInv'
    BY <1>r, CloseOwner DEF Inv
  <2> QED BY <2>1, <2>2 DEF Inv, ReqOK
<1>9. CASE return_transport_Put(t)
  <2> USE <1>9 DEF return_transport_Put, End
  <2>1. Append(pool, held[t]) \in Seq(Transports) /\ Len(Append(pool, held[t])) <= PoolSize
    BY <1>r, <1>c, AppendFacts, PoolAssumption DEF Inv, TypeOK
  <2>2. TypeOK'
    BY <2>1, <1>r, <1>c DEF Inv, TypeOK
  <2>3. OwnerInv'
    BY <1>r, PutOwner DEF Inv
  <2> QED BY <2>2, <2>3 DEF Inv, ReqOK
<1>10. CASE return_transport_Full(t)
  <2> USE <1>10 DEF return_transport_Full, End
  <2>1. TypeOK'
    BY <1>r, <1>c DEF Inv, TypeOK
  <2>2. OwnerInv'
    BY <1>r, CloseOwner DEF Inv
  <2> QED BY <2>1, <2>2 DEF Inv, ReqOK
<1> QED
  BY <1>1, <1>2, <1>3, <1>4, <1>5, <1>6, <1>7, <1>8, <1>9, <1>10
     DEF call_remote_func_sync, send_Header, send_Body

\* Every step of the server, its end and its start preserve the invariant.
LEMMA ServerStep ==
  ASSUME Inv,
         \/ accept_loop \/ Kill \/ start
         \/ \E s \in Transports : PipeHandlerThread(s)
  PROVE  Inv'
<1> SUFFICES TypeOK' /\ ReqOK'
  <2>1. UNCHANGED clientVars
    BY DEF accept_loop, Kill, start, PipeHandlerThread, run_RecvHeader, run_RecvBody,
           run_RecvEOF, run_Call, run_CallRaises, run_SendHeader, run_SendResp, run_Write,
           run_SendFails
  <2> QED BY <2>1, ServerOwner DEF Inv
<1> USE DEF clientVars, streamVars, serverVars
<1>r. \A pc \in {"none", "header", "body", "call", "resp_header", "resp", "ended"} :
        pc \in HandlerStates
  BY DEF HandlerStates
<1>1. CASE accept_loop
  <2>1. Head(backlog) \in Transports /\ Tail(backlog) \in Seq(Transports)
    BY <1>1, TailFacts DEF accept_loop, Inv, TypeOK
  <2>2. TypeOK'
    BY <1>1, <2>1, <1>r DEF accept_loop, Inv, TypeOK
  <2> QED BY <1>1, <2>1, <2>2 DEF accept_loop, Inv, TypeOK, ReqOK
<1>2. CASE Kill
  <2>1. TypeOK'
    <3>1. peer' \in [Transports -> {"none", "open", "closed"}]
      BY <1>2 DEF Kill, Inv, TypeOK
    <3>2. hpc' \in [Transports -> HandlerStates]
      BY <1>2, <1>r DEF Kill, Inv, TypeOK
    <3>3. backlog' \in Seq(Transports) /\ kills' \in Nat
      BY <1>2 DEF Kill, Inv, TypeOK
    <3>4. up' \in BOOLEAN
      BY <1>2, Zenon DEF Kill
    <3> QED BY <1>2, <3>1, <3>2, <3>3, <3>4 DEF Kill, Inv, TypeOK
  <2> QED BY <1>2, <2>1 DEF Kill, Inv, TypeOK, ReqOK
<1>3. CASE start
  BY <1>3 DEF start, Inv, TypeOK, ReqOK
<1>4. ASSUME NEW s \in Transports, PipeHandlerThread(s)
      PROVE  TypeOK' /\ ReqOK'
  <2>e. ASSUME Ends(s)
        PROVE  /\ hpc' \in [Transports -> HandlerStates]
               /\ peer' \in [Transports -> {"none", "open", "closed"}]
               /\ \A q \in Transports : hpc'[q] = hpc[q] \/ hpc'[q] = "ended"
    BY <2>e, <1>r DEF Ends, Inv, TypeOK
  <2>x. ASSUME hpc[s] = "call", Execute(s)
        PROVE  executed' \in [Threads -> Seq(Nat)]
    <3>1. hreq[s] \in Requests /\ hreq[s][1] \in Threads /\ hreq[s][2] \in Nat
      BY <2>x DEF Inv, ReqOK, Requests
    <3>2. Append(executed[hreq[s][1]], hreq[s][2]) \in Seq(Nat)
      BY <3>1, AppendFacts DEF Inv, TypeOK
    <3> QED BY <2>x, <3>1, <3>2 DEF Execute, Inv, TypeOK
  <2>1. CASE run_RecvHeader(s)
    <3>1. c2s' \in [Transports -> Seq(Units)]
      BY <2>1, StreamTypes DEF run_RecvHeader, Inv, TypeOK
    <3>2. TypeOK'
      BY <2>1, <3>1, <1>r DEF run_RecvHeader, Inv, TypeOK
    <3> QED BY <2>1, <3>2 DEF run_RecvHeader, Inv, TypeOK, ReqOK
  <2>2. CASE run_RecvBody(s)
    <3>1. c2s' \in [Transports -> Seq(Units)] /\ Head(c2s[s]).req \in Requests
      BY <2>2, StreamTypes DEF run_RecvBody, Inv, TypeOK
    <3>2. TypeOK'
      BY <2>2, <3>1, <1>r DEF run_RecvBody, Inv, TypeOK
    <3> QED BY <2>2, <3>1, <3>2 DEF run_RecvBody, Inv, TypeOK, ReqOK
  <2>3. CASE run_RecvEOF(s) \/ run_SendFails(s)
    <3>1. TypeOK'
      BY <2>3, <2>e DEF run_RecvEOF, run_SendFails, Inv, TypeOK
    <3> QED BY <2>3, <2>e, <3>1 DEF run_RecvEOF, run_SendFails, Inv, ReqOK
  <2>4. CASE run_Call(s)
    <3>1. TypeOK'
      BY <2>4, <2>x, <1>r DEF run_Call, Inv, TypeOK
    <3> QED BY <2>4, <3>1 DEF run_Call, Inv, TypeOK, ReqOK
  <2>5. CASE run_CallRaises(s)
    <3>1. TypeOK'
      BY <2>5, <2>x, <2>e DEF run_CallRaises, Inv, TypeOK
    <3> QED BY <2>5, <2>e, <3>1 DEF run_CallRaises, Inv, ReqOK
  <2>6. ASSUME NEW part \in {"header", "body"}, NEW pc \in {"resp_header", "resp"},
               NEW next \in {"resp", "header"}, run_Write(s, pc, part, next)
        PROVE  TypeOK' /\ ReqOK'
    <3>1. s2c' \in [Transports -> Seq(Units)]
      BY <2>6, StreamTypes DEF run_Write, Inv, TypeOK, ReqOK
    <3>2. TypeOK'
      BY <2>6, <3>1, <1>r DEF run_Write, Inv, TypeOK
    <3> QED BY <2>6, <3>2 DEF run_Write, Inv, TypeOK, ReqOK
  <2> QED
    BY <1>4, <2>1, <2>2, <2>3, <2>4, <2>5, <2>6
       DEF PipeHandlerThread, run_SendHeader, run_SendResp
<1> QED BY <1>1, <1>2, <1>3, <1>4

\* The end of the application preserves the invariant.
LEMMA ExitStep ==
  ASSUME Inv, AppExits
  PROVE  Inv'
<1>1. OwnerInv'
  BY ExitOwner DEF Inv
<1>2. TypeOK'
  <2>1. "gone" \in ThreadStates /\ <<>> \in Seq(Transports) /\ Len(<<>>) <= PoolSize
    BY PoolAssumption DEF ThreadStates
  <2> QED BY <2>1 DEF AppExits, Inv, TypeOK, streamVars, serverVars
<1> QED BY <1>1, <1>2 DEF AppExits, Inv, ReqOK, streamVars, serverVars

-----------------------------------------------------------------------------
(* The theorems.                                                           *)

\* The invariant holds at the start and every step preserves it.
LEMMA InvHolds == Spec => []Inv
<1>1. Init => Inv
  <2> SUFFICES ASSUME Init PROVE Inv
    OBVIOUS
  <2>1. TypeOK
    BY PoolAssumption, OutcomeTypes DEF Init, TypeOK, ThreadStates, HandlerStates
  <2> QED BY <2>1 DEF Init, Inv, ReqOK, OwnerInv, PoolOK, HeldOK, OpenOK, MadeOK, Holding
<1>2. Inv /\ [Next]_vars => Inv'
  <2> SUFFICES ASSUME Inv, [Next]_vars PROVE Inv'
    OBVIOUS
  <2>1. CASE UNCHANGED vars
    BY <2>1 DEF vars, clientVars, streamVars, serverVars, Inv, TypeOK, ReqOK, OwnerInv,
                PoolOK, HeldOK, OpenOK, MadeOK
  <2>2. CASE Next
    BY <2>2, ThreadStep, ServerStep, ExitStep DEF Next
  <2> QED BY <2>1, <2>2
<1> QED BY <1>1, <1>2, PTL DEF Spec

\* Every variable of the Python client and server keeps its type, and the pool
\* its bound, whatever the threads do and however often the server is killed
\* (pysearpc/named_pipe.py).
THEOREM TypeCorrect == Spec => []TypeOK
<1>1. Inv => TypeOK
  BY DEF Inv
<1> QED BY <1>1, InvHolds, PTL

\* A transport of the shared client has exactly one owner, a thread or the
\* pool, from connect to close: no two threads write into one socket, and no
\* socket leaks on the paths that raise (named_pipe.py:78-100).
THEOREM TransportsAreExclusive == Spec => []TransportsExclusive
<1>1. Inv => TransportsExclusive
  <2> SUFFICES ASSUME Inv PROVE TransportsExclusive
    OBVIOUS
  <2>1. DOMAIN pool = 1..Len(pool) /\ Len(pool) \in Nat
    BY DEF Inv, TypeOK
  <2>2. \A i \in 1..Len(pool) : pool[i] \in Transports
    BY DEF Inv, TypeOK
  <2> QED
    BY <2>1, <2>2 DEF TransportsExclusive, Pooled, Inv, OwnerInv, PoolOK, HeldOK, OpenOK
<1> QED BY <1>1, InvHolds, PTL

-----------------------------------------------------------------------------
(* The conversations on the transports.                                    *)

\* The contents of a stream: at most two units of one request.
One(x)    == <<x>>
Two(x, y) == <<x, y>>

Header(t) == [part |-> "header", req |-> Current(t)]
Body(t)   == [part |-> "body", req |-> Current(t)]

\* The last call of t is not executed yet; it is.
Unexecuted(t) == Service!LastExecuted(t) < calls[t]
Done(t)       == Service!LastExecuted(t) = calls[t]

\* The whole request of t is on s, on its way to its execution.
Sent(s, t) ==
  /\ Unexecuted(t)
  /\ \/ hpc[s] \in {"none", "header"} /\ c2s[s] = Two(Header(t), Body(t))
     \/ hpc[s] = "body" /\ c2s[s] = One(Body(t))
     \/ hpc[s] = "call" /\ c2s[s] = <<>> /\ hreq[s] = Current(t)

\* The handler of s is to write a part of the response to t.
Answering(s, t, pc) == hpc[s] = pc /\ hreq[s] = Current(t)

\* Nothing is in flight on s, and its handler is at the top of its loop.
QuietOK(s) ==
  /\ c2s[s] = <<>> /\ s2c[s] = <<>>
  /\ hpc[s] = "header" \/ peer[s] = "closed"

\* t is to send the header of its request on s.
AtHeader(s, t) ==
  /\ c2s[s] = <<>> /\ s2c[s] = <<>>
  /\ hpc[s] \in {"none", "header"} \/ peer[s] = "closed"
  /\ Unexecuted(t)

\* t has sent the header.
AtBody(s, t) ==
  /\ s2c[s] = <<>>
  /\ \/ peer[s] = "closed"
     \/ hpc[s] \in {"none", "header"} /\ c2s[s] = One(Header(t))
     \/ hpc[s] = "body" /\ c2s[s] = <<>>
  /\ Unexecuted(t)

\* t has sent the request.
AtRespHeader(s, t) ==
  \/ /\ s2c[s] = <<>>
     /\ \/ peer[s] = "closed" \/ hpc[s] = "ended" \/ Sent(s, t)
        \/ c2s[s] = <<>> /\ Done(t) /\ Answering(s, t, "resp_header")
  \/ /\ s2c[s] = One(Header(t)) /\ c2s[s] = <<>> /\ Done(t)
     /\ peer[s] = "closed" \/ Answering(s, t, "resp")
  \/ /\ s2c[s] = Two(Header(t), Body(t)) /\ c2s[s] = <<>> /\ Done(t)
     /\ peer[s] = "closed" \/ hpc[s] = "header"

\* t has read the header of the response.
AtResp(s, t) ==
  /\ c2s[s] = <<>> /\ Done(t)
  /\ \/ s2c[s] = <<>> /\ (peer[s] = "closed" \/ Answering(s, t, "resp"))
     \/ s2c[s] = One(Body(t)) /\ (peer[s] = "closed" \/ hpc[s] = "header")

\* t has read the response: the one to its own request.
AtReturn(s, t) ==
  QuietOK(s) /\ Done(t) /\ result[t] = Outcome("read", Current(t))

TalkOK(s, t, at) ==
  /\ at = "header" => AtHeader(s, t)
  /\ at = "body" => AtBody(s, t)
  /\ at = "resp_header" => AtRespHeader(s, t)
  /\ at = "resp" => AtResp(s, t)
  /\ at = "return" => AtReturn(s, t)

HeldTalk == \A t \in Threads : tpc[t] \in Holding => TalkOK(held[t], t, tpc[t])

PoolTalk == \A i \in 1..Len(pool) : QuietOK(pool[i])

AppGone == \E t \in Threads : tpc[t] = "gone"

\* A transport the client closed while the application runs is of no use to
\* its handler.
ClosedTalk ==
  \A s \in Transports : sock[s] = "closed" /\ peer[s] = "open" /\ ~AppGone =>
    c2s[s] = <<>> /\ hpc[s] \in {"header", "ended"}

\* What the application may leave on s when it exits; own says which thread
\* used which transport.
OrphanOK(s, own) ==
  \/ peer[s] # "open"
  \/ hpc[s] = "ended"
  \/ hpc[s] # "call" /\ c2s[s] = <<>>
  \/ hpc[s] \in {"none", "header"} /\ \E t \in Threads : c2s[s] = One(Header(t))
  \/ \E t \in Threads : own[t] = s /\ Sent(s, t)

OrphanTalk ==
  AppGone => /\ \A t \in Threads : tpc[t] = "gone"
             /\ \E own \in [Threads -> Transports \cup {None}] :
                  \A s \in Transports : OrphanOK(s, own)

\* What a thread has been told, and how far the server can have come.
CallOK(t) ==
  /\ Service!LastExecuted(t) <= calls[t]
  /\ tpc[t] = "idle" => result[t].kind \in {"none", "reply", "failed"}
  /\ tpc[t] = "connect" => Unexecuted(t)
  /\ tpc[t] \in {"connect", "header", "body", "resp_header", "resp"} =>
       result[t].kind = "pending"

CallsOK == \A t \in Threads : CallOK(t)

Serving == {"header", "body", "call", "resp_header", "resp"}

\* A handler that runs has its socket; a transport that waits to be accepted
\* has no handler, and one that was not made has nothing.
HandlerOK ==
  /\ \A s \in Transports : hpc[s] \in Serving => peer[s] = "open"
  /\ \A s \in Transports : sock[s] # "none" => peer[s] # "none"
  /\ \A s \in Transports : sock[s] = "none" =>
       hpc[s] = "none" /\ c2s[s] = <<>> /\ s2c[s] = <<>>
  /\ \A s \in Transports : s > made => sock[s] = "none"

\* A transport waits to be accepted once, and has no handler.
BacklogOK ==
  \A i \in 1..Len(backlog) :
    /\ peer[backlog[i]] = "open" /\ hpc[backlog[i]] = "none" /\ sock[backlog[i]] # "none"
    /\ \A j \in 1..Len(backlog) : backlog[i] = backlog[j] => i = j

\* A handler whose client is still there ended because it raised.
EndedOK ==
  \A s \in Transports : hpc[s] = "ended" /\ peer[s] = "open" /\ sock[s] = "open" =>
    hreq[s] \in Unserializable

TalkInv == /\ HeldTalk /\ PoolTalk /\ ClosedTalk /\ OrphanTalk
           /\ CallsOK /\ HandlerOK /\ BacklogOK /\ EndedOK

-----------------------------------------------------------------------------
(* What a conversation depends on.                                         *)

\* What a write and a read do to a stream of at most two units.
LEMMA ShortStreams ==
  ASSUME NEW x, NEW y
  PROVE  /\ Append(<<>>, x) = One(x)
         /\ Append(One(x), y) = Two(x, y)
         /\ One(x) # <<>> /\ Head(One(x)) = x /\ Tail(One(x)) = <<>>
         /\ Two(x, y) # <<>> /\ Head(Two(x, y)) = x /\ Tail(Two(x, y)) = One(y)
<1>1. Append(<<>>, x) = <<x>>
  OBVIOUS
<1>2. Append(<<x>>, y) = <<x, y>>
  <2> DEFINE s == Append(<<x>>, y)
  <2>1. <<x>> \in Seq({x, y}) /\ Len(<<x>>) = 1 /\ <<x>>[1] = x
    OBVIOUS
  <2>2. s \in Seq({x, y}) /\ Len(s) = 2 /\ s[1] = x /\ s[2] = y
    BY <2>1, AppendFacts
  <2> HIDE DEF s
  <2>3. <<x, y>> \in Seq({x, y}) /\ Len(<<x, y>>) = 2 /\ <<x, y>>[1] = x /\ <<x, y>>[2] = y
    OBVIOUS
  <2>4. s = <<x, y>>
    BY <2>2, <2>3
  <2> QED BY <2>4 DEF s
<1>3. <<x>> # <<>> /\ Head(<<x>>) = x
  OBVIOUS
<1>4. Tail(<<x>>) = <<>>
  OBVIOUS
<1>5. <<x, y>> # <<>> /\ Head(<<x, y>>) = x
  OBVIOUS
<1>6. Tail(<<x, y>>) = <<y>>
  OBVIOUS
<1> QED BY <1>1, <1>2, <1>3, <1>4, <1>5, <1>6, Zenon DEF One, Two

\* The streams of thread t's request and response.
LEMMA CallStreams ==
  ASSUME NEW t \in Threads
  PROVE  /\ Append(<<>>, Header(t)) = One(Header(t))
         /\ Append(<<>>, Body(t)) = One(Body(t))
         /\ Append(One(Header(t)), Body(t)) = Two(Header(t), Body(t))
         /\ One(Header(t)) # <<>> /\ Tail(One(Header(t))) = <<>>
         /\ One(Body(t)) # <<>> /\ Tail(One(Body(t))) = <<>>
         /\ Head(One(Body(t))) = Body(t)
         /\ Two(Header(t), Body(t)) # <<>>
         /\ Tail(Two(Header(t), Body(t))) = One(Body(t))
         /\ Body(t).req = Current(t)
         /\ Header(t) # Body(t)
<1>1. Body(t).req = Current(t) /\ Header(t) # Body(t)
  <2>1. Header(t).part = "header" /\ Body(t).part = "body"
    BY DEF Header, Body
  <2> QED BY <2>1 DEF Body
<1> QED BY <1>1, ShortStreams

\* The last executed call of a thread is a number.
LEMMA LastFacts ==
  ASSUME TypeOK, NEW t \in Threads
  PROVE  Service!LastExecuted(t) \in Nat /\ calls[t] \in Nat
BY DEF TypeOK, Service!LastExecuted

\* A step that neither begins nor executes a call of t keeps its request and
\* whether it was executed.
LEMMA SameCall ==
  ASSUME NEW t \in Threads, calls'[t] = calls[t], executed'[t] = executed[t]
  PROVE  /\ Current(t)' = Current(t)
         /\ Service!LastExecuted(t)' = Service!LastExecuted(t)
         /\ Unexecuted(t)' <=> Unexecuted(t)
         /\ Done(t)' <=> Done(t)
         /\ One(Header(t))' = One(Header(t))
         /\ One(Body(t))' = One(Body(t))
         /\ Two(Header(t), Body(t))' = Two(Header(t), Body(t))
<1>1. Current(t)' = Current(t)
  BY DEF Current
<1>2. Service!LastExecuted(t)' = Service!LastExecuted(t)
  BY DEF Service!LastExecuted
<1>3. Header(t)' = Header(t) /\ Body(t)' = Body(t)
  BY <1>1 DEF Header, Body
<1>4. One(Header(t))' = One(Header(t))
  BY <1>3 DEF One
<1>5. One(Body(t))' = One(Body(t))
  BY <1>3 DEF One
<1>6. Two(Header(t), Body(t))' = Two(Header(t), Body(t))
  BY <1>3 DEF Two
<1>7. (Unexecuted(t)' <=> Unexecuted(t)) /\ (Done(t)' <=> Done(t))
  BY <1>2 DEF Unexecuted, Done
<1> QED BY <1>1, <1>2, <1>4, <1>5, <1>6, <1>7

\* A conversation is between one thread and one transport.
LEMMA TalkLocal ==
  ASSUME NEW s \in Transports, NEW t \in Threads, NEW at,
         hpc'[s] = hpc[s], hreq'[s] = hreq[s], peer'[s] = peer[s],
         c2s'[s] = c2s[s], s2c'[s] = s2c[s],
         calls'[t] = calls[t], executed'[t] = executed[t], result'[t] = result[t],
         TalkOK(s, t, at)
  PROVE  TalkOK(s, t, at)'
<1>1. /\ Current(t)' = Current(t)
      /\ Unexecuted(t)' <=> Unexecuted(t)
      /\ Done(t)' <=> Done(t)
      /\ One(Header(t))' = One(Header(t))
      /\ One(Body(t))' = One(Body(t))
      /\ Two(Header(t), Body(t))' = Two(Header(t), Body(t))
  BY SameCall
<1>2. /\ Sent(s, t)' <=> Sent(s, t)
      /\ QuietOK(s)' <=> QuietOK(s)
  BY <1>1 DEF Sent, QuietOK
<1>3. \A pc : Answering(s, t, pc)' <=> Answering(s, t, pc)
  BY <1>1 DEF Answering
<1>4. AtHeader(s, t) => AtHeader(s, t)'
  BY <1>1 DEF AtHeader
<1>5. AtBody(s, t) => AtBody(s, t)'
  BY <1>1 DEF AtBody
<1>6. AtRespHeader(s, t) => AtRespHeader(s, t)'
  BY <1>1, <1>2, <1>3 DEF AtRespHeader
<1>7. AtResp(s, t) => AtResp(s, t)'
  BY <1>1, <1>3 DEF AtResp
<1>8. AtReturn(s, t) => AtReturn(s, t)'
  BY <1>1, <1>2 DEF AtReturn, Outcome
<1> QED BY <1>4, <1>5, <1>6, <1>7, <1>8 DEF TalkOK

\* The server may close its end at any time, and its handler may end with it.
LEMMA HangUp ==
  ASSUME NEW s \in Transports, NEW t \in Threads, NEW at,
         peer'[s] = "closed", c2s'[s] = c2s[s], s2c'[s] = s2c[s],
         calls'[t] = calls[t], executed'[t] = executed[t], result'[t] = result[t],
         TalkOK(s, t, at)
  PROVE  TalkOK(s, t, at)'
<1>1. /\ Current(t)' = Current(t)
      /\ Unexecuted(t)' <=> Unexecuted(t)
      /\ Done(t)' <=> Done(t)
      /\ One(Header(t))' = One(Header(t))
      /\ One(Body(t))' = One(Body(t))
      /\ Two(Header(t), Body(t))' = Two(Header(t), Body(t))
  BY SameCall
<1>4. AtHeader(s, t) => AtHeader(s, t)'
  BY <1>1 DEF AtHeader
<1>5. AtBody(s, t) => AtBody(s, t)'
  BY <1>1 DEF AtBody
<1>6. AtRespHeader(s, t) => AtRespHeader(s, t)'
  BY <1>1 DEF AtRespHeader
<1>7. AtResp(s, t) => AtResp(s, t)'
  BY <1>1 DEF AtResp
<1>8. AtReturn(s, t) => AtReturn(s, t)'
  BY <1>1 DEF AtReturn, QuietOK, Outcome
<1> QED BY <1>4, <1>5, <1>6, <1>7, <1>8 DEF TalkOK

-----------------------------------------------------------------------------
(* The steps of a handler.                                                 *)

\* What a handler's step leaves alone.
LEMMA HandlerEffect ==
  ASSUME TypeOK, NEW q \in Transports, PipeHandlerThread(q)
  PROVE  /\ UNCHANGED <<pool, tpc, held, calls, result, made, sock, up, kills, backlog, latest>>
         /\ \A s \in Transports : s # q =>
              /\ hpc'[s] = hpc[s] /\ hreq'[s] = hreq[s] /\ peer'[s] = peer[s]
              /\ c2s'[s] = c2s[s] /\ s2c'[s] = s2c[s]
<1> USE DEF TypeOK, clientVars, streamVars
<1>1. CASE run_RecvHeader(q)
  BY <1>1 DEF run_RecvHeader
<1>2. CASE run_RecvBody(q)
  BY <1>2 DEF run_RecvBody
<1>3. CASE run_RecvEOF(q) \/ run_SendFails(q)
  BY <1>3 DEF run_RecvEOF, run_SendFails, Ends
<1>4. CASE run_Call(q)
  BY <1>4 DEF run_Call
<1>5. CASE run_CallRaises(q)
  BY <1>5 DEF run_CallRaises, Ends
<1>6. CASE run_SendHeader(q)
  BY <1>6 DEF run_SendHeader, run_Write
<1>7. CASE run_SendResp(q)
  BY <1>7 DEF run_SendResp, run_Write
<1> QED BY <1>1, <1>2, <1>3, <1>4, <1>5, <1>6, <1>7 DEF PipeHandlerThread

\* A handler that takes a step serves its connection: its end is open.
LEMMA HandlerServes ==
  ASSUME TypeOK, HandlerOK, NEW q \in Transports, PipeHandlerThread(q)
  PROVE  hpc[q] \in Serving /\ peer[q] = "open" /\ sock[q] # "none"
<1>1. hpc[q] \in Serving
  BY DEF PipeHandlerThread, run_RecvHeader, run_RecvBody, run_RecvEOF, run_Call,
         run_CallRaises, run_SendHeader, run_SendResp, run_Write, run_SendFails, Serving
<1> QED BY <1>1 DEF HandlerOK, Serving

\* The handler of a transport that is quiet waits.
LEMMA QuietWaits ==
  ASSUME TypeOK, HandlerOK, NEW q \in Transports, sock[q] = "open", QuietOK(q)
  PROVE  ~PipeHandlerThread(q)
<1> SUFFICES ASSUME PipeHandlerThread(q) PROVE FALSE
  OBVIOUS
<1>1. hpc[q] = "header" /\ c2s[q] = <<>>
  BY HandlerServes DEF QuietOK
<1> QED BY <1>1
    DEF PipeHandlerThread, run_RecvHeader, run_RecvBody, run_RecvEOF, run_Call,
        run_CallRaises, run_SendHeader, run_SendResp, run_Write, run_SendFails

\* The request a handler is about to execute is the last one of a thread, that
\* waits for its response on this transport or is gone with the application.
LEMMA CallOwner ==
  ASSUME Inv, TalkInv, NEW q \in Transports, hpc[q] = "call"
  PROVE  \E t \in Threads :
           /\ Sent(q, t)
           /\ \/ tpc[t] = "resp_header" /\ held[t] = q
              \/ AppGone
<1>0. peer[q] = "open" /\ sock[q] \in {"open", "closed"}
  BY DEF Inv, TypeOK, TalkInv, HandlerOK, Serving
<1>1. CASE AppGone
  BY <1>0, <1>1 DEF TalkInv, OrphanTalk, OrphanOK
<1>2. CASE ~AppGone /\ sock[q] = "closed"
  BY <1>0, <1>2 DEF TalkInv, ClosedTalk
<1>3. CASE sock[q] = "open"
  <2>1. CASE \E i \in 1..Len(pool) : pool[i] = q
    BY <1>0, <2>1 DEF TalkInv, PoolTalk, QuietOK
  <2>2. CASE \E t \in Threads : tpc[t] \in Holding /\ held[t] = q
    <3> PICK t \in Threads : tpc[t] \in Holding /\ held[t] = q
      BY <2>2
    <3>1. TalkOK(q, t, tpc[t])
      BY DEF TalkInv, HeldTalk
    <3>2. tpc[t] = "resp_header" /\ AtRespHeader(q, t)
      BY <1>0, <3>1
      DEF TalkOK, Holding, ThreadStates, AtHeader, AtBody, AtResp, AtReturn, QuietOK, Answering
    <3>3. Sent(q, t)
      BY <1>0, <3>2 DEF AtRespHeader, Answering
    <3> QED BY <3>2, <3>3
  <2> QED BY <1>3, <2>1, <2>2 DEF Inv, OwnerInv, OpenOK
<1> QED BY <1>0, <1>1, <1>2, <1>3

\* Executing the request of t makes it the last one executed, and touches no
\* other thread's.
LEMMA ExecuteFacts ==
  ASSUME TypeOK, NEW q \in Transports, NEW t \in Threads, hreq[q] = Current(t),
         Execute(q), calls' = calls
  PROVE  /\ Done(t)'
         /\ \A u \in Threads : u # t => executed'[u] = executed[u]
         /\ executed' = [executed EXCEPT ![t] = Append(@, calls[t])]
<1>1. hreq[q][1] = t /\ hreq[q][2] = calls[t]
  BY DEF Current
<1>2. executed' = [executed EXCEPT ![t] = Append(@, calls[t])]
  BY <1>1 DEF Execute
<1>3. executed[t] \in Seq(Nat) /\ calls[t] \in Nat /\ executed \in [Threads -> Seq(Nat)]
  BY DEF TypeOK
<1>4. executed'[t] = Append(executed[t], calls[t])
  BY <1>2, <1>3
<1>5. /\ Len(executed[t]) \in Nat
      /\ Len(executed'[t]) = Len(executed[t]) + 1
      /\ executed'[t][Len(executed[t]) + 1] = calls[t]
  BY <1>3, <1>4, AppendFacts
<1>6. executed'[t] # <<>>
  <2>1. Len(<<>>) = 0
    OBVIOUS
  <2>2. Len(executed'[t]) # 0
    BY <1>5
  <2> QED BY <2>1, <2>2
<1>7. Done(t)'
  BY <1>5, <1>6 DEF Done, Service!LastExecuted
<1> QED BY <1>2, <1>3, <1>7

\* A handler's step leads the conversation of the thread that has its
\* transport from one legal state to another.
LEMMA HandlerTalk ==
  ASSUME Inv, TalkInv, NEW q \in Transports, PipeHandlerThread(q),
         NEW t \in Threads, NEW at, tpc[t] = at, tpc[t] \in Holding, held[t] = q
  PROVE  TalkOK(q, t, at)'
<1>t. /\ hpc \in [Transports -> HandlerStates]
      /\ hreq \in [Transports -> Requests \cup {NoRequest}]
      /\ peer \in [Transports -> {"none", "open", "closed"}]
      /\ c2s \in [Transports -> Seq(Units)]
      /\ s2c \in [Transports -> Seq(Units)]
      /\ TypeOK
  BY DEF Inv, TypeOK
<1>0. /\ peer[q] = "open" /\ sock[q] = "open"
      /\ calls' = calls /\ result' = result
      /\ TalkOK(q, t, at)
  <2>1. peer[q] = "open" /\ calls' = calls /\ result' = result
    BY <1>t, HandlerServes, HandlerEffect DEF TalkInv
  <2>2. sock[q] = "open"
    BY DEF Inv, OwnerInv, HeldOK
  <2> QED BY <2>1, <2>2 DEF TalkInv, HeldTalk
<1>c. ASSUME executed'[t] = executed[t]
      PROVE  /\ Current(t)' = Current(t)
             /\ Unexecuted(t)' <=> Unexecuted(t)
             /\ Done(t)' <=> Done(t)
             /\ One(Header(t))' = One(Header(t))
             /\ One(Body(t))' = One(Body(t))
             /\ Two(Header(t), Body(t))' = Two(Header(t), Body(t))
  BY <1>0, <1>c, SameCall
<1>1. CASE run_RecvHeader(q)
  <2>1. /\ hpc[q] = "header" /\ hpc'[q] = "body"
        /\ c2s[q] # <<>> /\ c2s'[q] = Tail(c2s[q])
        /\ s2c' = s2c /\ peer' = peer /\ executed' = executed
    BY <1>t, <1>1 DEF run_RecvHeader
  <2>2. CASE at = "body"
    <3>1. c2s[q] = One(Header(t)) /\ s2c[q] = <<>> /\ Unexecuted(t)
      BY <1>0, <2>1, <2>2 DEF TalkOK, AtBody
    <3>2. c2s'[q] = <<>>
      BY <2>1, <3>1, CallStreams
    <3> QED BY <1>c, <2>1, <2>2, <3>1, <3>2 DEF TalkOK, AtBody
  <2>3. CASE at = "resp_header"
    <3>1. c2s[q] = Two(Header(t), Body(t)) /\ s2c[q] = <<>> /\ Unexecuted(t)
      BY <1>0, <2>1, <2>3 DEF TalkOK, AtRespHeader, Sent, Answering
    <3>2. c2s'[q] = One(Body(t))
      BY <2>1, <3>1, CallStreams
    <3> QED BY <1>c, <2>1, <2>3, <3>1, <3>2 DEF TalkOK, AtRespHeader, Sent
  <2>4. at \notin {"header", "resp", "return"}
    BY <1>0, <2>1 DEF TalkOK, AtHeader, AtResp, AtReturn, QuietOK
  <2> QED BY <2>2, <2>3, <2>4 DEF Holding, ThreadStates
<1>2. CASE run_RecvBody(q)
  <2>1. /\ hpc[q] = "body" /\ hpc'[q] = "call"
        /\ c2s[q] # <<>> /\ c2s'[q] = Tail(c2s[q])
        /\ hreq'[q] = Head(c2s[q]).req
        /\ s2c' = s2c /\ peer' = peer /\ executed' = executed
    BY <1>t, <1>2 DEF run_RecvBody
  <2>2. at = "resp_header"
    BY <1>0, <2>1
    DEF TalkOK, AtHeader, AtBody, AtResp, AtReturn, QuietOK, Answering, Holding, ThreadStates
  <2>3. c2s[q] = One(Body(t)) /\ s2c[q] = <<>> /\ Unexecuted(t)
    BY <1>0, <2>1, <2>2 DEF TalkOK, AtRespHeader, Sent, Answering
  <2>4. c2s'[q] = <<>> /\ hreq'[q] = Current(t)
    BY <2>1, <2>3, CallStreams
  <2> QED BY <1>c, <2>1, <2>2, <2>3, <2>4 DEF TalkOK, AtRespHeader, Sent
<1>3. CASE run_RecvEOF(q) \/ run_SendFails(q)
  BY <1>0, <1>3 DEF run_RecvEOF, run_SendFails
<1>4. ASSUME hpc[q] = "call"
      PROVE  /\ at = "resp_header" /\ s2c[q] = <<>> /\ c2s[q] = <<>>
             /\ hreq[q] = Current(t) /\ Unexecuted(t)
  <2>1. at = "resp_header"
    BY <1>0, <1>4
    DEF TalkOK, AtHeader, AtBody, AtResp, AtReturn, QuietOK, Answering, Holding, ThreadStates
  <2> QED BY <1>0, <1>4, <2>1 DEF TalkOK, AtRespHeader, Sent, Answering
<1>5. CASE run_Call(q)
  <2>1. /\ hpc[q] = "call" /\ hpc'[q] = "resp_header" /\ Execute(q)
        /\ hreq' = hreq /\ c2s' = c2s /\ s2c' = s2c /\ peer' = peer
    BY <1>t, <1>5 DEF run_Call, streamVars
  <2>2. Done(t)'
    BY <1>0, <1>t, <1>4, <2>1, ExecuteFacts
  <2>3. Current(t)' = Current(t)
    BY <1>0 DEF Current
  <2> QED BY <1>4, <2>1, <2>2, <2>3 DEF TalkOK, AtRespHeader, Answering
<1>6. CASE run_CallRaises(q)
  <2>1. /\ hpc[q] = "call" /\ hpc'[q] = "ended" /\ s2c' = s2c
    BY <1>t, <1>6 DEF run_CallRaises, Ends
  <2> QED BY <1>4, <2>1 DEF TalkOK, AtRespHeader
<1>7. CASE run_SendHeader(q)
  <2>1. /\ hpc[q] = "resp_header" /\ hpc'[q] = "resp"
        /\ s2c'[q] = Append(s2c[q], [part |-> "header", req |-> hreq[q]])
        /\ hreq' = hreq /\ c2s' = c2s /\ peer' = peer /\ executed' = executed
    BY <1>t, <1>7 DEF run_SendHeader, run_Write
  <2>2. at = "resp_header"
    BY <1>0, <2>1
    DEF TalkOK, AtHeader, AtBody, AtResp, AtReturn, QuietOK, Answering, Holding, ThreadStates
  <2>3. s2c[q] = <<>> /\ c2s[q] = <<>> /\ Done(t) /\ hreq[q] = Current(t)
    BY <1>0, <2>1, <2>2 DEF TalkOK, AtRespHeader, Sent, Answering
  <2>4. [part |-> "header", req |-> hreq[q]] = Header(t)
    BY <2>3 DEF Header
  <2>5. s2c'[q] = One(Header(t))
    BY <2>1, <2>3, <2>4, CallStreams
  <2> QED BY <1>c, <2>1, <2>2, <2>3, <2>5 DEF TalkOK, AtRespHeader, Answering
<1>8. CASE run_SendResp(q)
  <2>1. /\ hpc[q] = "resp" /\ hpc'[q] = "header"
        /\ s2c'[q] = Append(s2c[q], [part |-> "body", req |-> hreq[q]])
        /\ c2s' = c2s /\ peer' = peer /\ executed' = executed
    BY <1>t, <1>8 DEF run_SendResp, run_Write
  <2>2. CASE at = "resp_header"
    <3>1. s2c[q] = One(Header(t)) /\ c2s[q] = <<>> /\ Done(t) /\ hreq[q] = Current(t)
      BY <1>0, <2>1, <2>2 DEF TalkOK, AtRespHeader, Sent, Answering
    <3>2. [part |-> "body", req |-> hreq[q]] = Body(t)
      BY <3>1 DEF Body
    <3>3. s2c'[q] = Two(Header(t), Body(t))
      BY <2>1, <3>1, <3>2, CallStreams
    <3> QED BY <1>c, <2>1, <2>2, <3>1, <3>3 DEF TalkOK, AtRespHeader
  <2>3. CASE at = "resp"
    <3>1. s2c[q] = <<>> /\ c2s[q] = <<>> /\ Done(t) /\ hreq[q] = Current(t)
      BY <1>0, <2>1, <2>3 DEF TalkOK, AtResp, Answering
    <3>2. [part |-> "body", req |-> hreq[q]] = Body(t)
      BY <3>1 DEF Body
    <3>3. s2c'[q] = One(Body(t))
      BY <2>1, <3>1, <3>2, CallStreams
    <3> QED BY <1>c, <2>1, <2>3, <3>1, <3>3 DEF TalkOK, AtResp
  <2>4. at \notin {"header", "body", "return"}
    BY <1>0, <2>1 DEF TalkOK, AtHeader, AtBody, AtReturn, QuietOK
  <2> QED BY <2>2, <2>3, <2>4 DEF Holding, ThreadStates
<1> QED
  BY <1>1, <1>2, <1>3, <1>5, <1>6, <1>7, <1>8 DEF PipeHandlerThread

\* A handler's step on a transport the application has left.
LEMMA HandlerOrphan ==
  ASSUME Inv, TalkInv, NEW q \in Transports, PipeHandlerThread(q),
         NEW own, OrphanOK(q, own)
  PROVE  OrphanOK(q, own)'
<1>t. /\ hpc \in [Transports -> HandlerStates]
      /\ hreq \in [Transports -> Requests \cup {NoRequest}]
      /\ c2s \in [Transports -> Seq(Units)]
      /\ TypeOK
  BY DEF Inv, TypeOK
<1>0. peer[q] = "open" /\ hpc[q] # "ended" /\ calls' = calls
  BY <1>t, HandlerServes, HandlerEffect DEF TalkInv, Serving
<1>1. CASE run_RecvHeader(q)
  <2>1. /\ hpc[q] = "header" /\ hpc'[q] = "body"
        /\ c2s[q] # <<>> /\ c2s'[q] = Tail(c2s[q]) /\ executed' = executed
    BY <1>t, <1>1 DEF run_RecvHeader
  <2>2. CASE \E t \in Threads : c2s[q] = One(Header(t))
    <3>1. c2s'[q] = <<>>
      BY <2>1, <2>2, CallStreams
    <3> QED BY <2>1, <3>1 DEF OrphanOK
  <2>3. CASE \E t \in Threads : own[t] = q /\ Sent(q, t)
    <3> PICK t \in Threads : own[t] = q /\ Sent(q, t)
      BY <2>3
    <3>1. c2s[q] = Two(Header(t), Body(t)) /\ Unexecuted(t)
      BY <2>1 DEF Sent
    <3>2. c2s'[q] = One(Body(t))
      BY <2>1, <3>1, CallStreams
    <3>3. One(Body(t))' = One(Body(t)) /\ (Unexecuted(t)' <=> Unexecuted(t))
      BY <1>0, <2>1, SameCall
    <3>4. Sent(q, t)'
      BY <2>1, <3>1, <3>2, <3>3 DEF Sent
    <3> QED BY <3>4 DEF OrphanOK
  <2> QED BY <1>0, <2>1, <2>2, <2>3 DEF OrphanOK
<1>2. CASE run_RecvBody(q)
  <2>1. /\ hpc[q] = "body" /\ hpc'[q] = "call"
        /\ c2s[q] # <<>> /\ c2s'[q] = Tail(c2s[q])
        /\ hreq'[q] = Head(c2s[q]).req /\ executed' = executed
    BY <1>t, <1>2 DEF run_RecvBody
  <2>2. PICK t \in Threads : own[t] = q /\ Sent(q, t)
    BY <1>0, <2>1 DEF OrphanOK
  <2>3. c2s[q] = One(Body(t)) /\ Unexecuted(t)
    BY <2>1, <2>2 DEF Sent
  <2>4. c2s'[q] = <<>> /\ hreq'[q] = Current(t)
    BY <2>1, <2>3, CallStreams
  <2>5. Current(t)' = Current(t) /\ (Unexecuted(t)' <=> Unexecuted(t))
    BY <1>0, <2>1, SameCall
  <2>6. Sent(q, t)'
    BY <2>1, <2>3, <2>4, <2>5 DEF Sent
  <2> QED BY <2>2, <2>6 DEF OrphanOK
<1>3. CASE run_RecvEOF(q) \/ run_SendFails(q) \/ run_CallRaises(q)
  <2>1. hpc'[q] = "ended"
    BY <1>t, <1>3 DEF run_RecvEOF, run_SendFails, run_CallRaises, Ends
  <2> QED BY <2>1 DEF OrphanOK
<1>4. CASE run_Call(q)
  <2>1. hpc[q] = "call" /\ hpc'[q] = "resp_header" /\ c2s' = c2s
    BY <1>t, <1>4 DEF run_Call, streamVars
  <2>2. c2s[q] = <<>>
    BY <1>0, <2>1 DEF OrphanOK, Sent
  <2> QED BY <2>1, <2>2 DEF OrphanOK
<1>5. CASE run_SendHeader(q) \/ run_SendResp(q)
  <2>1. /\ hpc[q] \in {"resp_header", "resp"} /\ hpc'[q] \in {"resp", "header"}
        /\ c2s' = c2s
    BY <1>t, <1>5 DEF run_SendHeader, run_SendResp, run_Write
  <2>2. c2s[q] = <<>>
    BY <1>0, <2>1 DEF OrphanOK, Sent
  <2> QED BY <2>1, <2>2 DEF OrphanOK
<1> QED BY <1>1, <1>2, <1>3, <1>4, <1>5 DEF PipeHandlerThread

\* What the application left on another transport does not change.
LEMMA OrphanLocal ==
  ASSUME NEW s \in Transports, NEW own, OrphanOK(s, own),
         hpc'[s] = hpc[s], hreq'[s] = hreq[s], peer'[s] = peer[s], c2s'[s] = c2s[s],
         calls' = calls,
         \A t \in Threads : own[t] = s => executed'[t] = executed[t]
  PROVE  OrphanOK(s, own)'
<1>1. CASE hpc[s] \in {"none", "header"} /\ \E t \in Threads : c2s[s] = One(Header(t))
  <2> PICK t \in Threads : c2s[s] = One(Header(t))
    BY <1>1
  <2>1. One(Header(t))' = One(Header(t))
    BY DEF One, Header, Current
  <2> QED BY <1>1, <2>1 DEF OrphanOK
<1>2. CASE \E t \in Threads : own[t] = s /\ Sent(s, t)
  <2> PICK u \in Threads : own[u] = s /\ Sent(s, u)
    BY <1>2
  <2>1. /\ Current(u)' = Current(u)
        /\ Unexecuted(u)' <=> Unexecuted(u)
        /\ One(Body(u))' = One(Body(u))
        /\ Two(Header(u), Body(u))' = Two(Header(u), Body(u))
    BY SameCall
  <2>2. Sent(s, u)'
    BY <2>1 DEF Sent
  <2> QED BY <2>2 DEF OrphanOK
<1> QED BY <1>1, <1>2 DEF OrphanOK

\* The steps of a handler that execute nothing, and the one that executes the
\* request of t, which no other conversation is about.
LEMMA HandlerExecutes ==
  ASSUME Inv, TalkInv, NEW q \in Transports, PipeHandlerThread(q)
  PROVE  \/ executed' = executed
         \/ \E t \in Threads :
              /\ Sent(q, t) /\ hpc[q] = "call" /\ hreq[q] = Current(t)
              /\ (tpc[t] = "resp_header" /\ held[t] = q) \/ AppGone
              /\ Done(t)'
              /\ \A u \in Threads : u # t => executed'[u] = executed[u]
              /\ executed' = [executed EXCEPT ![t] = Append(@, calls[t])]
<1>1. CASE run_Call(q) \/ run_CallRaises(q)
  <2>1. hpc[q] = "call" /\ Execute(q)
    BY <1>1 DEF run_Call, run_CallRaises
  <2>2. PICK t \in Threads :
          /\ Sent(q, t)
          /\ (tpc[t] = "resp_header" /\ held[t] = q) \/ AppGone
    BY <2>1, CallOwner
  <2>3. hreq[q] = Current(t)
    BY <2>1, <2>2 DEF Sent
  <2>4. TypeOK /\ calls' = calls
    BY HandlerEffect DEF Inv
  <2>5. /\ Done(t)'
        /\ \A u \in Threads : u # t => executed'[u] = executed[u]
        /\ executed' = [executed EXCEPT ![t] = Append(@, calls[t])]
    BY <2>1, <2>3, <2>4, ExecuteFacts
  <2> QED BY <2>1, <2>2, <2>3, <2>5
<1>2. CASE ~run_Call(q) /\ ~run_CallRaises(q)
  BY <1>2 DEF PipeHandlerThread, run_RecvHeader, run_RecvBody, run_RecvEOF,
              run_SendHeader, run_SendResp, run_Write, run_SendFails
<1> QED BY <1>1, <1>2

\* A handler's step keeps every conversation legal.
LEMMA HandlerTalkStep ==
  ASSUME Inv, TalkInv, NEW q \in Transports, PipeHandlerThread(q)
  PROVE  TalkInv'
<1>t. /\ hpc \in [Transports -> HandlerStates]
      /\ hreq \in [Transports -> Requests \cup {NoRequest}]
      /\ peer \in [Transports -> {"none", "open", "closed"}]
      /\ c2s \in [Transports -> Seq(Units)]
      /\ s2c \in [Transports -> Seq(Units)]
      /\ executed \in [Threads -> Seq(Nat)]
      /\ TypeOK /\ HandlerOK
  BY DEF Inv, TypeOK, TalkInv
<1>0. /\ UNCHANGED <<pool, tpc, held, calls, result, made, sock, up, kills, backlog, latest>>
      /\ \A s \in Transports : s # q =>
           /\ hpc'[s] = hpc[s] /\ hreq'[s] = hreq[s] /\ peer'[s] = peer[s]
           /\ c2s'[s] = c2s[s] /\ s2c'[s] = s2c[s]
  BY <1>t, HandlerEffect
<1>q. hpc[q] \in Serving /\ peer[q] = "open" /\ sock[q] # "none"
  BY <1>t, HandlerServes
<1>x. ASSUME NEW t \in Threads, tpc[t] \in Holding, held[t] # q
      PROVE  executed'[t] = executed[t]
  <2>1. ~(AppGone /\ tpc[t] # "gone")
    BY DEF TalkInv, OrphanTalk
  <2>2. ~AppGone
    BY <1>x, <2>1 DEF Holding
  <2> QED BY <1>x, <2>2, HandlerExecutes
<1>1. HeldTalk'
  <2> SUFFICES ASSUME NEW t \in Threads, tpc[t] \in Holding
               PROVE  TalkOK(held[t], t, tpc[t])'
    BY <1>0 DEF HeldTalk
  <2>0. PICK s \in Transports, at \in Holding : at = tpc[t] /\ s = held[t]
    BY DEF Inv, OwnerInv, HeldOK
  <2>1. TalkOK(s, t, at)'
    <3>1. CASE s = q
      BY <2>0, <3>1, HandlerTalk
    <3>2. CASE s # q
      <4>1. TalkOK(s, t, at)
        BY <2>0 DEF TalkInv, HeldTalk
      <4>2. executed'[t] = executed[t]
        BY <1>x, <2>0, <3>2
      <4> QED BY <1>0, <3>2, <4>1, <4>2, TalkLocal
    <3> QED BY <3>1, <3>2
  <2> QED BY <1>0, <2>0, <2>1
<1>2. PoolTalk'
  <2> SUFFICES ASSUME NEW i \in 1..Len(pool)
               PROVE  QuietOK(pool[i])'
    BY <1>0 DEF PoolTalk
  <2>0. PICK s \in Transports : s = pool[i]
    BY <1>t DEF TypeOK
  <2>1. QuietOK(s) /\ sock[s] = "open"
    BY <2>0 DEF TalkInv, PoolTalk, Inv, OwnerInv, PoolOK
  <2>2. s # q
    BY <1>t, <2>1, QuietWaits
  <2>3. QuietOK(s)'
    BY <1>0, <2>1, <2>2 DEF QuietOK
  <2> QED BY <1>0, <2>0, <2>3
<1>3. ClosedTalk'
  <2> SUFFICES ASSUME NEW s \in Transports, sock[s] = "closed", peer'[s] = "open", ~AppGone
               PROVE  c2s'[s] = <<>> /\ hpc'[s] \in {"header", "ended"}
    BY <1>0 DEF ClosedTalk, AppGone
  <2>1. CASE s # q
    BY <1>0, <2>1 DEF TalkInv, ClosedTalk
  <2>2. CASE s = q
    <3>1. c2s[q] = <<>> /\ hpc[q] = "header"
      BY <1>q, <2>2 DEF TalkInv, ClosedTalk, Serving
    <3>2. run_RecvEOF(q)
      BY <3>1 DEF PipeHandlerThread, run_RecvHeader, run_RecvBody, run_Call, run_CallRaises,
                  run_SendHeader, run_SendResp, run_Write, run_SendFails
    <3> QED BY <1>t, <2>2, <3>1, <3>2 DEF run_RecvEOF, Ends
  <2> QED BY <2>1, <2>2
<1>4. OrphanTalk'
  <2> SUFFICES ASSUME AppGone
               PROVE  /\ \A t \in Threads : tpc[t] = "gone"
                      /\ \E own \in [Threads -> Transports \cup {None}] :
                           \A s \in Transports : OrphanOK(s, own)'
    BY <1>0 DEF OrphanTalk, AppGone
  <2>1. PICK own \in [Threads -> Transports \cup {None}] :
               \A s \in Transports : OrphanOK(s, own)
    BY DEF TalkInv, OrphanTalk
  <2>2. ASSUME NEW t \in Threads, own[t] # q
        PROVE  executed'[t] = executed[t]
    <3> SUFFICES ASSUME executed' # executed
                 PROVE  executed'[t] = executed[t]
      OBVIOUS
    <3>1. PICK v \in Threads :
            /\ hpc[q] = "call" /\ hreq[q] = Current(v)
            /\ \A u \in Threads : u # v => executed'[u] = executed[u]
      BY HandlerExecutes
    <3>2. PICK w \in Threads : own[w] = q /\ Sent(q, w)
      BY <1>q, <2>1, <3>1 DEF OrphanOK
    <3>3. v = w
      BY <3>1, <3>2 DEF Sent, Current
    <3> QED BY <2>2, <3>1, <3>2, <3>3
  <2>3. ASSUME NEW s \in Transports
        PROVE  OrphanOK(s, own)'
    <3>1. CASE s = q
      BY <2>1, <3>1, HandlerOrphan
    <3>2. CASE s # q
      BY <1>0, <2>1, <2>2, <3>2, OrphanLocal
    <3> QED BY <3>1, <3>2
  <2> QED BY <2>3 DEF TalkInv, OrphanTalk
<1>5. CallsOK'
  <2> SUFFICES ASSUME NEW t \in Threads PROVE CallOK(t)'
    BY DEF CallsOK
  <2>0. CallOK(t) /\ calls'[t] = calls[t]
    BY <1>0 DEF TalkInv, CallsOK
  <2>1. CASE executed'[t] = executed[t]
    <3>1. /\ Service!LastExecuted(t)' = Service!LastExecuted(t)
          /\ Unexecuted(t)' <=> Unexecuted(t)
      BY <2>0, <2>1, SameCall
    <3> QED BY <1>0, <2>0, <3>1 DEF CallOK
  <2>2. CASE executed'[t] # executed[t]
    <3>1. Done(t)' /\ (tpc[t] = "resp_header" \/ AppGone)
      BY <2>2, HandlerExecutes
    <3>2. tpc[t] # "connect"
      BY <3>1 DEF TalkInv, OrphanTalk
    <3>3. (Service!LastExecuted(t) <= calls[t])'
      BY <1>0, <1>t, <3>1, LastFacts DEF Done
    <3> QED BY <1>0, <2>0, <3>2, <3>3 DEF CallOK
  <2> QED BY <2>1, <2>2
<1>6. HandlerOK' /\ BacklogOK'
  <2>1. /\ hpc'[q] \in Serving => peer'[q] = "open"
        /\ peer'[q] # "none"
    <3>1. CASE hpc'[q] = "ended"
      BY <1>t, <1>q, <3>1
      DEF PipeHandlerThread, run_RecvHeader, run_RecvBody, run_RecvEOF, run_Call,
          run_CallRaises, run_SendHeader, run_SendResp, run_Write, run_SendFails, Ends,
          Serving, streamVars
    <3>2. CASE hpc'[q] # "ended"
      BY <1>t, <1>q, <3>2
      DEF PipeHandlerThread, run_RecvHeader, run_RecvBody, run_RecvEOF, run_Call,
          run_CallRaises, run_SendHeader, run_SendResp, run_Write, run_SendFails, Ends,
          streamVars
    <3> QED BY <3>1, <3>2
  <2>2. HandlerOK'
    BY <1>0, <1>q, <1>t, <2>1 DEF HandlerOK
  <2>3. \A i \in 1..Len(backlog) : backlog[i] \in Transports /\ backlog[i] # q
    BY <1>q, <1>t DEF TalkInv, BacklogOK, TypeOK, Serving
  <2> QED BY <1>0, <2>2, <2>3 DEF TalkInv, BacklogOK
<1>7. EndedOK'
  <2> SUFFICES ASSUME hpc'[q] = "ended", sock[q] = "open"
               PROVE  hreq'[q] \in Unserializable
    BY <1>0 DEF TalkInv, EndedOK
  <2>1. run_CallRaises(q)
    BY <1>t DEF PipeHandlerThread, run_RecvHeader, run_RecvBody, run_RecvEOF, run_Call,
                run_SendHeader, run_SendResp, run_Write, run_SendFails
  <2> QED BY <2>1 DEF run_CallRaises
<1> QED BY <1>1, <1>2, <1>3, <1>4, <1>5, <1>6, <1>7 DEF TalkInv

-----------------------------------------------------------------------------
(* accept_loop, the end of the server and its start.                       *)

\* Accepting a connection starts its handler and may close the last one.
LEMMA AcceptTalkStep ==
  ASSUME Inv, TalkInv, accept_loop
  PROVE  TalkInv'
<1>t. /\ hpc \in [Transports -> HandlerStates]
      /\ peer \in [Transports -> {"none", "open", "closed"}]
      /\ backlog \in Seq(Transports)
      /\ TypeOK
  BY DEF Inv, TypeOK
<1>0. /\ UNCHANGED <<pool, tpc, held, calls, result, made, sock, c2s, s2c, hreq, executed>>
      /\ backlog # <<>>
      /\ backlog' = Tail(backlog)
      /\ hpc' = [hpc EXCEPT ![Head(backlog)] = "header"]
      /\ peer' = [s \in Transports |->
                    IF s = latest /\ hpc[s] = "ended" THEN "closed" ELSE peer[s]]
  BY DEF accept_loop, clientVars
<1>1. PICK q \in Transports : q = Head(backlog)
  BY <1>0, <1>t, TailFacts
<1>2. /\ q = backlog[1] /\ Len(backlog) \in Nat \ {0}
      /\ Len(backlog') = Len(backlog) - 1
      /\ \A i \in 1..Len(backlog') : backlog'[i] = backlog[i + 1]
  BY <1>0, <1>1, <1>t, TailFacts
<1>3. hpc[q] = "none" /\ peer[q] = "open" /\ sock[q] # "none"
  BY <1>2 DEF TalkInv, BacklogOK
<1>4. \A s \in Transports : hpc'[s] = IF s = q THEN "header" ELSE hpc[s]
  BY <1>0, <1>1, <1>t
<1>5. /\ peer'[q] = "open"
      /\ \A s \in Transports : \/ peer'[s] = peer[s]
                               \/ peer'[s] = "closed" /\ hpc[s] = "ended" /\ s # q
  BY <1>0, <1>3
<1>6. ASSUME NEW s \in Transports, NEW t \in Threads, NEW at, TalkOK(s, t, at)
      PROVE  TalkOK(s, t, at)'
  <2>1. CASE s = q
    <3>1. /\ Current(t)' = Current(t)
          /\ Unexecuted(t)' <=> Unexecuted(t)
          /\ Done(t)' <=> Done(t)
          /\ One(Header(t))' = One(Header(t))
          /\ One(Body(t))' = One(Body(t))
          /\ Two(Header(t), Body(t))' = Two(Header(t), Body(t))
      BY <1>0, SameCall
    <3>2. hpc'[s] = "header" /\ hpc[s] = "none" /\ peer[s] = "open"
      BY <1>3, <1>4, <2>1
    <3>3. AtHeader(s, t) => AtHeader(s, t)'
      BY <1>0, <3>1, <3>2 DEF AtHeader
    <3>4. AtBody(s, t) => AtBody(s, t)'
      BY <1>0, <3>1, <3>2 DEF AtBody
    <3>5. AtRespHeader(s, t) => AtRespHeader(s, t)'
      BY <1>0, <3>1, <3>2 DEF AtRespHeader, Sent, Answering
    <3>6. ~AtResp(s, t) /\ ~AtReturn(s, t)
      BY <3>2 DEF AtResp, AtReturn, QuietOK, Answering
    <3> QED BY <1>6, <3>3, <3>4, <3>5, <3>6 DEF TalkOK
  <2>2. CASE s # q /\ peer'[s] = peer[s]
    BY <1>0, <1>4, <1>6, <2>2, TalkLocal
  <2>3. CASE peer'[s] = "closed"
    BY <1>0, <1>6, <2>3, HangUp
  <2> QED BY <1>5, <2>1, <2>2, <2>3
<1>7. HeldTalk'
  <2> SUFFICES ASSUME NEW t \in Threads, tpc[t] \in Holding
               PROVE  TalkOK(held[t], t, tpc[t])'
    BY <1>0 DEF HeldTalk
  <2>0. PICK s \in Transports, at \in Holding : at = tpc[t] /\ s = held[t]
    BY DEF Inv, OwnerInv, HeldOK
  <2>1. TalkOK(s, t, at)'
    BY <1>6, <2>0 DEF TalkInv, HeldTalk
  <2> QED BY <1>0, <2>0, <2>1
<1>8. PoolTalk'
  <2> SUFFICES ASSUME NEW i \in 1..Len(pool)
               PROVE  QuietOK(pool[i])'
    BY <1>0 DEF PoolTalk
  <2>0. PICK s \in Transports : s = pool[i]
    BY <1>t DEF TypeOK
  <2>1. QuietOK(s)
    BY <2>0 DEF TalkInv, PoolTalk
  <2>2. QuietOK(s)'
    BY <1>0, <1>4, <1>5, <2>1 DEF QuietOK
  <2> QED BY <1>0, <2>0, <2>2
<1>9. ClosedTalk'
  BY <1>0, <1>3, <1>4, <1>5 DEF TalkInv, ClosedTalk, AppGone
<1>10. OrphanTalk'
  <2> SUFFICES ASSUME AppGone
               PROVE  /\ \A t \in Threads : tpc[t] = "gone"
                      /\ \E own \in [Threads -> Transports \cup {None}] :
                           \A s \in Transports : OrphanOK(s, own)'
    BY <1>0 DEF OrphanTalk, AppGone
  <2>1. PICK own \in [Threads -> Transports \cup {None}] :
               \A s \in Transports : OrphanOK(s, own)
    BY DEF TalkInv, OrphanTalk
  <2>2. ASSUME NEW s \in Transports
        PROVE  OrphanOK(s, own)'
    <3>1. CASE peer'[s] # "open"
      BY <3>1 DEF OrphanOK
    <3>2. CASE s # q /\ peer'[s] = peer[s]
      BY <1>0, <1>4, <2>1, <3>2, OrphanLocal
    <3>3. CASE s = q
      <4>1. \A t \in Threads : /\ Current(t)' = Current(t)
                               /\ Unexecuted(t)' <=> Unexecuted(t)
                               /\ One(Header(t))' = One(Header(t))
                               /\ Two(Header(t), Body(t))' = Two(Header(t), Body(t))
        BY <1>0, SameCall
      <4>2. \A t \in Threads : Sent(s, t) => Sent(s, t)'
        BY <1>0, <1>3, <1>4, <3>3, <4>1 DEF Sent
      <4>3. OrphanOK(s, own)
        BY <2>1
      <4> QED BY <1>0, <1>3, <1>4, <3>3, <4>1, <4>2, <4>3 DEF OrphanOK
    <3> QED BY <1>5, <3>1, <3>2, <3>3
  <2> QED BY <2>2 DEF TalkInv, OrphanTalk
<1>11. CallsOK'
  <2> SUFFICES ASSUME NEW t \in Threads PROVE CallOK(t)'
    BY DEF CallsOK
  <2>1. /\ Service!LastExecuted(t)' = Service!LastExecuted(t)
        /\ Unexecuted(t)' <=> Unexecuted(t)
    BY <1>0, SameCall
  <2> QED BY <1>0, <2>1 DEF TalkInv, CallsOK, CallOK
<1>12. HandlerOK'
  BY <1>0, <1>3, <1>4, <1>5 DEF TalkInv, HandlerOK, Serving
<1>13. BacklogOK'
  <2>1. ASSUME NEW i \in 1..Len(backlog')
        PROVE  /\ i + 1 \in 1..Len(backlog) /\ backlog[i + 1] \in Transports
               /\ backlog[i + 1] # q
    BY <1>2, <1>t DEF TalkInv, BacklogOK
  <2> QED BY <1>0, <1>2, <1>4, <1>5, <2>1 DEF TalkInv, BacklogOK
<1>14. EndedOK'
  BY <1>0, <1>4, <1>5 DEF TalkInv, EndedOK
<1> QED BY <1>7, <1>8, <1>9, <1>10, <1>11, <1>12, <1>13, <1>14 DEF TalkInv

\* After the server is killed every connection is closed.
LEMMA KillTalkStep ==
  ASSUME Inv, TalkInv, Kill
  PROVE  TalkInv'
<1>t. /\ hpc \in [Transports -> HandlerStates]
      /\ peer \in [Transports -> {"none", "open", "closed"}]
      /\ TypeOK
  BY DEF Inv, TypeOK
<1>0. /\ UNCHANGED <<pool, tpc, held, calls, result, made, sock, c2s, s2c, hreq, executed>>
      /\ backlog' = <<>>
      /\ \A s \in Transports : hpc'[s] = IF hpc[s] = "none" THEN "none" ELSE "ended"
      /\ \A s \in Transports : /\ peer'[s] # "open"
                               /\ peer[s] # "none" => peer'[s] = "closed"
  BY <1>t DEF Kill, clientVars
<1>1. HeldTalk'
  <2> SUFFICES ASSUME NEW t \in Threads, tpc[t] \in Holding
               PROVE  TalkOK(held[t], t, tpc[t])'
    BY <1>0 DEF HeldTalk
  <2>0. PICK s \in Transports, at \in Holding : at = tpc[t] /\ s = held[t]
    BY DEF Inv, OwnerInv, HeldOK
  <2>1. peer'[s] = "closed"
    BY <1>0, <2>0 DEF Inv, OwnerInv, HeldOK, TalkInv, HandlerOK
  <2>2. TalkOK(s, t, at)
    BY <2>0 DEF TalkInv, HeldTalk
  <2>3. TalkOK(s, t, at)'
    BY <1>0, <2>1, <2>2, HangUp
  <2> QED BY <1>0, <2>0, <2>3
<1>2. PoolTalk'
  <2> SUFFICES ASSUME NEW i \in 1..Len(pool)
               PROVE  QuietOK(pool[i])'
    BY <1>0 DEF PoolTalk
  <2>0. PICK s \in Transports : s = pool[i]
    BY <1>t DEF TypeOK
  <2>1. QuietOK(s) /\ peer'[s] = "closed"
    BY <1>0, <2>0 DEF Inv, OwnerInv, PoolOK, TalkInv, PoolTalk, HandlerOK
  <2>2. QuietOK(s)'
    BY <1>0, <2>1 DEF QuietOK
  <2> QED BY <1>0, <2>0, <2>2
<1>3. ClosedTalk'
  BY <1>0 DEF ClosedTalk
<1>4. OrphanTalk'
  <2> SUFFICES ASSUME AppGone
               PROVE  /\ \A t \in Threads : tpc[t] = "gone"
                      /\ \E own \in [Threads -> Transports \cup {None}] :
                           \A s \in Transports : OrphanOK(s, own)'
    BY <1>0 DEF OrphanTalk, AppGone
  <2>1. PICK own \in [Threads -> Transports \cup {None}] : TRUE
    BY DEF TalkInv, OrphanTalk
  <2>2. \A s \in Transports : OrphanOK(s, own)'
    BY <1>0 DEF OrphanOK
  <2> QED BY <2>2 DEF TalkInv, OrphanTalk
<1>5. CallsOK'
  <2> SUFFICES ASSUME NEW t \in Threads PROVE CallOK(t)'
    BY DEF CallsOK
  <2>1. /\ Service!LastExecuted(t)' = Service!LastExecuted(t)
        /\ Unexecuted(t)' <=> Unexecuted(t)
    BY <1>0, SameCall
  <2> QED BY <1>0, <2>1 DEF TalkInv, CallsOK, CallOK
<1>6. HandlerOK'
  <2>1. \A s \in Transports : hpc'[s] \notin Serving
    BY <1>0 DEF Serving
  <2> QED BY <1>0, <2>1 DEF TalkInv, HandlerOK
<1>7. BacklogOK'
  <2>1. 1..Len(backlog') = {}
    <3>1. Len(<<>>) = 0
      OBVIOUS
    <3> QED BY <1>0, <3>1
  <2> QED BY <2>1 DEF BacklogOK
<1>8. EndedOK'
  BY <1>0 DEF EndedOK
<1> QED BY <1>1, <1>2, <1>3, <1>4, <1>5, <1>6, <1>7, <1>8 DEF TalkInv

\* No conversation depends on whether a server runs.
LEMMA TalkStutter ==
  ASSUME Inv, TalkInv,
         UNCHANGED <<pool, tpc, held, calls, result, made, sock, peer, c2s, s2c,
                     backlog, hpc, hreq, executed>>
  PROVE  TalkInv'
<1>1. HeldTalk'
  <2> SUFFICES ASSUME NEW t \in Threads, tpc[t] \in Holding
               PROVE  TalkOK(held[t], t, tpc[t])'
    BY DEF HeldTalk
  <2>0. PICK s \in Transports, at \in Holding : at = tpc[t] /\ s = held[t]
    BY DEF Inv, OwnerInv, HeldOK
  <2>1. TalkOK(s, t, at)
    BY <2>0 DEF TalkInv, HeldTalk
  <2>2. TalkOK(s, t, at)'
    BY <2>1, TalkLocal
  <2> QED BY <2>0, <2>2
<1>2. PoolTalk' /\ ClosedTalk' /\ HandlerOK' /\ BacklogOK' /\ EndedOK'
  BY DEF TalkInv, PoolTalk, QuietOK, ClosedTalk, AppGone, HandlerOK, BacklogOK, EndedOK
<1>3. OrphanTalk'
  <2> SUFFICES ASSUME AppGone
               PROVE  /\ \A t \in Threads : tpc[t] = "gone"
                      /\ \E own \in [Threads -> Transports \cup {None}] :
                           \A s \in Transports : OrphanOK(s, own)'
    BY DEF OrphanTalk, AppGone
  <2>1. PICK own \in [Threads -> Transports \cup {None}] :
               \A s \in Transports : OrphanOK(s, own)
    BY DEF TalkInv, OrphanTalk
  <2>2. \A s \in Transports : OrphanOK(s, own)'
    BY <2>1, OrphanLocal
  <2> QED BY <2>2 DEF TalkInv, OrphanTalk
<1>4. CallsOK'
  <2> SUFFICES ASSUME NEW t \in Threads PROVE CallOK(t)'
    BY DEF CallsOK
  <2>1. /\ Service!LastExecuted(t)' = Service!LastExecuted(t)
        /\ Unexecuted(t)' <=> Unexecuted(t)
    BY SameCall
  <2> QED BY <2>1 DEF TalkInv, CallsOK, CallOK
<1> QED BY <1>1, <1>2, <1>3, <1>4 DEF TalkInv

-----------------------------------------------------------------------------
(* The steps of the application's threads, and its end.                    *)

\* A step of t touches the conversation on q, which no other thread has.
LEMMA ThreadFrame ==
  ASSUME Inv, TalkInv, NEW t \in Threads, NEW q, NEW h, NEW at,
         tpc[t] # "gone", tpc'[t] # "gone",
         UNCHANGED <<executed, hpc, hreq>>,
         \A u \in Threads : u # t =>
           /\ tpc'[u] = tpc[u] /\ held'[u] = held[u]
           /\ calls'[u] = calls[u] /\ result'[u] = result[u]
           /\ tpc[u] \in Holding => held[u] # q,
         \A s \in Transports : s # q =>
           /\ sock'[s] = sock[s] /\ peer'[s] = peer[s]
           /\ c2s'[s] = c2s[s] /\ s2c'[s] = s2c[s],
         held'[t] = h, tpc'[t] = at, at \in Holding => TalkOK(h, t, at)',
         q \in Transports /\ sock'[q] = "closed" /\ peer'[q] = "open" =>
           c2s'[q] = <<>> /\ hpc[q] \in {"header", "ended"},
         CallOK(t)'
  PROVE  HeldTalk' /\ ClosedTalk' /\ OrphanTalk' /\ CallsOK'
<1>0. ~AppGone /\ ~AppGone'
  <2>1. ~AppGone
    BY DEF TalkInv, OrphanTalk
  <2> QED BY <2>1 DEF AppGone
<1>1. HeldTalk'
  <2> SUFFICES ASSUME NEW u \in Threads, tpc'[u] \in Holding
               PROVE  TalkOK(held[u], u, tpc[u])'
    BY DEF HeldTalk
  <2>1. CASE u = t
    BY <2>1
  <2>2. CASE u # t
    <3>0. tpc[u] \in Holding /\ held[u] # q
      BY <2>2
    <3>1. PICK s \in Transports, pc \in Holding : s = held[u] /\ pc = tpc[u]
      BY <3>0 DEF Inv, OwnerInv, HeldOK
    <3>2. TalkOK(s, u, pc)
      BY <3>0, <3>1 DEF TalkInv, HeldTalk
    <3>3. TalkOK(s, u, pc)'
      BY <2>2, <3>0, <3>1, <3>2, TalkLocal
    <3> QED BY <2>2, <3>1, <3>3
  <2> QED BY <2>1, <2>2
<1>2. ClosedTalk'
  BY <1>0 DEF TalkInv, ClosedTalk
<1>3. OrphanTalk'
  BY <1>0 DEF OrphanTalk
<1>4. CallsOK'
  <2> SUFFICES ASSUME NEW u \in Threads, u # t
               PROVE  CallOK(u)'
    BY DEF CallsOK
  <2>1. /\ Service!LastExecuted(u)' = Service!LastExecuted(u)
        /\ Unexecuted(u)' <=> Unexecuted(u)
    BY SameCall
  <2> QED BY <2>1 DEF TalkInv, CallsOK, CallOK
<1> QED BY <1>1, <1>2, <1>3, <1>4

\* What a step of a thread that creates no transport keeps of the server.
LEMMA ServerFrame ==
  ASSUME Inv, TalkInv, UNCHANGED <<hpc, hreq, peer, backlog, made>>,
         \A s \in Transports :
           /\ sock'[s] = sock[s] \/ (sock[s] = "open" /\ sock'[s] = "closed")
           /\ sock[s] = "none" => c2s'[s] = c2s[s] /\ s2c'[s] = s2c[s]
  PROVE  HandlerOK' /\ BacklogOK' /\ EndedOK'
<1>1. \A i \in 1..Len(backlog) : backlog[i] \in Transports
  BY DEF Inv, TypeOK
<1>2. HandlerOK'
  BY DEF TalkInv, HandlerOK, Inv, TypeOK, Transports
<1>3. BacklogOK'
  BY <1>1 DEF TalkInv, BacklogOK
<1>4. EndedOK'
  BY DEF TalkInv, EndedOK
<1> QED BY <1>2, <1>3, <1>4

\* The transports in the pool stay quiet if nothing happens on them.
LEMMA PoolFrame ==
  ASSUME Inv, TalkInv, NEW q, UNCHANGED hpc,
         \A i \in 1..Len(pool) : pool[i] # q,
         \A s \in Transports : s # q =>
           peer'[s] = peer[s] /\ c2s'[s] = c2s[s] /\ s2c'[s] = s2c[s],
         pool' = pool
  PROVE  PoolTalk'
<1> SUFFICES ASSUME NEW i \in 1..Len(pool)
             PROVE  QuietOK(pool[i])'
  BY DEF PoolTalk
<1>0. PICK s \in Transports : s = pool[i]
  BY DEF Inv, TypeOK
<1>1. QuietOK(s) /\ s # q
  BY <1>0 DEF TalkInv, PoolTalk
<1>2. QuietOK(s)'
  BY <1>1 DEF QuietOK
<1> QED BY <1>0, <1>2

\* A call that begins is not executed yet.
LEMMA BeginFacts ==
  ASSUME Inv, TalkInv, NEW t \in Threads, Begin(t), executed' = executed
  PROVE  /\ Unexecuted(t)'
         /\ (Service!LastExecuted(t) <= calls[t])'
         /\ result'[t].kind = "pending"
         /\ \A u \in Threads : u # t => calls'[u] = calls[u] /\ result'[u] = result[u]
<1>1. /\ Service!LastExecuted(t)' = Service!LastExecuted(t)
      /\ Service!LastExecuted(t) \in Nat /\ calls[t] \in Nat
      /\ Service!LastExecuted(t) <= calls[t]
  <2>1. Service!LastExecuted(t)' = Service!LastExecuted(t)
    BY DEF Service!LastExecuted
  <2> QED BY <2>1, LastFacts DEF Inv, TalkInv, CallsOK, CallOK
<1>2. /\ calls'[t] = calls[t] + 1
      /\ result'[t].kind = "pending"
      /\ \A u \in Threads : u # t => calls'[u] = calls[u] /\ result'[u] = result[u]
  BY DEF Begin, Inv, TypeOK, Outcome
<1>3. Unexecuted(t)' /\ (Service!LastExecuted(t) <= calls[t])'
  BY <1>1, <1>2 DEF Unexecuted
<1> QED BY <1>2, <1>3

\* A step of a thread keeps every conversation legal.
LEMMA ThreadTalkStep ==
  ASSUME Inv, TalkInv, NEW t \in Threads,
         get_transport_Pooled(t) \/ get_transport_Empty(t) \/ call_remote_func_sync(t)
  PROVE  TalkInv'
<1>t. /\ tpc \in [Threads -> ThreadStates]
      /\ held \in [Threads -> Transports \cup {None}]
      /\ calls \in [Threads -> Nat]
      /\ result \in [Threads -> Outcomes]
      /\ sock \in [Transports -> {"none", "open", "closed"}]
      /\ peer \in [Transports -> {"none", "open", "closed"}]
      /\ c2s \in [Transports -> Seq(Units)]
      /\ s2c \in [Transports -> Seq(Units)]
      /\ TypeOK
  BY DEF Inv, TypeOK
<1>n. None \notin Transports
  BY DEF None, Transports
<1>r. /\ \A pc \in {"header", "body", "resp_header", "resp", "return"} : pc \in Holding
      /\ \A pc \in {"gone", "idle", "connect"} : pc \notin Holding
  BY DEF Holding, ThreadStates
<1>h. ASSUME tpc[t] \in Holding
      PROVE  /\ held[t] \in Transports /\ sock[held[t]] = "open"
             /\ \A u \in Threads : u # t /\ tpc[u] \in Holding => held[u] # held[t]
             /\ \A i \in 1..Len(pool) : pool[i] # held[t]
             /\ TalkOK(held[t], t, tpc[t])
  BY <1>h DEF Inv, OwnerInv, HeldOK, TalkInv, HeldTalk
<1>k. CallOK(t)
  BY DEF TalkInv, CallsOK
<1>c. ASSUME calls' = calls, executed' = executed
      PROVE  /\ Current(t)' = Current(t)
             /\ Service!LastExecuted(t)' = Service!LastExecuted(t)
             /\ Unexecuted(t)' <=> Unexecuted(t)
             /\ Done(t)' <=> Done(t)
             /\ One(Header(t))' = One(Header(t))
             /\ One(Body(t))' = One(Body(t))
             /\ Two(Header(t), Body(t))' = Two(Header(t), Body(t))
  BY <1>c, SameCall
<1>1. CASE get_transport_Pooled(t)
  <2>1. /\ Begin(t) /\ tpc[t] = "idle" /\ pool # <<>> /\ pool' = Tail(pool)
        /\ held' = [held EXCEPT ![t] = Head(pool)]
        /\ tpc' = [tpc EXCEPT ![t] = "header"]
        /\ UNCHANGED <<made, sock, peer, c2s, s2c, backlog, hpc, hreq, executed>>
    BY <1>1 DEF get_transport_Pooled, Begin, streamVars, serverVars
  <2>2. /\ Unexecuted(t)'
        /\ (Service!LastExecuted(t) <= calls[t])'
        /\ result'[t].kind = "pending"
        /\ \A u \in Threads : u # t => calls'[u] = calls[u] /\ result'[u] = result[u]
    BY <2>1, BeginFacts
  <2>3. /\ Head(pool) \in Transports /\ Head(pool) = pool[1] /\ Len(pool) \in Nat \ {0}
        /\ Len(pool') = Len(pool) - 1
        /\ \A i \in 1..Len(pool') : pool'[i] = pool[i + 1] /\ i + 1 \in 1..Len(pool)
    BY <1>t, <2>1, TailFacts DEF TypeOK
  <2>4. PICK h \in Transports : h = Head(pool)
    BY <2>3
  <2>5. QuietOK(h)
    BY <2>3, <2>4 DEF TalkInv, PoolTalk
  <2>6. TalkOK(h, t, "header")'
    <3>1. AtHeader(h, t)'
      BY <2>1, <2>2, <2>5 DEF QuietOK, AtHeader
    <3> QED BY <3>1 DEF TalkOK
  <2>7. CallOK(t)'
    BY <1>t, <2>1, <2>2 DEF CallOK
  <2>8. HeldTalk' /\ ClosedTalk' /\ OrphanTalk' /\ CallsOK'
    <3>1. /\ tpc[t] # "gone" /\ tpc'[t] # "gone"
          /\ held'[t] = h /\ tpc'[t] = "header"
          /\ \A u \in Threads : u # t =>
               /\ tpc'[u] = tpc[u] /\ held'[u] = held[u]
               /\ tpc[u] \in Holding => held[u] # None
      BY <1>n, <1>t, <2>1, <2>4 DEF Inv, OwnerInv, HeldOK
    <3> QED BY <1>n, <2>1, <2>2, <2>6, <2>7, <3>1, ThreadFrame
  <2>9. HandlerOK' /\ BacklogOK' /\ EndedOK'
    <3>1. UNCHANGED <<hpc, hreq, peer, backlog, made>>
      BY <2>1
    <3>2. \A s \in Transports :
            /\ sock'[s] = sock[s]
            /\ sock[s] = "none" => c2s'[s] = c2s[s] /\ s2c'[s] = s2c[s]
      BY <2>1
    <3> QED BY <3>1, <3>2, ServerFrame
  <2>10. PoolTalk'
    <3>1. \A s \in Transports : QuietOK(s)' <=> QuietOK(s)
      BY <2>1 DEF QuietOK
    <3>2. \A i \in 1..Len(pool) : QuietOK(pool[i]) /\ pool[i] \in Transports
      BY <1>t DEF TalkInv, PoolTalk, TypeOK
    <3>3. \A i \in 1..Len(pool') : QuietOK(pool'[i]) /\ pool'[i] \in Transports
      BY <2>3, <3>2
    <3> QED BY <2>1, <3>3 DEF PoolTalk, QuietOK
  <2> QED BY <2>8, <2>9, <2>10 DEF TalkInv
<1>2. CASE get_transport_Empty(t)
  <2>1. /\ Begin(t) /\ tpc[t] = "idle"
        /\ tpc' = [tpc EXCEPT ![t] = "connect"]
        /\ UNCHANGED <<pool, held, made, sock, peer, c2s, s2c, backlog, hpc, hreq, executed>>
    BY <1>2 DEF get_transport_Empty, Begin, streamVars, serverVars
  <2>2. /\ Unexecuted(t)'
        /\ (Service!LastExecuted(t) <= calls[t])'
        /\ result'[t].kind = "pending"
        /\ \A u \in Threads : u # t => calls'[u] = calls[u] /\ result'[u] = result[u]
    BY <2>1, BeginFacts
  <2>3. CallOK(t)'
    BY <1>t, <2>1, <2>2 DEF CallOK
  <2>4. HeldTalk' /\ ClosedTalk' /\ OrphanTalk' /\ CallsOK'
    <3>1. PICK h : h = held[t]
      OBVIOUS
    <3>2. /\ tpc[t] # "gone" /\ tpc'[t] # "gone"
          /\ held'[t] = h /\ tpc'[t] = "connect" /\ "connect" \notin Holding
          /\ \A u \in Threads : u # t =>
               /\ tpc'[u] = tpc[u] /\ held'[u] = held[u]
               /\ tpc[u] \in Holding => held[u] # None
      BY <1>n, <1>r, <1>t, <2>1, <3>1 DEF Inv, OwnerInv, HeldOK
    <3> QED BY <1>n, <2>1, <2>2, <2>3, <3>2, ThreadFrame
  <2>5. HandlerOK' /\ BacklogOK' /\ EndedOK'
    <3>1. UNCHANGED <<hpc, hreq, peer, backlog, made>>
      BY <2>1
    <3>2. \A s \in Transports :
            /\ sock'[s] = sock[s]
            /\ sock[s] = "none" => c2s'[s] = c2s[s] /\ s2c'[s] = s2c[s]
      BY <2>1
    <3> QED BY <3>1, <3>2, ServerFrame
  <2>6. PoolTalk'
    <3>1. \A i \in 1..Len(pool) : pool[i] # None
      BY <1>n, <1>t DEF TypeOK
    <3> QED BY <2>1, <3>1, PoolFrame
  <2> QED BY <2>4, <2>5, <2>6 DEF TalkInv
<1>3. CASE create_transport(t)
  <2>1. /\ tpc[t] = "connect" /\ made < MaxTransports /\ made' = made + 1
        /\ sock' = [sock EXCEPT ![made + 1] = "open"]
        /\ peer' = [peer EXCEPT ![made + 1] = "open"]
        /\ backlog' = Append(backlog, made + 1)
        /\ held' = [held EXCEPT ![t] = made + 1]
        /\ tpc' = [tpc EXCEPT ![t] = "header"]
        /\ UNCHANGED <<pool, calls, result, c2s, s2c, hpc, hreq, executed>>
    BY <1>3 DEF create_transport
  <2>2. PICK h \in Transports : h = made + 1
    BY <1>t, <2>1, PoolAssumption DEF TypeOK, Transports
  <2>3. /\ sock[h] = "none" /\ hpc[h] = "none" /\ c2s[h] = <<>> /\ s2c[h] = <<>>
    BY <1>t, <2>2 DEF TypeOK, Transports, TalkInv, HandlerOK
  <2>4. /\ sock'[h] = "open" /\ peer'[h] = "open"
        /\ \A s \in Transports : s # h => sock'[s] = sock[s] /\ peer'[s] = peer[s]
    <3>1. sock' = [sock EXCEPT ![h] = "open"] /\ peer' = [peer EXCEPT ![h] = "open"]
      BY <2>1, <2>2
    <3> QED BY <1>t, <3>1
  <2>5. CallOK(t)' /\ Unexecuted(t)'
    BY <1>c, <1>k, <1>t, <2>1 DEF CallOK
  <2>6. TalkOK(h, t, "header")'
    <3>1. AtHeader(h, t)'
      BY <2>1, <2>3, <2>5 DEF AtHeader
    <3> QED BY <3>1 DEF TalkOK
  <2>7. HeldTalk' /\ ClosedTalk' /\ OrphanTalk' /\ CallsOK'
    <3>1. /\ tpc[t] # "gone" /\ tpc'[t] # "gone"
          /\ held'[t] = h /\ tpc'[t] = "header" /\ sock'[h] # "closed"
          /\ \A u \in Threads : u # t =>
               /\ tpc'[u] = tpc[u] /\ held'[u] = held[u]
               /\ tpc[u] \in Holding => held[u] # h
      BY <1>t, <2>1, <2>2, <2>3, <2>4 DEF Inv, OwnerInv, HeldOK
    <3>2. /\ \A u \in Threads : u # t => calls'[u] = calls[u] /\ result'[u] = result[u]
          /\ \A s \in Transports : s # h =>
               /\ sock'[s] = sock[s] /\ peer'[s] = peer[s]
               /\ c2s'[s] = c2s[s] /\ s2c'[s] = s2c[s]
          /\ UNCHANGED <<executed, hpc, hreq>>
      BY <2>1, <2>4
    <3> QED BY <2>5, <2>6, <3>1, <3>2, ThreadFrame
  <2>8. \A i \in 1..Len(pool) : pool[i] # h
    BY <2>3 DEF Inv, OwnerInv, PoolOK
  <2>9. PoolTalk'
    BY <2>1, <2>4, <2>8, PoolFrame
  <2>10. HandlerOK'
    BY <1>t, <2>1, <2>2, <2>3, <2>4
    DEF TalkInv, HandlerOK, Serving, TypeOK, Transports
  <2>11. BacklogOK'
    <3>1. /\ Len(backlog) \in Nat
          /\ Len(backlog') = Len(backlog) + 1
          /\ \A i \in 1..Len(backlog) : backlog'[i] = backlog[i]
          /\ backlog'[Len(backlog) + 1] = h
      BY <1>t, <2>1, <2>2, AppendFacts DEF TypeOK
    <3>2. \A i \in 1..Len(backlog) : backlog[i] \in Transports /\ backlog[i] # h
      <4>1. \A i \in 1..Len(backlog) : backlog[i] \in Transports
        BY <1>t DEF TypeOK
      <4>2. \A i \in 1..Len(backlog) : sock[backlog[i]] # "none"
        BY DEF TalkInv, BacklogOK
      <4> QED BY <2>3, <4>1, <4>2
    <3>3. \A i \in 1..Len(backlog') : i \in 1..Len(backlog) \/ i = Len(backlog) + 1
      BY <3>1
    <3> QED BY <2>1, <2>3, <2>4, <3>1, <3>2, <3>3 DEF TalkInv, BacklogOK
  <2>12. EndedOK'
    BY <2>1, <2>3, <2>4 DEF TalkInv, EndedOK
  <2> QED BY <2>7, <2>9, <2>10, <2>11, <2>12 DEF TalkInv
<1>4. CASE create_transport_Refused(t)
  <2>1. /\ tpc[t] = "connect"
        /\ tpc' = [tpc EXCEPT ![t] = "idle"]
        /\ held' = [held EXCEPT ![t] = None]
        /\ result' = [result EXCEPT ![t] = Outcome("failed", NoRequest)]
        /\ UNCHANGED <<pool, calls, made, sock, peer, c2s, s2c, backlog, hpc, hreq, executed>>
    BY <1>4 DEF create_transport_Refused, End, streamVars, serverVars
  <2>2. CallOK(t)'
    BY <1>c, <1>k, <1>t, <2>1 DEF CallOK, Outcome
  <2>3. HeldTalk' /\ ClosedTalk' /\ OrphanTalk' /\ CallsOK'
    <3>1. /\ tpc[t] # "gone" /\ tpc'[t] # "gone"
          /\ held'[t] = None /\ tpc'[t] = "idle" /\ "idle" \notin Holding
          /\ \A u \in Threads : u # t =>
               /\ tpc'[u] = tpc[u] /\ held'[u] = held[u] /\ result'[u] = result[u]
               /\ tpc[u] \in Holding => held[u] # None
      BY <1>n, <1>r, <1>t, <2>1 DEF Inv, OwnerInv, HeldOK
    <3> QED BY <1>n, <2>1, <2>2, <3>1, ThreadFrame
  <2>4. HandlerOK' /\ BacklogOK' /\ EndedOK'
    <3>1. UNCHANGED <<hpc, hreq, peer, backlog, made>>
      BY <2>1
    <3>2. \A s \in Transports :
            /\ sock'[s] = sock[s]
            /\ sock[s] = "none" => c2s'[s] = c2s[s] /\ s2c'[s] = s2c[s]
      BY <2>1
    <3> QED BY <3>1, <3>2, ServerFrame
  <2>5. PoolTalk'
    <3>1. \A i \in 1..Len(pool) : pool[i] # None
      BY <1>n, <1>t DEF TypeOK
    <3> QED BY <2>1, <3>1, PoolFrame
  <2> QED BY <2>3, <2>4, <2>5 DEF TalkInv
<1>5. ASSUME NEW part \in {"header", "body"}, NEW at \in {"body", "resp_header"},
             send_Write(t, part, at),
             NEW h \in Transports, h = held[t],
             TalkOK(h, t, part) /\ c2s'[h] = Append(c2s[h], [part |-> part, req |-> Current(t)])
               => TalkOK(h, t, at)'
      PROVE  TalkInv'
  <2>1. /\ tpc[t] = part /\ peer[h] = "open"
        /\ c2s' = [c2s EXCEPT ![h] = Append(@, [part |-> part, req |-> Current(t)])]
        /\ tpc' = [tpc EXCEPT ![t] = at]
        /\ UNCHANGED <<pool, held, calls, result, made, sock, peer, s2c, backlog, hpc, hreq,
                       executed>>
    BY <1>5 DEF send_Write, serverVars
  <2>2. /\ sock[h] = "open" /\ TalkOK(h, t, part)
        /\ \A u \in Threads : u # t /\ tpc[u] \in Holding => held[u] # h
        /\ \A i \in 1..Len(pool) : pool[i] # h
    BY <1>5, <1>h, <1>r, <2>1
  <2>3. /\ c2s'[h] = Append(c2s[h], [part |-> part, req |-> Current(t)])
        /\ \A s \in Transports : s # h => c2s'[s] = c2s[s]
    BY <1>t, <2>1
  <2>4. CallOK(t)'
    BY <1>c, <1>k, <1>t, <2>1 DEF CallOK
  <2>5. HeldTalk' /\ ClosedTalk' /\ OrphanTalk' /\ CallsOK'
    <3>1. /\ tpc[t] # "gone" /\ tpc'[t] # "gone"
          /\ held'[t] = h /\ tpc'[t] = at /\ sock'[h] # "closed"
          /\ \A u \in Threads : u # t =>
               /\ tpc'[u] = tpc[u] /\ held'[u] = held[u]
               /\ calls'[u] = calls[u] /\ result'[u] = result[u]
               /\ tpc[u] \in Holding => held[u] # h
      BY <1>5, <1>t, <2>1, <2>2
    <3>2. /\ \A s \in Transports : s # h =>
               /\ sock'[s] = sock[s] /\ peer'[s] = peer[s]
               /\ c2s'[s] = c2s[s] /\ s2c'[s] = s2c[s]
          /\ UNCHANGED <<executed, hpc, hreq>>
      BY <2>1, <2>3
    <3>3. TalkOK(h, t, at)'
      BY <1>5, <2>2, <2>3
    <3> QED BY <2>4, <3>1, <3>2, <3>3, ThreadFrame
  <2>6. HandlerOK' /\ BacklogOK' /\ EndedOK'
    <3>1. UNCHANGED <<hpc, hreq, peer, backlog, made>>
      BY <2>1
    <3>2. \A s \in Transports :
            /\ sock'[s] = sock[s]
            /\ sock[s] = "none" => c2s'[s] = c2s[s] /\ s2c'[s] = s2c[s]
      BY <2>1, <2>2, <2>3
    <3> QED BY <3>1, <3>2, ServerFrame
  <2>7. PoolTalk'
    BY <2>1, <2>2, <2>3, PoolFrame
  <2> QED BY <2>5, <2>6, <2>7 DEF TalkInv
<1>6. CASE send_Header(t)
  <2>1. PICK h \in Transports : h = held[t]
    BY <1>6, <1>h, <1>r DEF send_Header, send_Write
  <2>2. /\ send_Write(t, "header", "body") /\ peer[h] = "open"
        /\ UNCHANGED <<calls, s2c, peer, hpc, executed>>
    BY <1>6, <2>1 DEF send_Header, send_Write, serverVars
  <2>3. ASSUME TalkOK(h, t, "header"),
               c2s'[h] = Append(c2s[h], [part |-> "header", req |-> Current(t)])
        PROVE  TalkOK(h, t, "body")'
    <3>1. /\ c2s[h] = <<>> /\ s2c[h] = <<>> /\ hpc[h] \in {"none", "header"}
          /\ Unexecuted(t)
      BY <2>2, <2>3 DEF TalkOK, AtHeader
    <3>2. c2s'[h] = One(Header(t))
      BY <2>3, <3>1, CallStreams DEF Header
    <3>3. AtBody(h, t)'
      BY <1>c, <2>2, <3>1, <3>2 DEF AtBody
    <3> QED BY <3>3 DEF TalkOK
  <2> QED BY <1>5, <2>1, <2>2, <2>3
<1>7. CASE send_Body(t)
  <2>1. PICK h \in Transports : h = held[t]
    BY <1>7, <1>h, <1>r DEF send_Body, send_Write
  <2>2. /\ send_Write(t, "body", "resp_header") /\ peer[h] = "open"
        /\ UNCHANGED <<calls, s2c, peer, hpc, executed>>
    BY <1>7, <2>1 DEF send_Body, send_Write, serverVars
  <2>3. ASSUME TalkOK(h, t, "body"),
               c2s'[h] = Append(c2s[h], [part |-> "body", req |-> Current(t)])
        PROVE  TalkOK(h, t, "resp_header")'
    <3>1. /\ s2c[h] = <<>> /\ Unexecuted(t)
          /\ \/ hpc[h] \in {"none", "header"} /\ c2s[h] = One(Header(t))
             \/ hpc[h] = "body" /\ c2s[h] = <<>>
      BY <2>2, <2>3 DEF TalkOK, AtBody
    <3>2. \/ hpc[h] \in {"none", "header"} /\ c2s'[h] = Two(Header(t), Body(t))
          \/ hpc[h] = "body" /\ c2s'[h] = One(Body(t))
      <4>1. [part |-> "body", req |-> Current(t)] = Body(t)
        BY DEF Body
      <4> QED BY <2>3, <3>1, <4>1, CallStreams
    <3>3. Sent(h, t)'
      BY <1>c, <2>2, <3>1, <3>2 DEF Sent
    <3>4. AtRespHeader(h, t)'
      BY <2>2, <3>1, <3>3 DEF AtRespHeader
    <3> QED BY <3>4 DEF TalkOK
  <2> QED BY <1>5, <2>1, <2>2, <2>3
<1>8. ASSUME NEW h \in Transports, h = held[t], NEW pc \in {"resp_header", "resp"},
             tpc[t] = pc, NEW at \in {"resp", "return"},
             tpc' = [tpc EXCEPT ![t] = at],
             s2c' = [s2c EXCEPT ![h] = Tail(@)],
             UNCHANGED <<pool, held, calls, made, sock, peer, c2s, backlog, hpc, hreq, executed>>,
             \A u \in Threads : u # t => result'[u] = result[u],
             TalkOK(h, t, at)',
             at = "resp" => result'[t].kind = "pending"
      PROVE  TalkInv'
  <2>1. /\ sock[h] = "open"
        /\ \A u \in Threads : u # t /\ tpc[u] \in Holding => held[u] # h
        /\ \A i \in 1..Len(pool) : pool[i] # h
    BY <1>8, <1>h, <1>r
  <2>2. \A s \in Transports : s # h => s2c'[s] = s2c[s]
    BY <1>8, <1>t
  <2>3. CallOK(t)'
    BY <1>8, <1>c, <1>k, <1>t DEF CallOK
  <2>4. HeldTalk' /\ ClosedTalk' /\ OrphanTalk' /\ CallsOK'
    <3>1. /\ tpc[t] # "gone" /\ tpc'[t] # "gone"
          /\ held'[t] = h /\ tpc'[t] = at /\ sock'[h] # "closed"
          /\ \A u \in Threads : u # t =>
               /\ tpc'[u] = tpc[u] /\ held'[u] = held[u]
               /\ calls'[u] = calls[u] /\ result'[u] = result[u]
               /\ tpc[u] \in Holding => held[u] # h
      BY <1>8, <1>t, <2>1
    <3>2. /\ \A s \in Transports : s # h =>
               /\ sock'[s] = sock[s] /\ peer'[s] = peer[s]
               /\ c2s'[s] = c2s[s] /\ s2c'[s] = s2c[s]
          /\ UNCHANGED <<executed, hpc, hreq>>
      BY <1>8, <2>2
    <3> QED BY <1>8, <2>3, <3>1, <3>2, ThreadFrame
  <2>5. HandlerOK' /\ BacklogOK' /\ EndedOK'
    <3>1. UNCHANGED <<hpc, hreq, peer, backlog, made>>
      BY <1>8
    <3>2. \A s \in Transports :
            /\ sock'[s] = sock[s]
            /\ sock[s] = "none" => c2s'[s] = c2s[s] /\ s2c'[s] = s2c[s]
      BY <1>8, <2>1, <2>2
    <3> QED BY <3>1, <3>2, ServerFrame
  <2>6. PoolTalk'
    BY <1>8, <2>1, <2>2, PoolFrame
  <2> QED BY <2>4, <2>5, <2>6 DEF TalkInv
<1>9. CASE send_RecvHeader(t)
  <2>1. /\ tpc[t] = "resp_header" /\ s2c[held[t]] # <<>>
        /\ s2c' = [s2c EXCEPT ![held[t]] = Tail(@)]
        /\ tpc' = [tpc EXCEPT ![t] = "resp"]
        /\ UNCHANGED <<pool, held, calls, result, made, sock, peer, c2s, backlog, hpc, hreq,
                       executed>>
    BY <1>9 DEF send_RecvHeader, serverVars
  <2>2. PICK h \in Transports : h = held[t]
    BY <1>h, <1>r, <2>1
  <2>3. AtRespHeader(h, t)
    BY <1>h, <1>r, <2>1, <2>2 DEF TalkOK
  <2>4. s2c'[h] = Tail(s2c[h])
    BY <1>t, <2>1, <2>2
  <2>5. TalkOK(h, t, "resp")'
    <3>0. c2s[h] = <<>> /\ Done(t)
      BY <2>1, <2>2, <2>3 DEF AtRespHeader
    <3>1. CASE s2c[h] = One(Header(t)) /\ (peer[h] = "closed" \/ Answering(h, t, "resp"))
      <4>1. s2c'[h] = <<>>
        BY <2>4, <3>1, CallStreams
      <4>2. Answering(h, t, "resp")' <=> Answering(h, t, "resp")
        BY <1>c, <2>1 DEF Answering
      <4>3. AtResp(h, t)'
        BY <1>c, <2>1, <3>0, <3>1, <4>1, <4>2 DEF AtResp
      <4> QED BY <4>3 DEF TalkOK
    <3>2. CASE s2c[h] = Two(Header(t), Body(t)) /\ (peer[h] = "closed" \/ hpc[h] = "header")
      <4>1. s2c'[h] = One(Body(t))
        BY <2>4, <3>2, CallStreams
      <4>2. AtResp(h, t)'
        BY <1>c, <2>1, <3>0, <3>2, <4>1 DEF AtResp
      <4> QED BY <4>2 DEF TalkOK
    <3> QED BY <2>1, <2>2, <2>3, <3>1, <3>2 DEF AtRespHeader
  <2>6. result'[t].kind = "pending"
    BY <1>k, <2>1 DEF CallOK
  <2> QED BY <1>8, <2>1, <2>2, <2>5, <2>6
<1>10. CASE send_RecvResp(t)
  <2>1. /\ tpc[t] = "resp" /\ s2c[held[t]] # <<>>
        /\ s2c' = [s2c EXCEPT ![held[t]] = Tail(@)]
        /\ result' = [result EXCEPT ![t] = Outcome("read", Head(s2c[held[t]]).req)]
        /\ tpc' = [tpc EXCEPT ![t] = "return"]
        /\ UNCHANGED <<pool, held, calls, made, sock, peer, c2s, backlog, hpc, hreq, executed>>
    BY <1>10 DEF send_RecvResp, serverVars
  <2>2. PICK h \in Transports : h = held[t]
    BY <1>h, <1>r, <2>1
  <2>3. AtResp(h, t)
    BY <1>h, <1>r, <2>1, <2>2 DEF TalkOK
  <2>4. /\ s2c'[h] = Tail(s2c[h])
        /\ result'[t] = Outcome("read", Head(s2c[h]).req)
        /\ \A u \in Threads : u # t => result'[u] = result[u]
    BY <1>t, <2>1, <2>2
  <2>5. s2c[h] = One(Body(t)) /\ c2s[h] = <<>> /\ Done(t) /\ (peer[h] = "closed" \/ hpc[h] = "header")
    BY <2>1, <2>2, <2>3 DEF AtResp
  <2>6. s2c'[h] = <<>> /\ result'[t] = Outcome("read", Current(t))
    BY <2>4, <2>5, CallStreams
  <2>7. QuietOK(h)'
    BY <2>1, <2>5, <2>6 DEF QuietOK
  <2>8. AtReturn(h, t)'
    <3>1. Outcome("read", Current(t))' = Outcome("read", Current(t))
      BY <1>c, <2>1 DEF Outcome
    <3> QED BY <1>c, <2>1, <2>5, <2>6, <2>7, <3>1 DEF AtReturn
  <2>9. TalkOK(h, t, "return")'
    BY <2>8 DEF TalkOK
  <2> QED BY <1>8, <2>1, <2>2, <2>4, <2>9
<1>11. ASSUME NEW h \in Transports, h = held[t], tpc[t] \in Holding,
              tpc' = [tpc EXCEPT ![t] = "idle"], held' = [held EXCEPT ![t] = None],
              result'[t].kind \in {"reply", "failed"},
              \A u \in Threads : u # t => result'[u] = result[u],
              sock' \in {sock, [sock EXCEPT ![h] = "closed"]},
              UNCHANGED <<calls, made, peer, c2s, s2c, backlog, hpc, hreq, executed>>,
              QuietOK(h) \/ peer[h] = "closed"
       PROVE  HeldTalk' /\ ClosedTalk' /\ OrphanTalk' /\ CallsOK'
              /\ HandlerOK' /\ BacklogOK' /\ EndedOK'
  <2>1. /\ sock[h] = "open"
        /\ \A u \in Threads : u # t /\ tpc[u] \in Holding => held[u] # h
    BY <1>11, <1>h
  <2>2. /\ \A s \in Transports : s # h => sock'[s] = sock[s]
        /\ sock'[h] \in {"open", "closed"}
    BY <1>11, <1>t, <2>1
  <2>3. CallOK(t)'
    BY <1>11, <1>c, <1>k, <1>t DEF CallOK
  <2>4. HeldTalk' /\ ClosedTalk' /\ OrphanTalk' /\ CallsOK'
    <3>1. /\ tpc[t] # "gone" /\ tpc'[t] # "gone"
          /\ held'[t] = None /\ tpc'[t] = "idle" /\ "idle" \notin Holding
          /\ \A u \in Threads : u # t =>
               /\ tpc'[u] = tpc[u] /\ held'[u] = held[u]
               /\ calls'[u] = calls[u] /\ result'[u] = result[u]
               /\ tpc[u] \in Holding => held[u] # h
      BY <1>11, <1>r, <1>t, <2>1
    <3>2. /\ \A s \in Transports : s # h =>
               /\ sock'[s] = sock[s] /\ peer'[s] = peer[s]
               /\ c2s'[s] = c2s[s] /\ s2c'[s] = s2c[s]
          /\ UNCHANGED <<executed, hpc, hreq>>
      BY <1>11, <2>2
    <3>3. peer'[h] = "open" => c2s'[h] = <<>> /\ hpc[h] \in {"header", "ended"}
      BY <1>11 DEF QuietOK
    <3> QED BY <2>3, <3>1, <3>2, <3>3, ThreadFrame
  <2>5. HandlerOK' /\ BacklogOK' /\ EndedOK'
    <3>1. UNCHANGED <<hpc, hreq, peer, backlog, made>>
      BY <1>11
    <3>2. \A s \in Transports :
            /\ sock'[s] = sock[s] \/ (sock[s] = "open" /\ sock'[s] = "closed")
            /\ sock[s] = "none" => c2s'[s] = c2s[s] /\ s2c'[s] = s2c[s]
      BY <1>11, <2>1, <2>2
    <3> QED BY <3>1, <3>2, ServerFrame
  <2> QED BY <2>4, <2>5
<1>12. CASE send_NetworkError(t) \/ return_transport_Full(t)
  <2>1. /\ tpc[t] \in Holding
        /\ tpc' = [tpc EXCEPT ![t] = "idle"] /\ held' = [held EXCEPT ![t] = None]
        /\ \/ result' = [result EXCEPT ![t] = Outcome("failed", NoRequest)]
           \/ result' = [result EXCEPT ![t] = Outcome("reply", result[t].req)]
        /\ sock' = [sock EXCEPT ![held[t]] = "closed"]
        /\ UNCHANGED <<pool, calls, made, peer, c2s, s2c, backlog, hpc, hreq, executed>>
        /\ tpc[t] = "return" \/ peer[held[t]] = "closed"
    <3>1. CASE send_NetworkError(t)
      BY <1>r, <3>1 DEF send_NetworkError, ServerGone, End, streamVars, serverVars
    <3>2. CASE return_transport_Full(t)
      BY <1>r, <3>2 DEF return_transport_Full, End, streamVars, serverVars
    <3> QED BY <1>12, <3>1, <3>2
  <2>2. PICK h \in Transports : h = held[t]
    BY <1>h, <2>1
  <2>3. QuietOK(h) \/ peer[h] = "closed"
    BY <1>h, <2>1, <2>2 DEF TalkOK, AtReturn
  <2>4. /\ result'[t].kind \in {"reply", "failed"}
        /\ \A u \in Threads : u # t => result'[u] = result[u]
    BY <1>t, <2>1 DEF Outcome
  <2>5. PoolTalk'
    <3>1. \A i \in 1..Len(pool) : pool[i] # None
      BY <1>n, <1>t DEF TypeOK
    <3> QED BY <2>1, <3>1, PoolFrame
  <2> QED BY <1>11, <2>1, <2>2, <2>3, <2>4, <2>5 DEF TalkInv
<1>13. CASE return_transport_Put(t)
  <2>1. /\ tpc[t] = "return" /\ tpc[t] \in Holding
        /\ tpc' = [tpc EXCEPT ![t] = "idle"] /\ held' = [held EXCEPT ![t] = None]
        /\ result' = [result EXCEPT ![t] = Outcome("reply", result[t].req)]
        /\ pool' = Append(pool, held[t])
        /\ UNCHANGED <<sock, calls, made, peer, c2s, s2c, backlog, hpc, hreq, executed>>
    BY <1>13, <1>r DEF return_transport_Put, End, streamVars, serverVars
  <2>2. PICK h \in Transports : h = held[t]
    BY <1>h, <2>1
  <2>3. QuietOK(h)
    BY <1>h, <2>1, <2>2 DEF TalkOK, AtReturn
  <2>4. /\ result'[t].kind \in {"reply", "failed"}
        /\ \A u \in Threads : u # t => result'[u] = result[u]
    BY <1>t, <2>1 DEF Outcome
  <2>5. PoolTalk'
    <3>1. /\ Len(pool) \in Nat
          /\ Len(pool') = Len(pool) + 1
          /\ \A i \in 1..Len(pool) : pool'[i] = pool[i]
          /\ pool'[Len(pool) + 1] = h
      BY <1>t, <2>1, <2>2, AppendFacts DEF TypeOK
    <3>2. \A i \in 1..Len(pool') : i \in 1..Len(pool) \/ i = Len(pool) + 1
      BY <3>1
    <3>3. \A i \in 1..Len(pool) : QuietOK(pool[i])
      BY DEF TalkInv, PoolTalk
    <3>4. \A i \in 1..Len(pool') : QuietOK(pool'[i])
      BY <2>3, <3>1, <3>2, <3>3
    <3> QED BY <2>1, <3>4 DEF PoolTalk, QuietOK
  <2> QED BY <1>11, <2>1, <2>2, <2>3, <2>4, <2>5 DEF TalkInv
<1> QED
  BY <1>1, <1>2, <1>3, <1>4, <1>6, <1>7, <1>9, <1>10, <1>12, <1>13
  DEF call_remote_func_sync

\* When the application ends, a request may be on its way on the transport of
\* each thread, and on no other.
LEMMA ExitTalkStep ==
  ASSUME Inv, TalkInv, AppExits
  PROVE  TalkInv'
<1>t. /\ held \in [Threads -> Transports \cup {None}]
      /\ sock \in [Transports -> {"none", "open", "closed"}]
      /\ hpc \in [Transports -> HandlerStates]
      /\ TypeOK
  BY DEF Inv, TypeOK
<1>0. /\ tpc' = [t \in Threads |-> "gone"]
      /\ pool' = <<>>
      /\ \A s \in Transports : sock'[s] = IF sock[s] = "open" THEN "closed" ELSE sock[s]
      /\ UNCHANGED <<calls, result, made, peer, c2s, s2c, backlog, hpc, hreq, executed>>
  BY <1>t DEF AppExits, streamVars, serverVars
<1>1. ~AppGone /\ AppGone'
  <2>1. PICK t \in Threads : tpc[t] # "gone"
    BY DEF AppExits
  <2> QED BY <1>0, <2>1 DEF TalkInv, OrphanTalk, AppGone
<1>2. HeldTalk'
  BY <1>0 DEF HeldTalk, Holding
<1>3. PoolTalk'
  <2>1. 1..Len(pool') = {}
    <3>1. Len(<<>>) = 0
      OBVIOUS
    <3> QED BY <1>0, <3>1
  <2> QED BY <2>1 DEF PoolTalk
<1>4. ClosedTalk'
  BY <1>1 DEF ClosedTalk
<1>5. OrphanTalk'
  <2>1. PICK own \in [Threads -> Transports \cup {None}] : own = held
    BY <1>t
  <2>2. ASSUME NEW s \in Transports
        PROVE  OrphanOK(s, own)
    <3>1. CASE sock[s] = "none"
      BY <3>1 DEF TalkInv, HandlerOK, OrphanOK
    <3>2. CASE sock[s] = "closed"
      BY <1>1, <1>t, <3>2 DEF TalkInv, ClosedTalk, OrphanOK
    <3>3. CASE sock[s] = "open" /\ \E i \in 1..Len(pool) : pool[i] = s
      <4>1. QuietOK(s)
        BY <3>3 DEF TalkInv, PoolTalk
      <4> QED BY <4>1 DEF QuietOK, OrphanOK
    <3>4. CASE \E t \in Threads : tpc[t] \in Holding /\ held[t] = s
      <4>0. PICK t \in Threads : tpc[t] \in Holding /\ held[t] = s
        BY <3>4
      <4>1. TalkOK(s, t, tpc[t]) /\ own[t] = s
        BY <2>1, <4>0 DEF TalkInv, HeldTalk
      <4>2. CASE tpc[t] = "header"
        BY <4>1, <4>2 DEF TalkOK, AtHeader, OrphanOK
      <4>3. CASE tpc[t] = "body"
        BY <4>1, <4>3 DEF TalkOK, AtBody, OrphanOK
      <4>4. CASE tpc[t] = "resp_header"
        BY <4>1, <4>4 DEF TalkOK, AtRespHeader, Answering, OrphanOK
      <4>5. CASE tpc[t] = "resp"
        BY <4>1, <4>5 DEF TalkOK, AtResp, Answering, OrphanOK
      <4>6. CASE tpc[t] = "return"
        BY <4>1, <4>6 DEF TalkOK, AtReturn, QuietOK, OrphanOK
      <4> QED BY <4>0, <4>2, <4>3, <4>4, <4>5, <4>6 DEF Holding, ThreadStates
    <3> QED BY <1>t, <3>1, <3>2, <3>3, <3>4 DEF Inv, OwnerInv, OpenOK
  <2>3. \A s \in Transports : OrphanOK(s, own)'
    BY <1>0, <2>2, OrphanLocal
  <2> QED BY <1>0, <2>3 DEF OrphanTalk
<1>6. CallsOK'
  <2> SUFFICES ASSUME NEW t \in Threads PROVE CallOK(t)'
    BY DEF CallsOK
  <2>1. Service!LastExecuted(t)' = Service!LastExecuted(t)
    BY <1>0, SameCall
  <2> QED BY <1>0, <2>1 DEF TalkInv, CallsOK, CallOK
<1>7. HandlerOK' /\ BacklogOK' /\ EndedOK'
  <2>1. UNCHANGED <<hpc, hreq, peer, backlog, made>>
    BY <1>0
  <2>2. \A s \in Transports :
          /\ sock'[s] = sock[s] \/ (sock[s] = "open" /\ sock'[s] = "closed")
          /\ sock[s] = "none" => c2s'[s] = c2s[s] /\ s2c'[s] = s2c[s]
    BY <1>0
  <2> QED BY <2>1, <2>2, ServerFrame
<1> QED BY <1>2, <1>3, <1>4, <1>5, <1>6, <1>7 DEF TalkInv

\* Every conversation stays legal.
LEMMA TalkHolds == Spec => []TalkInv
<1>1. Init => TalkInv
  <2> SUFFICES ASSUME Init PROVE TalkInv
    OBVIOUS
  <2>e. 1..Len(<<>>) = {}
    <3>1. Len(<<>>) = 0
      OBVIOUS
    <3> QED BY <3>1
  <2>1. HeldTalk /\ ClosedTalk /\ OrphanTalk
    BY DEF Init, HeldTalk, Holding, ClosedTalk, OrphanTalk, AppGone
  <2>2. PoolTalk /\ BacklogOK
    BY <2>e DEF Init, PoolTalk, BacklogOK
  <2>3. CallsOK
    <3> SUFFICES ASSUME NEW t \in Threads PROVE CallOK(t)
      BY DEF CallsOK
    <3>1. Service!LastExecuted(t) = 0 /\ calls[t] = 0
      BY DEF Init, Service!LastExecuted
    <3> QED BY <3>1 DEF Init, CallOK, Outcome
  <2>4. HandlerOK /\ EndedOK
    BY DEF Init, HandlerOK, EndedOK, Serving
  <2> QED BY <2>1, <2>2, <2>3, <2>4 DEF TalkInv
<1>2. Inv /\ TalkInv /\ [Next]_vars => TalkInv'
  <2> SUFFICES ASSUME Inv, TalkInv, [Next]_vars PROVE TalkInv'
    OBVIOUS
  <2>1. CASE start \/ UNCHANGED vars
    <3>1. UNCHANGED <<pool, tpc, held, calls, result, made, sock, peer, c2s, s2c,
                      backlog, hpc, hreq, executed>>
      BY <2>1 DEF start, vars, clientVars, streamVars, serverVars
    <3> QED BY <3>1, TalkStutter
  <2> QED
    BY <2>1, ThreadTalkStep, ExitTalkStep, AcceptTalkStep, HandlerTalkStep, KillTalkStep
    DEF Next
<1> QED BY <1>1, <1>2, InvHolds, PTL DEF Spec

\* A transport in the pool carries nothing from an earlier call: both streams
\* are empty, and its handler is at the top of its loop unless the server is
\* gone (named_pipe.py:51-69, 83-100, 151-166).
THEOREM PoolIsQuiet == Spec => []PooledIsQuiet
<1>1. Inv /\ TalkInv => PooledIsQuiet
  <2> SUFFICES ASSUME Inv, TalkInv PROVE PooledIsQuiet
    OBVIOUS
  <2>1. DOMAIN pool = 1..Len(pool)
    BY DEF Inv, TypeOK
  <2> QED BY <2>1 DEF PooledIsQuiet, Pooled, TalkInv, PoolTalk, QuietOK
<1> QED BY <1>1, InvHolds, TalkHolds, PTL

-----------------------------------------------------------------------------
(* What a killed server costs.                                             *)

\* While a server runs, only a handler that raised makes a transport stale.
LEMMA StaleStep ==
  ASSUME Inv, TalkInv, Next, up, up', NEW s \in Stale', s \notin Stale
  PROVE  hreq[s] \in Unserializable
<1>t. /\ sock \in [Transports -> {"none", "open", "closed"}]
      /\ peer \in [Transports -> {"none", "open", "closed"}]
      /\ TypeOK
  BY DEF Inv, TypeOK
<1>0. s \in Transports /\ sock'[s] = "open" /\ peer'[s] = "closed"
  BY DEF Stale
<1>1. ASSUME NEW t \in Threads,
             get_transport_Pooled(t) \/ get_transport_Empty(t) \/ call_remote_func_sync(t)
      PROVE  FALSE
  <2>1. CASE create_transport(t)
    <3>1. /\ sock' = [sock EXCEPT ![made + 1] = "open"]
          /\ peer' = [peer EXCEPT ![made + 1] = "open"]
      BY <2>1 DEF create_transport
    <3>2. s # made + 1
      BY <1>0, <1>t, <3>1
    <3>3. sock'[s] = sock[s] /\ peer'[s] = peer[s]
      BY <1>0, <1>t, <3>1, <3>2
    <3> QED BY <1>0, <3>3 DEF Stale
  <2>2. CASE ~create_transport(t)
    <3>1. peer' = peer /\ (sock' = sock \/ sock' = [sock EXCEPT ![held[t]] = "closed"])
      BY <1>1, <2>2
      DEF get_transport_Pooled, get_transport_Empty, call_remote_func_sync,
          create_transport_Refused, send_Header, send_Body, send_Write, send_RecvHeader,
          send_RecvResp, send_NetworkError, return_transport_Put, return_transport_Full,
          streamVars
    <3>2. sock[s] = "open"
      BY <1>0, <1>t, <3>1
    <3> QED BY <1>0, <3>1, <3>2 DEF Stale
  <2> QED BY <2>1, <2>2
<1>2. CASE AppExits
  BY <1>0, <1>2, <1>t DEF AppExits
<1>3. CASE accept_loop
  <2>1. /\ sock' = sock
        /\ peer' = [q \in Transports |->
                      IF q = latest /\ hpc[q] = "ended" THEN "closed" ELSE peer[q]]
    BY <1>3 DEF accept_loop, clientVars
  <2>2. sock[s] = "open" /\ peer[s] # "closed"
    BY <1>0, <2>1 DEF Stale
  <2>3. hpc[s] = "ended" /\ peer[s] = "open"
    BY <1>0, <1>t, <2>1, <2>2 DEF TalkInv, HandlerOK
  <2> QED BY <1>0, <2>2, <2>3 DEF TalkInv, EndedOK
<1>4. ASSUME NEW q \in Transports, PipeHandlerThread(q)
      PROVE  hreq[s] \in Unserializable
  <2>1. /\ sock' = sock
        /\ \A r \in Transports : r # q => peer'[r] = peer[r]
    BY <1>4, <1>t, HandlerEffect
  <2>2. s = q
    BY <1>0, <2>1 DEF Stale
  <2>3. sock[q] = "open" /\ peer'[q] # peer[q]
    BY <1>0, <2>1, <2>2 DEF Stale
  <2>4. run_CallRaises(q)
    BY <1>4, <2>3
    DEF PipeHandlerThread, run_RecvHeader, run_RecvBody, run_RecvEOF, run_Call,
        run_SendHeader, run_SendResp, run_Write, run_SendFails, streamVars
  <2> QED BY <2>2, <2>4 DEF run_CallRaises
<1>5. CASE Kill \/ start
  BY <1>5 DEF Kill, start
<1> QED BY <1>1, <1>2, <1>3, <1>4, <1>5 DEF Next

\* While a server runs, a call fails only on a stale transport, and drops it.
LEMMA FailStep ==
  ASSUME Inv, Next, up, NEW t \in Threads,
         result'[t].kind = "failed", result[t].kind # "failed"
  PROVE  held[t] \in Stale /\ held[t] \notin Stale'
<1>t. /\ result \in [Threads -> Outcomes]
      /\ sock \in [Transports -> {"none", "open", "closed"}]
  BY DEF Inv, TypeOK
<1>1. ASSUME NEW u \in Threads,
             get_transport_Pooled(u) \/ get_transport_Empty(u) \/ call_remote_func_sync(u)
      PROVE  u = t /\ send_NetworkError(t)
  <2>1. CASE get_transport_Pooled(u) \/ get_transport_Empty(u)
    <3>1. result' = [result EXCEPT ![u] = Outcome("pending", NoRequest)]
      BY <2>1 DEF get_transport_Pooled, get_transport_Empty, Begin
    <3> QED BY <1>t, <3>1 DEF Outcome
  <2>2. CASE create_transport(u) \/ send_Header(u) \/ send_Body(u) \/ send_RecvHeader(u)
    BY <2>2 DEF create_transport, send_Header, send_Body, send_Write, send_RecvHeader
  <2>3. CASE create_transport_Refused(u)
    BY <2>3 DEF create_transport_Refused
  <2>4. CASE send_RecvResp(u)
    <3>1. result' = [result EXCEPT ![u] = Outcome("read", Head(s2c[held[u]]).req)]
      BY <2>4 DEF send_RecvResp
    <3> QED BY <1>t, <3>1 DEF Outcome
  <2>5. CASE return_transport_Put(u) \/ return_transport_Full(u)
    <3>1. result' = [result EXCEPT ![u] = Outcome("reply", result[u].req)]
      BY <2>5 DEF return_transport_Put, return_transport_Full, End
    <3> QED BY <1>t, <3>1 DEF Outcome
  <2>6. CASE send_NetworkError(u)
    <3>1. result' = [result EXCEPT ![u] = Outcome("failed", NoRequest)]
      BY <2>6 DEF send_NetworkError, End
    <3>2. u = t
      BY <1>t, <3>1
    <3> QED BY <2>6, <3>2
  <2> QED BY <1>1, <2>1, <2>2, <2>3, <2>4, <2>5, <2>6 DEF call_remote_func_sync
<1>2. ~(result' = result)
  OBVIOUS
<1>3. send_NetworkError(t)
  <2>1. ~AppExits /\ ~accept_loop /\ ~Kill /\ ~start
    BY <1>2 DEF AppExits, accept_loop, Kill, start, clientVars
  <2>2. \A q \in Transports : ~PipeHandlerThread(q)
    BY <1>2, HandlerEffect DEF Inv
  <2> QED BY <1>1, <2>1, <2>2 DEF Next
<1>4. /\ tpc[t] \in Holding /\ peer[held[t]] = "closed"
      /\ sock' = [sock EXCEPT ![held[t]] = "closed"]
  BY <1>3 DEF send_NetworkError, ServerGone, Holding, ThreadStates
<1>5. held[t] \in Transports /\ sock[held[t]] = "open"
  BY <1>4 DEF Inv, OwnerInv, HeldOK
<1>6. sock'[held[t]] = "closed"
  BY <1>4, <1>5, <1>t
<1> QED BY <1>4, <1>5, <1>6 DEF Stale

\* However often the server was killed, every old connection costs one failed
\* call at most: while a server runs a call fails only by using up a stale
\* transport, and new ones come only from handlers that raised
\* (named_pipe.py:78-100).
THEOREM StaleTransportsFailOnce == Spec => StaleFailsOnce
<1> DEFINE A == up => /\ up' => \A s \in Stale' \ Stale : hreq[s] \in Unserializable
                      /\ \A t \in Threads :
                           result'[t].kind = "failed" /\ result[t].kind # "failed" =>
                             held[t] \in Stale /\ held[t] \notin Stale'
<1>1. Inv /\ TalkInv /\ [Next]_vars => [A]_vars
  <2> SUFFICES ASSUME Inv, TalkInv, Next, up PROVE A
    OBVIOUS
  <2>1. ASSUME up', NEW s \in Stale' \ Stale
        PROVE  hreq[s] \in Unserializable
    BY <2>1, StaleStep
  <2> QED BY <2>1, FailStep
<1>2. Spec => [][A]_vars
  BY <1>1, InvHolds, TalkHolds, PTL DEF Spec
<1> QED BY <1>2 DEF StaleFailsOnce

-----------------------------------------------------------------------------
(* The refinement of RpcService.                                           *)

\* What a thread sees changes with the result of its own call.
LEMMA CallerSeesOne ==
  ASSUME TypeOK, NEW t \in Threads, NEW r, result' = [result EXCEPT ![t] = r], NEW o,
         CallerSees(t)' = o
  PROVE  [u \in Threads |-> CallerSees(u)]' =
           [[u \in Threads |-> CallerSees(u)] EXCEPT ![t] = o]
<1>1. \A u \in Threads : u # t => result'[u] = result[u]
  BY DEF TypeOK
<1>2. \A u \in Threads : u # t => CallerSees(u)' = CallerSees(u)
  BY <1>1 DEF CallerSees
<1> DEFINE F == [u \in Threads |-> CallerSees(u)]
<1>3. \A u \in Threads : F'[u] = [F EXCEPT ![t] = o][u]
  BY <1>2
<1> QED BY <1>3

\* Begin is a call of the service.
LEMMA BeginRefines ==
  ASSUME Inv, TalkInv, NEW t \in Threads, Begin(t), executed' = executed
  PROVE  Service!Call(t)
<1>t. TypeOK /\ result \in [Threads -> Outcomes]
  BY DEF Inv, TypeOK
<1>1. tpc[t] = "idle" /\ result' = [result EXCEPT ![t] = Outcome("pending", NoRequest)]
      /\ calls' = [calls EXCEPT ![t] = @ + 1]
  BY DEF Begin
<1>2. CallerSees(t).kind # "pending"
  BY <1>1 DEF CallerSees, TalkInv, CallsOK, CallOK
<1>3. result'[t] = Outcome("pending", NoRequest)
  BY <1>1, <1>t
<1>4. CallerSees(t)' = Service!Outcome("pending", 0)
  BY <1>3 DEF CallerSees, Outcome, Service!Outcome
<1>5. [u \in Threads |-> CallerSees(u)]' =
        [[u \in Threads |-> CallerSees(u)] EXCEPT ![t] = Service!Outcome("pending", 0)]
  BY <1>1, <1>4, <1>t, CallerSeesOne
<1> QED BY <1>1, <1>2, <1>5 DEF Service!Call

\* A thread's step is a call that begins, one that ends with its own response
\* or fails, or nothing the service knows of.
LEMMA ThreadRefines ==
  ASSUME Inv, TalkInv, NEW t \in Threads,
         get_transport_Pooled(t) \/ get_transport_Empty(t) \/ call_remote_func_sync(t)
  PROVE  \/ Service!Call(t) \/ Service!Reply(t) \/ Service!Fail(t)
         \/ UNCHANGED Service!vars
<1>t. TypeOK /\ result \in [Threads -> Outcomes] /\ calls \in [Threads -> Nat]
  BY DEF Inv, TypeOK
<1>k. CallOK(t)
  BY DEF TalkInv, CallsOK
<1>1. CASE get_transport_Pooled(t) \/ get_transport_Empty(t)
  <2>1. Begin(t) /\ executed' = executed
    BY <1>1 DEF get_transport_Pooled, get_transport_Empty, serverVars
  <2> QED BY <2>1, BeginRefines
<1>2. CASE create_transport(t) \/ send_Header(t) \/ send_Body(t) \/ send_RecvHeader(t)
  <2>1. UNCHANGED <<calls, executed, result>>
    BY <1>2 DEF create_transport, send_Header, send_Body, send_Write, send_RecvHeader, serverVars
  <2> QED BY <2>1 DEF Service!vars, CallerSees
<1>3. CASE create_transport_Refused(t) \/ send_NetworkError(t)
  <2>1. /\ tpc[t] \in {"connect", "header", "body", "resp_header", "resp"}
        /\ result' = [result EXCEPT ![t] = Outcome("failed", NoRequest)]
        /\ UNCHANGED <<calls, executed>>
    BY <1>3 DEF create_transport_Refused, send_NetworkError, ServerGone, End, serverVars
  <2>2. CallerSees(t).kind = "pending"
    BY <1>k, <2>1 DEF CallOK, CallerSees
  <2>3. result'[t] = Outcome("failed", NoRequest)
    BY <1>t, <2>1
  <2>4. CallerSees(t)' = Service!Outcome("failed", 0)
    BY <2>3 DEF CallerSees, Outcome, Service!Outcome
  <2>5. [u \in Threads |-> CallerSees(u)]' =
          [[u \in Threads |-> CallerSees(u)] EXCEPT ![t] = Service!Outcome("failed", 0)]
    BY <1>t, <2>1, <2>4, CallerSeesOne
  <2> QED BY <2>1, <2>2, <2>5 DEF Service!Fail
<1>4. CASE send_RecvResp(t)
  <2>1. /\ tpc[t] = "resp"
        /\ result' = [result EXCEPT ![t] = Outcome("read", Head(s2c[held[t]]).req)]
        /\ UNCHANGED <<calls, executed>>
    BY <1>4 DEF send_RecvResp, serverVars
  <2>2. CallerSees(t) = [kind |-> "pending", call |-> 0]
    BY <1>k, <2>1 DEF CallOK, CallerSees
  <2>3. result'[t].kind = "read"
    BY <1>t, <2>1 DEF Outcome
  <2>4. CallerSees(t)' = CallerSees(t)
    BY <2>2, <2>3 DEF CallerSees
  <2>5. \A u \in Threads : CallerSees(u)' = CallerSees(u)
    <3>1. \A u \in Threads : u # t => result'[u] = result[u]
      BY <1>t, <2>1
    <3>2. \A u \in Threads : u # t => CallerSees(u)' = CallerSees(u)
      BY <3>1 DEF CallerSees
    <3> QED BY <2>4, <3>2
  <2> QED BY <2>1, <2>5 DEF Service!vars
<1>5. CASE return_transport_Put(t) \/ return_transport_Full(t)
  <2>1. /\ tpc[t] = "return"
        /\ result' = [result EXCEPT ![t] = Outcome("reply", result[t].req)]
        /\ UNCHANGED <<calls, executed>>
    BY <1>5 DEF return_transport_Put, return_transport_Full, End, serverVars
  <2>2. AtReturn(held[t], t)
    BY <2>1 DEF TalkInv, HeldTalk, TalkOK, Holding, ThreadStates
  <2>3. Service!LastExecuted(t) = calls[t] /\ result[t] = Outcome("read", Current(t))
    BY <2>2 DEF AtReturn, Done
  <2>4. CallerSees(t).kind = "pending"
    BY <2>3 DEF CallerSees, Outcome
  <2>5. result'[t] = Outcome("reply", Current(t))
    BY <1>t, <2>1, <2>3 DEF Outcome
  <2>6. CallerSees(t)' = Service!Outcome("reply", calls[t])
    <3>1. Current(t)[1] = t /\ Current(t)[2] = calls[t]
      BY DEF Current
    <3> QED BY <2>5, <3>1 DEF CallerSees, Outcome, Service!Outcome
  <2>7. [u \in Threads |-> CallerSees(u)]' =
          [[u \in Threads |-> CallerSees(u)] EXCEPT ![t] = Service!Outcome("reply", calls[t])]
    <3>1. PICK o : o = Service!Outcome("reply", calls[t])
      OBVIOUS
    <3> QED BY <1>t, <2>1, <2>6, <3>1, CallerSeesOne
  <2> QED BY <2>1, <2>3, <2>4, <2>7 DEF Service!Reply
<1> QED BY <1>1, <1>2, <1>3, <1>4, <1>5 DEF call_remote_func_sync

\* Every step of the threads and of the server is a step of the service, or
\* one the service does not see.
LEMMA StepRefines ==
  ASSUME Inv, TalkInv, [Next]_vars
  PROVE  [Service!Next]_(Service!vars)
<1>0. ASSUME UNCHANGED <<calls, executed, result>>
      PROVE  UNCHANGED Service!vars
  BY <1>0 DEF Service!vars, CallerSees
<1>1. ASSUME NEW t \in Threads,
             get_transport_Pooled(t) \/ get_transport_Empty(t) \/ call_remote_func_sync(t)
      PROVE  [Service!Next]_(Service!vars)
  BY <1>1, ThreadRefines DEF Service!Next
<1>2. ASSUME NEW q \in Transports, PipeHandlerThread(q)
      PROVE  [Service!Next]_(Service!vars)
  <2>1. TypeOK /\ calls' = calls /\ result' = result
    BY <1>2, HandlerEffect DEF Inv
  <2>2. CASE executed' = executed
    BY <1>0, <2>1, <2>2
  <2>3. CASE executed' # executed
    <3>1. PICK t \in Threads :
            Sent(q, t) /\ executed' = [executed EXCEPT ![t] = Append(@, calls[t])]
      BY <1>2, <2>3, HandlerExecutes
    <3>2. Service!LastExecuted(t) < calls[t]
      BY <3>1 DEF Sent, Unexecuted
    <3>3. [u \in Threads |-> CallerSees(u)]' = [u \in Threads |-> CallerSees(u)]
      BY <2>1 DEF CallerSees
    <3>4. Service!Execute(t)
      BY <2>1, <3>1, <3>2, <3>3 DEF Service!Execute
    <3> QED BY <3>4 DEF Service!Next
  <2> QED BY <2>2, <2>3
<1>3. CASE AppExits \/ accept_loop \/ Kill \/ start \/ UNCHANGED vars
  <2>1. UNCHANGED <<calls, executed, result>>
    BY <1>3 DEF AppExits, accept_loop, Kill, start, vars, clientVars, serverVars
  <2> QED BY <1>0, <2>1
<1> QED BY <1>1, <1>2, <1>3 DEF Next

\* The initial states of the client and the server are those of the service.
LEMMA InitRefines ==
  ASSUME Init
  PROVE  Service!Init
BY DEF Init, Service!Init, Service!Outcome, Outcome, CallerSees

\* For each thread of the application the shared client with its pool is the
\* service that one connection of its own would be, over any number of kills
\* and restarts: a call is executed at most once and in order, and returns its
\* own response or an exception (named_pipe.py:51-69, 83-100, 151-166).
THEOREM PoolImplements == Spec => Implements
<1>1. Init => Service!Init
  BY InitRefines
<1>2. Inv /\ TalkInv /\ [Next]_vars => [Service!Next]_(Service!vars)
  BY StepRefines
<1>3. Spec => Service!Spec
  BY <1>1, <1>2, InvHolds, TalkHolds, PTL DEF Spec, Service!Spec
<1> QED BY <1>3 DEF Implements
=============================================================================
