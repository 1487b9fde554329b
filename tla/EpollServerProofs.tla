------------------------- MODULE EpollServerProofs -------------------------
(***************************************************************************)
(* Theorems about EpollServer, for any set of connections, workers and     *)
(* descriptors: who owns a ServerHandlerData, and which descriptor is      *)
(* whose.                                                                  *)
(*                                                                         *)
(* The invariants OwnedOnce, EventsCurrent and DescriptorsMatch are not    *)
(* inductive one by one: that the listener may hand out a registered       *)
(* pointer rests on no worker having it, that a worker may free it rests   *)
(* on no event naming it, that accept may reuse a descriptor rests on its  *)
(* last owner being gone.  Inv states them together, owner by owner.       *)
(***************************************************************************)
EXTENDS EpollServer, NamedPipeClientProofs, TLAPS

\* A registered pointer is live and registered under its own descriptor.
RegOK ==
  \A f \in Fds : reg[f] # None => heap[reg[f]] = "live" /\ connfd[reg[f]] = f

\* A queued pointer is live, out of epoll, and queued once.
PoolOK ==
  \A i \in 1..Len(pool) :
    /\ heap[pool[i]] = "live"
    /\ connfd[pool[i]] \in Fds
    /\ reg[connfd[pool[i]]] = None
    /\ \A j \in 1..Len(pool) : pool[i] = pool[j] => i = j

\* A busy worker's pointer is live, out of epoll, out of the queue and held by
\* no other worker; its descriptor is the pointer's.
HeldOK ==
  \A w \in Workers : Busy(w) =>
    /\ wdata[w] \in Conns
    /\ heap[wdata[w]] = "live"
    /\ wfd[w] \in Fds
    /\ connfd[wdata[w]] = wfd[w]
    /\ reg[wfd[w]] = None
    /\ \A i \in 1..Len(pool) : pool[i] # wdata[w]
    /\ \A v \in Workers : Busy(v) /\ wdata[v] = wdata[w] => v = w

\* Live data has an owner.
LiveOK ==
  \A c \in Conns : heap[c] = "live" =>
    /\ connfd[c] \in Fds
    /\ \/ reg[connfd[c]] = c
       \/ \E i \in 1..Len(pool) : pool[i] = c
       \/ \E w \in Workers : Busy(w) /\ wdata[w] = c

\* Open descriptors and live data correspond.
FdOK ==
  \A f \in Fds, c \in Conns : fdtab[f] = c <=> heap[c] = "live" /\ connfd[c] = f

\* A connection that waits to be accepted waits once, and has no data yet.
BacklogOK ==
  /\ \A i \in 1..Len(backlog) :
       /\ heap[backlog[i]] = "none"
       /\ cstate[backlog[i]] # "new"
       /\ \A j \in 1..Len(backlog) : backlog[i] = backlog[j] => i = j
  /\ \A c \in Conns : cstate[c] = "new" => heap[c] = "none"

\* ret is set on the way out only.
RetOK == \A w \in Workers : wpc[w] # "out" => wret[w] = 0

PointerInv ==
  RegOK /\ PoolOK /\ HeldOK /\ LiveOK /\ FdOK /\ EventsCurrent /\ BacklogOK /\ RetOK

Inv == TypeOK /\ PointerInv

-----------------------------------------------------------------------------
(* The clients' steps.                                                     *)

\* A client's step changes nothing of the server's; it may add its own, new
\* connection to the backlog.
LEMMA ClientStep ==
  ASSUME Inv, NEW c \in Conns, ClientNext(c), UNCHANGED serverVars
  PROVE  Inv'
<1>1. PipeTypeOK'
  BY ClientTypes DEF Inv, TypeOK
<1>2. TypeOK'
  BY <1>1 DEF Inv, TypeOK, serverVars, listenVars, workerVars
<1>3. /\ RegOK' /\ PoolOK' /\ HeldOK' /\ LiveOK' /\ FdOK' /\ EventsCurrent' /\ RetOK'
  BY DEF Inv, PointerInv, RegOK, PoolOK, HeldOK, LiveOK, FdOK, EventsCurrent, RetOK,
         Busy, Registered, serverVars, listenVars, workerVars
<1>4. BacklogOK'
  <2>0. /\ cstate \in [Conns -> ClientStates] /\ backlog \in Seq(Conns)
        /\ heap' = heap
    BY DEF Inv, TypeOK, PipeTypeOK, serverVars
  <2>1. CASE searpc_named_pipe_client_connect(c)
    <3>1. /\ cstate[c] = "new"
          /\ cstate' = [cstate EXCEPT ![c] = "ready"]
          /\ backlog' = Append(backlog, c)
      BY <2>1 DEF searpc_named_pipe_client_connect
    <3>2. /\ Len(backlog') = Len(backlog) + 1
          /\ \A i \in 1..Len(backlog) : backlog'[i] = backlog[i]
          /\ backlog'[Len(backlog) + 1] = c
          /\ Len(backlog) \in Nat
          /\ \A i \in 1..Len(backlog) : backlog[i] \in Conns
      BY <2>0, <3>1, AppendFacts
    <3>3. \A i \in 1..Len(backlog) : backlog[i] # c
      BY <3>1 DEF Inv, PointerInv, BacklogOK
    <3> QED BY <2>0, <3>1, <3>2, <3>3 DEF Inv, PointerInv, BacklogOK
  <2>2. CASE ~searpc_named_pipe_client_connect(c)
    <3>1. /\ backlog' = backlog
          /\ \E s \in ClientStates \ {"new"} : cstate' = [cstate EXCEPT ![c] = s]
          /\ cstate[c] # "new"
      BY <2>0, <2>2, ClientPlaces
    <3>2. \A d \in Conns : cstate'[d] = "new" <=> cstate[d] = "new"
      BY <2>0, <3>1
    <3>3. \A i \in 1..Len(backlog) : backlog[i] \in Conns
      BY <2>0
    <3> QED BY <2>0, <3>1, <3>2, <3>3 DEF Inv, PointerInv, BacklogOK
  <2> QED BY <2>1, <2>2
<1> QED BY <1>2, <1>3, <1>4 DEF Inv, PointerInv

-----------------------------------------------------------------------------
(* The listener's steps.                                                   *)

\* The events of a batch are those of registered pointers, one each.
LEMMA WaitStep ==
  ASSUME Inv, epoll_listen_Wait
  PROVE  Inv'
<1> USE DEF epoll_listen_Wait, pipeVars, clientVars, streamVars, workerVars
<1>1. events' \subseteq ReadyEvents
  OBVIOUS
<1>2. ASSUME NEW e \in ReadyEvents
      PROVE  \/ e = [data |-> pipe_fd, hup |-> FALSE]
             \/ \E f \in Fds : /\ reg[f] # None
                               /\ e = [data |-> reg[f], hup |-> cstate[fdtab[f]] = "gone"]
  BY <1>2 DEF ReadyEvents
<1>3. TypeOK'
  <2>1. events' \in SUBSET Events
    <3>1. ASSUME NEW f \in Fds, reg[f] # None
          PROVE  [data |-> reg[f], hup |-> cstate[fdtab[f]] = "gone"] \in Events
      BY <3>1 DEF Events, Inv, TypeOK
    <3>2. [data |-> pipe_fd, hup |-> FALSE] \in Events
      BY DEF Events
    <3> QED BY <1>1, <1>2, <3>1, <3>2
  <2> QED BY <2>1 DEF Inv, TypeOK, PipeTypeOK
<1>4. EventsCurrent'
  <2>1. ASSUME NEW e \in events', e.data # pipe_fd
        PROVE  \E f \in Fds : /\ reg[f] # None
                              /\ e = [data |-> reg[f], hup |-> cstate[fdtab[f]] = "gone"]
    BY <1>1, <1>2, <2>1
  <2>2. ASSUME NEW e \in events', e.data # pipe_fd
        PROVE  /\ heap[e.data] = "live"
               /\ connfd[e.data] \in Fds
               /\ reg[connfd[e.data]] = e.data
               /\ e = [data |-> e.data,
                       hup |-> cstate[fdtab[connfd[e.data]]] = "gone"]
    <3>1. PICK f \in Fds : /\ reg[f] # None
                           /\ e = [data |-> reg[f], hup |-> cstate[fdtab[f]] = "gone"]
      BY <2>1, <2>2
    <3>2. e.data = reg[f] /\ connfd[reg[f]] = f /\ heap[reg[f]] = "live"
      BY <3>1 DEF Inv, PointerInv, RegOK
    <3> QED BY <3>1, <3>2
  <2> QED BY <2>2 DEF EventsCurrent, Registered
<1>5. RegOK' /\ PoolOK' /\ HeldOK' /\ LiveOK' /\ FdOK' /\ RetOK' /\ BacklogOK'
  BY DEF Inv, PointerInv, RegOK, PoolOK, HeldOK, LiveOK, FdOK, RetOK, BacklogOK, Busy
<1> QED BY <1>3, <1>4, <1>5 DEF Inv, PointerInv

\* The accept loop begins.
LEMMA NewClientStep ==
  ASSUME Inv, NEW e \in events, epoll_listen_NewClient(e)
  PROVE  Inv'
<1> USE DEF epoll_listen_NewClient, pipeVars, clientVars, streamVars, workerVars
<1>1. TypeOK'
  BY DEF Inv, TypeOK, PipeTypeOK
<1>2. EventsCurrent'
  BY DEF Inv, PointerInv, EventsCurrent, Registered
<1>3. RegOK' /\ PoolOK' /\ HeldOK' /\ LiveOK' /\ FdOK' /\ RetOK' /\ BacklogOK'
  BY DEF Inv, PointerInv, RegOK, PoolOK, HeldOK, LiveOK, FdOK, RetOK, BacklogOK, Busy
<1> QED BY <1>1, <1>2, <1>3 DEF Inv, PointerInv

\* The accept loop ends.
LEMMA AcceptEndsStep ==
  ASSUME Inv, epoll_listen_AcceptEnds
  PROVE  Inv'
<1> USE DEF epoll_listen_AcceptEnds, pipeVars, clientVars, streamVars, workerVars
<1>1. TypeOK'
  BY DEF Inv, TypeOK, PipeTypeOK
<1>2. EventsCurrent'
  BY DEF Inv, PointerInv, EventsCurrent, Registered
<1>3. RegOK' /\ PoolOK' /\ HeldOK' /\ LiveOK' /\ FdOK' /\ RetOK' /\ BacklogOK'
  BY DEF Inv, PointerInv, RegOK, PoolOK, HeldOK, LiveOK, FdOK, RetOK, BacklogOK, Busy
<1> QED BY <1>1, <1>2, <1>3 DEF Inv, PointerInv

\* When a connection leaves the backlog, those behind it move up, and it is
\* not among them.
LEMMA BacklogTail ==
  ASSUME Inv, backlog # <<>>
  PROVE  /\ Head(backlog) \in Conns
         /\ heap[Head(backlog)] = "none"
         /\ cstate[Head(backlog)] # "new"
         /\ Tail(backlog) \in Seq(Conns)
         /\ \A i \in 1..Len(Tail(backlog)) :
              /\ Tail(backlog)[i] \in Conns
              /\ heap[Tail(backlog)[i]] = "none"
              /\ cstate[Tail(backlog)[i]] # "new"
              /\ Tail(backlog)[i] # Head(backlog)
              /\ \A j \in 1..Len(Tail(backlog)) :
                   Tail(backlog)[i] = Tail(backlog)[j] => i = j
<1>1. backlog \in Seq(Conns)
  BY DEF Inv, TypeOK, PipeTypeOK
<1>2. /\ Head(backlog) \in Conns
      /\ Head(backlog) = backlog[1]
      /\ Len(backlog) \in Nat \ {0}
      /\ Tail(backlog) \in Seq(Conns)
      /\ Len(Tail(backlog)) = Len(backlog) - 1
      /\ \A i \in 1..Len(Tail(backlog)) : Tail(backlog)[i] = backlog[i + 1]
  BY <1>1, TailFacts
<1>3. \A i \in 1..Len(backlog) : backlog[i] \in Conns
  BY <1>1
<1> QED BY <1>2, <1>3 DEF Inv, PointerInv, BacklogOK

\* Owners of other data do not use the descriptor of c.
LEMMA OtherDescriptors ==
  ASSUME Inv, NEW c \in Conns, NEW d \in Conns, c # d,
         heap[c] = "live", heap[d] = "live"
  PROVE  connfd[c] # connfd[d]
BY DEF Inv, PointerInv, LiveOK, FdOK

\* A connection is accepted: it had no data, and the descriptor no owner.
LEMMA AcceptStep ==
  ASSUME Inv, NEW f \in Fds, epoll_listen_Accept(f)
  PROVE  Inv'
<1> DEFINE c == Head(backlog)
<1>0. /\ fdtab[f] = None
      /\ fdtab' = [fdtab EXCEPT ![f] = c]
      /\ heap' = [heap EXCEPT ![c] = "live"]
      /\ connfd' = [connfd EXCEPT ![c] = f]
      /\ reg' = [reg EXCEPT ![f] = c]
      /\ backlog' = Tail(backlog)
      /\ backlog # <<>>
      /\ UNCHANGED <<clientVars, c2s, s2c, peer, events, accepting, pool, workerVars, executed>>
  BY DEF epoll_listen_Accept, FreeFds
<1>1. c \in Conns /\ heap[c] = "none" /\ Tail(backlog) \in Seq(Conns) /\ cstate[c] # "new"
  BY <1>0, BacklogTail
<1>2. \A d \in Conns : heap[d] = "live" => d # c /\ connfd[d] # f
  BY <1>0, <1>1, EpollAssumption DEF Inv, PointerInv, FdOK, LiveOK
<1>t. /\ heap \in [Conns -> {"none", "live", "freed"}]
      /\ connfd \in [Conns -> Fds \cup {None}]
      /\ fdtab \in [Fds -> Conns \cup {None}]
      /\ reg \in [Fds -> Conns \cup {None}]
      /\ pool \in Seq(Conns)
      /\ events \in SUBSET Events
  BY DEF Inv, TypeOK
<1>p. \A i \in 1..Len(pool) : pool[i] \in Conns
  BY <1>t
<1> HIDE DEF c
<1>3. TypeOK'
  BY <1>0, <1>1 DEF Inv, TypeOK, PipeTypeOK, clientVars, workerVars
<1>4. RegOK'
  BY <1>0, <1>1, <1>2, <1>t DEF Inv, PointerInv, RegOK
<1>5. PoolOK'
  BY <1>0, <1>1, <1>2, <1>t, <1>p DEF Inv, PointerInv, PoolOK
<1>6. HeldOK'
  BY <1>0, <1>1, <1>2, <1>t DEF Inv, PointerInv, HeldOK, Busy, workerVars
<1>7. LiveOK'
  BY <1>0, <1>1, <1>2, <1>t DEF Inv, PointerInv, LiveOK, Busy, workerVars
<1>8. FdOK'
  BY <1>0, <1>1, <1>2, <1>t, EpollAssumption DEF Inv, PointerInv, FdOK
<1>9. EventsCurrent'
  <2>1. \A e \in events : e.data # pipe_fd => e.data \in Conns
    BY <1>t DEF Events
  <2> QED BY <1>0, <1>1, <1>2, <1>t, <2>1
          DEF Inv, PointerInv, EventsCurrent, Registered
<1>10. BacklogOK'
  <2>1. \A i \in 1..Len(backlog') :
          /\ backlog'[i] \in Conns
          /\ heap[backlog'[i]] = "none"
          /\ cstate[backlog'[i]] # "new"
          /\ backlog'[i] # c
          /\ \A j \in 1..Len(backlog') : backlog'[i] = backlog'[j] => i = j
    BY <1>0, BacklogTail DEF c
  <2> QED BY <1>0, <1>1, <1>t, <2>1
          DEF Inv, PointerInv, BacklogOK, clientVars
<1>11. RetOK'
  BY <1>0 DEF Inv, PointerInv, RetOK, workerVars
<1> QED BY <1>3, <1>4, <1>5, <1>6, <1>7, <1>8, <1>9, <1>10, <1>11 DEF Inv, PointerInv

\* A connection is accepted and given up at once.
LEMMA AcceptAddFailsStep ==
  ASSUME Inv, NEW f \in Fds, epoll_listen_AcceptAddFails(f)
  PROVE  Inv'
<1> DEFINE c == Head(backlog)
<1>0. /\ heap' = [heap EXCEPT ![c] = "freed"]
      /\ connfd' = [connfd EXCEPT ![c] = None]
      /\ peer' = [peer EXCEPT ![c] = IF c2s[c] = <<>> THEN "eof" ELSE "reset"]
      /\ backlog' = Tail(backlog)
      /\ backlog # <<>>
      /\ UNCHANGED <<clientVars, c2s, s2c, fdtab, listenVars, workerVars, executed>>
  BY DEF epoll_listen_AcceptAddFails, Free, HangUp
<1>1. c \in Conns /\ heap[c] = "none" /\ Tail(backlog) \in Seq(Conns) /\ cstate[c] # "new"
  BY <1>0, BacklogTail
<1>t. /\ heap \in [Conns -> {"none", "live", "freed"}]
      /\ connfd \in [Conns -> Fds \cup {None}]
      /\ reg \in [Fds -> Conns \cup {None}]
      /\ pool \in Seq(Conns)
      /\ events \in SUBSET Events
  BY DEF Inv, TypeOK
<1>p. \A i \in 1..Len(pool) : pool[i] \in Conns
  BY <1>t
<1>b. \A i \in 1..Len(backlog') :
        /\ backlog'[i] \in Conns
        /\ heap[backlog'[i]] = "none"
        /\ cstate[backlog'[i]] # "new"
        /\ backlog'[i] # c
        /\ \A j \in 1..Len(backlog') : backlog'[i] = backlog'[j] => i = j
  BY <1>0, BacklogTail
<1> HIDE DEF c
<1>3. TypeOK'
  <2>1. peer' \in [Conns -> PeerStates]
    BY <1>0 DEF Inv, TypeOK, PipeTypeOK, PeerStates
  <2>2. heap' \in [Conns -> {"none", "live", "freed"}]
    BY <1>0, <1>t
  <2>3. connfd' \in [Conns -> Fds \cup {None}]
    BY <1>0, <1>t
  <2> QED BY <1>0, <1>1, <2>1, <2>2, <2>3
          DEF Inv, TypeOK, PipeTypeOK, clientVars, listenVars, workerVars
<1>4. RegOK' /\ RetOK'
  BY <1>0, <1>1, <1>t DEF Inv, PointerInv, RegOK, RetOK, listenVars, workerVars
<1>5. PoolOK'
  BY <1>0, <1>1, <1>t, <1>p DEF Inv, PointerInv, PoolOK, listenVars
<1>w. /\ \A w \in Workers : Busy(w)' <=> Busy(w)
      /\ wdata' = wdata /\ wfd' = wfd /\ reg' = reg /\ pool' = pool
  BY <1>0 DEF Busy, listenVars, workerVars
<1>l. \A d \in Conns : heap'[d] = "live" <=> heap[d] = "live"
  BY <1>0, <1>1, <1>t
<1>f. \A d \in Conns : heap[d] = "live" => connfd'[d] = connfd[d]
  BY <1>0, <1>1, <1>t
<1>6. HeldOK'
  BY <1>w, <1>l, <1>f DEF Inv, PointerInv, HeldOK
<1>7. LiveOK'
  BY <1>w, <1>l, <1>f DEF Inv, PointerInv, LiveOK
<1>8. FdOK'
  BY <1>0, <1>1, <1>t DEF Inv, PointerInv, FdOK
<1>9. EventsCurrent'
  <2>1. \A e \in events : e.data # pipe_fd => e.data \in Conns
    BY <1>t DEF Events
  <2> QED BY <1>0, <1>1, <1>t, <2>1
          DEF Inv, PointerInv, EventsCurrent, Registered, listenVars
<1>10. BacklogOK'
  BY <1>0, <1>1, <1>t, <1>b DEF Inv, PointerInv, BacklogOK, clientVars
<1> QED BY <1>3, <1>4, <1>5, <1>6, <1>7, <1>8, <1>9, <1>10 DEF Inv, PointerInv

\* Data with exactly one owner is freed together with its descriptor, by that
\* owner: nothing else in the server refers to either.
LEMMA CloseAndFree ==
  ASSUME Inv, NEW d \in Conns, heap[d] = "live",
         \A i \in 1..Len(pool) : pool[i] # d,
         \A w \in Workers : Busy(w)' => Busy(w) /\ wdata[w] # d,
         \A w \in Workers : Busy(w) /\ wdata[w] # d => Busy(w)',
         \A w \in Workers : Busy(w)' => wdata'[w] = wdata[w] /\ wfd'[w] = wfd[w],
         \A e \in events' : e \in events /\ e.data # d,
         CloseFd(connfd[d]), Free(d),
         UNCHANGED <<clientVars, c2s, s2c, backlog, accepting, pool, executed>>
  PROVE  /\ PipeTypeOK'
         /\ fdtab' \in [Fds -> Conns \cup {None}]
         /\ heap' \in [Conns -> {"none", "live", "freed"}]
         /\ connfd' \in [Conns -> Fds \cup {None}]
         /\ reg' \in [Fds -> Conns \cup {None}]
         /\ RegOK' /\ PoolOK' /\ HeldOK' /\ LiveOK' /\ FdOK' /\ EventsCurrent' /\ BacklogOK'
<1> DEFINE f == connfd[d]
<1>0. f \in Fds /\ fdtab[f] = d /\ d # None
  BY EpollAssumption DEF Inv, PointerInv, LiveOK, FdOK
<1>1. /\ fdtab' = [fdtab EXCEPT ![f] = None]
      /\ reg' = [reg EXCEPT ![f] = None]
      /\ peer' = [peer EXCEPT ![d] = IF c2s[d] = <<>> THEN "eof" ELSE "reset"]
      /\ heap' = [heap EXCEPT ![d] = "freed"]
      /\ connfd' = [connfd EXCEPT ![d] = None]
  BY <1>0 DEF CloseFd, HangUp, Free
<1>2. \A c \in Conns : heap[c] = "live" /\ c # d => connfd[c] # f
  BY OtherDescriptors
<1>t. /\ heap \in [Conns -> {"none", "live", "freed"}]
      /\ connfd \in [Conns -> Fds \cup {None}]
      /\ fdtab \in [Fds -> Conns \cup {None}]
      /\ reg \in [Fds -> Conns \cup {None}]
      /\ pool \in Seq(Conns)
      /\ backlog \in Seq(Conns)
      /\ events \in SUBSET Events
      /\ PipeTypeOK
  BY DEF Inv, TypeOK, PipeTypeOK
<1>p. \A i \in 1..Len(pool) : pool[i] \in Conns
  BY <1>t
<1>b. \A i \in 1..Len(backlog) : backlog[i] \in Conns
  BY <1>t
<1> HIDE DEF f
<1>3. PipeTypeOK'
  <2>1. peer' \in [Conns -> PeerStates]
    BY <1>1, <1>t DEF PipeTypeOK, PeerStates
  <2> QED BY <2>1, <1>t DEF PipeTypeOK, clientVars
<1>4. /\ fdtab' \in [Fds -> Conns \cup {None}]
      /\ reg' \in [Fds -> Conns \cup {None}]
  BY <1>1, <1>t
<1>5. /\ heap' \in [Conns -> {"none", "live", "freed"}]
      /\ connfd' \in [Conns -> Fds \cup {None}]
  BY <1>1, <1>t
<1>6. RegOK'
  <2>1. ASSUME NEW g \in Fds, reg'[g] # None
        PROVE  g # f /\ reg'[g] = reg[g] /\ reg[g] # d /\ reg[g] \in Conns
    BY <1>1, <1>t, <2>1 DEF Inv, PointerInv, RegOK, f
  <2> QED BY <1>1, <1>t, <2>1 DEF Inv, PointerInv, RegOK
<1>7. PoolOK'
  BY <1>1, <1>2, <1>t, <1>p DEF Inv, PointerInv, PoolOK
<1>8. HeldOK'
  BY <1>1, <1>2, <1>t DEF Inv, PointerInv, HeldOK
<1>9. LiveOK'
  <2> SUFFICES ASSUME NEW c \in Conns, heap'[c] = "live"
               PROVE  /\ connfd'[c] \in Fds
                      /\ \/ reg'[connfd'[c]] = c
                         \/ \E i \in 1..Len(pool') : pool'[i] = c
                         \/ \E w \in Workers : Busy(w)' /\ wdata'[w] = c
    BY DEF LiveOK
  <2>1. c # d /\ heap[c] = "live" /\ connfd'[c] = connfd[c] /\ connfd[c] # f
    BY <1>1, <1>2, <1>t
  <2>2. \/ reg[connfd[c]] = c
        \/ \E i \in 1..Len(pool) : pool[i] = c
        \/ \E w \in Workers : Busy(w) /\ wdata[w] = c
    BY <2>1 DEF Inv, PointerInv, LiveOK
  <2>3. connfd[c] \in Fds
    BY <2>1 DEF Inv, PointerInv, LiveOK
  <2> QED BY <1>1, <1>t, <2>1, <2>2, <2>3
<1>10. FdOK'
  BY <1>0, <1>1, <1>2, <1>t, EpollAssumption DEF Inv, PointerInv, FdOK
<1>11. EventsCurrent'
  <2>1. \A e \in events : e.data # pipe_fd => e.data \in Conns
    BY <1>t DEF Events
  <2> QED BY <1>1, <1>2, <1>t, <2>1 DEF Inv, PointerInv, EventsCurrent, Registered
<1>12. BacklogOK'
  BY <1>1, <1>t, <1>b DEF Inv, PointerInv, BacklogOK, clientVars
<1> QED BY <1>3, <1>4, <1>5, <1>6, <1>7, <1>8, <1>9, <1>10, <1>11, <1>12

\* The listener closes a connection its client has left.
LEMMA HupStep ==
  ASSUME Inv, NEW e \in events, epoll_listen_Hup(e)
  PROVE  Inv'
<1> DEFINE d == e.data
<1>0. /\ e.data # pipe_fd
      /\ events' = events \ {e}
      /\ CloseFd(connfd[d]) /\ Free(d)
      /\ UNCHANGED <<clientVars, c2s, s2c, backlog, accepting, pool, workerVars, executed>>
  BY DEF epoll_listen_Hup
<1>1. d \in Conns
  BY <1>0 DEF Inv, TypeOK, Events
<1>2. heap[d] = "live" /\ connfd[d] \in Fds /\ reg[connfd[d]] = d /\ d # None
  BY <1>0, <1>1, EpollAssumption DEF Inv, PointerInv, EventsCurrent, Registered
<1>3. \A i \in 1..Len(pool) : pool[i] # d
  BY <1>2 DEF Inv, PointerInv, PoolOK
<1>4. \A w \in Workers : Busy(w) => wdata[w] # d
  BY <1>2 DEF Inv, PointerInv, HeldOK
<1>5. \A x \in events' : x \in events /\ x.data # d
  BY <1>0, <1>1 DEF Inv, PointerInv, EventsCurrent
<1>6. \A w \in Workers : Busy(w)' <=> Busy(w)
  BY <1>0 DEF Busy, workerVars
<1>7. \A w \in Workers : wdata'[w] = wdata[w] /\ wfd'[w] = wfd[w]
  BY <1>0 DEF workerVars
<1> HIDE DEF d
<1>8. /\ PipeTypeOK'
      /\ fdtab' \in [Fds -> Conns \cup {None}]
      /\ heap' \in [Conns -> {"none", "live", "freed"}]
      /\ connfd' \in [Conns -> Fds \cup {None}]
      /\ reg' \in [Fds -> Conns \cup {None}]
      /\ RegOK' /\ PoolOK' /\ HeldOK' /\ LiveOK' /\ FdOK' /\ EventsCurrent' /\ BacklogOK'
  BY <1>0, <1>1, <1>2, <1>3, <1>4, <1>5, <1>6, <1>7, CloseAndFree
<1>9. TypeOK' /\ RetOK'
  BY <1>0, <1>8 DEF Inv, TypeOK, PointerInv, RetOK, workerVars
<1> QED BY <1>8, <1>9 DEF Inv, PointerInv

\* The listener hands a readable connection to the pool.
LEMMA DispatchStep ==
  ASSUME Inv, NEW e \in events, epoll_listen_Dispatch(e)
  PROVE  Inv'
<1> DEFINE d == e.data
<1>0. /\ e.data # pipe_fd
      /\ events' = events \ {e}
      /\ reg' = [reg EXCEPT ![connfd[d]] = None]
      /\ pool' = Append(pool, d)
      /\ UNCHANGED <<pipeVars, fdtab, heap, connfd, accepting, workerVars, executed>>
  BY DEF epoll_listen_Dispatch
<1>1. d \in Conns
  BY <1>0 DEF Inv, TypeOK, Events
<1>2. heap[d] = "live" /\ connfd[d] \in Fds /\ reg[connfd[d]] = d /\ d # None
  BY <1>0, <1>1, EpollAssumption DEF Inv, PointerInv, EventsCurrent, Registered
<1>3. \A i \in 1..Len(pool) : pool[i] # d
  BY <1>2 DEF Inv, PointerInv, PoolOK
<1>4. \A w \in Workers : Busy(w) => wdata[w] # d
  BY <1>2 DEF Inv, PointerInv, HeldOK
<1>5. \A x \in events' : x \in events /\ x.data # d
  BY <1>0, <1>1 DEF Inv, PointerInv, EventsCurrent
<1>6. \A w \in Workers : Busy(w)' <=> Busy(w)
  BY <1>0 DEF Busy, workerVars
<1>7. wdata' = wdata /\ wfd' = wfd
  BY <1>0 DEF workerVars
<1>8. \A c \in Conns : heap[c] = "live" /\ c # d => connfd[c] # connfd[d]
  BY <1>1, <1>2, OtherDescriptors
<1>t. /\ reg \in [Fds -> Conns \cup {None}]
      /\ pool \in Seq(Conns)
      /\ events \in SUBSET Events
  BY DEF Inv, TypeOK
<1>p. /\ \A i \in 1..Len(pool) : pool[i] \in Conns /\ pool'[i] = pool[i]
      /\ Len(pool) \in Nat
      /\ Len(pool') = Len(pool) + 1
      /\ pool'[Len(pool) + 1] = d
      /\ pool' \in Seq(Conns)
  BY <1>0, <1>1, <1>t, AppendFacts
<1> HIDE DEF d
<1>10. TypeOK'
  <2>1. reg' \in [Fds -> Conns \cup {None}]
    BY <1>0, <1>t
  <2> QED BY <1>0, <1>p, <2>1
          DEF Inv, TypeOK, PipeTypeOK, pipeVars, clientVars, streamVars, workerVars
<1>11. RegOK'
  BY <1>0, <1>t DEF Inv, PointerInv, RegOK
<1>12. PoolOK'
  BY <1>0, <1>1, <1>2, <1>3, <1>8, <1>t, <1>p DEF Inv, PointerInv, PoolOK
<1>13. HeldOK'
  BY <1>0, <1>1, <1>2, <1>4, <1>6, <1>7, <1>8, <1>t, <1>p DEF Inv, PointerInv, HeldOK
<1>14. LiveOK'
  <2> SUFFICES ASSUME NEW c \in Conns, heap[c] = "live"
               PROVE  /\ connfd[c] \in Fds
                      /\ \/ reg'[connfd[c]] = c
                         \/ \E i \in 1..Len(pool') : pool'[i] = c
                         \/ \E w \in Workers : Busy(w)' /\ wdata'[w] = c
    BY <1>0 DEF LiveOK
  <2>1. CASE c = d
    BY <1>2, <1>p, <2>1
  <2>2. CASE c # d
    <3>1. /\ connfd[c] \in Fds
          /\ \/ reg[connfd[c]] = c
             \/ \E i \in 1..Len(pool) : pool[i] = c
             \/ \E w \in Workers : Busy(w) /\ wdata[w] = c
      BY DEF Inv, PointerInv, LiveOK
    <3> QED BY <1>0, <1>6, <1>7, <1>8, <1>t, <1>p, <2>2, <3>1
  <2> QED BY <2>1, <2>2
<1>15. FdOK' /\ RetOK' /\ BacklogOK'
  BY <1>0 DEF Inv, PointerInv, FdOK, RetOK, BacklogOK, pipeVars, clientVars, streamVars,
              workerVars
<1>16. EventsCurrent'
  <2>1. \A x \in events : x.data # pipe_fd => x.data \in Conns
    BY <1>t DEF Events
  <2> QED BY <1>0, <1>5, <1>8, <1>t, <2>1 DEF Inv, PointerInv, EventsCurrent, Registered
<1> QED BY <1>10, <1>11, <1>12, <1>13, <1>14, <1>15, <1>16 DEF Inv, PointerInv

-----------------------------------------------------------------------------
(* The workers' steps.                                                     *)

\* A worker takes the oldest pointer from the pool's queue.
LEMMA TakeStep ==
  ASSUME Inv, NEW w \in Workers, handle_named_pipe_client_with_threadpool(w)
  PROVE  Inv'
<1> DEFINE d == Head(pool)
<1>0. /\ wpc[w] = "idle"
      /\ pool # <<>>
      /\ wpc' = [wpc EXCEPT ![w] = "len"]
      /\ wdata' = [wdata EXCEPT ![w] = d]
      /\ wfd' = [wfd EXCEPT ![w] = connfd[d]]
      /\ pool' = Tail(pool)
      /\ UNCHANGED <<pipeVars, fdtab, heap, connfd, reg, events, accepting, wreq, wret, executed>>
  BY DEF handle_named_pipe_client_with_threadpool, Goto
<1>t. /\ pool \in Seq(Conns)
      /\ wpc \in [Workers -> WorkerStates]
      /\ wdata \in [Workers -> Conns \cup {None}]
      /\ wfd \in [Workers -> Fds \cup {None}]
      /\ wret \in [Workers -> {0, -1}]
      /\ connfd \in [Conns -> Fds \cup {None}]
  BY DEF Inv, TypeOK
<1>1. /\ d \in Conns
      /\ d = pool[1]
      /\ Len(pool) \in Nat \ {0}
      /\ Tail(pool) \in Seq(Conns)
      /\ Len(pool') = Len(pool) - 1
      /\ \A i \in 1..Len(pool') : pool'[i] = pool[i + 1]
  BY <1>0, <1>t, TailFacts
<1> HIDE DEF d
<1>2. /\ heap[d] = "live"
      /\ connfd[d] \in Fds
      /\ reg[connfd[d]] = None
      /\ \A j \in 1..Len(pool) : pool[j] = d => j = 1
  BY <1>1 DEF Inv, PointerInv, PoolOK
<1>3. \A v \in Workers : Busy(v)' <=> Busy(v) \/ v = w
  BY <1>0, <1>t DEF Busy, WorkerStates
<1>4. ~Busy(w) /\ \A v \in Workers : Busy(v) => wdata[v] # d
  BY <1>0, <1>1 DEF Inv, PointerInv, HeldOK, Busy
<1>5. TypeOK'
  BY <1>0, <1>1, <1>t DEF Inv, TypeOK, PipeTypeOK, WorkerStates, pipeVars, clientVars, streamVars
<1>6. RegOK' /\ FdOK' /\ EventsCurrent' /\ BacklogOK'
  BY <1>0 DEF Inv, PointerInv, RegOK, FdOK, EventsCurrent, Registered, BacklogOK,
              pipeVars, clientVars, streamVars
<1>7. PoolOK'
  BY <1>0, <1>1 DEF Inv, PointerInv, PoolOK
<1>8. HeldOK'
  <2> SUFFICES ASSUME NEW v \in Workers, Busy(v)'
               PROVE  /\ wdata'[v] \in Conns
                      /\ heap[wdata'[v]] = "live"
                      /\ wfd'[v] \in Fds
                      /\ connfd[wdata'[v]] = wfd'[v]
                      /\ reg[wfd'[v]] = None
                      /\ \A i \in 1..Len(pool') : pool'[i] # wdata'[v]
                      /\ \A u \in Workers : Busy(u)' /\ wdata'[u] = wdata'[v] => u = v
    BY <1>0 DEF HeldOK
  <2>1. CASE v = w
    <3>1. wdata'[v] = d /\ wfd'[v] = connfd[d]
      BY <1>0, <1>t, <2>1
    <3>2. \A i \in 1..Len(pool') : pool'[i] # d
      BY <1>1, <1>2
    <3>3. \A u \in Workers : Busy(u)' /\ wdata'[u] = d => u = v
      BY <1>0, <1>3, <1>4, <1>t, <2>1
    <3> QED BY <1>1, <1>2, <3>1, <3>2, <3>3
  <2>2. CASE v # w
    <3>1. Busy(v) /\ wdata'[v] = wdata[v] /\ wfd'[v] = wfd[v]
      BY <1>0, <1>3, <1>t, <2>2
    <3>2. \A i \in 1..Len(pool') : pool'[i] # wdata[v]
      BY <1>1, <3>1 DEF Inv, PointerInv, HeldOK
    <3>3. \A u \in Workers : Busy(u)' /\ wdata'[u] = wdata[v] => u = v
      BY <1>0, <1>3, <1>4, <1>t, <3>1 DEF Inv, PointerInv, HeldOK
    <3> QED BY <3>1, <3>2, <3>3 DEF Inv, PointerInv, HeldOK
  <2> QED BY <2>1, <2>2
<1>9. LiveOK'
  <2> SUFFICES ASSUME NEW c \in Conns, heap[c] = "live"
               PROVE  /\ connfd[c] \in Fds
                      /\ \/ reg[connfd[c]] = c
                         \/ \E i \in 1..Len(pool') : pool'[i] = c
                         \/ \E v \in Workers : Busy(v)' /\ wdata'[v] = c
    BY <1>0 DEF LiveOK
  <2>1. /\ connfd[c] \in Fds
        /\ \/ reg[connfd[c]] = c
           \/ \E i \in 1..Len(pool) : pool[i] = c
           \/ \E v \in Workers : Busy(v) /\ wdata[v] = c
    BY DEF Inv, PointerInv, LiveOK
  <2>2. CASE c = d
    BY <1>0, <1>3, <1>t, <2>1, <2>2
  <2>3. ASSUME c # d, NEW i \in 1..Len(pool), pool[i] = c
        PROVE  \E j \in 1..Len(pool') : pool'[j] = c
    <3>1. i # 1 /\ i - 1 \in 1..Len(pool')
      BY <1>1, <2>3
    <3>2. pool'[i - 1] = c
      BY <1>1, <2>3, <3>1
    <3> QED BY <3>1, <3>2
  <2>4. ASSUME NEW v \in Workers, Busy(v), wdata[v] = c
        PROVE  Busy(v)' /\ wdata'[v] = c
    BY <1>0, <1>3, <1>4, <1>t, <2>4
  <2> QED BY <2>1, <2>2, <2>3, <2>4
<1>10. RetOK'
  BY <1>0, <1>t DEF Inv, PointerInv, RetOK
<1> QED BY <1>5, <1>6, <1>7, <1>8, <1>9, <1>10 DEF Inv, PointerInv

\* Steps inside epoll_handler leave every owner where it is.
LEMMA InsideHandler ==
  ASSUME Inv, TypeOK', RetOK',
         \A v \in Workers : Busy(v)' <=> Busy(v),
         UNCHANGED <<cstate, backlog, fdtab, heap, connfd, listenVars, wdata, wfd>>
  PROVE  Inv'
<1>1. RegOK' /\ FdOK' /\ EventsCurrent' /\ BacklogOK' /\ PoolOK'
  BY DEF Inv, PointerInv, RegOK, FdOK, EventsCurrent, Registered, BacklogOK, PoolOK, listenVars
<1>2. HeldOK' /\ LiveOK'
  BY DEF Inv, PointerInv, HeldOK, LiveOK, listenVars
<1> QED BY <1>1, <1>2 DEF Inv, PointerInv

\* The socket of a busy worker is its own connection.
LEMMA BusySock ==
  ASSUME Inv, NEW w \in Workers, Busy(w)
  PROVE  Sock(w) = wdata[w] /\ Sock(w) \in Conns /\ wfd[w] \in Fds
BY DEF Inv, PointerInv, HeldOK, FdOK, Sock

\* Reading the request, running it, writing the response.
LEMMA HandlerStep ==
  ASSUME Inv, NEW w \in Workers,
         \/ epoll_handler_ReadLen(w) \/ epoll_handler_ReadText(w)
         \/ epoll_handler_ReadFails(w) \/ epoll_handler_Call(w)
         \/ epoll_handler_WriteLen(w) \/ epoll_handler_WriteText(w)
         \/ epoll_handler_WriteFails(w) \/ epoll_handler_AddFails(w)
  PROVE  Inv'
<1>t. /\ wpc \in [Workers -> WorkerStates]
      /\ wret \in [Workers -> {0, -1}]
      /\ wreq \in [Workers -> Nat]
      /\ c2s \in [Conns -> Seq(Units)]
      /\ s2c \in [Conns -> Seq(Units)]
      /\ executed \in [Conns -> Seq(Nat)]
  BY DEF Inv, TypeOK, PipeTypeOK
<1>r. \A v \in Workers : wpc[v] # "out" => wret[v] = 0
  BY DEF Inv, PointerInv, RetOK
<1> DEFINE frame == UNCHANGED <<cstate, calls, result, peer, backlog, fdtab, heap, connfd,
                                listenVars, wdata, wfd>>
<1>1. wpc[w] \notin {"idle", "out"}
  BY DEF epoll_handler_ReadLen, epoll_handler_ReadText, epoll_handler_ReadFails,
         epoll_handler_Call, epoll_handler_WriteLen, epoll_handler_WriteText,
         epoll_handler_Write, epoll_handler_WriteFails, epoll_handler_AddFails
<1>2. Busy(w) /\ Sock(w) \in Conns
  BY <1>1, BusySock DEF Busy
<1>3. frame
  BY DEF epoll_handler_ReadLen, epoll_handler_ReadText, epoll_handler_ReadFails,
         epoll_handler_Call, epoll_handler_WriteLen, epoll_handler_WriteText,
         epoll_handler_Write, epoll_handler_WriteFails, epoll_handler_AddFails,
         clientVars, pipeVars, streamVars
<1>4. \/ /\ \E l \in WorkerStates \ {"idle", "out"} : wpc' = [wpc EXCEPT ![w] = l]
         /\ wret' = wret
      \/ /\ wpc' = [wpc EXCEPT ![w] = "out"]
         /\ wret' = [wret EXCEPT ![w] = -1]
  BY DEF epoll_handler_ReadLen, epoll_handler_ReadText, epoll_handler_ReadFails,
         epoll_handler_Call, epoll_handler_WriteLen, epoll_handler_WriteText,
         epoll_handler_Write, epoll_handler_WriteFails, epoll_handler_AddFails,
         GotoOut, Goto, WorkerStates
<1>5. \A v \in Workers : Busy(v)' <=> Busy(v)
  BY <1>1, <1>4, <1>t DEF Busy
<1>6. RetOK'
  BY <1>r, <1>1, <1>4, <1>t DEF RetOK
<1>7. /\ wpc' \in [Workers -> WorkerStates]
      /\ wret' \in [Workers -> {0, -1}]
  BY <1>4, <1>t DEF WorkerStates
<1>8. c2s' \in [Conns -> Seq(Units)]
  <2>1. \/ c2s' = c2s
        \/ c2s[Sock(w)] # <<>> /\ c2s' = Take(c2s, Sock(w))
    BY DEF epoll_handler_ReadLen, epoll_handler_ReadText, epoll_handler_ReadFails,
           epoll_handler_Call, epoll_handler_WriteLen, epoll_handler_WriteText,
           epoll_handler_Write, epoll_handler_WriteFails, epoll_handler_AddFails,
           pipeVars, streamVars
  <2>2. c2s[Sock(w)] # <<>> => Take(c2s, Sock(w)) \in [Conns -> Seq(Units)]
    BY <1>2, <1>t, StreamTypes
  <2> QED BY <1>t, <2>1, <2>2
<1>9. s2c' \in [Conns -> Seq(Units)]
  <2>1. \/ s2c' = s2c
        \/ \E part \in {"len", "text", "cut"} : s2c' = Put(s2c, Sock(w), part, wreq[w])
    BY DEF epoll_handler_ReadLen, epoll_handler_ReadText, epoll_handler_ReadFails,
           epoll_handler_Call, epoll_handler_WriteLen, epoll_handler_WriteText,
           epoll_handler_Write, epoll_handler_WriteFails, epoll_handler_AddFails,
           pipeVars, streamVars
  <2>2. \A part \in {"len", "text", "cut"} :
          Put(s2c, Sock(w), part, wreq[w]) \in [Conns -> Seq(Units)]
    <3>1. wreq[w] \in Nat
      BY <1>t
    <3> QED BY <1>2, <1>t, <3>1, StreamTypes
  <2>3. CASE s2c' = s2c
    BY <1>t, <2>3
  <2>4. CASE s2c' # s2c
    <3>1. PICK part \in {"len", "text", "cut"} : s2c' = Put(s2c, Sock(w), part, wreq[w])
      BY <2>1, <2>4
    <3> QED BY <2>2, <3>1
  <2> QED BY <2>3, <2>4
<1>10. wreq' \in [Workers -> Nat]
  <2>1. \/ wreq' = wreq
        \/ /\ c2s[Sock(w)] # <<>>
           /\ wreq' = [wreq EXCEPT ![w] = Head(c2s[Sock(w)]).call]
    BY DEF epoll_handler_ReadLen, epoll_handler_ReadText, epoll_handler_ReadFails,
           epoll_handler_Call, epoll_handler_WriteLen, epoll_handler_WriteText,
           epoll_handler_Write, epoll_handler_WriteFails, epoll_handler_AddFails
  <2>2. c2s[Sock(w)] # <<>> => Head(c2s[Sock(w)]).call \in Nat
    BY <1>2, <1>t, StreamTypes DEF Units
  <2> QED BY <1>t, <2>1, <2>2
<1>11. executed' \in [Conns -> Seq(Nat)]
  <2>1. \/ executed' = executed
        \/ executed' = [executed EXCEPT ![Sock(w)] = Append(@, wreq[w])]
    BY DEF epoll_handler_ReadLen, epoll_handler_ReadText, epoll_handler_ReadFails,
           epoll_handler_Call, epoll_handler_WriteLen, epoll_handler_WriteText,
           epoll_handler_Write, epoll_handler_WriteFails, epoll_handler_AddFails
  <2>2. Append(executed[Sock(w)], wreq[w]) \in Seq(Nat)
    BY <1>2, <1>t
  <2> QED BY <1>2, <1>t, <2>1, <2>2
<1>12. TypeOK'
  BY <1>3, <1>7, <1>8, <1>9, <1>10, <1>11 DEF Inv, TypeOK, PipeTypeOK, listenVars
<1> QED BY <1>3, <1>5, <1>6, <1>12, InsideHandler

\* A worker puts its socket back into epoll, and with it the ownership.
LEMMA AddStep ==
  ASSUME Inv, NEW w \in Workers, epoll_handler_Add(w)
  PROVE  Inv'
<1> DEFINE d == wdata[w]
           f == wfd[w]
<1>0. /\ wpc[w] = "add"
      /\ reg' = [reg EXCEPT ![f] = d]
      /\ wpc' = [wpc EXCEPT ![w] = "out"]
      /\ UNCHANGED <<pipeVars, fdtab, heap, connfd, events, accepting, pool, wdata, wfd,
                     wreq, wret, executed>>
  BY DEF epoll_handler_Add, Goto
<1>t. /\ wpc \in [Workers -> WorkerStates]
      /\ wret \in [Workers -> {0, -1}]
      /\ reg \in [Fds -> Conns \cup {None}]
      /\ pool \in Seq(Conns)
      /\ events \in SUBSET Events
  BY DEF Inv, TypeOK
<1>1. Busy(w) /\ wret[w] = 0
  BY <1>0 DEF Busy, Inv, PointerInv, RetOK
<1>2. /\ d \in Conns /\ heap[d] = "live"
      /\ f \in Fds /\ connfd[d] = f /\ reg[f] = None
      /\ \A i \in 1..Len(pool) : pool[i] # d
      /\ \A v \in Workers : Busy(v) /\ wdata[v] = d => v = w
  BY <1>1 DEF Inv, PointerInv, HeldOK
<1>3. \A v \in Workers : Busy(v)' <=> Busy(v) /\ v # w
  BY <1>0, <1>1, <1>t DEF Busy
<1>4. \A c \in Conns : heap[c] = "live" /\ c # d => connfd[c] # f
  BY <1>2, OtherDescriptors
<1>p. \A i \in 1..Len(pool) : pool[i] \in Conns
  BY <1>t
<1> HIDE DEF d, f
<1>5. TypeOK'
  <2>1. reg' \in [Fds -> Conns \cup {None}] /\ wpc' \in [Workers -> WorkerStates]
    BY <1>0, <1>2, <1>t DEF WorkerStates
  <2> QED BY <1>0, <2>1 DEF Inv, TypeOK, PipeTypeOK, pipeVars, clientVars, streamVars
<1>6. RegOK'
  BY <1>0, <1>2, <1>t DEF Inv, PointerInv, RegOK
<1>7. PoolOK'
  BY <1>0, <1>2, <1>4, <1>t, <1>p DEF Inv, PointerInv, PoolOK
<1>8. HeldOK'
  <2>1. \A v \in Workers : Busy(v) /\ v # w => wdata[v] # d /\ wfd[v] # f
    BY <1>2, <1>4 DEF Inv, PointerInv, HeldOK
  <2> QED BY <1>0, <1>2, <1>3, <1>t, <2>1 DEF Inv, PointerInv, HeldOK
<1>9. LiveOK'
  <2> SUFFICES ASSUME NEW c \in Conns, heap[c] = "live"
               PROVE  /\ connfd[c] \in Fds
                      /\ \/ reg'[connfd[c]] = c
                         \/ \E i \in 1..Len(pool) : pool[i] = c
                         \/ \E v \in Workers : Busy(v)' /\ wdata[v] = c
    BY <1>0 DEF LiveOK
  <2>1. CASE c = d
    BY <1>0, <1>2, <1>t, <2>1
  <2>2. CASE c # d
    <3>1. /\ connfd[c] \in Fds
          /\ \/ reg[connfd[c]] = c
             \/ \E i \in 1..Len(pool) : pool[i] = c
             \/ \E v \in Workers : Busy(v) /\ wdata[v] = c
      BY DEF Inv, PointerInv, LiveOK
    <3> QED BY <1>0, <1>3, <1>4, <1>t, <2>2, <3>1 DEF d
  <2> QED BY <2>1, <2>2
<1>10. FdOK' /\ BacklogOK'
  BY <1>0 DEF Inv, PointerInv, FdOK, BacklogOK, pipeVars, clientVars, streamVars
<1>11. EventsCurrent'
  <2>1. \A e \in events : e.data # pipe_fd =>
          e.data \in Conns /\ heap[e.data] = "live" /\ reg[connfd[e.data]] = e.data
    BY <1>t DEF Events, Inv, PointerInv, EventsCurrent, Registered
  <2>2. \A e \in events : e.data # pipe_fd => connfd[e.data] # f
    BY <1>2, <2>1, EpollAssumption
  <2> QED BY <1>0, <1>t, <2>2 DEF Inv, PointerInv, EventsCurrent, Registered
<1>12. RetOK'
  BY <1>0, <1>t DEF Inv, PointerInv, RetOK
<1> QED BY <1>5, <1>6, <1>7, <1>8, <1>9, <1>10, <1>11, <1>12 DEF Inv, PointerInv

\* A worker returns to the pool; after a failure it frees what it owns.
LEMMA OutStep ==
  ASSUME Inv, NEW w \in Workers, epoll_handler_Out(w)
  PROVE  Inv'
<1>0. /\ wpc[w] = "out"
      /\ wpc' = [wpc EXCEPT ![w] = "idle"]
      /\ wdata' = [wdata EXCEPT ![w] = None]
      /\ wfd' = [wfd EXCEPT ![w] = None]
      /\ wreq' = [wreq EXCEPT ![w] = 0]
      /\ wret' = [wret EXCEPT ![w] = 0]
      /\ UNCHANGED <<clientVars, c2s, s2c, backlog, events, accepting, pool, executed>>
  BY DEF epoll_handler_Out, ReturnToPool, Goto
<1>t. /\ wpc \in [Workers -> WorkerStates]
      /\ wdata \in [Workers -> Conns \cup {None}]
      /\ wfd \in [Workers -> Fds \cup {None}]
      /\ wreq \in [Workers -> Nat]
      /\ wret \in [Workers -> {0, -1}]
      /\ events \in SUBSET Events
  BY DEF Inv, TypeOK
<1>1. /\ wpc' \in [Workers -> WorkerStates]
      /\ wdata' \in [Workers -> Conns \cup {None}]
      /\ wfd' \in [Workers -> Fds \cup {None}]
      /\ wreq' \in [Workers -> Nat]
      /\ wret' \in [Workers -> {0, -1}]
  BY <1>0, <1>t DEF WorkerStates
<1>2. \A v \in Workers : Busy(v)' <=> Busy(v) /\ v # w
  BY <1>0, <1>t DEF Busy, WorkerStates
<1>3. \A v \in Workers : v # w => wdata'[v] = wdata[v] /\ wfd'[v] = wfd[v]
  BY <1>0, <1>t
<1>4. RetOK'
  BY <1>0, <1>t DEF Inv, PointerInv, RetOK
<1>5. CASE wret[w] = 0
  <2>1. UNCHANGED <<fdtab, reg, peer, heap, connfd>>
    BY <1>5 DEF epoll_handler_Out
  <2>2. ~Busy(w)
    BY <1>0, <1>5 DEF Busy
  <2>3. TypeOK'
    BY <1>0, <1>1, <2>1 DEF Inv, TypeOK, PipeTypeOK, clientVars
  <2>4. RegOK' /\ PoolOK' /\ FdOK' /\ EventsCurrent' /\ BacklogOK'
    BY <1>0, <2>1 DEF Inv, PointerInv, RegOK, PoolOK, FdOK, EventsCurrent, Registered,
                      BacklogOK, clientVars
  <2>5. HeldOK'
    BY <1>0, <1>2, <1>3, <2>1 DEF Inv, PointerInv, HeldOK
  <2>6. LiveOK'
    BY <1>0, <1>2, <1>3, <2>1, <2>2 DEF Inv, PointerInv, LiveOK
  <2> QED BY <1>4, <2>3, <2>4, <2>5, <2>6 DEF Inv, PointerInv
<1>6. CASE wret[w] = -1
  <2> DEFINE d == wdata[w]
  <2>1. Busy(w)
    BY <1>0, <1>6 DEF Busy
  <2>2. /\ d \in Conns /\ heap[d] = "live"
        /\ connfd[d] = wfd[w] /\ wfd[w] \in Fds /\ reg[wfd[w]] = None
        /\ \A i \in 1..Len(pool) : pool[i] # d
        /\ \A v \in Workers : Busy(v) /\ wdata[v] = d => v = w
    BY <2>1 DEF Inv, PointerInv, HeldOK
  <2>3. CloseFd(connfd[d]) /\ Free(d)
    BY <1>6, <2>2 DEF epoll_handler_Out
  <2>4. \A e \in events' : e \in events /\ e.data # d
    <3>1. \A e \in events : e.data = d => e.data # pipe_fd
      BY <2>2, EpollAssumption
    <3> QED BY <1>0, <2>2, <3>1, EpollAssumption
            DEF Inv, PointerInv, EventsCurrent, Registered
  <2> HIDE DEF d
  <2>5. /\ PipeTypeOK'
        /\ fdtab' \in [Fds -> Conns \cup {None}]
        /\ heap' \in [Conns -> {"none", "live", "freed"}]
        /\ connfd' \in [Conns -> Fds \cup {None}]
        /\ reg' \in [Fds -> Conns \cup {None}]
        /\ RegOK' /\ PoolOK' /\ HeldOK' /\ LiveOK' /\ FdOK' /\ EventsCurrent' /\ BacklogOK'
    <3>1. \A v \in Workers : Busy(v)' => Busy(v) /\ wdata[v] # d
      BY <1>2, <2>2
    <3>2. \A v \in Workers : Busy(v) /\ wdata[v] # d => Busy(v)'
      BY <1>2 DEF d
    <3>3. \A v \in Workers : Busy(v)' => wdata'[v] = wdata[v] /\ wfd'[v] = wfd[v]
      BY <1>2, <1>3
    <3> QED BY <1>0, <2>2, <2>3, <2>4, <3>1, <3>2, <3>3, CloseAndFree
  <2>6. TypeOK'
    BY <1>0, <1>1, <2>5 DEF Inv, TypeOK
  <2> QED BY <1>4, <2>5, <2>6 DEF Inv, PointerInv
<1> QED BY <1>5, <1>6, <1>t

-----------------------------------------------------------------------------
(* The invariant and what follows from it.                                 *)

\* Inv holds at the start.
LEMMA InvInit == Init => Inv
<1> SUFFICES ASSUME Init PROVE Inv
  OBVIOUS
<1>1. PipeTypeOK
  BY DEF Init, PipeInit, PipeTypeOK, ClientStates, PeerStates, Returned, Results
<1>2. TypeOK
  <2>1. /\ fdtab \in [Fds -> Conns \cup {None}]
        /\ heap \in [Conns -> {"none", "live", "freed"}]
        /\ connfd \in [Conns -> Fds \cup {None}]
        /\ reg \in [Fds -> Conns \cup {None}]
        /\ events \in SUBSET Events
        /\ accepting \in BOOLEAN
    BY DEF Init
  <2>2. pool \in Seq(Conns) /\ executed \in [Conns -> Seq(Nat)]
    BY DEF Init
  <2>3. /\ wpc \in [Workers -> WorkerStates]
        /\ wdata \in [Workers -> Conns \cup {None}]
        /\ wfd \in [Workers -> Fds \cup {None}]
        /\ wreq \in [Workers -> Nat]
        /\ wret \in [Workers -> {0, -1}]
    BY DEF Init, WorkerStates
  <2> QED BY <1>1, <2>1, <2>2, <2>3 DEF TypeOK
<1>3. RegOK /\ PoolOK /\ LiveOK /\ EventsCurrent /\ RetOK
  BY DEF Init, RegOK, PoolOK, LiveOK, EventsCurrent, RetOK
<1>4. HeldOK
  BY DEF Init, HeldOK, Busy
<1>5. FdOK
  BY EpollAssumption DEF Init, FdOK
<1>6. BacklogOK
  BY DEF Init, PipeInit, BacklogOK
<1> QED BY <1>2, <1>3, <1>4, <1>5, <1>6 DEF Inv, PointerInv

\* Every step keeps Inv.
LEMMA InvNext == Inv /\ [Next]_vars => Inv'
<1> SUFFICES ASSUME Inv, [Next]_vars PROVE Inv'
  OBVIOUS
<1>1. CASE epoll_listen
  BY <1>1, WaitStep, NewClientStep, HupStep, DispatchStep, AcceptStep,
     AcceptAddFailsStep, AcceptEndsStep DEF epoll_listen
<1>2. ASSUME NEW w \in Workers,
             handle_named_pipe_client_with_threadpool(w) \/ epoll_handler(w)
      PROVE  Inv'
  BY <1>2, TakeStep, HandlerStep, AddStep, OutStep DEF epoll_handler
<1>3. ASSUME NEW c \in Conns, ClientNext(c) /\ UNCHANGED serverVars
      PROVE  Inv'
  BY <1>3, ClientStep
<1>4. CASE UNCHANGED vars
  <2>1. TypeOK'
    BY <1>4 DEF vars, pipeVars, clientVars, streamVars, serverVars, listenVars, workerVars,
                Inv, TypeOK, PipeTypeOK
  <2>2. RetOK' /\ \A v \in Workers : Busy(v)' <=> Busy(v)
    BY <1>4 DEF vars, serverVars, workerVars, Inv, PointerInv, RetOK, Busy
  <2> QED BY <1>4, <2>1, <2>2, InsideHandler
          DEF vars, pipeVars, clientVars, streamVars, serverVars, listenVars, workerVars
<1> QED BY <1>1, <1>2, <1>3, <1>4 DEF Next

\* Inv is an invariant of the server, for any connections, workers and
\* descriptors.
THEOREM Invariant == Spec => []Inv
BY InvInit, InvNext, PTL DEF Spec

\* Every variable of the client, the streams, the listener and the workers
\* keeps its type (transport.c:229-378, 623-662).
THEOREM TypeCorrect == Spec => []TypeOK
<1>1. Inv => TypeOK
  BY DEF Inv
<1> QED BY <1>1, Invariant, PTL

\* No event of a batch is ever stale (transport.c:318-374).
THEOREM EventsAreCurrent == Spec => []EventsCurrent
<1>1. Inv => EventsCurrent
  BY DEF Inv, PointerInv
<1> QED BY <1>1, Invariant, PTL

\* Descriptors and live data correspond, and a busy worker's descriptor means
\* its own connection (transport.c:232, 293-296, 343-358).
THEOREM DescriptorsAreMatched == Spec => []DescriptorsMatch
<1>1. Inv => DescriptorsMatch
  BY BusySock DEF Inv, PointerInv, FdOK, DescriptorsMatch, Sock
<1> QED BY <1>1, Invariant, PTL

\* A ServerHandlerData has exactly one owner from accept to g_free and none
\* before or after (transport.c:229-374).
THEOREM DataIsOwnedOnce == Spec => []OwnedOnce
<1>1. Inv => OwnedOnce
  <2> SUFFICES ASSUME Inv, NEW c \in Conns
               PROVE  IF heap[c] = "live" THEN \E o \in Owners(c) : Owners(c) = {o}
                                          ELSE Owners(c) = {}
    BY DEF OwnedOnce
  <2>n. c # None
    BY EpollAssumption
  <2>r. \A f \in Registered(c) : heap[c] = "live" /\ f = connfd[c] /\ reg[f] = c /\ f \in Fds
    BY <2>n DEF Registered, Inv, PointerInv, RegOK
  <2>q. \A i \in Queued(c) : /\ heap[c] = "live" /\ reg[connfd[c]] = None
                             /\ i \in 1..Len(pool) /\ pool[i] = c
    BY DEF Queued, Inv, PointerInv, PoolOK
  <2>h. \A w \in HeldBy(c) : /\ heap[c] = "live" /\ reg[connfd[c]] = None
                             /\ w \in Workers /\ Busy(w) /\ wdata[w] = c
    BY DEF HeldBy, Inv, PointerInv, HeldOK
  <2>1. CASE heap[c] # "live"
    <3>1. Registered(c) = {} /\ Queued(c) = {} /\ HeldBy(c) = {}
      BY <2>1, <2>r, <2>q, <2>h
    <3> QED BY <2>1, <3>1 DEF Owners
  <2>2. CASE heap[c] = "live"
    <3>1. CASE reg[connfd[c]] = c
      <4>1. connfd[c] \in Registered(c)
        BY <2>2, <3>1 DEF Registered, Inv, PointerInv, LiveOK
      <4>2. Registered(c) = {connfd[c]} /\ Queued(c) = {} /\ HeldBy(c) = {}
        BY <2>n, <2>r, <2>q, <2>h, <3>1, <4>1
      <4>3. Owners(c) = {<<"epoll", connfd[c]>>}
        BY <4>2 DEF Owners
      <4> QED BY <2>2, <4>3
    <3>2. ASSUME NEW i \in 1..Len(pool), pool[i] = c
          PROVE  \E o \in Owners(c) : Owners(c) = {o}
      <4>1. i \in Queued(c)
        BY <3>2 DEF Queued
      <4>2. \A j \in Queued(c) : j = i
        BY <2>q, <3>2 DEF Inv, PointerInv, PoolOK
      <4>3. HeldBy(c) = {}
        BY <2>h, <3>2 DEF Inv, PointerInv, HeldOK
      <4>4. Registered(c) = {}
        BY <2>n, <2>r, <2>q, <4>1
      <4>5. Queued(c) = {i}
        BY <4>1, <4>2
      <4>6. Owners(c) = {<<"pool", i>>}
        BY <4>3, <4>4, <4>5 DEF Owners
      <4> QED BY <4>6
    <3>3. ASSUME NEW w \in Workers, Busy(w), wdata[w] = c
          PROVE  \E o \in Owners(c) : Owners(c) = {o}
      <4>1. w \in HeldBy(c)
        BY <3>3 DEF HeldBy
      <4>2. \A v \in HeldBy(c) : v = w
        BY <2>h, <3>3 DEF Inv, PointerInv, HeldOK
      <4>3. Queued(c) = {}
        BY <2>q, <3>3 DEF Inv, PointerInv, HeldOK
      <4>4. Registered(c) = {}
        BY <2>n, <2>r, <2>h, <4>1
      <4>5. HeldBy(c) = {w}
        BY <4>1, <4>2
      <4>6. Owners(c) = {<<"worker", w>>}
        BY <4>3, <4>4, <4>5 DEF Owners
      <4> QED BY <4>6
    <3> QED BY <2>2, <3>1, <3>2, <3>3 DEF Inv, PointerInv, LiveOK
  <2> QED BY <2>1, <2>2
<1> QED BY <1>1, Invariant, PTL
=============================================================================
