------------------------ MODULE NamedPipeClientProofs ------------------------
(***************************************************************************)
(* Facts about the client end and the streams that the proofs about every  *)
(* server module rest on: what a write, a read and a step of a client do   *)
(* to the types, and to the connections that wait to be accepted; and the  *)
(* conversation on a connection.  TalkOK says what its streams may hold    *)
(* for every place its client and its handler can be at, and each step of  *)
(* a client and of a handler, in either mode of the server, keeps it.      *)
(***************************************************************************)
EXTENDS NamedPipeClient, TLAPS

-----------------------------------------------------------------------------
(* Facts about sequences and streams.                                      *)

\* What Append does to the elements of a sequence.
LEMMA AppendFacts ==
  ASSUME NEW S, NEW s \in Seq(S), NEW x \in S
  PROVE  /\ Append(s, x) \in Seq(S)
         /\ Len(Append(s, x)) = Len(s) + 1
         /\ \A i \in 1..Len(s) : Append(s, x)[i] = s[i]
         /\ Append(s, x)[Len(s) + 1] = x
  OBVIOUS

\* What Head and Tail are of a sequence that is not empty.
LEMMA TailFacts ==
  ASSUME NEW S, NEW s \in Seq(S), s # <<>>
  PROVE  /\ Head(s) \in S
         /\ Head(s) = s[1]
         /\ Len(s) \in Nat \ {0}
         /\ Tail(s) \in Seq(S)
         /\ Len(Tail(s)) = Len(s) - 1
         /\ \A i \in 1..Len(Tail(s)) : Tail(s)[i] = s[i + 1]
  OBVIOUS

\* Put and Take, the write and the read of a unit, keep a stream's type.
LEMMA StreamTypes ==
  ASSUME NEW st \in [Conns -> Seq(Units)], NEW c \in Conns
  PROVE  /\ \A part \in {"len", "text", "cut"}, n \in Nat :
               Put(st, c, part, n) \in [Conns -> Seq(Units)]
         /\ st[c] # <<>> => Take(st, c) \in [Conns -> Seq(Units)]
         /\ st[c] # <<>> => Head(st[c]) \in Units
<1>1. ASSUME NEW part \in {"len", "text", "cut"}, NEW n \in Nat
      PROVE  Put(st, c, part, n) \in [Conns -> Seq(Units)]
  <2>1. [part |-> part, call |-> n] \in Units
    BY <1>1 DEF Units
  <2>2. Append(st[c], [part |-> part, call |-> n]) \in Seq(Units)
    BY <2>1, AppendFacts
  <2> QED BY <2>2 DEF Put
<1>2. ASSUME st[c] # <<>>
      PROVE  Take(st, c) \in [Conns -> Seq(Units)] /\ Head(st[c]) \in Units
  <2>1. Tail(st[c]) \in Seq(Units) /\ Head(st[c]) \in Units
    BY <1>2, TailFacts
  <2> QED BY <2>1 DEF Take
<1> QED BY <1>1, <1>2

-----------------------------------------------------------------------------
(* The clients' steps.                                                     *)

\* Every step of a client keeps the types of the client and of the streams.
LEMMA ClientTypes ==
  ASSUME PipeTypeOK, NEW c \in Conns, ClientNext(c)
  PROVE  PipeTypeOK'
<1> USE DEF PipeTypeOK, ClientStates, PeerStates, clientVars, streamVars
<1>r. \A k \in {"none", "pending", "reply", "transport_error", "garbage"}, n \in Nat :
        Returned(k, n) \in Results
  BY DEF Returned, Results
<1>1. CASE searpc_named_pipe_client_connect(c)
  <2>1. backlog' \in Seq(Conns)
    BY <1>1, AppendFacts DEF searpc_named_pipe_client_connect
  <2> QED BY <1>1, <2>1 DEF searpc_named_pipe_client_connect
<1>2. CASE pipe_send_WriteLen(c)
  <2>1. c2s' \in [Conns -> Seq(Units)]
    <3>0. calls[c] + 1 \in Nat
      OBVIOUS
    <3>1. Put(c2s, c, "len", calls[c] + 1) \in [Conns -> Seq(Units)]
      BY <3>0, StreamTypes
    <3> QED BY <1>2, <3>1 DEF pipe_send_WriteLen
  <2> QED BY <1>2, <2>1, <1>r DEF pipe_send_WriteLen
<1>3. CASE pipe_send_WriteLenFails(c)
  BY <1>3, <1>r DEF pipe_send_WriteLenFails
<1>4. CASE pipe_send_WriteText(c)
  <2>1. c2s' \in [Conns -> Seq(Units)]
    BY <1>4, StreamTypes DEF pipe_send_WriteText
  <2> QED BY <1>4, <2>1 DEF pipe_send_WriteText
<1>5. CASE pipe_send_WriteTextFails(c)
  BY <1>5, <1>r DEF pipe_send_WriteTextFails, Return
<1>6. CASE pipe_send_ReadLen(c)
  <2>1. s2c' \in [Conns -> Seq(Units)]
    BY <1>6, StreamTypes DEF pipe_send_ReadLen
  <2> QED BY <1>6, <2>1 DEF pipe_send_ReadLen
<1>7. CASE pipe_send_ReadText(c)
  <2>0. s2c[c] # <<>>
    BY <1>7 DEF pipe_send_ReadText, TextStops
  <2>1. s2c' \in [Conns -> Seq(Units)]
    BY <1>7, <2>0, StreamTypes DEF pipe_send_ReadText
  <2>2. Head(s2c[c]).call \in Nat
    BY <2>0, StreamTypes DEF Units
  <2> QED BY <1>7, <2>1, <2>2, <1>r DEF pipe_send_ReadText, Return
<1>8. CASE pipe_send_ReadTextEOF(c)
  <2>1. s2c' \in [Conns -> Seq(Units)]
    BY <1>8 DEF pipe_send_ReadTextEOF
  <2> QED BY <1>8, <1>r, <2>1 DEF pipe_send_ReadTextEOF, Return
<1>9. CASE pipe_send_ReadFails(c)
  <2>1. s2c' \in [Conns -> Seq(Units)]
    BY <1>9 DEF pipe_send_ReadFails
  <2> QED BY <1>9, <1>r, <2>1 DEF pipe_send_ReadFails, Return
<1>10. CASE searpc_free_client_with_pipe_transport(c)
  BY <1>10 DEF searpc_free_client_with_pipe_transport
<1>11. CASE Die(c)
  <2>1. c2s' \in [Conns -> Seq(Units)]
    <3>1. Put(c2s, c, "cut", calls[c]) \in [Conns -> Seq(Units)]
      BY StreamTypes
    <3> QED BY <1>11, <3>1 DEF Die
  <2> QED BY <1>11, <2>1 DEF Die
<1> QED
  BY <1>1, <1>2, <1>3, <1>4, <1>5, <1>6, <1>7, <1>8, <1>9, <1>10, <1>11
  DEF ClientNext, searpc_named_pipe_send

\* After connect() a client is never new again, and only connect() adds to the
\* backlog.
LEMMA ClientPlaces ==
  ASSUME cstate \in [Conns -> ClientStates], NEW c \in Conns, ClientNext(c),
         ~searpc_named_pipe_client_connect(c)
  PROVE  /\ backlog' = backlog
         /\ cstate[c] # "new"
         /\ \E s \in ClientStates \ {"new"} : cstate' = [cstate EXCEPT ![c] = s]
<1> USE DEF ClientStates, InCall, streamVars
<1>1. CASE pipe_send_WriteLen(c)
  BY <1>1 DEF pipe_send_WriteLen
<1>2. CASE pipe_send_WriteLenFails(c)
  <2>1. cstate' = [cstate EXCEPT ![c] = "ready"] /\ cstate[c] = "ready"
    BY <1>2 DEF pipe_send_WriteLenFails
  <2> QED BY <1>2, <2>1 DEF pipe_send_WriteLenFails
<1>3. CASE pipe_send_WriteText(c)
  BY <1>3 DEF pipe_send_WriteText
<1>4. CASE pipe_send_WriteTextFails(c)
  BY <1>4 DEF pipe_send_WriteTextFails, Return
<1>5. CASE pipe_send_ReadLen(c)
  BY <1>5 DEF pipe_send_ReadLen
<1>6. CASE pipe_send_ReadText(c)
  BY <1>6 DEF pipe_send_ReadText, Return
<1>7. CASE pipe_send_ReadTextEOF(c)
  BY <1>7 DEF pipe_send_ReadTextEOF, Return
<1>8. CASE pipe_send_ReadFails(c)
  BY <1>8 DEF pipe_send_ReadFails, Return
<1>9. CASE searpc_free_client_with_pipe_transport(c)
  BY <1>9 DEF searpc_free_client_with_pipe_transport
<1>10. CASE Die(c)
  BY <1>10 DEF Die
<1> QED
  BY <1>1, <1>2, <1>3, <1>4, <1>5, <1>6, <1>7, <1>8, <1>9, <1>10
  DEF ClientNext, searpc_named_pipe_send

-----------------------------------------------------------------------------
(* The conversation on a connection.                                       *)

\* The contents of a stream: at most two units of one call.
One(x)    == <<x>>
Two(x, y) == <<x, y>>

Unit(c, part) == [part |-> part, call |-> calls[c]]

\* The last call of c is not executed yet; it is.
Unexecuted(c) == Service!LastExecuted(c) < calls[c]
Done(c)       == Service!LastExecuted(c) = calls[c]

\* The last call of c was answered, and the response lies in the stream.
Answered(c) == s2c[c] = Two(Unit(c, "len"), Unit(c, "text")) /\ Done(c)

\* The response's text is left to read.
HalfRead(c) == s2c[c] = One(Unit(c, "text")) /\ Done(c)

\* No worker has read a part of a request without having answered it.
RestOK(c) ==
  /\ cstate[c] \in {"new", "ready"} => c2s[c] = <<>> /\ s2c[c] = <<>>
  /\ cstate[c] = "text" =>
       c2s[c] = One(Unit(c, "len")) /\ s2c[c] = <<>> /\ Unexecuted(c)
  /\ cstate[c] = "wait" =>
       \/ c2s[c] = Two(Unit(c, "len"), Unit(c, "text")) /\ s2c[c] = <<>> /\ Unexecuted(c)
       \/ c2s[c] = <<>> /\ Answered(c)
  /\ cstate[c] = "reply" => c2s[c] = <<>> /\ HalfRead(c)
  /\ cstate[c] = "gone" =>
       \/ c2s[c] = <<>>
       \/ /\ Unexecuted(c)
          /\ \/ c2s[c] = One(Unit(c, "len"))
             \/ c2s[c] = Two(Unit(c, "len"), Unit(c, "text"))
             \/ c2s[c] = Two(Unit(c, "len"), Unit(c, "cut"))

\* The server has closed its end: what is left of a response, if anything, is
\* the last call's, and that was executed.
ClosedOK(c) ==
  cstate[c] \in {"wait", "reply"} =>
    \A i \in 1..Len(s2c[c]) : s2c[c][i].call = calls[c] /\ Done(c)

\* A worker has read the length of a request.
AtTextOK(c) ==
  /\ cstate[c] \in {"text", "wait", "gone"}
  /\ Unexecuted(c)
  /\ cstate[c] # "gone" => s2c[c] = <<>>
  /\ cstate[c] = "text" => c2s[c] = <<>>
  /\ cstate[c] = "wait" => c2s[c] = One(Unit(c, "text"))
  /\ cstate[c] = "gone" => \/ c2s[c] = <<>>
                           \/ c2s[c] = One(Unit(c, "text"))
                           \/ c2s[c] = One(Unit(c, "cut"))

\* A worker has read the whole request, and has not written anything yet.
AtCallOK(c) ==
  /\ cstate[c] \in {"wait", "gone"}
  /\ c2s[c] = <<>>
  /\ cstate[c] = "wait" => s2c[c] = <<>>

\* A worker has written the length of the response.
AtWriteTextOK(c) ==
  /\ cstate[c] \in {"wait", "reply", "gone"}
  /\ c2s[c] = <<>>
  /\ cstate[c] = "wait" => s2c[c] = One(Unit(c, "len"))
  /\ cstate[c] = "reply" => s2c[c] = <<>>
  /\ Done(c)

\* The two ends of connection c, when its worker, if it has one in the middle
\* of a request, is at the place at.
TalkOK(c, at) ==
  /\ at = "rest" => IF peer[c] = "open" THEN RestOK(c) ELSE ClosedOK(c)
  /\ at # "rest" => peer[c] = "open"
  /\ at = "text" => AtTextOK(c)
  /\ at = "call" => AtCallOK(c) /\ Unexecuted(c)
  /\ at = "wlen" => AtCallOK(c) /\ Done(c)
  /\ at = "wtext" => AtWriteTextOK(c)

\* The places of a worker in the middle of a request.
Middle == {"text", "call", "wlen", "wtext"}

\* Where a busy worker's place puts its connection's conversation.
Place(label) == IF label \in Middle THEN label ELSE "rest"

\* What the caller has been told, and how far the server can have come.
CallsOK ==
  \A c \in Conns :
    /\ Service!LastExecuted(c) <= calls[c]
    /\ cstate[c] \in {"new", "ready"} => result[c].kind # "pending"
    /\ cstate[c] \in InCall => result[c].kind = "pending" /\ calls[c] # 0

-----------------------------------------------------------------------------
(* Short streams, and the calls a connection has executed.                 *)

\* What a write and a read do to a stream of at most two units.
LEMMA ShortStreams ==
  ASSUME NEW x, NEW y
  PROVE  /\ Append(<<>>, x) = One(x)
         /\ Append(One(x), y) = Two(x, y)
         /\ One(x) # <<>> /\ Head(One(x)) = x /\ Tail(One(x)) = <<>>
         /\ Two(x, y) # <<>> /\ Head(Two(x, y)) = x /\ Tail(Two(x, y)) = One(y)
<1>1. Append(<<>>, x) = <<x>>
  OBVIOUS
<1>2. Append(<<x>>, y) = <<x, y>>
  <2> DEFINE s == Append(<<x>>, y)
  <2>1. <<x>> \in Seq({x, y}) /\ Len(<<x>>) = 1 /\ <<x>>[1] = x
    OBVIOUS
  <2>2. s \in Seq({x, y}) /\ Len(s) = 2 /\ s[1] = x /\ s[2] = y
    BY <2>1, AppendFacts
  <2> HIDE DEF s
  <2>3. <<x, y>> \in Seq({x, y}) /\ Len(<<x, y>>) = 2 /\ <<x, y>>[1] = x /\ <<x, y>>[2] = y
    OBVIOUS
  <2>4. s = <<x, y>>
    BY <2>2, <2>3
  <2> QED BY <2>4 DEF s
<1>3. <<x>> # <<>> /\ Head(<<x>>) = x
  OBVIOUS
<1>4. Tail(<<x>>) = <<>>
  OBVIOUS
<1>5. <<x, y>> # <<>> /\ Head(<<x, y>>) = x
  OBVIOUS
<1>6. Tail(<<x, y>>) = <<y>>
  OBVIOUS
<1> QED BY <1>1, <1>2, <1>3, <1>4, <1>5, <1>6, Zenon DEF One, Two

\* The last executed call is a number, and is the one that was appended last.
LEMMA LastFacts ==
  ASSUME executed \in [Conns -> Seq(Nat)], NEW c \in Conns
  PROVE  Service!LastExecuted(c) \in Nat
BY DEF Service!LastExecuted

\* What is appended last is the last executed call.
LEMMA ExecutedLast ==
  ASSUME executed \in [Conns -> Seq(Nat)], NEW c \in Conns, NEW n \in Nat,
         executed' = [executed EXCEPT ![c] = Append(@, n)]
  PROVE  /\ Service!LastExecuted(c)' = n
         /\ \A d \in Conns : d # c => executed'[d] = executed[d]
<1>2. executed'[c] = Append(executed[c], n) /\ executed[c] \in Seq(Nat)
  OBVIOUS
<1>3. /\ Len(executed'[c]) = Len(executed[c]) + 1
      /\ Len(executed[c]) \in Nat
      /\ executed'[c][Len(executed[c]) + 1] = n
  BY <1>2, AppendFacts
<1>4. executed'[c] # <<>>
  <2>1. Len(<<>>) = 0
    OBVIOUS
  <2> QED BY <1>3, <2>1
<1> QED BY <1>3, <1>4 DEF Service!LastExecuted

\* Units of one connection differ by their part.
LEMMA UnitFacts ==
  ASSUME NEW c \in Conns, NEW part
  PROVE  Unit(c, part).part = part /\ Unit(c, part).call = calls[c]
BY DEF Unit

\* A step that leaves a connection's calls and executions alone keeps the
\* names of its units.
LEMMA SameUnits ==
  ASSUME NEW c \in Conns, calls'[c] = calls[c], executed'[c] = executed[c]
  PROVE  /\ \A part : One(Unit(c, part))' = One(Unit(c, part))
         /\ \A p, q : Two(Unit(c, p), Unit(c, q))' = Two(Unit(c, p), Unit(c, q))
         /\ Unexecuted(c)' <=> Unexecuted(c)
         /\ Done(c)' <=> Done(c)
<1>1. Service!LastExecuted(c)' = Service!LastExecuted(c)
  BY DEF Service!LastExecuted
<1>2. \A part : Unit(c, part)' = Unit(c, part)
  BY DEF Unit
<1> QED BY <1>1, <1>2 DEF One, Two, Unexecuted, Done

\* What a connection's conversation depends on.
LEMMA TalkLocal ==
  ASSUME NEW d \in Conns, NEW at,
         cstate'[d] = cstate[d], calls'[d] = calls[d], c2s'[d] = c2s[d],
         s2c'[d] = s2c[d], peer'[d] = peer[d], executed'[d] = executed[d],
         TalkOK(d, at)
  PROVE  TalkOK(d, at)'
<1>1. Service!LastExecuted(d)' = Service!LastExecuted(d)
  BY DEF Service!LastExecuted
<1>2. \A part : Unit(d, part)' = Unit(d, part)
  BY DEF Unit
<1>3. /\ Unexecuted(d)' <=> Unexecuted(d)
      /\ Done(d)' <=> Done(d)
  BY <1>1 DEF Unexecuted, Done
<1>4. \A part : One(Unit(d, part))' = One(Unit(d, part))
  BY <1>2 DEF One
<1>5. \A p, q : Two(Unit(d, p), Unit(d, q))' = Two(Unit(d, p), Unit(d, q))
  BY <1>2 DEF Two
<1>6. /\ Answered(d)' <=> Answered(d)
      /\ HalfRead(d)' <=> HalfRead(d)
  BY <1>3, <1>4, <1>5 DEF Answered, HalfRead
<1>7. RestOK(d) => RestOK(d)'
  BY <1>3, <1>4, <1>5, <1>6 DEF RestOK
<1>8. ClosedOK(d) => ClosedOK(d)'
  BY <1>3 DEF ClosedOK
<1>9. /\ AtTextOK(d) => AtTextOK(d)'
      /\ AtCallOK(d) => AtCallOK(d)'
      /\ AtWriteTextOK(d) => AtWriteTextOK(d)'
  BY <1>3, <1>4 DEF AtTextOK, AtCallOK, AtWriteTextOK
<1> QED BY <1>3, <1>7, <1>8, <1>9 DEF TalkOK

\* Wherever the two ends are in a call, what lies in the response stream is the
\* response to that call, which was executed: a server that closes the
\* connection here leaves nothing else behind.
LEMMA LeftOver ==
  ASSUME NEW c \in Conns, NEW at \in Middle \cup {"rest"}, TalkOK(c, at)
  PROVE  ClosedOK(c)
<1> SUFFICES ASSUME cstate[c] \in {"wait", "reply"}, NEW i \in 1..Len(s2c[c])
             PROVE  s2c[c][i].call = calls[c] /\ Done(c)
  BY DEF ClosedOK
<1>1. CASE at = "rest" /\ peer[c] # "open"
  BY <1>1 DEF TalkOK, ClosedOK
<1>2. CASE ~(at = "rest" /\ peer[c] # "open")
  <2>1. \/ s2c[c] = <<>>
        \/ Done(c) /\ \/ s2c[c] = Two(Unit(c, "len"), Unit(c, "text"))
                      \/ s2c[c] = One(Unit(c, "len"))
                      \/ s2c[c] = One(Unit(c, "text"))
    BY <1>2 DEF TalkOK, RestOK, AtTextOK, AtCallOK, AtWriteTextOK, Answered, HalfRead, Middle
  <2>2. s2c[c] # <<>>
    <3>1. Len(<<>>) = 0 /\ 1..0 = {}
      OBVIOUS
    <3> QED BY <3>1
  <2>3. \A p, q : \A k \in 1..Len(Two(Unit(c, p), Unit(c, q))) :
          Two(Unit(c, p), Unit(c, q))[k].call = calls[c]
    <3> SUFFICES ASSUME NEW p, NEW q, NEW k \in 1..Len(Two(Unit(c, p), Unit(c, q)))
                 PROVE  Two(Unit(c, p), Unit(c, q))[k].call = calls[c]
      OBVIOUS
    <3>1. Len(Two(Unit(c, p), Unit(c, q))) = 2
      BY DEF Two
    <3>2. k = 1 \/ k = 2
      BY <3>1
    <3>3. \A x, y : Two(x, y)[1] = x /\ Two(x, y)[2] = y
      BY DEF Two
    <3> QED BY <3>2, <3>3, UnitFacts
  <2>4. \A p : \A k \in 1..Len(One(Unit(c, p))) : One(Unit(c, p))[k].call = calls[c]
    <3> SUFFICES ASSUME NEW p, NEW k \in 1..Len(One(Unit(c, p)))
                 PROVE  One(Unit(c, p))[k].call = calls[c]
      OBVIOUS
    <3>1. Len(One(Unit(c, p))) = 1
      BY DEF One
    <3>2. k = 1
      BY <3>1
    <3>3. \A x : One(x)[1] = x
      BY DEF One
    <3> QED BY <3>2, <3>3, UnitFacts
  <2> QED BY <2>1, <2>2, <2>3, <2>4
<1> QED BY <1>1, <1>2

-----------------------------------------------------------------------------
(* The client's side of the conversation.                                  *)

\* A client's step touches its own connection only, and takes nothing out of
\* the request stream.
LEMMA ClientEffect ==
  ASSUME PipeTypeOK, NEW c \in Conns, ClientNext(c)
  PROVE  /\ peer' = peer
         /\ \A d \in Conns : d # c =>
              /\ cstate'[d] = cstate[d] /\ calls'[d] = calls[d] /\ result'[d] = result[d]
              /\ c2s'[d] = c2s[d] /\ s2c'[d] = s2c[d]
         /\ c2s[c] # <<>> => c2s'[c] # <<>>
<1>t. /\ cstate \in [Conns -> ClientStates]
      /\ calls \in [Conns -> Nat]
      /\ result \in [Conns -> Results]
      /\ c2s \in [Conns -> Seq(Units)]
      /\ s2c \in [Conns -> Seq(Units)]
  BY DEF PipeTypeOK
<1> USE <1>t DEF clientVars, streamVars
<1>a. \A part \in {"len", "text", "cut"}, n \in Nat :
        Append(c2s[c], [part |-> part, call |-> n]) # <<>>
  <2>1. ASSUME NEW x \in Units
        PROVE  Append(c2s[c], x) # <<>>
    <3>1. Len(Append(c2s[c], x)) = Len(c2s[c]) + 1 /\ Len(c2s[c]) \in Nat
      BY AppendFacts
    <3>2. Len(<<>>) = 0
      OBVIOUS
    <3>3. Len(Append(c2s[c], x)) # 0
      BY <3>1
    <3> QED BY <3>2, <3>3
  <2> QED BY <2>1 DEF Units
<1>1. CASE searpc_named_pipe_client_connect(c)
  BY <1>1 DEF searpc_named_pipe_client_connect
<1>2. CASE pipe_send_WriteLen(c)
  <2>1. Append(c2s[c], [part |-> "len", call |-> calls[c] + 1]) # <<>>
    <3>1. calls[c] + 1 \in Nat
      OBVIOUS
    <3> QED BY <1>a, <3>1
  <2> QED BY <1>2, <2>1 DEF pipe_send_WriteLen, Put
<1>3. CASE pipe_send_WriteLenFails(c)
  BY <1>3 DEF pipe_send_WriteLenFails
<1>4. CASE pipe_send_WriteText(c)
  BY <1>4, <1>a DEF pipe_send_WriteText, Put
<1>5. CASE pipe_send_WriteTextFails(c)
  BY <1>5 DEF pipe_send_WriteTextFails, Return
<1>6. CASE pipe_send_ReadLen(c)
  BY <1>6 DEF pipe_send_ReadLen, Take
<1>7. CASE pipe_send_ReadText(c)
  BY <1>7 DEF pipe_send_ReadText, Return, Take
<1>8. CASE pipe_send_ReadTextEOF(c)
  BY <1>8 DEF pipe_send_ReadTextEOF, Return
<1>9. CASE pipe_send_ReadFails(c)
  BY <1>9 DEF pipe_send_ReadFails, Return
<1>10. CASE searpc_free_client_with_pipe_transport(c)
  BY <1>10 DEF searpc_free_client_with_pipe_transport
<1>11. CASE Die(c)
  BY <1>11, <1>a DEF Die, Put
<1> QED
  BY <1>1, <1>2, <1>3, <1>4, <1>5, <1>6, <1>7, <1>8, <1>9, <1>10, <1>11
  DEF ClientNext, searpc_named_pipe_send

\* Wherever the server is, a step of the client leads from one legal state of
\* the conversation to another.
LEMMA ClientTalk ==
  ASSUME PipeTypeOK, executed \in [Conns -> Seq(Nat)], CallsOK,
         NEW c \in Conns, ClientNext(c), UNCHANGED executed,
         NEW at \in Middle \cup {"rest"}, TalkOK(c, at)
  PROVE  TalkOK(c, at)'
<1>t. /\ cstate \in [Conns -> ClientStates]
      /\ calls \in [Conns -> Nat]
      /\ c2s \in [Conns -> Seq(Units)]
      /\ s2c \in [Conns -> Seq(Units)]
      /\ peer \in [Conns -> PeerStates]
  BY DEF PipeTypeOK
<1>l. /\ Service!LastExecuted(c)' = Service!LastExecuted(c)
      /\ Service!LastExecuted(c) \in Nat
      /\ Service!LastExecuted(c) <= calls[c]
  <2>1. Service!LastExecuted(c)' = Service!LastExecuted(c)
    BY DEF Service!LastExecuted
  <2> QED BY <2>1, LastFacts DEF CallsOK
<1>s. ASSUME calls' = calls
      PROVE  /\ \A part : Unit(c, part)' = Unit(c, part)
             /\ Unexecuted(c)' <=> Unexecuted(c)
             /\ Done(c)' <=> Done(c)
  BY <1>l, <1>s DEF Unit, Unexecuted, Done
<1>1. CASE searpc_named_pipe_client_connect(c)
  <2>1. /\ cstate[c] = "new" /\ cstate'[c] = "ready"
        /\ calls' = calls /\ peer' = peer /\ c2s' = c2s /\ s2c' = s2c
    BY <1>1, <1>t DEF searpc_named_pipe_client_connect
  <2> QED BY <1>s, <2>1 DEF TalkOK, RestOK, ClosedOK, AtTextOK, AtCallOK, AtWriteTextOK
<1>2. CASE pipe_send_WriteLen(c)
  <2>1. /\ cstate[c] = "ready" /\ cstate'[c] = "text"
        /\ calls'[c] = calls[c] + 1 /\ peer' = peer /\ peer[c] = "open"
        /\ c2s'[c] = Append(c2s[c], [part |-> "len", call |-> calls[c] + 1])
        /\ s2c' = s2c
    BY <1>2, <1>t DEF pipe_send_WriteLen, Put
  <2>2. at = "rest" /\ c2s[c] = <<>> /\ s2c[c] = <<>>
    BY <2>1 DEF TalkOK, RestOK, AtTextOK, AtCallOK, AtWriteTextOK, Middle
  <2>3. Unexecuted(c)'
    BY <1>l, <1>t, <2>1 DEF Unexecuted
  <2>4. c2s'[c] = One(Unit(c, "len"))'
    BY <2>1, <2>2, ShortStreams DEF Unit, One
  <2> QED BY <2>1, <2>2, <2>3, <2>4 DEF TalkOK, RestOK
<1>3. CASE pipe_send_WriteLenFails(c)
  <2>1. /\ cstate[c] = "ready" /\ cstate' = cstate /\ peer' = peer /\ peer[c] # "open"
    BY <1>3, <1>t DEF pipe_send_WriteLenFails, streamVars
  <2> QED BY <2>1 DEF TalkOK, ClosedOK
<1>4. CASE pipe_send_WriteText(c)
  <2>1. /\ cstate[c] = "text" /\ cstate'[c] = "wait"
        /\ calls' = calls /\ peer' = peer /\ peer[c] = "open"
        /\ c2s'[c] = Append(c2s[c], Unit(c, "text"))
        /\ s2c' = s2c
    BY <1>4, <1>t DEF pipe_send_WriteText, Put, Unit
  <2>2. CASE at = "rest"
    <3>1. c2s[c] = One(Unit(c, "len")) /\ s2c[c] = <<>> /\ Unexecuted(c)
      BY <2>1, <2>2 DEF TalkOK, RestOK
    <3>2. c2s'[c] = Two(Unit(c, "len"), Unit(c, "text"))
      BY <2>1, <3>1, ShortStreams
    <3>3. Two(Unit(c, "len"), Unit(c, "text"))' = Two(Unit(c, "len"), Unit(c, "text"))
      BY <1>s, <2>1 DEF Two
    <3> QED BY <1>s, <2>1, <2>2, <3>1, <3>2, <3>3 DEF TalkOK, RestOK
  <2>3. CASE at # "rest"
    <3>1. at = "text" /\ c2s[c] = <<>> /\ s2c[c] = <<>> /\ Unexecuted(c)
      BY <2>1, <2>3 DEF TalkOK, AtTextOK, AtCallOK, AtWriteTextOK, Middle
    <3>2. c2s'[c] = One(Unit(c, "text"))
      BY <2>1, <3>1, ShortStreams
    <3>3. One(Unit(c, "text"))' = One(Unit(c, "text"))
      BY <1>s, <2>1 DEF One
    <3> QED BY <1>s, <2>1, <2>3, <3>1, <3>2, <3>3 DEF TalkOK, AtTextOK
  <2> QED BY <2>2, <2>3
<1>5. CASE pipe_send_WriteTextFails(c)
  <2>1. /\ cstate[c] = "text" /\ cstate'[c] = "ready" /\ peer' = peer /\ peer[c] # "open"
    BY <1>5, <1>t DEF pipe_send_WriteTextFails, Return, streamVars
  <2> QED BY <2>1 DEF TalkOK, ClosedOK
<1>6. CASE pipe_send_ReadLen(c)
  <2>1. /\ cstate[c] = "wait" /\ cstate'[c] = "reply"
        /\ calls' = calls /\ peer' = peer /\ c2s' = c2s
        /\ \/ s2c[c] # <<>> /\ s2c'[c] = Tail(s2c[c])
           \/ s2c'[c] = s2c[c] /\ peer[c] = "eof"
    BY <1>6, <1>t DEF pipe_send_ReadLen, Take
  <2>2. One(Unit(c, "text"))' = One(Unit(c, "text"))
    BY <1>s, <2>1 DEF One
  <2>3. CASE at = "rest" /\ peer[c] = "open"
    <3>1. Answered(c) /\ c2s[c] = <<>>
      BY <2>1, <2>3 DEF TalkOK, RestOK
    <3>2. s2c'[c] = One(Unit(c, "text")) /\ Done(c)
      BY <2>1, <2>3, <3>1, ShortStreams DEF Answered
    <3>3. HalfRead(c)'
      BY <1>s, <2>1, <2>2, <3>2 DEF HalfRead
    <3> QED BY <2>1, <2>3, <3>1, <3>3 DEF TalkOK, RestOK
  <2>4. CASE at = "rest" /\ peer[c] # "open"
    <3>1. \A i \in 1..Len(s2c[c]) : s2c[c][i].call = calls[c] /\ Done(c)
      BY <2>1, <2>4 DEF TalkOK, ClosedOK
    <3>2. \A i \in 1..Len(s2c'[c]) : s2c'[c][i].call = calls[c] /\ Done(c)
      <4>1. CASE s2c'[c] = s2c[c]
        BY <3>1, <4>1
      <4>2. CASE s2c[c] # <<>> /\ s2c'[c] = Tail(s2c[c])
        <5>1. /\ s2c[c] \in Seq(Units)
              /\ s2c[c] # <<>>
          BY <1>t, <4>2
        <5>2. /\ Len(s2c[c]) \in Nat
              /\ Len(s2c'[c]) = Len(s2c[c]) - 1
              /\ \A i \in 1..Len(s2c'[c]) : s2c'[c][i] = s2c[c][i + 1]
          BY <4>2, <5>1, TailFacts
        <5>3. \A i \in 1..Len(s2c'[c]) : i + 1 \in 1..Len(s2c[c])
          BY <5>2
        <5> QED BY <3>1, <5>2, <5>3
      <4> QED BY <2>1, <4>1, <4>2
    <3> QED BY <1>s, <2>1, <2>4, <3>2 DEF TalkOK, ClosedOK
  <2>5. CASE at # "rest"
    <3>1. /\ at = "wtext" /\ s2c[c] = One(Unit(c, "len")) /\ c2s[c] = <<>> /\ Done(c)
          /\ peer[c] = "open"
      BY <2>1, <2>5 DEF TalkOK, AtTextOK, AtCallOK, AtWriteTextOK, Middle
    <3>2. s2c'[c] = <<>>
      BY <2>1, <3>1, ShortStreams
    <3> QED BY <1>s, <2>1, <2>5, <3>1, <3>2 DEF TalkOK, AtWriteTextOK
  <2> QED BY <2>3, <2>4, <2>5
<1>7. CASE pipe_send_ReadText(c)
  <2>1. /\ cstate[c] = "reply" /\ cstate'[c] = "ready"
        /\ calls' = calls /\ peer' = peer /\ c2s' = c2s
        /\ s2c[c] # <<>> /\ s2c'[c] = Tail(s2c[c])
    BY <1>7, <1>t DEF pipe_send_ReadText, TextStops, Return, Take
  <2>2. at = "rest"
    BY <2>1 DEF TalkOK, AtTextOK, AtCallOK, AtWriteTextOK, Middle
  <2>3. peer[c] = "open" => HalfRead(c) /\ c2s[c] = <<>>
    BY <2>1, <2>2 DEF TalkOK, RestOK
  <2>4. peer[c] = "open" => s2c'[c] = <<>>
    BY <2>1, <2>3, ShortStreams DEF HalfRead
  <2> QED BY <2>1, <2>2, <2>3, <2>4 DEF TalkOK, RestOK, ClosedOK
<1>8. CASE pipe_send_ReadTextEOF(c) \/ pipe_send_ReadFails(c)
  <2>1. /\ cstate[c] \in {"wait", "reply"} /\ cstate'[c] = "ready"
        /\ peer' = peer /\ peer[c] # "open"
    BY <1>8, <1>t DEF pipe_send_ReadTextEOF, pipe_send_ReadFails, Return
  <2> QED BY <2>1 DEF TalkOK, ClosedOK
<1>9. CASE searpc_free_client_with_pipe_transport(c)
  <2>1. /\ cstate[c] = "ready" /\ cstate'[c] = "gone"
        /\ calls' = calls /\ peer' = peer /\ c2s' = c2s /\ s2c' = s2c
    BY <1>9, <1>t DEF searpc_free_client_with_pipe_transport, streamVars
  <2> QED BY <1>s, <2>1
          DEF TalkOK, RestOK, ClosedOK, AtTextOK, AtCallOK, AtWriteTextOK, Middle
<1>10. CASE Die(c)
  <2>1. /\ cstate[c] \in InCall /\ cstate'[c] = "gone"
        /\ calls' = calls /\ peer' = peer /\ s2c' = s2c
        /\ \/ c2s' = c2s
           \/ /\ cstate[c] = "text" /\ peer[c] = "open"
              /\ c2s'[c] = Append(c2s[c], Unit(c, "cut"))
    BY <1>10, <1>t DEF Die, Put, Unit
  <2>2. \A part : One(Unit(c, part))' = One(Unit(c, part))
    BY <1>s, <2>1 DEF One
  <2>3. \A p, q : Two(Unit(c, p), Unit(c, q))' = Two(Unit(c, p), Unit(c, q))
    BY <1>s, <2>1 DEF Two
  <2>4. CASE at = "rest"
    <3>1. CASE peer[c] # "open"
      BY <2>1, <2>4, <3>1 DEF TalkOK, ClosedOK
    <3>2. CASE peer[c] = "open"
      <4>1. RestOK(c)
        BY <2>4, <3>2 DEF TalkOK
      <4>2. \/ c2s'[c] = <<>>
            \/ /\ Unexecuted(c)
               /\ \/ c2s'[c] = One(Unit(c, "len"))
                  \/ c2s'[c] = Two(Unit(c, "len"), Unit(c, "text"))
                  \/ c2s'[c] = Two(Unit(c, "len"), Unit(c, "cut"))
        <5>1. CASE cstate[c] = "text"
          BY <2>1, <4>1, <5>1, ShortStreams DEF RestOK
        <5>2. CASE cstate[c] # "text"
          BY <2>1, <4>1, <5>2 DEF RestOK, InCall
        <5> QED BY <5>1, <5>2
      <4> QED BY <1>s, <2>1, <2>2, <2>3, <2>4, <3>2, <4>2 DEF TalkOK, RestOK
    <3> QED BY <3>1, <3>2
  <2>5. CASE at = "text"
    <3>1. \/ c2s'[c] = <<>>
          \/ c2s'[c] = One(Unit(c, "text"))
          \/ c2s'[c] = One(Unit(c, "cut"))
      BY <2>1, <2>5, ShortStreams DEF TalkOK, AtTextOK
    <3> QED BY <1>s, <2>1, <2>2, <2>5, <3>1 DEF TalkOK, AtTextOK
  <2>6. CASE at \in {"call", "wlen", "wtext"}
    <3>1. c2s' = c2s
      BY <2>1, <2>6 DEF TalkOK, AtCallOK, AtWriteTextOK
    <3> QED BY <1>s, <2>1, <2>6, <3>1 DEF TalkOK, AtCallOK, AtWriteTextOK
  <2> QED BY <2>4, <2>5, <2>6 DEF Middle
<1> QED
  BY <1>1, <1>2, <1>3, <1>4, <1>5, <1>6, <1>7, <1>8, <1>9, <1>10
  DEF ClientNext, searpc_named_pipe_send

\* A call is pending exactly while the client is in it.
LEMMA ClientCalls ==
  ASSUME PipeTypeOK, executed \in [Conns -> Seq(Nat)], CallsOK,
         NEW c \in Conns, ClientNext(c), UNCHANGED executed
  PROVE  CallsOK'
<1>t. /\ cstate \in [Conns -> ClientStates]
      /\ calls \in [Conns -> Nat]
      /\ result \in [Conns -> Results]
  BY DEF PipeTypeOK
<1>l. \A d \in Conns : /\ Service!LastExecuted(d)' = Service!LastExecuted(d)
                       /\ Service!LastExecuted(d) \in Nat
  <2>1. \A d \in Conns : Service!LastExecuted(d)' = Service!LastExecuted(d)
    BY DEF Service!LastExecuted
  <2> QED BY <2>1, LastFacts
<1>e. \A d \in Conns : d # c =>
        cstate'[d] = cstate[d] /\ calls'[d] = calls[d] /\ result'[d] = result[d]
  BY ClientEffect
<1>c. /\ calls'[c] \in Nat /\ calls[c] <= calls'[c]
      /\ cstate'[c] \in {"new", "ready"} => result'[c].kind # "pending"
      /\ cstate'[c] \in InCall => result'[c].kind = "pending" /\ calls'[c] # 0
  <2> USE <1>t DEF CallsOK, InCall, clientVars, streamVars, Returned, ClientStates
  <2>1. CASE searpc_named_pipe_client_connect(c)
    BY <2>1 DEF searpc_named_pipe_client_connect
  <2>2. CASE pipe_send_WriteLen(c)
    BY <2>2 DEF pipe_send_WriteLen
  <2>3. CASE pipe_send_WriteLenFails(c)
    BY <2>3 DEF pipe_send_WriteLenFails
  <2>4. CASE pipe_send_WriteText(c)
    BY <2>4 DEF pipe_send_WriteText
  <2>5. CASE pipe_send_WriteTextFails(c)
    BY <2>5 DEF pipe_send_WriteTextFails, Return
  <2>6. CASE pipe_send_ReadLen(c)
    BY <2>6 DEF pipe_send_ReadLen
  <2>7. CASE pipe_send_ReadText(c)
    BY <2>7 DEF pipe_send_ReadText, Return
  <2>8. CASE pipe_send_ReadTextEOF(c)
    BY <2>8 DEF pipe_send_ReadTextEOF, Return
  <2>9. CASE pipe_send_ReadFails(c)
    BY <2>9 DEF pipe_send_ReadFails, Return
  <2>10. CASE searpc_free_client_with_pipe_transport(c)
    BY <2>10 DEF searpc_free_client_with_pipe_transport
  <2>11. CASE Die(c)
    BY <2>11 DEF Die
  <2> QED
    BY <2>1, <2>2, <2>3, <2>4, <2>5, <2>6, <2>7, <2>8, <2>9, <2>10, <2>11
    DEF ClientNext, searpc_named_pipe_send
<1>d. \A d \in Conns : Service!LastExecuted(d)' <= calls'[d]
  <2> SUFFICES ASSUME NEW d \in Conns
               PROVE  Service!LastExecuted(d)' <= calls'[d]
    OBVIOUS
  <2>1. Service!LastExecuted(d) <= calls[d]
    BY DEF CallsOK
  <2>2. calls[d] \in Nat
    BY <1>t
  <2>3. calls'[d] \in Nat /\ calls[d] <= calls'[d]
    BY <1>e, <1>c, <2>2
  <2> QED BY <1>l, <2>1, <2>2, <2>3
<1> QED BY <1>d, <1>e, <1>c DEF CallsOK

-----------------------------------------------------------------------------
(* What the service sees of a client.                                      *)

\* What the caller sees changes with the result of its own call.
LEMMA CallerSeesOne ==
  ASSUME PipeTypeOK, NEW c \in Conns, NEW r, result' = [result EXCEPT ![c] = r]
  PROVE  [d \in Conns |-> CallerSees(result[d])]' =
           [[d \in Conns |-> CallerSees(result[d])] EXCEPT ![c] = CallerSees(r)]
<1>1. result \in [Conns -> Results]
  BY DEF PipeTypeOK
<1> QED BY <1>1

\* A step of a client is a call that begins, one that ends with its own
\* response or fails, nothing the service knows of, or the return of a buffer
\* into which no response was read.
LEMMA ClientRefines ==
  ASSUME PipeTypeOK, CallsOK, NEW c \in Conns, ClientNext(c), UNCHANGED executed,
         NEW at \in Middle \cup {"rest"}, TalkOK(c, at)
  PROVE  \/ Service!Call(c) \/ Service!Reply(c) \/ Service!Fail(c)
         \/ UNCHANGED <<calls, executed, result>>
         \/ pipe_send_ReadTextEOF(c)
<1>t. /\ result \in [Conns -> Results]
      /\ cstate \in [Conns -> ClientStates]
      /\ s2c \in [Conns -> Seq(Units)]
  BY DEF PipeTypeOK
<1>k. /\ cstate[c] = "ready" => CallerSees(result[c]).kind # "pending"
      /\ cstate[c] \in InCall => CallerSees(result[c]).kind = "pending"
  BY DEF CallsOK, CallerSees, Returned, InCall
<1>r. /\ CallerSees(Returned("pending", 0)) = Service!Outcome("pending", 0)
      /\ CallerSees(Returned("transport_error", 0)) = Service!Outcome("failed", 0)
      /\ CallerSees(Returned("reply", calls[c])) = Service!Outcome("reply", calls[c])
  BY DEF CallerSees, Returned, Service!Outcome
<1>1. CASE searpc_named_pipe_client_connect(c) \/ pipe_send_WriteText(c)
           \/ pipe_send_ReadLen(c) \/ searpc_free_client_with_pipe_transport(c) \/ Die(c)
  BY <1>1 DEF searpc_named_pipe_client_connect, pipe_send_WriteText, pipe_send_ReadLen,
              searpc_free_client_with_pipe_transport, Die
<1>2. CASE pipe_send_WriteLen(c) \/ pipe_send_WriteLenFails(c)
  <2>1. /\ cstate[c] = "ready"
        /\ calls' = [calls EXCEPT ![c] = @ + 1]
        /\ \E r \in {Returned("pending", 0), Returned("transport_error", 0)} :
             result' = [result EXCEPT ![c] = r]
    BY <1>2 DEF pipe_send_WriteLen, pipe_send_WriteLenFails
  <2>2. \E r \in {Service!Outcome("pending", 0), Service!Outcome("failed", 0)} :
          [d \in Conns |-> CallerSees(result[d])]' =
            [[d \in Conns |-> CallerSees(result[d])] EXCEPT ![c] = r]
    <3>1. CASE result' = [result EXCEPT ![c] = Returned("pending", 0)]
      BY <1>t, <1>r, <3>1, CallerSeesOne
    <3>2. CASE result' = [result EXCEPT ![c] = Returned("transport_error", 0)]
      BY <1>t, <1>r, <3>2, CallerSeesOne
    <3> QED BY <2>1, <3>1, <3>2
  <2> QED BY <1>k, <2>1, <2>2 DEF Service!Call
<1>3. CASE pipe_send_WriteTextFails(c) \/ pipe_send_ReadFails(c)
  <2>1. /\ cstate[c] \in InCall
        /\ calls' = calls
        /\ result' = [result EXCEPT ![c] = Returned("transport_error", 0)]
    BY <1>3 DEF pipe_send_WriteTextFails, pipe_send_ReadFails, Return, InCall
  <2>2. [d \in Conns |-> CallerSees(result[d])]' =
          [[d \in Conns |-> CallerSees(result[d])] EXCEPT ![c] = Service!Outcome("failed", 0)]
    BY <1>t, <1>r, <2>1, CallerSeesOne
  <2> QED BY <1>k, <2>1, <2>2 DEF Service!Fail
<1>4. CASE pipe_send_ReadText(c)
  <2>1. /\ cstate[c] = "reply" /\ s2c[c] # <<>>
        /\ calls' = calls
        /\ result' = [result EXCEPT ![c] = Returned("reply", Head(s2c[c]).call)]
    BY <1>4 DEF pipe_send_ReadText, TextStops, Return
  <2>2. ClosedOK(c)
    BY LeftOver
  <2>3. Head(s2c[c]).call = calls[c] /\ Done(c)
    <3>1. Head(s2c[c]) = s2c[c][1] /\ Len(s2c[c]) \in Nat \ {0}
      BY <1>t, <2>1, TailFacts
    <3>2. 1 \in 1..Len(s2c[c])
      BY <3>1
    <3> QED BY <2>1, <2>2, <3>1, <3>2 DEF ClosedOK
  <2>4. [d \in Conns |-> CallerSees(result[d])]' =
          [[d \in Conns |-> CallerSees(result[d])] EXCEPT
             ![c] = Service!Outcome("reply", calls[c])]
    BY <1>t, <1>r, <2>1, <2>3, CallerSeesOne
  <2>5. Service!LastExecuted(c) = calls[c]
    BY <2>3 DEF Done
  <2> QED BY <1>k, <2>1, <2>4, <2>5 DEF Service!Reply, InCall
<1> QED BY <1>1, <1>2, <1>3, <1>4 DEF ClientNext, searpc_named_pipe_send

-----------------------------------------------------------------------------
(* The server's side of the conversation.                                  *)

\* The length that is read is the last call's.
LEMMA ServerReadsLen ==
  ASSUME PipeTypeOK, NEW c \in Conns, TalkOK(c, "rest"), peer[c] = "open",
         c2s[c] # <<>>, c2s'[c] = Tail(c2s[c]),
         UNCHANGED <<cstate, calls, s2c, peer, executed>>
  PROVE  TalkOK(c, "text")' /\ Head(c2s[c]).call = calls[c]
<1>1. RestOK(c)
  BY DEF TalkOK
<1>u. /\ \A part : One(Unit(c, part))' = One(Unit(c, part))
      /\ Unexecuted(c)' <=> Unexecuted(c)
  BY SameUnits
<1>h. \A part : /\ Head(One(Unit(c, "len"))).call = calls[c]
                /\ Head(Two(Unit(c, "len"), Unit(c, part))).call = calls[c]
                /\ Tail(One(Unit(c, "len"))) = <<>>
                /\ Tail(Two(Unit(c, "len"), Unit(c, part))) = One(Unit(c, part))
  BY ShortStreams, UnitFacts
<1>2. AtTextOK(c)' /\ Head(c2s[c]).call = calls[c]
  <2>1. CASE cstate[c] = "text"
    BY <1>1, <1>u, <1>h, <2>1 DEF RestOK, AtTextOK
  <2>2. CASE cstate[c] = "wait"
    <3>1. c2s[c] = Two(Unit(c, "len"), Unit(c, "text")) /\ s2c[c] = <<>> /\ Unexecuted(c)
      BY <1>1, <2>2 DEF RestOK
    <3> QED BY <1>u, <1>h, <2>2, <3>1 DEF AtTextOK
  <2>3. CASE cstate[c] = "gone"
    <3>1. /\ Unexecuted(c)
          /\ \/ c2s[c] = One(Unit(c, "len"))
             \/ c2s[c] = Two(Unit(c, "len"), Unit(c, "text"))
             \/ c2s[c] = Two(Unit(c, "len"), Unit(c, "cut"))
      BY <1>1, <2>3 DEF RestOK
    <3> QED BY <1>u, <1>h, <2>3, <3>1 DEF AtTextOK
  <2> QED BY <1>1, <2>1, <2>2, <2>3 DEF RestOK, PipeTypeOK, ClientStates
<1> QED BY <1>2 DEF TalkOK

\* The text that is read is the last call's.
LEMMA ServerReadsText ==
  ASSUME NEW c \in Conns, TalkOK(c, "text"),
         c2s[c] # <<>>, Head(c2s[c]).part = "text", c2s'[c] = Tail(c2s[c]),
         UNCHANGED <<cstate, calls, s2c, peer, executed>>
  PROVE  TalkOK(c, "call")' /\ Head(c2s[c]).call = calls[c]
<1>1. AtTextOK(c) /\ peer[c] = "open"
  BY DEF TalkOK
<1>u. Unexecuted(c)' <=> Unexecuted(c)
  BY SameUnits
<1>2. c2s[c] = One(Unit(c, "text"))
  <2>1. c2s[c] # One(Unit(c, "cut"))
    <3>1. Head(One(Unit(c, "cut"))) = Unit(c, "cut")
      BY ShortStreams
    <3>2. Unit(c, "cut").part = "cut"
      BY UnitFacts
    <3> QED BY <3>1, <3>2
  <2> QED BY <1>1, <2>1 DEF AtTextOK
<1>3. c2s'[c] = <<>> /\ Head(c2s[c]).call = calls[c] /\ cstate[c] # "text"
  <2>1. Head(One(Unit(c, "text"))) = Unit(c, "text") /\ Tail(One(Unit(c, "text"))) = <<>>
    BY ShortStreams
  <2>2. Unit(c, "text").call = calls[c]
    BY UnitFacts
  <2> QED BY <1>1, <1>2, <2>1, <2>2 DEF AtTextOK
<1> QED BY <1>1, <1>3, <1>u DEF TalkOK, AtTextOK, AtCallOK

\* The client is gone before its request is complete.
LEMMA ServerReadStops ==
  ASSUME NEW c \in Conns, NEW at \in {"rest", "text"}, TalkOK(c, at),
         peer[c] = "open", cstate[c] = "gone",
         \/ c2s[c] = <<>> /\ c2s'[c] = <<>>
         \/ c2s[c] # <<>> /\ Head(c2s[c]).part = "cut" /\ c2s'[c] = Tail(c2s[c]),
         UNCHANGED <<cstate, calls, s2c, peer, executed>>
  PROVE  TalkOK(c, "rest")'
<1>1. /\ at = "rest" => RestOK(c)
      /\ at = "text" => AtTextOK(c)
  BY DEF TalkOK
<1>2. c2s'[c] = <<>>
  <2>1. CASE at = "rest"
    <3>1. c2s[c] = <<>> \/ Head(c2s[c]) = Unit(c, "len")
      BY <1>1, <2>1, ShortStreams DEF RestOK
    <3> QED BY <3>1, UnitFacts
  <2>2. CASE at = "text"
    <3>1. \/ c2s[c] = <<>>
          \/ c2s[c] = One(Unit(c, "text"))
          \/ c2s[c] = One(Unit(c, "cut"))
      BY <1>1, <2>2 DEF AtTextOK
    <3> QED BY <3>1, ShortStreams
  <2> QED BY <2>1, <2>2
<1> QED BY <1>2 DEF TalkOK, RestOK

\* The request is executed: a call of the service.
LEMMA ServerExecutes ==
  ASSUME PipeTypeOK, executed \in [Conns -> Seq(Nat)], NEW c \in Conns, TalkOK(c, "call"),
         executed' = [executed EXCEPT ![c] = Append(@, calls[c])],
         UNCHANGED <<cstate, calls, result, c2s, s2c, peer>>
  PROVE  /\ TalkOK(c, "wlen")'
         /\ Service!Execute(c)
         /\ Service!LastExecuted(c)' = calls[c]
         /\ \A d \in Conns : d # c => executed'[d] = executed[d]
<1>1. AtCallOK(c) /\ Unexecuted(c) /\ peer[c] = "open"
  BY DEF TalkOK
<1>2. calls[c] \in Nat
  BY DEF PipeTypeOK
<1>3. /\ Service!LastExecuted(c)' = calls[c]
      /\ \A d \in Conns : d # c => executed'[d] = executed[d]
  BY <1>2, ExecutedLast
<1>4. TalkOK(c, "wlen")'
  BY <1>1, <1>3 DEF TalkOK, AtCallOK, Done
<1>5. Service!Execute(c)
  BY <1>1 DEF Service!Execute, Unexecuted
<1> QED BY <1>3, <1>4, <1>5

\* An execution of the last call keeps the calls in order.
LEMMA ExecutedCalls ==
  ASSUME PipeTypeOK, CallsOK, NEW c \in Conns,
         Service!LastExecuted(c)' = calls[c],
         \A d \in Conns : d # c => executed'[d] = executed[d],
         UNCHANGED <<cstate, calls, result>>
  PROVE  CallsOK'
<1>1. \A d \in Conns : d # c => Service!LastExecuted(d)' = Service!LastExecuted(d)
  BY DEF Service!LastExecuted
<1>2. ASSUME NEW d \in Conns
      PROVE  Service!LastExecuted(d)' <= calls[d]
  <2>1. Service!LastExecuted(d) <= calls[d] /\ calls[d] \in Nat
    BY DEF CallsOK, PipeTypeOK
  <2>2. calls[d] <= calls[d]
    BY <2>1
  <2> QED BY <1>1, <2>1, <2>2
<1> QED BY <1>2 DEF CallsOK

\* The length of the response is written.
LEMMA ServerWritesLen ==
  ASSUME NEW c \in Conns, TalkOK(c, "wlen"), cstate[c] # "gone",
         s2c'[c] = Append(s2c[c], Unit(c, "len")),
         UNCHANGED <<cstate, calls, c2s, peer, executed>>
  PROVE  TalkOK(c, "wtext")'
<1>1. AtCallOK(c) /\ Done(c) /\ peer[c] = "open"
  BY DEF TalkOK
<1>u. /\ \A part : One(Unit(c, part))' = One(Unit(c, part))
      /\ Done(c)' <=> Done(c)
  BY SameUnits
<1>2. cstate[c] = "wait" /\ s2c'[c] = One(Unit(c, "len"))
  BY <1>1, ShortStreams DEF AtCallOK
<1> QED BY <1>1, <1>2, <1>u DEF TalkOK, AtCallOK, AtWriteTextOK

\* The response is written.
LEMMA ServerWritesText ==
  ASSUME NEW c \in Conns, TalkOK(c, "wtext"), cstate[c] # "gone",
         s2c'[c] = Append(s2c[c], Unit(c, "text")),
         UNCHANGED <<cstate, calls, c2s, peer, executed>>
  PROVE  TalkOK(c, "rest")'
<1>1. AtWriteTextOK(c) /\ peer[c] = "open"
  BY DEF TalkOK
<1>u. /\ \A part : One(Unit(c, part))' = One(Unit(c, part))
      /\ \A p, q : Two(Unit(c, p), Unit(c, q))' = Two(Unit(c, p), Unit(c, q))
      /\ Done(c)' <=> Done(c)
  BY SameUnits
<1>2. /\ cstate[c] \in {"wait", "reply"}
      /\ cstate[c] = "wait" => s2c'[c] = Two(Unit(c, "len"), Unit(c, "text"))
      /\ cstate[c] = "reply" => s2c'[c] = One(Unit(c, "text"))
  BY <1>1, ShortStreams DEF AtWriteTextOK
<1>3. (cstate[c] = "wait" => Answered(c)') /\ (cstate[c] = "reply" => HalfRead(c)')
  BY <1>1, <1>2, <1>u DEF Answered, HalfRead, AtWriteTextOK
<1> QED BY <1>1, <1>2, <1>3 DEF TalkOK, AtWriteTextOK, RestOK

\* The client is gone before the response is written.
LEMMA ServerWriteStops ==
  ASSUME NEW c \in Conns, NEW at \in {"wlen", "wtext"}, TalkOK(c, at), cstate[c] = "gone",
         UNCHANGED <<cstate, calls, c2s, s2c, peer, executed>>
  PROVE  TalkOK(c, "rest")'
<1>1. peer[c] = "open" /\ c2s[c] = <<>>
  BY DEF TalkOK, AtCallOK, AtWriteTextOK
<1> QED BY <1>1 DEF TalkOK, RestOK

\* Whenever the server closes, what it leaves behind is legal.
LEMMA ServerCloses ==
  ASSUME NEW c \in Conns, NEW at \in Middle \cup {"rest"}, TalkOK(c, at),
         peer'[c] # "open", UNCHANGED <<cstate, calls, c2s, s2c, executed>>
  PROVE  TalkOK(c, "rest")'
<1>1. ClosedOK(c)
  BY LeftOver
<1>2. Done(c)' <=> Done(c)
  BY SameUnits
<1>3. ClosedOK(c)'
  BY <1>1, <1>2 DEF ClosedOK
<1> QED BY <1>3 DEF TalkOK
==============================================================================
