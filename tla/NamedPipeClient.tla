--------------------------- MODULE NamedPipeClient ---------------------------
(***************************************************************************)
(* The client end of the named-pipe transport, and the AF_UNIX stream      *)
(* sockets it shares with the server (lib/searpc-named-pipe-transport.c).  *)
(*                                                                         *)
(* A connection c is one SearpcNamedPipeClient with its socket.  A call    *)
(* sends a 4-byte length and then the JSON text, in two writes, and waits  *)
(* for a length and a text in return.  Both streams are sequences of       *)
(* units: a length or a whole text, tagged with the number of the call     *)
(* they belong to.  A process that dies inside the write of the text       *)
(* leaves a text that is cut short: a unit of its own ("cut").             *)
(*                                                                         *)
(* A server module EXTENDS this one and adds the other end, which takes    *)
(* the calls that executed records.                                        *)
(***************************************************************************)
EXTENDS Naturals, Sequences

CONSTANTS
  Conns,      \* the connections
  MaxCalls,   \* bound: calls made on one connection
  Backlog     \* bound: connections the listening socket keeps unaccepted

ASSUME ClientAssumption == MaxCalls \in Nat /\ Backlog \in Nat \ {0}

VARIABLES
  cstate,   \* where the client is in searpc_named_pipe_send
  calls,    \* how many calls the client has begun
  result,   \* what the last call returned to its caller
  c2s,      \* request bytes in the socket
  s2c,      \* response bytes in the socket
  peer,     \* the server's end, as the client's system calls see it
  backlog,  \* connections made and not yet accepted
  executed  \* history: the calls the server has executed for each connection

clientVars == <<cstate, calls, result>>
streamVars == <<c2s, s2c, peer, backlog>>
pipeVars   == <<clientVars, streamVars>>

\* "new"    not connected           "ready"  connected, no call in progress
\* "text"   length written          "wait"   request written, response awaited
\* "reply"  first response read returned, the second is next
\* "gone"   socket closed, by searpc_free_client_with_pipe_transport or death
ClientStates == {"new", "ready", "text", "wait", "reply", "gone"}

\* The states in which a call is in progress.
InCall == {"text", "wait", "reply"}

Units == [part : {"len", "text", "cut"}, call : Nat]

\* "reply" is a response and the call it answers; "transport_error" is NULL
\* (TRANSPORT_ERROR for the caller); "garbage" is a buffer that is returned
\* as a response although no response was read into it.
Results == [kind : {"none", "pending", "reply", "transport_error", "garbage"},
            call : Nat]

Returned(k, n) == [kind |-> k, call |-> n]

PeerStates == {"open", "eof", "reset"}

PipeTypeOK ==
  /\ cstate \in [Conns -> ClientStates]
  /\ calls \in [Conns -> Nat]
  /\ result \in [Conns -> Results]
  /\ c2s \in [Conns -> Seq(Units)]
  /\ s2c \in [Conns -> Seq(Units)]
  /\ peer \in [Conns -> PeerStates]
  /\ backlog \in Seq(Conns)

PipeInit ==
  /\ cstate = [c \in Conns |-> "new"]
  /\ calls = [c \in Conns |-> 0]
  /\ result = [c \in Conns |-> Returned("none", 0)]
  /\ c2s = [c \in Conns |-> <<>>]
  /\ s2c = [c \in Conns |-> <<>>]
  /\ peer = [c \in Conns |-> "open"]
  /\ backlog = <<>>

-----------------------------------------------------------------------------
(* The sockets: what a write, a read and a close do to the streams.        *)

\* A write of a whole unit, by the client and by the server.
Put(stream, c, part, n) ==
  [stream EXCEPT ![c] = Append(@, [part |-> part, call |-> n])]

Take(stream, c) == [stream EXCEPT ![c] = Tail(@)]

\* The server closes its end: the client reads what is left, then end of
\* file, or ECONNRESET if the server had not read all of the request.
HangUp(c) ==
  peer' = [peer EXCEPT ![c] = IF c2s[c] = <<>> THEN "eof" ELSE "reset"]

-----------------------------------------------------------------------------
(* The client's steps.                                                     *)

\* connect() blocks while the listening socket's backlog is full.
searpc_named_pipe_client_connect(c) ==
  /\ cstate[c] = "new"
  /\ Len(backlog) < Backlog
  /\ cstate' = [cstate EXCEPT ![c] = "ready"]
  /\ backlog' = Append(backlog, c)
  /\ UNCHANGED <<calls, result, c2s, s2c, peer>>

\* The call ends and its caller gets r.
Return(c, r) ==
  /\ cstate' = [cstate EXCEPT ![c] = "ready"]
  /\ result' = [result EXCEPT ![c] = r]
  /\ UNCHANGED calls

\* searpc_named_pipe_send begins: it writes the length of the request.
pipe_send_WriteLen(c) ==
  /\ cstate[c] = "ready"
  /\ calls[c] < MaxCalls
  /\ peer[c] = "open"
  /\ cstate' = [cstate EXCEPT ![c] = "text"]
  /\ calls' = [calls EXCEPT ![c] = @ + 1]
  /\ result' = [result EXCEPT ![c] = Returned("pending", 0)]
  /\ c2s' = Put(c2s, c, "len", calls[c] + 1)
  /\ UNCHANGED <<s2c, peer, backlog>>

\* The same write on a connection the server has closed: EPIPE, and NULL.
pipe_send_WriteLenFails(c) ==
  /\ cstate[c] = "ready"
  /\ calls[c] < MaxCalls
  /\ peer[c] # "open"
  /\ calls' = [calls EXCEPT ![c] = @ + 1]
  /\ result' = [result EXCEPT ![c] = Returned("transport_error", 0)]
  /\ UNCHANGED <<cstate, streamVars>>

pipe_send_WriteText(c) ==
  /\ cstate[c] = "text"
  /\ peer[c] = "open"
  /\ cstate' = [cstate EXCEPT ![c] = "wait"]
  /\ c2s' = Put(c2s, c, "text", calls[c])
  /\ UNCHANGED <<calls, result, s2c, peer, backlog>>

pipe_send_WriteTextFails(c) ==
  /\ cstate[c] = "text"
  /\ peer[c] # "open"
  /\ Return(c, Returned("transport_error", 0))
  /\ UNCHANGED streamVars

\* MUTANT of pipe_send_ReadLen: pipe_read_n goes round its loop at end of file.
ReadLen_NoEOF(c) ==
  /\ cstate[c] = "wait"
  /\ s2c[c] # <<>> /\ s2c' = Take(s2c, c)
  /\ cstate' = [cstate EXCEPT ![c] = "reply"]
  /\ UNCHANGED <<calls, result, c2s, peer, backlog>>

\* The length of the response is read.  At end of file pipe_read_n returns 0,
\* which is not the error the caller tests for: len keeps the length of the
\* request, and the call goes on to read a text of that length.
pipe_send_ReadLen(c) ==
  /\ cstate[c] = "wait"
  /\ \/ s2c[c] # <<>> /\ s2c' = Take(s2c, c)
     \/ s2c[c] = <<>> /\ peer[c] = "eof" /\ UNCHANGED s2c
  /\ cstate' = [cstate EXCEPT ![c] = "reply"]
  /\ UNCHANGED <<calls, result, c2s, peer, backlog>>

\* No whole text is left to read: nothing, or one that was cut short.
TextStops(c) == s2c[c] # <<>> => Head(s2c[c]).part = "cut"

\* The text of the response is read and returned.
pipe_send_ReadText(c) ==
  /\ cstate[c] = "reply"
  /\ ~TextStops(c)
  /\ Return(c, Returned("reply", Head(s2c[c]).call))
  /\ s2c' = Take(s2c, c)
  /\ UNCHANGED <<c2s, peer, backlog>>

\* End of file instead of the text, or inside it, is again not an error: the
\* buffer fresh from g_malloc is returned, with little or nothing read into it.
pipe_send_ReadTextEOF(c) ==
  /\ cstate[c] = "reply"
  /\ TextStops(c)
  /\ peer[c] = "eof"
  /\ Return(c, Returned("garbage", 0))
  /\ s2c' = [s2c EXCEPT ![c] = <<>>]
  /\ UNCHANGED <<c2s, peer, backlog>>

\* MUTANT of pipe_send_ReadFails: a read that was merely interrupted is taken
\* for a failure, and the response stays in the socket.
ReadFails_Interrupted(c) ==
  /\ cstate[c] \in {"wait", "reply"}
  /\ s2c[c] = <<>>
  /\ Return(c, Returned("transport_error", 0))
  /\ UNCHANGED streamVars

\* Either read fails with ECONNRESET: the call returns NULL.
pipe_send_ReadFails(c) ==
  /\ cstate[c] \in {"wait", "reply"}
  /\ TextStops(c)
  /\ peer[c] = "reset"
  /\ Return(c, Returned("transport_error", 0))
  /\ s2c' = [s2c EXCEPT ![c] = <<>>]
  /\ UNCHANGED <<c2s, peer, backlog>>

\* The owner frees a client that is not in a call; its socket is closed.
searpc_free_client_with_pipe_transport(c) ==
  /\ cstate[c] = "ready"
  /\ cstate' = [cstate EXCEPT ![c] = "gone"]
  /\ UNCHANGED <<calls, result, streamVars>>

\* The client's process dies inside a call.  If it was writing the text of a
\* request, the socket may hold the beginning of that text.
Die(c) ==
  /\ cstate[c] \in InCall
  /\ cstate' = [cstate EXCEPT ![c] = "gone"]
  /\ \/ UNCHANGED c2s
     \/ cstate[c] = "text" /\ peer[c] = "open" /\ c2s' = Put(c2s, c, "cut", calls[c])
  /\ UNCHANGED <<calls, result, s2c, peer, backlog>>

\* What a call does once it has begun: none of it waits for the application.
searpc_named_pipe_send(c) ==
  \/ pipe_send_WriteText(c)
  \/ pipe_send_WriteTextFails(c)
  \/ pipe_send_ReadLen(c)
  \/ pipe_send_ReadText(c)
  \/ pipe_send_ReadTextEOF(c)
  \/ pipe_send_ReadFails(c)

ClientNext(c) ==
  \/ searpc_named_pipe_client_connect(c)
  \/ pipe_send_WriteLen(c)
  \/ pipe_send_WriteLenFails(c)
  \/ searpc_named_pipe_send(c)
  \/ searpc_free_client_with_pipe_transport(c)
  \/ Die(c)

-----------------------------------------------------------------------------
\* What a caller can tell apart: a transport error is a failed call.
CallerSees(r) == IF r.kind = "transport_error" THEN Returned("failed", 0) ELSE r

\* What the transport promises to the two ends of every connection.
Service == INSTANCE RpcService WITH result <- [c \in Conns |-> CallerSees(result[c])]
=============================================================================
