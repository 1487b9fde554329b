----------------------------- MODULE PipeFrames ------------------------------
(***************************************************************************)
(* The bytes under a call (lib/searpc-named-pipe-transport.c): pipe_write_n *)
(* and pipe_read_n move a 32-bit length and then a text through a socket    *)
(* that takes and gives any number of bytes at a time.  One direction of a  *)
(* connection is modelled, with several frames one after the other: the     *)
(* requests, from searpc_named_pipe_send to named_pipe_client_handler, or    *)
(* the responses, back.                                                    *)
(*                                                                         *)
(* A guint32 has HeaderLen digits of one bit, each a byte of the stream.    *)
(* EINTR, after which both loops go round again, changes nothing.           *)
(***************************************************************************)
EXTENDS Integers, Sequences

CONSTANTS
  HeaderLen,     \* sizeof (guint32)
  FirstBufSize,  \* bufsize when named_pipe_client_handler begins: 4096
  Lens,          \* lengths of texts
  MaxFrames,     \* bound: frames on the connection
  Capacity       \* bytes the socket holds

Pow2[n \in Nat] == IF n = 0 THEN 1 ELSE 2 * Pow2[n - 1]

ASSUME FramesAssumption ==
  /\ HeaderLen \in Nat \ {0} /\ MaxFrames \in Nat /\ Capacity \in Nat \ {0}
  /\ Lens \subseteq Nat \ {0}
  /\ \E e \in 0..(HeaderLen - 1) : FirstBufSize = Pow2[e]

Word == Pow2[HeaderLen]

VARIABLES
  kind,       \* "request" or "response"
  lens,       \* the lengths of the texts that will be written
  wpc,        \* "next", "header", "text", "failed" or "dead"
  frame,      \* the frame being written
  left,       \* the bytes pipe_write_n has still to write
  stream,     \* the bytes in the socket
  rpc,        \* "header", "grow", "text", "out"
  got,        \* the bytes pipe_read_n has read
  len,        \* the reader's len
  bufsize,    \* the size of its buffer
  delivered   \* the texts it has passed on

wVars == <<wpc, frame, left>>
rVars == <<rpc, got, len, bufsize, delivered>>
vars  == <<kind, lens, wVars, stream, rVars>>

Bytes == [kind : {"digit"}, frame : 0..1, pos : {0}]
           \cup [kind : {"text"}, frame : 1..MaxFrames, pos : Nat]

Min2(a, b) == IF a < b THEN a ELSE b

TypeOK ==
  /\ kind \in {"request", "response"} /\ lens \in [1..MaxFrames -> Lens]
  /\ wpc \in {"next", "header", "text", "failed", "dead"} /\ frame \in 0..MaxFrames
  /\ left \in Seq(Bytes) /\ stream \in Seq(Bytes) /\ Len(stream) <= Capacity
  /\ rpc \in {"header", "grow", "text", "out"} /\ got \in Seq(Bytes)
  /\ len \in 0..(Word - 1) /\ bufsize \in 0..(Word - 1)
  /\ delivered \in Seq(Seq(Bytes))

Init ==
  /\ kind \in {"request", "response"} /\ lens \in [1..MaxFrames -> Lens]
  /\ wpc = "next" /\ frame = 0 /\ left = <<>> /\ stream = <<>>
  /\ rpc = "header" /\ got = <<>> /\ len = 0 /\ bufsize = FirstBufSize
  /\ delivered = <<>>

Digit(v)     == [kind |-> "digit", frame |-> v, pos |-> 0]
Bit(n, i)    == (n \div Pow2[i - 1]) % 2
Header(n)    == [i \in 1..HeaderLen |-> Digit(Bit(n, i))]
Text(f, n)   == [i \in 1..n |-> [kind |-> "text", frame |-> f, pos |-> i]]

-----------------------------------------------------------------------------
(* The writer.                                                             *)

\* The length, cut to 32 bits, is to be written.
send_Header ==
  /\ wpc = "next" /\ frame < MaxFrames
  /\ frame' = frame + 1
  /\ left' = Header(lens[frame + 1] % Word)
  /\ wpc' = "header"
  /\ UNCHANGED <<kind, lens, stream, rVars>>

\* Then the text: the client writes len bytes, the handler ret_len.
Written(f) == Text(f, IF kind = "request" THEN lens[f] % Word ELSE lens[f])

send_Text ==
  /\ wpc = "header" /\ left = <<>>
  /\ left' = Written(frame)
  /\ wpc' = "text"
  /\ UNCHANGED <<kind, lens, frame, stream, rVars>>

send_Done ==
  /\ wpc = "text" /\ left = <<>>
  /\ wpc' = "next"
  /\ UNCHANGED <<kind, lens, frame, left, stream, rVars>>

\* MUTANT of pipe_write_n: one write, whatever it returns.
pipe_write_n_Once ==
  /\ left # <<>> /\ wpc \in {"header", "text"} /\ rpc # "out"
  /\ \E n \in 1..Min2(Len(left), Capacity - Len(stream)) :
       stream' = stream \o SubSeq(left, 1, n)
  /\ left' = <<>>
  /\ UNCHANGED <<kind, lens, wpc, frame, rVars>>

\* A write takes as many bytes as it likes.
pipe_write_n ==
  /\ left # <<>> /\ wpc \in {"header", "text"} /\ rpc # "out"
  /\ \E n \in 1..Min2(Len(left), Capacity - Len(stream)) :
       /\ stream' = stream \o SubSeq(left, 1, n)
       /\ left' = SubSeq(left, n + 1, Len(left))
  /\ UNCHANGED <<kind, lens, wpc, frame, rVars>>

\* The reader has closed the socket: -1.
pipe_write_n_Fails ==
  /\ left # <<>> /\ wpc \in {"header", "text"} /\ rpc = "out"
  /\ wpc' = "failed"
  /\ UNCHANGED <<kind, lens, frame, left, stream, rVars>>

\* The writer's process dies, or is done with the connection.
WriterDies ==
  /\ wpc \notin {"failed", "dead"}
  /\ wpc' = "dead"
  /\ UNCHANGED <<kind, lens, frame, left, stream, rVars>>

-----------------------------------------------------------------------------
(* The reader.                                                             *)

Wanted == IF rpc = "header" THEN HeaderLen ELSE len

EOF == wpc \in {"dead", "failed"} /\ stream = <<>>

\* A read gives as many bytes as it likes.
pipe_read_n ==
  /\ rpc \in {"header", "text"} /\ stream # <<>> /\ Len(got) < Wanted
  /\ \E n \in 1..Min2(Wanted - Len(got), Len(stream)) :
       /\ got' = got \o SubSeq(stream, 1, n)
       /\ stream' = SubSeq(stream, n + 1, Len(stream))
  /\ UNCHANGED <<kind, lens, wVars, rpc, len, bufsize, delivered>>

\* pipe_read_n returns all it should read, or less at end of file.
Complete == Len(got) = Wanted \/ EOF

\* The digits len may have: what is not read of it is 0 in the handler, and in
\* the client what it held before; a byte of a text is any digit.
Digits(i) ==
  IF i \in DOMAIN got
    THEN IF got[i].kind = "digit" THEN {got[i].frame} ELSE {0, 1}
    ELSE IF kind = "request" THEN {0} ELSE {0, 1}

\* MUTANT of Lengths: len is signed.
Lengths_Signed ==
  LET low == Pow2[HeaderLen - 1]
  IN {n \in (-low)..(low - 1) : \A i \in 1..HeaderLen : Bit(n % Word, i) \in Digits(i)}

\* The values of a guint32 that are stored as such digits.
Lengths == {n \in 0..(Word - 1) : \A i \in 1..HeaderLen : Bit(n, i) \in Digits(i)}

\* The length is there.  A handler leaves its loop if it is 0.
read_Header ==
  /\ rpc = "header" /\ Complete
  /\ \E n \in Lengths :
       /\ len' = n
       /\ rpc' = IF kind = "response" THEN "text" ELSE IF n = 0 THEN "out" ELSE "grow"
  /\ got' = <<>>
  /\ UNCHANGED <<kind, lens, wVars, stream, bufsize, delivered>>

\* MUTANT of grow_Double: the size is doubled while it is not above len.
grow_Double_AtLeast ==
  /\ rpc = "grow"
  /\ IF bufsize <= len THEN bufsize' = (bufsize * 2) % Word /\ UNCHANGED rpc
                       ELSE rpc' = "text" /\ UNCHANGED bufsize
  /\ UNCHANGED <<kind, lens, wVars, stream, got, len, delivered>>

\* One round of the loop that doubles bufsize, or its end.
grow_Double ==
  /\ rpc = "grow"
  /\ IF bufsize < len THEN bufsize' = (bufsize * 2) % Word /\ UNCHANGED rpc
                      ELSE rpc' = "text" /\ UNCHANGED bufsize
  /\ UNCHANGED <<kind, lens, wVars, stream, got, len, delivered>>

\* The text is there, or as much as came.  A text that is cut does not parse:
\* the handler leaves its loop, and a call on a dead connection is the last.
read_Text ==
  /\ rpc = "text" /\ Complete
  /\ delivered' = Append(delivered, got)
  /\ rpc' = IF \E f \in 1..MaxFrames : got = Text(f, lens[f]) THEN "header" ELSE
            IF kind = "request" \/ EOF THEN "out" ELSE "header"
  /\ got' = <<>>
  /\ UNCHANGED <<kind, lens, wVars, stream, len, bufsize>>

Writer == send_Header \/ send_Text \/ send_Done \/ pipe_write_n \/ pipe_write_n_Fails
Reader == pipe_read_n \/ read_Header \/ grow_Double \/ read_Text

Next == Writer \/ WriterDies \/ Reader

Spec == Init /\ [][Next]_vars

\* Reader and writer run; nothing makes the writer die.
FairSpec == Spec /\ WF_vars(Writer) /\ WF_vars(Reader)

-----------------------------------------------------------------------------
\* The texts that arrive are those that were written, whole and in order,
\* however reads and writes cut the stream; less than a text arrives only at
\* end of file, and nothing after it.  A request of Word bytes or more is cut to
\* the length of its header.  Of a response of Word bytes or more, which is
\* written whole behind the length cut to 32 bits, the client takes that many
\* bytes for the response; only after it is the reader out of step
\* (transport.c:270, 531-541, 631, 723-770).
FramesWhole ==
  \A i \in DOMAIN delivered :
    kind = "request" \/ (\A j \in 1..(i - 1) : j <= MaxFrames => lens[j] < Word) =>
      \/ i <= frame /\ delivered[i] = Text(i, lens[i] % Word)
      \/ /\ i = Len(delivered) /\ wpc \in {"dead", "failed"} /\ rpc = "out"
         /\ i <= frame => /\ delivered[i] = Text(i, Len(delivered[i]))
                          /\ Len(delivered[i]) <= lens[i] % Word
         /\ i > frame => delivered[i] = <<>>

\* A text fits into the handler's buffer and is at most Word / 2 long.  It is
\* exactly with a longer request that bufsize wraps around to 0, and then the
\* handler is in the loop that doubles it, which it never leaves
\* (transport.c:508-513).
BufferLimit ==
  /\ kind = "request" /\ rpc = "text" => len <= bufsize /\ len <= Word \div 2
  /\ bufsize = 0 => rpc = "grow" /\ len > Word \div 2

\* A frame whose length fits, and of a request half of what fits, arrives
\* unless the writer dies or a longer one came before: the loop that doubles
\* bufsize does not end for a request above Word / 2 (transport.c:508-511).
FramesArrive ==
  \A i \in 1..MaxFrames :
    frame = i /\ (\A j \in 1..i : lens[j] < Word /\ (kind = "request" => lens[j] <= Word \div 2))
      ~> (Len(delivered) >= i \/ wpc = "dead")
==============================================================================
