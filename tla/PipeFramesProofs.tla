-------------------------- MODULE PipeFramesProofs ---------------------------
(***************************************************************************)
(* Theorems about PipeFrames, for any width of the header, any lengths of  *)
(* texts, any number of frames and any capacity of the socket.             *)
(*                                                                         *)
(* FramesWhole needs to know where in the stream the reader is.  FrameInv  *)
(* says that there is a sequence of all bytes the writer has begun to      *)
(* write, with a place where each frame starts, such that the bytes in the *)
(* socket and those the reader has got are the stretch of it they should   *)
(* be, and that the reader counts frames as the writer does.               *)
(***************************************************************************)
EXTENDS PipeFrames, WellFoundedInduction, TLAPS

-----------------------------------------------------------------------------
(* Numbers and their digits.                                               *)

\* Induction over the natural numbers, for a set in the place of a predicate.
LEMMA SetInduction ==
  ASSUME NEW S, 0 \in S, \A n \in Nat : n \in S => n + 1 \in S
  PROVE  Nat \subseteq S
<1> DEFINE T == Nat \ S
           R == OpToRel(<, Nat)
<1>1. SUFFICES ASSUME T # {} PROVE FALSE
  OBVIOUS
<1>2. IsWellFoundedOn(R, Nat)
  BY NatLessThanWellFounded
<1>3. \A a, b \in Nat : a < b => <<a, b>> \in R
  BY DEF OpToRel
<1>4. T \subseteq Nat
  OBVIOUS
<1> HIDE DEF R
<1>5. PICK x \in T : \A y \in T : ~(<<y, x>> \in R)
  BY <1>1, <1>2, <1>4, WFMin
<1>6. x - 1 \in Nat /\ x - 1 < x
  BY <1>5
<1>7. x - 1 \notin T
  BY <1>3, <1>5, <1>6
<1> QED BY <1>5, <1>6, <1>7

\* A finite table of powers of two.
Table(n, g) ==
  /\ g \in [0..n -> Nat]
  /\ g[0] = 1
  /\ \A i \in 1..n : g[i] = 2 * g[i - 1]

LEMMA TableExists == \A n \in Nat : \E g : Table(n, g)
<1> DEFINE S == {n \in Nat : \E g : Table(n, g)}
<1>1. 0 \in S
  <2>1. Table(0, [i \in 0..0 |-> 1])
    BY DEF Table
  <2> QED BY <2>1
<1>2. ASSUME NEW n \in Nat, n \in S PROVE n + 1 \in S
  <2>1. PICK g : Table(n, g)
    BY <1>2
  <2> DEFINE h == [i \in 0..(n + 1) |-> IF i = n + 1 THEN 2 * g[n] ELSE g[i]]
  <2>2. h \in [0..(n + 1) -> Nat] /\ h[0] = 1
    BY <2>1 DEF Table
  <2>3. \A i \in 1..(n + 1) : h[i] = 2 * h[i - 1]
    BY <2>1 DEF Table
  <2> HIDE DEF h
  <2>4. Table(n + 1, h)
    BY <2>2, <2>3 DEF Table
  <2> QED BY <2>4
<1>3. Nat \subseteq S
  <2> HIDE DEF S
  <2> QED BY <1>1, <1>2, SetInduction
<1> QED BY <1>3

LEMMA TablesAgree ==
  ASSUME NEW m \in Nat, NEW n \in Nat, NEW g, NEW h, Table(m, g), Table(n, h)
  PROVE  \A i \in Nat : i <= m /\ i <= n => g[i] = h[i]
<1> DEFINE S == {i \in Nat : i <= m /\ i <= n => g[i] = h[i]}
<1>1. 0 \in S
  BY DEF Table
<1>2. ASSUME NEW i \in Nat, i \in S PROVE i + 1 \in S
  <2>1. SUFFICES ASSUME i + 1 <= m, i + 1 <= n PROVE g[i + 1] = h[i + 1]
    OBVIOUS
  <2>2. g[i] = h[i]
    BY <1>2, <2>1
  <2>3. g[i + 1] = 2 * g[(i + 1) - 1] /\ h[i + 1] = 2 * h[(i + 1) - 1] /\ (i + 1) - 1 = i
    BY <2>1 DEF Table
  <2> QED BY <2>2, <2>3
<1>3. Nat \subseteq S
  <2> HIDE DEF S
  <2> QED BY <1>1, <1>2, SetInduction
<1> QED BY <1>3

\* The recursive definition of Pow2 defines a function.
LEMMA Pow2Facts ==
  /\ Pow2 \in [Nat -> Nat \ {0}]
  /\ Pow2[0] = 1
  /\ \A n \in Nat : Pow2[n + 1] = 2 * Pow2[n]
<1> DEFINE table(n) == CHOOSE g : Table(n, g)
           pow == [n \in Nat |-> table(n)[n]]
<1>1. \A n \in Nat : Table(n, table(n))
  BY TableExists
<1> HIDE DEF table
<1>2. \A n \in Nat : pow[n] \in Nat
  BY <1>1 DEF Table
<1>3. pow[0] = 1
  BY <1>1 DEF Table
<1>4. ASSUME NEW n \in Nat PROVE pow[n + 1] = 2 * pow[n]
  <2>1. Table(n, table(n)) /\ Table(n + 1, table(n + 1)) /\ n + 1 \in Nat
    BY <1>1
  <2>2. table(n)[n] = table(n + 1)[n]
    BY <2>1, TablesAgree
  <2>3. table(n + 1)[n + 1] = 2 * table(n + 1)[(n + 1) - 1] /\ (n + 1) - 1 = n
    BY <2>1 DEF Table
  <2> QED BY <2>1, <2>2, <2>3
<1>5. pow = [n \in Nat |-> IF n = 0 THEN 1 ELSE 2 * pow[n - 1]]
  <2>1. ASSUME NEW n \in Nat PROVE pow[n] = IF n = 0 THEN 1 ELSE 2 * pow[n - 1]
    <3> HIDE DEF pow
    <3>1. CASE n = 0
      BY <1>3, <3>1
    <3>2. CASE n # 0
      <4>1. n - 1 \in Nat /\ (n - 1) + 1 = n
        BY <3>2
      <4> QED BY <1>4, <3>2, <4>1
    <3> QED BY <3>1, <3>2
  <2> QED BY <2>1, Zenon
<1>6. Pow2 = [n \in Nat |-> IF n = 0 THEN 1 ELSE 2 * Pow2[n - 1]]
  <2> HIDE DEF pow
  <2> QED BY <1>5, Zenon DEF Pow2
<1>7. Pow2[0] = 1 /\ DOMAIN Pow2 = Nat
  BY <1>6
<1>8. ASSUME NEW n \in Nat PROVE Pow2[n + 1] = 2 * Pow2[n]
  <2>1. n + 1 \in Nat /\ n + 1 # 0 /\ (n + 1) - 1 = n
    OBVIOUS
  <2> QED BY <1>6, <2>1
<1>9. \A n \in Nat : Pow2[n] \in Nat \ {0}
  <2> DEFINE S == {n \in Nat : Pow2[n] \in Nat \ {0}}
  <2>1. 0 \in S
    BY <1>7
  <2>2. \A n \in Nat : n \in S => n + 1 \in S
    BY <1>8
  <2>3. Nat \subseteq S
    <3> HIDE DEF S
    <3> QED BY <2>1, <2>2, SetInduction
  <2> QED BY <2>3
<1>10. Pow2 \in [Nat -> Nat \ {0}]
  BY <1>6, <1>9
<1> QED BY <1>7, <1>8, <1>10

LEMMA Pow2Grows ==
  ASSUME NEW m \in Nat, NEW n \in Nat, m < n
  PROVE  Pow2[m] < Pow2[n]
<1> DEFINE S == {d \in Nat : Pow2[m] < Pow2[m + (d + 1)]}
<1>1. 0 \in S
  <2>1. Pow2[m] \in Nat \ {0} /\ Pow2[m + 1] = 2 * Pow2[m]
    BY Pow2Facts
  <2> QED BY <2>1
<1>2. ASSUME NEW d \in Nat, d \in S PROVE d + 1 \in S
  <2>1. /\ Pow2[m] \in Nat
        /\ Pow2[m + (d + 1)] \in Nat \ {0}
        /\ Pow2[(m + (d + 1)) + 1] = 2 * Pow2[m + (d + 1)]
        /\ (m + (d + 1)) + 1 = m + ((d + 1) + 1)
    BY Pow2Facts
  <2> QED BY <1>2, <2>1
<1>3. Nat \subseteq S
  <2> HIDE DEF S
  <2> QED BY <1>1, <1>2, SetInduction
<1>4. n - m - 1 \in Nat /\ m + ((n - m - 1) + 1) = n
  OBVIOUS
<1> QED BY <1>3, <1>4

\* A number below Pow2[h] is determined by its h digits.
LEMMA DigitsDetermine ==
  ASSUME NEW h \in Nat, NEW m \in 0..(Pow2[h] - 1), NEW n \in 0..(Pow2[h] - 1),
         \A i \in 1..h : Bit(m, i) = Bit(n, i)
  PROVE  m = n
<1>0. m \in Nat /\ n \in Nat /\ m < Pow2[h] /\ n < Pow2[h] /\ Pow2[h] \in Nat \ {0}
  BY Pow2Facts
<1> DEFINE S == {d \in Nat : d <= h => m \div Pow2[h - d] = n \div Pow2[h - d]}
<1>1. 0 \in S
  <2>1. h - 0 = h
    OBVIOUS
  <2>2. m \div Pow2[h] = 0
    BY <1>0
  <2>3. n \div Pow2[h] = 0
    BY <1>0
  <2> QED BY <2>1, <2>2, <2>3
<1>2. ASSUME NEW d \in Nat, d \in S PROVE d + 1 \in S
  <2>1. SUFFICES ASSUME d + 1 <= h
                 PROVE  m \div Pow2[h - (d + 1)] = n \div Pow2[h - (d + 1)]
    OBVIOUS
  <2>2. PICK e \in Nat : e = h - (d + 1)
    BY <2>1
  <2>3. h - d = e + 1 /\ (e + 1) - 1 = e /\ e + 1 \in 1..h /\ d <= h
    BY <2>1, <2>2
  <2>4. PICK p \in Nat \ {0} : p = Pow2[e] /\ Pow2[e + 1] = 2 * p
    BY Pow2Facts
  <2>5. m \div (2 * p) = n \div (2 * p)
    BY <1>2, <2>3, <2>4
  <2>6. (m \div p) % 2 = (n \div p) % 2
    BY <2>3, <2>4 DEF Bit
  <2>7. ASSUME NEW a \in Nat PROVE (a \div p) \div 2 = a \div (2 * p) /\ a \div p \in Nat
    <3>1. a \div p \in Nat
      OBVIOUS
    <3>2. (a \div p) \div 2 = a \div (2 * p)
      OBVIOUS
    <3> QED BY <3>1, <3>2
  <2>8. PICK a \in Nat, b \in Nat : a = m \div p /\ b = n \div p
    BY <1>0, <2>7
  <2>9. a \div 2 = b \div 2 /\ a % 2 = b % 2
    BY <1>0, <2>5, <2>6, <2>7, <2>8
  <2>10. a = b
    BY <2>9
  <2> QED BY <2>2, <2>4, <2>8, <2>10
<1>3. Nat \subseteq S
  <2> HIDE DEF S
  <2> QED BY <1>1, <1>2, SetInduction
<1>4. m \div Pow2[0] = n \div Pow2[0]
  <2>1. h - h = 0 /\ h <= h
    OBVIOUS
  <2> QED BY <1>3, <2>1
<1> QED BY <1>0, <1>4, Pow2Facts

LEMMA WordFacts ==
  /\ HeaderLen \in Nat \ {0} /\ MaxFrames \in Nat /\ Capacity \in Nat \ {0}
  /\ Word \in Nat \ {0}
  /\ FirstBufSize \in 0..(Word - 1)
  /\ \A n \in Nat : n % Word \in 0..(Word - 1) /\ n % Word <= n /\ (n < Word => n % Word = n)
  /\ \A n \in Lens : n \in Nat /\ n > 0
<1>1. HeaderLen \in Nat \ {0} /\ MaxFrames \in Nat /\ Capacity \in Nat \ {0} /\ Lens \subseteq Nat \ {0}
  BY FramesAssumption
<1>2. Word \in Nat \ {0}
  BY <1>1, Pow2Facts DEF Word
<1>3. FirstBufSize \in 0..(Word - 1)
  <2>1. PICK e \in 0..(HeaderLen - 1) : FirstBufSize = Pow2[e]
    BY FramesAssumption
  <2>2. e \in Nat /\ HeaderLen \in Nat /\ e < HeaderLen /\ Pow2[e] \in Nat
    BY <1>1, <2>1, Pow2Facts
  <2>3. Pow2[e] < Pow2[HeaderLen]
    BY <2>2, Pow2Grows
  <2> QED BY <1>2, <2>1, <2>2, <2>3 DEF Word
<1>4. ASSUME NEW n \in Nat
      PROVE  n % Word \in 0..(Word - 1) /\ n % Word <= n /\ (n < Word => n % Word = n)
  <2>1. n % Word \in 0..(Word - 1)
    BY <1>2
  <2>2. n < Word => n % Word = n
    BY <1>2
  <2>3. n % Word <= n
    BY <1>2, <2>1, <2>2
  <2> QED BY <2>1, <2>2, <2>3
<1> QED BY <1>1, <1>2, <1>3, <1>4

-----------------------------------------------------------------------------
(* Stretches of a sequence.                                                *)

\* The stretch s of all begins behind place p.
Stretch(s, all, p) ==
  /\ p \in Nat /\ p + Len(s) <= Len(all)
  /\ \A i \in 1..Len(s) : s[i] = all[p + i]

LEMMA ConcatFacts ==
  ASSUME NEW S, NEW s \in Seq(S), NEW t \in Seq(S)
  PROVE  /\ s \o t \in Seq(S)
         /\ Len(s \o t) = Len(s) + Len(t)
         /\ \A i \in 1..Len(s) : (s \o t)[i] = s[i]
         /\ \A i \in 1..Len(t) : (s \o t)[Len(s) + i] = t[i]
OBVIOUS

LEMMA CutFacts ==
  ASSUME NEW S, NEW s \in Seq(S), NEW n \in 0..Len(s)
  PROVE  /\ SubSeq(s, 1, n) \in Seq(S) /\ Len(SubSeq(s, 1, n)) = n
         /\ \A i \in 1..n : SubSeq(s, 1, n)[i] = s[i]
         /\ SubSeq(s, n + 1, Len(s)) \in Seq(S) /\ Len(SubSeq(s, n + 1, Len(s))) = Len(s) - n
         /\ \A i \in 1..(Len(s) - n) : SubSeq(s, n + 1, Len(s))[i] = s[n + i]
<1>1. Len(s) \in Nat /\ n \in Nat /\ n <= Len(s)
  OBVIOUS
<1>2. /\ SubSeq(s, 1, n) \in Seq(S) /\ Len(SubSeq(s, 1, n)) = n
      /\ \A i \in 1..n : SubSeq(s, 1, n)[i] = s[i]
  OBVIOUS
<1>3. SubSeq(s, n + 1, Len(s)) \in Seq(S)
  OBVIOUS
<1>4. Len(SubSeq(s, n + 1, Len(s))) = Len(s) - n
  OBVIOUS
<1>5. \A i \in 1..(Len(s) - n) : SubSeq(s, n + 1, Len(s))[i] = s[n + i]
  OBVIOUS
<1> QED BY <1>2, <1>3, <1>4, <1>5

LEMMA StretchCut ==
  ASSUME NEW S, NEW s \in Seq(S), NEW all \in Seq(S), NEW p \in Nat, NEW n \in 0..Len(s),
         Stretch(s, all, p)
  PROVE  /\ Stretch(SubSeq(s, 1, n), all, p)
         /\ Stretch(SubSeq(s, n + 1, Len(s)), all, p + n)
<1>1. Len(s) \in Nat /\ n \in Nat /\ n <= Len(s) /\ Len(all) \in Nat
  OBVIOUS
<1> DEFINE a == SubSeq(s, 1, n)
           b == SubSeq(s, n + 1, Len(s))
<1>2. Len(a) = n /\ Len(b) = Len(s) - n
  BY CutFacts
<1>3. \A i \in 1..n : a[i] = s[i]
  BY CutFacts
<1>4. \A i \in 1..(Len(s) - n) : b[i] = s[n + i]
  BY CutFacts
<1> HIDE DEF a, b
<1>5. Stretch(a, all, p)
  BY <1>1, <1>2, <1>3 DEF Stretch
<1>6. Stretch(b, all, p + n)
  <2>1. ASSUME NEW i \in 1..Len(b) PROVE b[i] = all[(p + n) + i]
    <3>1. i \in 1..(Len(s) - n) /\ n + i \in 1..Len(s) /\ p + (n + i) = (p + n) + i
      BY <1>1, <1>2
    <3>2. b[i] = s[n + i] /\ s[n + i] = all[p + (n + i)]
      BY <1>4, <3>1 DEF Stretch
    <3> QED BY <3>1, <3>2
  <2>2. p + n \in Nat /\ (p + n) + Len(b) <= Len(all)
    BY <1>1, <1>2 DEF Stretch
  <2> QED BY <2>1, <2>2 DEF Stretch
<1> QED BY <1>5, <1>6 DEF a, b

LEMMA StretchJoin ==
  ASSUME NEW S, NEW s \in Seq(S), NEW t \in Seq(S), NEW all \in Seq(S), NEW p \in Nat,
         Stretch(s, all, p), Stretch(t, all, p + Len(s))
  PROVE  Stretch(s \o t, all, p)
<1>1. Len(s) \in Nat /\ Len(t) \in Nat /\ Len(all) \in Nat
  OBVIOUS
<1> DEFINE u == s \o t
<1>2. /\ Len(u) = Len(s) + Len(t)
      /\ \A i \in 1..Len(s) : u[i] = s[i]
      /\ \A i \in 1..Len(t) : u[Len(s) + i] = t[i]
  BY ConcatFacts
<1> HIDE DEF u
<1>3. ASSUME NEW i \in 1..Len(u) PROVE u[i] = all[p + i]
  <2>1. CASE i <= Len(s)
    BY <1>1, <1>2, <2>1 DEF Stretch
  <2>2. CASE i > Len(s)
    <3>1. PICK j \in 1..Len(t) : i = Len(s) + j
      <4>1. i - Len(s) \in 1..Len(t) /\ i = Len(s) + (i - Len(s))
        BY <1>1, <1>2, <2>2
      <4> QED BY <4>1
    <3>2. u[i] = t[j] /\ t[j] = all[(p + Len(s)) + j] /\ (p + Len(s)) + j = p + i
      BY <1>1, <1>2, <3>1 DEF Stretch
    <3> QED BY <3>2
  <2> QED BY <1>1, <1>2, <2>1, <2>2
<1>4. p + Len(u) <= Len(all)
  BY <1>1, <1>2 DEF Stretch
<1>5. Stretch(u, all, p)
  BY <1>3, <1>4 DEF Stretch
<1> QED BY <1>5 DEF u

\* A stretch of a sequence is one of every longer sequence.
LEMMA StretchKept ==
  ASSUME NEW S, NEW s \in Seq(S), NEW all \in Seq(S), NEW t \in Seq(S), NEW p \in Nat,
         Stretch(s, all, p)
  PROVE  Stretch(s, all \o t, p)
<1>1. Len(s) \in Nat /\ Len(t) \in Nat /\ Len(all) \in Nat
  OBVIOUS
<1>2. /\ Len(all \o t) = Len(all) + Len(t)
      /\ \A i \in 1..Len(all) : (all \o t)[i] = all[i]
  BY ConcatFacts
<1>3. \A i \in 1..Len(s) : p + i \in 1..Len(all)
  BY <1>1 DEF Stretch
<1> QED BY <1>1, <1>2, <1>3 DEF Stretch

LEMMA StretchNew ==
  ASSUME NEW S, NEW all \in Seq(S), NEW t \in Seq(S)
  PROVE  Stretch(t, all \o t, Len(all))
<1>1. Len(t) \in Nat /\ Len(all) \in Nat
  OBVIOUS
<1>2. /\ Len(all \o t) = Len(all) + Len(t)
      /\ \A i \in 1..Len(t) : (all \o t)[Len(all) + i] = t[i]
  BY ConcatFacts
<1> QED BY <1>1, <1>2 DEF Stretch

LEMMA StretchEmpty ==
  ASSUME NEW S, NEW all \in Seq(S), NEW p \in 0..Len(all)
  PROVE  Stretch(<<>>, all, p)
<1>1. Len(<<>>) = 0 /\ 1..0 = {} /\ p \in Nat /\ Len(all) \in Nat /\ p + 0 <= Len(all)
  OBVIOUS
<1> QED BY <1>1 DEF Stretch

-----------------------------------------------------------------------------
(* Types, and the size of the buffer.                                      *)

\* What a header and a text are made of.
LEMMA HeaderFacts ==
  ASSUME NEW n \in Nat
  PROVE  /\ Header(n) \in Seq(Bytes) /\ Len(Header(n)) = HeaderLen
         /\ \A i \in 1..HeaderLen : Bit(n, i) \in {0, 1} /\ Header(n)[i] = Digit(Bit(n, i))
<1>1. HeaderLen \in Nat
  BY WordFacts
<1>2. ASSUME NEW i \in 1..HeaderLen PROVE Bit(n, i) \in {0, 1}
  <2>1. PICK p \in Nat \ {0} : p = Pow2[i - 1]
    <3>1. i - 1 \in Nat
      BY <1>1
    <3> QED BY <3>1, Pow2Facts
  <2>2. n \div p \in Nat
    OBVIOUS
  <2> QED BY <2>1, <2>2 DEF Bit
<1>3. \A i \in 1..HeaderLen : Digit(Bit(n, i)) \in Bytes
  <2>1. \A v \in {0, 1} : Digit(v) \in Bytes
    BY DEF Digit, Bytes
  <2> QED BY <1>2, <2>1
<1>4. Header(n) \in [1..HeaderLen -> Bytes] /\ \A i \in 1..HeaderLen : Header(n)[i] = Digit(Bit(n, i))
  BY <1>3, Zenon DEF Header
<1>5. Header(n) \in Seq(Bytes) /\ Len(Header(n)) = HeaderLen
  BY <1>1, <1>4
<1> QED BY <1>2, <1>4, <1>5

TextByte(f, i) == [kind |-> "text", frame |-> f, pos |-> i]

LEMMA SameBytes ==
  ASSUME NEW s \in Seq(Bytes), NEW t \in Seq(Bytes), Len(s) = Len(t),
         \A i \in 1..Len(s) : s[i] = t[i]
  PROVE  s = t
  OBVIOUS

LEMMA TextFacts ==
  ASSUME NEW f \in 1..MaxFrames, NEW n \in Nat
  PROVE  /\ Text(f, n) \in Seq(Bytes) /\ Len(Text(f, n)) = n
         /\ \A i \in 1..n : Text(f, n)[i] = TextByte(f, i)
<1>1. \A i \in 1..n : TextByte(f, i) \in Bytes
  BY DEF TextByte, Bytes
<1>2. Text(f, n) \in [1..n -> Bytes] /\ \A i \in 1..n : Text(f, n)[i] = TextByte(f, i)
  BY <1>1, Zenon DEF Text, TextByte
<1> QED BY <1>2

\* The length of the text of a frame.
Size(f) == IF kind = "request" THEN lens[f] % Word ELSE lens[f]

LEMMA SizeFacts ==
  ASSUME TypeOK, NEW f \in 1..MaxFrames
  PROVE  /\ lens[f] \in Nat /\ lens[f] > 0 /\ Size(f) \in Nat
         /\ lens[f] % Word \in 0..(Word - 1) /\ lens[f] % Word <= Size(f)
         /\ lens[f] % Word <= lens[f]
         /\ kind = "request" \/ lens[f] < Word => Size(f) = lens[f] % Word
         /\ Written(f) = Text(f, Size(f))
<1>1. lens[f] \in Lens
  BY DEF TypeOK
<1>2. lens[f] \in Nat /\ lens[f] > 0
  BY <1>1, WordFacts
<1> QED BY <1>2, WordFacts DEF Size, Written

\* What is being written belongs to a frame.
FrameBegun == wpc \in {"header", "text"} => frame # 0

TypeInv == TypeOK /\ FrameBegun

LEMMA InitType ==
  ASSUME Init
  PROVE  TypeInv
<1>1. Len(<<>>) = 0 /\ <<>> \in Seq(Bytes) /\ <<>> \in Seq(Seq(Bytes))
  OBVIOUS
<1>2. 0 <= Capacity /\ 0 \in 0..MaxFrames /\ 0 \in 0..(Word - 1)
  BY WordFacts
<1>3. FirstBufSize \in 0..(Word - 1)
  BY WordFacts
<1> QED BY <1>1, <1>2, <1>3 DEF Init, TypeInv, TypeOK, FrameBegun

LEMMA NextType ==
  ASSUME TypeInv, [Next]_vars
  PROVE  TypeInv'
<1> TypeOK /\ FrameBegun
  BY DEF TypeInv
<1> USE DEF FrameBegun
<1> SUFFICES TypeOK' /\ FrameBegun'
  BY DEF TypeInv
<1>0. /\ HeaderLen \in Nat /\ MaxFrames \in Nat /\ Word \in Nat /\ Capacity \in Nat
      /\ Len(stream) \in Nat /\ Len(left) \in Nat /\ Len(got) \in Nat
  <2>1. stream \in Seq(Bytes) /\ left \in Seq(Bytes) /\ got \in Seq(Bytes)
    BY DEF TypeOK
  <2>2. Len(stream) \in Nat /\ Len(left) \in Nat /\ Len(got) \in Nat
    BY <2>1
  <2> QED BY <2>2, WordFacts
<1>1. CASE send_Header
  <2>1. frame + 1 \in 1..MaxFrames
    BY <1>0, <1>1 DEF send_Header, TypeOK
  <2>2. lens[frame + 1] % Word \in Nat
    BY <2>1, SizeFacts, <1>0
  <2>3. left' \in Seq(Bytes)
    BY <1>1, <2>2, HeaderFacts DEF send_Header
  <2> QED BY <1>1, <2>1, <2>3 DEF send_Header, TypeOK, rVars
<1>2. CASE send_Text
  <2>1. left' \in Seq(Bytes)
    <3>1. frame \in 1..MaxFrames
      BY <1>0, <1>2 DEF send_Text, TypeOK
    <3> QED BY <1>2, <3>1, SizeFacts, TextFacts DEF send_Text
  <2> QED BY <1>2, <2>1 DEF send_Text, TypeOK, rVars
<1>3. CASE send_Done
  BY <1>3 DEF send_Done, TypeOK, rVars
<1>4. CASE pipe_write_n
  <2>1. PICK n \in 1..Min2(Len(left), Capacity - Len(stream)) :
             /\ stream' = stream \o SubSeq(left, 1, n)
             /\ left' = SubSeq(left, n + 1, Len(left))
    BY <1>4 DEF pipe_write_n
  <2>2. n \in 0..Len(left) /\ Len(stream) + n <= Capacity
    BY <1>0, <2>1 DEF Min2
  <2>3. left \in Seq(Bytes) /\ stream \in Seq(Bytes)
    BY DEF TypeOK
  <2>4. /\ SubSeq(left, 1, n) \in Seq(Bytes) /\ Len(SubSeq(left, 1, n)) = n
        /\ left' \in Seq(Bytes)
    BY <2>1, <2>2, <2>3, CutFacts
  <2>5. stream' \in Seq(Bytes) /\ Len(stream') = Len(stream) + n
    BY <2>1, <2>3, <2>4, ConcatFacts
  <2> QED BY <1>4, <2>2, <2>4, <2>5 DEF pipe_write_n, TypeOK, rVars
<1>5. CASE pipe_write_n_Fails
  BY <1>5 DEF pipe_write_n_Fails, TypeOK, rVars
<1>6. CASE WriterDies
  BY <1>6 DEF WriterDies, TypeOK, rVars
<1>7. CASE pipe_read_n
  <2>1. PICK n \in 1..Min2(Wanted - Len(got), Len(stream)) :
             /\ got' = got \o SubSeq(stream, 1, n)
             /\ stream' = SubSeq(stream, n + 1, Len(stream))
    BY <1>7 DEF pipe_read_n
  <2>2. n \in 0..Len(stream)
    <3>1. Wanted \in Nat
      BY <1>0 DEF Wanted, TypeOK
    <3> QED BY <1>0, <2>1, <3>1 DEF Min2
  <2>3. got \in Seq(Bytes) /\ stream \in Seq(Bytes) /\ Len(stream) <= Capacity
    BY DEF TypeOK
  <2>4. /\ SubSeq(stream, 1, n) \in Seq(Bytes)
        /\ stream' \in Seq(Bytes) /\ Len(stream') = Len(stream) - n
    BY <2>1, <2>2, <2>3, CutFacts
  <2>5. got' \in Seq(Bytes)
    BY <2>1, <2>3, <2>4, ConcatFacts
  <2>6. Len(stream') <= Capacity
    BY <1>0, <2>2, <2>3, <2>4
  <2> QED BY <1>7, <2>4, <2>5, <2>6 DEF pipe_read_n, TypeOK, wVars
<1>8. CASE read_Header
  <2>1. len' \in 0..(Word - 1) /\ rpc' \in {"header", "grow", "text", "out"}
    BY <1>8 DEF read_Header, Lengths
  <2>2. got' \in Seq(Bytes)
    BY <1>8 DEF read_Header
  <2> QED BY <1>8, <2>1, <2>2 DEF read_Header, TypeOK, wVars
<1>9. CASE grow_Double
  <2>1. bufsize' \in 0..(Word - 1)
    <3>1. bufsize * 2 \in Nat
      BY <1>0 DEF TypeOK
    <3> QED BY <1>9, <3>1, WordFacts DEF grow_Double, TypeOK
  <2> QED BY <1>9, <2>1 DEF grow_Double, TypeOK, wVars
<1>10. CASE read_Text
  <2>1. delivered' \in Seq(Seq(Bytes)) /\ got' \in Seq(Bytes)
    BY <1>10 DEF read_Text, TypeOK
  <2> QED BY <1>10, <2>1 DEF read_Text, TypeOK, wVars
<1>11. CASE UNCHANGED vars
  BY <1>11 DEF vars, wVars, rVars, TypeOK
<1> QED BY <1>1, <1>2, <1>3, <1>4, <1>5, <1>6, <1>7, <1>8, <1>9, <1>10, <1>11
        DEF Next, Writer, Reader

\* The socket never holds more than it can, the reader's length and size of
\* buffer stay 32-bit numbers, and what is delivered are bytes, whatever the
\* bytes of a header are (transport.c:487-521, 719-770).
THEOREM TypeCorrect == Spec => []TypeOK
<1>1. Init => TypeInv
  BY InitType
<1>2. TypeInv /\ [Next]_vars => TypeInv'
  BY NextType
<1>3. TypeInv => TypeOK
  BY DEF TypeInv
<1> QED BY <1>1, <1>2, <1>3, PTL DEF Spec

\* The largest buffer, and what doubling it makes.
LEMMA DoubleFacts ==
  ASSUME NEW e \in 0..(HeaderLen - 1)
  PROVE  /\ Pow2[e] \in Nat \ {0} /\ Pow2[e] <= Word \div 2 /\ Word \div 2 \in Nat
         /\ IF e = HeaderLen - 1 THEN Pow2[e] = Word \div 2 /\ (Pow2[e] * 2) % Word = 0
            ELSE e + 1 \in 0..(HeaderLen - 1) /\ (Pow2[e] * 2) % Word = Pow2[e + 1]
<1>1. PICK h \in Nat : HeaderLen = h + 1 /\ h = HeaderLen - 1
  <2>1. HeaderLen \in Nat \ {0}
    BY WordFacts
  <2>2. HeaderLen - 1 \in Nat /\ HeaderLen = (HeaderLen - 1) + 1
    BY <2>1
  <2> QED BY <2>2
<1>2. e \in Nat /\ e <= h /\ HeaderLen - 1 = h
  BY <1>1
<1>3. PICK p \in Nat \ {0} : p = Pow2[h] /\ Word = 2 * p
  BY <1>1, Pow2Facts DEF Word
<1>4. Word \div 2 = p
  BY <1>3
<1>5. PICK q \in Nat \ {0} : q = Pow2[e] /\ Pow2[e + 1] = 2 * q
  BY <1>2, Pow2Facts
<1>6. CASE e = h
  <2>1. (q * 2) % Word = 0
    BY <1>3, <1>5, <1>6
  <2> QED BY <1>2, <1>3, <1>4, <1>5, <1>6, <2>1
<1>7. CASE e # h
  <2>1. e < h /\ e + 1 \in Nat /\ e + 1 < HeaderLen /\ e + 1 \in 0..(HeaderLen - 1)
    BY <1>1, <1>2, <1>7
  <2>2. q < p
    BY <1>2, <1>3, <1>5, <2>1, Pow2Grows
  <2>3. q * 2 \in 0..(Word - 1)
    BY <1>3, <2>2
  <2>4. (q * 2) % Word = q * 2
    BY <1>3, <2>3
  <2> QED BY <1>2, <1>3, <1>4, <1>5, <1>7, <2>1, <2>2, <2>4
<1> QED BY <1>6, <1>7

\* bufsize is a power of two until it wraps around.
BufferInv ==
  /\ \/ bufsize = 0 /\ rpc = "grow" /\ len > Word \div 2
     \/ \E e \in 0..(HeaderLen - 1) : bufsize = Pow2[e]
  /\ kind = "request" /\ rpc = "text" => len <= bufsize

\* A text never overruns the handler's buffer; a request is longer than half of
\* what its length can say exactly if bufsize wraps around, and then it is never
\* read: for every width of the length and every size of the first buffer that
\* is a power of two (transport.c:508-513).
THEOREM TextsFitBuffer == Spec => []BufferLimit
<1>1. Init => TypeInv /\ BufferInv
  <2> SUFFICES ASSUME Init PROVE TypeInv /\ BufferInv
    OBVIOUS
  <2>1. \E e \in 0..(HeaderLen - 1) : bufsize = Pow2[e]
    BY FramesAssumption DEF Init
  <2> QED BY InitType, <2>1 DEF Init, BufferInv
<1>2. ASSUME TypeInv, BufferInv, [Next]_vars
      PROVE  BufferInv'
  <2>1. kind' = kind /\ HeaderLen \in Nat \ {0} /\ Word \in Nat \ {0}
    BY <1>2, WordFacts
       DEF Next, Writer, Reader, send_Header, send_Text, send_Done, pipe_write_n,
           pipe_write_n_Fails, WriterDies, pipe_read_n, read_Header, grow_Double,
           read_Text, vars
  <2>2. len \in Nat /\ bufsize \in Nat
    BY <1>2, <2>1 DEF TypeInv, TypeOK
  <2>3. CASE UNCHANGED <<rpc, len, bufsize>>
    BY <1>2, <2>1, <2>3 DEF BufferInv
  <2>4. CASE grow_Double
    <3>1. /\ rpc = "grow" /\ len' = len
          /\ IF bufsize < len THEN bufsize' = (bufsize * 2) % Word /\ rpc' = rpc
                              ELSE rpc' = "text" /\ bufsize' = bufsize
      BY <2>4 DEF grow_Double
    <3>2. CASE bufsize = 0
      <4>1. len > Word \div 2
        <5>1. \A e \in 0..(HeaderLen - 1) : Pow2[e] # 0
          BY DoubleFacts
        <5> QED BY <1>2, <3>2, <5>1 DEF BufferInv
      <4>2. Word \div 2 \in Nat
        BY <2>1
      <4>3. bufsize < len
        BY <2>2, <3>2, <4>1, <4>2
      <4>4. bufsize' = 0
        <5>1. bufsize * 2 = 0 /\ 0 % Word = 0
          BY <2>1, <3>2
        <5> QED BY <3>1, <4>3, <5>1
      <4> QED BY <3>1, <4>1, <4>3, <4>4 DEF BufferInv
    <3>3. CASE bufsize # 0
      <4>1. PICK e \in 0..(HeaderLen - 1) : bufsize = Pow2[e]
        BY <1>2, <3>3 DEF BufferInv
      <4>2. CASE bufsize < len
        <5>1. rpc' = "grow" /\ bufsize' = (Pow2[e] * 2) % Word
          BY <3>1, <4>1, <4>2
        <5>2. CASE e = HeaderLen - 1
          <6>1. bufsize' = 0 /\ bufsize = Word \div 2
            BY <4>1, <5>1, <5>2, DoubleFacts
          <6>2. len' > Word \div 2
            BY <2>2, <3>1, <4>2, <6>1
          <6> QED BY <5>1, <6>1, <6>2 DEF BufferInv
        <5>3. CASE e # HeaderLen - 1
          <6>1. e + 1 \in 0..(HeaderLen - 1) /\ bufsize' = Pow2[e + 1]
            BY <5>1, <5>3, DoubleFacts
          <6>2. \E d \in 0..(HeaderLen - 1) : bufsize' = Pow2[d]
            BY <6>1
          <6> QED BY <5>1, <6>2 DEF BufferInv
        <5> QED BY <5>2, <5>3
      <4>3. CASE ~(bufsize < len)
        <5>1. bufsize' = Pow2[e] /\ len' <= bufsize'
          BY <2>2, <3>1, <4>1, <4>3
        <5> QED BY <5>1 DEF BufferInv
      <4> QED BY <4>2, <4>3
    <3> QED BY <3>2, <3>3
  <2>5. CASE read_Header \/ read_Text
    <3>1. rpc # "grow" /\ bufsize' = bufsize /\ (kind = "request" => rpc' # "text")
      BY <2>5 DEF read_Header, read_Text
    <3>2. PICK e \in 0..(HeaderLen - 1) : bufsize = Pow2[e]
      BY <1>2, <3>1 DEF BufferInv
    <3> QED BY <2>1, <3>1, <3>2 DEF BufferInv
  <2> QED BY <1>2, <2>3, <2>4, <2>5
          DEF Next, Writer, Reader, send_Header, send_Text, send_Done, pipe_write_n,
              pipe_write_n_Fails, WriterDies, pipe_read_n, vars, rVars
<1>3. ASSUME TypeInv, BufferInv PROVE BufferLimit
  <2>1. len \in Nat /\ bufsize \in Nat /\ Word \div 2 \in Nat
    BY <1>3, WordFacts DEF TypeInv, TypeOK
  <2>2. CASE bufsize = 0
    <3>1. \A e \in 0..(HeaderLen - 1) : Pow2[e] # 0
      BY DoubleFacts
    <3> QED BY <1>3, <2>2, <3>1 DEF BufferInv, BufferLimit
  <2>3. CASE bufsize # 0
    <3>1. PICK e \in 0..(HeaderLen - 1) : bufsize = Pow2[e]
      BY <1>3, <2>3 DEF BufferInv
    <3>2. bufsize <= Word \div 2
      BY <3>1, DoubleFacts
    <3>3. kind = "request" /\ rpc = "text" => len <= Word \div 2
      BY <1>3, <2>1, <3>2 DEF BufferInv
    <3> QED BY <1>3, <2>3, <3>3 DEF BufferInv, BufferLimit
  <2> QED BY <2>2, <2>3
<1>4. TypeInv /\ BufferInv /\ [Next]_vars => (TypeInv /\ BufferInv)'
  BY <1>2, NextType
<1> QED BY <1>1, <1>3, <1>4, PTL DEF Spec

-----------------------------------------------------------------------------
(* The frames in the stream.                                               *)

\* The lengths of the first n texts fit into a header.
Fits(n) == kind = "request" \/ (\A j \in 1..n : j <= MaxFrames => lens[j] < Word)

\* all is the bytes the writer has begun to write, off where frames start.
Layout(all, off) ==
  /\ off[1] = 0
  /\ \A j \in 1..frame :
       /\ off[j + 1] = off[j] + HeaderLen + Size(j)
       /\ off[j] + HeaderLen <= Len(all)
       /\ \A i \in 1..HeaderLen : all[off[j] + i] = Digit(Bit(lens[j] % Word, i))
       /\ \A i \in 1..Size(j) : off[j] + HeaderLen + i <= Len(all) =>
                                  all[off[j] + HeaderLen + i] = TextByte(j, i)

\* How far the writer has come.
Begun(all, off) ==
  /\ Len(all) <= off[frame + 1]
  /\ wpc = "header" => Len(all) = off[frame] + HeaderLen
  /\ wpc \in {"next", "text"} => Len(all) = off[frame + 1]
  /\ wpc = "next" => left = <<>>

\* The reader has taken w bytes, the rest is in the socket or to be written.
InSocket(all, w) ==
  /\ Len(all) = w + Len(stream) + Len(left)
  /\ Stretch(stream, all, w)
  /\ Stretch(left, all, w + Len(stream))

\* The reader is at the header or in the text that follows the frames it has
\* delivered, or at the end of file.
Counted(all, off, r) ==
  /\ Len(delivered) <= frame
  /\ \A i \in 1..Len(delivered) : delivered[i] = Written(i)
  /\ Stretch(got, all, r)
  /\ rpc = "header" => r = off[Len(delivered) + 1] /\ Len(got) <= HeaderLen
  /\ rpc # "header" =>
       \/ /\ Len(delivered) + 1 <= frame
          /\ r = off[Len(delivered) + 1] + HeaderLen
          /\ len = lens[Len(delivered) + 1] % Word /\ Len(got) <= len
          /\ rpc = "grow" => got = <<>>
       \/ got = <<>> /\ EOF

InStep(all, off, w) ==
  Fits(Len(delivered)) /\ rpc # "out" =>
    \E r \in Nat : w = r + Len(got) /\ Counted(all, off, r)

Talk(all, off, w) == Layout(all, off) /\ Begun(all, off) /\ InSocket(all, w) /\ InStep(all, off, w)

FrameInv == \E all \in Seq(Bytes), off \in [1..(frame + 1) -> Nat], w \in Nat : Talk(all, off, w)

\* The types the talk depends on.
LEMMA TalkTypes ==
  ASSUME TypeInv
  PROVE  /\ HeaderLen \in Nat \ {0} /\ MaxFrames \in Nat /\ Word \in Nat \ {0}
         /\ frame \in 0..MaxFrames /\ len \in 0..(Word - 1)
         /\ stream \in Seq(Bytes) /\ left \in Seq(Bytes) /\ got \in Seq(Bytes)
         /\ Len(stream) \in Nat /\ Len(left) \in Nat /\ Len(got) \in Nat
         /\ delivered \in Seq(Seq(Bytes)) /\ Len(delivered) \in Nat
<1>1. /\ frame \in 0..MaxFrames /\ len \in 0..(Word - 1)
      /\ stream \in Seq(Bytes) /\ left \in Seq(Bytes) /\ got \in Seq(Bytes)
      /\ delivered \in Seq(Seq(Bytes))
  BY DEF TypeInv, TypeOK
<1>2. /\ Len(stream) \in Nat /\ Len(left) \in Nat /\ Len(got) \in Nat /\ Len(delivered) \in Nat
  BY <1>1
<1> QED BY <1>1, <1>2, WordFacts

LEMMA FitsKept ==
  ASSUME UNCHANGED <<kind, lens>>
  PROVE  /\ \A n \in Nat : Fits(n)' <=> Fits(n)
         /\ \A f \in 1..MaxFrames : Size(f)' = Size(f) /\ Written(f)' = Written(f)
BY DEF Fits, Size, Written

\* A step that delivers nothing keeps what was delivered whole.
LEMMA FramesKept ==
  ASSUME TypeInv, TypeInv', FramesWhole, UNCHANGED <<kind, lens, delivered>>,
         frame' = frame \/ (frame' = frame + 1 /\ wpc \notin {"dead", "failed"}),
         wpc \in {"dead", "failed"} => wpc' \in {"dead", "failed"},
         rpc = "out" => rpc' = "out"
  PROVE  FramesWhole'
<1>1. frame \in Nat /\ frame' \in Nat /\ MaxFrames \in Nat
  BY TalkTypes DEF TypeInv, TypeOK
<1> DEFINE Part(i, f, w, r) ==
             /\ i = Len(delivered) /\ w \in {"dead", "failed"} /\ r = "out"
             /\ i <= f => /\ delivered[i] = Text(i, Len(delivered[i]))
                          /\ Len(delivered[i]) <= lens[i] % Word
             /\ i > f => delivered[i] = <<>>
<1>2. SUFFICES ASSUME NEW i \in DOMAIN delivered,
                      kind = "request" \/ (\A j \in 1..(i - 1) : j <= MaxFrames => lens[j] < Word)
               PROVE  \/ i <= frame' /\ delivered[i] = Text(i, lens[i] % Word)
                      \/ Part(i, frame', wpc', rpc')
  BY DEF FramesWhole
<1>3. i \in Nat
  <2>1. delivered \in Seq(Seq(Bytes))
    BY TalkTypes
  <2> QED BY <2>1
<1>5. \/ i <= frame /\ delivered[i] = Text(i, lens[i] % Word)
      \/ Part(i, frame, wpc, rpc)
  BY <1>2 DEF FramesWhole
<1>6. CASE i <= frame /\ delivered[i] = Text(i, lens[i] % Word)
  BY <1>1, <1>3, <1>6
<1>7. CASE Part(i, frame, wpc, rpc)
  <2>1. frame' = frame /\ wpc' \in {"dead", "failed"} /\ rpc' = "out"
    BY <1>7
  <2>2. Part(i, frame', wpc', rpc')
    BY <1>7, <2>1
  <2> QED BY <2>2
<1> QED BY <1>5, <1>6, <1>7

\* The reader is left alone, and what it has read stays where it was.
LEMMA ReaderKept ==
  ASSUME TypeInv, NEW all \in Seq(Bytes), NEW off \in [1..(frame + 1) -> Nat], NEW w \in Nat,
         NEW t \in Seq(Bytes), NEW off2,
         InStep(all, off, w), UNCHANGED <<kind, lens, rVars>>,
         frame' \in Nat, frame <= frame',
         \A j \in 1..(frame + 1) : off2[j] = off[j],
         EOF /\ rpc # "out" => EOF'
  PROVE  InStep(all \o t, off2, w)'
<1>1. /\ UNCHANGED <<rpc, got, len, delivered, kind, lens>>
      /\ frame \in 0..MaxFrames /\ Len(delivered) \in Nat /\ got \in Seq(Bytes)
  BY TalkTypes DEF rVars
<1>2. SUFFICES ASSUME Fits(Len(delivered)), rpc # "out"
               PROVE  \E r \in Nat : w = r + Len(got) /\ Counted(all \o t, off2, r)'
  BY <1>1, FitsKept DEF InStep
<1>3. PICK r \in Nat : w = r + Len(got) /\ Counted(all, off, r)
  BY <1>2 DEF InStep
<1>4. Stretch(got, all \o t, r)
  BY <1>1, <1>3, StretchKept DEF Counted
<1>5. Len(delivered) <= frame /\ Len(delivered) <= frame' /\ Len(delivered) + 1 \in 1..(frame + 1)
  BY <1>1, <1>3 DEF Counted
<1>6. off2[Len(delivered) + 1] = off[Len(delivered) + 1]
  BY <1>5
<1>7. \A i \in 1..Len(delivered) : delivered[i] = Written(i)'
  <2>1. \A i \in 1..Len(delivered) : Written(i)' = Written(i)
    BY DEF Written
  <2> QED BY <1>3, <2>1 DEF Counted
<1>8. Len(delivered) + 1 <= frame => Len(delivered) + 1 <= frame'
  BY <1>1
<1>9. Counted(all \o t, off2, r)'
  BY <1>1, <1>2, <1>3, <1>4, <1>5, <1>6, <1>7, <1>8 DEF Counted, Stretch
<1> QED BY <1>3, <1>9

\* A step that begins no frame and writes nothing new keeps the layout.
LEMMA LayoutKept ==
  ASSUME TypeInv, NEW all, NEW off, Layout(all, off), UNCHANGED <<kind, lens, frame>>
  PROVE  Layout(all, off)'
BY DEF Layout, Size

LEMMA TextTalk ==
  ASSUME TypeInv, TypeInv', FrameInv, send_Text
  PROVE  FrameInv'
<1>0. PICK all \in Seq(Bytes), off \in [1..(frame + 1) -> Nat], w \in Nat : Talk(all, off, w)
  BY DEF FrameInv
<1>1. Layout(all, off) /\ Begun(all, off) /\ InSocket(all, w) /\ InStep(all, off, w)
  BY <1>0 DEF Talk
<1>2. /\ wpc = "header" /\ left = <<>> /\ left' = Written(frame) /\ wpc' = "text"
      /\ UNCHANGED <<kind, lens, frame, stream, rVars>>
  BY DEF send_Text
<1>3. /\ HeaderLen \in Nat /\ frame \in 1..MaxFrames /\ Len(all) \in Nat /\ Len(stream) \in Nat
      /\ stream \in Seq(Bytes)
  BY <1>2, TalkTypes DEF TypeInv, FrameBegun
<1>4. PICK t \in Seq(Bytes) : /\ t = Written(frame) /\ Len(t) = Size(frame)
                              /\ \A i \in 1..Size(frame) : t[i] = TextByte(frame, i)
  BY <1>3, SizeFacts, TextFacts DEF TypeInv
<1>5. Size(frame) \in Nat
  BY <1>3, SizeFacts DEF TypeInv
<1> DEFINE all2 == all \o t
<1>6. /\ all2 \in Seq(Bytes) /\ Len(all2) = Len(all) + Size(frame)
      /\ \A i \in 1..Len(all) : all2[i] = all[i]
      /\ \A i \in 1..Size(frame) : all2[Len(all) + i] = TextByte(frame, i)
  BY <1>4, ConcatFacts
<1>7. InStep(all2, off, w)'
  <2>1. frame' \in Nat /\ frame <= frame' /\ ~EOF
    BY <1>2, <1>3 DEF EOF
  <2> QED BY <1>1, <1>2, <2>1, ReaderKept
<1>8. Stretch(stream, all2, w)
  BY <1>1, <1>3, StretchKept DEF InSocket
<1>9. Stretch(t, all2, Len(all))
  BY StretchNew
<1>10. Len(<<>>) = 0
  OBVIOUS
<1> HIDE DEF all2
<1>11. InSocket(all2, w)'
  <2>1. Len(all) = w + Len(stream)
    BY <1>1, <1>2, <1>3, <1>10 DEF InSocket
  <2> QED BY <1>2, <1>4, <1>6, <1>8, <1>9, <2>1 DEF InSocket, Stretch
<1>12. Len(all) = off[frame] + HeaderLen /\ off[frame] \in Nat
  BY <1>1, <1>2, <1>3 DEF Begun
<1>13. Begun(all2, off)'
  <2>1. off[frame + 1] = off[frame] + HeaderLen + Size(frame)
    BY <1>1, <1>3 DEF Layout
  <2>2. Len(all2) = off[frame + 1]
    BY <1>5, <1>6, <1>12, <2>1, <1>3
  <2>3. off[frame + 1] \in Nat
    BY <1>3
  <2> QED BY <1>2, <2>2, <2>3 DEF Begun
<1>14. Layout(all2, off)'
  <2>1. ASSUME NEW j \in 1..frame
        PROVE  /\ off[j + 1] = off[j] + HeaderLen + Size(j)
               /\ off[j] + HeaderLen <= Len(all2)
               /\ \A i \in 1..HeaderLen : all2[off[j] + i] = Digit(Bit(lens[j] % Word, i))
               /\ \A i \in 1..Size(j) : off[j] + HeaderLen + i <= Len(all2) =>
                                          all2[off[j] + HeaderLen + i] = TextByte(j, i)
    <3>1. /\ off[j + 1] = off[j] + HeaderLen + Size(j)
          /\ off[j] + HeaderLen <= Len(all)
          /\ \A i \in 1..HeaderLen : all[off[j] + i] = Digit(Bit(lens[j] % Word, i))
          /\ \A i \in 1..Size(j) : off[j] + HeaderLen + i <= Len(all) =>
                                     all[off[j] + HeaderLen + i] = TextByte(j, i)
      BY <1>1 DEF Layout
    <3>2. off[j] \in Nat /\ off[j + 1] \in Nat /\ j \in 1..MaxFrames
      BY <1>3, TalkTypes
    <3>3. Size(j) \in Nat
      BY <3>2, SizeFacts DEF TypeInv
    <3>4. off[j] + HeaderLen <= Len(all2)
      BY <1>3, <1>5, <1>6, <3>1, <3>2
    <3>5. ASSUME NEW i \in 1..HeaderLen
          PROVE  all2[off[j] + i] = Digit(Bit(lens[j] % Word, i))
      <4>1. off[j] + i \in 1..Len(all)
        BY <1>3, <3>1, <3>2
      <4> QED BY <1>6, <3>1, <4>1
    <3>6. ASSUME NEW i \in 1..Size(j), off[j] + HeaderLen + i <= Len(all2)
          PROVE  all2[off[j] + HeaderLen + i] = TextByte(j, i)
      <4>1. CASE j = frame
        BY <1>6, <1>12, <4>1
      <4>2. CASE j # frame
        <5>1. j + 1 \in 1..frame
          BY <1>3, <4>2
        <5>2. off[j + 1] + HeaderLen <= Len(all)
          BY <1>1, <5>1 DEF Layout
        <5>3. off[j] + HeaderLen + i <= Len(all) /\ off[j] + HeaderLen + i \in 1..Len(all)
          <6>1. i \in Nat /\ i >= 1 /\ i <= Size(j)
            BY <3>3
          <6>2. off[j + 1] = off[j] + HeaderLen + Size(j) /\ HeaderLen \in Nat /\ Len(all) \in Nat
            BY <1>3, <3>1
          <6> QED BY <3>2, <3>3, <5>2, <6>1, <6>2
        <5> QED BY <1>6, <3>1, <5>3
      <4> QED BY <4>1, <4>2
    <3> QED BY <3>1, <3>4, <3>5, <3>6
  <2>2. off[1] = 0
    BY <1>1 DEF Layout
  <2>3. \A j \in 1..frame : Size(j)' = Size(j)
    BY <1>2 DEF Size
  <2> QED BY <1>2, <2>1, <2>2, <2>3 DEF Layout
<1>15. Talk(all2, off, w)' /\ frame' = frame
  BY <1>2, <1>7, <1>11, <1>13, <1>14 DEF Talk
<1> QED BY <1>6, <1>15 DEF FrameInv

LEMMA HeaderTalk ==
  ASSUME TypeInv, TypeInv', FrameInv, send_Header
  PROVE  FrameInv'
<1>0. PICK all \in Seq(Bytes), off \in [1..(frame + 1) -> Nat], w \in Nat : Talk(all, off, w)
  BY DEF FrameInv
<1>1. Layout(all, off) /\ Begun(all, off) /\ InSocket(all, w) /\ InStep(all, off, w)
  BY <1>0 DEF Talk
<1>2. /\ wpc = "next" /\ left' = Header(lens[frame + 1] % Word) /\ wpc' = "header"
      /\ frame' = frame + 1 /\ frame < MaxFrames
      /\ UNCHANGED <<kind, lens, stream, rVars>>
  BY DEF send_Header
<1>3. /\ HeaderLen \in Nat /\ frame \in Nat /\ Len(all) \in Nat /\ Len(stream) \in Nat
      /\ stream \in Seq(Bytes) /\ MaxFrames \in Nat
  BY TalkTypes
<1>4. frame + 1 \in 1..MaxFrames
  BY <1>2, <1>3
<1>n. lens[frame + 1] % Word \in Nat /\ Size(frame + 1) \in Nat
  BY <1>4, SizeFacts, TalkTypes DEF TypeInv
<1>5. PICK t \in Seq(Bytes) :
          /\ t = Header(lens[frame + 1] % Word) /\ Len(t) = HeaderLen
          /\ \A i \in 1..HeaderLen : t[i] = Digit(Bit(lens[frame + 1] % Word, i))
  BY <1>n, HeaderFacts
<1>6. left = <<>> /\ Len(all) = off[frame + 1] /\ Len(<<>>) = 0
  BY <1>1, <1>2 DEF Begun
<1> DEFINE all2 == all \o t
<1>o. PICK off2 : off2 = [j \in 1..(frame + 2) |->
                      IF j = frame + 2 THEN off[frame + 1] + HeaderLen + Size(frame + 1) ELSE off[j]]
  OBVIOUS
<1>7. /\ all2 \in Seq(Bytes) /\ Len(all2) = Len(all) + HeaderLen
      /\ \A i \in 1..Len(all) : all2[i] = all[i]
      /\ \A i \in 1..HeaderLen : all2[Len(all) + i] = Digit(Bit(lens[frame + 1] % Word, i))
  BY <1>5, ConcatFacts
<1>8. /\ off2 \in [1..(frame + 2) -> Nat]
      /\ \A j \in 1..(frame + 1) : off2[j] = off[j]
      /\ off2[frame + 2] = off[frame + 1] + HeaderLen + Size(frame + 1)
  BY <1>3, <1>n, <1>o
<1>9. InStep(all2, off2, w)'
  <2>1. frame' \in Nat /\ frame <= frame' /\ ~EOF
    BY <1>2, <1>3 DEF EOF
  <2> QED BY <1>1, <1>2, <1>8, <2>1, ReaderKept
<1>10. Stretch(stream, all2, w)
  BY <1>1, <1>3, StretchKept DEF InSocket
<1>11. Stretch(t, all2, Len(all))
  BY StretchNew
<1> HIDE DEF all2
<1>12. InSocket(all2, w)'
  <2>1. Len(all) = w + Len(stream)
    BY <1>1, <1>3, <1>6 DEF InSocket
  <2> QED BY <1>2, <1>5, <1>7, <1>10, <1>11, <2>1 DEF InSocket, Stretch
<1>13. off[frame + 1] \in Nat
  BY <1>3
<1>14. Begun(all2, off2)'
  <2>1. off2[frame + 1] = off[frame + 1] /\ Len(all2) = off2[frame + 1] + HeaderLen
    BY <1>3, <1>6, <1>7, <1>8
  <2>2. Len(all2) <= off2[frame + 2]
    BY <1>3, <1>n, <1>8, <1>13, <2>1
  <2>3. frame' + 1 = frame + 2
    BY <1>2, <1>3
  <2> QED BY <1>2, <2>1, <2>2, <2>3 DEF Begun
<1>15. Layout(all2, off2)'
  <2>1. ASSUME NEW j \in 1..(frame + 1)
        PROVE  /\ off2[j + 1] = off2[j] + HeaderLen + Size(j)
               /\ off2[j] + HeaderLen <= Len(all2)
               /\ \A i \in 1..HeaderLen : all2[off2[j] + i] = Digit(Bit(lens[j] % Word, i))
               /\ \A i \in 1..Size(j) : off2[j] + HeaderLen + i <= Len(all2) =>
                                          all2[off2[j] + HeaderLen + i] = TextByte(j, i)
    <3>1. CASE j = frame + 1
      <4>1. /\ off2[j] = Len(all) /\ j + 1 = frame + 2
            /\ off2[j + 1] = off2[j] + HeaderLen + Size(j)
        BY <1>3, <1>6, <1>8, <3>1
      <4>2. \A i \in 1..Size(j) : ~(off2[j] + HeaderLen + i <= Len(all2))
        BY <1>3, <1>n, <1>7, <3>1, <4>1
      <4>3. off2[j] + HeaderLen <= Len(all2)
        BY <1>3, <1>7, <4>1
      <4> QED BY <1>7, <3>1, <4>1, <4>2, <4>3
    <3>2. CASE j # frame + 1
      <4>1. j \in 1..frame /\ j + 1 \in 1..(frame + 1) /\ j \in 1..MaxFrames
        BY <1>2, <1>3, <3>2
      <4>2. /\ off[j + 1] = off[j] + HeaderLen + Size(j)
            /\ off[j] + HeaderLen <= Len(all)
            /\ \A i \in 1..HeaderLen : all[off[j] + i] = Digit(Bit(lens[j] % Word, i))
            /\ \A i \in 1..Size(j) : off[j] + HeaderLen + i <= Len(all) =>
                                       all[off[j] + HeaderLen + i] = TextByte(j, i)
        BY <1>1, <4>1 DEF Layout
      <4>3. off2[j] = off[j] /\ off2[j + 1] = off[j + 1] /\ off[j] \in Nat /\ off[j + 1] \in Nat
        BY <1>8, <4>1
      <4>4. Size(j) \in Nat
        BY <4>1, SizeFacts DEF TypeInv
      <4>5. off[j + 1] <= Len(all)
        <5>1. CASE j = frame
          BY <1>6, <1>13, <5>1
        <5>2. CASE j # frame
          <6>1. j + 1 \in 1..frame
            BY <1>3, <4>1, <5>2
          <6>2. off[j + 1] + HeaderLen <= Len(all)
            BY <1>1, <6>1 DEF Layout
          <6> QED BY <1>3, <4>3, <6>2
        <5> QED BY <5>1, <5>2
      <4>6. off2[j] + HeaderLen <= Len(all2)
        BY <1>3, <1>7, <4>2, <4>3
      <4>7. \A i \in 1..HeaderLen : off[j] + i \in 1..Len(all)
        BY <1>3, <4>2, <4>3
      <4>8. \A i \in 1..Size(j) : /\ off[j] + HeaderLen + i \in 1..Len(all)
                                  /\ off[j] + HeaderLen + i <= Len(all)
        <5>1. off[j + 1] = off[j] + HeaderLen + Size(j) /\ HeaderLen \in Nat /\ Len(all) \in Nat
          BY <1>3, <4>2
        <5> QED BY <4>3, <4>4, <4>5, <5>1
      <4>9. \A i \in 1..HeaderLen : all2[off[j] + i] = all[off[j] + i]
        BY <1>7, <4>7
      <4>10. \A i \in 1..Size(j) : all2[off[j] + HeaderLen + i] = TextByte(j, i)
        BY <1>7, <4>2, <4>8
      <4> QED BY <4>2, <4>3, <4>6, <4>9, <4>10
    <3> QED BY <3>1, <3>2
  <2>2. off2[1] = 0
    BY <1>1, <1>3, <1>8 DEF Layout
  <2>3. \A j \in 1..(frame + 1) : Size(j)' = Size(j)
    BY <1>2 DEF Size
  <2> QED BY <1>2, <2>1, <2>2, <2>3 DEF Layout
<1>16. Talk(all2, off2, w)'
  BY <1>9, <1>12, <1>14, <1>15 DEF Talk
<1>17. off2 \in [1..(frame' + 1) -> Nat]
  <2>1. frame' + 1 = frame + 2
    BY <1>2, <1>3
  <2> QED BY <1>8, <2>1
<1> QED BY <1>7, <1>16, <1>17 DEF FrameInv

\* A step of the writer that moves no byte, or no step.
LEMMA QuietTalk ==
  ASSUME TypeInv, TypeInv', FrameInv, send_Done \/ pipe_write_n_Fails \/ WriterDies \/ UNCHANGED vars
  PROVE  FrameInv'
<1>0. PICK all \in Seq(Bytes), off \in [1..(frame + 1) -> Nat], w \in Nat : Talk(all, off, w)
  BY DEF FrameInv
<1>1. Layout(all, off) /\ Begun(all, off) /\ InSocket(all, w) /\ InStep(all, off, w)
  BY <1>0 DEF Talk
<1>2. /\ UNCHANGED <<kind, lens, frame, left, stream, rVars>>
      /\ \/ wpc = "text" /\ left = <<>> /\ wpc' = "next"
         \/ wpc' \in {"failed", "dead"} /\ (rpc = "out" \/ wpc \notin {"failed", "dead"})
         \/ wpc' = wpc
  BY DEF send_Done, pipe_write_n_Fails, WriterDies, vars, wVars
<1>3. Layout(all, off)'
  BY <1>1, <1>2, LayoutKept
<1>4. Begun(all, off)' /\ InSocket(all, w)'
  BY <1>1, <1>2 DEF Begun, InSocket, Stretch
<1>5. InStep(all, off, w)'
  <2>1. frame' \in Nat /\ frame <= frame'
    BY <1>2, TalkTypes
  <2>2. EOF /\ rpc # "out" => EOF'
    BY <1>2 DEF EOF
  <2>3. all \o <<>> = all /\ <<>> \in Seq(Bytes)
    OBVIOUS
  <2>4. InStep(all \o <<>>, off, w)'
    BY <1>1, <1>2, <2>1, <2>2, <2>3, ReaderKept
  <2> QED BY <2>3, <2>4
<1>6. Talk(all, off, w)' /\ frame' = frame
  BY <1>2, <1>3, <1>4, <1>5 DEF Talk
<1> QED BY <1>6 DEF FrameInv

LEMMA WriteTalk ==
  ASSUME TypeInv, TypeInv', FrameInv, pipe_write_n
  PROVE  FrameInv'
<1>0. PICK all \in Seq(Bytes), off \in [1..(frame + 1) -> Nat], w \in Nat : Talk(all, off, w)
  BY DEF FrameInv
<1>1. Layout(all, off) /\ Begun(all, off) /\ InSocket(all, w) /\ InStep(all, off, w)
  BY <1>0 DEF Talk
<1>2. /\ UNCHANGED <<kind, lens, wpc, frame, rVars>> /\ wpc \in {"header", "text"}
      /\ \E n \in 1..Min2(Len(left), Capacity - Len(stream)) :
           /\ stream' = stream \o SubSeq(left, 1, n)
           /\ left' = SubSeq(left, n + 1, Len(left))
  BY DEF pipe_write_n
<1>3. PICK n \in 1..Min2(Len(left), Capacity - Len(stream)) :
           /\ stream' = stream \o SubSeq(left, 1, n)
           /\ left' = SubSeq(left, n + 1, Len(left))
  BY <1>2
<1>4. /\ stream \in Seq(Bytes) /\ left \in Seq(Bytes)
      /\ Len(stream) \in Nat /\ Len(left) \in Nat /\ Len(all) \in Nat
  BY TalkTypes
<1>5. n \in 0..Len(left)
  BY <1>4, WordFacts DEF Min2
<1>6. /\ SubSeq(left, 1, n) \in Seq(Bytes) /\ Len(SubSeq(left, 1, n)) = n
      /\ left' \in Seq(Bytes) /\ Len(left') = Len(left) - n
  BY <1>3, <1>4, <1>5, CutFacts
<1>7. stream' \in Seq(Bytes) /\ Len(stream') = Len(stream) + n
  BY <1>3, <1>4, <1>6, ConcatFacts
<1>8. w + Len(stream) \in Nat
  BY <1>4
<1>9. /\ Stretch(SubSeq(left, 1, n), all, w + Len(stream))
      /\ Stretch(left', all, (w + Len(stream)) + n)
  BY <1>1, <1>3, <1>4, <1>5, <1>8, StretchCut DEF InSocket
<1>10. Stretch(stream', all, w)
  BY <1>1, <1>3, <1>4, <1>6, <1>9, StretchJoin DEF InSocket
<1>11. InSocket(all, w)'
  <2>1. Len(all) = w + Len(stream) + Len(left)
    BY <1>1 DEF InSocket
  <2>2. n \in Nat /\ Len(all) = w + Len(stream') + Len(left') /\ (w + Len(stream)) + n = w + Len(stream')
    BY <1>4, <1>5, <1>6, <1>7, <2>1
  <2> QED BY <1>9, <1>10, <2>2 DEF InSocket, Stretch
<1>12. Layout(all, off)'
  BY <1>1, <1>2, LayoutKept
<1>13. Begun(all, off)'
  BY <1>1, <1>2 DEF Begun
<1>14. InStep(all, off, w)'
  <2>1. frame' \in Nat /\ frame <= frame'
    BY <1>2, TalkTypes
  <2>2. ~EOF
    BY <1>2 DEF EOF
  <2>3. all \o <<>> = all /\ <<>> \in Seq(Bytes)
    OBVIOUS
  <2>4. InStep(all \o <<>>, off, w)'
    BY <1>1, <1>2, <2>1, <2>2, <2>3, ReaderKept
  <2> QED BY <2>3, <2>4
<1>15. Talk(all, off, w)' /\ frame' = frame
  BY <1>2, <1>11, <1>12, <1>13, <1>14 DEF Talk
<1> QED BY <1>15 DEF FrameInv

\* A step of the reader that takes no byte from the socket, from what it does
\* to the reader's count.
LEMMA ReaderTalk ==
  ASSUME NEW all \in Seq(Bytes), NEW off \in [1..(frame + 1) -> Nat], NEW w \in Nat,
         TypeInv, Talk(all, off, w), InStep(all, off, w)', UNCHANGED <<kind, lens, wVars, stream>>
  PROVE  FrameInv'
<1>1. Layout(all, off) /\ Begun(all, off) /\ InSocket(all, w)
  BY DEF Talk
<1>2. UNCHANGED <<wpc, frame, left, stream>>
  BY DEF wVars
<1>3. Layout(all, off)'
  BY <1>1, <1>2, LayoutKept
<1>4. Begun(all, off)' /\ InSocket(all, w)'
  BY <1>1, <1>2 DEF Begun, InSocket, Stretch
<1>5. Talk(all, off, w)'
  BY <1>3, <1>4 DEF Talk
<1> QED BY <1>2, <1>5 DEF FrameInv

LEMMA ReadTalk ==
  ASSUME TypeInv, TypeInv', FrameInv, pipe_read_n
  PROVE  FrameInv'
<1>0. PICK all \in Seq(Bytes), off \in [1..(frame + 1) -> Nat], w \in Nat : Talk(all, off, w)
  BY DEF FrameInv
<1>1. Layout(all, off) /\ Begun(all, off) /\ InSocket(all, w) /\ InStep(all, off, w)
  BY <1>0 DEF Talk
<1>2. /\ UNCHANGED <<kind, lens, wpc, frame, left, rpc, len, bufsize, delivered>>
      /\ rpc \in {"header", "text"} /\ stream # <<>>
  BY DEF pipe_read_n, wVars
<1>3. PICK n \in 1..Min2(Wanted - Len(got), Len(stream)) :
           /\ got' = got \o SubSeq(stream, 1, n)
           /\ stream' = SubSeq(stream, n + 1, Len(stream))
  BY DEF pipe_read_n
<1>4. /\ stream \in Seq(Bytes) /\ got \in Seq(Bytes)
      /\ Len(stream) \in Nat /\ Len(got) \in Nat /\ Len(left) \in Nat /\ Len(all) \in Nat
      /\ Len(delivered) \in Nat
  BY TalkTypes
<1>5. n \in 0..Len(stream) /\ n \in Nat /\ Len(got) + n <= Wanted /\ Wanted \in Nat
  <2>1. Wanted \in Nat
    BY TalkTypes DEF Wanted
  <2> QED BY <1>4, <2>1 DEF Min2
<1>6. /\ SubSeq(stream, 1, n) \in Seq(Bytes) /\ Len(SubSeq(stream, 1, n)) = n
      /\ stream' \in Seq(Bytes) /\ Len(stream') = Len(stream) - n
  BY <1>3, <1>4, <1>5, CutFacts
<1>7. got' \in Seq(Bytes) /\ Len(got') = Len(got) + n
  BY <1>3, <1>4, <1>6, ConcatFacts
<1>8. /\ Stretch(SubSeq(stream, 1, n), all, w)
      /\ Stretch(stream', all, w + n)
  BY <1>1, <1>3, <1>4, <1>5, StretchCut DEF InSocket
<1>9. InSocket(all, w + n)'
  <2>1. Len(all) = w + Len(stream) + Len(left) /\ Stretch(left, all, w + Len(stream))
    BY <1>1 DEF InSocket
  <2>2. Len(all) = (w + n) + Len(stream') + Len(left) /\ w + Len(stream) = (w + n) + Len(stream')
    BY <1>4, <1>5, <1>6, <2>1
  <2> QED BY <1>2, <1>8, <2>1, <2>2 DEF InSocket, Stretch
<1>10. InStep(all, off, w + n)'
  <2>1. SUFFICES ASSUME Fits(Len(delivered)), rpc # "out"
                 PROVE  \E r \in Nat : w + n = r + Len(got') /\ Counted(all, off, r)'
    BY <1>2, <1>4, FitsKept DEF InStep
  <2>2. PICK r \in Nat : w = r + Len(got) /\ Counted(all, off, r)
    BY <1>1, <2>1 DEF InStep
  <2>3. Stretch(got', all, r)
    BY <1>3, <1>4, <1>6, <1>8, <2>2, StretchJoin DEF Counted
  <2>4. \A i \in 1..Len(delivered) : delivered[i] = Written(i)'
    <3>1. \A i \in 1..Len(delivered) : Written(i)' = Written(i)
      BY <1>2 DEF Written
    <3> QED BY <2>2, <3>1 DEF Counted
  <2>5. ~EOF
    BY <1>2 DEF EOF
  <2>6. Len(got') <= Wanted
    BY <1>5, <1>7
  <2>7. Counted(all, off, r)'
    BY <1>2, <2>2, <2>3, <2>4, <2>5, <2>6 DEF Counted, Stretch, Wanted
  <2>8. w + n = r + Len(got')
    BY <1>4, <1>5, <1>7, <2>2
  <2> QED BY <2>7, <2>8
<1>11. Layout(all, off)' /\ Begun(all, off)'
  BY <1>1, <1>2, LayoutKept DEF Begun
<1>12. Talk(all, off, w + n)' /\ w + n \in Nat
  BY <1>5, <1>9, <1>10, <1>11 DEF Talk
<1> QED BY <1>2, <1>12 DEF FrameInv

LEMMA GrowTalk ==
  ASSUME TypeInv, TypeInv', FrameInv, grow_Double
  PROVE  FrameInv'
<1>0. PICK all \in Seq(Bytes), off \in [1..(frame + 1) -> Nat], w \in Nat : Talk(all, off, w)
  BY DEF FrameInv
<1>1. /\ UNCHANGED <<kind, lens, wpc, frame, left, stream, got, len, delivered>>
      /\ rpc = "grow" /\ rpc' \in {"grow", "text"}
  BY DEF grow_Double, wVars
<1>2. Len(delivered) \in Nat
  BY TalkTypes
<1>3. InStep(all, off, w)'
  <2>1. SUFFICES ASSUME Fits(Len(delivered))
                 PROVE  \E r \in Nat : w = r + Len(got) /\ Counted(all, off, r)'
    BY <1>1, <1>2, FitsKept DEF InStep
  <2>2. PICK r \in Nat : w = r + Len(got) /\ Counted(all, off, r)
    BY <1>0, <1>1, <2>1 DEF Talk, InStep
  <2>3. \A i \in 1..Len(delivered) : delivered[i] = Written(i)'
    <3>1. \A i \in 1..Len(delivered) : Written(i)' = Written(i)
      BY <1>1 DEF Written
    <3> QED BY <2>2, <3>1 DEF Counted
  <2>4. EOF' = EOF
    BY <1>1 DEF EOF
  <2>5. Counted(all, off, r)'
    BY <1>1, <2>2, <2>3, <2>4 DEF Counted, Stretch
  <2> QED BY <2>2, <2>5
<1> QED BY <1>0, <1>1, <1>3, ReaderTalk DEF wVars

\* The whole header of a frame is read as the length that was written.
LEMMA LengthIsRead ==
  ASSUME TypeInv, NEW n \in 0..(Word - 1), NEW m \in Lengths, Len(got) = HeaderLen,
         \A i \in 1..HeaderLen : got[i] = Digit(Bit(n, i))
  PROVE  m = n
<1>1. HeaderLen \in Nat /\ n \in Nat /\ DOMAIN got = 1..HeaderLen
  BY TalkTypes
<1>2. ASSUME NEW i \in 1..HeaderLen PROVE Bit(m, i) = Bit(n, i)
  <2>1. Bit(m, i) \in Digits(i)
    BY DEF Lengths
  <2>2. got[i].kind = "digit" /\ got[i].frame = Bit(n, i)
    BY DEF Digit
  <2>3. Digits(i) = {Bit(n, i)}
    BY <1>1, <2>2 DEF Digits
  <2> QED BY <2>1, <2>3
<1>3. m \in 0..(Pow2[HeaderLen] - 1) /\ n \in 0..(Pow2[HeaderLen] - 1)
  BY DEF Lengths, Word
<1> QED BY <1>1, <1>2, <1>3, DigitsDetermine

LEMMA ReadHeaderTalk ==
  ASSUME TypeInv, TypeInv', FrameInv, read_Header
  PROVE  FrameInv'
<1>0. PICK all \in Seq(Bytes), off \in [1..(frame + 1) -> Nat], w \in Nat : Talk(all, off, w)
  BY DEF FrameInv
<1>1. Layout(all, off) /\ Begun(all, off) /\ InSocket(all, w) /\ InStep(all, off, w)
  BY <1>0 DEF Talk
<1>2. /\ UNCHANGED <<kind, lens, wpc, frame, left, stream, delivered>>
      /\ rpc = "header" /\ Complete /\ len' \in Lengths /\ rpc' # "header" /\ got' = <<>>
  BY DEF read_Header, wVars
<1>3. /\ HeaderLen \in Nat \ {0} /\ Len(got) \in Nat /\ Len(delivered) \in Nat
      /\ Len(stream) \in Nat /\ Len(left) \in Nat /\ Len(all) \in Nat
      /\ frame \in 0..MaxFrames /\ MaxFrames \in Nat
  BY TalkTypes
<1>4. InStep(all, off, w)'
  <2>1. SUFFICES ASSUME Fits(Len(delivered)), rpc' # "out"
                 PROVE  \E r \in Nat : w = r + Len(got') /\ Counted(all, off, r)'
    BY <1>2, <1>3, FitsKept DEF InStep
  <2>2. PICK r \in Nat : w = r + Len(got) /\ Counted(all, off, r)
    BY <1>1, <1>2, <2>1 DEF InStep
  <2>3. /\ Len(delivered) <= frame
        /\ r = off[Len(delivered) + 1] /\ Len(got) <= HeaderLen
        /\ Stretch(got, all, r)
        /\ \A i \in 1..Len(delivered) : delivered[i] = Written(i)
    BY <1>2, <2>2 DEF Counted
  <2>4. \A i \in 1..Len(delivered) : delivered[i] = Written(i)'
    <3>1. \A i \in 1..Len(delivered) : Written(i)' = Written(i)
      BY <1>2 DEF Written
    <3> QED BY <2>3, <3>1
  <2>5. w <= Len(all) /\ Len(<<>>) = 0
    BY <1>1, <1>3 DEF InSocket
  <2>6. Stretch(<<>>, all, w)
    BY <1>3, <2>5, StretchEmpty
  <2>7. CASE Len(got) = HeaderLen
    <3>1. off[frame + 1] \in Nat /\ Len(all) <= off[frame + 1]
      BY <1>1, <1>3 DEF Begun
    <3>2. Len(delivered) # frame
      BY <1>3, <2>2, <2>3, <2>5, <2>7, <3>1
    <3>3. Len(delivered) + 1 \in 1..frame /\ Len(delivered) + 1 \in 1..MaxFrames
      BY <1>3, <2>3, <3>2
    <3>4. PICK n \in 0..(Word - 1) : n = lens[Len(delivered) + 1] % Word
      BY <3>3, SizeFacts DEF TypeInv
    <3>5. \A i \in 1..HeaderLen : all[r + i] = Digit(Bit(n, i))
      BY <1>1, <2>3, <3>3, <3>4 DEF Layout
    <3>6. \A i \in 1..HeaderLen : got[i] = Digit(Bit(n, i))
      BY <2>3, <2>7, <3>5 DEF Stretch
    <3>7. len' = n
      BY <1>2, <2>7, <3>6, LengthIsRead
    <3>8. Len(got') <= len'
      BY <1>2, <2>5, <3>7
    <3>9. Counted(all, off, w)'
      BY <1>2, <2>2, <2>3, <2>4, <2>6, <2>7, <3>3, <3>4, <3>7, <3>8 DEF Counted
    <3>10. w = w + Len(got')
      BY <1>2, <2>5
    <3> QED BY <3>9, <3>10
  <2>8. CASE Len(got) # HeaderLen
    <3>1. EOF'
      BY <1>2, <2>8 DEF Complete, Wanted, EOF
    <3>2. Counted(all, off, w)'
      BY <1>2, <2>3, <2>4, <2>6, <3>1 DEF Counted
    <3>3. w = w + Len(got')
      BY <1>2, <2>5
    <3> QED BY <3>2, <3>3
  <2> QED BY <2>7, <2>8
<1> QED BY <1>0, <1>2, <1>4, ReaderTalk DEF wVars

\* What the reader has when a text is complete: as much of the text as the
\* header says, which is all of it if its length fits, or at end of file less
\* than that.
LEMMA TextIsRead ==
  ASSUME TypeInv, NEW all \in Seq(Bytes), NEW off \in [1..(frame + 1) -> Nat], NEW w \in Nat,
         Talk(all, off, w), rpc = "text", Complete, Fits(Len(delivered))
  PROVE  \/ /\ Len(delivered) + 1 <= frame
            /\ got = Text(Len(delivered) + 1, lens[Len(delivered) + 1] % Word)
            /\ Fits(Len(delivered) + 1) => w = off[Len(delivered) + 2]
         \/ /\ EOF
            /\ Len(delivered) + 1 <= frame =>
                 /\ got = Text(Len(delivered) + 1, Len(got))
                 /\ Len(got) <= lens[Len(delivered) + 1] % Word
            /\ Len(delivered) + 1 > frame => got = <<>>
            /\ ~\E f \in 1..MaxFrames : got = Text(f, lens[f])
<1>1. Layout(all, off) /\ Begun(all, off) /\ InSocket(all, w) /\ InStep(all, off, w)
  BY DEF Talk
<1>2. /\ HeaderLen \in Nat \ {0} /\ Len(got) \in Nat /\ Len(delivered) \in Nat
      /\ Len(stream) \in Nat /\ Len(left) \in Nat /\ Len(all) \in Nat
      /\ frame \in 0..MaxFrames /\ MaxFrames \in Nat /\ got \in Seq(Bytes)
      /\ Len(<<>>) = 0
  BY TalkTypes
<1>3. PICK d \in Nat \ {0} : d = Len(delivered) + 1
  BY <1>2
<1>5. PICK r \in Nat : w = r + Len(got) /\ Counted(all, off, r)
  BY <1>1 DEF InStep
<1>6. \/ /\ d <= frame
         /\ r = off[d] + HeaderLen
         /\ len = lens[d] % Word /\ Len(got) <= len
      \/ got = <<>> /\ EOF
  BY <1>3, <1>5 DEF Counted
<1>7. \A f \in 1..MaxFrames : /\ Len(Text(f, lens[f])) = lens[f] /\ lens[f] > 0 /\ lens[f] \in Nat
                              /\ Text(f, lens[f])[1] = TextByte(f, 1)
  <2> SUFFICES ASSUME NEW f \in 1..MaxFrames
               PROVE  /\ Len(Text(f, lens[f])) = lens[f] /\ lens[f] > 0 /\ lens[f] \in Nat
                      /\ Text(f, lens[f])[1] = TextByte(f, 1)
    OBVIOUS
  <2>1. lens[f] \in Nat /\ lens[f] > 0
    BY SizeFacts DEF TypeInv
  <2>2. 1 \in 1..lens[f]
    BY <2>1
  <2> QED BY <2>1, <2>2, TextFacts
<1>8. CASE d <= frame /\ r = off[d] + HeaderLen /\ len = lens[d] % Word /\ Len(got) <= len
  <2>1. d \in 1..frame /\ d \in 1..MaxFrames
    BY <1>2, <1>8
  <2>2. /\ lens[d] \in Nat /\ lens[d] > 0 /\ Size(d) \in Nat /\ len <= lens[d]
        /\ len \in Nat /\ len <= Size(d)
    BY <1>8, <2>1, SizeFacts DEF TypeInv
  <2>3. Fits(Len(delivered) + 1) => Size(d) = len
    <3>1. SUFFICES ASSUME Fits(Len(delivered) + 1) PROVE Size(d) = len
      OBVIOUS
    <3>2. kind = "request" \/ lens[d] < Word
      BY <1>2, <1>3, <2>1, <3>1 DEF Fits
    <3> QED BY <1>8, <2>1, <3>2, SizeFacts DEF TypeInv
  <2>4. off[d] \in Nat
    BY <1>2, <2>1
  <2>5. ASSUME NEW i \in 1..Len(got) PROVE got[i] = TextByte(d, i)
    <3>1. got[i] = all[r + i] /\ r + Len(got) <= Len(all)
      BY <1>5 DEF Counted, Stretch
    <3>2. i \in 1..Size(d)
      BY <1>2, <1>8, <2>2
    <3>3. off[d] + HeaderLen + i <= Len(all) /\ r + i = off[d] + HeaderLen + i
      <4>1. i \in Nat /\ i <= Len(got) /\ Len(got) \in Nat /\ Len(all) \in Nat /\ HeaderLen \in Nat
        BY <1>2
      <4>2. r = off[d] + HeaderLen /\ r + Len(got) <= Len(all)
        BY <1>8, <3>1
      <4> QED BY <2>4, <4>1, <4>2
    <3>4. all[off[d] + HeaderLen + i] = TextByte(d, i)
      BY <1>1, <2>1, <3>2, <3>3 DEF Layout
    <3> QED BY <3>1, <3>3, <3>4
  <2>6. got = Text(d, Len(got))
    <3>1. /\ Text(d, Len(got)) \in Seq(Bytes) /\ Len(Text(d, Len(got))) = Len(got)
          /\ \A i \in 1..Len(got) : Text(d, Len(got))[i] = TextByte(d, i)
      BY <1>2, <2>1, TextFacts
    <3>2. got \in Seq(Bytes) /\ \A i \in 1..Len(got) : got[i] = Text(d, Len(got))[i]
      BY <1>2, <2>5, <3>1
    <3> QED BY <3>1, <3>2, SameBytes
  <2>7. CASE Len(got) = len
    <3>1. got = Text(d, lens[d] % Word)
      BY <1>8, <2>6, <2>7
    <3>2. off[d + 1] = off[d] + HeaderLen + Size(d)
      BY <1>1, <2>1 DEF Layout
    <3>3. Fits(Len(delivered) + 1) => w = off[d + 1]
      BY <1>2, <1>5, <1>8, <2>3, <2>4, <2>7, <3>2
    <3>4. d + 1 = Len(delivered) + 2
      BY <1>2, <1>3
    <3> QED BY <1>3, <1>8, <3>1, <3>3, <3>4
  <2>8. CASE Len(got) # len
    <3>1. EOF
      BY <2>8 DEF Complete, Wanted
    <3>2. Len(got) <= lens[d] % Word /\ Len(got) < lens[d]
      BY <1>2, <1>8, <2>2, <2>8
    <3>3. ASSUME NEW f \in 1..MaxFrames, got = Text(f, lens[f]) PROVE FALSE
      <4>1. Len(got) = lens[f] /\ lens[f] > 0 /\ lens[f] \in Nat /\ got[1] = TextByte(f, 1)
        BY <1>7, <3>3
      <4>2. got[1] = TextByte(d, 1)
        BY <2>5, <4>1
      <4>3. f = d
        <5>1. TextByte(f, 1).frame = f /\ TextByte(d, 1).frame = d
          BY DEF TextByte
        <5> QED BY <4>1, <4>2, <5>1
      <4> QED BY <1>2, <3>2, <4>1, <4>3
    <3>4. ~(d > frame)
      BY <1>2, <1>8
    <3> QED BY <1>3, <2>6, <3>1, <3>2, <3>3, <3>4
  <2> QED BY <2>7, <2>8
<1>9. CASE got = <<>> /\ EOF
  <2>1. ASSUME NEW f \in 1..MaxFrames, got = Text(f, lens[f]) PROVE FALSE
    BY <1>2, <1>7, <1>9, <2>1
  <2>2. ASSUME d <= frame PROVE got = Text(d, Len(got)) /\ Len(got) <= lens[d] % Word
    <3>1. d \in 1..MaxFrames
      BY <1>2, <2>2
    <3>2. Text(d, 0) \in Seq(Bytes) /\ Len(Text(d, 0)) = 0
      BY <3>1, TextFacts
    <3>3. Text(d, 0) = <<>>
      BY <3>2
    <3>4. lens[d] % Word \in Nat
      BY <3>1, SizeFacts DEF TypeInv
    <3> QED BY <1>2, <1>9, <3>3, <3>4
  <2> QED BY <1>3, <1>9, <2>1, <2>2
<1> QED BY <1>6, <1>8, <1>9

LEMMA ReadTextTalk ==
  ASSUME TypeInv, TypeInv', FrameInv, FramesWhole, read_Text
  PROVE  FrameInv' /\ FramesWhole'
<1>0. PICK all \in Seq(Bytes), off \in [1..(frame + 1) -> Nat], w \in Nat : Talk(all, off, w)
  BY DEF FrameInv
<1>1. /\ UNCHANGED <<kind, lens, wpc, frame, left, stream>>
      /\ rpc = "text" /\ Complete /\ delivered' = Append(delivered, got) /\ got' = <<>>
      /\ rpc' = IF \E f \in 1..MaxFrames : got = Text(f, lens[f]) THEN "header" ELSE
                IF kind = "request" \/ EOF THEN "out" ELSE "header"
  BY DEF read_Text, wVars
<1>2. /\ HeaderLen \in Nat \ {0} /\ Len(got) \in Nat /\ Len(delivered) \in Nat
      /\ Len(stream) \in Nat /\ Len(left) \in Nat /\ Len(all) \in Nat
      /\ frame \in 0..MaxFrames /\ MaxFrames \in Nat
      /\ delivered \in Seq(Seq(Bytes)) /\ got \in Seq(Bytes) /\ Len(<<>>) = 0
  BY TalkTypes
<1>3. PICK d \in Nat \ {0} : d = Len(delivered) + 1
  BY <1>2
<1>4. /\ Len(delivered') = d
      /\ \A i \in 1..Len(delivered) : delivered'[i] = delivered[i]
      /\ delivered'[d] = got /\ DOMAIN delivered' = 1..d /\ DOMAIN delivered = 1..Len(delivered)
  BY <1>1, <1>2, <1>3
<1>5. \A i \in 1..d : i \in 1..Len(delivered) \/ i = d
  BY <1>2, <1>3
<1>6. ASSUME Fits(d - 1)
      PROVE  \/ /\ d <= frame /\ got = Text(d, lens[d] % Word)
                /\ Fits(d) => w = off[d + 1]
             \/ /\ EOF
                /\ d <= frame => got = Text(d, Len(got)) /\ Len(got) <= lens[d] % Word
                /\ d > frame => got = <<>>
                /\ ~\E f \in 1..MaxFrames : got = Text(f, lens[f])
  <2>1. d + 1 = Len(delivered) + 2 /\ d - 1 = Len(delivered)
    BY <1>2, <1>3
  <2> QED BY <1>0, <1>1, <1>3, <1>6, <2>1, TextIsRead
<1>7. \A i : Written(i)' = Written(i)
  BY <1>1 DEF Written
<1>8. EOF /\ ~(\E f \in 1..MaxFrames : got = Text(f, lens[f]))
        => wpc \in {"dead", "failed"} /\ rpc' = "out"
  BY <1>1 DEF EOF
\* What was delivered before is whole, as long as lengths fit.
<1>9. ASSUME NEW i \in 1..Len(delivered), Fits(i - 1)
      PROVE  i <= frame /\ delivered[i] = Text(i, lens[i] % Word)
  <2>1. i \in DOMAIN delivered /\ rpc # "out"
    BY <1>1, <1>4
  <2>2. kind = "request" \/ (\A j \in 1..(i - 1) : j <= MaxFrames => lens[j] < Word)
    BY <1>9 DEF Fits
  <2> QED BY <2>1, <2>2 DEF FramesWhole
<1>10. FramesWhole'
  <2>1. SUFFICES ASSUME NEW i \in 1..d, Fits(i - 1)
                 PROVE  \/ i <= frame /\ delivered'[i] = Text(i, lens[i] % Word)
                        \/ /\ i = d /\ wpc \in {"dead", "failed"} /\ rpc' = "out"
                           /\ i <= frame => /\ delivered'[i] = Text(i, Len(delivered'[i]))
                                            /\ Len(delivered'[i]) <= lens[i] % Word
                           /\ i > frame => delivered'[i] = <<>>
    BY <1>1, <1>4 DEF FramesWhole, Fits
  <2>2. CASE i \in 1..Len(delivered)
    BY <1>4, <1>9, <2>1, <2>2
  <2>3. CASE i = d
    BY <1>4, <1>6, <1>8, <2>1, <2>3
  <2> QED BY <1>5, <2>2, <2>3
<1>11. InStep(all, off, w)'
  <2>1. SUFFICES ASSUME Fits(d), rpc' # "out"
                 PROVE  \E r \in Nat : w = r + Len(got') /\ Counted(all, off, r)'
    BY <1>1, <1>2, <1>4, FitsKept DEF InStep
  <2>2. rpc' = "header"
    BY <1>1, <2>1
  <2>f. ASSUME NEW i \in 1..d PROVE Fits(i - 1) /\ Fits(i)
    <3>1. \A j \in 1..i : j \in 1..d
      BY <1>3
    <3>2. \A j \in 1..(i - 1) : j \in 1..d
      BY <1>3
    <3> QED BY <2>1, <3>1, <3>2 DEF Fits
  <2>3. d <= frame /\ got = Text(d, lens[d] % Word) /\ w = off[d + 1]
    <3>1. CASE EOF /\ ~\E f \in 1..MaxFrames : got = Text(f, lens[f])
      BY <1>1, <2>1, <3>1
    <3>2. CASE ~(EOF /\ ~\E f \in 1..MaxFrames : got = Text(f, lens[f]))
      <4>1. Fits(d - 1)
        BY <2>f
      <4> QED BY <1>6, <2>1, <3>2, <4>1
    <3> QED BY <3>1, <3>2
  <2>4. ASSUME NEW i \in 1..d PROVE delivered'[i] = Written(i)'
    <3>1. i <= frame /\ delivered'[i] = Text(i, lens[i] % Word)
      <4>1. CASE i \in 1..Len(delivered)
        BY <1>4, <1>9, <2>f, <4>1
      <4>2. CASE i = d
        BY <1>4, <2>3, <4>2
      <4> QED BY <1>5, <4>1, <4>2
    <3>2. i \in 1..MaxFrames
      BY <1>2, <1>3, <3>1
    <3>3. kind = "request" \/ lens[i] < Word
      BY <1>2, <1>3, <2>1, <3>2 DEF Fits
    <3>4. Written(i) = Text(i, lens[i] % Word)
      BY <3>2, <3>3, SizeFacts DEF TypeInv
    <3> QED BY <1>7, <3>1, <3>4
  <2>5. Stretch(got', all, w)
    <3>1. w <= Len(all)
      BY <1>0, <1>2 DEF Talk, InSocket
    <3> QED BY <1>1, <1>2, <3>1, StretchEmpty
  <2>6. Counted(all, off, w)'
    BY <1>1, <1>2, <1>4, <2>2, <2>3, <2>4, <2>5 DEF Counted
  <2>7. w = w + Len(got')
    BY <1>1, <1>2
  <2> QED BY <2>6, <2>7
<1> QED BY <1>0, <1>1, <1>10, <1>11, ReaderTalk DEF wVars

LEMMA InitFrames ==
  ASSUME Init
  PROVE  TypeInv /\ FramesWhole /\ FrameInv
<1>1. TypeInv
  BY InitType
<1>2. FramesWhole
  BY DEF Init, FramesWhole
<1>3. FrameInv
  <2> DEFINE off == [j \in 1..1 |-> 0]
  <2>1. /\ frame = 0 /\ stream = <<>> /\ left = <<>> /\ got = <<>> /\ delivered = <<>>
        /\ wpc = "next" /\ rpc = "header" /\ 0 + 1 = 1
    BY DEF Init
  <2>2. Len(<<>>) = 0 /\ 1..0 = {} /\ <<>> \in Seq(Bytes) /\ off \in [1..1 -> Nat] /\ off[1] = 0
    OBVIOUS
  <2> HIDE DEF off
  <2>3. Stretch(<<>>, <<>>, 0)
    BY <2>2 DEF Stretch
  <2>4. Layout(<<>>, off)
    BY <2>1, <2>2 DEF Layout
  <2>5. Begun(<<>>, off)
    BY <2>1, <2>2 DEF Begun
  <2>6. InSocket(<<>>, 0)
    BY <2>1, <2>2, <2>3 DEF InSocket
  <2>7. Counted(<<>>, off, 0)
    <3>1. 0 <= HeaderLen
      BY WordFacts
    <3> QED BY <2>1, <2>2, <2>3, <3>1 DEF Counted
  <2>8. InStep(<<>>, off, 0)
    <3>1. 0 \in Nat /\ 0 = 0 + Len(got)
      BY <2>1, <2>2
    <3> QED BY <2>7, <3>1 DEF InStep
  <2>9. Talk(<<>>, off, 0)
    BY <2>4, <2>5, <2>6, <2>8 DEF Talk
  <2>10. off \in [1..(frame + 1) -> Nat]
    BY <2>1, <2>2
  <2> QED BY <2>2, <2>9, <2>10 DEF FrameInv
<1> QED BY <1>1, <1>2, <1>3

LEMMA NextFrames ==
  ASSUME TypeInv, FramesWhole, FrameInv, [Next]_vars
  PROVE  TypeInv' /\ FramesWhole' /\ FrameInv'
<1>1. TypeInv'
  BY NextType
<1>2. CASE read_Text
  BY <1>1, <1>2, ReadTextTalk
<1>3. CASE send_Header \/ send_Text \/ send_Done \/ pipe_write_n \/ pipe_write_n_Fails \/ WriterDies
           \/ pipe_read_n \/ read_Header \/ grow_Double
  <2>1. FrameInv'
    BY <1>1, <1>3, HeaderTalk, TextTalk, QuietTalk, WriteTalk, ReadTalk, ReadHeaderTalk, GrowTalk
  <2>2. /\ UNCHANGED <<kind, lens, delivered>>
        /\ frame' = frame \/ (frame' = frame + 1 /\ wpc \notin {"dead", "failed"})
        /\ wpc \in {"dead", "failed"} => wpc' \in {"dead", "failed"}
        /\ rpc = "out" => rpc' = "out"
    BY <1>3 DEF send_Header, send_Text, send_Done, pipe_write_n, pipe_write_n_Fails, WriterDies,
                pipe_read_n, read_Header, grow_Double, wVars, rVars
  <2> QED BY <1>1, <2>1, <2>2, FramesKept
<1>4. CASE UNCHANGED vars
  <2>1. UNCHANGED <<kind, lens, wVars, stream, rVars>>
    BY <1>4 DEF vars
  <2>2. FrameInv'
    BY <1>1, <1>4, QuietTalk
  <2>3. FramesWhole'
    BY <1>1, <2>1, FramesKept DEF wVars, rVars
  <2> QED BY <1>1, <2>2, <2>3
<1> QED BY <1>2, <1>3, <1>4 DEF Next, Writer, Reader

\* The texts that arrive are those that were written, whole and in order,
\* however writes and reads cut the stream and wherever the writer dies, and
\* of a response whose length does not fit what its header says, silently
\* (transport.c:487-552, 623-662, 719-770).
THEOREM FramesArriveWhole == Spec => []FramesWhole
<1>1. Init => TypeInv /\ FramesWhole /\ FrameInv
  BY InitFrames
<1>2. TypeInv /\ FramesWhole /\ FrameInv /\ [Next]_vars => (TypeInv /\ FramesWhole /\ FrameInv)'
  BY NextFrames
<1> QED BY <1>1, <1>2, PTL DEF Spec
=============================================================================
