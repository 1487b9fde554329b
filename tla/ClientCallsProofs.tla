-------------------------- MODULE ClientCallsProofs --------------------------
(***************************************************************************)
(* Proofs about AsyncClient, for every set of calls and whether or not the *)
(* application's callbacks free the error, and about ClientCalls, for all  *)
(* widths of the integers, all functions, parameters, classes and results. *)
(*                                                                         *)
(* CallDataOwned is not inductive: that the data is live while the         *)
(* transport has it does not say that it was live before the transport     *)
(* accepted it, nor that a refused call has no callback.  CallInv says of  *)
(* every place of the caller and of its callback which objects are live.   *)
(*                                                                         *)
(* ParamsArrive and ResultArrives need what is packed, and what a response *)
(* was made of, while it is on its way: DataInv.                           *)
(***************************************************************************)
EXTENDS ClientCalls, FiniteSetTheorems, WellFoundedInduction, TLAPS

\* Where the caller is, and what the transport has said.
PlacesOK(k) ==
  /\ pc[k] = "new" => ~accepted[k]
  /\ pc[k] \in {"accepted", "zero"} => accepted[k]
  /\ pc[k] \in {"refused", "minus_one"} => ~accepted[k]
  /\ cbpc[k] # "none" => accepted[k]

\* The request text is freed by the caller when it returns, and before or after
\* by a transport that does so.
TextOK(k) ==
  /\ pc[k] = "new" => heap[k]["fstr"] = "none" /\ ~sender_freed[k]
  /\ pc[k] \in {"sending", "accepted", "refused"} =>
       heap[k]["fstr"] = IF sender_freed[k] THEN "freed" ELSE "live"
  /\ pc[k] \in {"zero", "minus_one"} =>
       \/ heap[k]["fstr"] = IF sender_freed[k] THEN "twice" ELSE "freed"
       \/ pc[k] = "minus_one" /\ heap[k]["fstr"] = "none" /\ ~sender_freed[k]

\* The data belongs to the caller until the transport accepts it, then to the
\* callback.
DataOK(k) ==
  /\ pc[k] = "new" => heap[k]["data"] = "none"
  /\ pc[k] \in {"sending", "refused"} /\ ~accepted[k] => heap[k]["data"] = "live"
  /\ pc[k] = "minus_one" => heap[k]["data"] \in {"none", "freed"}
  /\ accepted[k] => heap[k]["data"] = IF cbpc[k] = "done" THEN "freed" ELSE "live"

\* The result belongs to the callback, and a transport error leaves none.
ResultOK(k) ==
  /\ cbpc[k] = "none" => heap[k]["result"] = "none"
  /\ cbpc[k] \in {"callback", "clean"} =>
       /\ heap[k]["result"] \in {"none", "live"}
       /\ response[k] = "errstr" => heap[k]["result"] = "none"
  /\ cbpc[k] = "done" => heap[k]["result"] \in {"none", "freed"}

CallInv == \A k \in Calls : PlacesOK(k) /\ TextOK(k) /\ DataOK(k) /\ ResultOK(k)

Inv == TypeOK /\ CallInv

-----------------------------------------------------------------------------
\* An allocated object is live, the others stay as they were.
LEMMA AllocatedFacts ==
  ASSUME NEW h \in [Objects -> HeapStates], NEW os \in SUBSET Objects
  PROVE  /\ Allocated(h, os) \in [Objects -> HeapStates]
         /\ \A o \in Objects : Allocated(h, os)[o] = IF o \in os THEN "live" ELSE h[o]
  BY DEF Allocated, HeapStates

\* A live object is freed once, NULL stays NULL, a second time is recorded.
LEMMA FreedFacts ==
  ASSUME NEW h \in [Objects -> HeapStates], NEW os \in SUBSET Objects
  PROVE  /\ Freed(h, os) \in [Objects -> HeapStates]
         /\ \A o \in Objects :
              /\ o \notin os \/ h[o] = "none" => Freed(h, os)[o] = h[o]
              /\ o \in os /\ h[o] = "live" => Freed(h, os)[o] = "freed"
              /\ o \in os /\ h[o] = "freed" => Freed(h, os)[o] = "twice"
  BY DEF Freed, HeapStates

\* What the fret function makes is a result or an error of the call.
LEMMA FretFacts ==
  ASSUME NEW type, NEW r
  PROVE  /\ Fret(type, r) \in SUBSET Objects
         /\ Fret(type, r) \subseteq {"result", "error"}
  <1>1. CASE r \in {"malformed", "err_code"}
    BY <1>1 DEF Fret, Objects
  <1>2. CASE r \notin {"malformed", "err_code"} /\ r = "value" /\ type \in HeapTypes
    BY <1>2 DEF Fret, Objects
  <1>3. CASE r \notin {"malformed", "err_code"} /\ ~(r = "value" /\ type \in HeapTypes)
    BY <1>3 DEF Fret, Objects
  <1> QED BY <1>1, <1>2, <1>3

\* The invariant holds before any call is made.
LEMMA InitInv == Init => Inv
  <1> SUFFICES ASSUME Init PROVE Inv OBVIOUS
  <1>1. TypeOK BY DEF Init, TypeOK, HeapStates
  <1>2. CallInv
    BY DEF Init, CallInv, PlacesOK, TextOK, DataOK, ResultOK, Objects
  <1> QED BY <1>1, <1>2 DEF Inv

\* A step of one call leaves the others as they are: the invariant of a call
\* depends on its own places and objects alone.
LEMMA OtherCalls ==
  ASSUME Inv, NEW k \in Calls, NEW j \in Calls,
         pc'[j] = pc[j], cbpc'[j] = cbpc[j], accepted'[j] = accepted[j],
         sender_freed'[j] = sender_freed[j],
         response'[j] = response[j], heap'[j] = heap[j]
  PROVE  (PlacesOK(j) /\ TextOK(j) /\ DataOK(j) /\ ResultOK(j))'
  BY DEF Inv, CallInv, PlacesOK, TextOK, DataOK, ResultOK

\* The caller's side preserves the invariant.
LEMMA CallStep ==
  ASSUME Inv, NEW k \in Calls, async_call(k)
  PROVE  Inv'
  <1> USE DEF Inv
  <1>h. heap[k] \in [Objects -> HeapStates] /\ {"fstr", "data"} \in SUBSET Objects
        /\ {"fstr"} \in SUBSET Objects
    BY DEF TypeOK, Objects
  <1>k. PlacesOK(k) /\ TextOK(k) /\ DataOK(k) /\ ResultOK(k) BY DEF CallInv
  <1>1. CASE async_call_v_BadParam(k)
    <2>1. TypeOK' BY <1>1 DEF async_call_v_BadParam, TypeOK
    <2>2. ASSUME NEW j \in Calls PROVE (PlacesOK(j) /\ TextOK(j) /\ DataOK(j) /\ ResultOK(j))'
      <3>1. CASE j = k
        BY <1>1, <1>k, <3>1 DEF async_call_v_BadParam, TypeOK, PlacesOK, TextOK, DataOK, ResultOK
      <3>2. CASE j # k
        BY <1>1, <3>2, OtherCalls DEF async_call_v_BadParam, TypeOK
      <3> QED BY <3>1, <3>2
    <2> QED BY <2>1, <2>2 DEF CallInv
  <1>2. ASSUME NEW type \in RetTypes, async_call_v_Send(k, type) PROVE Inv'
    <2> DEFINE h == Allocated(heap[k], {"fstr", "data"})
    <2>0. h \in [Objects -> HeapStates] /\ heap' = [heap EXCEPT ![k] = h]
          /\ h["fstr"] = "live" /\ h["data"] = "live" /\ h["result"] = heap[k]["result"]
      BY <1>2, <1>h, AllocatedFacts DEF async_call_v_Send, Objects
    <2> HIDE DEF h
    <2>1. TypeOK' BY <1>2, <2>0 DEF async_call_v_Send, TypeOK
    <2>2. ASSUME NEW j \in Calls PROVE (PlacesOK(j) /\ TextOK(j) /\ DataOK(j) /\ ResultOK(j))'
      <3>1. CASE j = k
        BY <1>2, <1>k, <2>0, <3>1
        DEF async_call_v_Send, TypeOK, PlacesOK, TextOK, DataOK, ResultOK
      <3>2. CASE j # k
        BY <1>2, <2>0, <3>2, OtherCalls DEF async_call_v_Send, TypeOK
      <3> QED BY <3>1, <3>2
    <2> QED BY <2>1, <2>2 DEF CallInv
  <1>3. CASE async_send_Accept(k)
    <2>1. TypeOK' BY <1>3 DEF async_send_Accept, TypeOK
    <2>2. ASSUME NEW j \in Calls PROVE (PlacesOK(j) /\ TextOK(j) /\ DataOK(j) /\ ResultOK(j))'
      <3>1. CASE j = k
        BY <1>3, <1>k, <3>1 DEF async_send_Accept, TypeOK, PlacesOK, TextOK, DataOK, ResultOK
      <3>2. CASE j # k
        BY <1>3, <3>2, OtherCalls DEF async_send_Accept, TypeOK
      <3> QED BY <3>1, <3>2
    <2> QED BY <2>1, <2>2 DEF CallInv
  <1>4. CASE async_send_Returns(k)
    <2>1. TypeOK' BY <1>4 DEF async_send_Returns, TypeOK
    <2>2. ASSUME NEW j \in Calls PROVE (PlacesOK(j) /\ TextOK(j) /\ DataOK(j) /\ ResultOK(j))'
      <3>1. CASE j = k
        BY <1>4, <1>k, <3>1 DEF async_send_Returns, TypeOK, PlacesOK, TextOK, DataOK, ResultOK
      <3>2. CASE j # k
        BY <1>4, <3>2, OtherCalls DEF async_send_Returns, TypeOK
      <3> QED BY <3>1, <3>2
    <2> QED BY <2>1, <2>2 DEF CallInv
  <1>5. CASE async_call_v_Return(k)
    <2> DEFINE os == IF pc[k] = "refused" THEN {"fstr", "data"} ELSE {"fstr"}
               h  == Freed(heap[k], os)
    <2>0. /\ h \in [Objects -> HeapStates] /\ heap' = [heap EXCEPT ![k] = h]
          /\ h["fstr"] = IF sender_freed[k] THEN "twice" ELSE "freed"
          /\ h["result"] = heap[k]["result"]
          /\ h["data"] = IF pc[k] = "refused" THEN "freed" ELSE heap[k]["data"]
      <3>1. os \in SUBSET Objects BY <1>h
      <3>2. /\ heap[k]["fstr"] = IF sender_freed[k] THEN "freed" ELSE "live"
            /\ pc[k] = "refused" => heap[k]["data"] = "live"
        BY <1>5, <1>k DEF async_call_v_Return, TextOK, DataOK, PlacesOK
      <3> QED BY <1>5, <1>h, <3>1, <3>2, FreedFacts DEF async_call_v_Return, Objects
    <2> HIDE DEF h
    <2>1. TypeOK' BY <1>5, <2>0 DEF async_call_v_Return, TypeOK
    <2>2. ASSUME NEW j \in Calls PROVE (PlacesOK(j) /\ TextOK(j) /\ DataOK(j) /\ ResultOK(j))'
      <3>1. CASE j = k
        BY <1>5, <1>k, <2>0, <3>1
        DEF async_call_v_Return, TypeOK, PlacesOK, TextOK, DataOK, ResultOK
      <3>2. CASE j # k
        BY <1>5, <2>0, <3>2, OtherCalls DEF async_call_v_Return, TypeOK
      <3> QED BY <3>1, <3>2
    <2> QED BY <2>1, <2>2 DEF CallInv
  <1>6. CASE async_send_FreeText(k)
    <2> DEFINE h == Freed(heap[k], {"fstr"})
    <2>0. /\ h \in [Objects -> HeapStates] /\ heap' = [heap EXCEPT ![k] = h]
          /\ h["data"] = heap[k]["data"] /\ h["result"] = heap[k]["result"]
          /\ heap[k]["fstr"] = "live" => h["fstr"] = "freed"
          /\ heap[k]["fstr"] = "freed" => h["fstr"] = "twice"
      BY <1>6, <1>h, FreedFacts DEF async_send_FreeText, Objects
    <2> HIDE DEF h
    <2>1. TypeOK' BY <1>6, <2>0 DEF async_send_FreeText, TypeOK
    <2>2. ASSUME NEW j \in Calls PROVE (PlacesOK(j) /\ TextOK(j) /\ DataOK(j) /\ ResultOK(j))'
      <3>1. CASE j = k
        BY <1>6, <1>k, <2>0, <3>1
        DEF async_send_FreeText, TypeOK, PlacesOK, TextOK, DataOK, ResultOK
      <3>2. CASE j # k
        BY <1>6, <2>0, <3>2, OtherCalls DEF async_send_FreeText, TypeOK
      <3> QED BY <3>1, <3>2
    <2> QED BY <2>1, <2>2 DEF CallInv
  <1> QED BY <1>1, <1>2, <1>3, <1>4, <1>5, <1>6 DEF async_call

\* The callback's side preserves the invariant, wherever the caller is.
LEMMA CallbackStep ==
  ASSUME Inv, NEW k \in Calls, generic_callback(k)
  PROVE  Inv'
  <1> USE DEF Inv
  <1>h. heap[k] \in [Objects -> HeapStates] BY DEF TypeOK
  <1>k. PlacesOK(k) /\ TextOK(k) /\ DataOK(k) /\ ResultOK(k) BY DEF CallInv
  <1>1. ASSUME NEW r \in Responses, generic_callback_Decode(k, r) PROVE Inv'
    <2> DEFINE os == IF r = "errstr" THEN {"error"} ELSE Fret(ret_type[k], r)
               h  == Allocated(heap[k], os)
    <2>0. /\ h \in [Objects -> HeapStates] /\ heap' = [heap EXCEPT ![k] = h]
          /\ h["fstr"] = heap[k]["fstr"] /\ h["data"] = heap[k]["data"]
          /\ h["result"] \in {"live", heap[k]["result"]}
          /\ r = "errstr" => h["result"] = heap[k]["result"]
      <3>1. os \in SUBSET Objects /\ os \subseteq {"result", "error"}
        BY FretFacts DEF Objects
      <3>2. r = "errstr" => "result" \notin os OBVIOUS
      <3> HIDE DEF os
      <3> QED BY <1>1, <1>h, <3>1, <3>2, AllocatedFacts DEF generic_callback_Decode, Objects, os
    <2> HIDE DEF h
    <2>1. TypeOK' BY <1>1, <2>0 DEF generic_callback_Decode, TypeOK
    <2>2. ASSUME NEW j \in Calls PROVE (PlacesOK(j) /\ TextOK(j) /\ DataOK(j) /\ ResultOK(j))'
      <3>1. CASE j = k
        BY <1>1, <1>k, <2>0, <3>1
        DEF generic_callback_Decode, TypeOK, PlacesOK, TextOK, DataOK, ResultOK
      <3>2. CASE j # k
        BY <1>1, <2>0, <3>2, OtherCalls DEF generic_callback_Decode, TypeOK
      <3> QED BY <3>1, <3>2
    <2> QED BY <2>1, <2>2 DEF CallInv
  <1>2. CASE generic_callback_Callback(k)
    <2> DEFINE os == IF AppFreesError THEN {"error"} ELSE {}
               h  == Freed(heap[k], os)
    <2>0. /\ h \in [Objects -> HeapStates] /\ heap' = [heap EXCEPT ![k] = h]
          /\ \A o \in Objects \ {"error"} : h[o] = heap[k][o]
      <3>1. os \in SUBSET Objects BY DEF Objects
      <3> QED BY <1>2, <1>h, <3>1, FreedFacts DEF generic_callback_Callback
    <2> HIDE DEF h
    <2>1. TypeOK' BY <1>2, <2>0 DEF generic_callback_Callback, TypeOK
    <2>2. ASSUME NEW j \in Calls PROVE (PlacesOK(j) /\ TextOK(j) /\ DataOK(j) /\ ResultOK(j))'
      <3>1. CASE j = k
        BY <1>2, <1>k, <2>0, <3>1
        DEF generic_callback_Callback, TypeOK, PlacesOK, TextOK, DataOK, ResultOK, Objects
      <3>2. CASE j # k
        BY <1>2, <2>0, <3>2, OtherCalls DEF generic_callback_Callback, TypeOK
      <3> QED BY <3>1, <3>2
    <2> QED BY <2>1, <2>2 DEF CallInv
  <1>3. CASE generic_callback_Clean(k)
    <2> DEFINE os == {"data", IF response[k] = "errstr" THEN "error" ELSE "result"}
               h  == Freed(heap[k], os)
    <2>0. /\ h \in [Objects -> HeapStates] /\ heap' = [heap EXCEPT ![k] = h]
          /\ h["fstr"] = heap[k]["fstr"] /\ h["data"] = "freed"
          /\ h["result"] \in {"none", "freed"}
      <3>1. os \in SUBSET Objects BY DEF Objects
      <3>2. heap[k]["data"] = "live" /\ heap[k]["result"] \in {"none", "live"}
            /\ (response[k] = "errstr" => heap[k]["result"] = "none")
        BY <1>3, <1>k DEF generic_callback_Clean, PlacesOK, DataOK, ResultOK
      <3> QED BY <1>3, <1>h, <3>1, <3>2, FreedFacts DEF generic_callback_Clean, Objects
    <2> HIDE DEF h
    <2>1. TypeOK' BY <1>3, <2>0 DEF generic_callback_Clean, TypeOK
    <2>2. ASSUME NEW j \in Calls PROVE (PlacesOK(j) /\ TextOK(j) /\ DataOK(j) /\ ResultOK(j))'
      <3>1. CASE j = k
        BY <1>3, <1>k, <2>0, <3>1
        DEF generic_callback_Clean, TypeOK, PlacesOK, TextOK, DataOK, ResultOK
      <3>2. CASE j # k
        BY <1>3, <2>0, <3>2, OtherCalls DEF generic_callback_Clean, TypeOK
      <3> QED BY <3>1, <3>2
    <2> QED BY <2>1, <2>2 DEF CallInv
  <1> QED BY <1>1, <1>2, <1>3 DEF generic_callback

\* The invariant is inductive.
LEMMA InvariantHolds == Spec => []Inv
  <1>1. Inv /\ UNCHANGED vars => Inv'
    BY DEF Inv, TypeOK, CallInv, PlacesOK, TextOK, DataOK, ResultOK, vars
  <1>2. Inv /\ Next => Inv' BY CallStep, CallbackStep DEF Next
  <1> QED BY InitInv, <1>1, <1>2, PTL DEF Spec

\* Every variable keeps its type, for every set of calls.
THEOREM TypeCorrect == Spec => []TypeOK
  <1>1. Inv => TypeOK BY DEF Inv
  <1> QED BY InvariantHolds, <1>1, PTL

\* In every interleaving of async_send's return with the callback, for every
\* set of calls, the AsyncCallData is alive while it may be used, and it and the
\* result are freed exactly once.
THEOREM DataFreedOnce == Spec => []CallDataOwned
  <1>1. Inv => CallDataOwned
    <2> SUFFICES ASSUME Inv, NEW k \in Calls
                 PROVE  /\ accepted[k] /\ cbpc[k] # "done" => heap[k]["data"] = "live"
                        /\ cbpc[k] \in {"callback", "clean"} => heap[k]["result"] # "freed"
                        /\ \A o \in {"data", "result"} :
                             /\ heap[k][o] # "twice"
                             /\ Over(k) => heap[k][o] # "live"
      BY DEF CallDataOwned
    <2>1. PlacesOK(k) /\ TextOK(k) /\ DataOK(k) /\ ResultOK(k) /\ TypeOK BY DEF Inv, CallInv
    <2> QED BY <2>1 DEF PlacesOK, DataOK, ResultOK, Over, TypeOK
  <1> QED BY InvariantHolds, <1>1, PTL

\* Whenever a transport frees the text, before async_send returns or long after,
\* the library has freed it or will: it is freed twice, and once otherwise.
THEOREM TextIsFreedByBoth == Spec => []TextFreedByBoth
  <1>1. Inv => TextFreedByBoth
    <2> SUFFICES ASSUME Inv, NEW k \in Calls
                 PROVE  /\ pc[k] \in {"zero", "minus_one"} => heap[k]["fstr"] # "live"
                        /\ heap[k]["fstr"] = "twice"
                             <=> pc[k] \in {"zero", "minus_one"} /\ sender_freed[k]
      BY DEF TextFreedByBoth
    <2>1. TextOK(k) /\ TypeOK BY DEF Inv, CallInv
    <2> QED BY <2>1 DEF TextOK, TypeOK
  <1> QED BY InvariantHolds, <1>1, PTL

-----------------------------------------------------------------------------
(* Integers.                                                               *)

\* A number between 0 and m - 1 is its own remainder, and so is that of a
\* number that is m more or less.
LEMMA RemainderFacts ==
  ASSUME NEW m \in Nat \ {0}, NEW x \in 0..(m - 1)
  PROVE  x % m = x /\ (x + m) % m = x /\ (x - m) % m = x
<1>1. x % m = x
  OBVIOUS
<1>2. (x + m) % m = x
  OBVIOUS
<1>3. (x - m) % m = x
  OBVIOUS
<1> QED BY <1>1, <1>2, <1>3

\* A conversion to a signed type keeps the values of the type.
LEMMA SignedKeeps ==
  ASSUME NEW s \in Nat \ {0}, NEW n \in (-s)..(s - 1)
  PROVE  Signed(n, s) = n
<1>1. 2 * s \in Nat \ {0} /\ n + s \in 0..(2 * s - 1)
  OBVIOUS
<1>2. (n + s) % (2 * s) = n + s
  BY <1>1, RemainderFacts
<1> QED BY <1>2 DEF Signed

\* A conversion to an unsigned type keeps the values of the type, and gets
\* them back from the signed type of the same width.
LEMMA UnsignedKeeps ==
  ASSUME NEW s \in Nat \ {0}, NEW n \in 0..(2 * s - 1)
  PROVE  Unsigned(n, s) = n /\ Unsigned(Signed(n, s), s) = n
<1>1. 2 * s \in Nat \ {0}
  OBVIOUS
<1>2. n % (2 * s) = n
  BY <1>1, RemainderFacts
<1>3. Unsigned(Signed(n, s), s) = n
  <2>1. CASE n < s
    <3>1. Signed(n, s) = n
      <4>1. n \in (-s)..(s - 1)
        BY <2>1
      <4> QED BY <4>1, SignedKeeps
    <3> QED BY <1>2, <3>1 DEF Unsigned
  <2>2. CASE ~(n < s)
    <3>1. n - s \in 0..(2 * s - 1) /\ n + s = (n - s) + 2 * s
      BY <2>2
    <3>2. (n + s) % (2 * s) = n - s
      BY <1>1, <3>1, RemainderFacts
    <3>3. Signed(n, s) = n - 2 * s
      BY <3>2 DEF Signed
    <3>4. (n - 2 * s) % (2 * s) = n
      BY <1>1, RemainderFacts
    <3> QED BY <3>3, <3>4 DEF Unsigned
  <2> QED BY <2>1, <2>2
<1> QED BY <1>2, <1>3 DEF Unsigned

LEMMA SpanFacts ==
  /\ CharSpan \in Nat \ {0} /\ IntSpan \in Nat \ {0} /\ LongSpan \in Nat \ {0}
  /\ 2 * CharSpan <= LongSpan /\ 2 * IntSpan <= LongSpan
  BY WidthAssumption

\* A value of a signed type goes through json_integer.
LEMMA SignedThroughJson ==
  ASSUME NEW s \in {CharSpan, IntSpan, LongSpan}, NEW n \in (-s)..(s - 1)
  PROVE  n \in Int /\ json_integer(n) = <<"integer", n>> /\ Signed(n, s) = n
<1>1. s \in Nat \ {0} /\ n \in Int /\ n \in (-LongSpan)..(LongSpan - 1)
  BY SpanFacts
<1>2. Signed(n, s) = n
  BY <1>1, SignedKeeps
<1>3. Signed(n, LongSpan) = n
  BY <1>1, SpanFacts, SignedKeeps
<1> QED BY <1>1, <1>2, <1>3 DEF json_integer

\* A value of an unsigned type comes back from json_integer.
LEMMA UnsignedThroughJson ==
  ASSUME NEW s \in {CharSpan, IntSpan, LongSpan}, NEW n \in 0..(2 * s - 1)
  PROVE  /\ json_integer(n) = <<"integer", Signed(n, LongSpan)>>
         /\ Unsigned(Signed(n, LongSpan), s) = n
<1>1. json_integer(n) = <<"integer", Signed(n, LongSpan)>>
  BY DEF json_integer
<1>2. CASE s = LongSpan
  BY <1>1, <1>2, SpanFacts, UnsignedKeeps
<1>3. CASE s # LongSpan
  <2>1. s \in Nat \ {0} /\ n \in (-LongSpan)..(LongSpan - 1)
    BY <1>3, SpanFacts
  <2>2. Signed(n, LongSpan) = n
    BY <2>1, SpanFacts, SignedKeeps
  <2>3. Unsigned(n, s) = n
    BY <2>1, UnsignedKeeps
  <2> QED BY <1>1, <2>2, <2>3
<1> QED BY <1>2, <1>3

-----------------------------------------------------------------------------
(* Objects.                                                                *)

\* The members of a set of pairs with the same first half.
LEMMA PairOf ==
  ASSUME NEW kind, NEW S, NEW v \in {kind} \X S
  PROVE  \E x \in S : v = <<kind, x>>
  OBVIOUS

LEMMA SignedTypeFacts ==
  ASSUME NEW type \in DOMAIN SignedTypes
  PROVE  /\ SignedTypes[type] \in {CharSpan, IntSpan, LongSpan}
         /\ type \notin DOMAIN UnsignedTypes
         /\ type \in IntTypes /\ type \notin RealTypes
         /\ type \notin {"STRING", "BOOLEAN", "OBJECT"}
  BY DEF SignedTypes, UnsignedTypes, IntTypes, RealTypes

LEMMA UnsignedTypeFacts ==
  ASSUME NEW type \in DOMAIN UnsignedTypes
  PROVE  /\ UnsignedTypes[type] \in {CharSpan, IntSpan, LongSpan}
         /\ type \notin DOMAIN SignedTypes
         /\ type \in IntTypes /\ type \notin RealTypes
         /\ type \notin {"STRING", "BOOLEAN", "OBJECT"}
  BY DEF SignedTypes, UnsignedTypes, IntTypes, RealTypes

\* A value of a property, its node, and what is read from that.
Through(type, v) == json_deserialize_pspec(type, json_serialize_pspec(type, v))

\* An integer property of every width and sign keeps its value.
LEMMA IntegerSurvives ==
  ASSUME NEW type \in IntTypes, NEW objs, NEW v \in GValues(type, objs)
  PROVE  /\ json_serialize_pspec(type, v) # NULL
         /\ Through(type, v) = v /\ v # Failed
         /\ v \notin {<<"string", "bad">>, <<"real", "nan">>}
<1>1. CASE type \in DOMAIN SignedTypes
  <2>1. GValues(type, objs) = SignedInts(SignedTypes[type])
    BY <1>1, SignedTypeFacts DEF GValues
  <2> DEFINE s == SignedTypes[type]
  <2>2. s \in {CharSpan, IntSpan, LongSpan}
    BY <1>1, SignedTypeFacts
  <2> HIDE DEF s
  <2>3. PICK n \in (-s)..(s - 1) : v = <<"integer", n>>
    BY <2>1 DEF SignedInts, s
  <2>4. n \in Int /\ json_integer(n) = <<"integer", n>> /\ Signed(n, s) = n
    BY <2>2, <2>3, SignedThroughJson
  <2>5. v # NULL /\ v # Failed /\ v[2] = n /\ v \notin {<<"string", "bad">>, <<"real", "nan">>}
    BY <2>3 DEF NULL, Failed
  <2>6. json_serialize_pspec(type, v) = <<"integer", n>>
    BY <1>1, <2>4, <2>5, SignedTypeFacts DEF json_serialize_pspec
  <2>7. Cast(type, n) = n
    BY <1>1, <2>4 DEF Cast, s
  <2>8. json_deserialize_pspec(type, <<"integer", n>>) = <<"integer", Cast(type, n)>>
    BY <1>1, SignedTypeFacts DEF json_deserialize_pspec
  <2> QED BY <2>3, <2>5, <2>6, <2>7, <2>8 DEF Through, NULL
<1>2. CASE type \in DOMAIN UnsignedTypes
  <2>0. type \notin DOMAIN SignedTypes /\ type \in IntTypes /\ type \notin RealTypes
        /\ type \notin {"STRING", "BOOLEAN", "OBJECT"}
    BY <1>2, UnsignedTypeFacts
  <2>1. GValues(type, objs) = UnsignedInts(UnsignedTypes[type])
    BY <1>2, <2>0 DEF GValues
  <2> DEFINE s == UnsignedTypes[type]
  <2>2. s \in {CharSpan, IntSpan, LongSpan}
    BY <1>2, UnsignedTypeFacts
  <2> HIDE DEF s
  <2>3. PICK n \in 0..(2 * s - 1) : v = <<"integer", n>>
    BY <2>1 DEF UnsignedInts, s
  <2> DEFINE m == Signed(n, LongSpan)
  <2>4. json_integer(n) = <<"integer", m>> /\ Unsigned(m, s) = n
    BY <2>2, <2>3, UnsignedThroughJson
  <2> HIDE DEF m
  <2>5. v # NULL /\ v # Failed /\ v[2] = n /\ v \notin {<<"string", "bad">>, <<"real", "nan">>}
    BY <2>3 DEF NULL, Failed
  <2>6. json_serialize_pspec(type, v) = <<"integer", m>>
    BY <2>0, <2>4, <2>5 DEF json_serialize_pspec
  <2>7. Cast(type, m) = n
    BY <2>0, <2>4 DEF Cast, s
  <2>8. json_deserialize_pspec(type, <<"integer", m>>) = <<"integer", Cast(type, m)>>
    BY <2>0 DEF json_deserialize_pspec
  <2> QED BY <2>3, <2>5, <2>6, <2>7, <2>8 DEF Through, NULL
<1> QED BY <1>1, <1>2 DEF IntTypes

\* So does one of another known type, unless jansson makes no value of it.
LEMMA OtherSurvives ==
  ASSUME NEW type \in KnownTypes \ IntTypes, NEW objs, NEW v \in GValues(type, objs)
  PROVE  IF v \in {<<"string", "bad">>, <<"real", "nan">>}
           THEN json_serialize_pspec(type, v) = NULL
           ELSE /\ json_serialize_pspec(type, v) # NULL
                /\ Through(type, v) = v /\ v # Failed
<1>0. type \notin DOMAIN SignedTypes /\ type \notin DOMAIN UnsignedTypes /\ type \notin IntTypes
  BY DEF IntTypes
<1>1. CASE type \in RealTypes
  <2>0. type \notin {"STRING", "BOOLEAN", "OBJECT"}
    BY <1>1 DEF RealTypes
  <2>1. v \in {"real"} \X STRING
    BY <1>0, <1>1, <2>0 DEF GValues
  <2>2. PICK x : v = <<"real", x>>
    <3> DEFINE S == STRING
    <3>1. v \in {"real"} \X S
      BY <2>1
    <3> HIDE DEF S
    <3> QED BY <3>1, PairOf
  <2>3. v # NULL /\ v # Failed /\ v[2] = x /\ v # <<"string", "bad">>
        /\ (v = <<"real", "nan">> <=> x = "nan")
    BY <2>2 DEF NULL, Failed
  <2>4. json_serialize_pspec(type, v) = json_real(x)
    BY <1>0, <1>1, <2>0, <2>3 DEF json_serialize_pspec
  <2>5. json_deserialize_pspec(type, v) = v
    BY <1>0, <1>1, <2>0, <2>2 DEF json_deserialize_pspec
  <2> QED BY <2>2, <2>3, <2>4, <2>5 DEF Through, json_real, NULL
<1>2. CASE type = "STRING"
  <2>0. type \notin RealTypes
    BY <1>2 DEF RealTypes
  <2>1. v \in Strings
    BY <1>0, <1>2, <2>0 DEF GValues
  <2>2. CASE v = NULL
    <3>1. json_serialize_pspec(type, v) = null
      BY <2>2 DEF json_serialize_pspec
    <3>2. json_deserialize_pspec(type, null) = NULL
      BY <1>0, <1>2, <2>0 DEF json_deserialize_pspec, null
    <3> QED BY <2>2, <3>1, <3>2 DEF Through, null, NULL, Failed
  <2>3. CASE v # NULL
    <3>1. PICK x : v = <<"string", x>>
      <4> DEFINE S == STRING
      <4>1. v \in {"string"} \X S
        BY <2>1, <2>3 DEF Strings
      <4> HIDE DEF S
      <4> QED BY <4>1, PairOf
    <3>2. v # Failed /\ v[2] = x /\ v # <<"real", "nan">>
          /\ (v = <<"string", "bad">> <=> x = "bad")
      BY <3>1 DEF Failed
    <3>3. json_serialize_pspec(type, v) = json_string(x)
      BY <1>0, <1>2, <2>0, <2>3, <3>2 DEF json_serialize_pspec
    <3>4. json_deserialize_pspec(type, v) = v
      BY <1>0, <1>2, <2>0, <3>1 DEF json_deserialize_pspec, null
    <3> QED BY <3>1, <3>2, <3>3, <3>4 DEF Through, json_string, NULL
  <2> QED BY <2>2, <2>3
<1>3. CASE type = "BOOLEAN"
  <2>0. type \notin RealTypes
    BY <1>3 DEF RealTypes
  <2>1. v \in {"boolean"} \X BOOLEAN
    BY <1>0, <1>3, <2>0 DEF GValues
  <2>2. PICK x \in BOOLEAN : v = <<"boolean", x>>
    BY <2>1
  <2>3. v # NULL /\ v # Failed /\ v # <<"string", "bad">> /\ v # <<"real", "nan">>
    BY <2>2 DEF NULL, Failed
  <2>4. json_serialize_pspec(type, v) = v
    BY <1>0, <1>3, <2>0, <2>3 DEF json_serialize_pspec
  <2>5. json_deserialize_pspec(type, v) = v
    BY <1>0, <1>3, <2>0, <2>2 DEF json_deserialize_pspec
  <2> QED BY <2>3, <2>4, <2>5 DEF Through
<1>4. CASE type = "OBJECT"
  <2>0. type \notin RealTypes /\ type \notin IntTypes
    BY <1>4 DEF RealTypes
  <2>1. v \in {NULL} \cup ({"object"} \X DOMAIN objs)
    BY <1>0, <1>4, <2>0 DEF GValues
  <2>2. CASE v = NULL
    <3>1. json_serialize_pspec(type, v) = null
      BY <2>2 DEF json_serialize_pspec
    <3>2. json_deserialize_pspec(type, null) = NULL
      BY <1>0, <1>4, <2>0 DEF json_deserialize_pspec, null
    <3> QED BY <2>2, <3>1, <3>2 DEF Through, null, NULL, Failed
  <2>3. CASE v # NULL
    <3>1. PICK q \in DOMAIN objs : v = <<"object", q>>
      BY <2>1, <2>3
    <3>2. v # Failed /\ v # <<"string", "bad">> /\ v # <<"real", "nan">> /\ v[1] = "object"
      BY <3>1 DEF Failed
    <3>3. json_serialize_pspec(type, v) = v
      BY <1>0, <1>4, <2>0, <2>3 DEF json_serialize_pspec
    <3>4. json_deserialize_pspec(type, v) = v
      BY <1>0, <1>4, <2>0, <3>1, <3>2 DEF json_deserialize_pspec, null
    <3> QED BY <2>3, <3>2, <3>3, <3>4 DEF Through
  <2> QED BY <2>2, <2>3
<1> QED BY <1>1, <1>2, <1>3, <1>4 DEF KnownTypes

\* A property of a type the conversions do not know is null, and not read.
LEMMA UnknownLost ==
  ASSUME NEW type, type \notin KnownTypes, NEW v
  PROVE  json_serialize_pspec(type, v) = null /\ json_deserialize_pspec(type, null) = Failed
<1>1. type \notin {"STRING", "BOOLEAN", "OBJECT"} /\ type \notin IntTypes /\ type \notin RealTypes
  BY DEF KnownTypes
<1>2. json_serialize_pspec(type, v) = null
  BY <1>1 DEF json_serialize_pspec
<1>3. json_deserialize_pspec(type, null) = Failed
  BY <1>1 DEF json_deserialize_pspec
<1> QED BY <1>2, <1>3

\* The objects a function returned, serialised and read again, have the
\* properties that survive, at every place.
LEMMA ObjectsSurvive ==
  ASSUME NEW cls, NEW objs, ObjectsOf(cls, objs)
  PROVE  json_gobject_deserialize(cls, json_gobject_serialize(cls, objs)) = Survives(cls, objs)
<1> DEFINE node(q, p) == json_serialize_pspec(cls[p].type, objs[q][p])
           nodes == [q \in DOMAIN objs |->
                       [p \in {r \in DOMAIN cls : node(q, r) # NULL} |-> node(q, p)]]
           member(q, p) == IF p \in DOMAIN nodes[q] /\ cls[p].flags = "readwrite"
                             THEN json_deserialize_pspec(cls[p].type, nodes[q][p])
                             ELSE Failed
           read(q, p) == IF member(q, p) = Failed THEN cls[p].default ELSE member(q, p)
           kept(q, p) == IF \/ cls[p].flags # "readwrite"
                            \/ cls[p].type \notin KnownTypes
                            \/ objs[q][p] \in {<<"string", "bad">>, <<"real", "nan">>}
                           THEN cls[p].default ELSE objs[q][p]
<1>1. json_gobject_serialize(cls, objs) = <<"object", nodes>>
  BY DEF json_gobject_serialize
<1>2. json_gobject_deserialize(cls, <<"object", nodes>>)
        = [q \in DOMAIN nodes |-> [p \in DOMAIN cls |-> read(q, p)]]
  <2> DEFINE t == <<"object", nodes>>
  <2>1. t[1] = "object" /\ t[2] = nodes
    OBVIOUS
  <2> HIDE DEF nodes, t
  <2> QED BY <2>1 DEF json_gobject_deserialize, t
<1>3. Survives(cls, objs) = [q \in DOMAIN objs |-> [p \in DOMAIN cls |-> kept(q, p)]]
  BY DEF Survives
<1>4. DOMAIN nodes = DOMAIN objs
  OBVIOUS
<1>5. ASSUME NEW q \in DOMAIN objs, NEW p \in DOMAIN cls PROVE read(q, p) = kept(q, p)
  <2> DEFINE type == cls[p].type
             v    == objs[q][p]
             through == Through(type, v)
  <2>1. p \in DOMAIN nodes[q] <=> node(q, p) # NULL
    OBVIOUS
  <2>2. node(q, p) # NULL => nodes[q][p] = node(q, p)
    OBVIOUS
  <2>3. node(q, p) = json_serialize_pspec(type, v)
    OBVIOUS
  <2> HIDE DEF nodes, node, type, v
  <2>4. CASE cls[p].flags # "readwrite"
    BY <2>4
  <2>5. CASE cls[p].flags = "readwrite" /\ type \notin KnownTypes
    <3>1. node(q, p) = null /\ json_deserialize_pspec(type, null) = Failed
      BY <2>3, <2>5, UnknownLost
    <3>2. null # NULL
      BY DEF null, NULL
    <3>3. member(q, p) = Failed
      BY <2>1, <2>2, <2>5, <3>1, <3>2 DEF type
    <3> QED BY <2>5, <3>3 DEF type
  <2>6. CASE cls[p].flags = "readwrite" /\ type \in KnownTypes
    <3>1. v \in GValues(type, objs)
      BY <2>6 DEF ObjectsOf, type, v
    <3>2. IF v \in {<<"string", "bad">>, <<"real", "nan">>}
            THEN node(q, p) = NULL
            ELSE node(q, p) # NULL /\ json_deserialize_pspec(type, node(q, p)) = v /\ v # Failed
      <4>1. CASE type \in IntTypes
        BY <2>3, <3>1, <4>1, IntegerSurvives DEF Through
      <4>2. CASE type \notin IntTypes
        BY <2>3, <2>6, <3>1, <4>2, OtherSurvives DEF Through
      <4> QED BY <4>1, <4>2
    <3>3. CASE v \in {<<"string", "bad">>, <<"real", "nan">>}
      <4>1. member(q, p) = Failed
        BY <2>1, <3>2, <3>3
      <4> QED BY <3>3, <4>1 DEF v
    <3>4. CASE v \notin {<<"string", "bad">>, <<"real", "nan">>}
      <4>1. member(q, p) = v
        BY <2>1, <2>2, <2>6, <3>2, <3>4 DEF type
      <4> QED BY <2>6, <3>2, <3>4, <4>1 DEF v, type
    <3> QED BY <3>3, <3>4
  <2> QED BY <2>4, <2>5, <2>6
<1> HIDE DEF nodes, read, kept
<1> QED BY <1>1, <1>2, <1>3, <1>4, <1>5

-----------------------------------------------------------------------------
(* Parameters.                                                             *)

\* Induction over the natural numbers, for a set in the place of a predicate.
LEMMA SetInduction ==
  ASSUME NEW S, 0 \in S, \A n \in Nat : n \in S => n + 1 \in S
  PROVE  Nat \subseteq S
<1> DEFINE T == Nat \ S
           R == OpToRel(<, Nat)
<1>1. SUFFICES ASSUME T # {} PROVE FALSE
  OBVIOUS
<1>2. IsWellFoundedOn(R, Nat)
  BY NatLessThanWellFounded
<1>3. \A a, b \in Nat : a < b => <<a, b>> \in R
  BY DEF OpToRel
<1>4. T \subseteq Nat
  OBVIOUS
<1> HIDE DEF R
<1>5. PICK x \in T : \A y \in T : ~(<<y, x>> \in R)
  BY <1>1, <1>2, <1>4, WFMin
<1>6. x - 1 \in Nat /\ x - 1 < x
  BY <1>5
<1>7. x - 1 \notin T
  BY <1>3, <1>5, <1>6
<1> QED BY <1>5, <1>6, <1>7

\* How many of the first i parameters have a node.
Nodes(ts, ps, i) == Cardinality({j \in 1..i : ParamNode(ts[j], ps[j]) # NULL})

LEMMA NodesCounted ==
  ASSUME NEW ts, NEW ps, NEW i \in Nat
  PROVE  /\ Nodes(ts, ps, 0) = 0 /\ Nodes(ts, ps, i) \in Nat
         /\ Nodes(ts, ps, i + 1) = IF ParamNode(ts[i + 1], ps[i + 1]) = NULL
                                     THEN Nodes(ts, ps, i) ELSE Nodes(ts, ps, i) + 1
<1> DEFINE P(j) == ParamNode(ts[j], ps[j]) # NULL
           G(k) == {j \in 1..k : P(j)}
<1>1. \A k : Nodes(ts, ps, k) = Cardinality(G(k))
  BY DEF Nodes
<1>2. ParamNode(ts[i + 1], ps[i + 1]) = NULL <=> ~P(i + 1)
  OBVIOUS
<1> HIDE DEF P
<1>3. G(0) = {}
  OBVIOUS
<1>4. IsFiniteSet(G(i))
  <2>1. IsFiniteSet(1..i)
    BY FS_Interval
  <2>2. G(i) \in SUBSET (1..i)
    OBVIOUS
  <2> QED BY <2>1, <2>2, FS_Subset
<1>5. G(i + 1) = IF P(i + 1) THEN G(i) \cup {i + 1} ELSE G(i)
  <2>1. \A j : j \in 1..(i + 1) <=> j \in 1..i \/ j = i + 1
    OBVIOUS
  <2> QED BY <2>1
<1>6. i + 1 \notin G(i)
  OBVIOUS
<1> HIDE DEF G
<1>7. Cardinality(G(i)) \in Nat
  BY <1>4, FS_CardinalityType
<1>8. Cardinality(G(i) \cup {i + 1}) = Cardinality(G(i)) + 1
  BY <1>4, <1>6, FS_AddElement
<1> QED BY <1>1, <1>2, <1>3, <1>5, <1>7, <1>8, FS_EmptySet

\* A node of the array is at the place it has among the parameters that have
\* one.
LEMMA NodesInPlace ==
  ASSUME NEW ts, Len(ts) \in Nat, NEW ps
  PROVE  /\ DOMAIN fcall_to_str(ts, ps) = 1..Nodes(ts, ps, Len(ts))
         /\ \A i \in 1..Len(ts) : ParamNode(ts[i], ps[i]) # NULL =>
              /\ Nodes(ts, ps, i) \in DOMAIN fcall_to_str(ts, ps)
              /\ fcall_to_str(ts, ps)[Nodes(ts, ps, i)] = ParamNode(ts[i], ps[i])
<1> DEFINE n == Len(ts)
           node(i) == ParamNode(ts[i], ps[i])
           c(i) == Nodes(ts, ps, i)
           Loop(f) == f = [i \in 0..n |-> IF i = 0 THEN <<>>
                                          ELSE IF node(i) = NULL THEN f[i - 1]
                                          ELSE Append(f[i - 1], node(i))]
           Part(m, f) == /\ DOMAIN f = 0..m /\ f = [i \in 0..m |-> f[i]] /\ f[0] = <<>>
                         /\ \A i \in 0..m : i + 1 <= m =>
                              f[i + 1] = IF node(i + 1) = NULL THEN f[i]
                                         ELSE Append(f[i], node(i + 1))
<1>1. fcall_to_str(ts, ps) = (CHOOSE f : Loop(f))[n]
  BY DEF fcall_to_str
<1>2. n \in Nat
  OBVIOUS
<1>3. \A i \in Nat : /\ c(0) = 0 /\ c(i) \in Nat
                     /\ c(i + 1) = IF node(i + 1) = NULL THEN c(i) ELSE c(i) + 1
  BY NodesCounted
<1> HIDE DEF n, node, c
<1>4. \E f : Part(n, f)
  <2> DEFINE S == {m \in Nat : \E f : Part(m, f)}
  <2>1. 0 \in S
    <3>1. Part(0, [i \in 0..0 |-> <<>>])
      OBVIOUS
    <3> QED BY <3>1
  <2>2. ASSUME NEW m \in Nat, m \in S PROVE m + 1 \in S
    <3>1. PICK f : Part(m, f)
      BY <2>2
    <3> DEFINE last == IF node(m + 1) = NULL THEN f[m] ELSE Append(f[m], node(m + 1))
               h == [i \in 0..(m + 1) |-> IF i = m + 1 THEN last ELSE f[i]]
    <3>2. DOMAIN h = 0..(m + 1) /\ h = [i \in 0..(m + 1) |-> h[i]] /\ h[0] = <<>>
      BY <3>1
    <3>3. h[m + 1] = last /\ \A i \in 0..m : h[i] = f[i]
      BY <3>1
    <3> HIDE DEF h
    <3>4. ASSUME NEW i \in 0..(m + 1), i + 1 <= m + 1
          PROVE  h[i + 1] = IF node(i + 1) = NULL THEN h[i] ELSE Append(h[i], node(i + 1))
      <4>1. CASE i = m
        BY <3>3, <4>1
      <4>2. CASE i # m
        <5>1. i \in 0..m /\ i + 1 \in 0..m /\ i + 1 <= m
          BY <3>4, <4>2
        <5>2. h[i] = f[i] /\ h[i + 1] = f[i + 1]
          BY <3>3, <5>1
        <5> QED BY <3>1, <5>1, <5>2
      <4> QED BY <4>1, <4>2
    <3>5. Part(m + 1, h)
      BY <3>2, <3>4
    <3> HIDE DEF Part
    <3> QED BY <3>5
  <2>3. Nat \subseteq S
    <3> HIDE DEF S
    <3> QED BY <2>1, <2>2, SetInduction
  <2> HIDE DEF Part
  <2> QED BY <1>2, <2>3
<1>5. \E f : Loop(f)
  <2>1. PICK f : Part(n, f)
    BY <1>4
  <2>2. ASSUME NEW i \in 0..n
        PROVE  f[i] = IF i = 0 THEN <<>>
                      ELSE IF node(i) = NULL THEN f[i - 1] ELSE Append(f[i - 1], node(i))
    <3>1. CASE i = 0
      BY <2>1, <3>1
    <3>2. CASE i # 0
      <4>1. i - 1 \in 0..n /\ (i - 1) + 1 = i /\ i <= n
        BY <1>2, <3>2
      <4> QED BY <2>1, <3>2, <4>1
    <3> QED BY <3>1, <3>2
  <2>3. f = [i \in 0..n |-> f[i]]
    BY <2>1
  <2>4. Loop(f)
    BY <2>2, <2>3
  <2> HIDE DEF Loop
  <2> QED BY <2>4
<1>6. ASSUME NEW f, Loop(f)
      PROVE  /\ DOMAIN f[n] = 1..c(n)
             /\ \A j \in 1..n : node(j) # NULL => c(j) \in 1..c(n) /\ f[n][c(j)] = node(j)
  <2> DEFINE N == {node(j) : j \in 1..n}
             Right(i) == /\ f[i] \in Seq(N) /\ Len(f[i]) = c(i)
                         /\ \A j \in 1..i : node(j) # NULL =>
                              c(j) \in 1..c(i) /\ f[i][c(j)] = node(j)
             S == {i \in Nat : i <= n => Right(i)}
  <2>1. 0 \in S
    <3>1. f[0] = <<>>
      BY <1>2, <1>6
    <3>2. <<>> \in Seq(N) /\ Len(<<>>) = 0
      OBVIOUS
    <3>3. c(0) = 0
      BY <1>3
    <3> HIDE DEF N
    <3>4. Right(0)
      BY <3>1, <3>2, <3>3
    <3> HIDE DEF Right
    <3> QED BY <3>4
  <2>2. ASSUME NEW i \in Nat, i \in S PROVE i + 1 \in S
    <3>1. SUFFICES ASSUME i + 1 <= n PROVE Right(i + 1)
      OBVIOUS
    <3>2. Right(i)
      BY <1>2, <2>2, <3>1
    <3>3. i + 1 \in 1..n /\ i + 1 \in 0..n /\ i + 1 # 0 /\ (i + 1) - 1 = i
      BY <1>2, <3>1
    <3>4. f[i + 1] = IF node(i + 1) = NULL THEN f[i] ELSE Append(f[i], node(i + 1))
      BY <1>6, <3>3
    <3>5. node(i + 1) \in N
      BY <3>3
    <3>6. /\ c(i) \in Nat
          /\ c(i + 1) = IF node(i + 1) = NULL THEN c(i) ELSE c(i) + 1
      BY <1>3
    <3>7. \A j \in 1..(i + 1) : j \in 1..i \/ j = i + 1
      OBVIOUS
    <3> HIDE DEF N
    <3>8. CASE node(i + 1) = NULL
      BY <3>2, <3>4, <3>6, <3>7, <3>8
    <3>9. CASE node(i + 1) # NULL
      <4>1. /\ f[i + 1] \in Seq(N) /\ Len(f[i + 1]) = c(i) + 1
            /\ f[i + 1][c(i) + 1] = node(i + 1)
            /\ \A k \in 1..c(i) : f[i + 1][k] = f[i][k]
        BY <3>2, <3>4, <3>5, <3>6, <3>9
      <4>2. c(i + 1) = c(i) + 1
        BY <3>6, <3>9
      <4>3. ASSUME NEW j \in 1..(i + 1), node(j) # NULL
            PROVE  c(j) \in 1..c(i + 1) /\ f[i + 1][c(j)] = node(j)
        <5>1. CASE j = i + 1
          BY <3>6, <4>1, <4>2, <5>1
        <5>2. CASE j # i + 1
          <6>1. c(j) \in 1..c(i) /\ f[i][c(j)] = node(j)
            BY <3>2, <3>7, <4>3, <5>2
          <6> QED BY <3>6, <4>1, <4>2, <6>1
        <5> QED BY <5>1, <5>2
      <4> QED BY <4>1, <4>2, <4>3
    <3> QED BY <3>8, <3>9
  <2>3. Nat \subseteq S
    <3> HIDE DEF S
    <3> QED BY <2>1, <2>2, SetInduction
  <2>4. Right(n)
    <3> HIDE DEF Right
    <3> QED BY <1>2, <2>3
  <2> HIDE DEF N
  <2> QED BY <2>4
<1>7. Loop(CHOOSE f : Loop(f))
  <2> HIDE DEF Loop
  <2> QED BY <1>5
<1> DEFINE a == CHOOSE f : Loop(f)
<1> HIDE DEF a, Loop
<1>8. /\ DOMAIN a[n] = 1..c(n)
      /\ \A j \in 1..n : node(j) # NULL => c(j) \in 1..c(n) /\ a[n][c(j)] = node(j)
  BY <1>6, <1>7 DEF a
<1>9. fcall_to_str(ts, ps) = a[n]
  BY <1>1 DEF a
<1> QED BY <1>8, <1>9 DEF n, node, c

\* A parameter of each type, its node, and what a marshal takes from that.
LEMMA ParamThrough ==
  ASSUME NEW type \in ParamTypes, NEW v \in Params(type), Utf8(v),
         NEW array, NEW i \in DOMAIN array, array[i] = ParamNode(type, v)
  PROVE  /\ ParamNode(type, v) # NULL
         /\ json_array_get_element(type, array, i)
              = IF type = "json" /\ v = NULL THEN null ELSE v
<1> DEFINE node == ParamNode(type, v)
<1>0. (IF i \in DOMAIN array THEN array[i] ELSE NULL) = node
  OBVIOUS
<1>1. CASE type = "int"
  <2>1. PICK n \in (-IntSpan)..(IntSpan - 1) : v = <<"integer", n>>
    BY <1>1, CallsAssumption DEF SignedInts
  <2>2. json_integer(n) = <<"integer", n>> /\ Signed(n, IntSpan) = n
    BY SignedThroughJson
  <2>3. v[2] = n
    BY <2>1
  <2>4. node = <<"integer", n>>
    BY <1>1, <2>2, <2>3 DEF ParamNode
  <2> HIDE DEF node
  <2>5. json_integer_value(node) = n /\ node # NULL
    BY <2>4 DEF json_integer_value, NULL
  <2>6. json_array_get_element(type, array, i) = <<"integer", n>>
    BY <1>0, <1>1, <2>2, <2>5 DEF json_array_get_element
  <2> QED BY <1>1, <2>1, <2>5, <2>6 DEF node
<1>2. CASE type = "int64"
  <2>1. PICK n \in (-LongSpan)..(LongSpan - 1) : v = <<"integer", n>>
    BY <1>2, CallsAssumption DEF SignedInts
  <2>2. json_integer(n) = <<"integer", n>>
    BY SignedThroughJson
  <2>3. v[2] = n
    BY <2>1
  <2>4. node = <<"integer", n>>
    BY <1>2, <2>2, <2>3 DEF ParamNode
  <2> HIDE DEF node
  <2>5. json_integer_value(node) = n /\ node # NULL
    BY <2>4 DEF json_integer_value, NULL
  <2>6. json_array_get_element(type, array, i) = <<"integer", n>>
    BY <1>0, <1>2, <2>5 DEF json_array_get_element
  <2> QED BY <1>2, <2>1, <2>5, <2>6 DEF node
<1>3. CASE type = "string"
  <2>0. node = IF v = NULL THEN null ELSE json_string(v[2])
    BY <1>3 DEF ParamNode
  <2>1. json_array_get_element(type, array, i) = json_string_value(node)
    <3> HIDE DEF node
    <3> QED BY <1>0, <1>3 DEF json_array_get_element
  <2> HIDE DEF node
  <2>2. CASE v = NULL
    <3>1. node = null /\ null # NULL /\ json_string_value(null) = NULL
      BY <2>0, <2>2 DEF json_string_value, null, NULL
    <3> QED BY <1>3, <2>1, <2>2, <3>1 DEF node
  <2>3. CASE v # NULL
    <3>1. PICK x : v = <<"string", x>>
      <4> DEFINE S == STRING
      <4>1. v \in {"string"} \X S
        BY <1>3, <2>3, CallsAssumption DEF Strings
      <4> HIDE DEF S
      <4> QED BY <4>1, PairOf
    <3>2. x # "bad" /\ v[2] = x
      BY <3>1 DEF Utf8
    <3>3. node = v
      BY <2>0, <2>3, <3>1, <3>2 DEF json_string
    <3>4. json_string_value(v) = v
      BY <3>1 DEF json_string_value
    <3> QED BY <1>3, <2>1, <2>3, <3>3, <3>4 DEF node
  <2> QED BY <2>2, <2>3
<1>4. CASE type = "json"
  <2>0. node = IF v = NULL THEN null ELSE v
    BY <1>4 DEF ParamNode
  <2>1. json_array_get_element(type, array, i) = node
    <3> HIDE DEF node
    <3> QED BY <1>0, <1>4 DEF json_array_get_element
  <2>2. null # NULL
    BY DEF null, NULL
  <2> HIDE DEF node
  <2> QED BY <1>4, <2>0, <2>1, <2>2 DEF node
<1> QED BY <1>1, <1>2, <1>3, <1>4 DEF ParamTypes

\* Exactly the strings that are not UTF-8 have no node.
LEMMA ParamHasNode ==
  ASSUME NEW type \in ParamTypes, NEW v \in Params(type)
  PROVE  ParamNode(type, v) # NULL <=> Utf8(v)
<1>1. CASE Utf8(v)
  <2> DEFINE array == [i \in {1} |-> ParamNode(type, v)]
  <2>1. 1 \in DOMAIN array /\ array[1] = ParamNode(type, v)
    OBVIOUS
  <2> HIDE DEF array
  <2> QED BY <1>1, <2>1, ParamThrough
<1>2. CASE ~Utf8(v)
  <2>1. v = <<"string", "bad">>
    BY <1>2 DEF Utf8
  <2>2. type = "string"
    <3>1. type # "json"
      BY <1>2, CallsAssumption
    <3>2. \A n : v # <<"integer", n>>
      BY <2>1
    <3>3. type \notin {"int", "int64"}
      BY <3>2, CallsAssumption DEF SignedInts
    <3> QED BY <3>1, <3>3 DEF ParamTypes
  <2>3. v # NULL /\ v[2] = "bad"
    BY <2>1 DEF NULL
  <2> QED BY <1>2, <2>2, <2>3 DEF ParamNode, json_string
<1> QED BY <1>1, <1>2

\* What a marshal takes where the array has ended.
LEMMA NothingThere ==
  ASSUME NEW type \in ParamTypes, NEW array, NEW i, i \notin DOMAIN array
  PROVE  json_array_get_element(type, array, i) \in {<<"integer", 0>>, NULL}
<1>1. (IF i \in DOMAIN array THEN array[i] ELSE NULL) = NULL
  OBVIOUS
<1>2. json_integer_value(NULL) = 0 /\ json_string_value(NULL) = NULL
  BY DEF json_integer_value, json_string_value, NULL
<1>3. Signed(0, IntSpan) = 0
  <2>1. 0 \in (-IntSpan)..(IntSpan - 1)
    BY SpanFacts
  <2> QED BY <2>1, SpanFacts, SignedKeeps
<1>4. CASE type = "int"
  BY <1>1, <1>2, <1>3, <1>4 DEF json_array_get_element
<1>5. CASE type = "int64"
  BY <1>1, <1>2, <1>5 DEF json_array_get_element
<1>6. CASE type = "string"
  BY <1>1, <1>2, <1>6 DEF json_array_get_element
<1>7. CASE type = "json"
  BY <1>1, <1>7 DEF json_array_get_element
<1> QED BY <1>4, <1>5, <1>6, <1>7 DEF ParamTypes

\* What ParamsArrive says of the parameters a function got.
InPlace(ts, ps, got) ==
  /\ \A i \in DOMAIN ps : Utf8(ps[i]) /\ ts[Place(ps, i)] = ts[i] =>
       got[Place(ps, i)] = IF ts[i] = "json" /\ ps[i] = NULL THEN null ELSE ps[i]
  /\ \A i \in DOMAIN ts : i > Place(ps, Len(ts)) => got[i] \in {<<"integer", 0>>, NULL}

\* So a marshal takes from the array what was passed.
LEMMA ParamsThrough ==
  ASSUME NEW ts \in Seq(ParamTypes), NEW ps \in ParamLists(ts)
  PROVE  InPlace(ts, ps, [i \in DOMAIN ts |->
                            json_array_get_element(ts[i], fcall_to_str(ts, ps), i)])
<1> DEFINE n == Len(ts)
           array == fcall_to_str(ts, ps)
           got == [i \in DOMAIN ts |-> json_array_get_element(ts[i], array, i)]
<1>1. n \in Nat /\ DOMAIN ts = 1..n /\ \A i \in 1..n : ts[i] \in ParamTypes
  OBVIOUS
<1>2. DOMAIN ps = DOMAIN ts /\ \A i \in DOMAIN ts : ps[i] \in Params(ts[i])
  BY DEF ParamLists
<1>3. \A i \in 1..n : ParamNode(ts[i], ps[i]) # NULL <=> Utf8(ps[i])
  BY <1>1, <1>2, ParamHasNode
<1>4. ASSUME NEW i \in 0..n PROVE Place(ps, i) = Nodes(ts, ps, i)
  <2>1. \A j \in 1..i : j \in 1..n
    BY <1>1
  <2>2. {j \in 1..i : Utf8(ps[j])} = {j \in 1..i : ParamNode(ts[j], ps[j]) # NULL}
    BY <1>3, <2>1
  <2> QED BY <2>2 DEF Place, Nodes
<1>5. /\ DOMAIN array = 1..Nodes(ts, ps, n)
      /\ \A i \in 1..n : ParamNode(ts[i], ps[i]) # NULL =>
           /\ Nodes(ts, ps, i) \in DOMAIN array
           /\ array[Nodes(ts, ps, i)] = ParamNode(ts[i], ps[i])
  BY <1>1, NodesInPlace
<1>6. \A i \in DOMAIN ts : got[i] = json_array_get_element(ts[i], array, i)
  OBVIOUS
<1>c. ASSUME NEW i \in 1..n
      PROVE  /\ Nodes(ts, ps, i) \in Nat /\ Nodes(ts, ps, i) <= i
  <2> DEFINE G == {j \in 1..i : ParamNode(ts[j], ps[j]) # NULL}
  <2>1. IsFiniteSet(1..i) /\ Cardinality(1..i) = i
    BY FS_Interval
  <2>2. G \in SUBSET (1..i)
    OBVIOUS
  <2>3. Nodes(ts, ps, i) = Cardinality(G)
    BY DEF Nodes
  <2> HIDE DEF G
  <2>4. IsFiniteSet(G) /\ Cardinality(G) <= Cardinality(1..i)
    BY <2>1, <2>2, FS_Subset
  <2>5. Cardinality(G) \in Nat
    BY <2>4, FS_CardinalityType
  <2> QED BY <2>1, <2>3, <2>4, <2>5
<1>7. ASSUME NEW i \in DOMAIN ps, Utf8(ps[i]), ts[Place(ps, i)] = ts[i]
      PROVE  got[Place(ps, i)] = IF ts[i] = "json" /\ ps[i] = NULL THEN null ELSE ps[i]
  <2> DEFINE p == Place(ps, i)
  <2>1. i \in 1..n /\ i \in 0..n
    BY <1>1, <1>2
  <2>2. p = Nodes(ts, ps, i)
    BY <1>4, <2>1
  <2>3. p \in DOMAIN array /\ array[p] = ParamNode(ts[i], ps[i])
    BY <1>3, <1>5, <1>7, <2>1, <2>2
  <2>4. p \in DOMAIN ts
    <3>1. p \in Nat /\ p <= i
      BY <1>c, <2>1, <2>2
    <3>2. p >= 1
      BY <1>5, <2>3
    <3> QED BY <1>1, <2>1, <3>1, <3>2
  <2> HIDE DEF p, array, got
  <2>5. got[p] = json_array_get_element(ts[i], array, p)
    BY <1>6, <1>7, <2>4 DEF p
  <2>6. ts[i] \in ParamTypes /\ ps[i] \in Params(ts[i])
    BY <1>1, <1>2, <2>1
  <2> QED BY <1>7, <2>3, <2>5, <2>6, ParamThrough DEF p
<1>8. ASSUME NEW i \in DOMAIN ts, i > Place(ps, Len(ts))
      PROVE  got[i] \in {<<"integer", 0>>, NULL}
  <2>1. n \in 0..n
    BY <1>1
  <2>2. i > Nodes(ts, ps, n)
    BY <1>4, <1>8, <2>1
  <2>3. i \in Nat /\ Nodes(ts, ps, n) \in Nat
    BY <1>1, NodesCounted
  <2>4. i \notin DOMAIN array
    BY <1>5, <2>2, <2>3
  <2>5. ts[i] \in ParamTypes
    BY <1>1
  <2> HIDE DEF array, got
  <2> QED BY <1>6, <2>4, <2>5, NothingThere
<1> HIDE DEF array, got
<1>9. InPlace(ts, ps, got)
  BY <1>7, <1>8 DEF InPlace
<1> QED BY <1>9 DEF array, got

-----------------------------------------------------------------------------
(* Results.                                                                *)

ErrorValues == {NULL} \cup {<<"integer", c>> : c \in Codes}

\* The error of a response is the one the function set, whatever its code.
LEMMA ErrorThrough ==
  ASSUME NEW ret, NEW error \in ErrorValues
  PROVE  handle_ret_common(searpc_marshal_set_ret_common(ret, error))
           = IF error = NULL THEN Pending ELSE Error(error[2])
<1> DEFINE m == searpc_marshal_set_ret_common(ret, error)
<1>1. DOMAIN m = (IF ret = NULL THEN {} ELSE {"ret"})
                   \cup (IF error = NULL THEN {} ELSE {"err_code"})
  BY DEF searpc_marshal_set_ret_common
<1>2. CASE error = NULL
  <2>1. "err_code" \notin DOMAIN m
    BY <1>1, <1>2
  <2> HIDE DEF m
  <2> QED BY <1>2, <2>1 DEF handle_ret_common, m
<1>3. CASE error # NULL
  <2>1. PICK c \in Codes : error = <<"integer", c>>
    BY <1>3 DEF ErrorValues
  <2>2. c \in (-IntSpan)..(IntSpan - 1)
    BY CallsAssumption
  <2>3. json_integer(c) = <<"integer", c>> /\ Signed(c, IntSpan) = c
    BY <2>2, SignedThroughJson
  <2>4. "err_code" \in DOMAIN m
    BY <1>1, <1>3
  <2>5. m["err_code"] = json_integer(error[2])
    BY <2>4 DEF searpc_marshal_set_ret_common
  <2>6. error[2] = c
    BY <2>1
  <2> HIDE DEF m
  <2>7. json_integer_value(m["err_code"]) = c
    BY <2>3, <2>5, <2>6 DEF json_integer_value
  <2> QED BY <1>3, <2>3, <2>4, <2>6, <2>7 DEF handle_ret_common, m
<1> QED BY <1>2, <1>3

\* Without an error, the value the client makes of a response is the value
\* that was returned, as far as it survives.
LEMMA ValueThrough ==
  ASSUME NEW type \in RetTypes, NEW r \in Results(type)
  PROVE  fret(type, r.cls, searpc_marshal_set_ret_common(
                             searpc_set_to_ret_object(type, r.cls, r.ret), NULL))
           = Expected(type, r)
<1> DEFINE ret  == searpc_set_to_ret_object(type, r.cls, r.ret)
           m    == searpc_marshal_set_ret_common(ret, NULL)
           node == IF "ret" \in DOMAIN m THEN m["ret"] ELSE NULL
<1>1. node = ret
  <2> HIDE DEF ret
  <2>1. DOMAIN m = IF ret = NULL THEN {} ELSE {"ret"}
    BY DEF searpc_marshal_set_ret_common
  <2>2. ret # NULL => m["ret"] = ret
    BY <2>1 DEF searpc_marshal_set_ret_common
  <2> HIDE DEF m
  <2> QED BY <2>1, <2>2
<1>2. /\ type = "int"    => fret(type, r.cls, m) = <<"integer", Signed(json_integer_value(node), IntSpan)>>
      /\ type = "int64"  => fret(type, r.cls, m) = <<"integer", json_integer_value(node)>>
      /\ type = "string" => fret(type, r.cls, m) = json_string_value(node)
      /\ type = "object" => fret(type, r.cls, m) =
           IF node = null THEN NULL ELSE <<"object", json_gobject_deserialize(r.cls, node)>>
      /\ type = "objlist" => fret(type, r.cls, m) =
           IF node = null THEN NULL
           ELSE <<"array", [i \in DOMAIN node[2] |-> json_gobject_deserialize(r.cls, node[2][i])]>>
      /\ type = "json" => fret(type, r.cls, m) = IF node = null THEN NULL ELSE node
  <2> HIDE DEF m
  <2> QED BY DEF fret
<1>3. SUFFICES fret(type, r.cls, m) = Expected(type, r)
  OBVIOUS
<1> HIDE DEF m, node, ret
<1>n. null # NULL
  BY DEF null, NULL
<1>4. CASE r.ret = NULL
  <2>1. ret = null
    BY <1>4 DEF ret, searpc_set_to_ret_object
  <2>2. Expected(type, r) = NULL
    BY <1>4 DEF Expected
  <2>3. type \notin {"int", "int64"}
    BY <1>4, CallsAssumption DEF SignedInts, NULL
  <2>4. json_string_value(null) = NULL
    BY DEF json_string_value, null
  <2> QED BY <1>1, <1>2, <2>1, <2>2, <2>3, <2>4 DEF RetTypes
<1>5. CASE r.ret # NULL /\ type = "int"
  <2>1. PICK n \in (-IntSpan)..(IntSpan - 1) : r.ret = <<"integer", n>>
    BY <1>5, CallsAssumption DEF SignedInts
  <2>2. json_integer(n) = <<"integer", n>> /\ Signed(n, IntSpan) = n
    BY SignedThroughJson
  <2>3. r.ret[2] = n /\ r.ret \notin {NULL, null, <<"string", "bad">>}
    BY <2>1 DEF NULL, null
  <2>4. ret = <<"integer", n>>
    BY <1>5, <2>2, <2>3 DEF ret, searpc_set_to_ret_object
  <2>5. json_integer_value(ret) = n
    BY <2>4 DEF json_integer_value
  <2>6. Expected(type, r) = r.ret
    BY <1>5, <2>3 DEF Expected
  <2> QED BY <1>1, <1>2, <1>5, <2>1, <2>2, <2>5, <2>6
<1>6. CASE r.ret # NULL /\ type = "int64"
  <2>1. PICK n \in (-LongSpan)..(LongSpan - 1) : r.ret = <<"integer", n>>
    BY <1>6, CallsAssumption DEF SignedInts
  <2>2. json_integer(n) = <<"integer", n>>
    BY SignedThroughJson
  <2>3. r.ret[2] = n /\ r.ret \notin {NULL, null, <<"string", "bad">>}
    BY <2>1 DEF NULL, null
  <2>4. ret = <<"integer", n>>
    BY <1>6, <2>2, <2>3 DEF ret, searpc_set_to_ret_object
  <2>5. json_integer_value(ret) = n
    BY <2>4 DEF json_integer_value
  <2>6. Expected(type, r) = r.ret
    BY <1>6, <2>3 DEF Expected
  <2> QED BY <1>1, <1>2, <1>6, <2>1, <2>5, <2>6
<1>7. CASE r.ret # NULL /\ type = "string"
  <2>1. PICK x : r.ret = <<"string", x>>
    <3> DEFINE S == STRING
    <3>1. r.ret \in {"string"} \X S
      BY <1>7, CallsAssumption DEF Strings
    <3> HIDE DEF S
    <3> QED BY <3>1, PairOf
  <2>2. r.ret[2] = x /\ r.ret # null /\ (r.ret = <<"string", "bad">> <=> x = "bad")
    BY <2>1 DEF null
  <2>3. ret = json_string(x)
    BY <1>7, <2>2 DEF ret, searpc_set_to_ret_object
  <2>4. CASE x = "bad"
    <3>1. ret = NULL /\ json_string_value(NULL) = NULL
      BY <2>3, <2>4 DEF json_string, json_string_value, NULL
    <3>2. Expected(type, r) = NULL
      BY <2>2, <2>4 DEF Expected
    <3> QED BY <1>1, <1>2, <1>7, <3>1, <3>2
  <2>5. CASE x # "bad"
    <3>1. ret = r.ret
      BY <2>1, <2>3, <2>5 DEF json_string
    <3>2. json_string_value(r.ret) = r.ret
      BY <2>1 DEF json_string_value
    <3>3. Expected(type, r) = r.ret
      BY <1>7, <2>2, <2>5 DEF Expected
    <3> QED BY <1>1, <1>2, <1>7, <3>1, <3>2, <3>3
  <2> QED BY <2>4, <2>5
<1>8. CASE r.ret # NULL /\ type = "json"
  <2>1. ret = r.ret
    BY <1>8 DEF ret, searpc_set_to_ret_object
  <2>2. r.ret # <<"string", "bad">>
    BY <1>8, CallsAssumption DEF Utf8
  <2>3. Expected(type, r) = IF r.ret = null THEN NULL ELSE r.ret
    BY <1>8, <2>2 DEF Expected
  <2> QED BY <1>1, <1>2, <1>8, <2>1, <2>3
<1>9. CASE r.ret # NULL /\ type = "object"
  <2>1. r.ret[1] = "object" /\ ObjectsOf(r.cls, r.ret[2])
    BY <1>9, CallsAssumption
  <2> DEFINE objs == r.ret[2]
  <2>2. r.ret \notin {NULL, null, <<"string", "bad">>}
    BY <2>1 DEF NULL, null
  <2>3. ret = json_gobject_serialize(r.cls, objs)
    BY <1>9 DEF ret, searpc_set_to_ret_object
  <2>4. ret # null
    BY <2>3 DEF json_gobject_serialize, null
  <2>5. json_gobject_deserialize(r.cls, ret) = Survives(r.cls, objs)
    BY <2>1, <2>3, ObjectsSurvive
  <2>6. Expected(type, r) = <<"object", Survives(r.cls, objs)>>
    BY <1>9, <2>2 DEF Expected
  <2> HIDE DEF objs
  <2> QED BY <1>1, <1>2, <1>9, <2>4, <2>5, <2>6
<1>10. CASE r.ret # NULL /\ type = "objlist"
  <2>1. r.ret[1] = "array" /\ \A i \in DOMAIN r.ret[2] : ObjectsOf(r.cls, r.ret[2][i])
    BY <1>10, CallsAssumption
  <2> DEFINE list == r.ret[2]
             nodes == [i \in DOMAIN list |-> json_gobject_serialize(r.cls, list[i])]
  <2>2. r.ret \notin {NULL, null, <<"string", "bad">>}
    BY <2>1 DEF NULL, null
  <2>3. ret = <<"array", nodes>>
    BY <1>10 DEF ret, searpc_set_to_ret_object
  <2>4. Expected(type, r) = <<"array", [i \in DOMAIN list |-> Survives(r.cls, list[i])]>>
    BY <1>10, <2>2 DEF Expected
  <2>5. \A i \in DOMAIN list : ObjectsOf(r.cls, list[i])
    BY <2>1
  <2> HIDE DEF list
  <2>6. \A i \in DOMAIN list : json_gobject_deserialize(r.cls, nodes[i]) = Survives(r.cls, list[i])
    BY <2>5, ObjectsSurvive
  <2>7. DOMAIN nodes = DOMAIN list
    OBVIOUS
  <2> HIDE DEF nodes
  <2>8. ret # null /\ ret[2] = nodes
    BY <2>3 DEF null
  <2>9. [i \in DOMAIN nodes |-> json_gobject_deserialize(r.cls, nodes[i])]
          = [i \in DOMAIN list |-> Survives(r.cls, list[i])]
    BY <2>6, <2>7
  <2> QED BY <1>1, <1>2, <1>10, <2>4, <2>8, <2>9
<1> QED BY <1>4, <1>5, <1>6, <1>7, <1>8, <1>9, <1>10 DEF RetTypes

-----------------------------------------------------------------------------
(* The calls.                                                              *)

\* Every variable of the calls is a function of them.
Shapes ==
  /\ DOMAIN stage = Calls /\ DOMAIN api = Calls /\ DOMAIN outcome = Calls
  /\ DOMAIN types = Calls /\ DOMAIN params = Calls /\ DOMAIN received = Calls
  /\ DOMAIN want = Calls /\ DOMAIN returned = Calls /\ DOMAIN reply = Calls

\* What the application has passed.
Passed(k) ==
  /\ want[k] \in RetTypes
  /\ types[k] \in Seq(ParamTypes) /\ params[k] \in ParamLists(types[k])

\* What the marshal took from the request, called the function with, got from
\* it and made of that.
Answered(k) ==
  /\ InPlace(types[k], params[k], received[k])
  /\ returned[k].error \in ErrorValues
  /\ \E r \in Results(want[k]) : returned[k].cls = r.cls /\ returned[k].ret = r.ret
  /\ reply[k].members = searpc_marshal_set_ret_common(
       searpc_set_to_ret_object(want[k], returned[k].cls, returned[k].ret), returned[k].error)

\* What is known of a call at each stage.
StageOK(k) ==
  /\ stage[k] \in {"new", "sent"} => reply[k].kind = "none"
  /\ stage[k] \in {"sent", "served"} => Passed(k)
  /\ stage[k] = "served" /\ reply[k].kind = "json" => Answered(k)
  /\ (api[k] = "call" => want[k] # "string") => Arrived(k)

DataInv == Shapes /\ \A k \in Calls : StageOK(k)

\* What the client makes of the response of a marshal, read with its length.
LEMMA DecodedRight ==
  ASSUME NEW k \in Calls, Passed(k), Answered(k), reply[k].kind = "json"
  PROVE  Decoded(k, reply[k], TRUE)
           = IF returned[k].error # NULL THEN Error(returned[k].error[2])
             ELSE Value(Expected(want[k], returned[k]))
<1> DEFINE type  == want[k]
           error == returned[k].error
           m     == reply[k].members
<1>1. PICK r \in Results(type) : returned[k].cls = r.cls /\ returned[k].ret = r.ret
  BY DEF Answered
<1>2. /\ m = searpc_marshal_set_ret_common(searpc_set_to_ret_object(type, r.cls, r.ret), error)
      /\ error \in ErrorValues /\ type \in RetTypes
  BY <1>1 DEF Answered, Passed
<1>3. Expected(type, returned[k]) = Expected(type, r)
  BY <1>1 DEF Expected
<1>4. reply[k].kind # "garbage"
  OBVIOUS
<1>5. Decoded(k, reply[k], TRUE) = IF handle_ret_common(m) # Pending THEN handle_ret_common(m)
                                   ELSE Value(fret(type, returned[k].cls, m))
  BY <1>4 DEF Decoded
<1> HIDE DEF type, error, m
<1>6. handle_ret_common(m) = IF error = NULL THEN Pending ELSE Error(error[2])
  BY <1>2, ErrorThrough
<1>7. CASE error # NULL
  <2>1. Error(error[2]) # Pending
    BY DEF Error, Pending
  <2> QED BY <1>5, <1>6, <1>7, <2>1 DEF error
<1>8. CASE error = NULL
  <2>1. fret(type, r.cls, m) = Expected(type, r)
    BY <1>2, <1>8, ValueThrough
  <2> QED BY <1>1, <1>3, <1>5, <1>6, <1>8, <2>1 DEF error, type
<1> QED BY <1>7, <1>8

\* Before any call is made.
LEMMA InitData == CallInit => DataInv
<1> SUFFICES ASSUME CallInit PROVE DataInv
  OBVIOUS
<1>1. Shapes
  BY DEF CallInit, Shapes
<1>2. ASSUME NEW k \in Calls PROVE StageOK(k)
  <2>1. stage[k] = "new" /\ reply[k] = NoText
    BY DEF CallInit
  <2> QED BY <2>1 DEF StageOK, Arrived, NoText, Text
<1> QED BY <1>1, <1>2 DEF DataInv

\* A call depends on its own data alone.
LEMMA OtherData ==
  ASSUME DataInv, NEW j \in Calls,
         stage'[j] = stage[j], api'[j] = api[j], types'[j] = types[j], params'[j] = params[j],
         received'[j] = received[j], want'[j] = want[j], returned'[j] = returned[j],
         reply'[j] = reply[j], outcome'[j] = outcome[j]
  PROVE  StageOK(j)'
<1>1. StageOK(j)
  BY DEF DataInv
<1> QED BY <1>1 DEF StageOK, Passed, Answered, Arrived

\* A call is made.
LEMMA CallData ==
  ASSUME DataInv, NEW k \in Calls, NEW a, NEW f \in FuncTable, NEW ps \in ParamLists(f.args),
         searpc_client_call(k, a, f.ret, f.args, ps)
  PROVE  DataInv'
<1>s. Shapes /\ StageOK(k)
  BY DEF DataInv
<1>1. Shapes'
  BY <1>s DEF searpc_client_call, Shapes
<1>2. ASSUME NEW j \in Calls PROVE StageOK(j)'
  <2>1. CASE j = k
    <3>1. f.ret \in RetTypes /\ f.args \in Seq(ParamTypes)
      BY CallsAssumption
    <3>2. Passed(k)'
      BY <1>s, <3>1 DEF searpc_client_call, Passed, Shapes
    <3>3. stage'[k] = "sent" /\ reply'[k].kind = "none"
      BY <1>s DEF searpc_client_call, StageOK, Shapes
    <3> QED BY <2>1, <3>2, <3>3 DEF StageOK, Arrived
  <2>2. CASE j # k
    BY <1>s, <2>2, OtherData DEF searpc_client_call, Shapes
  <2> QED BY <2>1, <2>2
<1> QED BY <1>1, <1>2 DEF DataInv

\* A parameter has an unknown type.
LEMMA BadParamData ==
  ASSUME DataInv, NEW k \in Calls, NEW a, searpc_client_call_BadParam(k, a)
  PROVE  DataInv'
<1>s. Shapes /\ StageOK(k)
  BY DEF DataInv
<1>1. Shapes'
  BY <1>s DEF searpc_client_call_BadParam, Shapes, dataVars
<1>2. ASSUME NEW j \in Calls PROVE StageOK(j)'
  <2>1. CASE j = k
    <3>1. stage'[k] = "done" /\ reply'[k].kind = "none"
      BY <1>s DEF searpc_client_call_BadParam, StageOK, Shapes, dataVars
    <3> QED BY <2>1, <3>1 DEF StageOK, Arrived
  <2>2. CASE j # k
    BY <1>s, <2>2, OtherData DEF searpc_client_call_BadParam, Shapes, dataVars
  <2> QED BY <2>1, <2>2
<1> QED BY <1>1, <1>2 DEF DataInv

\* The marshal takes the parameters, and makes the response.
LEMMA MarshalData ==
  ASSUME DataInv, NEW k \in Calls, NEW r \in Results(want[k]), NEW e \in ErrorValues,
         marshal(k, r.cls, r.ret, e)
  PROVE  DataInv'
<1>s. Shapes /\ StageOK(k)
  BY DEF DataInv
<1>1. Shapes'
  BY <1>s DEF marshal, Shapes
<1>2. ASSUME NEW j \in Calls PROVE StageOK(j)'
  <2>1. CASE j = k
    <3>1. Passed(k)
      BY <1>s DEF marshal, InTransport, StageOK
    <3>2. Passed(k)' /\ stage'[k] = "served"
      BY <1>s, <3>1 DEF marshal, Passed, Shapes
    <3>3. UNCHANGED <<types, params, want>>
      BY DEF marshal
    <3>4. received'[k] = [i \in DOMAIN types[k] |->
            json_array_get_element(types[k][i], fcall_to_str(types[k], params[k]), i)]
      BY <1>s DEF marshal, Shapes
    <3>5. InPlace(types[k], params[k], received'[k])
      BY <3>1, <3>4, ParamsThrough DEF Passed
    <3>6. /\ returned'[k].cls = r.cls /\ returned'[k].ret = r.ret /\ returned'[k].error = e
          /\ reply'[k].members = searpc_marshal_set_ret_common(
                                   searpc_set_to_ret_object(want[k], r.cls, r.ret), e)
      BY <1>s DEF marshal, Shapes, Text
    <3>7. Answered(k)'
      BY <3>3, <3>5, <3>6 DEF Answered
    <3> QED BY <2>1, <3>2, <3>7 DEF StageOK, Arrived
  <2>2. CASE j # k
    BY <1>s, <2>2, OtherData DEF marshal, Shapes
  <2> QED BY <2>1, <2>2
<1> QED BY <1>1, <1>2 DEF DataInv

\* The transport fails.
LEMMA FailData ==
  ASSUME DataInv, NEW k \in Calls, NEW kind \in {"failed", "garbage"}, TransportFails(k, kind)
  PROVE  DataInv'
<1>s. Shapes /\ StageOK(k)
  BY DEF DataInv
<1>1. Shapes'
  BY <1>s DEF TransportFails, Shapes
<1>2. ASSUME NEW j \in Calls PROVE StageOK(j)'
  <2>1. CASE j = k
    <3>1. Passed(k)
      BY <1>s DEF TransportFails, InTransport, StageOK
    <3>2. Passed(k)' /\ stage'[k] = "served" /\ reply'[k].kind # "json"
      BY <1>s, <3>1 DEF TransportFails, Passed, Shapes, Text
    <3> QED BY <2>1, <3>2 DEF StageOK, Arrived
  <2>2. CASE j # k
    BY <1>s, <2>2, OtherData DEF TransportFails, Shapes
  <2> QED BY <2>1, <2>2
<1> QED BY <1>1, <1>2 DEF DataInv

\* A synchronous call returns.
LEMMA ReturnData ==
  ASSUME DataInv, NEW k \in Calls, searpc_client_call_Return(k)
  PROVE  DataInv'
<1>s. Shapes /\ StageOK(k)
  BY DEF DataInv
<1>1. Shapes'
  BY <1>s DEF searpc_client_call_Return, Shapes, dataVars
<1>2. ASSUME NEW j \in Calls PROVE StageOK(j)'
  <2>1. CASE j = k
    <3>1. stage[k] = "served" /\ stage'[k] = "done" /\ UNCHANGED <<api, want, reply, returned>>
      BY <1>s DEF searpc_client_call_Return, Shapes, dataVars
    <3>2. (api[k] = "call" => want[k] # "string") /\ reply[k].kind = "json"
            => outcome'[k] = Decoded(k, reply[k], TRUE)
      BY <1>s DEF searpc_client_call_Return, Shapes
    <3>3. (api[k] = "call" => want[k] # "string") => Arrived(k)'
      <4>1. SUFFICES ASSUME api[k] = "call" => want[k] # "string", reply[k].kind = "json"
                     PROVE  outcome'[k] = IF returned[k].error # NULL
                                            THEN Error(returned[k].error[2])
                                            ELSE Value(Expected(want[k], returned[k]))
        BY <3>1 DEF Arrived
      <4>2. Passed(k) /\ Answered(k)
        BY <1>s, <3>1, <4>1 DEF StageOK
      <4> QED BY <3>2, <4>1, <4>2, DecodedRight
    <3> QED BY <2>1, <3>1, <3>3 DEF StageOK
  <2>2. CASE j # k
    BY <1>s, <2>2, OtherData DEF searpc_client_call_Return, Shapes, dataVars
  <2> QED BY <2>1, <2>2
<1> QED BY <1>1, <1>2 DEF DataInv

\* The callback of an asynchronous call gets its result.
LEMMA CallbackData ==
  ASSUME DataInv, NEW k \in Calls, generic_callback_Result(k)
  PROVE  DataInv'
<1>s. Shapes /\ StageOK(k)
  BY DEF DataInv
<1>1. Shapes'
  BY <1>s DEF generic_callback_Result, Shapes, dataVars
<1>2. ASSUME NEW j \in Calls PROVE StageOK(j)'
  <2>1. CASE j = k
    <3>1. stage[k] = "served" /\ stage'[k] = "done" /\ UNCHANGED <<api, want, reply, returned>>
      BY <1>s DEF generic_callback_Result, Shapes, dataVars
    <3>2. reply[k].kind = "json" => outcome'[k] = Decoded(k, reply[k], TRUE)
      BY <1>s DEF generic_callback_Result, Shapes
    <3>3. Arrived(k)'
      <4>1. SUFFICES ASSUME reply[k].kind = "json"
                     PROVE  outcome'[k] = IF returned[k].error # NULL
                                            THEN Error(returned[k].error[2])
                                            ELSE Value(Expected(want[k], returned[k]))
        BY <3>1 DEF Arrived
      <4>2. Passed(k) /\ Answered(k)
        BY <1>s, <3>1, <4>1 DEF StageOK
      <4> QED BY <3>2, <4>1, <4>2, DecodedRight
    <3> QED BY <2>1, <3>1, <3>3 DEF StageOK
  <2>2. CASE j # k
    BY <1>s, <2>2, OtherData DEF generic_callback_Result, Shapes, dataVars
  <2> QED BY <2>1, <2>2
<1> QED BY <1>1, <1>2 DEF DataInv

\* Steps that move an asynchronous call without touching its data.
LEMMA UnchangedData ==
  ASSUME DataInv, UNCHANGED callVars
  PROVE  DataInv'
<1>s. Shapes
  BY DEF DataInv
<1>1. Shapes'
  BY <1>s DEF Shapes, callVars, dataVars
<1>2. \A j \in Calls : StageOK(j)'
  BY OtherData DEF callVars, dataVars
<1> QED BY <1>1, <1>2 DEF DataInv

\* The invariant is inductive.
LEMMA DataHolds == CallSpec => []DataInv
<1>1. DataInv /\ UNCHANGED allVars => DataInv'
  BY UnchangedData DEF allVars
<1>2. ASSUME DataInv, CallNext PROVE DataInv'
  <2>1. PICK k \in Calls :
          \/ \E a \in Synchronous \cup {"async"} :
               \/ searpc_client_call_BadParam(k, a)
               \/ \E f \in FuncTable : \E ps \in ParamLists(f.args) :
                    searpc_client_call(k, a, f.ret, f.args, ps)
          \/ async_send(k)
          \/ \E r \in Results(want[k]), e \in ErrorValues : marshal(k, r.cls, r.ret, e)
          \/ \E kind \in {"failed", "garbage"} : TransportFails(k, kind)
          \/ searpc_client_call_Return(k)
          \/ generic_callback_Result(k) \/ generic_callback_Rest(k)
    BY <1>2 DEF CallNext, ErrorValues
  <2>2. CASE \E a \in Synchronous \cup {"async"} : searpc_client_call_BadParam(k, a)
    BY <1>2, <2>2, BadParamData
  <2>3. CASE \E a \in Synchronous \cup {"async"} : \E f \in FuncTable :
               \E ps \in ParamLists(f.args) : searpc_client_call(k, a, f.ret, f.args, ps)
    BY <1>2, <2>3, CallData
  <2>4. CASE async_send(k) \/ generic_callback_Rest(k)
    BY <1>2, <2>4, UnchangedData DEF async_send, generic_callback_Rest
  <2>5. CASE \E r \in Results(want[k]), e \in ErrorValues : marshal(k, r.cls, r.ret, e)
    BY <1>2, <2>5, MarshalData
  <2>6. CASE \E kind \in {"failed", "garbage"} : TransportFails(k, kind)
    BY <1>2, <2>6, FailData
  <2>7. CASE searpc_client_call_Return(k)
    BY <1>2, <2>7, ReturnData
  <2>8. CASE generic_callback_Result(k)
    BY <1>2, <2>8, CallbackData
  <2> QED BY <2>1, <2>2, <2>3, <2>4, <2>5, <2>6, <2>7, <2>8
<1> QED BY InitData, <1>1, <1>2, PTL DEF CallSpec

\* The function gets the parameters that were passed, each in its place and
\* with its value, and after a string that is not UTF-8 as many places earlier:
\* for every width of the integers and every list of parameters.
THEOREM ParametersArrive == CallSpec => []ParamsArrive
<1>1. DataInv => ParamsArrive
  BY DEF DataInv, StageOK, Answered, InPlace, ParamsArrive
<1> QED BY DataHolds, <1>1, PTL

\* The caller, or the callback, gets the error the function set or the value
\* it returned: for every width of the integers, every class, and objects that
\* hold objects to any depth.
THEOREM ResultsArrive == CallSpec => []ResultArrives
<1>1. DataInv => ResultArrives
  BY DEF DataInv, StageOK, ResultArrives
<1> QED BY DataHolds, <1>1, PTL

\* A call with its data is a call of AsyncClient: what the client makes of a
\* response is one of the responses AsyncClient knows, and a call of a
\* synchronous function is no step of it.
THEOREM CallsRefineAsync == CallSpec => Spec
<1>1. CallInit => Init
  BY DEF CallInit
<1>2. UNCHANGED allVars => UNCHANGED vars
  BY DEF allVars
<1>3. ASSUME CallNext PROVE Next \/ UNCHANGED vars
  <2>1. PICK k \in Calls :
          \/ \E a \in Synchronous \cup {"async"} :
               \/ searpc_client_call_BadParam(k, a)
               \/ \E f \in FuncTable : \E ps \in ParamLists(f.args) :
                    searpc_client_call(k, a, f.ret, f.args, ps)
          \/ async_send(k)
          \/ \E r \in Results(want[k]), e \in ErrorValues : marshal(k, r.cls, r.ret, e)
          \/ \E kind \in {"failed", "garbage"} : TransportFails(k, kind)
          \/ searpc_client_call_Return(k)
          \/ generic_callback_Result(k) \/ generic_callback_Rest(k)
    BY <1>3 DEF CallNext, ErrorValues
  <2>2. CASE \E a \in Synchronous \cup {"async"} : searpc_client_call_BadParam(k, a)
    BY <2>2 DEF searpc_client_call_BadParam, Next, async_call
  <2>3. CASE \E a \in Synchronous \cup {"async"} : \E f \in FuncTable :
               \E ps \in ParamLists(f.args) : searpc_client_call(k, a, f.ret, f.args, ps)
    <3>1. PICK f \in FuncTable : \E a, ps : searpc_client_call(k, a, f.ret, f.args, ps)
      BY <2>3
    <3>2. PICK a, ps : searpc_client_call(k, a, f.ret, f.args, ps)
      BY <3>1
    <3>3. f.ret \in RetTypes
      BY CallsAssumption
    <3> QED BY <3>2, <3>3 DEF searpc_client_call, Next, async_call
  <2>4. CASE async_send(k)
    BY <2>4 DEF async_send, Next, async_call
  <2>5. CASE generic_callback_Rest(k)
    BY <2>5 DEF generic_callback_Rest, Next, generic_callback
  <2>6. CASE \E r \in Results(want[k]), e \in ErrorValues : marshal(k, r.cls, r.ret, e)
    BY <2>6 DEF marshal
  <2>7. CASE \E kind \in {"failed", "garbage"} : TransportFails(k, kind)
    BY <2>7 DEF TransportFails
  <2>8. CASE searpc_client_call_Return(k)
    BY <2>8 DEF searpc_client_call_Return
  <2>9. CASE generic_callback_Result(k)
    <3>1. Class(k) \in Responses
      BY DEF Class, Responses
    <3>2. generic_callback_Decode(k, Class(k))
      BY <2>9 DEF generic_callback_Result
    <3> QED BY <3>1, <3>2 DEF Next, generic_callback
  <2> QED BY <2>1, <2>2, <2>3, <2>4, <2>5, <2>6, <2>7, <2>8, <2>9
<1> QED BY <1>1, <1>2, <1>3, PTL DEF CallSpec, Spec

\* So the calls of ClientCalls, whatever responses their data make, keep the
\* promises of AsyncClient.
THEOREM CallsOwnData == CallSpec => [](TypeOK /\ CallDataOwned /\ TextFreedByBoth)
  BY CallsRefineAsync, TypeCorrect, DataFreedOnce, TextIsFreedByBoth, PTL
==============================================================================
