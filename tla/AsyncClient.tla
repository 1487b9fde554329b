----------------------------- MODULE AsyncClient -----------------------------
(***************************************************************************)
(* Asynchronous calls (lib/searpc-client.c:338-547): who owns, and who     *)
(* frees, the request text, the AsyncCallData, the result and the GError.  *)
(*                                                                         *)
(* The transport is the application's.  client->async_send refuses a call  *)
(* with -1 or accepts it, keeps the AsyncCallData and hands it once to     *)
(* searpc_client_generic_callback: later, from another thread while        *)
(* async_send has not returned, or inside async_send, as the transport of  *)
(* tests/searpc.c does.  It has copied the request text when it accepts,   *)
(* and may free it: searpc-client.h:28-29 asks that of the sender.         *)
(***************************************************************************)
EXTENDS Naturals

CONSTANTS
  Calls,          \* the calls an application makes
  AppFreesError   \* its callbacks free the GError, as the one of tests/searpc.c

ASSUME AsyncAssumption == AppFreesError \in BOOLEAN

VARIABLES
  pc,            \* where each call is in searpc_client_async_call_v
  cbpc,          \* where its searpc_client_generic_callback is
  accepted,      \* the transport has accepted it
  sender_freed,  \* the transport has freed its text
  ret_type,      \* data->ret_type
  response,      \* what the transport received for it
  heap           \* what each call has on the heap

vars == <<pc, cbpc, accepted, sender_freed, ret_type, response, heap>>

RetTypes == {"int", "int64", "string", "object", "objlist", "json"}

\* The results of these types are allocated; the others are on the stack of
\* searpc_client_generic_callback.
HeapTypes == {"string", "object", "objlist", "json"}

\* "errstr"     the transport reports an error of its own
\* "malformed"  the response is not JSON     "err_code"  it is an RPC error
\* "null"       there is no ret, or null     "value"     ret is a value
Responses == {"errstr", "malformed", "err_code", "null", "value"}

Objects == {"fstr", "data", "result", "error"}

\* "none" is NULL, "twice" is an object that was freed when it was not live.
HeapStates == {"none", "live", "freed", "twice"}

TypeOK ==
  /\ pc \in [Calls -> {"new", "sending", "accepted", "refused", "zero", "minus_one"}]
  /\ cbpc \in [Calls -> {"none", "callback", "clean", "done"}]
  /\ accepted \in [Calls -> BOOLEAN] /\ sender_freed \in [Calls -> BOOLEAN]
  /\ ret_type \in [Calls -> RetTypes \cup {"none"}]
  /\ response \in [Calls -> Responses \cup {"none"}]
  /\ heap \in [Calls -> [Objects -> HeapStates]]

Init ==
  /\ pc = [k \in Calls |-> "new"]
  /\ cbpc = [k \in Calls |-> "none"]
  /\ accepted = [k \in Calls |-> FALSE] /\ sender_freed = [k \in Calls |-> FALSE]
  /\ ret_type = [k \in Calls |-> "none"]
  /\ response = [k \in Calls |-> "none"]
  /\ heap = [k \in Calls |-> [o \in Objects |-> "none"]]

\* What becomes of objects that are allocated and freed; freeing NULL is
\* nothing.
Allocated(h, os) == [o \in Objects |-> IF o \in os THEN "live" ELSE h[o]]

Freed(h, os) ==
  [o \in Objects |-> IF o \notin os \/ h[o] = "none" THEN h[o]
                     ELSE IF h[o] = "live" THEN "freed" ELSE "twice"]

-----------------------------------------------------------------------------
(* searpc_client_async_call_v.                                             *)

\* fcall_to_str fails on a parameter of an unknown type.
async_call_v_BadParam(k) ==
  /\ pc[k] = "new"
  /\ pc' = [pc EXCEPT ![k] = "minus_one"]
  /\ UNCHANGED <<cbpc, accepted, sender_freed, ret_type, response, heap>>

\* MUTANT of async_call_v_Send: data->ret_type is not assigned.
Send_NoRetType(k, type) ==
  /\ pc[k] = "new"
  /\ pc' = [pc EXCEPT ![k] = "sending"]
  /\ heap' = [heap EXCEPT ![k] = Allocated(@, {"fstr", "data"})]
  /\ ret_type' = [ret_type EXCEPT ![k] = "uninitialised"]
  /\ UNCHANGED <<cbpc, accepted, sender_freed, response>>

\* The text and the AsyncCallData are made for a call of one of the six types,
\* and async_send is called.
async_call_v_Send(k, type) ==
  /\ pc[k] = "new"
  /\ pc' = [pc EXCEPT ![k] = "sending"]
  /\ heap' = [heap EXCEPT ![k] = Allocated(@, {"fstr", "data"})]
  /\ ret_type' = [ret_type EXCEPT ![k] = type]
  /\ UNCHANGED <<cbpc, accepted, sender_freed, response>>

\* The transport accepts the call: from here on it may call back.
async_send_Accept(k) ==
  /\ pc[k] = "sending" /\ ~accepted[k]
  /\ accepted' = [accepted EXCEPT ![k] = TRUE]
  /\ UNCHANGED <<pc, cbpc, sender_freed, ret_type, response, heap>>

\* The transport frees the text: before async_send returns, or later if it has
\* accepted the call.
async_send_FreeText(k) ==
  /\ pc[k] = "sending" \/ accepted[k]
  /\ ~sender_freed[k]
  /\ sender_freed' = [sender_freed EXCEPT ![k] = TRUE]
  /\ heap' = [heap EXCEPT ![k] = Freed(@, {"fstr"})]
  /\ UNCHANGED <<pc, cbpc, accepted, ret_type, response>>

\* async_send returns 0 for a call it has accepted, else -1.
async_send_Returns(k) ==
  /\ pc[k] = "sending"
  /\ pc' = [pc EXCEPT ![k] = IF accepted[k] THEN "accepted" ELSE "refused"]
  /\ UNCHANGED <<cbpc, accepted, sender_freed, ret_type, response, heap>>

\* MUTANT of async_call_v_Return: the data is freed whatever async_send returned.
Return_FreesData(k) ==
  /\ pc[k] \in {"accepted", "refused"}
  /\ heap' = [heap EXCEPT ![k] = Freed(@, {"fstr", "data"})]
  /\ pc' = [pc EXCEPT ![k] = IF @ = "refused" THEN "minus_one" ELSE "zero"]
  /\ UNCHANGED <<cbpc, accepted, sender_freed, ret_type, response>>

\* MUTANT of async_call_v_Return: a refused call leaves early, with its text.
Return_KeepsText(k) ==
  /\ pc[k] \in {"accepted", "refused"}
  /\ heap' = [heap EXCEPT ![k] =
                Freed(@, IF pc[k] = "refused" THEN {"data"} ELSE {"fstr"})]
  /\ pc' = [pc EXCEPT ![k] = IF @ = "refused" THEN "minus_one" ELSE "zero"]
  /\ UNCHANGED <<cbpc, accepted, sender_freed, ret_type, response>>

\* The text is freed, and the data if async_send returned -1.
async_call_v_Return(k) ==
  /\ pc[k] \in {"accepted", "refused"}
  /\ heap' = [heap EXCEPT ![k] =
                Freed(@, IF pc[k] = "refused" THEN {"fstr", "data"} ELSE {"fstr"})]
  /\ pc' = [pc EXCEPT ![k] = IF @ = "refused" THEN "minus_one" ELSE "zero"]
  /\ UNCHANGED <<cbpc, accepted, sender_freed, ret_type, response>>

-----------------------------------------------------------------------------
(* searpc_client_generic_callback.                                         *)

\* What the fret function of a type makes of a response: an allocated result,
\* an error, or neither.  json_gobject_deserialize makes an object of any node,
\* so that no element of a list is an error.
Fret(type, r) ==
  CASE r \in {"malformed", "err_code"}   -> {"error"}
    [] r = "value" /\ type \in HeapTypes -> {"result"}
    [] OTHER                             -> {}

\* The transport calls back: the error is made, or the response is decoded.
generic_callback_Decode(k, r) ==
  /\ accepted[k] /\ cbpc[k] = "none"
  /\ response' = [response EXCEPT ![k] = r]
  /\ heap' = [heap EXCEPT ![k] =
                Allocated(@, IF r = "errstr" THEN {"error"} ELSE Fret(ret_type[k], r))]
  /\ cbpc' = [cbpc EXCEPT ![k] = "callback"]
  /\ UNCHANGED <<pc, accepted, sender_freed, ret_type>>

\* data->callback runs.
generic_callback_Callback(k) ==
  /\ cbpc[k] = "callback"
  /\ heap' = [heap EXCEPT ![k] = Freed(@, IF AppFreesError THEN {"error"} ELSE {})]
  /\ cbpc' = [cbpc EXCEPT ![k] = "clean"]
  /\ UNCHANGED <<pc, accepted, sender_freed, ret_type, response>>

\* The error is freed after a transport error, else the result by its type;
\* the data in any case.
generic_callback_Clean(k) ==
  /\ cbpc[k] = "clean"
  /\ heap' = [heap EXCEPT ![k] =
                Freed(@, {"data", IF response[k] = "errstr" THEN "error" ELSE "result"})]
  /\ cbpc' = [cbpc EXCEPT ![k] = "done"]
  /\ UNCHANGED <<pc, accepted, sender_freed, ret_type, response>>

\* searpc_client_async_call__int and its siblings.
async_call(k) ==
  \/ async_call_v_BadParam(k)
  \/ \E type \in RetTypes : async_call_v_Send(k, type)
  \/ async_send_Accept(k) \/ async_send_FreeText(k) \/ async_send_Returns(k)
  \/ async_call_v_Return(k)

generic_callback(k) ==
  \/ \E r \in Responses : generic_callback_Decode(k, r)
  \/ generic_callback_Callback(k) \/ generic_callback_Clean(k)

Next == \E k \in Calls : async_call(k) \/ generic_callback(k)

Spec == Init /\ [][Next]_vars

-----------------------------------------------------------------------------
(* Properties.                                                             *)

\* Nothing of the call is used any more.
Over(k) == pc[k] \in {"zero", "minus_one"} /\ (accepted[k] => cbpc[k] = "done")

\* The AsyncCallData is alive as long as the transport or the callback may use
\* it, in whatever order async_send and the callback return, and it and the
\* result are freed exactly once (searpc-client.c:356-395, 417-433).  Of the text
\* see TextFreedByBoth.
CallDataOwned ==
  \A k \in Calls :
    /\ accepted[k] /\ cbpc[k] # "done" => heap[k]["data"] = "live"
    /\ cbpc[k] \in {"callback", "clean"} => heap[k]["result"] # "freed"
    /\ \A o \in {"data", "result"} :
         /\ heap[k][o] # "twice"
         /\ Over(k) => heap[k][o] # "live"

\* The library frees the text of every call when async_send has returned, and
\* frees it once (searpc-client.c:428).  searpc-client.h:28-29 tells the sender
\* to free it too: exactly the transports that do so free it a second time, or
\* have it freed a second time, in whatever order.
TextFreedByBoth ==
  \A k \in Calls : LET returned == pc[k] \in {"zero", "minus_one"} IN
    /\ returned => heap[k]["fstr"] # "live"
    /\ heap[k]["fstr"] = "twice" <=> returned /\ sender_freed[k]

\* The callback of tests/searpc.c:393 frees the error it gets, "g_error_free
\* (error);": then the error of a call is freed once, whatever the failure.
ErrorFreedOnce ==
  \A k \in Calls :
    /\ heap[k]["error"] # "twice"
    /\ Over(k) => heap[k]["error"] # "live"
==============================================================================
