----------------------------- MODULE ClientCalls -----------------------------
(***************************************************************************)
(* A call from end to end: the client packs the parameters, a generated    *)
(* marshal unpacks them, runs the function and packs its result, and the   *)
(* client unpacks that (lib/searpc-client.c, with the conversions of        *)
(* GObjectJson).  It is made with the generic searpc_client_call, with the *)
(* function of its type (searpc_client_call__int and its siblings), or      *)
(* asynchronously; then its heap is that of AsyncClient.                    *)
(*                                                                         *)
(* A text is its JSON value; read with a length that is not its own it does *)
(* not parse, or with what lies behind it by chance it does.                *)
(***************************************************************************)
EXTENDS AsyncClient, GObjectJson, FiniteSets

CONSTANTS
  FuncTable,     \* the functions: the types of the result and the parameters
  Params(_),     \* the parameters a caller may pass, for a type
  Results(_),    \* class and value a function may return, for a type
  Codes          \* codes of a GError a function may set

ParamTypes == {"int", "int64", "string", "json"}
Strings    == {NULL} \cup ({"string"} \X STRING)
Utf8(v)    == v # <<"string", "bad">>

\* The types of properties the conversions know, and their GValues in objs.
KnownTypes == IntTypes \cup RealTypes \cup {"STRING", "BOOLEAN", "OBJECT"}

GValues(type, objs) ==
  CASE type \in DOMAIN SignedTypes   -> SignedInts(SignedTypes[type])
    [] type \in DOMAIN UnsignedTypes -> UnsignedInts(UnsignedTypes[type])
    [] type \in RealTypes            -> {"real"} \X STRING
    [] type = "STRING"               -> Strings
    [] type = "BOOLEAN"              -> {"boolean"} \X BOOLEAN
    [] type = "OBJECT"               -> {NULL} \cup ({"object"} \X DOMAIN objs)

ObjectsOf(cls, objs) ==
  \A q \in DOMAIN objs, p \in DOMAIN cls :
    cls[p].type \in KnownTypes => objs[q][p] \in GValues(cls[p].type, objs)

\* What C's types and jansson's values guarantee of what is passed and returned.
ASSUME CallsAssumption ==
  /\ FuncTable \subseteq [ret : RetTypes, args : Seq(ParamTypes)]
  /\ Params("int") \subseteq SignedInts(IntSpan)
  /\ Params("int64") \subseteq SignedInts(LongSpan)
  /\ Params("string") \subseteq Strings /\ \A v \in Params("json") : Utf8(v)
  /\ \A r \in Results("int") : r.ret \in SignedInts(IntSpan)
  /\ \A r \in Results("int64") : r.ret \in SignedInts(LongSpan)
  /\ \A r \in Results("string") : r.ret \in Strings
  /\ \A r \in Results("json") : Utf8(r.ret)
  /\ \A r \in Results("object") : r.ret # NULL =>
       r.ret[1] = "object" /\ ObjectsOf(r.cls, r.ret[2])
  /\ \A r \in Results("objlist") : r.ret # NULL =>
       r.ret[1] = "array" /\ \A i \in DOMAIN r.ret[2] : ObjectsOf(r.cls, r.ret[2][i])
  /\ Codes \subseteq (-IntSpan)..(IntSpan - 1)

VARIABLES
  stage,      \* "new", "sent", "served", "done"
  api,        \* which function the application calls
  types,      \* the types of the parameters
  params,     \* the parameters passed
  received,   \* those the function got
  want,       \* the type of the result
  returned,   \* class, value and error the function returned
  reply,      \* the response
  outcome     \* what the caller or the callback gets

dataVars == <<types, params, received, want, returned, reply>>
callVars == <<stage, api, dataVars, outcome>>
allVars  == <<vars, callVars>>

Nothing       == [cls |-> NULL, ret |-> NULL, error |-> NULL]
Text(kind, m) == [kind |-> kind, members |-> m]
NoText        == Text("none", [x \in {} |-> null])
Value(v)      == [kind |-> "value", value |-> v]
Error(code)   == [kind |-> "error", value |-> <<"integer", code>>]
Pending       == [kind |-> "pending", value |-> NULL]

TRANSPORT_ERROR_CODE == 500

CallInit ==
  /\ Init
  /\ stage = [k \in Calls |-> "new"] /\ api = [k \in Calls |-> "none"]
  /\ types = [k \in Calls |-> <<>>] /\ params = [k \in Calls |-> <<>>]
  /\ received = [k \in Calls |-> <<>>] /\ want = [k \in Calls |-> "none"]
  /\ returned = [k \in Calls |-> Nothing] /\ reply = [k \in Calls |-> NoText]
  /\ outcome = [k \in Calls |-> Pending]

-----------------------------------------------------------------------------
Synchronous == {"call", "call__type"}

\* The application calls; fcall_to_str packs the parameters.
searpc_client_call(k, a, type, ts, ps) ==
  /\ stage[k] = "new"
  /\ stage' = [stage EXCEPT ![k] = "sent"]
  /\ api' = [api EXCEPT ![k] = a]
  /\ want' = [want EXCEPT ![k] = type]
  /\ types' = [types EXCEPT ![k] = ts]
  /\ params' = [params EXCEPT ![k] = ps]
  /\ IF a = "async" THEN async_call_v_Send(k, type) ELSE UNCHANGED vars
  /\ UNCHANGED <<received, returned, reply, outcome>>

\* A parameter of an unknown type: "Invalid Parameter", or -1.
searpc_client_call_BadParam(k, a) ==
  /\ stage[k] = "new"
  /\ stage' = [stage EXCEPT ![k] = "done"]
  /\ api' = [api EXCEPT ![k] = a]
  /\ outcome' = [outcome EXCEPT ![k] = Error(0)]
  /\ IF a = "async" THEN async_call_v_BadParam(k) ELSE UNCHANGED vars
  /\ UNCHANGED dataVars

\* The transport accepts or refuses an asynchronous call, and may free its text.
async_send(k) ==
  /\ \/ async_send_Accept(k) \/ async_send_FreeText(k)
     \/ async_send_Returns(k) \/ async_call_v_Return(k)
  /\ UNCHANGED callVars

InTransport(k) == stage[k] = "sent" /\ (api[k] = "async" => accepted[k])

\* The generated marshal: it unpacks, calls and packs.
marshal(k, cls, ret, error) ==
  /\ InTransport(k)
  /\ stage' = [stage EXCEPT ![k] = "served"]
  /\ received' = [received EXCEPT ![k] =
       [i \in DOMAIN types[k] |->
          json_array_get_element(types[k][i], fcall_to_str(types[k], params[k]), i)]]
  /\ returned' = [returned EXCEPT ![k] = [cls |-> cls, ret |-> ret, error |-> error]]
  /\ reply' = [reply EXCEPT ![k] =
       Text("json", searpc_marshal_set_ret_common(
                      searpc_set_to_ret_object(want[k], cls, ret), error))]
  /\ UNCHANGED <<vars, api, types, params, want, outcome>>

\* The transport fails (send returns NULL, or the callback gets an errstr), or
\* it brings something that is not JSON.
TransportFails(k, kind) ==
  /\ InTransport(k)
  /\ stage' = [stage EXCEPT ![k] = "served"]
  /\ reply' = [reply EXCEPT ![k] = Text(kind, NoText.members)]
  /\ UNCHANGED <<vars, api, types, params, received, want, returned, outcome>>

-----------------------------------------------------------------------------
(* The fret functions, on a response text that parses.                     *)

\* MUTANT of handle_ret_common: a code of 0 is taken for no error.
handle_ret_common_CodeZero(m) ==
  IF "err_code" \in DOMAIN m /\ json_integer_value(m["err_code"]) # 0
    THEN Error(Signed(json_integer_value(m["err_code"]), IntSpan)) ELSE Pending

\* The error a response contains, if it contains one.
handle_ret_common(m) ==
  IF "err_code" \in DOMAIN m
    THEN Error(Signed(json_integer_value(m["err_code"]), IntSpan)) ELSE Pending

\* The value of "ret", for each type.
fret(type, cls, m) ==
  LET ret == IF "ret" \in DOMAIN m THEN m["ret"] ELSE NULL
  IN CASE type = "int"    -> <<"integer", Signed(json_integer_value(ret), IntSpan)>>
       [] type = "int64"  -> <<"integer", json_integer_value(ret)>>
       [] type = "string" -> json_string_value(ret)
       [] type = "object" ->
            IF ret = null THEN NULL ELSE <<"object", json_gobject_deserialize(cls, ret)>>
       [] type = "objlist" ->
            IF ret = null THEN NULL
            ELSE <<"array", [i \in DOMAIN ret[2] |-> json_gobject_deserialize(cls, ret[2][i])]>>
       [] type = "json"   -> IF ret = null THEN NULL ELSE ret

\* What is made of a response; parsed: its text was read with its length.
Decoded(k, r, parsed) ==
  IF r.kind = "garbage" \/ ~parsed THEN Error(0)
  ELSE IF handle_ret_common(r.members) # Pending THEN handle_ret_common(r.members)
  ELSE Value(fret(want[k], returned[k].cls, r.members))

\* The synchronous functions return.  searpc_client_call passes the length of
\* the request for that of the response if the type is "string".
searpc_client_call_Return(k) ==
  /\ stage[k] = "served" /\ api[k] \in Synchronous
  /\ \E parsed \in IF api[k] = "call" /\ want[k] = "string" THEN BOOLEAN ELSE {TRUE} :
         outcome' = [outcome EXCEPT ![k] =
                       IF reply[k].kind = "failed" THEN Error(TRANSPORT_ERROR_CODE)
                       ELSE Decoded(k, reply[k], parsed)]
  /\ stage' = [stage EXCEPT ![k] = "done"]
  /\ UNCHANGED <<vars, api, dataVars>>

\* What a response is to AsyncClient.
Class(k) ==
  LET d == Decoded(k, reply[k], TRUE)
  IN IF reply[k].kind = "failed"       THEN "errstr"
     ELSE IF reply[k].kind = "garbage" THEN "malformed"
     ELSE IF d.kind = "error"          THEN "err_code"
     ELSE IF d.value = NULL            THEN "null" ELSE "value"

\* The transport calls searpc_client_generic_callback.
generic_callback_Result(k) ==
  /\ stage[k] = "served" /\ api[k] = "async"
  /\ generic_callback_Decode(k, Class(k))
  /\ outcome' = [outcome EXCEPT ![k] =
                   IF reply[k].kind = "failed" THEN Error(TRANSPORT_ERROR_CODE)
                   ELSE Decoded(k, reply[k], TRUE)]
  /\ stage' = [stage EXCEPT ![k] = "done"]
  /\ UNCHANGED <<api, dataVars>>

generic_callback_Rest(k) ==
  /\ generic_callback_Callback(k) \/ generic_callback_Clean(k)
  /\ UNCHANGED callVars

ParamLists(ts) == {ps \in [DOMAIN ts -> UNION {Params(ts[i]) : i \in DOMAIN ts}] :
                     \A i \in DOMAIN ts : ps[i] \in Params(ts[i])}

CallNext ==
  \E k \in Calls :
    \/ \E a \in Synchronous \cup {"async"} :
         \/ searpc_client_call_BadParam(k, a)
         \/ \E f \in FuncTable : \E ps \in ParamLists(f.args) :
              searpc_client_call(k, a, f.ret, f.args, ps)
    \/ async_send(k)
    \/ \E r \in Results(want[k]), e \in {NULL} \cup {<<"integer", c>> : c \in Codes} :
         marshal(k, r.cls, r.ret, e)
    \/ \E kind \in {"failed", "garbage"} : TransportFails(k, kind)
    \/ searpc_client_call_Return(k)
    \/ generic_callback_Result(k) \/ generic_callback_Rest(k)

CallSpec == CallInit /\ [][CallNext]_allVars

-----------------------------------------------------------------------------
\* The place of a parameter among those that are not strings out of UTF-8.
Place(ps, i) == Cardinality({j \in 1..i : Utf8(ps[j])})

\* The function gets the parameters that were passed, each in its place and
\* with its value, a NULL among them included (as JSON's null if it is a json
\* parameter).  A string that is not UTF-8 is left out of the array: those
\* before it are not affected, those after it arrive as many places earlier, if
\* they are of the type that is taken from there, and the last places get 0 or
\* NULL (searpc-client.c:63-95, searpc-utils.h:47-82, searpc-codegen.py:76-81).
ParamsArrive ==
  \A k \in Calls : stage[k] = "served" /\ reply[k].kind = "json" =>
    LET ts == types[k] ps == params[k] IN
    /\ \A i \in DOMAIN ps : Utf8(ps[i]) /\ ts[Place(ps, i)] = ts[i] =>
         received[k][Place(ps, i)] = IF ts[i] = "json" /\ ps[i] = NULL THEN null ELSE ps[i]
    /\ \A i \in DOMAIN ts : i > Place(ps, Len(ts)) =>
         received[k][i] \in {<<"integer", 0>>, NULL}

\* What survives the way through JSON: every property that can be set, of a
\* type the conversion knows, in UTF-8 and finite.  The others come back with
\* their default.
Survives(cls, objs) ==
  [q \in DOMAIN objs |-> [p \in DOMAIN cls |->
     IF \/ cls[p].flags # "readwrite"
        \/ cls[p].type \notin KnownTypes
        \/ objs[q][p] \in {<<"string", "bad">>, <<"real", "nan">>}
       THEN cls[p].default ELSE objs[q][p]]]

Expected(type, r) ==
  IF r.ret \in {NULL, null, <<"string", "bad">>} THEN NULL ELSE
  CASE type = "object"  -> <<"object", Survives(r.cls, r.ret[2])>>
    [] type = "objlist" -> <<"array", [i \in DOMAIN r.ret[2] |-> Survives(r.cls, r.ret[2][i])]>>
    [] OTHER            -> r.ret

Arrived(k) ==
  stage[k] = "done" /\ reply[k].kind = "json" =>
    outcome[k] = IF returned[k].error # NULL
                   THEN Error(returned[k].error[2])
                   ELSE Value(Expected(want[k], returned[k]))

\* The caller, or the callback, gets the error the function set, whatever its
\* code and result, else the value it returned: integers of every width and
\* sign with their value, lists in their order, objects with their properties,
\* and NULL for NULL (searpc-client.c:549-708, searpc-utils.c,
\* searpc-server.c:98-172).  The generic call of a string is
\* GenericCallArrives.
ResultArrives == \A k \in Calls : (api[k] = "call" => want[k] # "string") => Arrived(k)

\* README.markdown:85 of what the library does with a response: "Unpack the
\* returned JSON data and return the value as the return value of the
\* client-side function".
GenericCallArrives == \A k \in Calls : api[k] = "call" => Arrived(k)
=============================================================================
