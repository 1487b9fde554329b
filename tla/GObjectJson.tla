----------------------------- MODULE GObjectJson -----------------------------
(***************************************************************************)
(* The conversions between C values, GObjects and JSON: lib/searpc-utils.c, *)
(* lib/searpc-utils.h, and the functions of lib/searpc-server.c that set    *)
(* the result of a call.                                                   *)
(*                                                                         *)
(* A JSON value, a GValue and a C value is a tuple of its kind and its      *)
(* contents.  The spans are the numbers of values an integer type has below *)
(* zero if it is signed: 2^7, 2^31 and 2^63 for a char, an int and a long;  *)
(* json_int_t is as wide as a long.  The string "bad" is not UTF-8, the     *)
(* number "nan" not finite: jansson makes no value of them.  json_dumps and *)
(* json_loadb keep a JSON value as it is.                                   *)
(***************************************************************************)
EXTENDS Integers, Sequences

CONSTANTS CharSpan, IntSpan, LongSpan

ASSUME WidthAssumption ==
  /\ CharSpan \in Nat \ {0} /\ IntSpan \in Nat /\ LongSpan \in Nat
  /\ 2 * CharSpan <= IntSpan /\ 2 * IntSpan <= LongSpan

NULL == <<"NULL">>     \* a C pointer
null == <<"null">>     \* JSON's null

\* The values of the integer types, and what a conversion to them keeps.
SignedInts(span)   == {<<"integer", n>> : n \in (-span)..(span - 1)}
UnsignedInts(span) == {<<"integer", n>> : n \in 0..(2 * span - 1)}

Signed(n, span)   == ((n + span) % (2 * span)) - span
Unsigned(n, span) == n % (2 * span)

json_string(s)  == IF s = "bad" THEN NULL ELSE <<"string", s>>
json_integer(n) == <<"integer", Signed(n, LongSpan)>>
json_real(x)    == IF x = "nan" THEN NULL ELSE <<"real", x>>

\* json_string_value and json_integer_value of any node, or of no node.
json_string_value(node)  == IF node[1] = "string" THEN node ELSE NULL
json_integer_value(node) == IF node[1] = "integer" THEN node[2] ELSE 0

-----------------------------------------------------------------------------
(* GObjects.  A class maps the names of its properties to a type, flags and *)
(* default.  An object and those it holds, all of one class, are a function *)
(* from the places in this tree, Top for the object itself, to the GValues  *)
(* of the properties of the object there; a property that holds an object   *)
(* is <<"object", q>> with that object's place q.  The JSON of the object   *)
(* has the same places, with the members of the JSON object at each, so     *)
(* that the functions below, which call themselves for an object that is    *)
(* held, do at every place what they do at Top.                             *)

Top == "top"

\* The types of integer properties, with their width and sign.
SignedTypes == [CHAR |-> CharSpan, INT |-> IntSpan, ENUM |-> IntSpan,
                LONG |-> LongSpan, INT64 |-> LongSpan]
UnsignedTypes == [UCHAR |-> CharSpan, UINT |-> IntSpan, FLAGS |-> IntSpan,
                  ULONG |-> LongSpan]
IntTypes  == DOMAIN SignedTypes \cup DOMAIN UnsignedTypes
RealTypes == {"FLOAT", "DOUBLE"}

\* The casts of json_deserialize_pspec.
Cast(type, n) == IF type \in DOMAIN SignedTypes THEN Signed(n, SignedTypes[type])
                                                ELSE Unsigned(n, UnsignedTypes[type])

\* UINT64, BOXED and the other types it does not know are null.
json_serialize_pspec(type, v) ==
  IF v = NULL THEN null ELSE
  CASE type = "STRING"    -> json_string(v[2])
    [] type = "BOOLEAN"   -> v
    [] type \in IntTypes  -> json_integer(v[2])
    [] type \in RealTypes -> json_real(v[2])
    [] type = "OBJECT"    -> v
    [] OTHER              -> null

\* A property without a node is left out.
json_gobject_serialize(cls, objs) ==
  LET node(q, p) == json_serialize_pspec(cls[p].type, objs[q][p])
  IN <<"object", [q \in DOMAIN objs |->
                    [p \in {r \in DOMAIN cls : node(q, r) # NULL} |-> node(q, p)]]>>

Failed == <<"failed">>

json_deserialize_pspec(type, node) ==
  CASE node[1] = "object"  /\ type = "OBJECT"    -> node
    [] node[1] = "string"  /\ type = "STRING"    -> node
    [] node[1] = "integer" /\ type \in IntTypes  -> <<"integer", Cast(type, node[2])>>
    [] node[1] = "real"    /\ type \in RealTypes -> node
    [] node[1] = "boolean" /\ type = "BOOLEAN"   -> node
    [] node = null /\ type \in {"STRING", "OBJECT"} -> NULL
    [] OTHER -> Failed

\* New objects, with the properties that are in the node, can be set and
\* convert; the others are what g_object_newv makes them.  A node that is no
\* object has no members.  (An object whose property cannot be set stays at
\* its place here, where no property names it.)
json_gobject_deserialize(cls, node) ==
  LET nodes == IF node[1] = "object" THEN node[2] ELSE [q \in {Top} |-> [p \in {} |-> null]]
      member(q, p) == IF p \in DOMAIN nodes[q] /\ cls[p].flags = "readwrite"
                        THEN json_deserialize_pspec(cls[p].type, nodes[q][p])
                        ELSE Failed
  IN [q \in DOMAIN nodes |->
        [p \in DOMAIN cls |-> IF member(q, p) = Failed THEN cls[p].default ELSE member(q, p)]]

-----------------------------------------------------------------------------
(* Parameters.                                                             *)

\* MUTANT of ParamNode: a NULL string is left out.
ParamNode_SkipsNull(type, v) ==
  CASE type = "int"    -> json_integer(Signed(v[2], IntSpan))
    [] type = "int64"  -> json_integer(v[2])
    [] type = "string" -> IF v = NULL THEN NULL ELSE json_string(v[2])
    [] type = "json"   -> IF v = NULL THEN null ELSE v

\* The node fcall_to_str appends for a parameter, if it is one.
ParamNode(type, v) ==
  CASE type = "int"    -> json_integer(Signed(v[2], IntSpan))
    [] type = "int64"  -> json_integer(v[2])
    [] type = "string" -> IF v = NULL THEN null ELSE json_string(v[2])
    [] type = "json"   -> IF v = NULL THEN null ELSE v

\* The elements of the array after the name of the function, array[i] when i
\* parameters were appended; appending no node leaves the array as it is.
fcall_to_str(types, params) ==
  LET array[i \in 0..Len(types)] ==
        IF i = 0 THEN <<>>
        ELSE IF ParamNode(types[i], params[i]) = NULL THEN array[i - 1]
        ELSE Append(array[i - 1], ParamNode(types[i], params[i]))
  IN array[Len(types)]

\* The parameter a generated marshal takes from place i of the array.
json_array_get_element(type, array, i) ==
  LET node == IF i \in DOMAIN array THEN array[i] ELSE NULL
  IN CASE type = "int"    -> <<"integer", Signed(json_integer_value(node), IntSpan)>>
       [] type = "int64"  -> <<"integer", json_integer_value(node)>>
       [] type = "string" -> json_string_value(node)
       [] type = "json"   -> node

-----------------------------------------------------------------------------
(* Results.                                                                *)

\* searpc_set_*_to_ret_object: the node of "ret", or NULL if it is not set.
searpc_set_to_ret_object(type, cls, ret) ==
  IF ret = NULL THEN null ELSE
  CASE type \in {"int", "int64"} -> json_integer(ret[2])
    [] type = "string"           -> json_string(ret[2])
    [] type = "object"           -> json_gobject_serialize(cls, ret[2])
    [] type = "objlist"          ->
         <<"array", [i \in DOMAIN ret[2] |-> json_gobject_serialize(cls, ret[2][i])]>>
    [] type = "json"             -> ret

\* The response: "ret" if it is set, and the error if there is one.
searpc_marshal_set_ret_common(ret, error) ==
  [m \in (IF ret = NULL THEN {} ELSE {"ret"}) \cup (IF error = NULL THEN {} ELSE {"err_code"})
     |-> IF m = "ret" THEN ret ELSE json_integer(error[2])]
=============================================================================
