---------------------------- MODULE MCClientCalls ----------------------------
(* Instances of ClientCalls for TLC. *)
EXTENDS ClientCalls

MCStrings == {NULL, <<"string", "a">>, <<"string", "bad">>}
Jsons     == {NULL, null, <<"integer", 1>>, <<"object", [k |-> <<"string", "a">>]>>}

MCFuncTable == [ret : RetTypes, args : {<<>>}]
                 \cup [ret : {"int"}, args : {<<"string", "int">>, <<"json", "int64">>,
                                              <<"string", "string", "int">>}]

MCParams(type) ==
  CASE type = "int"    -> SignedInts(IntSpan)
    [] type = "int64"  -> SignedInts(LongSpan)
    [] type = "string" -> MCStrings
    [] type = "json"   -> Jsons

MCGValues(type) ==
  CASE type = "STRING"    -> MCStrings
    [] type = "BOOLEAN"   -> {<<"boolean", b>> : b \in BOOLEAN}
    [] type = "UINT64"    -> {<<"uint64", n>> : n \in 0..1}
    [] type \in RealTypes -> {<<"real", "1.5">>, <<"real", "nan">>}
    [] type \in DOMAIN SignedTypes   -> SignedInts(SignedTypes[type])
    [] type \in DOMAIN UnsignedTypes -> UnsignedInts(UnsignedTypes[type])

Default(type) ==
  CASE type = "STRING"     -> NULL
    [] type = "BOOLEAN"    -> <<"boolean", FALSE>>
    [] type = "UINT64"     -> <<"uint64", 0>>
    [] type \in RealTypes  -> <<"real", "0.0">>
    [] type \in IntTypes   -> <<"integer", 0>>

ScalarTypes == IntTypes \cup RealTypes \cup {"STRING", "BOOLEAN", "UINT64"}

\* Classes with a property of every type and kind, and one for an object.
Class1(type, flags) ==
  [prop  |-> [type |-> type, flags |-> flags, default |-> Default(type)],
   child |-> [type |-> "OBJECT", flags |-> "readwrite", default |-> NULL]]

Classes == {Class1(t, "readwrite") : t \in ScalarTypes}
             \cup {Class1("INT", f) : f \in {"construct_only", "readonly"}}

\* Objects that hold none, and objects that hold one.
Leaf(v) == [top |-> [prop |-> v, child |-> NULL]]
Objects1(cls) == {Leaf(v) : v \in MCGValues(cls.prop.type)}
               \cup {[top  |-> [prop |-> cls.prop.default, child |-> <<"object", "held">>],
                      held |-> [prop |-> v, child |-> NULL]] : v \in MCGValues(cls.prop.type)}

OfClass(vs(_)) == UNION {{[cls |-> cls, ret |-> v] : v \in vs(cls)} : cls \in Classes}
Plain(vs)      == {[cls |-> NULL, ret |-> v] : v \in vs}

MCResults(type) ==
  CASE type = "int"     -> Plain(SignedInts(IntSpan))
    [] type = "int64"   -> Plain(SignedInts(LongSpan))
    [] type = "string"  -> Plain(MCStrings)
    [] type = "json"    -> Plain(Jsons)
    [] type = "object"  -> OfClass(LAMBDA cls : {NULL} \cup {<<"object", o>> : o \in Objects1(cls)})
    [] type = "objlist" -> OfClass(LAMBDA cls :
         {NULL} \cup {<<"array", <<Leaf(v), Leaf(w)>>>> : v, w \in MCGValues(cls.prop.type)})
    [] OTHER -> {}
==============================================================================
