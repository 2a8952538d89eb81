------------------------------ MODULE Encoding ------------------------------
(***************************************************************************)
(* The conversions a call goes through on its way to the wire and back:    *)
(* encoding/json, payloadToMap, the wire values of SynapRPC, the accessors *)
(* of mapCommandToWire, the type switches of mapResponseFromWire, and      *)
(* Decode with the reflective assign.                                      *)
(***************************************************************************)
EXTENDS Integers, FiniteSets, SequencesExt, Values

CONSTANTS Binary,       \* strings that are not valid UTF-8
          Base64        \* strings that happen to be base64

Has(p, f) == f \in DOMAIN p

IsBinary(v) == v[1] = "str" /\ v[2] \in Binary

-----------------------------------------------------------------------------
(* Value v in another encoding, text by text: encoding/json puts U+FFFD in *)
(* the place of what is not UTF-8, SynapRPC sends it as bytes.  Values     *)
(* nest at most four deep (the fields of a response, its list of events,   *)
(* an event, its data), and each level is an operator of its own.          *)
RecodeText(how, v) ==
    CASE how = "json" /\ IsBinary(v)      -> Str("U+FFFD")
      [] how = "toWire" /\ IsBinary(v)    -> <<"bin", v[2]>>
      [] how = "fromWire" /\ v[1] = "bin" -> Str(v[2])
      [] OTHER -> v

Inside(Each(_), v) ==
    CASE v[1] = "arr" -> Arr([i \in DOMAIN v[2] |-> Each(v[2][i])])
      [] v[1] = "obj" -> Obj([f \in DOMAIN v[2] |-> Each(v[2][f])])
      [] OTHER        -> Each(v)

Recode1(how, v) == Inside(LAMBDA u : RecodeText(how, u), v)
Recode2(how, v) == Inside(LAMBDA u : Recode1(how, u), v)
Recode3(how, v) == Inside(LAMBDA u : Recode2(how, u), v)
Recode(how, v)  == Inside(LAMBDA u : Recode3(how, u), v)

Json(v)     == Recode("json", v)
toWire(v)   == Recode("toWire", v)
fromWire(v) == Recode("fromWire", v)

(* json.Marshal, and for RESP3 json.Unmarshal into a map. *)
throughJson(p) == [f \in DOMAIN p |-> Json(p[f])]

(* Mutant of payloadToMap: the payload is encoded as JSON on the way, as   *)
(* before version 1.1.0.                                                   *)
PayloadThroughJson(p) == throughJson(p)

(* By reflection: nil pointers are left out, strings are not touched. *)
payloadToMap(p) == [f \in {g \in DOMAIN p : p[g] # Nil} |-> p[f]]

-----------------------------------------------------------------------------
(* What is not a string is printed with fmt's %v. *)
printed(v) == CASE IsText(v)     -> v
                [] v[1] = "int"  -> Num(v[2])
                [] OTHER         -> Fmt(v)

getStr(p, f)   == IF Has(p, f) THEN printed(p[f]) ELSE Str("")
getFloat(p, f) == IF Has(p, f) /\ p[f][1] = "int" THEN p[f][2] ELSE 0

(* Mutant of getStrSlice: the values stay one argument. *)
GetUnspread(p, f) == IF Has(p, f) /\ p[f][1] = "arr" THEN <<p[f]>> ELSE <<>>

getStrSlice(p, f) ==
    IF Has(p, f) /\ p[f][1] = "arr" THEN [i \in DOMAIN p[f][2] |-> printed(p[f][2][i])] ELSE <<>>

Wire(cmd, args) == [cmd |-> cmd, args |-> args]

(* The commands the map does not have. *)
Unsupported == Wire("", <<>>)

(* The type switches on a reply that stands for a Boolean. *)
truthy(v) == Bool(v = Bool(TRUE) \/ (v[1] = "int" /\ v[2] > 0))

arrayOr(v, default) == IF v[1] = "arr" THEN v ELSE default

-----------------------------------------------------------------------------
(* The types of the variables the methods decode into. *)
Scalar(k)      == <<k>>             \* "text", "int", "bool", "bytes" or "any"
ListOf(type)   == <<"list", type>>
MapOf(type)    == <<"map", type>>
Pointer(type)  == <<"ptr", type>>
Struct(fields) == <<"struct", fields>>

(* No struct of the SDK has a struct as a field. *)
ZeroField(type) ==
    CASE type[1] \in {"text", "bytes"} -> Str("")
      [] type[1] = "int"    -> I64(0)
      [] type[1] = "bool"   -> Bool(FALSE)
      [] type[1] = "list"   -> Arr(<<>>)
      [] type[1] = "map"    -> Obj(<<>>)
      [] OTHER              -> Nil

Zero(type) ==
    IF type[1] = "struct"
    THEN Obj([f \in DOMAIN type[2] |-> ZeroField(type[2][f])])
    ELSE ZeroField(type)

(* asStringValue and asInt: the binary transport converts scalars. *)
asStringValue(v) == CASE IsText(v)      -> v
                      [] v[1] = "int"   -> Num(v[2])
                      [] v[1] = "bool"  -> Str(IF v[2] THEN "true" ELSE "false")
                      [] OTHER          -> Failed

asInt(v) == CASE v[1] \in {"int", "num"} -> I64(v[2])
              [] v[1] = "bool"           -> I64(IF v[2] THEN 1 ELSE 0)
              [] OTHER                   -> Failed

(* encoding/json: a []byte is base64 in a string, or an array of numbers. *)
jsonBytes(v) == CASE v[1] = "bytes" -> v[2]
                  [] v[1] = "str" /\ v[2] \in Base64 -> Str("unbase64")
                  [] OTHER -> Failed

scalarAs(mode, v, k) ==
    CASE k = "any"  -> v
      [] k = "text" -> IF mode = "rpc" THEN asStringValue(v) ELSE IF IsText(v) THEN v ELSE Failed
      [] k = "int"  -> IF mode = "rpc" THEN asInt(v) ELSE IF v[1] = "int" THEN v ELSE Failed
      [] k = "bool" -> IF mode = "rpc" /\ v[1] = "int" THEN Bool(v[2] # 0)
                       ELSE IF v[1] = "bool" THEN v ELSE Failed
      [] k = "bytes" -> IF mode = "rpc" THEN asStringValue(v) ELSE jsonBytes(v)

(* A value made of parts; one part that does not fit spoils it. *)
Whole(tag, parts) ==
    IF \A x \in DOMAIN parts : parts[x] # Failed THEN <<tag, parts>> ELSE Failed

(* assign for SynapRPC, json.Unmarshal for the others.  An absent field    *)
(* stays zero; a struct that does not fit is an error.  Types nest at most *)
(* three deep, and each level is an operator of its own.                   *)
assignScalar(mode, v, type) == IF v = Nil THEN Zero(type) ELSE scalarAs(mode, v, type[1])

Assigned(Element(_, _), mode, v, type) ==
    IF v = Nil THEN Zero(type) ELSE
    CASE type[1] = "ptr"  -> Element(v, type[2])
      [] type[1] = "list" ->
            IF v[1] = "arr" THEN Whole("arr", [i \in DOMAIN v[2] |-> Element(v[2][i], type[2])])
                            ELSE Failed
      [] type[1] = "map" ->
            IF v[1] = "obj" THEN Whole("obj", [f \in DOMAIN v[2] |-> Element(v[2][f], type[2])])
                            ELSE Failed
      [] type[1] = "struct" ->
            IF v[1] = "obj"
            THEN Whole("obj", [f \in DOMAIN type[2] |->
                                  Element(IF Has(v[2], f) THEN v[2][f] ELSE Nil, type[2][f])])
            ELSE Failed
      [] OTHER -> scalarAs(mode, v, type[1])

assign1(mode, v, type) == Assigned(LAMBDA u, t : assignScalar(mode, u, t), mode, v, type)
assign2(mode, v, type) == Assigned(LAMBDA u, t : assign1(mode, u, t), mode, v, type)
assign(mode, v, type)  == Assigned(LAMBDA u, t : assign2(mode, u, t), mode, v, type)

(* Decode into a struct with one field f, and what that field holds then. *)
Decode(mode, j, f, type) ==
    LET result == assign(mode, j, Struct([g \in {f} |-> type])) IN
    IF result = Failed THEN Failed ELSE result[2][f]
=============================================================================
