--------------------------- MODULE MappingProofs ---------------------------
(***************************************************************************)
(* What the encodings, the accessors of mapCommandToWire, and Decode do to *)
(* the values of the KV, hash, list and set methods: the arguments of a    *)
(* call reach the server as the caller gave them, and its replies come     *)
(* back as what they were. The lemmas are about the operators alone;       *)
(* WireProofs and WireTypeProofs use them for the steps of the             *)
(* specification.                                                          *)
(***************************************************************************)
EXTENDS WireMapping, FiniteSetTheorems, SequenceTheorems, TLAPS

(* What is neither an array nor an object is encoded as it stands, at      *)
(* every level.                                                            *)
LEMMA RecodeLeaf ==
    ASSUME NEW how, NEW v, v[1] \notin {"arr", "obj"}
    PROVE  /\ Recode(how, v) = RecodeText(how, v)
           /\ Recode3(how, v) = RecodeText(how, v)
           /\ Recode2(how, v) = RecodeText(how, v)
<1>1. Recode1(how, v) = RecodeText(how, v)
  BY DEF Recode1, Inside
<1>2. Recode2(how, v) = Recode1(how, v)
  BY DEF Recode2, Inside
<1>3. Recode3(how, v) = Recode2(how, v)
  BY DEF Recode3, Inside
<1> QED
  BY <1>1, <1>2, <1>3 DEF Recode, Inside

(* UTF-8 passes through every encoding unchanged. *)
LEMMA TextKept ==
    ASSUME NEW v, IsText(v), ~IsBinary(v)
    PROVE  Json(v) = v /\ toWire(v) = v /\ fromWire(v) = v
BY RecodeLeaf DEF Json, toWire, fromWire, IsText, RecodeText

(* The kinds of scalars the methods decode into. *)
Kinds == {"text", "int", "bool", "bytes", "any"}

(* A scalar is assigned the same way at every level. *)
LEMMA AssignScalar ==
    ASSUME NEW mode, NEW v, NEW k \in Kinds
    PROVE  /\ assign1(mode, v, Scalar(k)) = assignScalar(mode, v, Scalar(k))
           /\ assign2(mode, v, Scalar(k)) = assignScalar(mode, v, Scalar(k))
           /\ assign(mode, v, Scalar(k)) = assignScalar(mode, v, Scalar(k))
BY DEF assign, Assigned, assign2, assign1, assignScalar, Scalar, Kinds

(* A struct is assigned field by field; what the response does not have    *)
(* counts as nil.                                                          *)
LEMMA AssignStruct ==
    ASSUME NEW mode, NEW o, NEW t
    PROVE  assign(mode, Obj(o), Struct(t)) =
               Whole("obj", [f \in DOMAIN t |-> assign2(mode, IF Has(o, f) THEN o[f] ELSE Nil, t[f])])
<1>1. PICK v : v = Obj(o)
  OBVIOUS
<1>2. PICK type : type = Struct(t)
  OBVIOUS
<1>3. v # Nil /\ v[1] = "obj" /\ v[2] = o /\ type[1] = "struct" /\ type[2] = t
  BY <1>1, <1>2 DEF Obj, Nil, Struct
<1>4. assign(mode, v, type) =
        Whole("obj", [f \in DOMAIN type[2] |->
                          assign2(mode, IF Has(v[2], f) THEN v[2][f] ELSE Nil, type[2][f])])
  BY <1>3 DEF assign, Assigned
<1> QED
  BY <1>1, <1>2, <1>3, <1>4

(* Decode reads one field of the response. *)
LEMMA DecodeField ==
    ASSUME NEW mode, NEW o, NEW f, NEW type
    PROVE  Decode(mode, Obj(o), f, type) = assign2(mode, IF f \in DOMAIN o THEN o[f] ELSE Nil, type)
<1>1. PICK t : t = [g \in {f} |-> type]
  OBVIOUS
<1>2. PICK fields : fields = [g \in DOMAIN t |-> assign2(mode, IF Has(o, g) THEN o[g] ELSE Nil, t[g])]
  OBVIOUS
<1>3. PICK x : x = assign2(mode, IF f \in DOMAIN o THEN o[f] ELSE Nil, type)
  OBVIOUS
<1>4. DOMAIN t = {f} /\ t[f] = type
  BY <1>1
<1>5. DOMAIN fields = {f} /\ fields[f] = x
  BY <1>2, <1>3, <1>4 DEF Has
<1>6. assign(mode, Obj(o), Struct(t)) = Whole("obj", fields)
  BY <1>2, AssignStruct
<1>7. Whole("obj", fields) = IF x # Failed THEN Obj(fields) ELSE Failed
  BY <1>5 DEF Whole, Obj
<1>8. Obj(fields) # Failed /\ Obj(fields)[2] = fields
  BY DEF Obj, Failed
<1>9. Decode(mode, Obj(o), f, type) = IF assign(mode, Obj(o), Struct(t)) = Failed THEN Failed
                                      ELSE assign(mode, Obj(o), Struct(t))[2][f]
  BY <1>1 DEF Decode
<1> QED
  BY <1>3, <1>5, <1>6, <1>7, <1>8, <1>9
-----------------------------------------------------------------------------
(* What a caller passes and the server holds: strings, some of which spell *)
(* an integer.                                                             *)
Texts(X) == {Str(x) : x \in X} \cup {Num(n) : n \in Int}

(* The scalars of Go that are no strings. *)
Ints    == {I64(n) : n \in Int}
Scalars == {Nil} \cup Ints \cup {Bool(b) : b \in BOOLEAN}

(* A string is a number in writing or a string of X, and never nil. *)
LEMMA TextShape ==
    ASSUME NEW X, NEW v \in Texts(X)
    PROVE  /\ IsText(v)
           /\ v[1] \in {"str", "num"}
           /\ v[1] = "str" => v = Str(v[2]) /\ v[2] \in X
           /\ v[1] = "num" => v = Num(v[2]) /\ v[2] \in Int
           /\ v # Nil /\ v # Failed
<1>1. CASE \E x \in X : v = Str(x)
  BY <1>1 DEF Str, IsText, Nil, Failed
<1>2. CASE \E n \in Int : v = Num(n)
  BY <1>2 DEF Num, IsText, Nil, Failed
<1> QED
  BY <1>1, <1>2 DEF Texts

(* A scalar is nil, an integer or a Boolean. *)
LEMMA ScalarShape ==
    ASSUME NEW v \in Scalars
    PROVE  /\ v[1] \in {"nil", "int", "bool"}
           /\ v[1] = "nil" => v = Nil
           /\ v[1] = "int" => v = I64(v[2]) /\ v[2] \in Int
           /\ v[1] = "bool" => v = Bool(v[2]) /\ v[2] \in BOOLEAN
           /\ v # Failed
<1>1. CASE v = Nil
  BY <1>1 DEF Nil, Failed
<1>2. CASE \E n \in Int : v = I64(n)
  BY <1>2 DEF I64, Failed
<1>3. CASE \E b \in BOOLEAN : v = Bool(b)
  BY <1>3 DEF Bool, Failed
<1> QED
  BY <1>1, <1>2, <1>3 DEF Scalars, Ints

(* Strings and scalars come off the wire of SynapRPC as they went onto it, *)
(* and through JSON unchanged when they are UTF-8.                         *)
LEMMA LeafKept ==
    ASSUME NEW X, NEW v \in Texts(X) \cup Scalars
    PROVE  /\ v[1] \notin {"arr", "obj"}
           /\ RecodeText("fromWire", RecodeText("toWire", v)) = v
           /\ RecodeText("fromWire", RecodeText("json", RecodeText("toWire", v))) = v
           /\ RecodeText("toWire", v)[1] \notin {"arr", "obj"}
           /\ RecodeText("json", RecodeText("toWire", v))[1] \notin {"arr", "obj"}
           /\ X \cap Binary = {} => RecodeText("json", v) = v
<1>1. CASE v \in Texts(X)
  BY <1>1, TextShape DEF RecodeText, IsBinary, Str, Num
<1>2. CASE v \in Scalars
  BY <1>2, ScalarShape DEF RecodeText, IsBinary
<1> QED
  BY <1>1, <1>2

(* An array or an object has a function as its content. *)
IsFunction(o) == o = [x \in DOMAIN o |-> o[x]]

(* Extensionality, for contents. *)
LEMMA FunctionsEqual ==
    ASSUME NEW o, NEW p, IsFunction(o), IsFunction(p), DOMAIN o = DOMAIN p,
           \A x \in DOMAIN o : o[x] = p[x]
    PROVE  o = p
BY DEF IsFunction

(* An array or an object is encoded part by part. *)
LEMMA RecodeParts ==
    ASSUME NEW how, NEW o, NEW p, IsFunction(p), DOMAIN p = DOMAIN o,
           \A x \in DOMAIN o : p[x] = Recode3(how, o[x])
    PROVE  Recode(how, Arr(o)) = Arr(p) /\ Recode(how, Obj(o)) = Obj(p)
<1>1. Arr(o)[1] = "arr" /\ Arr(o)[2] = o /\ Obj(o)[1] = "obj" /\ Obj(o)[2] = o
  BY DEF Arr, Obj
<1>2. PICK a, b : a = Arr(o) /\ b = Obj(o)
  OBVIOUS
<1>3. /\ Recode(how, a) = Arr([x \in DOMAIN a[2] |-> Recode3(how, a[2][x])])
      /\ Recode(how, b) = Obj([x \in DOMAIN b[2] |-> Recode3(how, b[2][x])])
  BY <1>1, <1>2 DEF Recode, Inside
<1>4. p = [x \in DOMAIN o |-> Recode3(how, o[x])]
  BY DEF IsFunction
<1> QED
  BY <1>1, <1>2, <1>3, <1>4

(* The same one level down. *)
LEMMA RecodeParts3 ==
    ASSUME NEW how, NEW o, NEW p, IsFunction(p), DOMAIN p = DOMAIN o,
           \A x \in DOMAIN o : p[x] = Recode2(how, o[x])
    PROVE  Recode3(how, Arr(o)) = Arr(p) /\ Recode3(how, Obj(o)) = Obj(p)
<1>1. Arr(o)[1] = "arr" /\ Arr(o)[2] = o /\ Obj(o)[1] = "obj" /\ Obj(o)[2] = o
  BY DEF Arr, Obj
<1>2. PICK a, b : a = Arr(o) /\ b = Obj(o)
  OBVIOUS
<1>3. /\ Recode3(how, a) = Arr([x \in DOMAIN a[2] |-> Recode2(how, a[2][x])])
      /\ Recode3(how, b) = Obj([x \in DOMAIN b[2] |-> Recode2(how, b[2][x])])
  BY <1>1, <1>2 DEF Recode3, Inside
<1>4. p = [x \in DOMAIN o |-> Recode2(how, o[x])]
  BY DEF IsFunction
<1> QED
  BY <1>1, <1>2, <1>3, <1>4

(* A string or a scalar, or an array or an object of them. *)
IsFlat(X, v) ==
    \/ v \in Texts(X) \cup Scalars
    \/ \E o : /\ v \in {Arr(o), Obj(o)}
              /\ IsFunction(o)
              /\ \A x \in DOMAIN o : o[x] \in Texts(X) \cup Scalars

(* Flat values pass through the encodings like strings and scalars do. *)
LEMMA FlatKept ==
    ASSUME NEW X, NEW v, IsFlat(X, v)
    PROVE  /\ fromWire(toWire(v)) = v
           /\ X \cap Binary = {} => Json(v) = v /\ Recode3("json", v) = v
<1>1. CASE v \in Texts(X) \cup Scalars
  BY <1>1, LeafKept, RecodeLeaf DEF fromWire, toWire, Json
<1>2. ASSUME NEW o, IsFunction(o), \A x \in DOMAIN o : o[x] \in Texts(X) \cup Scalars
      PROVE  /\ fromWire(toWire(Arr(o))) = Arr(o)
             /\ fromWire(toWire(Obj(o))) = Obj(o)
             /\ X \cap Binary = {} => /\ Json(Arr(o)) = Arr(o) /\ Recode3("json", Arr(o)) = Arr(o)
                                      /\ Json(Obj(o)) = Obj(o) /\ Recode3("json", Obj(o)) = Obj(o)
  <2>1. PICK w : w = [x \in DOMAIN o |-> RecodeText("toWire", o[x])]
    OBVIOUS
  <2>2. /\ IsFunction(w) /\ DOMAIN w = DOMAIN o
        /\ \A x \in DOMAIN o : w[x] = Recode3("toWire", o[x]) /\ o[x] = Recode3("fromWire", w[x])
    BY <1>2, <2>1, LeafKept, RecodeLeaf DEF IsFunction
  <2>3. toWire(Arr(o)) = Arr(w) /\ toWire(Obj(o)) = Obj(w)
    BY <2>2, RecodeParts DEF toWire
  <2>4. fromWire(Arr(w)) = Arr(o) /\ fromWire(Obj(w)) = Obj(o)
    BY <1>2, <2>2, RecodeParts DEF fromWire
  <2>5. ASSUME X \cap Binary = {}
        PROVE  \A x \in DOMAIN o : o[x] = Recode3("json", o[x]) /\ o[x] = Recode2("json", o[x])
    <3> SUFFICES ASSUME NEW x \in DOMAIN o
                 PROVE  o[x] = Recode3("json", o[x]) /\ o[x] = Recode2("json", o[x])
      OBVIOUS
    <3>1. o[x][1] \notin {"arr", "obj"} /\ RecodeText("json", o[x]) = o[x]
      BY <1>2, <2>5, LeafKept
    <3> QED
      BY <3>1, RecodeLeaf
  <2>6. X \cap Binary = {} => Json(Arr(o)) = Arr(o) /\ Json(Obj(o)) = Obj(o)
    BY <1>2, <2>5, RecodeParts DEF Json
  <2>7. X \cap Binary = {} => Recode3("json", Arr(o)) = Arr(o) /\ Recode3("json", Obj(o)) = Obj(o)
    BY <1>2, <2>5, RecodeParts3
  <2> QED
    BY <2>3, <2>4, <2>6, <2>7
<1> QED
  BY <1>1, <1>2 DEF IsFlat

(* A response with flat fields passes through JSON unchanged. *)
LEMMA FieldsKept ==
    ASSUME NEW X, X \cap Binary = {}, NEW o, IsFunction(o),
           \A x \in DOMAIN o : IsFlat(X, o[x])
    PROVE  Json(Obj(o)) = Obj(o)
<1>1. \A x \in DOMAIN o : o[x] = Recode3("json", o[x])
  BY FlatKept
<1> QED
  BY <1>1, RecodeParts DEF Json

(* A request over SynapRPC arrives with the arguments it was sent with. *)
LEMMA ArgumentsArrive ==
    ASSUME NEW X, NEW s \in Seq(Texts(X) \cup Scalars)
    PROVE  [i \in DOMAIN s |-> Received(toWire(s[i]))] = s
<1>1. ASSUME NEW v \in Texts(X) \cup Scalars
      PROVE  Received(toWire(v)) = v
  BY LeafKept, RecodeLeaf DEF Received, toWire, fromWire, Json
<1> QED
  BY <1>1
-----------------------------------------------------------------------------
(* Strings, integers and Booleans are assigned as they are; over SynapRPC  *)
(* an integer is also taken where a string is asked for.                   *)
LEMMA AssignLeaves ==
    ASSUME NEW mode
    PROVE  /\ \A X : \A v \in Texts(X) : assignScalar(mode, v, Scalar("text")) = v
           /\ assignScalar(mode, Nil, Scalar("text")) = Str("")
           /\ \A v \in Ints : assignScalar(mode, v, Scalar("int")) = v
           /\ \A b \in BOOLEAN : assignScalar(mode, Bool(b), Scalar("bool")) = Bool(b)
           /\ mode = "rpc" => \A v \in Ints : assignScalar(mode, v, Scalar("text")) = Num(v[2])
<1>1. ASSUME NEW X, NEW v \in Texts(X)
      PROVE  assignScalar(mode, v, Scalar("text")) = v
  BY TextShape DEF assignScalar, Scalar, scalarAs, asStringValue
<1>2. assignScalar(mode, Nil, Scalar("text")) = Str("")
  BY DEF assignScalar, Scalar, Zero, ZeroField
<1>3. ASSUME NEW v \in Ints
      PROVE  /\ assignScalar(mode, v, Scalar("int")) = v
             /\ mode = "rpc" => assignScalar(mode, v, Scalar("text")) = Num(v[2])
  BY DEF Ints, assignScalar, Scalar, scalarAs, asInt, asStringValue, I64, Nil, IsText
<1>4. ASSUME NEW b \in BOOLEAN
      PROVE  assignScalar(mode, Bool(b), Scalar("bool")) = Bool(b)
  BY DEF assignScalar, Scalar, scalarAs, Bool, Nil
<1> QED
  BY <1>1, <1>2, <1>3, <1>4

(* Lists and maps of strings are assigned as they are. *)
LEMMA AssignTexts ==
    ASSUME NEW mode, NEW X, NEW o, IsFunction(o), \A x \in DOMAIN o : o[x] \in Texts(X)
    PROVE  /\ assign2(mode, Arr(o), ListOf(Scalar("text"))) = Arr(o)
           /\ assign2(mode, Obj(o), MapOf(Scalar("text"))) = Obj(o)
<1>1. PICK a, b, list, map : /\ a = Arr(o) /\ list = ListOf(Scalar("text"))
                             /\ b = Obj(o) /\ map = MapOf(Scalar("text"))
  OBVIOUS
<1>2. /\ a # Nil /\ a[1] = "arr" /\ a[2] = o /\ list[1] = "list" /\ list[2] = Scalar("text")
      /\ b # Nil /\ b[1] = "obj" /\ b[2] = o /\ map[1] = "map" /\ map[2] = Scalar("text")
  BY <1>1 DEF Arr, Obj, Nil, ListOf, MapOf
<1>3. /\ assign2(mode, a, list) = Whole("arr", [x \in DOMAIN a[2] |-> assign1(mode, a[2][x], list[2])])
      /\ assign2(mode, b, map) = Whole("obj", [x \in DOMAIN b[2] |-> assign1(mode, b[2][x], map[2])])
  BY <1>2 DEF assign2, Assigned
<1>4. \A x \in DOMAIN o : assign1(mode, o[x], Scalar("text")) = o[x] /\ o[x] # Failed
  <2> SUFFICES ASSUME NEW x \in DOMAIN o
               PROVE  assign1(mode, o[x], Scalar("text")) = o[x] /\ o[x] # Failed
    OBVIOUS
  <2>1. assign1(mode, o[x], Scalar("text")) = assignScalar(mode, o[x], Scalar("text"))
    BY AssignScalar DEF Kinds
  <2> QED
    BY <2>1, AssignLeaves, TextShape
<1>5. [x \in DOMAIN o |-> assign1(mode, o[x], Scalar("text"))] = o
  BY <1>4 DEF IsFunction
<1>6. Whole("arr", o) = Arr(o) /\ Whole("obj", o) = Obj(o)
  BY <1>4 DEF Whole, Arr, Obj
<1> QED
  BY <1>1, <1>2, <1>3, <1>5, <1>6

(* What a method reads out of a response with field f. *)
LEMMA DecodeOne ==
    ASSUME NEW mode, NEW o, NEW f, f \in DOMAIN o
    PROVE  \A k \in Kinds : Decode(mode, Obj(o), f, Scalar(k)) = assignScalar(mode, o[f], Scalar(k))
BY DecodeField, AssignScalar

(* Decode reads the field that is there. *)
LEMMA DecodePresent ==
    ASSUME NEW mode, NEW o, NEW f, f \in DOMAIN o, NEW type
    PROVE  Decode(mode, Obj(o), f, type) = assign2(mode, o[f], type)
BY DecodeField
-----------------------------------------------------------------------------
(* The calls of the methods with strings of V and, for the fields of a     *)
(* hash, of F: kv.go, hash.go, list.go and set.go.                         *)
KvCalls(V) ==
    [op : {"kv.set"}, value : V, ttl : {1000 * n : n \in Nat}]
    \cup [op : {"kv.get", "kv.del", "kv.exists", "kv.incr", "kv.decr"}]

(* Hash methods. *)
HashCalls(F, V) ==
    [op : {"hash.set"}, field : F, value : V]
    \cup [op : {"hash.get", "hash.del", "hash.exists"}, field : F]
    \cup [op : {"hash.getall"}]

(* List methods. *)
ListCalls(V) ==
    [op : {"list.lpush", "list.rpush"}, values : Seq(V)]
    \cup [op : {"list.lpop", "list.rpop"}, count : Nat]
    \cup [op : {"list.range"}, start : Int, stop : Int]
    \cup [op : {"list.len"}]

(* Set methods. *)
SetCalls(V) ==
    [op : {"set.add", "set.rem"}, members : Seq(V)]
    \cup [op : {"set.ismember"}, member : V]
    \cup [op : {"set.members", "set.card"}]

(* What mapCommandToWire and the server find in payload p is what the      *)
(* caller passed with call m.                                              *)
Carries(p, m) ==
    /\ "value" \in DOMAIN m => getStr(p, "value") = m.value /\ Has(p, "value") /\ p["value"] = m.value
    /\ "ttl" \in DOMAIN m => getFloat(p, "ttl") = m.ttl \div 1000
    /\ "field" \in DOMAIN m => getStr(p, "field") = m.field /\ Has(p, "field") /\ p["field"] = m.field
    /\ m.op = "hash.del" => getStrSlice(p, "fields") = <<m.field>>
    /\ "values" \in DOMAIN m => getStrSlice(p, "values") = m.values
    /\ "count" \in DOMAIN m => getFloat(p, "count") = m.count
    /\ m.op = "list.range" => getFloat(p, "start") = m.start /\ getFloat(p, "stop") = m.stop
    /\ "members" \in DOMAIN m => getStrSlice(p, "members") = m.members
    /\ "member" \in DOMAIN m => getStr(p, "member") = m.member /\ Has(p, "member") /\ p["member"] = m.member

(* payload p keeps what the payload q of a method has: nil pointers apart, *)
(* it has the same fields and values.                                      *)
Keeps(p, q) ==
    /\ \A f \in DOMAIN q : q[f] # Nil => f \in DOMAIN p /\ p[f] = q[f]
    /\ \A f \in DOMAIN p : f \in DOMAIN q /\ p[f] = q[f]

(* payloadToMap keeps a payload, and JSON does when it is UTF-8. *)
LEMMA PayloadKept ==
    ASSUME NEW X, NEW q, \A f \in DOMAIN q : IsFlat(X, q[f])
    PROVE  /\ Keeps(payloadToMap(q), q)
           /\ X \cap Binary = {} => Keeps(throughJson(q), q)
<1>1. Keeps(payloadToMap(q), q)
  BY DEF Keeps, payloadToMap
<1>2. ASSUME X \cap Binary = {}
      PROVE  Keeps(throughJson(q), q)
  <2>1. \A f \in DOMAIN q : Json(q[f]) = q[f]
    BY <1>2, FlatKept
  <2> QED
    BY <2>1 DEF Keeps, throughJson
<1> QED
  BY <1>1, <1>2

(* getStr returns the string that is there. *)
LEMMA TextRead ==
    ASSUME NEW X, NEW p, NEW f, f \in DOMAIN p, p[f] \in Texts(X)
    PROVE  getStr(p, f) = p[f] /\ Has(p, f)
BY TextShape DEF getStr, Has, printed

(* getStrSlice returns the strings that are there. *)
LEMMA TextsRead ==
    ASSUME NEW X, NEW p, NEW f, f \in DOMAIN p, NEW s \in Seq(Texts(X)), p[f] = Arr(s)
    PROVE  getStrSlice(p, f) = s
<1>1. p[f][1] = "arr" /\ p[f][2] = s
  BY DEF Arr
<1>2. \A i \in DOMAIN s : printed(s[i]) = s[i]
  BY TextShape DEF printed
<1>3. [i \in DOMAIN s |-> printed(s[i])] = s
  BY <1>2
<1> QED
  BY <1>1, <1>3 DEF getStrSlice, Has

(* getFloat returns the number that is there, and 0 for none. *)
LEMMA NumberRead ==
    ASSUME NEW p, NEW f, NEW n \in Int
    PROVE  /\ f \in DOMAIN p /\ p[f] = I64(n) => getFloat(p, f) = n
           /\ f \notin DOMAIN p \/ p[f] = Nil => getFloat(p, f) = 0
BY DEF getFloat, Has, I64, Nil

(* Values the methods put into payloads and the server into replies are    *)
(* flat.                                                                   *)
LEMMA FlatLeaves ==
    ASSUME NEW X
    PROVE  /\ \A v \in Texts(X) : IsFlat(X, v)
           /\ \A n \in Int : IsFlat(X, I64(n))
           /\ \A v \in Ints : IsFlat(X, v)
           /\ \A b \in BOOLEAN : IsFlat(X, Bool(b))
           /\ IsFlat(X, Nil)
           /\ \A s \in Seq(Texts(X)) : IsFlat(X, Arr(s))
<1>1. ASSUME NEW s \in Seq(Texts(X))
      PROVE  IsFunction(s) /\ \A x \in DOMAIN s : s[x] \in Texts(X)
  BY DEF IsFunction
<1>2. \A s \in Seq(Texts(X)) : IsFlat(X, Arr(s))
  BY <1>1 DEF IsFlat
<1>3. /\ \A n \in Int : I64(n) \in Scalars
      /\ \A v \in Ints : v \in Scalars
      /\ \A b \in BOOLEAN : Bool(b) \in Scalars
      /\ Nil \in Scalars
  BY DEF Scalars, Ints
<1> QED
  BY <1>2, <1>3 DEF IsFlat

(* The payload of a KV method is flat and carries its arguments. *)
LEMMA KvPayload ==
    ASSUME NEW X, NEW m \in KvCalls(Texts(X))
    PROVE  /\ \A f \in DOMAIN kvPayload(m) : IsFlat(X, kvPayload(m)[f])
           /\ \A p : Keeps(p, kvPayload(m)) => Carries(p, m)
<1>1. CASE m.op = "kv.set"
  <2>1. PICK n \in Nat : m.ttl = 1000 * n
    BY <1>1 DEF KvCalls
  <2>2. /\ m.value \in Texts(X) /\ DOMAIN m = {"op", "value", "ttl"}
        /\ m.ttl \div 1000 = n
        /\ kvPayload(m) = [value |-> m.value, ttl |-> IF n > 0 THEN I64(n) ELSE Nil]
    BY <1>1, <2>1 DEF KvCalls, kvPayload
  <2>3. \A f \in DOMAIN kvPayload(m) : IsFlat(X, kvPayload(m)[f])
    BY <2>2, FlatLeaves
  <2>4. ASSUME NEW p, Keeps(p, kvPayload(m))
        PROVE  Carries(p, m)
    <3>1. "value" \in DOMAIN p /\ p["value"] = m.value
      BY <2>2, <2>4, TextShape DEF Keeps
    <3>2. IF n > 0 THEN "ttl" \in DOMAIN p /\ p["ttl"] = I64(n)
                   ELSE "ttl" \notin DOMAIN p \/ p["ttl"] = Nil
      BY <2>2, <2>4 DEF Keeps, I64, Nil
    <3>3. getFloat(p, "ttl") = n
      BY <3>2, NumberRead
    <3> QED
      BY <1>1, <2>2, <3>1, <3>3, TextRead DEF Carries
  <2> QED
    BY <2>3, <2>4
<1>2. CASE m.op # "kv.set"
  <2>1. kvPayload(m) = <<>> /\ DOMAIN m = {"op"} /\ m.op \notin {"hash.del", "list.range"}
    BY <1>2 DEF kvPayload, KvCalls
  <2> QED
    BY <2>1 DEF Carries
<1> QED
  BY <1>1, <1>2

(* The payload of a hash method is flat and carries its arguments. *)
LEMMA HashPayload ==
    ASSUME NEW X, NEW m \in HashCalls(Texts(X), Texts(X))
    PROVE  /\ \A f \in DOMAIN hashPayload(m) : IsFlat(X, hashPayload(m)[f])
           /\ \A p : Keeps(p, hashPayload(m)) => Carries(p, m)
<1>1. CASE m.op = "hash.set"
  <2>1. /\ m.field \in Texts(X) /\ m.value \in Texts(X) /\ DOMAIN m = {"op", "field", "value"}
        /\ hashPayload(m) = [field |-> m.field, value |-> m.value]
    BY <1>1 DEF HashCalls, hashPayload
  <2>2. ASSUME NEW p, Keeps(p, hashPayload(m))
        PROVE  Carries(p, m)
    <3>1. /\ "value" \in DOMAIN p /\ p["value"] = m.value
          /\ "field" \in DOMAIN p /\ p["field"] = m.field
      BY <2>1, <2>2, TextShape DEF Keeps
    <3> QED
      BY <1>1, <2>1, <3>1, TextRead DEF Carries
  <2> QED
    BY <2>1, <2>2, FlatLeaves
<1>2. CASE m.op = "hash.del"
  <2>1. /\ m.field \in Texts(X) /\ DOMAIN m = {"op", "field"}
        /\ hashPayload(m) = [field |-> m.field, fields |-> Arr(<<m.field>>)]
        /\ <<m.field>> \in Seq(Texts(X))
    BY <1>2 DEF HashCalls, hashPayload
  <2>2. ASSUME NEW p, Keeps(p, hashPayload(m))
        PROVE  Carries(p, m)
    <3>1. /\ "fields" \in DOMAIN p /\ p["fields"] = Arr(<<m.field>>)
          /\ "field" \in DOMAIN p /\ p["field"] = m.field
      BY <2>1, <2>2, TextShape DEF Keeps, Arr, Nil
    <3>2. getStrSlice(p, "fields") = <<m.field>>
      BY <2>1, <3>1, TextsRead
    <3> QED
      BY <1>2, <2>1, <3>1, <3>2, TextRead DEF Carries
  <2>3. IsFlat(X, m.field) /\ IsFlat(X, Arr(<<m.field>>))
    BY <2>1, FlatLeaves
  <2> QED
    BY <2>1, <2>2, <2>3
<1>3. CASE m.op \in {"hash.get", "hash.exists"}
  <2>1. /\ m.field \in Texts(X) /\ DOMAIN m = {"op", "field"}
        /\ hashPayload(m) = [field |-> m.field]
    BY <1>3 DEF HashCalls, hashPayload
  <2>2. ASSUME NEW p, Keeps(p, hashPayload(m))
        PROVE  Carries(p, m)
    <3>1. "field" \in DOMAIN p /\ p["field"] = m.field
      BY <2>1, <2>2, TextShape DEF Keeps
    <3> QED
      BY <1>3, <2>1, <3>1, TextRead DEF Carries
  <2> QED
    BY <2>1, <2>2, FlatLeaves
<1>4. CASE m.op = "hash.getall"
  <2>1. hashPayload(m) = <<>> /\ DOMAIN m = {"op"}
    BY <1>4 DEF hashPayload, HashCalls
  <2> QED
    BY <1>4, <2>1 DEF Carries
<1> QED
  BY <1>1, <1>2, <1>3, <1>4 DEF HashCalls

(* The payload of a list method is flat and carries its arguments. *)
LEMMA ListPayload ==
    ASSUME NEW X, NEW m \in ListCalls(Texts(X))
    PROVE  /\ \A f \in DOMAIN listPayload(m) : IsFlat(X, listPayload(m)[f])
           /\ \A p : Keeps(p, listPayload(m)) => Carries(p, m)
<1>1. CASE m.op \in {"list.lpush", "list.rpush"}
  <2>1. /\ m.values \in Seq(Texts(X)) /\ DOMAIN m = {"op", "values"}
        /\ listPayload(m) = [values |-> Arr(m.values)]
    BY <1>1 DEF ListCalls, listPayload
  <2>2. ASSUME NEW p, Keeps(p, listPayload(m))
        PROVE  Carries(p, m)
    <3>1. "values" \in DOMAIN p /\ p["values"] = Arr(m.values)
      BY <2>1, <2>2 DEF Keeps, Arr, Nil
    <3>2. getStrSlice(p, "values") = m.values
      BY <2>1, <3>1, TextsRead
    <3> QED
      BY <1>1, <2>1, <3>2 DEF Carries
  <2>3. IsFlat(X, Arr(m.values))
    BY <2>1, FlatLeaves
  <2> QED
    BY <2>1, <2>2, <2>3
<1>2. CASE m.op \in {"list.lpop", "list.rpop"}
  <2>1. /\ m.count \in Nat /\ DOMAIN m = {"op", "count"}
        /\ listPayload(m) = IF m.count > 0 THEN [count |-> I64(m.count)] ELSE <<>>
    BY <1>2 DEF ListCalls, listPayload
  <2>2. ASSUME NEW p, Keeps(p, listPayload(m))
        PROVE  Carries(p, m)
    <3>1. IF m.count > 0 THEN "count" \in DOMAIN p /\ p["count"] = I64(m.count)
                         ELSE "count" \notin DOMAIN p
      BY <2>1, <2>2 DEF Keeps, I64, Nil
    <3>2. getFloat(p, "count") = m.count
      BY <2>1, <3>1, NumberRead
    <3> QED
      BY <1>2, <2>1, <3>2 DEF Carries
  <2>3. IsFlat(X, I64(m.count))
    BY <2>1, FlatLeaves
  <2> QED
    BY <2>1, <2>2, <2>3
<1>3. CASE m.op = "list.range"
  <2>1. /\ m.start \in Int /\ m.stop \in Int /\ DOMAIN m = {"op", "start", "stop"}
        /\ listPayload(m) = [start |-> I64(m.start), stop |-> I64(m.stop)]
    BY <1>3 DEF ListCalls, listPayload
  <2>2. ASSUME NEW p, Keeps(p, listPayload(m))
        PROVE  Carries(p, m)
    <3>1. /\ "start" \in DOMAIN p /\ p["start"] = I64(m.start)
          /\ "stop" \in DOMAIN p /\ p["stop"] = I64(m.stop)
      BY <2>1, <2>2 DEF Keeps, I64, Nil
    <3>2. getFloat(p, "start") = m.start /\ getFloat(p, "stop") = m.stop
      BY <2>1, <3>1, NumberRead
    <3> QED
      BY <1>3, <2>1, <3>2 DEF Carries
  <2>3. IsFlat(X, I64(m.start)) /\ IsFlat(X, I64(m.stop))
    BY <2>1, FlatLeaves
  <2> QED
    BY <2>1, <2>2, <2>3
<1>4. CASE m.op = "list.len"
  <2>1. listPayload(m) = <<>> /\ DOMAIN m = {"op"}
    BY <1>4 DEF listPayload, ListCalls
  <2> QED
    BY <1>4, <2>1 DEF Carries
<1> QED
  BY <1>1, <1>2, <1>3, <1>4 DEF ListCalls

(* The payload of a set method is flat and carries its arguments. *)
LEMMA SetPayload ==
    ASSUME NEW X, NEW m \in SetCalls(Texts(X))
    PROVE  /\ \A f \in DOMAIN setPayload(m) : IsFlat(X, setPayload(m)[f])
           /\ \A p : Keeps(p, setPayload(m)) => Carries(p, m)
<1>1. CASE m.op \in {"set.add", "set.rem"}
  <2>1. /\ m.members \in Seq(Texts(X)) /\ DOMAIN m = {"op", "members"}
        /\ setPayload(m) = [members |-> Arr(m.members)]
    BY <1>1 DEF SetCalls, setPayload
  <2>2. ASSUME NEW p, Keeps(p, setPayload(m))
        PROVE  Carries(p, m)
    <3>1. "members" \in DOMAIN p /\ p["members"] = Arr(m.members)
      BY <2>1, <2>2 DEF Keeps, Arr, Nil
    <3>2. getStrSlice(p, "members") = m.members
      BY <2>1, <3>1, TextsRead
    <3> QED
      BY <1>1, <2>1, <3>2 DEF Carries
  <2>3. IsFlat(X, Arr(m.members))
    BY <2>1, FlatLeaves
  <2> QED
    BY <2>1, <2>2, <2>3
<1>2. CASE m.op = "set.ismember"
  <2>1. /\ m.member \in Texts(X) /\ DOMAIN m = {"op", "member"}
        /\ setPayload(m) = [member |-> m.member]
    BY <1>2 DEF SetCalls, setPayload
  <2>2. ASSUME NEW p, Keeps(p, setPayload(m))
        PROVE  Carries(p, m)
    <3>1. "member" \in DOMAIN p /\ p["member"] = m.member
      BY <2>1, <2>2, TextShape DEF Keeps
    <3> QED
      BY <1>2, <2>1, <3>1, TextRead DEF Carries
  <2> QED
    BY <2>1, <2>2, FlatLeaves
<1>3. CASE m.op \in {"set.members", "set.card"}
  <2>1. setPayload(m) = <<>> /\ DOMAIN m = {"op"}
    BY <1>3 DEF setPayload, SetCalls
  <2> QED
    BY <1>3, <2>1 DEF Carries
<1> QED
  BY <1>1, <1>2, <1>3 DEF SetCalls
-----------------------------------------------------------------------------
(* The server is told lifetimes in seconds. *)
InSeconds(m) == IF m.op = "kv.set" THEN [m EXCEPT !.ttl = @ \div 1000] ELSE m

(* The calls of the four data modules with strings of X. *)
DataCalls(X) ==
    KvCalls(Texts(X)) \cup HashCalls(Texts(X), Texts(X)) \cup ListCalls(Texts(X)) \cup SetCalls(Texts(X))

(* Payload p becomes a command with the meaning of m, whose arguments are  *)
(* scalars.                                                                *)
Commanded(X, m, p) ==
    \E cmd : \E args \in Seq(Texts(X \cup {"EX"}) \cup Scalars) :
        /\ dataCommand(m.op, p) = Wire(cmd, args)
        /\ dataMeaning(Wire(cmd, args)) = InSeconds(m)

(* mapCommandToWire makes a command of every payload that carries the      *)
(* arguments of its call, and the server reads the call from the command.  *)
LEMMA DataCommand ==
    ASSUME NEW X, NEW m \in DataCalls(X), NEW p, Carries(p, m)
    PROVE  Commanded(X, m, p)
<1> DEFINE A == Texts(X \cup {"EX"}) \cup Scalars
<1>0. Texts(X) \subseteq A /\ Str("EX") \in A /\ \A n \in Int : I64(n) \in A
  BY DEF Scalars, Ints, Texts
<1>w. ASSUME NEW cmd, NEW args \in Seq(A), dataCommand(m.op, p) = Wire(cmd, args),
             dataMeaning(Wire(cmd, args)) = InSeconds(m)
      PROVE  Commanded(X, m, p)
  BY <1>w DEF Commanded
<1>s. m.op # "kv.set" => InSeconds(m) = m
  BY DEF InSeconds
<1> HIDE DEF A
<1>1. CASE m.op = "kv.set"
  <2>1. PICK n \in Nat : m.ttl = 1000 * n
    BY <1>1 DEF KvCalls, DataCalls, HashCalls, ListCalls, SetCalls
  <2>2. m.value \in Texts(X) /\ m = [op |-> "kv.set", value |-> m.value, ttl |-> m.ttl]
    BY <1>1 DEF KvCalls, DataCalls, HashCalls, ListCalls, SetCalls
  <2>3. getStr(p, "value") = m.value /\ getFloat(p, "ttl") = n
    BY <2>1, <2>2 DEF Carries
  <2>4. PICK option : option = IF n > 0 THEN <<Str("EX"), I64(n)>> ELSE <<>>
    OBVIOUS
  <2>5. PICK args : args = <<m.value>> \o option
    OBVIOUS
  <2>6. dataCommand("kv.set", p) = Wire("SET", args)
    BY <2>3, <2>4, <2>5 DEF dataCommand
  <2>7. /\ <<m.value>> \in Seq(A) /\ option \in Seq(A)
        /\ Len(<<m.value>>) = 1 /\ <<m.value>>[1] = m.value
        /\ IF n > 0 THEN Len(option) = 2 /\ option[2] = I64(n) ELSE Len(option) = 0
    BY <1>0, <2>2, <2>4
  <2>8. /\ args \in Seq(A) /\ args[1] = m.value
        /\ IF n > 0 THEN Len(args) = 3 /\ args[3][2] = n ELSE Len(args) = 1
    BY <2>5, <2>7, ConcatProperties DEF I64
  <2>9. dataMeaning(Wire("SET", args)) = [op |-> "kv.set", value |-> m.value, ttl |-> n]
    BY <2>8 DEF dataMeaning, Wire
  <2>10. InSeconds(m) = [op |-> "kv.set", value |-> m.value, ttl |-> n]
    BY <1>1, <2>1, <2>2 DEF InSeconds
  <2> QED
    BY <1>1, <1>w, <2>6, <2>8, <2>9, <2>10
<1>2. CASE m.op = "hash.set"
  <2>1. /\ m.field \in Texts(X) /\ m.value \in Texts(X)
        /\ m = [op |-> "hash.set", field |-> m.field, value |-> m.value]
    BY <1>2 DEF KvCalls, DataCalls, HashCalls, ListCalls, SetCalls
  <2>2. dataCommand("hash.set", p) = Wire("HSET", <<m.field, m.value>>)
    BY <2>1 DEF Carries, dataCommand
  <2>3. dataMeaning(Wire("HSET", <<m.field, m.value>>)) = m
    BY <2>1 DEF dataMeaning, Wire
  <2>4. <<m.field, m.value>> \in Seq(A)
    BY <1>0, <2>1
  <2> QED
    BY <1>2, <1>s, <1>w, <2>2, <2>3, <2>4
<1>3. CASE m.op \in {"hash.get", "hash.del", "hash.exists", "set.ismember"}
  <2>1. PICK arg \in Texts(X) :
            m = IF m.op = "set.ismember" THEN [op |-> m.op, member |-> arg] ELSE [op |-> m.op, field |-> arg]
    BY <1>3 DEF KvCalls, DataCalls, HashCalls, ListCalls, SetCalls
  <2>2. PICK cmd : cmd = CASE m.op = "hash.get" -> "HGET"
                           [] m.op = "hash.del" -> "HDEL"
                           [] m.op = "hash.exists" -> "HEXISTS"
                           [] m.op = "set.ismember" -> "SISMEMBER"
    OBVIOUS
  <2>3. <<arg>> # <<>>
    OBVIOUS
  <2>4. dataCommand(m.op, p) = Wire(cmd, <<arg>>)
    BY <1>3, <2>1, <2>2, <2>3 DEF Carries, dataCommand
  <2>5. dataMeaning(Wire(cmd, <<arg>>)) = m
    BY <1>3, <2>1, <2>2 DEF dataMeaning, Wire
  <2>6. <<arg>> \in Seq(A)
    BY <1>0
  <2> QED
    BY <1>3, <1>s, <1>w, <2>4, <2>5, <2>6
<1>4. CASE m.op \in {"list.lpush", "list.rpush", "set.add", "set.rem"}
  <2>1. PICK args \in Seq(Texts(X)) :
            m = IF m.op \in {"set.add", "set.rem"} THEN [op |-> m.op, members |-> args]
                                                  ELSE [op |-> m.op, values |-> args]
    BY <1>4 DEF KvCalls, DataCalls, HashCalls, ListCalls, SetCalls
  <2>2. PICK cmd : cmd = CASE m.op = "list.lpush" -> "LPUSH"
                           [] m.op = "list.rpush" -> "RPUSH"
                           [] m.op = "set.add" -> "SADD"
                           [] m.op = "set.rem" -> "SREM"
    OBVIOUS
  <2>3. dataCommand(m.op, p) = Wire(cmd, args)
    BY <1>4, <2>1, <2>2 DEF Carries, dataCommand
  <2>4. dataMeaning(Wire(cmd, args)) = m
    BY <1>4, <2>1, <2>2 DEF dataMeaning, Wire
  <2>5. args \in Seq(A)
    BY <1>0
  <2> QED
    BY <1>4, <1>s, <1>w, <2>3, <2>4, <2>5
<1>5. CASE m.op \in {"list.lpop", "list.rpop"}
  <2>1. PICK n \in Nat : m = [op |-> m.op, count |-> n]
    BY <1>5 DEF KvCalls, DataCalls, HashCalls, ListCalls, SetCalls
  <2>2. PICK cmd : cmd = IF m.op = "list.lpop" THEN "LPOP" ELSE "RPOP"
    OBVIOUS
  <2>3. dataCommand(m.op, p) = Wire(cmd, <<I64(n)>>)
    BY <1>5, <2>1, <2>2 DEF Carries, dataCommand
  <2>4. dataMeaning(Wire(cmd, <<I64(n)>>)) = m
    BY <1>5, <2>1, <2>2 DEF dataMeaning, Wire, I64
  <2>5. <<I64(n)>> \in Seq(A)
    BY <1>0
  <2> QED
    BY <1>5, <1>s, <1>w, <2>3, <2>4, <2>5
<1>6. CASE m.op = "list.range"
  <2>1. /\ m.start \in Int /\ m.stop \in Int
        /\ m = [op |-> "list.range", start |-> m.start, stop |-> m.stop]
    BY <1>6 DEF KvCalls, DataCalls, HashCalls, ListCalls, SetCalls
  <2>2. dataCommand("list.range", p) = Wire("LRANGE", <<I64(m.start), I64(m.stop)>>)
    BY <1>6, <2>1 DEF Carries, dataCommand
  <2>3. dataMeaning(Wire("LRANGE", <<I64(m.start), I64(m.stop)>>)) = m
    BY <2>1 DEF dataMeaning, Wire, I64
  <2>4. <<I64(m.start), I64(m.stop)>> \in Seq(A)
    BY <1>0, <2>1
  <2> QED
    BY <1>6, <1>s, <1>w, <2>2, <2>3, <2>4
<1>7. CASE m.op \in {"kv.get", "kv.del", "kv.exists", "kv.incr", "kv.decr", "hash.getall", "list.len",
                     "set.members", "set.card"}
  <2>1. m = [op |-> m.op]
    BY <1>7 DEF KvCalls, DataCalls, HashCalls, ListCalls, SetCalls
  <2>2. PICK cmd : cmd = CASE m.op = "kv.get" -> "GET"
                           [] m.op = "kv.del" -> "DEL"
                           [] m.op = "kv.exists" -> "EXISTS"
                           [] m.op = "kv.incr" -> "INCR"
                           [] m.op = "kv.decr" -> "DECR"
                           [] m.op = "hash.getall" -> "HGETALL"
                           [] m.op = "list.len" -> "LLEN"
                           [] m.op = "set.members" -> "SMEMBERS"
                           [] m.op = "set.card" -> "SCARD"
    OBVIOUS
  <2>3. dataCommand(m.op, p) = Wire(cmd, <<>>)
    BY <1>7, <2>2 DEF dataCommand
  <2>4. dataMeaning(Wire(cmd, <<>>)) = m
    BY <1>7, <2>1, <2>2 DEF dataMeaning, Wire
  <2>5. <<>> \in Seq(A)
    OBVIOUS
  <2> QED
    BY <1>7, <1>s, <1>w, <2>3, <2>4, <2>5
<1> QED
  BY <1>1, <1>2, <1>3, <1>4, <1>5, <1>6, <1>7 DEF DataCalls, KvCalls, HashCalls, ListCalls, SetCalls

(* The server reads the call from the HTTP envelope as well. *)
LEMMA DataEnvelope ==
    ASSUME NEW X, NEW m \in DataCalls(X) \cup [op : {"kv.stats"}], NEW p, Carries(p, m)
    PROVE  dataEnvelope(m, p) = InSeconds(m)
<1> USE DEF DataCalls, KvCalls, HashCalls, ListCalls, SetCalls
<1>1. CASE m.op = "kv.set"
  <2>1. m = [op |-> "kv.set", value |-> m.value, ttl |-> m.ttl]
    BY <1>1
  <2>2. dataEnvelope(m, p) = [f \in {"op", "value", "ttl"} |->
            CASE f = "op" -> "kv.set" [] f = "ttl" -> m.ttl \div 1000 [] OTHER -> m.value]
    BY <1>1, <2>1 DEF dataEnvelope, Carries
  <2> QED
    BY <1>1, <2>1, <2>2 DEF InSeconds
<1>2. CASE m.op = "hash.set"
  <2>1. m = [op |-> "hash.set", field |-> m.field, value |-> m.value]
    BY <1>2
  <2> QED
    BY <1>2, <2>1 DEF dataEnvelope, Carries, InSeconds
<1>3. CASE m.op \in {"hash.get", "hash.del", "hash.exists"}
  <2>1. m = [op |-> m.op, field |-> m.field]
    BY <1>3
  <2> QED
    BY <1>3, <2>1 DEF dataEnvelope, Carries, InSeconds
<1>4. CASE m.op = "set.ismember"
  <2>1. m = [op |-> m.op, member |-> m.member]
    BY <1>4
  <2> QED
    BY <1>4, <2>1 DEF dataEnvelope, Carries, InSeconds
<1>5. CASE m.op \in {"list.lpush", "list.rpush"}
  <2>1. m = [op |-> m.op, values |-> m.values]
    BY <1>5
  <2> QED
    BY <1>5, <2>1 DEF dataEnvelope, Carries, InSeconds
<1>6. CASE m.op \in {"set.add", "set.rem"}
  <2>1. m = [op |-> m.op, members |-> m.members]
    BY <1>6
  <2> QED
    BY <1>6, <2>1 DEF dataEnvelope, Carries, InSeconds
<1>7. CASE m.op \in {"list.lpop", "list.rpop"}
  <2>1. m = [op |-> m.op, count |-> m.count]
    BY <1>7
  <2> QED
    BY <1>7, <2>1 DEF dataEnvelope, Carries, InSeconds
<1>8. CASE m.op = "list.range"
  <2>1. m = [op |-> m.op, start |-> m.start, stop |-> m.stop]
    BY <1>8
  <2> QED
    BY <1>8, <2>1 DEF dataEnvelope, Carries, InSeconds
<1>9. CASE m = [op |-> m.op] /\ m.op # "kv.set"
  BY <1>9 DEF dataEnvelope, InSeconds
<1> QED
  BY <1>1, <1>2, <1>3, <1>4, <1>5, <1>6, <1>7, <1>8, <1>9

-----------------------------------------------------------------------------
(* The server's data while only the data modules are in use, with strings  *)
(* of X.                                                                   *)
DataStore(X) ==
    [kv : {Nil} \cup Texts(X), expires : BOOLEAN,
     hash : UNION {[D -> Texts(X)] : D \in SUBSET Texts(X)},
     list : Seq(Texts(X)), set : SUBSET Texts(X),
     queue : {Promise!NoQueue}, issued : {0}, room : {Promise!NoRoom}, generations : {0},
     subs : {<<>>}, sent : {Nil}]

(* What Cardinality and SetToSeq can be asked about. *)
Finite(s) == IsFiniteSet(DOMAIN s.hash) /\ IsFiniteSet(s.set)

(* DataService, instantiated, has the values and helpers of this module. *)
LEMMA SameValues ==
    /\ Promise!Nil = Nil /\ Promise!Failed = Failed /\ Promise!Done = Done
    /\ \A x : /\ Promise!Str(x) = Str(x) /\ Promise!Num(x) = Num(x) /\ Promise!I64(x) = I64(x)
              /\ Promise!Bool(x) = Bool(x) /\ Promise!Arr(x) = Arr(x) /\ Promise!Obj(x) = Obj(x)
              /\ Promise!Reverse(x) = Reverse(x) /\ Promise!ToSet(x) = ToSet(x)
              /\ Promise!SetToSeq(x) = SetToSeq(x) /\ Promise!Cardinality(x) = Cardinality(x)
<1>1. /\ Promise!Nil = Nil /\ Promise!Failed = Failed /\ Promise!Done = Done
      /\ \A x : /\ Promise!Str(x) = Str(x) /\ Promise!Num(x) = Num(x) /\ Promise!I64(x) = I64(x)
                /\ Promise!Bool(x) = Bool(x) /\ Promise!Arr(x) = Arr(x) /\ Promise!Obj(x) = Obj(x)
  BY DEF Promise!Nil, Nil, Promise!Failed, Failed, Promise!Done, Done, Promise!Str, Str, Promise!Num,
         Num, Promise!I64, I64, Promise!Bool, Bool, Promise!Arr, Arr, Promise!Obj, Obj
<1>2. \A x : Promise!Reverse(x) = Reverse(x) /\ Promise!ToSet(x) = ToSet(x)
  BY DEF Promise!Reverse, Reverse, Promise!ToSet, ToSet
<1>3. \A x : Promise!Cardinality(x) = Cardinality(x)
  BY DEF Promise!Cardinality, Cardinality, Promise!IsFiniteSet, IsFiniteSet
<1>4. \A x : Promise!SetToSeq(x) = SetToSeq(x)
  BY <1>3 DEF Promise!SetToSeq, SetToSeq, Promise!IsInjective, IsInjective
<1> QED
  BY <1>1, <1>2, <1>3, <1>4

(* The data methods have their part of Effect and Result, which seconds    *)
(* instead of milliseconds do not change.                                  *)
LEMMA DataOps ==
    ASSUME NEW X, NEW m \in DataCalls(X) \cup [op : {"kv.stats"}], NEW s
    PROVE  /\ Promise!Effect(m, s) = Promise!DataEffect(m, s)
           /\ Promise!Result(m, s) = Promise!DataResult(m, s)
           /\ Promise!Effect(InSeconds(m), s) = Promise!DataEffect(m, s)
           /\ Promise!Result(InSeconds(m), s) = Promise!DataResult(m, s)
           /\ InSeconds(m).op = m.op
           /\ m.op # "pubsub.subscribe"
<1> USE DEF DataCalls, KvCalls, HashCalls, ListCalls, SetCalls
<1>1. /\ m.op # "none" /\ m.op \notin Promise!QueueMethods
      /\ m.op \notin Promise!StreamMethods /\ m.op \notin Promise!PubSubMethods
  BY DEF Promise!QueueMethods, Promise!StreamMethods, Promise!PubSubMethods
<1>2. CASE m.op = "kv.set"
  <2>1. PICK n \in Nat : m.ttl = 1000 * n
    BY <1>2
  <2>2. m = [op |-> "kv.set", value |-> m.value, ttl |-> m.ttl]
    BY <1>2
  <2>3. /\ InSeconds(m).op = "kv.set" /\ InSeconds(m).value = m.value
        /\ (InSeconds(m).ttl > 0) = (m.ttl > 0)
    BY <2>1, <2>2 DEF InSeconds
  <2>4. /\ Promise!DataEffect(InSeconds(m), s) = Promise!DataEffect(m, s)
        /\ Promise!DataResult(InSeconds(m), s) = Promise!DataResult(m, s)
    BY <1>2, <2>3 DEF Promise!DataEffect, Promise!DataResult
  <2> QED
    BY <1>1, <1>2, <2>3, <2>4 DEF Promise!Effect, Promise!Result
<1>3. CASE m.op # "kv.set"
  BY <1>1, <1>3 DEF InSeconds, Promise!Effect, Promise!Result
<1>4. m.op # "pubsub.subscribe"
  OBVIOUS
<1> QED
  BY <1>2, <1>3, <1>4
(* The data stay what callers put there, and finite. *)
LEMMA EffectTyped ==
    ASSUME NEW X, NEW m \in DataCalls(X) \cup [op : {"kv.stats"}], NEW s \in DataStore(X), Finite(s)
    PROVE  Promise!DataEffect(m, s) \in DataStore(X) /\ Finite(Promise!DataEffect(m, s))
<1> DEFINE T == Texts(X)
<1>0. /\ Nil \in {Nil} \cup T /\ \A n \in Int : Num(n) \in T
      /\ s.list \in Seq(T) /\ s.set \subseteq T /\ s.hash \in [DOMAIN s.hash -> T]
      /\ DOMAIN s.hash \subseteq T
  BY DEF Texts, DataStore
<1>1. ASSUME NEW k \in {Nil} \cup T, NEW e \in BOOLEAN
      PROVE  [s EXCEPT !.kv = k, !.expires = e] \in DataStore(X) /\ Finite([s EXCEPT !.kv = k, !.expires = e])
  BY <1>1 DEF DataStore, Finite
<1>2. ASSUME NEW k \in {Nil} \cup T
      PROVE  [s EXCEPT !.kv = k] \in DataStore(X) /\ Finite([s EXCEPT !.kv = k])
  BY <1>2 DEF DataStore, Finite
<1>3. ASSUME NEW l \in Seq(T)
      PROVE  [s EXCEPT !.list = l] \in DataStore(X) /\ Finite([s EXCEPT !.list = l])
  BY <1>3 DEF DataStore, Finite
<1>4. ASSUME NEW c \in SUBSET T, IsFiniteSet(c)
      PROVE  [s EXCEPT !.set = c] \in DataStore(X) /\ Finite([s EXCEPT !.set = c])
  BY <1>4 DEF DataStore, Finite
<1>5. ASSUME NEW D \in SUBSET T, NEW h \in [D -> T], IsFiniteSet(D)
      PROVE  [s EXCEPT !.hash = h] \in DataStore(X) /\ Finite([s EXCEPT !.hash = h])
  BY <1>5 DEF DataStore, Finite
<1> HIDE DEF T
<1>6. CASE m.op = "kv.set"
  <2>1. m.value \in {Nil} \cup T /\ m.ttl \in Nat
    BY <1>6 DEF T, DataCalls, KvCalls, HashCalls, ListCalls, SetCalls
  <2>2. Promise!DataEffect(m, s) = [s EXCEPT !.kv = m.value, !.expires = m.ttl > 0]
    BY <1>6, SameValues DEF Promise!DataEffect
  <2>3. [s EXCEPT !.kv = m.value, !.expires = m.ttl > 0] =
            IF m.ttl > 0 THEN [s EXCEPT !.kv = m.value, !.expires = TRUE]
                         ELSE [s EXCEPT !.kv = m.value, !.expires = FALSE]
    <3>1. (m.ttl > 0) = TRUE \/ (m.ttl > 0) = FALSE
      OBVIOUS
    <3> QED
      BY <3>1, Zenon
  <2>4. /\ [s EXCEPT !.kv = m.value, !.expires = TRUE] \in DataStore(X)
        /\ Finite([s EXCEPT !.kv = m.value, !.expires = TRUE])
        /\ [s EXCEPT !.kv = m.value, !.expires = FALSE] \in DataStore(X)
        /\ Finite([s EXCEPT !.kv = m.value, !.expires = FALSE])
    BY <1>1, <2>1, Zenon
  <2> QED
    BY <2>2, <2>3, <2>4
<1>7. CASE m.op = "kv.del"
  <2>1. Promise!DataEffect(m, s) = [s EXCEPT !.kv = Nil, !.expires = FALSE]
    BY <1>7, SameValues DEF Promise!DataEffect
  <2>2. Nil \in {Nil} \cup T /\ FALSE \in BOOLEAN
    OBVIOUS
  <2> QED
    BY <1>1, <2>1, <2>2, Zenon
<1>8. CASE m.op \in {"kv.incr", "kv.decr"}
  <2>1. CASE Promise!IsCounter(s)
    <3>1. Promise!CountOf(s) \in Int
      <4>1. s.kv \in {Nil} \cup Texts(X) /\ s.kv[1] \in {"nil", "num"}
        BY <2>1 DEF Promise!IsCounter, DataStore
      <4>2. s.kv # Nil => s.kv[2] \in Int
        BY <4>1, TextShape
      <4> QED
        BY <4>2, SameValues DEF Promise!CountOf
    <3>2. PICK n \in Int : Promise!DataEffect(m, s) = [s EXCEPT !.kv = Num(n)]
      <4>1. CASE m.op = "kv.incr"
        BY <4>1, <2>1, <3>1, SameValues DEF Promise!DataEffect
      <4>2. CASE m.op = "kv.decr"
        BY <4>2, <2>1, <3>1, SameValues DEF Promise!DataEffect
      <4> QED
        BY <1>8, <4>1, <4>2
    <3> QED
      BY <1>0, <1>2, <3>2
  <2>2. CASE ~Promise!IsCounter(s)
    BY <1>8, <2>2, SameValues DEF Promise!DataEffect
  <2> QED
    BY <2>1, <2>2
<1>9. CASE m.op = "hash.set"
  <2>1. m.field \in T /\ m.value \in T
    BY <1>9 DEF T, DataCalls, KvCalls, HashCalls, ListCalls, SetCalls
  <2>2. PICK D : D = DOMAIN s.hash \cup {m.field}
    OBVIOUS
  <2>3. PICK h : h = [f \in D |-> IF f = m.field THEN m.value ELSE s.hash[f]]
    OBVIOUS
  <2>4. D \in SUBSET T /\ h \in [D -> T]
    BY <1>0, <2>1, <2>2, <2>3
  <2>5. IsFiniteSet(D)
    BY <2>2, FS_AddElement DEF Finite
  <2>6. Promise!DataEffect(m, s) = [s EXCEPT !.hash = h]
    BY <1>9, <2>2, <2>3, SameValues DEF Promise!DataEffect
  <2> QED
    BY <1>5, <2>4, <2>5, <2>6
<1>10. CASE m.op = "hash.del"
  <2>2. PICK D : D = DOMAIN s.hash \ {m.field}
    OBVIOUS
  <2>3. PICK h : h = [f \in D |-> s.hash[f]]
    OBVIOUS
  <2>4. D \in SUBSET T /\ h \in [D -> T]
    BY <1>0, <2>2, <2>3
  <2>5. IsFiniteSet(D)
    BY <2>2, FS_RemoveElement DEF Finite
  <2>6. Promise!DataEffect(m, s) = [s EXCEPT !.hash = h]
    BY <1>10, <2>2, <2>3, SameValues DEF Promise!DataEffect
  <2> QED
    BY <1>5, <2>4, <2>5, <2>6
<1>11. CASE m.op \in {"list.lpush", "list.rpush"}
  <2>1. m.values \in Seq(T)
    BY <1>11 DEF T, DataCalls, KvCalls, HashCalls, ListCalls, SetCalls
  <2>2. m.values \o s.list \in Seq(T) /\ s.list \o m.values \in Seq(T)
    BY <1>0, <2>1
  <2>3. PICK l \in Seq(T) : Promise!DataEffect(m, s) = [s EXCEPT !.list = l]
    BY <1>11, <2>2, SameValues DEF Promise!DataEffect
  <2> QED
    BY <1>3, <2>3
<1>12. CASE m.op \in {"list.lpop", "list.rpop"}
  <2>1. m.count \in Nat
    BY <1>12 DEF DataCalls, KvCalls, HashCalls, ListCalls, SetCalls
  <2>2. Promise!Popped(m, s) \in 0 .. Len(s.list)
    BY <1>0, <2>1 DEF Promise!Popped
  <2>3. /\ SubSeq(s.list, Promise!Popped(m, s) + 1, Len(s.list)) \in Seq(T)
        /\ SubSeq(s.list, 1, Len(s.list) - Promise!Popped(m, s)) \in Seq(T)
    BY <1>0, <2>2
  <2> QED
    BY <1>3, <1>12, <2>3, SameValues DEF Promise!DataEffect
<1>13. CASE m.op \in {"set.add", "set.rem"}
  <2>1. m.members \in Seq(T)
    BY <1>13 DEF T, DataCalls, KvCalls, HashCalls, ListCalls, SetCalls
  <2>2. ToSet(m.members) \subseteq T
    BY <2>1 DEF ToSet
  <2>3. IsFiniteSet(ToSet(m.members))
    <3>1. m.members \in Surjection(1 .. Len(m.members), ToSet(m.members))
      BY <2>1 DEF ToSet, Surjection
    <3> QED
      BY <2>1, <3>1, FS_Surjection, FS_Interval
  <2>4. IsFiniteSet(s.set \cup ToSet(m.members)) /\ IsFiniteSet(s.set \ ToSet(m.members))
    BY <2>3, FS_Union, FS_Difference DEF Finite
  <2>5. s.set \cup ToSet(m.members) \in SUBSET T /\ s.set \ ToSet(m.members) \in SUBSET T
    BY <1>0, <2>2
  <2>6. PICK c \in SUBSET T : IsFiniteSet(c) /\ Promise!DataEffect(m, s) = [s EXCEPT !.set = c]
    BY <1>13, <2>4, <2>5, SameValues DEF Promise!DataEffect
  <2> QED
    BY <1>4, <2>6
<1>14. CASE m.op \in {"kv.get", "kv.exists", "kv.stats", "hash.get", "hash.getall", "hash.exists",
                      "list.range", "list.len", "set.members", "set.ismember", "set.card"}
  BY <1>14, SameValues DEF Promise!DataEffect
<1> QED
  BY <1>6, <1>7, <1>8, <1>9, <1>10, <1>11, <1>12, <1>13, <1>14
     DEF DataCalls, KvCalls, HashCalls, ListCalls, SetCalls
-----------------------------------------------------------------------------
(* A response with one flat field passes through JSON unchanged. *)
LEMMA OneFieldKept ==
    ASSUME NEW X, X \cap Binary = {}, NEW o, NEW f, DOMAIN o = {f}, IsFunction(o), IsFlat(X, o[f])
    PROVE  Json(Obj(o)) = Obj(o)
BY FieldsKept

(* Every form of a Boolean reply is read as that Boolean. *)
LEMMA Truthy ==
    ASSUME NEW b \in BOOLEAN, NEW v \in Flag(b)
    PROVE  truthy(v) = Bool(b) /\ v \in Scalars
<1>1. CASE b = TRUE
  <2>1. v = Bool(TRUE) \/ v = I64(1)
    BY <1>1 DEF Flag
  <2>2. CASE v = Bool(TRUE)
    BY <1>1, <2>2 DEF truthy, Scalars
  <2>3. CASE v = I64(1)
    <3>1. v[1] = "int" /\ v[2] > 0 /\ v \in Scalars
      BY <2>3 DEF I64, Scalars, Ints
    <3> QED
      BY <1>1, <3>1 DEF truthy
  <2> QED
    BY <2>1, <2>2, <2>3
<1>2. CASE b = FALSE
  <2>1. v = Bool(FALSE) \/ v = I64(0)
    BY <1>2 DEF Flag
  <2>2. CASE v = Bool(FALSE)
    <3>1. v # Bool(TRUE) /\ v[1] = "bool"
      BY <2>2 DEF Bool
    <3>2. v \in Scalars
      BY <2>2 DEF Scalars
    <3> QED
      BY <1>2, <3>1, <3>2 DEF truthy
  <2>3. CASE v = I64(0)
    <3>1. v # Bool(TRUE) /\ ~(v[2] > 0) /\ v \in Scalars
      BY <2>3 DEF I64, Bool, Scalars, Ints
    <3> QED
      BY <1>2, <3>1 DEF truthy
  <2> QED
    BY <2>1, <2>2, <2>3
<1> QED
  BY <1>1, <1>2

(* A reply that stands for a Boolean, read from field f of the response. *)
LEMMA FlagAnswer ==
    ASSUME NEW mode, NEW b \in BOOLEAN, NEW v \in Flag(b), NEW f,
           NEW o, DOMAIN o = {f}, IsFunction(o), o[f] = truthy(v)
    PROVE  /\ fromWire(toWire(v)) = v
           /\ Decode(mode, Obj(o), f, Scalar("bool")) = Bool(b)
           /\ Json(Obj(o)) = Obj(o)
<1>1. o[f] = Bool(b) /\ v \in Scalars
  BY Truthy
<1>2. IsFlat({}, v) /\ IsFlat({}, o[f]) /\ {} \cap Binary = {}
  BY <1>1, FlatLeaves DEF IsFlat
<1>3. fromWire(toWire(v)) = v
  BY <1>2, FlatKept
<1>4. Json(Obj(o)) = Obj(o)
  BY <1>2, OneFieldKept
<1>5. Decode(mode, Obj(o), f, Scalar("bool")) = assignScalar(mode, o[f], Scalar("bool"))
  BY DecodeOne DEF Kinds
<1> QED
  BY <1>1, <1>3, <1>4, <1>5, AssignLeaves

(* A reply that is an integer, read from field f of the response. *)
LEMMA NumberAnswer ==
    ASSUME NEW mode, NEW v \in Ints, NEW f, NEW o, DOMAIN o = {f}, IsFunction(o), o[f] = v
    PROVE  /\ fromWire(toWire(v)) = v
           /\ Decode(mode, Obj(o), f, Scalar("int")) = v
           /\ Json(Obj(o)) = Obj(o)
<1>1. IsFlat({}, v)
  BY FlatLeaves
<1>2. {} \cap Binary = {}
  OBVIOUS
<1>3. fromWire(toWire(v)) = v
  BY <1>1, FlatKept
<1>4. Json(Obj(o)) = Obj(o)
  BY <1>1, <1>2, OneFieldKept
<1>5. Decode(mode, Obj(o), f, Scalar("int")) = assignScalar(mode, o[f], Scalar("int"))
  BY DecodeOne DEF Kinds
<1> QED
  BY <1>3, <1>4, <1>5, AssignLeaves

(* String v comes back as it was and is assigned as it is. *)
TextEverywhere(X, mode, v) ==
    /\ fromWire(toWire(v)) = v
    /\ X \cap Binary = {} => Json(v) = v
    /\ assign(mode, v, Scalar("text")) = v

(* A reply that is a string is the response of Get. *)
LEMMA TextAnswer ==
    ASSUME NEW mode, NEW X, NEW v \in Texts(X)
    PROVE  TextEverywhere(X, mode, v)
<1>1. assign(mode, v, Scalar("text")) = assignScalar(mode, v, Scalar("text"))
  BY AssignScalar DEF Kinds
<1>2. assignScalar(mode, v, Scalar("text")) = v
  BY AssignLeaves
<1>3. IsFlat(X, v)
  BY FlatLeaves
<1> QED
  BY <1>1, <1>2, <1>3, FlatKept DEF TextEverywhere

(* The forms in which the server sends result r of method op. *)
Reply(mode, op, r, v) ==
    /\ op = "kv.set" /\ r = Done => v = Str("OK")
    /\ op \in {"kv.get", "hash.get"} /\ r = Str("") => v = Nil
    /\ op \in {"kv.get", "hash.get"} /\ r # Str("") /\ IsText(r) =>
           v = r \/ (mode = "rpc" /\ r[1] = "num" /\ v = I64(r[2]))
    /\ r[1] = "bool" /\ op \notin {"kv.set", "hash.getall", "list.lpop", "list.rpop"} => v \in Flag(r[2])
    /\ r[1] = "int" /\ op \notin {"kv.set", "hash.getall", "list.lpop", "list.rpop"} => v = r
    /\ op = "hash.getall" /\ r[1] = "obj" => v = r \/ v = FlatPairs(r[2])
    /\ op \in {"list.lpop", "list.rpop"} /\ r[1] = "arr" =>
           v = r \/ (r = Arr(<<>>) /\ v = Nil) \/ (Len(r[2]) = 1 /\ v = r[2][1])
    /\ op \in {"list.range", "set.members"} /\ r[1] = "arr" => v = r

(* The server sends results in these forms. *)
LEMMA DataReplies ==
    ASSUME NEW mode, NEW c, NEW r, NEW v \in dataReplies(mode, c, r)
    PROVE  Reply(mode, c.op, r, v)
<1>1. ASSUME c.op = "kv.set", r = Done
      PROVE  v = Str("OK")
  <2>1. r[1] = "done"
    BY <1>1 DEF Done
  <2>2. dataReplies(mode, c, r) = {Str("OK")}
    BY <1>1, <2>1 DEF dataReplies
  <2> QED
    BY <2>2
<1>2. ASSUME c.op \in {"kv.get", "hash.get"}, r = Str("")
      PROVE  v = Nil
  <2>1. r[1] = "str"
    BY <1>2 DEF Str
  <2>2. dataReplies(mode, c, r) = {Nil}
    BY <1>2, <2>1 DEF dataReplies
  <2> QED
    BY <2>2
<1>3. ASSUME c.op \in {"kv.get", "hash.get"}, r # Str(""), IsText(r)
      PROVE  v = r \/ (mode = "rpc" /\ r[1] = "num" /\ v = I64(r[2]))
  <2>1. dataReplies(mode, c, r) = IF mode = "rpc" /\ r[1] = "num" THEN {r, I64(r[2])} ELSE {r}
    BY <1>3 DEF dataReplies, IsText
  <2> QED
    BY <2>1
<1>4. ASSUME r[1] = "bool", c.op \notin {"kv.set", "hash.getall", "list.lpop", "list.rpop"}
      PROVE  v \in Flag(r[2])
  <2>1. dataReplies(mode, c, r) = Flag(r[2])
    BY <1>4 DEF dataReplies, Str
  <2> QED
    BY <2>1
<1>5. ASSUME r[1] = "int", c.op \notin {"kv.set", "hash.getall", "list.lpop", "list.rpop"}
      PROVE  v = r
  <2>1. Str("")[1] = "str"
    BY DEF Str
  <2>2. dataReplies(mode, c, r) = {r}
    BY <1>5, <2>1 DEF dataReplies
  <2> QED
    BY <2>2
<1>6. ASSUME c.op = "hash.getall", r[1] = "obj"
      PROVE  v = r \/ v = FlatPairs(r[2])
  <2>1. dataReplies(mode, c, r) = {r, FlatPairs(r[2])}
    BY <1>6 DEF dataReplies
  <2> QED
    BY <2>1
<1>7. ASSUME c.op \in {"list.lpop", "list.rpop"}, r[1] = "arr"
      PROVE  v = r \/ (r = Arr(<<>>) /\ v = Nil) \/ (Len(r[2]) = 1 /\ v = r[2][1])
  <2>1. CASE r = Arr(<<>>)
    <3>1. r[2] = <<>> /\ Len(r[2]) = 0
      BY <2>1 DEF Arr
    <3>2. dataReplies(mode, c, r) = {r, Nil}
      BY <1>7, <2>1, <3>1 DEF dataReplies
    <3> QED
      BY <2>1, <3>2
  <2>2. CASE r # Arr(<<>>) /\ Len(r[2]) = 1
    <3>1. dataReplies(mode, c, r) = {r, r[2][1]}
      BY <1>7, <2>2 DEF dataReplies
    <3> QED
      BY <2>2, <3>1
  <2>3. CASE r # Arr(<<>>) /\ Len(r[2]) # 1
    <3>1. dataReplies(mode, c, r) = {r}
      BY <1>7, <2>3 DEF dataReplies
    <3> QED
      BY <2>3, <3>1
  <2> QED
    BY <2>1, <2>2, <2>3
<1>8. ASSUME c.op \in {"list.range", "set.members"}, r[1] = "arr"
      PROVE  v = r
  <2>1. dataReplies(mode, c, r) = {r}
    BY <1>8 DEF dataReplies
  <2> QED
    BY <2>1
<1> QED
  BY <1>1, <1>2, <1>3, <1>4, <1>5, <1>6, <1>7, <1>8 DEF Reply

(* Objects with one field. *)
LEMMA Fields ==
    ASSUME NEW x
    PROVE  /\ DOMAIN [deleted |-> x] = {"deleted"} /\ IsFunction([deleted |-> x]) /\ [deleted |-> x]["deleted"] = x
           /\ DOMAIN [exists |-> x] = {"exists"} /\ IsFunction([exists |-> x]) /\ [exists |-> x]["exists"] = x
           /\ DOMAIN [value |-> x] = {"value"} /\ IsFunction([value |-> x]) /\ [value |-> x]["value"] = x
           /\ DOMAIN [fields |-> x] = {"fields"} /\ IsFunction([fields |-> x]) /\ [fields |-> x]["fields"] = x
           /\ DOMAIN [length |-> x] = {"length"} /\ IsFunction([length |-> x]) /\ [length |-> x]["length"] = x
           /\ DOMAIN [values |-> x] = {"values"} /\ IsFunction([values |-> x]) /\ [values |-> x]["values"] = x
           /\ DOMAIN [added |-> x] = {"added"} /\ IsFunction([added |-> x]) /\ [added |-> x]["added"] = x
           /\ DOMAIN [removed |-> x] = {"removed"} /\ IsFunction([removed |-> x]) /\ [removed |-> x]["removed"] = x
           /\ DOMAIN [members |-> x] = {"members"} /\ IsFunction([members |-> x]) /\ [members |-> x]["members"] = x
           /\ DOMAIN [is_member |-> x] = {"is_member"} /\ IsFunction([is_member |-> x]) /\ [is_member |-> x]["is_member"] = x
           /\ DOMAIN [size |-> x] = {"size"} /\ IsFunction([size |-> x]) /\ [size |-> x]["size"] = x
BY DEF IsFunction
=============================================================================
