----------------------------- MODULE WireProofs -----------------------------
(***************************************************************************)
(* Proof that the KV, hash, list and set methods have the effect and the   *)
(* result DataService gives them, over SynapRPC, RESP3 and HTTP, for every *)
(* string, every number and any number of calls: the refinement            *)
(* ImplementsDataService for sessions with these modules.                  *)
(***************************************************************************)
EXTENDS MappingProofs

(* What Incr and Decr return. *)
LEMMA CounterResults ==
    ASSUME NEW X, NEW m \in KvCalls(Texts(X)), m.op \in {"kv.incr", "kv.decr"}, NEW s \in DataStore(X),
           NEW r, r = Promise!DataResult(m, s), r # Failed
    PROVE  r \in Ints
<1>1. Promise!IsCounter(s)
  BY SameValues DEF Promise!DataResult
<1>2. s.kv \in {Nil} \cup Texts(X) /\ s.kv[1] \in {"nil", "num"}
  BY <1>1 DEF Promise!IsCounter, DataStore
<1>3. Promise!CountOf(s) \in Int
  BY <1>2, TextShape, SameValues DEF Promise!CountOf
<1>4. CASE m.op = "kv.incr"
  BY <1>4, <1>1, <1>3, SameValues DEF Promise!DataResult, Ints
<1>5. CASE m.op = "kv.decr"
  BY <1>5, <1>1, <1>3, SameValues DEF Promise!DataResult, Ints
<1> QED
  BY <1>4, <1>5

(* Over the native transports a KV method returns the result the server    *)
(* sent, in whatever form it was sent.                                     *)
LEMMA KvAnswers ==
    ASSUME NEW X, NEW m \in KvCalls(Texts(X)), NEW s \in DataStore(X),
           NEW r, r = Promise!DataResult(m, s), r # Failed,
           NEW mode \in {"rpc", "resp3"}, NEW c, c.op = m.op, NEW v \in dataReplies(mode, c, r)
    PROVE  /\ fromWire(toWire(v)) = v
           /\ kvReturn(mode, m.op, dataResponse(m.op, v)) = r
           /\ m.op # "kv.set" /\ X \cap Binary = {} =>
                  Json(dataResponse(m.op, v)) = dataResponse(m.op, v)
<1>0. Reply(mode, m.op, r, v)
  BY DataReplies
<1>1. CASE m.op = "kv.set"
  <2>1. r = Done /\ v = Str("OK") /\ Str("OK") \in Texts({"OK"})
    <3>1. r = Done
      BY <1>1, SameValues DEF Promise!DataResult
    <3> QED
      BY <1>0, <1>1, <3>1 DEF Reply, Texts
  <2> QED
    BY <1>1, <2>1, FlatLeaves, FlatKept DEF kvReturn
<1>2. CASE m.op = "kv.get"
  <2>1. r = IF s.kv = Nil THEN Str("") ELSE s.kv
    BY <1>2, SameValues DEF Promise!DataResult
  <2>2. dataResponse("kv.get", v) = v /\ kvReturn(mode, "kv.get", v) = assign(mode, v, Scalar("text"))
    BY DEF dataResponse, kvReturn
  <2>3. CASE r = Str("")
    <3>1. v = Nil
      BY <1>0, <1>2, <2>3 DEF Reply
    <3>2. assign(mode, Nil, Scalar("text")) = assignScalar(mode, Nil, Scalar("text"))
      BY AssignScalar DEF Kinds
    <3> QED
      BY <1>2, <2>2, <2>3, <3>1, <3>2, AssignLeaves, FlatLeaves, FlatKept
  <2>4. CASE r # Str("")
    <3>1. r \in Texts(X)
      BY <2>1, <2>4 DEF DataStore
    <3>2. v = r \/ (mode = "rpc" /\ r[1] = "num" /\ v = I64(r[2]))
      BY <1>0, <1>2, <2>4, <3>1, TextShape DEF Reply
    <3>3. CASE v = r
      BY <1>2, <2>2, <3>1, <3>3, TextAnswer DEF TextEverywhere
    <3>4. CASE mode = "rpc" /\ r[1] = "num" /\ v = I64(r[2])
      <4>1. r[2] \in Int /\ r = Num(r[2]) /\ v \in Ints /\ v[2] = r[2]
        BY <3>1, <3>4, TextShape DEF Ints, I64
      <4>2. assign(mode, v, Scalar("text")) = r
        <5>1. assign(mode, v, Scalar("text")) = assignScalar(mode, v, Scalar("text"))
          BY AssignScalar DEF Kinds
        <5> QED
          BY <3>4, <4>1, <5>1, AssignLeaves
      <4> QED
        BY <1>2, <2>2, <3>4, <4>1, <4>2, FlatLeaves, FlatKept
    <3> QED
      BY <3>2, <3>3, <3>4
  <2> QED
    BY <2>3, <2>4
<1>3. CASE m.op \in {"kv.del", "kv.exists"}
  <2>1. PICK b \in BOOLEAN : r = Bool(b)
    BY <1>3, SameValues DEF Promise!DataResult
  <2>2. v \in Flag(b)
    <3>1. r[1] = "bool" /\ r[2] = b
      BY <2>1 DEF Bool
    <3> QED
      BY <1>0, <1>3, <3>1 DEF Reply
  <2>3. CASE m.op = "kv.del"
    <3>1. /\ dataResponse(m.op, v) = Obj([deleted |-> truthy(v)])
          /\ \A j : kvReturn(mode, m.op, j) = Decode(mode, j, "deleted", Scalar("bool"))
      BY <2>3 DEF dataResponse, kvReturn
    <3>2. PICK o : o = [deleted |-> truthy(v)]
      OBVIOUS
    <3>3. DOMAIN o = {"deleted"} /\ IsFunction(o) /\ o["deleted"] = truthy(v)
      BY <3>2, Fields
    <3> QED
      BY <2>1, <2>2, <3>1, <3>2, <3>3, FlagAnswer
  <2>4. CASE m.op = "kv.exists"
    <3>1. /\ dataResponse(m.op, v) = Obj([exists |-> truthy(v)])
          /\ \A j : kvReturn(mode, m.op, j) = Decode(mode, j, "exists", Scalar("bool"))
      BY <2>4 DEF dataResponse, kvReturn
    <3>2. PICK o : o = [exists |-> truthy(v)]
      OBVIOUS
    <3>3. DOMAIN o = {"exists"} /\ IsFunction(o) /\ o["exists"] = truthy(v)
      BY <3>2, Fields
    <3> QED
      BY <2>1, <2>2, <3>1, <3>2, <3>3, FlagAnswer
  <2> QED
    BY <1>3, <2>3, <2>4
<1>4. CASE m.op \in {"kv.incr", "kv.decr"}
  <2>1. r \in Ints
    BY <1>4, CounterResults
  <2>2. v = r
    <3>1. r[1] = "int"
      BY <2>1 DEF I64, Ints
    <3> QED
      BY <1>0, <1>4, <2>1, <3>1 DEF Reply
  <2>3. /\ dataResponse(m.op, v) = Obj([value |-> v])
        /\ \A j : kvReturn(mode, m.op, j) = Decode(mode, j, "value", Scalar("int"))
    BY <1>4 DEF dataResponse, kvReturn
  <2>4. PICK o : o = [value |-> v]
    OBVIOUS
  <2>5. DOMAIN o = {"value"} /\ IsFunction(o) /\ o["value"] = v
    BY <2>4, Fields
  <2> QED
    BY <2>1, <2>2, <2>3, <2>4, <2>5, NumberAnswer
<1> QED
  BY <1>1, <1>2, <1>3, <1>4 DEF KvCalls
-----------------------------------------------------------------------------
(* SetToSeq lists a finite set without repetition. *)
LEMMA Listed ==
    ASSUME NEW S, IsFiniteSet(S)
    PROVE  /\ Cardinality(S) \in Nat
           /\ SetToSeq(S) \in [1 .. Cardinality(S) -> S]
           /\ \A i, j \in 1 .. Cardinality(S) : SetToSeq(S)[i] = SetToSeq(S)[j] => i = j
           /\ \A x \in S : \E i \in 1 .. Cardinality(S) : SetToSeq(S)[i] = x
           /\ SetToSeq(S) \in Seq(S) /\ Len(SetToSeq(S)) = Cardinality(S)
<1>1. PICK n \in Nat : n = Cardinality(S)
  BY FS_CardinalityType
<1>2. PICK f \in Bijection(1 .. n, S) : TRUE
  BY <1>1, FS_CardinalityType DEF ExistsBijection
<1>3. f \in [1 .. n -> S] /\ IsInjective(f)
  BY <1>2 DEF Bijection, Injection
<1>4. SetToSeq(S) \in [1 .. n -> S] /\ IsInjective(SetToSeq(S))
  BY <1>1, <1>3 DEF SetToSeq
<1>5. SetToSeq(S) \in Injection(1 .. n, S)
  BY <1>4 DEF Injection
<1>6. Cardinality(1 .. n) = n /\ IsFiniteSet(1 .. n)
  BY FS_Interval
<1>7. SetToSeq(S) \in Surjection(1 .. n, S)
  BY <1>1, <1>5, <1>6, FS_Injection
<1>8. \A x \in S : \E i \in 1 .. n : SetToSeq(S)[i] = x
  BY <1>7 DEF Surjection
<1>9. SetToSeq(S) \in Seq(S) /\ Len(SetToSeq(S)) = n
  BY <1>4
<1> QED
  BY <1>1, <1>4, <1>8, <1>9 DEF IsInjective

(* The reply to HGETALL as a list of fields and values in turn is read     *)
(* back as the hash.                                                       *)
LEMMA PairsReadBack ==
    ASSUME NEW T, NEW D \in SUBSET T, IsFiniteSet(D), NEW h \in [D -> T]
    PROVE  \E q \in Seq(T) : FlatPairs(h) = Arr(q) /\ Unflatten(q) = h
<1>1. PICK n \in Nat : n = Cardinality(D)
  BY FS_CardinalityType
<1>2. PICK keys : keys = SetToSeq(D)
  OBVIOUS
<1>3. /\ keys \in [1 .. n -> D] /\ Len(keys) = n
      /\ \A i, j \in 1 .. n : keys[i] = keys[j] => i = j
      /\ \A x \in D : \E i \in 1 .. n : keys[i] = x
  BY <1>1, <1>2, Listed
<1>4. PICK q : q = [i \in 1 .. 2 * n |-> IF i % 2 = 1 THEN keys[(i + 1) \div 2] ELSE h[keys[i \div 2]]]
  OBVIOUS
<1>5. FlatPairs(h) = Arr(q)
  BY <1>2, <1>3, <1>4 DEF FlatPairs
<1>6. ASSUME NEW i \in 1 .. n
      PROVE  q[2 * i - 1] = keys[i] /\ q[2 * i] = h[keys[i]]
  <2>1. 2 * i - 1 \in 1 .. 2 * n /\ 2 * i \in 1 .. 2 * n
    OBVIOUS
  <2>2. (2 * i - 1) % 2 = 1 /\ ((2 * i - 1) + 1) \div 2 = i
    OBVIOUS
  <2>3. (2 * i) % 2 = 0 /\ (2 * i) \div 2 = i
    OBVIOUS
  <2> QED
    BY <1>4, <2>1, <2>2, <2>3
<1>7. ASSUME NEW i \in 1 .. 2 * n
      PROVE  q[i] \in T
  <2>1. PICK k \in 1 .. n : i = 2 * k - 1 \/ i = 2 * k
    <3>1. CASE i % 2 = 1
      <4>1. (i + 1) \div 2 \in 1 .. n /\ i = 2 * ((i + 1) \div 2) - 1
        BY <3>1
      <4> QED
        BY <4>1
    <3>2. CASE i % 2 = 0
      <4>1. i \div 2 \in 1 .. n /\ i = 2 * (i \div 2)
        BY <3>2
      <4> QED
        BY <4>1
    <3> QED
      BY <3>1, <3>2
  <2>2. keys[k] \in D /\ h[keys[k]] \in T
    BY <1>3
  <2> QED
    BY <1>6, <2>1, <2>2
<1>8. q \in Seq(T) /\ Len(q) = 2 * n /\ Len(q) \div 2 = n
  <2>1. 2 * n \in Nat /\ (2 * n) \div 2 = n
    OBVIOUS
  <2> QED
    BY <1>4, <1>7, <2>1
<1>9. PICK half : half = Len(q) \div 2 /\ half = n
  BY <1>8
<1>10. {q[2 * i - 1] : i \in 1 .. half} = D
  <2>1. \A i \in 1 .. half : q[2 * i - 1] \in D
    BY <1>3, <1>6, <1>9
  <2>2. ASSUME NEW x \in D
        PROVE  \E i \in 1 .. half : q[2 * i - 1] = x
    <3>1. PICK k \in 1 .. n : keys[k] = x
      BY <1>3
    <3> QED
      BY <1>6, <1>9, <3>1
  <2> QED
    BY <2>1, <2>2
<1>11. Unflatten(q) = [f \in {q[2 * i - 1] : i \in 1 .. half} |->
                          q[2 * (CHOOSE i \in 1 .. half : q[2 * i - 1] = f)]]
  BY <1>9 DEF Unflatten
<1>12. ASSUME NEW f \in D
       PROVE  Unflatten(q)[f] = h[f]
  <2>1. PICK k \in 1 .. half : q[2 * k - 1] = f
    BY <1>10
  <2>2. PICK i : i = CHOOSE j \in 1 .. half : q[2 * j - 1] = f
    OBVIOUS
  <2>3. i \in 1 .. half /\ q[2 * i - 1] = f
    BY <2>1, <2>2
  <2>4. q[2 * i] = h[f]
    BY <1>6, <1>9, <2>3
  <2>5. Unflatten(q)[f] = q[2 * i]
    BY <1>10, <1>11, <2>2
  <2> QED
    BY <2>4, <2>5
<1>13. Unflatten(q) = h
  <2>1. DOMAIN Unflatten(q) = D /\ IsFunction(Unflatten(q)) /\ DOMAIN h = D /\ IsFunction(h)
    BY <1>10, <1>11 DEF IsFunction
  <2> QED
    BY <1>12, <2>1, FunctionsEqual
<1> QED
  BY <1>5, <1>8, <1>13
-----------------------------------------------------------------------------
(* So does a hash method, Set and Del aside, which read a field that the   *)
(* native responses do not have.                                           *)
LEMMA HashAnswers ==
    ASSUME NEW X, NEW m \in HashCalls(Texts(X), Texts(X)), m.op \notin {"hash.set", "hash.del"},
           NEW s \in DataStore(X), Finite(s), NEW r, r = Promise!DataResult(m, s),
           NEW mode \in {"rpc", "resp3"}, NEW c, c.op = m.op, NEW v \in dataReplies(mode, c, r)
    PROVE  /\ fromWire(toWire(v)) = v
           /\ hashReturn(mode, m.op, dataResponse(m.op, v)) = r
           /\ X \cap Binary = {} => Json(dataResponse(m.op, v)) = dataResponse(m.op, v)
<1>0. Reply(mode, m.op, r, v)
  BY DataReplies
<1>h. PICK h, D : h = s.hash /\ D \in SUBSET Texts(X) /\ h \in [D -> Texts(X)] /\ IsFiniteSet(D)
  BY DEF DataStore, Finite
<1>1. CASE m.op = "hash.get"
  <2>1. r = IF m.field \in D THEN h[m.field] ELSE Str("")
    BY <1>1, <1>h, SameValues DEF Promise!DataResult
  <2>2. /\ dataResponse(m.op, v) = IF v = Nil THEN Obj([found |-> Bool(FALSE)])
                                             ELSE Obj([found |-> Bool(TRUE), value |-> v])
        /\ \A j : hashReturn(mode, m.op, j) = Decode(mode, j, "value", Scalar("text"))
    BY <1>1 DEF dataResponse, hashReturn
  <2>3. IsFlat(X, Bool(FALSE)) /\ IsFlat(X, Bool(TRUE))
    BY FlatLeaves
  <2>4. CASE r = Str("")
    <3>1. v = Nil
      BY <1>0, <1>1, <2>4 DEF Reply
    <3>2. PICK o : o = [found |-> Bool(FALSE)]
      OBVIOUS
    <3>3. IsFunction(o) /\ DOMAIN o = {"found"} /\ o["found"] = Bool(FALSE)
      BY <3>2 DEF IsFunction
    <3>4. Decode(mode, Obj(o), "value", Scalar("text")) = assign2(mode, Nil, Scalar("text"))
      BY <3>3, DecodeField
    <3>5. assign2(mode, Nil, Scalar("text")) = assignScalar(mode, Nil, Scalar("text"))
      BY AssignScalar DEF Kinds
    <3>6. assignScalar(mode, Nil, Scalar("text")) = Str("")
      BY AssignLeaves
    <3>7. X \cap Binary = {} => Json(Obj(o)) = Obj(o)
      BY <2>3, <3>3, OneFieldKept
    <3>8. fromWire(toWire(Nil)) = Nil
      BY FlatLeaves, FlatKept
    <3> QED
      BY <2>2, <2>4, <3>1, <3>2, <3>4, <3>5, <3>6, <3>7, <3>8
  <2>5. CASE r # Str("")
    <3>1. r \in Texts(X)
      BY <1>h, <2>1, <2>5
    <3>2. v = r \/ (mode = "rpc" /\ r[1] = "num" /\ v = I64(r[2]))
      BY <1>0, <1>1, <2>5, <3>1, TextShape DEF Reply
    <3>3. PICK o : o = [found |-> Bool(TRUE), value |-> v]
      OBVIOUS
    <3>4. /\ IsFunction(o) /\ DOMAIN o = {"found", "value"}
          /\ o["value"] = v /\ o["found"] = Bool(TRUE)
      BY <3>3 DEF IsFunction
    <3>5. Decode(mode, Obj(o), "value", Scalar("text")) = assignScalar(mode, v, Scalar("text"))
      BY <3>4, DecodeOne DEF Kinds
    <3>6. IsFlat(X, v) /\ v # Nil /\ assignScalar(mode, v, Scalar("text")) = r
      <4>1. CASE v = r
        <5>1. assignScalar(mode, v, Scalar("text")) = v
          BY <3>1, <4>1, AssignLeaves
        <5> QED
          BY <3>1, <4>1, <5>1, FlatLeaves, TextShape
      <4>2. CASE mode = "rpc" /\ r[1] = "num" /\ v = I64(r[2])
        <5>1. r = Num(r[2]) /\ v \in Ints /\ v[2] = r[2] /\ v # Nil
          BY <3>1, <4>2, TextShape DEF Ints, I64, Nil
        <5>2. assignScalar(mode, v, Scalar("text")) = Num(v[2])
          BY <4>2, <5>1, AssignLeaves
        <5> QED
          BY <5>1, <5>2, FlatLeaves
      <4> QED
        BY <3>2, <4>1, <4>2
    <3>7. X \cap Binary = {} => Json(Obj(o)) = Obj(o)
      BY <2>3, <3>4, <3>6, FieldsKept
    <3>8. fromWire(toWire(v)) = v
      BY <3>6, FlatKept
    <3> QED
      BY <2>2, <3>3, <3>5, <3>6, <3>7, <3>8
  <2> QED
    BY <2>4, <2>5
<1>2. CASE m.op = "hash.exists"
  <2>1. PICK b \in BOOLEAN : r = Bool(b)
    <3>1. r = Bool(m.field \in DOMAIN s.hash)
      BY <1>2, SameValues DEF Promise!DataResult
    <3>2. (m.field \in DOMAIN s.hash) \in BOOLEAN
      OBVIOUS
    <3> QED
      BY <3>1, <3>2, Zenon
  <2>2. v \in Flag(b)
    <3>1. r[1] = "bool" /\ r[2] = b
      BY <2>1 DEF Bool
    <3> QED
      BY <1>0, <1>2, <3>1 DEF Reply
  <2>3. /\ dataResponse(m.op, v) = Obj([exists |-> truthy(v)])
        /\ \A j : hashReturn(mode, m.op, j) = Decode(mode, j, "exists", Scalar("bool"))
    BY <1>2 DEF dataResponse, hashReturn
  <2>4. PICK o : o = [exists |-> truthy(v)]
    OBVIOUS
  <2>5. DOMAIN o = {"exists"} /\ IsFunction(o) /\ o["exists"] = truthy(v)
    BY <2>4, Fields
  <2> QED
    BY <2>1, <2>2, <2>3, <2>4, <2>5, FlagAnswer
<1>3. CASE m.op = "hash.getall"
  <2>1. r = Obj(h) /\ r[1] = "obj" /\ r[2] = h
    BY <1>3, <1>h, SameValues DEF Promise!DataResult, Obj
  <2>2. v = r \/ v = FlatPairs(h)
    BY <1>0, <1>3, <2>1 DEF Reply
  <2>3. IsFunction(h) /\ DOMAIN h = D /\ \A x \in D : h[x] \in Texts(X)
    BY <1>h DEF IsFunction
  <2>4. IsFlat(X, r)
    BY <2>1, <2>3 DEF IsFlat
  <2>5. dataResponse(m.op, v) = Obj([fields |-> r]) /\ IsFlat(X, v)
    <3>1. CASE v = r
      BY <1>3, <2>1, <2>4, <3>1 DEF dataResponse
    <3>2. CASE v = FlatPairs(h)
      <4>1. PICK q \in Seq(Texts(X)) : FlatPairs(h) = Arr(q) /\ Unflatten(q) = h
        BY <1>h, PairsReadBack
      <4>2. v[1] = "arr" /\ v[2] = q
        BY <3>2, <4>1 DEF Arr
      <4>3. dataResponse(m.op, v) = Obj([fields |-> Obj(h)])
        BY <1>3, <4>1, <4>2 DEF dataResponse
      <4> QED
        BY <2>1, <3>2, <4>1, <4>3, FlatLeaves
    <3> QED
      BY <2>2, <3>1, <3>2
  <2>6. PICK o : o = [fields |-> r]
    OBVIOUS
  <2>7. DOMAIN o = {"fields"} /\ IsFunction(o) /\ o["fields"] = r
    BY <2>6, Fields
  <2>8. hashReturn(mode, m.op, Obj(o)) = assign2(mode, r, MapOf(Scalar("text")))
    BY <1>3, <2>7, DecodePresent DEF hashReturn
  <2>9. assign2(mode, r, MapOf(Scalar("text"))) = r
    BY <2>1, <2>3, AssignTexts
  <2>10. X \cap Binary = {} => Json(Obj(o)) = Obj(o)
    BY <2>4, <2>7, OneFieldKept
  <2>11. fromWire(toWire(v)) = v
    BY <2>5, FlatKept
  <2> QED
    BY <2>5, <2>6, <2>8, <2>9, <2>10, <2>11
<1> QED
  BY <1>1, <1>2, <1>3 DEF HashCalls

(* A list of strings is assigned as it is. *)
LEMMA TextsAssigned ==
    ASSUME NEW mode, NEW X, NEW q \in Seq(Texts(X))
    PROVE  assign2(mode, Arr(q), ListOf(Scalar("text"))) = Arr(q)
<1>1. IsFunction(q) /\ \A x \in DOMAIN q : q[x] \in Texts(X)
  BY DEF IsFunction
<1> QED
  BY <1>1, AssignTexts

(* A list of strings, read from field f of the response. *)
LEMMA ListAnswer ==
    ASSUME NEW mode, NEW X, NEW q \in Seq(Texts(X)), NEW f, NEW o, DOMAIN o = {f}, IsFunction(o), o[f] = Arr(q)
    PROVE  /\ fromWire(toWire(Arr(q))) = Arr(q)
           /\ Decode(mode, Obj(o), f, ListOf(Scalar("text"))) = Arr(q)
           /\ X \cap Binary = {} => Json(Obj(o)) = Obj(o)
<1>1. IsFlat(X, Arr(q))
  BY FlatLeaves
<1>2. IsFunction(q) /\ \A x \in DOMAIN q : q[x] \in Texts(X)
  BY DEF IsFunction
<1>3. assign2(mode, Arr(q), ListOf(Scalar("text"))) = Arr(q)
  BY <1>2, AssignTexts
<1>4. Decode(mode, Obj(o), f, ListOf(Scalar("text"))) = assign2(mode, o[f], ListOf(Scalar("text")))
  <2>1. f \in DOMAIN o
    OBVIOUS
  <2> QED
    BY <2>1, DecodePresent
<1>5. fromWire(toWire(Arr(q))) = Arr(q)
  BY <1>1, FlatKept
<1>6. X \cap Binary = {} => Json(Obj(o)) = Obj(o)
  BY <1>1, OneFieldKept
<1> QED
  BY <1>3, <1>4, <1>5, <1>6

(* What the list methods return. *)
LEMMA ListResults ==
    ASSUME NEW X, NEW m \in ListCalls(Texts(X)), NEW s \in DataStore(X)
    PROVE  /\ m.op \in {"list.lpush", "list.rpush", "list.len"} => Promise!DataResult(m, s) \in Ints
           /\ m.op \in {"list.lpop", "list.rpop", "list.range"} =>
                  \E q \in Seq(Texts(X)) : Promise!DataResult(m, s) = Arr(q)
<1> DEFINE T == Texts(X)
<1>0. s.list \in Seq(T)
  BY DEF DataStore
<1> HIDE DEF T
<1>1. CASE m.op \in {"list.lpush", "list.rpush"}
  <2>1. m.values \in Seq(T)
    BY <1>1 DEF ListCalls, T
  <2>2. Len(s.list) + Len(m.values) \in Int
    BY <1>0, <2>1
  <2>3. Promise!DataResult(m, s) = I64(Len(s.list) + Len(m.values))
    BY <1>1, SameValues DEF Promise!DataResult
  <2> QED
    BY <1>1, <2>2, <2>3 DEF Ints
<1>2. CASE m.op = "list.len"
  <2>1. Promise!DataResult(m, s) = I64(Len(s.list)) /\ Len(s.list) \in Int
    BY <1>0, <1>2, SameValues DEF Promise!DataResult
  <2> QED
    BY <1>2, <2>1 DEF Ints
<1>3. CASE m.op \in {"list.lpop", "list.rpop"}
  <2>1. m.count \in Nat
    BY <1>3 DEF ListCalls
  <2>2. PICK n \in 0 .. Len(s.list) : n = Promise!Popped(m, s)
    BY <1>0, <2>1 DEF Promise!Popped
  <2>3. Reverse(s.list) \in Seq(T) /\ Len(Reverse(s.list)) = Len(s.list)
    BY <1>0 DEF Reverse
  <2>4. SubSeq(s.list, 1, n) \in Seq(T) /\ SubSeq(Reverse(s.list), 1, n) \in Seq(T)
    BY <1>0, <2>3
  <2>5. \/ Promise!DataResult(m, s) = Arr(SubSeq(s.list, 1, n))
        \/ Promise!DataResult(m, s) = Arr(SubSeq(Reverse(s.list), 1, n))
    BY <1>3, <2>2, SameValues DEF Promise!DataResult
  <2> QED
    BY <1>3, <2>4, <2>5 DEF T
<1>4. CASE m.op = "list.range"
  <2>1. m.start \in Int /\ m.stop \in Int
    BY <1>4 DEF ListCalls
  <2>2. PICK a \in Nat, b \in Int : /\ Promise!Slice(m.start, m.stop, s) = SubSeq(s.list, a + 1, b)
                                   /\ b <= Len(s.list)
    <3>1. PICK n \in Nat : n = Len(s.list)
      BY <1>0
    <3>2. PICK i, j \in Int : /\ i = IF m.start < 0 THEN n + m.start ELSE m.start
                              /\ j = IF m.stop < 0 THEN n + m.stop ELSE m.stop
      BY <2>1
    <3>3. PICK a \in Nat, b \in Int : /\ a = IF i < 0 THEN 0 ELSE i
                                     /\ b = IF j < n THEN j + 1 ELSE n
      OBVIOUS
    <3>4. Promise!Slice(m.start, m.stop, s) = SubSeq(s.list, a + 1, b)
      BY <3>1, <3>2, <3>3 DEF Promise!Slice
    <3>5. b <= Len(s.list)
      BY <3>1, <3>2, <3>3
    <3> QED
      BY <3>4, <3>5
  <2>3. SubSeq(s.list, a + 1, b) \in Seq(T)
    <3>1. \A i \in a + 1 .. b : s.list[i] \in T
      BY <1>0, <2>2
    <3> QED
      BY <3>1, SubSeqProperties
  <2>4. Promise!DataResult(m, s) = Arr(SubSeq(s.list, a + 1, b))
    BY <1>4, <2>2, SameValues DEF Promise!DataResult
  <2> QED
    BY <1>4, <2>3, <2>4 DEF T
<1> QED
  BY <1>1, <1>2, <1>3, <1>4 DEF ListCalls

(* Over the native transports a list method returns the result the server  *)
(* sent.                                                                   *)
LEMMA ListAnswers ==
    ASSUME NEW X, NEW m \in ListCalls(Texts(X)), NEW s \in DataStore(X),
           NEW r, r = Promise!DataResult(m, s),
           NEW mode \in {"rpc", "resp3"}, NEW c, c.op = m.op, NEW v \in dataReplies(mode, c, r)
    PROVE  /\ fromWire(toWire(v)) = v
           /\ listReturn(mode, m.op, dataResponse(m.op, v)) = r
           /\ X \cap Binary = {} => Json(dataResponse(m.op, v)) = dataResponse(m.op, v)
<1>0. Reply(mode, m.op, r, v)
  BY DataReplies
<1>1. CASE m.op \in {"list.lpush", "list.rpush", "list.len"}
  <2>1. r \in Ints /\ r[1] = "int"
    BY <1>1, ListResults DEF Ints, I64
  <2>2. v = r
    BY <1>0, <1>1, <2>1 DEF Reply
  <2>3. /\ dataResponse(m.op, v) = Obj([length |-> v])
        /\ \A j : listReturn(mode, m.op, j) = Decode(mode, j, "length", Scalar("int"))
    BY <1>1 DEF dataResponse, listReturn
  <2>4. PICK o : o = [length |-> v]
    OBVIOUS
  <2>5. DOMAIN o = {"length"} /\ IsFunction(o) /\ o["length"] = v
    BY <2>4, Fields
  <2> QED
    BY <2>1, <2>2, <2>3, <2>4, <2>5, NumberAnswer
<1>2. CASE m.op \in {"list.lpop", "list.rpop", "list.range"}
  <2>1. PICK q \in Seq(Texts(X)) : r = Arr(q)
    BY <1>2, ListResults
  <2>2. r[1] = "arr" /\ r[2] = q
    BY <2>1 DEF Arr
  <2>3. v = r \/ (m.op # "list.range" /\ ((r = Arr(<<>>) /\ v = Nil) \/ (Len(q) = 1 /\ v = q[1])))
    <3>1. CASE m.op = "list.range"
      BY <1>0, <2>2, <3>1 DEF Reply
    <3>2. CASE m.op \in {"list.lpop", "list.rpop"}
      <4>1. v = r \/ (r = Arr(<<>>) /\ v = Nil) \/ (Len(r[2]) = 1 /\ v = r[2][1])
        BY <1>0, <2>2, <3>2 DEF Reply
      <4> QED
        BY <2>2, <3>2, <4>1
    <3> QED
      BY <1>2, <3>1, <3>2
  <2>4. dataResponse(m.op, v) = Obj([values |-> r]) /\ fromWire(toWire(v)) = v
    <3>1. CASE v = r
      <4>1. fromWire(toWire(v)) = v
        BY <2>1, <3>1, FlatLeaves, FlatKept
      <4>2. v[1] = "arr" /\ v # Nil
        BY <2>2, <3>1 DEF Nil
      <4>3. dataResponse(m.op, v) = Obj([values |-> v])
        BY <1>2, <4>2 DEF dataResponse, arrayOr
      <4> QED
        BY <3>1, <4>1, <4>3
    <3>2. CASE m.op # "list.range" /\ r = Arr(<<>>) /\ v = Nil
      <4>1. fromWire(toWire(v)) = v
        BY <3>2, FlatLeaves, FlatKept
      <4>2. v[1] = "nil"
        BY <3>2 DEF Nil
      <4>3. dataResponse(m.op, v) = Obj([values |-> Arr(<<>>)])
        BY <1>2, <3>2, <4>2 DEF dataResponse
      <4> QED
        BY <3>2, <4>1, <4>3
    <3>3. CASE m.op # "list.range" /\ Len(q) = 1 /\ v = q[1]
      <4>1. v \in Texts(X) /\ q = <<v>>
        BY <3>3
      <4>2. v[1] # "arr" /\ v # Nil
        BY <4>1, TextShape
      <4>3. dataResponse(m.op, v) = Obj([values |-> Arr(<<v>>)])
        BY <1>2, <3>3, <4>2 DEF dataResponse
      <4> QED
        BY <2>1, <4>1, <4>3, FlatLeaves, FlatKept
    <3> QED
      BY <2>3, <3>1, <3>2, <3>3
  <2>5. PICK o : o = [values |-> r]
    OBVIOUS
  <2>6. DOMAIN o = {"values"} /\ IsFunction(o) /\ o["values"] = r
    BY <2>5, Fields
  <2>7. \A j : listReturn(mode, m.op, j) = Decode(mode, j, "values", ListOf(Scalar("text")))
    BY <1>2 DEF listReturn
  <2>8. Decode(mode, Obj(o), "values", ListOf(Scalar("text"))) = r /\ (X \cap Binary = {} => Json(Obj(o)) = Obj(o))
    <3>1. o["values"] = Arr(q)
      BY <2>1, <2>6
    <3>2. Decode(mode, Obj(o), "values", ListOf(Scalar("text"))) = Arr(q)
      <4>1. Decode(mode, Obj(o), "values", ListOf(Scalar("text"))) = assign2(mode, Arr(q), ListOf(Scalar("text")))
        <5>1. "values" \in DOMAIN o
          BY <2>6
        <5> QED
          BY <3>1, <5>1, DecodePresent
      <4>2. IsFunction(q) /\ \A x \in DOMAIN q : q[x] \in Texts(X)
        BY DEF IsFunction
      <4> QED
        BY <4>1, <4>2, AssignTexts
    <3>3. X \cap Binary = {} => Json(Obj(o)) = Obj(o)
      BY <2>6, <3>1, ListAnswer
    <3> QED
      BY <2>1, <3>2, <3>3
  <2> QED
    BY <2>4, <2>5, <2>7, <2>8
<1> QED
  BY <1>1, <1>2 DEF ListCalls

(* What the set methods return. *)
LEMMA SetResults ==
    ASSUME NEW X, NEW m \in SetCalls(Texts(X)), NEW s \in DataStore(X), Finite(s)
    PROVE  /\ m.op \in {"set.add", "set.rem", "set.card"} => Promise!DataResult(m, s) \in Ints
           /\ m.op = "set.members" => \E q \in Seq(Texts(X)) : Promise!DataResult(m, s) = Arr(q)
           /\ m.op = "set.ismember" => \E b \in BOOLEAN : Promise!DataResult(m, s) = Bool(b)
<1>0. s.set \subseteq Texts(X) /\ IsFiniteSet(s.set)
  BY DEF DataStore, Finite
<1>1. CASE m.op \in {"set.add", "set.rem"}
  <2>1. m.members \in Seq(Texts(X))
    BY <1>1 DEF SetCalls
  <2>2. IsFiniteSet(ToSet(m.members))
    <3>1. m.members \in Surjection(1 .. Len(m.members), ToSet(m.members))
      BY <2>1 DEF ToSet, Surjection
    <3> QED
      BY <2>1, <3>1, FS_Surjection, FS_Interval
  <2>3. /\ IsFiniteSet(ToSet(m.members) \ s.set)
        /\ IsFiniteSet(ToSet(m.members) \cap s.set)
    BY <2>2, FS_Difference, FS_Intersection
  <2>4. /\ Cardinality(ToSet(m.members) \ s.set) \in Int
        /\ Cardinality(ToSet(m.members) \cap s.set) \in Int
    BY <2>3, FS_CardinalityType
  <2>5. \/ Promise!DataResult(m, s) = I64(Cardinality(ToSet(m.members) \ s.set))
        \/ Promise!DataResult(m, s) = I64(Cardinality(ToSet(m.members) \cap s.set))
    BY <1>1, SameValues DEF Promise!DataResult
  <2> QED
    BY <1>1, <2>4, <2>5 DEF Ints
<1>2. CASE m.op = "set.card"
  <2>1. Promise!DataResult(m, s) = I64(Cardinality(s.set))
    BY <1>2, SameValues DEF Promise!DataResult
  <2>2. Cardinality(s.set) \in Int
    BY <1>0, FS_CardinalityType
  <2> QED
    BY <1>2, <2>1, <2>2 DEF Ints
<1>3. CASE m.op = "set.members"
  <2>1. Promise!DataResult(m, s) = Arr(SetToSeq(s.set))
    BY <1>3, SameValues DEF Promise!DataResult
  <2>2. SetToSeq(s.set) \in Seq(s.set)
    BY <1>0, Listed
  <2>3. SetToSeq(s.set) \in Seq(Texts(X))
    BY <1>0, <2>2
  <2> QED
    BY <1>3, <2>1, <2>3
<1>4. CASE m.op = "set.ismember"
  <2>1. Promise!DataResult(m, s) = Bool(m.member \in s.set)
    BY <1>4, SameValues DEF Promise!DataResult
  <2>2. (m.member \in s.set) \in BOOLEAN
    OBVIOUS
  <2>3. \E b \in BOOLEAN : Promise!DataResult(m, s) = Bool(b)
    BY <2>1, <2>2, Zenon
  <2> QED
    BY <1>4, <2>3
<1> QED
  BY <1>1, <1>2, <1>3, <1>4 DEF SetCalls

(* Over the native transports a set method returns the result the server   *)
(* sent.                                                                   *)
LEMMA SetAnswers ==
    ASSUME NEW X, NEW m \in SetCalls(Texts(X)), NEW s \in DataStore(X), Finite(s),
           NEW r, r = Promise!DataResult(m, s),
           NEW mode \in {"rpc", "resp3"}, NEW c, c.op = m.op, NEW v \in dataReplies(mode, c, r)
    PROVE  /\ fromWire(toWire(v)) = v
           /\ setReturn(mode, m.op, dataResponse(m.op, v)) = r
           /\ X \cap Binary = {} => Json(dataResponse(m.op, v)) = dataResponse(m.op, v)
<1>0. Reply(mode, m.op, r, v)
  BY DataReplies
<1>1. CASE m.op \in {"set.add", "set.rem", "set.card"}
  <2>1. r \in Ints /\ r[1] = "int"
    BY <1>1, SetResults DEF Ints, I64
  <2>2. v = r
    BY <1>0, <1>1, <2>1 DEF Reply
  <2>3. PICK f : f = CASE m.op = "set.add" -> "added" [] m.op = "set.rem" -> "removed" [] m.op = "set.card" -> "size"
    OBVIOUS
  <2>4. PICK o : o = [g \in {f} |-> v]
    OBVIOUS
  <2>5. DOMAIN o = {f} /\ IsFunction(o) /\ o[f] = v
    BY <2>4 DEF IsFunction
  <2>6. dataResponse(m.op, v) = Obj(o)
    <3>1. CASE m.op = "set.add"
      BY <2>3, <2>4, <3>1 DEF dataResponse
    <3>2. CASE m.op = "set.rem"
      BY <2>3, <2>4, <3>2 DEF dataResponse
    <3>3. CASE m.op = "set.card"
      BY <2>3, <2>4, <3>3 DEF dataResponse
    <3> QED
      BY <1>1, <3>1, <3>2, <3>3
  <2>7. \A j : setReturn(mode, m.op, j) = Decode(mode, j, f, Scalar("int"))
    BY <1>1, <2>3 DEF setReturn
  <2> QED
    BY <2>1, <2>2, <2>5, <2>6, <2>7, NumberAnswer
<1>2. CASE m.op = "set.ismember"
  <2>1. PICK b \in BOOLEAN : r = Bool(b)
    BY <1>2, SetResults
  <2>2. v \in Flag(b)
    <3>1. r[1] = "bool" /\ r[2] = b
      BY <2>1 DEF Bool
    <3> QED
      BY <1>0, <1>2, <3>1 DEF Reply
  <2>3. /\ dataResponse(m.op, v) = Obj([is_member |-> truthy(v)])
        /\ \A j : setReturn(mode, m.op, j) = Decode(mode, j, "is_member", Scalar("bool"))
    BY <1>2 DEF dataResponse, setReturn
  <2>4. PICK o : o = [is_member |-> truthy(v)]
    OBVIOUS
  <2>5. DOMAIN o = {"is_member"} /\ IsFunction(o) /\ o["is_member"] = truthy(v)
    BY <2>4, Fields
  <2> QED
    BY <2>1, <2>2, <2>3, <2>4, <2>5, FlagAnswer
<1>3. CASE m.op = "set.members"
  <2>1. PICK q \in Seq(Texts(X)) : r = Arr(q)
    BY <1>3, SetResults
  <2>2. r[1] = "arr"
    BY <2>1 DEF Arr
  <2>3. v = r
    BY <1>0, <1>3, <2>2 DEF Reply
  <2>4. dataResponse(m.op, v) = Obj([members |-> Arr(q)])
    BY <1>3, <2>1, <2>2, <2>3 DEF dataResponse, arrayOr
  <2>5. PICK o : o = [members |-> Arr(q)]
    OBVIOUS
  <2>6. DOMAIN o = {"members"} /\ IsFunction(o) /\ o["members"] = Arr(q) /\ "members" \in DOMAIN o
    BY <2>5, Fields
  <2>7. setReturn(mode, m.op, Obj(o)) = assign2(mode, Arr(q), ListOf(Scalar("text")))
    BY <1>3, <2>6, DecodePresent DEF setReturn
  <2>8. assign2(mode, Arr(q), ListOf(Scalar("text"))) = Arr(q)
    BY TextsAssigned
  <2>9. fromWire(toWire(v)) = v /\ (X \cap Binary = {} => Json(Obj(o)) = Obj(o))
    BY <2>1, <2>3, <2>6, ListAnswer
  <2> QED
    BY <2>1, <2>4, <2>5, <2>7, <2>8, <2>9
<1> QED
  BY <1>1, <1>2, <1>3 DEF SetCalls
-----------------------------------------------------------------------------
(* A Boolean or a string in field f of an HTTP reply. *)
LEMMA FieldOverHttp ==
    ASSUME NEW X, X \cap Binary = {}, NEW f, NEW o, DOMAIN o = {f}, IsFunction(o), NEW r, o[f] = r
    PROVE  /\ \A b \in BOOLEAN : r = Bool(b) => Decode("http", Json(Obj(o)), f, Scalar("bool")) = r
           /\ r \in Texts(X) => Decode("http", Json(Obj(o)), f, Scalar("text")) = r
           /\ r = Nil => Decode("http", Json(Obj(o)), f, Scalar("text")) = Str("")
<1>0. f \in DOMAIN o
  OBVIOUS
<1>1. /\ Decode("http", Obj(o), f, Scalar("bool")) = assignScalar("http", r, Scalar("bool"))
      /\ Decode("http", Obj(o), f, Scalar("text")) = assignScalar("http", r, Scalar("text"))
  BY <1>0, DecodeOne DEF Kinds
<1>2. ASSUME IsFlat(X, r)
      PROVE  Json(Obj(o)) = Obj(o)
  BY <1>2, OneFieldKept
<1>3. ASSUME NEW b \in BOOLEAN, r = Bool(b)
      PROVE  Decode("http", Json(Obj(o)), f, Scalar("bool")) = r
  BY <1>1, <1>2, <1>3, FlatLeaves, AssignLeaves
<1>4. ASSUME r \in Texts(X)
      PROVE  Decode("http", Json(Obj(o)), f, Scalar("text")) = r
  BY <1>1, <1>2, <1>4, FlatLeaves, AssignLeaves
<1>5. ASSUME r = Nil
      PROVE  Decode("http", Json(Obj(o)), f, Scalar("text")) = Str("")
  BY <1>1, <1>2, <1>5, FlatLeaves, AssignLeaves
<1> QED
  BY <1>3, <1>4, <1>5

(* Over HTTP a KV method returns the result the server sent. *)
LEMMA KvHttp ==
    ASSUME NEW X, X \cap Binary = {}, NEW m \in KvCalls(Texts(X)) \cup [op : {"kv.stats"}],
           NEW s \in DataStore(X), NEW r, r = Promise!DataResult(m, s), r # Failed, NEW c, c.op = m.op
    PROVE  kvReturn("http", m.op, Json(dataHttpReply(c, r))) = r
<1>1. CASE m.op = "kv.set"
  BY <1>1, SameValues DEF Promise!DataResult, kvReturn
<1>2. CASE m.op = "kv.get"
  <2>1. r = IF s.kv = Nil THEN Str("") ELSE s.kv
    BY <1>2, SameValues DEF Promise!DataResult
  <2>2. /\ dataHttpReply(c, r) = IF r = Str("") THEN Nil ELSE r
        /\ \A j : kvReturn("http", m.op, j) = assign("http", j, Scalar("text"))
    BY <1>2 DEF dataHttpReply, kvReturn
  <2>3. CASE r = Str("")
    <3>1. Json(Nil) = Nil
      BY FlatLeaves, FlatKept
    <3>2. assign("http", Nil, Scalar("text")) = assignScalar("http", Nil, Scalar("text"))
      BY AssignScalar DEF Kinds
    <3> QED
      BY <2>2, <2>3, <3>1, <3>2, AssignLeaves
  <2>4. CASE r # Str("")
    <3>1. r \in Texts(X)
      BY <2>1, <2>4 DEF DataStore
    <3>2. TextEverywhere(X, "http", r)
      BY <3>1, TextAnswer
    <3>3. Json(r) = r /\ assign("http", r, Scalar("text")) = r
      BY <3>2 DEF TextEverywhere
    <3> QED
      BY <2>2, <2>4, <3>3
  <2> QED
    BY <2>3, <2>4
<1>3. CASE m.op = "kv.del"
  <2>1. PICK b \in BOOLEAN : r = Bool(b)
    BY <1>3, SameValues DEF Promise!DataResult
  <2>2. PICK o : o = [deleted |-> r]
    OBVIOUS
  <2>3. DOMAIN o = {"deleted"} /\ IsFunction(o) /\ o["deleted"] = r
    BY <2>2, Fields
  <2>4. /\ dataHttpReply(c, r) = Obj(o)
        /\ \A j : kvReturn("http", m.op, j) = Decode("http", j, "deleted", Scalar("bool"))
    BY <1>3, <2>2 DEF dataHttpReply, kvReturn
  <2>5. \A x \in BOOLEAN : r = Bool(x) => Decode("http", Json(Obj(o)), "deleted", Scalar("bool")) = r
    BY <2>3, FieldOverHttp
  <2> QED
    BY <2>1, <2>4, <2>5
<1>4. CASE m.op = "kv.exists"
  <2>1. PICK b \in BOOLEAN : r = Bool(b)
    BY <1>4, SameValues DEF Promise!DataResult
  <2>2. PICK o : o = [exists |-> r]
    OBVIOUS
  <2>3. DOMAIN o = {"exists"} /\ IsFunction(o) /\ o["exists"] = r
    BY <2>2, Fields
  <2>4. /\ dataHttpReply(c, r) = Obj(o)
        /\ \A j : kvReturn("http", m.op, j) = Decode("http", j, "exists", Scalar("bool"))
    BY <1>4, <2>2 DEF dataHttpReply, kvReturn
  <2>5. \A x \in BOOLEAN : r = Bool(x) => Decode("http", Json(Obj(o)), "exists", Scalar("bool")) = r
    BY <2>3, FieldOverHttp
  <2> QED
    BY <2>1, <2>4, <2>5
<1>5. CASE m.op \in {"kv.incr", "kv.decr"}
  <2>1. r \in Ints
    <3>1. m \in KvCalls(Texts(X))
      BY <1>5
    <3> QED
      BY <1>5, <3>1, CounterResults
  <2>2. PICK o : o = [value |-> r]
    OBVIOUS
  <2>3. DOMAIN o = {"value"} /\ IsFunction(o) /\ o["value"] = r
    BY <2>2, Fields
  <2>4. /\ dataHttpReply(c, r) = Obj(o)
        /\ \A j : kvReturn("http", m.op, j) = Decode("http", j, "value", Scalar("int"))
    BY <1>5, <2>2 DEF dataHttpReply, kvReturn
  <2> QED
    BY <2>1, <2>3, <2>4, NumberAnswer
<1>6. CASE m.op = "kv.stats"
  <2>1. PICK n \in Int : r = Obj([total_keys |-> I64(n)])
    BY <1>6, SameValues DEF Promise!DataResult
  <2>2. PICK o : o = [total_keys |-> I64(n)]
    OBVIOUS
  <2>3. DOMAIN o = {"total_keys"} /\ IsFunction(o) /\ o["total_keys"] = I64(n)
    BY <2>2 DEF IsFunction
  <2>4. Json(Obj(o)) = Obj(o)
    BY <2>3, FlatLeaves, OneFieldKept
  <2>5. PICK t : t = [total_keys |-> Scalar("int")]
    OBVIOUS
  <2>6. DOMAIN t = {"total_keys"} /\ t["total_keys"] = Scalar("int")
    BY <2>5
  <2>7. PICK g : g = [f \in DOMAIN t |-> assign2("http", IF Has(o, f) THEN o[f] ELSE Nil, t[f])]
    OBVIOUS
  <2>8. DOMAIN g = {"total_keys"} /\ IsFunction(g) /\ g["total_keys"] = assign2("http", I64(n), Scalar("int"))
    BY <2>3, <2>6, <2>7 DEF IsFunction, Has
  <2>9. assign2("http", I64(n), Scalar("int")) = I64(n)
    <3>1. I64(n) \in Ints
      BY DEF Ints
    <3>2. assign2("http", I64(n), Scalar("int")) = assignScalar("http", I64(n), Scalar("int"))
      BY AssignScalar DEF Kinds
    <3> QED
      BY <3>1, <3>2, AssignLeaves
  <2>10. g = o
    BY <2>3, <2>8, <2>9, FunctionsEqual
  <2>11. Whole("obj", o) = Obj(o)
    BY <2>3 DEF Whole, Obj, I64, Failed
  <2>12. assign("http", Obj(o), Struct(t)) = Obj(o)
    BY <2>7, <2>10, <2>11, AssignStruct
  <2>13. dataHttpReply(c, r) = r /\ \A j : kvReturn("http", m.op, j) = assign("http", j, Struct(t))
    BY <1>6, <2>5 DEF dataHttpReply, kvReturn
  <2> QED
    BY <2>1, <2>2, <2>4, <2>12, <2>13
<1> QED
  BY <1>1, <1>2, <1>3, <1>4, <1>5, <1>6 DEF KvCalls

(* Over HTTP a hash method returns the result the server sent. *)
LEMMA HashHttp ==
    ASSUME NEW X, X \cap Binary = {}, NEW m \in HashCalls(Texts(X), Texts(X)),
           m.op \notin {"hash.set", "hash.del"}, NEW s \in DataStore(X),
           NEW r, r = Promise!DataResult(m, s), NEW c, c.op = m.op
    PROVE  hashReturn("http", m.op, Json(dataHttpReply(c, r))) = r
<1>h. PICK h, D : h = s.hash /\ D \in SUBSET Texts(X) /\ h \in [D -> Texts(X)]
  BY DEF DataStore
<1>1. CASE m.op = "hash.get"
  <2>1. r = IF m.field \in D THEN h[m.field] ELSE Str("")
    BY <1>1, <1>h, SameValues DEF Promise!DataResult
  <2>2. PICK o : o = [value |-> IF r = Str("") THEN Nil ELSE r]
    OBVIOUS
  <2>3. DOMAIN o = {"value"} /\ IsFunction(o) /\ o["value"] = IF r = Str("") THEN Nil ELSE r
    BY <2>2, Fields
  <2>4. /\ dataHttpReply(c, r) = Obj(o)
        /\ \A j : hashReturn("http", m.op, j) = Decode("http", j, "value", Scalar("text"))
    BY <1>1, <2>2 DEF dataHttpReply, hashReturn
  <2>5. r = Str("") \/ r \in Texts(X)
    BY <1>h, <2>1
  <2>6. Decode("http", Json(Obj(o)), "value", Scalar("text")) = r
    <3>1. CASE r = Str("")
      <4>1. o["value"] = Nil => Decode("http", Json(Obj(o)), "value", Scalar("text")) = Str("")
        BY <2>3, FieldOverHttp
      <4> QED
        BY <2>3, <3>1, <4>1
    <3>2. CASE r # Str("")
      <4>1. o["value"] \in Texts(X) => Decode("http", Json(Obj(o)), "value", Scalar("text")) = o["value"]
        BY <2>3, FieldOverHttp
      <4> QED
        BY <2>3, <2>5, <3>2, <4>1
    <3> QED
      BY <3>1, <3>2
  <2> QED
    BY <2>4, <2>6
<1>2. CASE m.op = "hash.exists"
  <2>1. PICK b \in BOOLEAN : r = Bool(b)
    <3>1. r = Bool(m.field \in DOMAIN s.hash)
      BY <1>2, SameValues DEF Promise!DataResult
    <3>2. (m.field \in DOMAIN s.hash) \in BOOLEAN
      OBVIOUS
    <3> QED
      BY <3>1, <3>2, Zenon
  <2>2. PICK o : o = [exists |-> r]
    OBVIOUS
  <2>3. DOMAIN o = {"exists"} /\ IsFunction(o) /\ o["exists"] = r
    BY <2>2, Fields
  <2>4. /\ dataHttpReply(c, r) = Obj(o)
        /\ \A j : hashReturn("http", m.op, j) = Decode("http", j, "exists", Scalar("bool"))
    BY <1>2, <2>2 DEF dataHttpReply, hashReturn
  <2>5. \A x \in BOOLEAN : r = Bool(x) => Decode("http", Json(Obj(o)), "exists", Scalar("bool")) = r
    BY <2>3, FieldOverHttp
  <2> QED
    BY <2>1, <2>4, <2>5
<1>3. CASE m.op = "hash.getall"
  <2>1. r = Obj(h)
    BY <1>3, <1>h, SameValues DEF Promise!DataResult
  <2>2. PICK o : o = [fields |-> r]
    OBVIOUS
  <2>3. DOMAIN o = {"fields"} /\ IsFunction(o) /\ o["fields"] = r
    BY <2>2, Fields
  <2>4. /\ dataHttpReply(c, r) = Obj(o)
        /\ \A j : hashReturn("http", m.op, j) = Decode("http", j, "fields", MapOf(Scalar("text")))
    BY <1>3, <2>2 DEF dataHttpReply, hashReturn
  <2>5. IsFunction(h) /\ \A x \in DOMAIN h : h[x] \in Texts(X)
    BY <1>h DEF IsFunction
  <2>6. IsFlat(X, r)
    BY <2>1, <2>5 DEF IsFlat
  <2>7. Json(Obj(o)) = Obj(o)
    BY <2>3, <2>6, OneFieldKept
  <2>8. Decode("http", Obj(o), "fields", MapOf(Scalar("text"))) = assign2("http", r, MapOf(Scalar("text")))
    BY <2>3, DecodePresent
  <2>9. assign2("http", r, MapOf(Scalar("text"))) = r
    BY <2>1, <2>5, AssignTexts
  <2> QED
    BY <2>4, <2>7, <2>8, <2>9
<1> QED
  BY <1>1, <1>2, <1>3 DEF HashCalls

(* Over HTTP a list method returns the result the server sent. *)
LEMMA ListHttp ==
    ASSUME NEW X, X \cap Binary = {}, NEW m \in ListCalls(Texts(X)), NEW s \in DataStore(X),
           NEW r, r = Promise!DataResult(m, s), NEW c, c.op = m.op
    PROVE  listReturn("http", m.op, Json(dataHttpReply(c, r))) = r
<1>1. CASE m.op \in {"list.lpush", "list.rpush", "list.len"}
  <2>1. r \in Ints
    BY <1>1, ListResults
  <2>2. PICK o : o = [length |-> r]
    OBVIOUS
  <2>3. DOMAIN o = {"length"} /\ IsFunction(o) /\ o["length"] = r
    BY <2>2, Fields
  <2>4. /\ dataHttpReply(c, r) = Obj(o)
        /\ \A j : listReturn("http", m.op, j) = Decode("http", j, "length", Scalar("int"))
    BY <1>1, <2>2 DEF dataHttpReply, listReturn
  <2> QED
    BY <2>1, <2>3, <2>4, NumberAnswer
<1>2. CASE m.op \in {"list.lpop", "list.rpop", "list.range"}
  <2>1. PICK q \in Seq(Texts(X)) : r = Arr(q)
    BY <1>2, ListResults
  <2>2. PICK o : o = [values |-> r]
    OBVIOUS
  <2>3. DOMAIN o = {"values"} /\ IsFunction(o) /\ o["values"] = Arr(q)
    BY <2>1, <2>2, Fields
  <2>4. /\ dataHttpReply(c, r) = Obj(o)
        /\ \A j : listReturn("http", m.op, j) = Decode("http", j, "values", ListOf(Scalar("text")))
    BY <1>2, <2>2 DEF dataHttpReply, listReturn
  <2>5. Decode("http", Obj(o), "values", ListOf(Scalar("text"))) = assign2("http", Arr(q), ListOf(Scalar("text")))
    BY <2>3, DecodePresent
  <2>6. assign2("http", Arr(q), ListOf(Scalar("text"))) = Arr(q)
    BY TextsAssigned
  <2>7. IsFlat(X, Arr(q))
    BY FlatLeaves
  <2>8. Json(Obj(o)) = Obj(o)
    BY <2>3, <2>7, OneFieldKept
  <2> QED
    BY <2>1, <2>4, <2>5, <2>6, <2>8
<1> QED
  BY <1>1, <1>2 DEF ListCalls

(* Over HTTP a set method returns the result the server sent. *)
LEMMA SetHttp ==
    ASSUME NEW X, X \cap Binary = {}, NEW m \in SetCalls(Texts(X)), NEW s \in DataStore(X), Finite(s),
           NEW r, r = Promise!DataResult(m, s), NEW c, c.op = m.op
    PROVE  setReturn("http", m.op, Json(dataHttpReply(c, r))) = r
<1>1. CASE m.op \in {"set.add", "set.rem", "set.card"}
  <2>1. r \in Ints
    BY <1>1, SetResults
  <2>2. PICK f : f = CASE m.op = "set.add" -> "added" [] m.op = "set.rem" -> "removed" [] m.op = "set.card" -> "size"
    OBVIOUS
  <2>3. PICK o : o = [g \in {f} |-> r]
    OBVIOUS
  <2>4. DOMAIN o = {f} /\ IsFunction(o) /\ o[f] = r
    BY <2>3 DEF IsFunction
  <2>5. dataHttpReply(c, r) = Obj(o)
    <3>1. CASE m.op = "set.add"
      BY <2>2, <2>3, <3>1 DEF dataHttpReply
    <3>2. CASE m.op = "set.rem"
      BY <2>2, <2>3, <3>2 DEF dataHttpReply
    <3>3. CASE m.op = "set.card"
      BY <2>2, <2>3, <3>3 DEF dataHttpReply
    <3> QED
      BY <1>1, <3>1, <3>2, <3>3
  <2>6. \A j : setReturn("http", m.op, j) = Decode("http", j, f, Scalar("int"))
    BY <1>1, <2>2 DEF setReturn
  <2> QED
    BY <2>1, <2>4, <2>5, <2>6, NumberAnswer
<1>2. CASE m.op = "set.ismember"
  <2>1. PICK b \in BOOLEAN : r = Bool(b)
    BY <1>2, SetResults
  <2>2. PICK o : o = [is_member |-> r]
    OBVIOUS
  <2>3. DOMAIN o = {"is_member"} /\ IsFunction(o) /\ o["is_member"] = r
    BY <2>2, Fields
  <2>4. /\ dataHttpReply(c, r) = Obj(o)
        /\ \A j : setReturn("http", m.op, j) = Decode("http", j, "is_member", Scalar("bool"))
    BY <1>2, <2>2 DEF dataHttpReply, setReturn
  <2>5. \A x \in BOOLEAN : r = Bool(x) => Decode("http", Json(Obj(o)), "is_member", Scalar("bool")) = r
    BY <2>3, FieldOverHttp
  <2> QED
    BY <2>1, <2>4, <2>5
<1>3. CASE m.op = "set.members"
  <2>1. PICK q \in Seq(Texts(X)) : r = Arr(q)
    BY <1>3, SetResults
  <2>2. PICK o : o = [members |-> r]
    OBVIOUS
  <2>3. DOMAIN o = {"members"} /\ IsFunction(o) /\ o["members"] = Arr(q)
    BY <2>1, <2>2, Fields
  <2>4. /\ dataHttpReply(c, r) = Obj(o)
        /\ \A j : setReturn("http", m.op, j) = Decode("http", j, "members", ListOf(Scalar("text")))
    BY <1>3, <2>2 DEF dataHttpReply, setReturn
  <2>5. Decode("http", Obj(o), "members", ListOf(Scalar("text"))) = assign2("http", Arr(q), ListOf(Scalar("text")))
    BY <2>3, DecodePresent
  <2>6. assign2("http", Arr(q), ListOf(Scalar("text"))) = Arr(q)
    BY TextsAssigned
  <2>7. IsFlat(X, Arr(q))
    BY FlatLeaves
  <2>8. Json(Obj(o)) = Obj(o)
    BY <2>3, <2>7, OneFieldKept
  <2> QED
    BY <2>1, <2>4, <2>5, <2>6, <2>8
<1> QED
  BY <1>1, <1>2, <1>3 DEF SetCalls
-----------------------------------------------------------------------------
(* The strings of S that the transports in modes pass on: SynapRPC all of  *)
(* them, the others, which encode as JSON, those that are UTF-8.           *)
Passing(S, modes) == IF modes \subseteq {"rpc"} THEN S ELSE S \ Binary

(* A session with the data modules: strings of S the session's transports  *)
(* pass on, names of hash fields in UTF-8, lifetimes in whole seconds, and *)
(* Stats over HTTP only, the one transport that has it.                    *)
DataSession(S, s) ==
    LET X == Passing(S, Modes(s)) IN
    \A mode \in Modes(s) :
        \/ /\ s.module = "kv"
           /\ s.calls[mode] \subseteq KvCalls(Texts(X))
                               \cup (IF mode = "http" THEN [op : {"kv.stats"}] ELSE {})
        \/ s.module = "hash" /\ s.calls[mode] \subseteq HashCalls(Texts(X \ Binary), Texts(X))
        \/ s.module = "list" /\ s.calls[mode] \subseteq ListCalls(Texts(X))
        \/ s.module = "set" /\ s.calls[mode] \subseteq SetCalls(Texts(X))

(* Call m with strings of X is one of the session's module. *)
InModule(X, m) ==
    \/ session.module = "kv" /\ m \in KvCalls(Texts(X)) \cup [op : {"kv.stats"}]
    \/ session.module = "hash" /\ m \in HashCalls(Texts(X), Texts(X))
    \/ session.module = "list" /\ m \in ListCalls(Texts(X))
    \/ session.module = "set" /\ m \in SetCalls(Texts(X))

(* The mappings a call of a data module goes through. *)
LEMMA DataModule ==
    ASSUME NEW X, NEW m, InModule(X, m)
    PROVE  /\ m \in DataCalls(X) \cup [op : {"kv.stats"}]
           /\ m.op # "kv.stats" => m \in DataCalls(X)
           /\ ~ForBroker
           /\ \A mode, p : mapCommandToWire(mode, m.op, p) = dataCommand(m.op, p)
           /\ \A v : mapResponseFromWire(m.op, v) = dataResponse(m.op, v)
<1>1. session.module \in {"kv", "hash", "list", "set"} /\ m \in DataCalls(X) \cup [op : {"kv.stats"}]
  BY DEF InModule, DataCalls
<1>2. m.op # "kv.stats" => m \in DataCalls(X)
  BY <1>1
<1>3. ~ForBroker
  BY <1>1 DEF ForBroker
<1>4. \A mode, p : mapCommandToWire(mode, m.op, p) = dataCommand(m.op, p)
  BY <1>1 DEF mapCommandToWire
<1>5. \A v : mapResponseFromWire(m.op, v) = dataResponse(m.op, v)
  BY <1>1 DEF mapResponseFromWire
<1> QED
  BY <1>1, <1>2, <1>3, <1>4, <1>5

(* The payload of a call is flat and carries its arguments. *)
LEMMA DataPayload ==
    ASSUME NEW X, NEW m, InModule(X, m)
    PROVE  /\ \A f \in DOMAIN Payload(m) : IsFlat(X, Payload(m)[f])
           /\ \A p : Keeps(p, Payload(m)) => Carries(p, m)
<1>1. CASE session.module = "kv" /\ m \in KvCalls(Texts(X))
  <2>1. Payload(m) = kvPayload(m)
    BY <1>1 DEF Payload
  <2> QED
    BY <1>1, <2>1, KvPayload
<1>2. CASE session.module = "kv" /\ m \in [op : {"kv.stats"}]
  <2>1. Payload(m) = kvPayload(m)
    BY <1>2 DEF Payload
  <2>2. kvPayload(m) = <<>> /\ DOMAIN m = {"op"} /\ m.op \notin {"hash.del", "list.range"}
    BY <1>2 DEF kvPayload
  <2> QED
    BY <2>1, <2>2 DEF Carries
<1>3. CASE session.module = "hash" /\ m \in HashCalls(Texts(X), Texts(X))
  <2>1. Payload(m) = hashPayload(m)
    BY <1>3 DEF Payload
  <2> QED
    BY <1>3, <2>1, HashPayload
<1>4. CASE session.module = "list" /\ m \in ListCalls(Texts(X))
  <2>1. Payload(m) = listPayload(m)
    BY <1>4 DEF Payload
  <2> QED
    BY <1>4, <2>1, ListPayload
<1>5. CASE session.module = "set" /\ m \in SetCalls(Texts(X))
  <2>1. Payload(m) = setPayload(m)
    BY <1>5 DEF Payload
  <2> QED
    BY <1>5, <2>1, SetPayload
<1> QED
  BY <1>1, <1>2, <1>3, <1>4, <1>5 DEF InModule

(* A call over a native transport returns the result the server sent. *)
LEMMA DataAnswers ==
    ASSUME NEW X, NEW m, InModule(X, m), m.op \notin {"kv.stats", "hash.set", "hash.del"},
           NEW s \in DataStore(X), Finite(s), NEW r, r = Promise!DataResult(m, s), r # Failed,
           NEW mode \in {"rpc", "resp3"}, NEW c, c.op = m.op, NEW v \in dataReplies(mode, c, r)
    PROVE  /\ fromWire(toWire(v)) = v
           /\ Return(mode, m.op, dataResponse(m.op, v)) = r
           /\ X \cap Binary = {} => Return(mode, m.op, Json(dataResponse(m.op, v))) = r
<1>1. CASE session.module = "kv" /\ m \in KvCalls(Texts(X))
  <2>1. \A j : Return(mode, m.op, j) = kvReturn(mode, m.op, j)
    BY <1>1 DEF Return
  <2>2. /\ fromWire(toWire(v)) = v
        /\ kvReturn(mode, m.op, dataResponse(m.op, v)) = r
        /\ m.op # "kv.set" /\ X \cap Binary = {} => Json(dataResponse(m.op, v)) = dataResponse(m.op, v)
    BY <1>1, KvAnswers
  <2>3. m.op = "kv.set" => \A j : kvReturn(mode, m.op, j) = Done
    BY DEF kvReturn
  <2> QED
    BY <2>1, <2>2, <2>3
<1>2. CASE session.module = "hash" /\ m \in HashCalls(Texts(X), Texts(X))
  <2>1. \A j : Return(mode, m.op, j) = hashReturn(mode, m.op, j)
    BY <1>2 DEF Return
  <2>2. /\ fromWire(toWire(v)) = v
        /\ hashReturn(mode, m.op, dataResponse(m.op, v)) = r
        /\ X \cap Binary = {} => Json(dataResponse(m.op, v)) = dataResponse(m.op, v)
    BY <1>2, HashAnswers
  <2> QED
    BY <2>1, <2>2
<1>3. CASE session.module = "list" /\ m \in ListCalls(Texts(X))
  <2>1. \A j : Return(mode, m.op, j) = listReturn(mode, m.op, j)
    BY <1>3 DEF Return
  <2>2. /\ fromWire(toWire(v)) = v
        /\ listReturn(mode, m.op, dataResponse(m.op, v)) = r
        /\ X \cap Binary = {} => Json(dataResponse(m.op, v)) = dataResponse(m.op, v)
    BY <1>3, ListAnswers
  <2> QED
    BY <2>1, <2>2
<1>4. CASE session.module = "set" /\ m \in SetCalls(Texts(X))
  <2>1. \A j : Return(mode, m.op, j) = setReturn(mode, m.op, j)
    BY <1>4 DEF Return
  <2>2. /\ fromWire(toWire(v)) = v
        /\ setReturn(mode, m.op, dataResponse(m.op, v)) = r
        /\ X \cap Binary = {} => Json(dataResponse(m.op, v)) = dataResponse(m.op, v)
    BY <1>4, SetAnswers
  <2> QED
    BY <2>1, <2>2
<1> QED
  BY <1>1, <1>2, <1>3, <1>4 DEF InModule

(* A call over HTTP returns the result the server sent. *)
LEMMA DataHttp ==
    ASSUME NEW X, X \cap Binary = {}, NEW m, InModule(X, m), m.op \notin {"hash.set", "hash.del"},
           NEW s \in DataStore(X), Finite(s), NEW r, r = Promise!DataResult(m, s), r # Failed,
           NEW c, c.op = m.op
    PROVE  Return("http", m.op, Json(dataHttpReply(c, r))) = r
<1>1. CASE session.module = "kv" /\ m \in KvCalls(Texts(X)) \cup [op : {"kv.stats"}]
  <2>1. \A j : Return("http", m.op, j) = kvReturn("http", m.op, j)
    BY <1>1 DEF Return
  <2> QED
    BY <1>1, <2>1, KvHttp
<1>2. CASE session.module = "hash" /\ m \in HashCalls(Texts(X), Texts(X))
  <2>1. \A j : Return("http", m.op, j) = hashReturn("http", m.op, j)
    BY <1>2 DEF Return
  <2> QED
    BY <1>2, <2>1, HashHttp
<1>3. CASE session.module = "list" /\ m \in ListCalls(Texts(X))
  <2>1. \A j : Return("http", m.op, j) = listReturn("http", m.op, j)
    BY <1>3 DEF Return
  <2> QED
    BY <1>3, <2>1, ListHttp
<1>4. CASE session.module = "set" /\ m \in SetCalls(Texts(X))
  <2>1. \A j : Return("http", m.op, j) = setReturn("http", m.op, j)
    BY <1>4 DEF Return
  <2> QED
    BY <1>4, <2>1, SetHttp
<1> QED
  BY <1>1, <1>2, <1>3, <1>4 DEF InModule
-----------------------------------------------------------------------------
(* A request with the meaning of m that is answered truly does what m      *)
(* promises.                                                               *)
LEMMA HandleInvokes ==
    ASSUME NEW X, NEW m, InModule(X, m), NEW mode, NEW responses, Handle(mode, m, InSeconds(m), responses),
           \/ m.op \in Misreported
           \/ Promise!DataResult(m, store) # Failed =>
                  \A j \in responses : Return(mode, m.op, j) = Promise!DataResult(m, store)
    PROVE  Promise!Invoke(m) /\ store' = Promise!DataEffect(m, store) /\ session' = session
<1>1. m \in DataCalls(X) \cup [op : {"kv.stats"}]
  BY DataModule
<1>2. PICK r : r = Promise!DataResult(m, store)
  OBVIOUS
<1>3. /\ Promise!Effect(m, store) = Promise!DataEffect(m, store)
      /\ Promise!Effect(InSeconds(m), store) = Promise!DataEffect(m, store)
      /\ Promise!Result(m, store) = r /\ Promise!Result(InSeconds(m), store) = r
  BY <1>1, <1>2, DataOps
<1>4. store' = Promise!DataEffect(m, store) /\ session' = session
  BY <1>3 DEF Handle
<1>5. last'.call = m /\ (m.op \in Misreported \/ last'.result = r)
  <2>1. CASE r = Failed
    <3>1. last' = [call |-> m, result |-> Failed]
      BY <1>3, <2>1 DEF Handle
    <3> QED
      BY <2>1, <3>1
  <2>2. CASE r # Failed
    <3>1. PICK j \in responses : last' = [call |-> m, result |-> Return(mode, m.op, j)]
      BY <1>3, <2>2 DEF Handle
    <3> QED
      BY <1>2, <2>2, <3>1
  <2> QED
    BY <2>1, <2>2
<1> QED
  BY <1>3, <1>4, <1>5 DEF Promise!Invoke

(* Calls over SynapRPC, with any strings. *)
LEMMA RpcInvokes ==
    ASSUME NEW X, NEW m, InModule(X, m), m.op # "kv.stats", {"hash.set", "hash.del"} \subseteq Misreported,
           store \in DataStore(X), Finite(store), sendRPC(m)
    PROVE  Promise!Invoke(m) /\ store' = Promise!DataEffect(m, store) /\ session' = session
<1>1. m \in DataCalls(X) /\ ~ForBroker
  BY DataModule
<1>2. PICK p : p = payloadToMap(Payload(m))
  OBVIOUS
<1>3. Carries(p, m)
  BY <1>2, DataPayload, PayloadKept
<1>a. Commanded(X, m, p)
  BY <1>1, <1>3, DataCommand
<1>4. PICK cmd, args : /\ args \in Seq(Texts(X \cup {"EX"}) \cup Scalars)
                       /\ dataCommand(m.op, p) = Wire(cmd, args)
                       /\ dataMeaning(Wire(cmd, args)) = InSeconds(m)
  BY <1>a, Zenon DEF Commanded
<1>5. PICK w : w = Wire(cmd, args)
  OBVIOUS
<1>6. mapCommandToWire("rpc", m.op, payloadToMap(Payload(m))) = w
  BY <1>2, <1>4, <1>5, DataModule
<1>7. [w EXCEPT !.args = [i \in DOMAIN @ |-> Received(toWire(@[i]))]] = w
  <2>1. [i \in DOMAIN args |-> Received(toWire(args[i]))] = args
    BY <1>4, ArgumentsArrive
  <2>2. w = [cmd |-> cmd, args |-> args]
    BY <1>5 DEF Wire
  <2> QED
    BY <2>1, <2>2
<1>8. Meaning("rpc", w) = InSeconds(m)
  BY <1>1, <1>4, <1>5 DEF Meaning
<1>9. InSeconds(m).op = m.op /\ m.op # "pubsub.subscribe"
  BY <1>1, DataOps
<1>10. Identified(InSeconds(m)) = {InSeconds(m)}
  BY <1>9 DEF Identified
<1>11. PICK c : c = InSeconds(m)
  OBVIOUS
<1>12. Handle("rpc", m, c, {mapResponseFromWire(m.op, fromWire(toWire(v))) :
                                v \in Replies("rpc", c, Promise!Result(c, store))})
  BY <1>6, <1>7, <1>8, <1>10, <1>11 DEF sendRPC
<1>13. PICK r : r = Promise!DataResult(m, store)
  OBVIOUS
<1>14. Replies("rpc", c, Promise!Result(c, store)) = dataReplies("rpc", c, r)
  <2>1. Promise!Result(c, store) = r
    BY <1>1, <1>11, <1>13, DataOps
  <2> QED
    BY <1>1, <2>1 DEF Replies
<1>15. ASSUME m.op \notin Misreported, r # Failed,
              NEW j \in {mapResponseFromWire(m.op, fromWire(toWire(v))) :
                             v \in Replies("rpc", c, Promise!Result(c, store))}
       PROVE  Return("rpc", m.op, j) = r
  <2>1. PICK v \in dataReplies("rpc", c, r) : j = mapResponseFromWire(m.op, fromWire(toWire(v)))
    BY <1>14, <1>15
  <2>2. m.op \notin {"kv.stats", "hash.set", "hash.del"} /\ c.op = m.op
    BY <1>9, <1>11, <1>15
  <2>3. fromWire(toWire(v)) = v /\ Return("rpc", m.op, dataResponse(m.op, v)) = r
    BY <1>13, <1>15, <2>2, DataAnswers
  <2>4. mapResponseFromWire(m.op, v) = dataResponse(m.op, v)
    BY DataModule
  <2> QED
    BY <2>1, <2>3, <2>4
<1> QED
  BY <1>11, <1>12, <1>13, <1>15, HandleInvokes

(* Calls over RESP3, with strings in UTF-8. *)
LEMMA Resp3Invokes ==
    ASSUME NEW X, X \cap Binary = {}, NEW m, InModule(X, m), m.op # "kv.stats",
           {"hash.set", "hash.del"} \subseteq Misreported,
           store \in DataStore(X), Finite(store), sendRESP3(m)
    PROVE  Promise!Invoke(m) /\ store' = Promise!DataEffect(m, store) /\ session' = session
<1>1. m \in DataCalls(X) /\ ~ForBroker
  BY DataModule
<1>2. PICK p : p = throughJson(Payload(m))
  OBVIOUS
<1>3. Carries(p, m)
  BY <1>2, DataPayload, PayloadKept
<1>a. Commanded(X, m, p)
  BY <1>1, <1>3, DataCommand
<1>4. PICK w : /\ dataCommand(m.op, p) = w
               /\ dataMeaning(w) = InSeconds(m)
  BY <1>a, Zenon DEF Commanded
<1>6. mapCommandToWire("resp3", m.op, throughJson(Payload(m))) = w
  BY <1>2, <1>4, DataModule
<1>8. Meaning("resp3", w) = InSeconds(m)
  BY <1>1, <1>4 DEF Meaning
<1>9. InSeconds(m).op = m.op /\ m.op # "pubsub.subscribe"
  BY <1>1, DataOps
<1>10. Identified(InSeconds(m)) = {InSeconds(m)}
  BY <1>9 DEF Identified
<1>11. PICK c : c = InSeconds(m)
  OBVIOUS
<1>12. Handle("resp3", m, c, {Json(mapResponseFromWire(m.op, v)) :
                                  v \in Replies("resp3", c, Promise!Result(c, store))})
  BY <1>6, <1>8, <1>10, <1>11 DEF sendRESP3
<1>13. PICK r : r = Promise!DataResult(m, store)
  OBVIOUS
<1>14. Replies("resp3", c, Promise!Result(c, store)) = dataReplies("resp3", c, r)
  <2>1. Promise!Result(c, store) = r
    BY <1>1, <1>11, <1>13, DataOps
  <2> QED
    BY <1>1, <2>1 DEF Replies
<1>15. ASSUME m.op \notin Misreported, r # Failed,
              NEW j \in {Json(mapResponseFromWire(m.op, v)) :
                             v \in Replies("resp3", c, Promise!Result(c, store))}
       PROVE  Return("resp3", m.op, j) = r
  <2>1. PICK v \in dataReplies("resp3", c, r) : j = Json(mapResponseFromWire(m.op, v))
    BY <1>14, <1>15
  <2>2. m.op \notin {"kv.stats", "hash.set", "hash.del"} /\ c.op = m.op
    BY <1>9, <1>11, <1>15
  <2>3. Return("resp3", m.op, Json(dataResponse(m.op, v))) = r
    BY <1>13, <1>15, <2>2, DataAnswers
  <2>4. mapResponseFromWire(m.op, v) = dataResponse(m.op, v)
    BY DataModule
  <2> QED
    BY <2>1, <2>3, <2>4
<1> QED
  BY <1>11, <1>12, <1>13, <1>15, HandleInvokes

(* Calls over HTTP, with strings in UTF-8. *)
LEMMA HttpInvokes ==
    ASSUME NEW X, X \cap Binary = {}, NEW m, InModule(X, m),
           {"hash.set", "hash.del"} \subseteq Misreported,
           store \in DataStore(X), Finite(store), sendHTTP(m)
    PROVE  Promise!Invoke(m) /\ store' = Promise!DataEffect(m, store) /\ session' = session
<1>1. m \in DataCalls(X) \cup [op : {"kv.stats"}] /\ ~ForBroker
  BY DataModule
<1>2. PICK p : p = throughJson(Payload(m))
  OBVIOUS
<1>3. Carries(p, m)
  BY <1>2, DataPayload, PayloadKept
<1>4. PICK c : c = InSeconds(m)
  OBVIOUS
<1>5. Envelope(m, throughJson(Payload(m))) = c
  BY <1>1, <1>2, <1>3, <1>4, DataEnvelope DEF Envelope
<1>6. Handle("http", m, c, {Json(j) : j \in HttpReplies(c, Promise!Result(c, store))})
  BY <1>5 DEF sendHTTP
<1>7. PICK r : r = Promise!DataResult(m, store)
  OBVIOUS
<1>8. HttpReplies(c, Promise!Result(c, store)) = {dataHttpReply(c, r)} /\ c.op = m.op
  <2>1. Promise!Result(c, store) = r /\ c.op = m.op
    BY <1>1, <1>4, <1>7, DataOps
  <2> QED
    BY <1>1, <2>1 DEF HttpReplies
<1>9. ASSUME m.op \notin Misreported, r # Failed
      PROVE  Return("http", m.op, Json(dataHttpReply(c, r))) = r
  <2>1. m.op \notin {"hash.set", "hash.del"} /\ c.op = m.op
    BY <1>8, <1>9
  <2> QED
    BY <1>7, <1>9, <2>1, DataHttp
<1> QED
  BY <1>4, <1>6, <1>7, <1>8, <1>9, HandleInvokes
-----------------------------------------------------------------------------
(* The inductive invariant: the data are strings the session's transports  *)
(* pass on, the hash and the set are finite, and a key with a time to live *)
(* is there.                                                               *)
DataInv(S) ==
    /\ session \in Sessions
    /\ store \in DataStore(Passing(S, Modes(session)))
    /\ Finite(store)
    /\ store.expires => store.kv # Nil

(* What a call of a session is. *)
LEMMA SessionCalls ==
    ASSUME NEW S, DataSession(S, session), NEW mode \in Modes(session), NEW m \in session.calls[mode],
           NEW X, X = Passing(S, Modes(session))
    PROVE  /\ InModule(X, m)
           /\ mode # "rpc" => X \cap Binary = {}
           /\ mode # "http" => m.op # "kv.stats"
<1>1. mode # "rpc" => X \cap Binary = {}
  BY DEF Passing
<1>2. CASE session.module = "kv"
  <2>1. m \in KvCalls(Texts(X)) \cup (IF mode = "http" THEN [op : {"kv.stats"}] ELSE {})
    BY <1>2 DEF DataSession
  <2>2. \A k \in KvCalls(Texts(X)) : k.op # "kv.stats"
    BY DEF KvCalls
  <2> QED
    BY <1>1, <1>2, <2>1, <2>2 DEF InModule
<1>3. CASE session.module = "hash"
  <2>1. m \in HashCalls(Texts(X \ Binary), Texts(X))
    BY <1>3 DEF DataSession
  <2>2. Texts(X \ Binary) \subseteq Texts(X)
    BY DEF Texts
  <2>3. m \in HashCalls(Texts(X), Texts(X)) /\ m.op # "kv.stats"
    BY <2>1, <2>2 DEF HashCalls
  <2> QED
    BY <1>1, <1>3, <2>3 DEF InModule
<1>4. CASE session.module = "list"
  <2>1. m \in ListCalls(Texts(X))
    BY <1>4 DEF DataSession
  <2>2. m.op # "kv.stats"
    BY <2>1 DEF ListCalls
  <2> QED
    BY <1>1, <1>4, <2>1, <2>2 DEF InModule
<1>5. CASE session.module = "set"
  <2>1. m \in SetCalls(Texts(X))
    BY <1>5 DEF DataSession
  <2>2. m.op # "kv.stats"
    BY <2>1 DEF SetCalls
  <2> QED
    BY <1>1, <1>5, <2>1, <2>2 DEF InModule
<1> QED
  BY <1>2, <1>3, <1>4, <1>5 DEF DataSession

(* No call leaves a time to live without a key. *)
LEMMA LifetimeKept ==
    ASSUME NEW X, NEW m \in DataCalls(X) \cup [op : {"kv.stats"}], NEW s \in DataStore(X),
           s.expires => s.kv # Nil, NEW t, t = Promise!DataEffect(m, s)
    PROVE  t.expires => t.kv # Nil
<1>1. CASE m.op = "kv.set"
  <2>1. t = [s EXCEPT !.kv = m.value, !.expires = m.ttl > 0]
    BY <1>1, SameValues DEF Promise!DataEffect
  <2>2. m.value \in Texts(X)
    BY <1>1 DEF DataCalls, KvCalls, HashCalls, ListCalls, SetCalls
  <2>3. t.kv = m.value
    BY <2>1 DEF DataStore
  <2> QED
    BY <2>2, <2>3, TextShape
<1>2. CASE m.op = "kv.del"
  <2>1. t = [s EXCEPT !.kv = Nil, !.expires = FALSE]
    BY <1>2, SameValues DEF Promise!DataEffect
  <2> QED
    BY <2>1 DEF DataStore
<1>3. CASE m.op \in {"kv.incr", "kv.decr"}
  <2>1. t = s \/ \E n : t = [s EXCEPT !.kv = Num(n)]
    <3>1. CASE m.op = "kv.incr" /\ Promise!IsCounter(s)
      BY <3>1, SameValues DEF Promise!DataEffect
    <3>2. CASE m.op = "kv.decr" /\ Promise!IsCounter(s)
      BY <3>2, SameValues DEF Promise!DataEffect
    <3>3. CASE ~Promise!IsCounter(s)
      BY <1>3, <3>3 DEF Promise!DataEffect
    <3> QED
      BY <1>3, <3>1, <3>2, <3>3
  <2>2. CASE t = s
    BY <2>2
  <2>3. ASSUME NEW n, t = [s EXCEPT !.kv = Num(n)]
        PROVE  t.kv # Nil
    <3>1. t.kv = Num(n)
      BY <2>3 DEF DataStore
    <3> QED
      BY <3>1 DEF Num, Nil
  <2> QED
    BY <2>1, <2>2, <2>3
<1>4. CASE m.op \notin {"kv.set", "kv.del", "kv.incr", "kv.decr"}
  <2>1. \/ t = s
        \/ \E h : t = [s EXCEPT !.hash = h]
        \/ \E l : t = [s EXCEPT !.list = l]
        \/ \E c : t = [s EXCEPT !.set = c]
    <3>1. CASE m.op = "hash.set"
      BY <3>1, SameValues DEF Promise!DataEffect
    <3>2. CASE m.op = "hash.del"
      BY <3>2, SameValues DEF Promise!DataEffect
    <3>3. CASE m.op = "list.lpush"
      BY <3>3, SameValues DEF Promise!DataEffect
    <3>4. CASE m.op = "list.rpush"
      BY <3>4, SameValues DEF Promise!DataEffect
    <3>5. CASE m.op = "list.lpop"
      BY <3>5, SameValues DEF Promise!DataEffect
    <3>6. CASE m.op = "list.rpop"
      BY <3>6, SameValues DEF Promise!DataEffect
    <3>7. CASE m.op = "set.add"
      BY <3>7, SameValues DEF Promise!DataEffect
    <3>8. CASE m.op = "set.rem"
      BY <3>8, SameValues DEF Promise!DataEffect
    <3>9. CASE m.op \notin {"hash.set", "hash.del", "list.lpush", "list.rpush", "list.lpop",
                            "list.rpop", "set.add", "set.rem"}
      BY <1>4, <3>9, SameValues DEF Promise!DataEffect
    <3> QED
      BY <3>1, <3>2, <3>3, <3>4, <3>5, <3>6, <3>7, <3>8, <3>9
  <2>2. t.kv = s.kv /\ t.expires = s.expires
    BY <2>1 DEF DataStore
  <2> QED
    BY <2>2
<1> QED
  BY <1>1, <1>2, <1>3, <1>4

(* The initial states satisfy the invariant and map to initial states. *)
LEMMA DataInit ==
    ASSUME NEW S, Init
    PROVE  DataInv(S) /\ Promise!Init
<1>1. store = Promise!Empty /\ session \in Sessions /\ Promise!Init
  BY DEF Init, Promise!Init
<1>2. store = [kv |-> Nil, expires |-> FALSE, hash |-> <<>>, list |-> <<>>, set |-> {},
               queue |-> Promise!NoQueue, issued |-> 0, room |-> Promise!NoRoom, generations |-> 0,
               subs |-> <<>>, sent |-> Nil]
  BY <1>1, SameValues DEF Promise!Empty
<1>3. PICK X : X = Passing(S, Modes(session))
  OBVIOUS
<1>4. store \in DataStore(X)
  <2>1. <<>> \in [{} -> Texts(X)]
    OBVIOUS
  <2>2. <<>> \in UNION {[D -> Texts(X)] : D \in SUBSET Texts(X)}
    BY <2>1
  <2> QED
    BY <1>2, <2>2 DEF DataStore
<1>5. Finite(store)
  <2>1. DOMAIN store.hash = {} /\ store.set = {}
    BY <1>2
  <2> QED
    BY <2>1, FS_EmptySet DEF Finite
<1> QED
  BY <1>1, <1>2, <1>3, <1>4, <1>5 DEF DataInv

(* Every step keeps the invariant and is one the data service allows. *)
LEMMA DataStep ==
    ASSUME NEW S, \A s \in Sessions : DataSession(S, s), {"hash.set", "hash.del"} \subseteq Misreported,
           DataInv(S), Next
    PROVE  DataInv(S)' /\ Promise!Next
<1> DEFINE X == Passing(S, Modes(session))
<1>0. session \in Sessions /\ store \in DataStore(X) /\ Finite(store) /\ DataSession(S, session)
  BY DEF DataInv
<1>1. CASE \E mode \in Modes(session) : \E m \in session.calls[mode] : sendCommand(mode, m)
  <2>1. PICK mode \in Modes(session) : \E m \in session.calls[mode] : sendCommand(mode, m)
    BY <1>1
  <2>2. PICK m \in session.calls[mode] : sendCommand(mode, m)
    BY <2>1
  <2>3. /\ InModule(X, m)
        /\ mode # "rpc" => X \cap Binary = {}
        /\ mode # "http" => m.op # "kv.stats"
    BY <1>0, SessionCalls
  <2> HIDE DEF X
  <2>4. Promise!Invoke(m) /\ store' = Promise!DataEffect(m, store) /\ session' = session
    <3>1. CASE mode = "rpc" /\ sendRPC(m)
      BY <1>0, <2>3, <3>1, RpcInvokes
    <3>2. CASE mode = "resp3" /\ sendRESP3(m)
      BY <1>0, <2>3, <3>2, Resp3Invokes
    <3>3. CASE mode = "http" /\ sendHTTP(m)
      BY <1>0, <2>3, <3>3, HttpInvokes
    <3> QED
      BY <2>2, <3>1, <3>2, <3>3 DEF sendCommand
  <2>5. m \in DataCalls(X) \cup [op : {"kv.stats"}]
    BY <2>3, DataModule
  <2>6. store' \in DataStore(X) /\ Finite(store')
    BY <1>0, <2>4, <2>5, EffectTyped
  <2>7. store'.expires => store'.kv # Nil
    <3>1. store.expires => store.kv # Nil
      BY DEF DataInv
    <3> QED
      BY <1>0, <2>4, <2>5, <3>1, LifetimeKept
  <2>8. m \in UNION {UNION {s.calls[k] : k \in Modes(s)} : s \in Sessions}
    BY <1>0, <2>1, <2>2
  <2> QED
    BY <1>0, <2>4, <2>6, <2>7, <2>8 DEF DataInv, X, Promise!Next, Finite
<1>2. CASE Expire
  <2>1. Promise!Expire /\ session' = session /\ store' = [store EXCEPT !.kv = Nil, !.expires = FALSE]
    BY <1>2, SameValues DEF Expire, Promise!Expire
  <2> HIDE DEF X
  <2>2. store' \in DataStore(X) /\ Finite(store') /\ ~store'.expires
    BY <1>0, <2>1 DEF DataStore, Finite
  <2> QED
    BY <1>0, <2>1, <2>2 DEF DataInv, X, Promise!Next, Finite
<1> QED
  BY <1>1, <1>2 DEF Next

(* The calls on KV, hashes, lists and sets have the effect and the result  *)
(* their comments describe, on every mix of transports and for every       *)
(* session that passes on the strings it uses: mapCommandToWire,           *)
(* payloadToMap, mapResponseFromWire and Decode lose nothing.  The results *)
(* of Hash.Set and Hash.Del are excepted.                                  *)
THEOREM DataServiceImplemented ==
    ASSUME NEW Strings, \A s \in Sessions : DataSession(Strings, s),
           {"hash.set", "hash.del"} \subseteq Misreported
    PROVE  Spec => ImplementsDataService
<1>1. Init => DataInv(Strings) /\ Promise!Init
  BY DataInit
<1>2. DataInv(Strings) /\ [Next]_vars => DataInv(Strings)' /\ [Promise!Next]_(Promise!absVars)
  <2>1. CASE Next
    BY <2>1, DataStep
  <2>2. CASE UNCHANGED vars
    BY <2>2 DEF vars, DataInv, Finite, Promise!absVars
  <2> QED
    BY <2>1, <2>2
<1> QED
  BY <1>1, <1>2, PTL DEF Spec, ImplementsDataService, Promise!Spec
=============================================================================
