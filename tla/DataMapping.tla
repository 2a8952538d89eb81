---------------------------- MODULE DataMapping ----------------------------
(***************************************************************************)
(* The KV, hash, list and set methods: the payloads they build, their part *)
(* of mapCommandToWire and mapResponseFromWire, and what they read out of  *)
(* the response; and the server's side of their commands, which is         *)
(* external.  Where the code accepts several forms of a reply the server   *)
(* may send any of them.  Keys are left out, every data type having one.   *)
(***************************************************************************)
EXTENDS Encoding

(* The payload structs of the methods; nil pointers are Nil, and fields    *)
(* left out by omitempty are absent.  A time to live, in milliseconds      *)
(* here, is cut to whole seconds.                                          *)
kvPayload(m) ==
    IF m.op = "kv.set"
    THEN [value |-> m.value, ttl |-> IF m.ttl > 0 THEN I64(m.ttl \div 1000) ELSE Nil]
    ELSE <<>>

hashPayload(m) ==
    CASE m.op = "hash.set"    -> [field |-> m.field, value |-> m.value]
      [] m.op = "hash.del"    -> [field |-> m.field, fields |-> Arr(<<m.field>>)]
      [] m.op = "hash.getall" -> <<>>
      [] OTHER                -> [field |-> m.field]

listPayload(m) ==
    CASE m.op \in {"list.lpush", "list.rpush"} -> [values |-> Arr(m.values)]
      [] m.op \in {"list.lpop", "list.rpop"} /\ m.count > 0 -> [count |-> I64(m.count)]
      [] m.op = "list.range" -> [start |-> I64(m.start), stop |-> I64(m.stop)]
      [] OTHER -> <<>>

setPayload(m) ==
    CASE m.op \in {"set.add", "set.rem"} -> [members |-> Arr(m.members)]
      [] m.op = "set.ismember" -> [member |-> m.member]
      [] OTHER -> <<>>

-----------------------------------------------------------------------------
(* The arguments after the key.  INCRBY and DECRBY are left out: they need *)
(* an amount in the payload, and no method puts one there.  kv.stats has   *)
(* no native command.                                                      *)
dataCommand(op, p) ==
    CASE op = "kv.set"       -> Wire("SET", <<getStr(p, "value")>> \o
                                    IF getFloat(p, "ttl") > 0
                                    THEN <<Str("EX"), I64(getFloat(p, "ttl"))>> ELSE <<>>)
      [] op = "kv.get"       -> Wire("GET", <<>>)
      [] op = "kv.del"       -> Wire("DEL", <<>>)
      [] op = "kv.exists"    -> Wire("EXISTS", <<>>)
      [] op = "kv.incr"      -> Wire("INCR", <<>>)
      [] op = "kv.decr"      -> Wire("DECR", <<>>)
      [] op = "hash.set"     -> Wire("HSET", <<getStr(p, "field"), getStr(p, "value")>>)
      [] op = "hash.get"     -> Wire("HGET", <<getStr(p, "field")>>)
      [] op = "hash.getall"  -> Wire("HGETALL", <<>>)
      [] op = "hash.del"     -> Wire("HDEL", IF getStrSlice(p, "fields") = <<>>
                                             THEN <<getStr(p, "field")>>
                                             ELSE getStrSlice(p, "fields"))
      [] op = "hash.exists"  -> Wire("HEXISTS", <<getStr(p, "field")>>)
      [] op = "list.lpush"   -> Wire("LPUSH", getStrSlice(p, "values"))
      [] op = "list.rpush"   -> Wire("RPUSH", getStrSlice(p, "values"))
      [] op = "list.lpop"    -> Wire("LPOP", <<I64(getFloat(p, "count"))>>)
      [] op = "list.rpop"    -> Wire("RPOP", <<I64(getFloat(p, "count"))>>)
      [] op = "list.range"   -> Wire("LRANGE", <<I64(getFloat(p, "start")), I64(getFloat(p, "stop"))>>)
      [] op = "list.len"     -> Wire("LLEN", <<>>)
      [] op = "set.add"      -> Wire("SADD", getStrSlice(p, "members"))
      [] op = "set.members"  -> Wire("SMEMBERS", <<>>)
      [] op = "set.ismember" -> Wire("SISMEMBER", <<getStr(p, "member")>>)
      [] op = "set.rem"      -> Wire("SREM", getStrSlice(p, "members"))
      [] op = "set.card"     -> Wire("SCARD", <<>>)
      [] OTHER               -> Unsupported

-----------------------------------------------------------------------------
(* The server (external) *)

(* The method a native command stands for. *)
dataMeaning(w) ==
    CASE w.cmd = "SET"    -> [op |-> "kv.set", value |-> w.args[1],
                              ttl |-> IF Len(w.args) = 3 THEN w.args[3][2] ELSE 0]
      [] w.cmd = "HSET"   -> [op |-> "hash.set", field |-> w.args[1], value |-> w.args[2]]
      [] w.cmd \in {"HGET", "HDEL", "HEXISTS"} ->
            [op    |-> CASE w.cmd = "HGET" -> "hash.get"
                         [] w.cmd = "HDEL" -> "hash.del"
                         [] OTHER          -> "hash.exists",
             field |-> w.args[1]]
      [] w.cmd \in {"LPUSH", "RPUSH"} ->
            [op |-> IF w.cmd = "LPUSH" THEN "list.lpush" ELSE "list.rpush", values |-> w.args]
      [] w.cmd \in {"LPOP", "RPOP"} ->
            [op |-> IF w.cmd = "LPOP" THEN "list.lpop" ELSE "list.rpop", count |-> w.args[1][2]]
      [] w.cmd = "LRANGE" -> [op |-> "list.range", start |-> w.args[1][2], stop |-> w.args[2][2]]
      [] w.cmd \in {"SADD", "SREM"} ->
            [op |-> IF w.cmd = "SADD" THEN "set.add" ELSE "set.rem", members |-> w.args]
      [] w.cmd = "SISMEMBER" -> [op |-> "set.ismember", member |-> w.args[1]]
      [] OTHER -> [op |-> CASE w.cmd = "GET"      -> "kv.get"
                            [] w.cmd = "DEL"      -> "kv.del"
                            [] w.cmd = "EXISTS"   -> "kv.exists"
                            [] w.cmd = "INCR"     -> "kv.incr"
                            [] w.cmd = "DECR"     -> "kv.decr"
                            [] w.cmd = "HGETALL"  -> "hash.getall"
                            [] w.cmd = "LLEN"     -> "list.len"
                            [] w.cmd = "SMEMBERS" -> "set.members"
                            [] w.cmd = "SCARD"    -> "set.card"
                            [] OTHER              -> "none"]

Flag(b) == {Bool(b), I64(IF b THEN 1 ELSE 0)}

FlatPairs(f) ==
    LET keys == SetToSeq(DOMAIN f) IN
    Arr([i \in 1 .. 2 * Len(keys) |->
            IF i % 2 = 1 THEN keys[(i + 1) \div 2] ELSE f[keys[i \div 2]]])

(* The forms a native reply can have for result r of method m. *)
dataReplies(mode, m, r) ==
    CASE m.op = "kv.set" -> {Str("OK")}
      [] m.op \in {"kv.get", "hash.get"} /\ r = Str("") -> {Nil}
      [] m.op \in {"kv.get", "hash.get"} /\ r[1] = "num" /\ mode = "rpc" -> {r, I64(r[2])}
      [] r[1] = "bool" -> Flag(r[2])
      [] m.op = "hash.getall" -> {r, FlatPairs(r[2])}
      [] m.op \in {"list.lpop", "list.rpop"} /\ r = Arr(<<>>) -> {r, Nil}
      [] m.op \in {"list.lpop", "list.rpop"} /\ Len(r[2]) = 1 -> {r, r[2][1]}
      [] OTHER -> {r}

(* The method an HTTP envelope stands for. *)
dataEnvelope(m, p) ==
    [f \in DOMAIN m |->
        CASE f = "op"    -> m.op
          [] f = "ttl"   -> getFloat(p, "ttl")
          [] f = "count" -> getFloat(p, "count")
          [] f \in {"start", "stop"}     -> getFloat(p, f)
          [] f \in {"values", "members"} -> getStrSlice(p, f)
          [] OTHER       -> p[f]]

(* The payload of the HTTP reply, in the fields the methods read. *)
dataHttpReply(m, r) ==
    CASE m.op = "kv.set" -> Nil
      [] m.op = "kv.get" -> IF r = Str("") THEN Nil ELSE r
      [] m.op \in {"kv.del", "hash.del"} -> Obj([deleted |-> r])
      [] m.op \in {"kv.exists", "hash.exists"} -> Obj([exists |-> r])
      [] m.op \in {"kv.incr", "kv.decr"} -> Obj([value |-> r])
      [] m.op = "hash.set" -> Obj([success |-> r])
      [] m.op = "hash.get" -> Obj([value |-> IF r = Str("") THEN Nil ELSE r])
      [] m.op = "hash.getall" -> Obj([fields |-> r])
      [] m.op \in {"list.lpush", "list.rpush", "list.len"} -> Obj([length |-> r])
      [] m.op \in {"list.lpop", "list.rpop", "list.range"} -> Obj([values |-> r])
      [] m.op = "set.add" -> Obj([added |-> r])
      [] m.op = "set.members" -> Obj([members |-> r])
      [] m.op = "set.ismember" -> Obj([is_member |-> r])
      [] m.op = "set.rem" -> Obj([removed |-> r])
      [] m.op = "set.card" -> Obj([size |-> r])
      [] m.op = "kv.stats" -> r

-----------------------------------------------------------------------------
Unflatten(s) ==
    [f \in {s[2 * i - 1] : i \in 1 .. Len(s) \div 2} |->
        s[2 * (CHOOSE i \in 1 .. Len(s) \div 2 : s[2 * i - 1] = f)]]

dataResponse(op, v) ==
    CASE op = "kv.set"       -> Obj([success |-> Bool(TRUE)])
      [] op = "kv.get"       -> v
      [] op = "kv.del"       -> Obj([deleted |-> truthy(v)])
      [] op = "kv.exists"    -> Obj([exists |-> truthy(v)])
      [] op \in {"kv.incr", "kv.decr"} -> Obj([value |-> v])
      [] op = "hash.set"     -> Obj([created |-> truthy(v)])
      [] op = "hash.get"     -> IF v = Nil
                                THEN Obj([found |-> Bool(FALSE)])
                                ELSE Obj([found |-> Bool(TRUE), value |-> v])
      [] op = "hash.exists"  -> Obj([exists |-> truthy(v)])
      [] op = "hash.del"     -> Obj([removed |-> v])
      [] op = "hash.getall"  -> Obj([fields |-> IF v[1] = "arr" THEN Obj(Unflatten(v[2])) ELSE v])
      [] op \in {"list.lpush", "list.rpush"} -> Obj([length |-> v])
      [] op \in {"list.lpop", "list.rpop"} ->
            Obj([values |-> CASE v[1] = "arr" -> v
                              [] v = Nil      -> Arr(<<>>)
                              [] OTHER        -> Arr(<<v>>)])
      [] op = "list.range"   -> Obj([values |-> arrayOr(v, Arr(<<>>))])
      [] op = "list.len"     -> Obj([length |-> v])
      [] op = "set.add"      -> Obj([added |-> v])
      [] op = "set.members"  -> Obj([members |-> arrayOr(v, Arr(<<>>))])
      [] op = "set.ismember" -> Obj([is_member |-> truthy(v)])
      [] op = "set.rem"      -> Obj([removed |-> v])
      [] op = "set.card"     -> Obj([size |-> v])

(* What the methods return for response j, read under the names and with   *)
(* the types of their result structs.                                      *)
kvReturn(mode, op, j) ==
    CASE op = "kv.set"    -> Done
      [] op = "kv.get"    -> assign(mode, j, Scalar("text"))
      [] op = "kv.stats"  -> assign(mode, j, Struct([total_keys |-> Scalar("int")]))
      [] op = "kv.del"    -> Decode(mode, j, "deleted", Scalar("bool"))
      [] op = "kv.exists" -> Decode(mode, j, "exists", Scalar("bool"))
      [] op \in {"kv.incr", "kv.decr"} -> Decode(mode, j, "value", Scalar("int"))

hashReturn(mode, op, j) ==
    CASE op = "hash.set"    -> Decode(mode, j, "success", Scalar("bool"))
      [] op = "hash.get"    -> Decode(mode, j, "value", Scalar("text"))
      [] op = "hash.getall" -> Decode(mode, j, "fields", MapOf(Scalar("text")))
      [] op = "hash.del"    -> Decode(mode, j, "deleted", Scalar("int"))
      [] op = "hash.exists" -> Decode(mode, j, "exists", Scalar("bool"))

listReturn(mode, op, j) ==
    IF op \in {"list.lpush", "list.rpush", "list.len"}
    THEN Decode(mode, j, "length", Scalar("int"))
    ELSE Decode(mode, j, "values", ListOf(Scalar("text")))

setReturn(mode, op, j) ==
    CASE op = "set.add"      -> Decode(mode, j, "added", Scalar("int"))
      [] op = "set.members"  -> Decode(mode, j, "members", ListOf(Scalar("text")))
      [] op = "set.ismember" -> Decode(mode, j, "is_member", Scalar("bool"))
      [] op = "set.rem"      -> Decode(mode, j, "removed", Scalar("int"))
      [] op = "set.card"     -> Decode(mode, j, "size", Scalar("int"))
=============================================================================
