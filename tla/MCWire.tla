------------------------------- MODULE MCWire -------------------------------
(* Model of WireMapping: who calls what. *)
EXTENDS WireMapping

Members == {Str("a"), Str("b")}

KvMethods(values, ttls) ==
    [op : {"kv.set"}, value : values, ttl : ttls]
    \cup [op : {"kv.get", "kv.del", "kv.exists", "kv.incr", "kv.decr"}]

HashMethods(values) ==
    [op : {"hash.set"}, field : Members, value : values]
    \cup [op : {"hash.get", "hash.del", "hash.exists"}, field : Members]
    \cup [op : {"hash.getall"}]

ListMethods(values) ==
    [op : {"list.lpush", "list.rpush"}, values : {<<v>> : v \in values} \cup {SetToSeq(values)}]
    \cup [op : {"list.lpop", "list.rpop"}, count : {0, 2}]
    \cup [op : {"list.range"}, start : {0, 1}, stop : {0, -1}]
    \cup [op : {"list.len"}]

SetMethods(values) ==
    [op : {"set.add", "set.rem"}, members : {<<v>> : v \in values} \cup {SetToSeq(values)}]
    \cup [op : {"set.ismember"}, member : values]
    \cup [op : {"set.members", "set.card"}]

QueueMethods(payloads, options) ==
    [op : {"queue.create"}, depth : options, deadline : {0}]
    \cup [op : {"queue.publish"}, payload : payloads, priority : options, retries : {0}]
    \cup [op : {"queue.ack", "queue.nack"}, id : {Num(1), Num(2)}]
    \cup [op : {"queue.consume", "queue.list", "queue.stats", "queue.delete"}]

StreamMethods(data, limits) ==
    [op : {"stream.create", "stream.get_or_create"}, max : limits]
    \cup [op : {"stream.publish"}, event : {Str("e")}, data : data]
    \cup [op : {"stream.consume"}, offset : {0, 1}, limit : {1, 2}]
    \cup [op : {"stream.list", "stream.stats", "stream.delete"}]

PubSubMethods(data, priorities) ==
    [op : {"pubsub.publish"}, topic : Members, data : data, priority : priorities]
    \cup [op : {"pubsub.subscribe", "pubsub.unsubscribe"}, subscriber : {Str("me"), Str("id1")},
          topics : {<<Str("a")>>, <<Str("a"), Str("b")>>}]
    \cup [op : {"pubsub.topics"}]

Text    == {Str("a"), Num(1)}
AnyText == {Str("a"), Str("bin")}
Data    == {Str("a"), Obj([n |-> I64(1)])}
Ids     == {Str("id1"), Str("id2")}

Session(d, modes, calls) == [module |-> d, calls |-> [mode \in modes |-> calls]]

AllModes == {"http", "rpc", "resp3"}
Native   == {"rpc", "resp3"}

(* The native SUBSCRIBE does not carry the subscriber's id. *)
ButSubscribe(calls) == {m \in calls : m.op # "pubsub.subscribe"}

(* Clients on any mix of transports that exchange text, with lifetimes in  *)
(* whole seconds and default options, subscribing over HTTP; clients on    *)
(* SynapRPC with values that are not UTF-8; and clients on HTTP that use   *)
(* the options and publish objects.                                        *)
WorkingSessions ==
    { Session("kv", AllModes, KvMethods(Text, {0, 2000})),
      Session("hash", AllModes, HashMethods(Text)),
      Session("list", AllModes, ListMethods(Text)),
      Session("set", AllModes, SetMethods(Text)),
      Session("queue", AllModes, QueueMethods(Text, {0})),
      Session("stream", AllModes, StreamMethods(Text, {0})),
      LET calls == PubSubMethods({Str("a")}, {0}) IN
      [module |-> "pubsub",
       calls |-> [mode \in AllModes |-> IF mode = "http" THEN calls ELSE ButSubscribe(calls)]],
      Session("kv", {"rpc"}, KvMethods(AnyText, {0})),
      Session("hash", {"rpc"}, HashMethods(AnyText)),
      Session("list", {"rpc"}, ListMethods(AnyText)),
      Session("set", {"rpc"}, SetMethods(AnyText)),
      Session("queue", {"http", "rpc"}, QueueMethods({Str("bin")}, {0})),
      Session("stream", {"rpc"}, StreamMethods(AnyText, {0})),
      Session("kv", {"http"}, KvMethods({Str("a")}, {0}) \cup [op : {"kv.stats"}]),
      Session("queue", {"http"}, QueueMethods({Str("a")}, {0, 1})),
      Session("stream", {"http"}, StreamMethods(Data, {0, 1})),
      Session("pubsub", {"http"}, PubSubMethods(Data, {0, 1})) }

HashSessions == {Session("hash", {mode}, HashMethods(Members)) : mode \in Native}

(* A queue over RESP3. *)
QueueSessions == {Session("queue", {"resp3"}, QueueMethods({Str("a")}, {0}))}

(* A lifetime of half a second, options, subscriber ids and data that are  *)
(* no text, over the native transports.                                    *)
OptionSessions ==
    UNION {{ Session("kv", {mode}, KvMethods(Members, {500})),
             Session("queue", {mode}, QueueMethods({Str("a")}, {1})),
             Session("stream", {mode}, StreamMethods(Data, {1})),
             Session("pubsub", {mode}, PubSubMethods(Data, {1})) } : mode \in Native}
=============================================================================
