--------------------------- MODULE BrokerMapping ---------------------------
(***************************************************************************)
(* The queue, stream and pub/sub methods: the payloads they build, their   *)
(* part of mapCommandToWire and mapResponseFromWire, and what they read    *)
(* out of the response; and the server's side of their commands, which is  *)
(* external.  The names of the queue and the room, of which there is one,  *)
(* and the ids of consumers are left out.                                  *)
(***************************************************************************)
EXTENDS Encoding

CONSTANT Resp3Bytes     \* whether RESP3 replies carry bytes as "text" or as "numbers"

(* An optional argument: 0 is a nil pointer. *)
Optional(n) == IF n > 0 THEN I64(n) ELSE Nil

queuePayload(m) ==
    CASE m.op = "queue.create" ->
            [config |-> IF m.depth > 0 \/ m.deadline > 0
                        THEN Obj([max_depth |-> Optional(m.depth),
                                  ack_deadline_secs |-> Optional(m.deadline)])
                        ELSE Nil]
      [] m.op = "queue.publish" ->
            [payload |-> Bytes(m.payload), priority |-> I64(m.priority),
             max_retries |-> Optional(m.retries)]
      [] m.op \in {"queue.ack", "queue.nack"} -> [message_id |-> m.id]
      [] OTHER -> <<>>

streamPayload(m) ==
    CASE m.op \in {"stream.create", "stream.get_or_create"} -> [max_events |-> Optional(m.max)]
      [] m.op = "stream.publish" -> [event |-> m.event, data |-> m.data]
      [] m.op = "stream.consume" ->
            [subscriber_id |-> Str("sdk-default"), from_offset |-> I64(m.offset),
             limit |-> I64(m.limit)]
      [] OTHER -> <<>>

pubsubPayload(m) ==
    CASE m.op = "pubsub.publish" ->
            [topic |-> m.topic, payload |-> m.data, priority |-> I64(m.priority)]
      [] m.op \in {"pubsub.subscribe", "pubsub.unsubscribe"} ->
            [subscriber_id |-> m.subscriber, topics |-> Arr(m.topics)]
      [] OTHER -> <<>>

-----------------------------------------------------------------------------
(* The array of numbers becomes the string of its bytes again. *)
queueCommand(op, p) ==
    CASE op = "queue.create"  -> Wire("QCREATE", <<>>)
      [] op = "queue.delete"  -> Wire("QDELETE", <<>>)
      [] op = "queue.publish" -> Wire("QPUBLISH", <<IF p.payload[1] = "bytes"
                                                    THEN p.payload[2]
                                                    ELSE getStr(p, "payload")>>)
      [] op = "queue.consume" -> Wire("QCONSUME", <<>>)
      [] op = "queue.ack"     -> Wire("QACK", <<getStr(p, "message_id")>>)
      [] op = "queue.nack"    -> Wire("QNACK", <<getStr(p, "message_id")>>)
      [] op = "queue.list"    -> Wire("QLIST", <<>>)
      [] op = "queue.stats"   -> Wire("QSTATS", <<>>)

streamCommand(op, p) ==
    CASE op = "stream.create"        -> Wire("SCREATE", <<>>)
      [] op = "stream.get_or_create" -> Wire("SGETORCREATE", <<>>)
      [] op = "stream.publish"       -> Wire("SPUBLISH", <<getStr(p, "event"), getStr(p, "data")>>)
      [] op = "stream.consume"       -> Wire("SREAD", <<getStr(p, "subscriber_id"),
                                                        I64(getFloat(p, "from_offset")),
                                                        I64(getFloat(p, "limit"))>>)
      [] op = "stream.list"          -> Wire("SLIST", <<>>)
      [] op = "stream.stats"         -> Wire("SSTATS", <<>>)
      [] op = "stream.delete"        -> Wire("SDELETE", <<>>)

pubsubCommand(mode, op, p) ==
    CASE op = "pubsub.publish"     -> Wire("PUBLISH", <<getStr(p, "topic"), getStr(p, "payload")>>)
      [] op = "pubsub.subscribe"   -> Wire("SUBSCRIBE", getStrSlice(p, "topics"))
      [] op = "pubsub.unsubscribe" -> Wire("UNSUBSCRIBE", <<getStr(p, "subscriber_id")>>
                                                          \o getStrSlice(p, "topics"))
      [] op = "pubsub.topics" /\ mode = "resp3" -> Wire("PUBSUB", <<Str("CHANNELS")>>)
      [] op = "pubsub.topics" /\ mode # "resp3" -> Wire("TOPICS", <<>>)

-----------------------------------------------------------------------------
(* The server (external) *)

(* The method a native command stands for.  The native commands have no    *)
(* place for the options; the server makes up the id of a subscriber.      *)
brokerMeaning(mode, w) ==
    CASE w.cmd = "QCREATE"  -> [op |-> "queue.create", depth |-> 0, deadline |-> 0]
      [] w.cmd = "QPUBLISH" -> [op |-> "queue.publish", payload |-> w.args[1],
                                priority |-> 0, retries |-> 0]
      [] w.cmd = "QACK"     -> [op |-> "queue.ack", id |-> w.args[1]]
      [] w.cmd = "QNACK"    -> [op |-> "queue.nack", id |-> w.args[1]]
      [] w.cmd = "SCREATE"  -> [op |-> "stream.create", max |-> 0]
      [] w.cmd = "SGETORCREATE" -> [op |-> "stream.get_or_create", max |-> 0]
      [] w.cmd = "SPUBLISH" -> [op |-> "stream.publish", event |-> w.args[1], data |-> w.args[2]]
      [] w.cmd = "SREAD"    -> [op |-> "stream.consume", offset |-> w.args[2][2],
                                limit |-> w.args[3][2]]
      [] w.cmd = "PUBLISH"  -> [op |-> "pubsub.publish", topic |-> w.args[1], data |-> w.args[2],
                                priority |-> 0]
      [] w.cmd = "SUBSCRIBE" -> [op |-> "pubsub.subscribe", subscriber |-> Nil, topics |-> w.args]
      [] w.cmd = "UNSUBSCRIBE" -> [op |-> "pubsub.unsubscribe", subscriber |-> w.args[1],
                                   topics |-> Tail(w.args)]
      [] OTHER -> [op |-> CASE w.cmd = "QDELETE"  -> "queue.delete"
                            [] w.cmd = "QCONSUME" -> "queue.consume"
                            [] w.cmd = "QLIST"    -> "queue.list"
                            [] w.cmd = "QSTATS"   -> "queue.stats"
                            [] w.cmd = "SLIST"    -> "stream.list"
                            [] w.cmd = "SSTATS"   -> "stream.stats"
                            [] w.cmd = "SDELETE"  -> "stream.delete"
                            [] w.cmd = "TOPICS" /\ mode = "rpc"   -> "pubsub.topics"
                            [] w.cmd = "PUBSUB" /\ mode = "resp3" -> "pubsub.topics"
                            [] OTHER -> "none"]

WithPayloadAs(form, r) ==
    IF r = Nil \/ form = "text" THEN r ELSE Obj([r[2] EXCEPT !.payload = Bytes(@)])

(* The forms a native reply can have for result r of method m. *)
brokerReplies(mode, m, r) ==
    CASE m.op = "queue.consume" /\ mode = "resp3" -> {WithPayloadAs(Resp3Bytes, r)}
      [] m.op = "stream.get_or_create" -> {Str(IF r[2] THEN "CREATED" ELSE "EXISTS")}
      [] m.op = "stream.consume" /\ r = Arr(<<>>) -> {r, Nil}
      [] m.op = "pubsub.publish" -> {r, Obj([subscribers_matched |-> r])}
      [] m.op = "pubsub.subscribe" -> {Obj([subscriber_id |-> r])}
      [] r = Done -> {Str("OK")}
      [] OTHER -> {r}

(* The method an HTTP envelope stands for. *)
brokerEnvelope(m, p) ==
    LET config == IF Has(p, "config") /\ p.config # Nil THEN p.config[2] ELSE <<>> IN
    [f \in DOMAIN m |->
        CASE f = "op"       -> m.op
          [] f = "depth"    -> getFloat(config, "max_depth")
          [] f = "deadline" -> getFloat(config, "ack_deadline_secs")
          [] f = "payload"  -> p.payload[2]
          [] f = "priority" -> getFloat(p, "priority")
          [] f = "retries"  -> getFloat(p, "max_retries")
          [] f = "id"       -> p.message_id
          [] f = "max"      -> getFloat(p, "max_events")
          [] f = "offset"   -> getFloat(p, "from_offset")
          [] f = "limit"    -> getFloat(p, "limit")
          [] f = "data"     -> IF m.op = "stream.publish" THEN p.data ELSE p.payload
          [] f = "subscriber" -> p.subscriber_id
          [] f = "topics"   -> getStrSlice(p, "topics")
          [] OTHER          -> p[f]]

(* The forms of the HTTP reply, in the fields the methods read. *)
brokerHttpReplies(m, r) ==
    CASE m.op = "queue.publish" -> {Obj([message_id |-> r])}
      [] m.op = "queue.consume" -> {Obj([message |-> WithPayloadAs("numbers", r)])}
      [] m.op = "queue.list"    -> {Obj([queues |-> r])}
      [] m.op = "stream.get_or_create" -> {Obj([created |-> r])}
      [] m.op = "stream.publish" -> {Obj([offset |-> r])}
      [] m.op = "stream.consume" -> {Obj([events |-> r])}
      [] m.op = "stream.list"    -> {Obj([rooms |-> r])}
      [] m.op = "pubsub.publish" -> {Obj([subscribers_matched |-> r])}
      [] m.op = "pubsub.subscribe" -> {Obj([subscriber_id |-> r]), Obj([subscription_id |-> r])}
      [] m.op = "pubsub.topics"  -> {Obj([topics |-> r])}
      [] r = Done -> {Nil}
      [] OTHER    -> {r}

-----------------------------------------------------------------------------
queueResponse(op, v) ==
    CASE op = "queue.publish" -> Obj([message_id |-> v])
      [] op = "queue.consume" -> Obj([message |-> v])
      [] op = "queue.list"    -> Obj([queues |-> arrayOr(v, Arr(<<>>))])
      [] op = "queue.stats"   -> v
      [] OTHER                -> Obj(<<>>)

streamResponse(op, v) ==
    CASE op = "stream.get_or_create" -> Obj([created |-> Bool(v = Str("CREATED"))])
      [] op = "stream.publish" -> Obj([offset |-> v])
      [] op = "stream.consume" -> Obj([events |-> arrayOr(v, Arr(<<>>))])
      [] op = "stream.list"    -> Obj([rooms |-> arrayOr(v, Arr(<<>>))])
      [] op = "stream.stats"   -> v
      [] OTHER                 -> Obj(<<>>)

pubsubResponse(op, v) ==
    CASE op = "pubsub.publish" -> IF v[1] = "obj" THEN v ELSE Obj([subscribers_matched |-> v])
      [] op = "pubsub.subscribe" -> v
      [] op = "pubsub.topics"    -> Obj([topics |-> arrayOr(v, Arr(<<>>))])
      [] OTHER                   -> Obj(<<>>)

-----------------------------------------------------------------------------
(* The structs of types.go, without the timestamps and what else nothing   *)
(* here sets.                                                              *)
Message == Struct([id |-> Scalar("text"), payload |-> Scalar("bytes"), priority |-> Scalar("int"),
                   retry_count |-> Scalar("int"), max_retries |-> Scalar("int")])

QueueStats ==
    Struct([f \in {"depth", "published", "consumed", "acked", "nacked"} |-> Scalar("int")])

Event == Struct([offset |-> Scalar("int"), event |-> Scalar("text"), data |-> Scalar("any")])

StreamStats ==
    Struct([f \in {"message_count", "min_offset", "total_published", "generation"} |-> Scalar("int")])

(* Consume: a response that does not decode as {"message": ...} is decoded *)
(* once more, as a message; without an id it counts as none.               *)
Consume(mode, j) ==
    LET wrapper == assign(mode, j, Struct([message |-> Pointer(Message)]))
        msg     == assign(mode, j, Message) IN
    CASE wrapper # Failed -> wrapper[2].message
      [] wrapper = Failed /\ msg = Failed -> Failed
      [] OTHER -> IF msg[2].id = Str("") THEN Nil ELSE msg

(* What the methods return for response j. *)
queueReturn(mode, op, j) ==
    CASE op = "queue.publish" -> Decode(mode, j, "message_id", Scalar("text"))
      [] op = "queue.consume" -> Consume(mode, j)
      [] op = "queue.list"    -> Decode(mode, j, "queues", ListOf(Scalar("text")))
      [] op = "queue.stats"   -> assign(mode, j, QueueStats)
      [] OTHER                -> Done

streamReturn(mode, op, j) ==
    CASE op = "stream.get_or_create" -> Decode(mode, j, "created", Scalar("bool"))
      [] op = "stream.publish" -> Decode(mode, j, "offset", Scalar("int"))
      [] op = "stream.consume" -> Decode(mode, j, "events", ListOf(Event))
      [] op = "stream.list"    -> Decode(mode, j, "rooms", ListOf(Scalar("text")))
      [] op = "stream.stats"   -> assign(mode, j, StreamStats)
      [] OTHER                 -> Done

pubsubReturn(mode, op, j) ==
    CASE op = "pubsub.publish" -> Decode(mode, j, "subscribers_matched", Scalar("int"))
      [] op = "pubsub.subscribe" ->
            LET id == Decode(mode, j, "subscriber_id", Scalar("text")) IN
            IF id # Str("") THEN id ELSE Decode(mode, j, "subscription_id", Scalar("text"))
      [] op = "pubsub.topics" -> Decode(mode, j, "topics", ListOf(Scalar("text")))
      [] OTHER                -> Done
=============================================================================
