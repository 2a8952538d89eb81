---------------------------- MODULE WireMapping ----------------------------
(***************************************************************************)
(* The way of a method call through a SynapClient and back: the payload    *)
(* the method builds, its encoding for the transport (payloadToMap for     *)
(* SynapRPC, encoding/json for RESP3 and HTTP), mapCommandToWire, the      *)
(* server, mapResponseFromWire, and Decode into the struct the method      *)
(* reads.  Clients on different transports share one server.               *)
(*                                                                         *)
(* A call is one step: what happens to it in between is the business of    *)
(* the transports' own modules.  The server is external.                   *)
(***************************************************************************)
EXTENDS DataMapping, BrokerMapping

CONSTANTS Sessions,     \* what clients do: a module, their calls over each transport
          Misreported,  \* methods whose returned value is not judged
          Generated,    \* subscriber ids the server can make up
          MaxLen,       \* bound: length of the list, the queue and the room
          MaxCount      \* bound: counters stay within -MaxCount .. MaxCount

Modules == {"kv", "hash", "list", "set", "queue", "stream", "pubsub"}

(* The transports session s has clients on. *)
Modes(s) == DOMAIN s.calls

ASSUME WireAssumption ==
    /\ \A s \in Sessions : s.module \in Modules /\ Modes(s) \subseteq {"http", "rpc", "resp3"}
    /\ Resp3Bytes \in {"text", "numbers"}
    /\ MaxLen \in Nat
    /\ MaxCount \in Nat

VARIABLES store,        \* the server's data
          last,         \* the last call and what it returned
          session       \* the session: modules share no data, so one has one module

vars == <<store, last, session>>

Promise == INSTANCE DataService WITH
               Methods <- UNION {UNION {s.calls[mode] : mode \in Modes(s)} : s \in Sessions}

-----------------------------------------------------------------------------
Payload(m) ==
    CASE session.module = "kv"     -> kvPayload(m)
      [] session.module = "hash"   -> hashPayload(m)
      [] session.module = "list"   -> listPayload(m)
      [] session.module = "set"    -> setPayload(m)
      [] session.module = "queue"  -> queuePayload(m)
      [] session.module = "stream" -> streamPayload(m)
      [] session.module = "pubsub" -> pubsubPayload(m)

mapCommandToWire(mode, op, p) ==
    CASE session.module = "queue"  -> queueCommand(op, p)
      [] session.module = "stream" -> streamCommand(op, p)
      [] session.module = "pubsub" -> pubsubCommand(mode, op, p)
      [] OTHER                     -> dataCommand(op, p)

mapResponseFromWire(op, v) ==
    CASE session.module = "queue"  -> queueResponse(op, v)
      [] session.module = "stream" -> streamResponse(op, v)
      [] session.module = "pubsub" -> pubsubResponse(op, v)
      [] OTHER                     -> dataResponse(op, v)

Return(mode, op, j) ==
    CASE session.module = "kv"     -> kvReturn(mode, op, j)
      [] session.module = "hash"   -> hashReturn(mode, op, j)
      [] session.module = "list"   -> listReturn(mode, op, j)
      [] session.module = "set"    -> setReturn(mode, op, j)
      [] session.module = "queue"  -> queueReturn(mode, op, j)
      [] session.module = "stream" -> streamReturn(mode, op, j)
      [] session.module = "pubsub" -> pubsubReturn(mode, op, j)

-----------------------------------------------------------------------------
(* The server (external) *)

ForBroker == session.module \in {"queue", "stream", "pubsub"}

Meaning(mode, w) == IF ForBroker THEN brokerMeaning(mode, w) ELSE dataMeaning(w)

Replies(mode, m, r) == IF ForBroker THEN brokerReplies(mode, m, r) ELSE dataReplies(mode, m, r)

Envelope(m, p) == IF ForBroker THEN brokerEnvelope(m, p) ELSE dataEnvelope(m, p)

HttpReplies(m, r) == IF ForBroker THEN brokerHttpReplies(m, r) ELSE {dataHttpReply(m, r)}

(* A string sent as such is decoded as UTF-8, with losses when it is not. *)
Received(a) == fromWire(Json(a))

(* A subscriber who brings no id is given a new one. *)
Identified(c) ==
    IF c.op = "pubsub.subscribe" /\ c.subscriber = Nil
    THEN {[c EXCEPT !.subscriber = id] : id \in Generated \ DOMAIN store.subs}
    ELSE {c}

Bounded(s) ==
    /\ \A n \in {Len(s.list), Len(s.queue.waiting), Len(s.room.events)} : n <= MaxLen
    /\ \A n \in {s.issued, s.queue.consumed, s.generations, s.room.total} : n <= MaxCount
    /\ s.kv[1] = "num" => s.kv[2] \in -MaxCount .. MaxCount

(* The server handles request c, and the method ends with what it returns  *)
(* for one of the responses; an error is returned as it is.                *)
Handle(mode, m, c, responses) ==
    /\ Bounded(Promise!Effect(c, store))
    /\ store' = Promise!Effect(c, store)
    /\ UNCHANGED session
    /\ IF Promise!Result(c, store) = Failed
       THEN last' = [call |-> m, result |-> Failed]
       ELSE \E j \in responses :
                last' = [call |-> m, result |-> Return(mode, m.op, j)]

-----------------------------------------------------------------------------
Init ==
    /\ Promise!Init
    /\ session \in Sessions

(* sendRPC *)
sendRPC(m) ==
    LET w == mapCommandToWire("rpc", m.op, payloadToMap(Payload(m)))
        sent == [w EXCEPT !.args = [i \in DOMAIN @ |-> Received(toWire(@[i]))]] IN
    \E c \in Identified(Meaning("rpc", sent)) :
        Handle("rpc", m, c, {mapResponseFromWire(m.op, fromWire(toWire(v))) :
                                v \in Replies("rpc", c, Promise!Result(c, store))})

(* sendRESP3: the response is encoded as JSON once more. *)
sendRESP3(m) ==
    LET w == mapCommandToWire("resp3", m.op, throughJson(Payload(m))) IN
    \E c \in Identified(Meaning("resp3", w)) :
        Handle("resp3", m, c, {Json(mapResponseFromWire(m.op, v)) :
                                  v \in Replies("resp3", c, Promise!Result(c, store))})

(* sendHTTP *)
sendHTTP(m) ==
    LET c == Envelope(m, throughJson(Payload(m))) IN
    Handle("http", m, c, {Json(j) : j \in HttpReplies(c, Promise!Result(c, store))})

(* sendCommand *)
sendCommand(mode, m) ==
    \/ mode = "rpc" /\ sendRPC(m)
    \/ mode = "resp3" /\ sendRESP3(m)
    \/ mode = "http" /\ sendHTTP(m)

(* The server expires the key (external). *)
Expire == Promise!Expire /\ UNCHANGED session

Next ==
    \/ \E mode \in Modes(session) : \E m \in session.calls[mode] : sendCommand(mode, m)
    \/ Expire

Spec == Init /\ [][Next]_vars

-----------------------------------------------------------------------------
TypeOK ==
    /\ session \in Sessions
    /\ IsText(store.kv) \/ store.kv = Nil
    /\ store.expires => store.kv # Nil
    /\ \A f \in DOMAIN store.hash : IsText(f) /\ IsText(store.hash[f])
    /\ \A i \in DOMAIN store.list : IsText(store.list[i])
    /\ \A e \in store.set : IsText(e)
    /\ \A i \in DOMAIN store.queue.waiting : IsText(store.queue.waiting[i].payload)
    /\ \A i \in DOMAIN store.room.events : IsText(store.room.events[i].event)
    /\ \A id \in DOMAIN store.subs : \A t \in store.subs[id] : IsText(t)

(* Every method has the effect and the result its comment describes, on    *)
(* every transport, also when the data were written over another one.      *)
ImplementsDataService == Promise!Spec

(* hash.go 13, 78: Set "returns true if the field was newly created", Del  *)
(* "returns the number of fields deleted".                                 *)
HashResultsAreTrue ==
    [][last'.call.op \in {"hash.set", "hash.del"} =>
          last'.result = Promise!Result(last'.call, store)]_vars

(* queue.go 75: Consume "returns nil, nil when the queue is empty", and    *)
(* so only then: a message handed out is not reported as none.             *)
NoneMeansEmpty ==
    [][last'.call.op = "queue.consume" /\ last'.result = Nil => store.queue.waiting = <<>>]_vars

(* The arguments of a method reach the server as the caller gave them: a   *)
(* call that succeeds changes the data the way its comment says, lifetime, *)
(* limits, priority, data and the id that Subscribe registers (pubsub.go   *)
(* 34) included.                                                           *)
ArgumentsKept ==
    [][\/ Expire
       \/ last'.result = Failed
       \/ store' = Promise!Effect(last'.call, store)]_vars
=============================================================================
