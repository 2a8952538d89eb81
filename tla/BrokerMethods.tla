--------------------------- MODULE BrokerMethods ---------------------------
(***************************************************************************)
(* What the queue, stream and pub/sub methods promise: their effect on the *)
(* broker's data and the value they return, as the comments on the methods *)
(* in queue.go, stream.go, pubsub.go and types.go have it.  One queue and  *)
(* one room are enough, since every method works on one.                   *)
(***************************************************************************)
EXTENDS Integers, FiniteSets, SequencesExt, Values

NoQueue == [open |-> FALSE, depth |-> 0, deadline |-> 0, waiting |-> <<>>, pending |-> <<>>,
            published |-> 0, consumed |-> 0, acked |-> 0, nacked |-> 0]

NoRoom == [open |-> FALSE, max |-> 0, generation |-> 0, events |-> <<>>, total |-> 0]

QueueMethods  == {"queue.create", "queue.delete", "queue.publish", "queue.consume",
                  "queue.ack", "queue.nack", "queue.list", "queue.stats"}
StreamMethods == {"stream.create", "stream.get_or_create", "stream.publish", "stream.consume",
                  "stream.list", "stream.stats", "stream.delete"}
PubSubMethods == {"pubsub.publish", "pubsub.subscribe", "pubsub.unsubscribe", "pubsub.topics"}

(* The broker's part of the store s: s.queue; s.issued, the message ids    *)
(* issued so far; s.room; s.generations, the rooms created so far; s.subs, *)
(* the topics of each subscriber id; s.sent, the last message published.   *)

-----------------------------------------------------------------------------
(* Queues *)

IsFull(q) == q.depth > 0 /\ Len(q.waiting) >= q.depth

(* The message a consumer gets: the first of those with highest priority. *)
NextUp(q) ==
    CHOOSE i \in DOMAIN q.waiting : \A j \in DOMAIN q.waiting \ {i} :
        LET p == q.waiting[i].priority
            r == q.waiting[j].priority IN
        p > r \/ (p = r /\ i < j)

Pending(q, id) == {i \in DOMAIN q.pending : q.pending[i].id = id}

QueueEffect(m, s) ==
    LET q == s.queue
        Settle(id) == RemoveAt(q.pending, CHOOSE i \in Pending(q, id) : TRUE)
        Settled(id) == q.pending[CHOOSE i \in Pending(q, id) : TRUE] IN
    CASE m.op = "queue.create" /\ ~q.open ->
            [s EXCEPT !.queue = [NoQueue EXCEPT !.open = TRUE, !.depth = m.depth,
                                                !.deadline = m.deadline]]
      [] m.op = "queue.delete" /\ q.open -> [s EXCEPT !.queue = NoQueue]
      [] m.op = "queue.publish" /\ q.open /\ ~IsFull(q) ->
            [s EXCEPT !.issued = @ + 1,
                      !.queue.published = @ + 1,
                      !.queue.waiting = Append(@, [id |-> Num(s.issued + 1), payload |-> m.payload,
                                                   priority |-> m.priority, retry_count |-> 0,
                                                   max_retries |-> m.retries])]
      [] m.op = "queue.consume" /\ q.waiting # <<>> ->
            [s EXCEPT !.queue.consumed = @ + 1,
                      !.queue.waiting = RemoveAt(@, NextUp(q)),
                      !.queue.pending = Append(@, q.waiting[NextUp(q)])]
      [] m.op = "queue.ack" /\ Pending(q, m.id) # {} ->
            [s EXCEPT !.queue.acked = @ + 1, !.queue.pending = Settle(m.id)]
      [] m.op = "queue.nack" /\ Pending(q, m.id) # {} ->
            [s EXCEPT !.queue.nacked = @ + 1, !.queue.pending = Settle(m.id),
                      !.queue.waiting = Append(@, [Settled(m.id) EXCEPT !.retry_count = @ + 1])]
      [] OTHER -> s

Delivered(msg) ==
    Obj([id |-> msg.id, payload |-> msg.payload, priority |-> I64(msg.priority),
         retry_count |-> I64(msg.retry_count), max_retries |-> I64(msg.max_retries)])

QueueResult(m, s) ==
    LET q == s.queue IN
    CASE m.op = "queue.create" -> IF q.open THEN Failed ELSE Done
      [] m.op = "queue.list" -> Arr(IF q.open THEN <<Str("q")>> ELSE <<>>)
      [] OTHER ->
    IF ~q.open THEN Failed ELSE
    CASE m.op = "queue.delete" -> Done
      [] m.op = "queue.publish" -> IF IsFull(q) THEN Failed ELSE Num(s.issued + 1)
      [] m.op = "queue.consume" -> IF q.waiting = <<>> THEN Nil
                                                       ELSE Delivered(q.waiting[NextUp(q)])
      [] m.op \in {"queue.ack", "queue.nack"} -> IF Pending(q, m.id) = {} THEN Failed ELSE Done
      [] m.op = "queue.stats" ->
            Obj([depth |-> I64(Len(q.waiting)), published |-> I64(q.published),
                 consumed |-> I64(q.consumed), acked |-> I64(q.acked), nacked |-> I64(q.nacked)])

-----------------------------------------------------------------------------
(* Streams *)

(* A new incarnation of the room; its generation was never seen before. *)
Opened(s, max) ==
    [s EXCEPT !.generations = @ + 1,
              !.room = [NoRoom EXCEPT !.open = TRUE, !.max = max,
                                      !.generation = s.generations + 1]]

Retained(r) == IF r.max > 0 /\ Len(r.events) > r.max
               THEN [r EXCEPT !.events = SubSeq(@, Len(@) - r.max + 1, Len(@))]
               ELSE r

(* README: "the next publish recreates the room from offset 0". *)
StreamEffect(m, s) ==
    CASE m.op \in {"stream.create", "stream.get_or_create"} /\ ~s.room.open -> Opened(s, m.max)
      [] m.op = "stream.delete" -> [s EXCEPT !.room = NoRoom]
      [] m.op = "stream.publish" ->
            LET t == IF s.room.open THEN s ELSE Opened(s, 0)
                e == [offset |-> t.room.total, event |-> m.event, data |-> m.data]
                r == [t.room EXCEPT !.total = @ + 1, !.events = Append(@, e)] IN
            [t EXCEPT !.room = Retained(r)]
      [] OTHER -> s

MinOffset(r) == IF r.events = <<>> THEN r.total ELSE r.events[1].offset

StreamResult(m, s) ==
    LET r == s.room IN
    CASE m.op = "stream.create" -> IF r.open THEN Failed ELSE Done
      [] m.op = "stream.get_or_create" -> Bool(~r.open)
      [] m.op = "stream.publish" -> I64(r.total)
      [] m.op = "stream.list" -> Arr(IF r.open THEN <<Str("room")>> ELSE <<>>)
      [] OTHER ->
    IF ~r.open THEN Failed ELSE
    CASE m.op = "stream.delete" -> Done
      [] m.op = "stream.consume" ->
            LET new == SelectSeq(r.events, LAMBDA e : e.offset >= m.offset) IN
            Arr([i \in 1 .. IF Len(new) < m.limit THEN Len(new) ELSE m.limit |->
                    Obj([offset |-> I64(new[i].offset), event |-> new[i].event,
                         data |-> new[i].data])])
      [] m.op = "stream.stats" ->
            Obj([message_count |-> I64(Len(r.events)), min_offset |-> I64(MinOffset(r)),
                 total_published |-> I64(r.total), generation |-> I64(r.generation)])

-----------------------------------------------------------------------------
(* Pub/sub *)

TopicsOf(s, id) == IF id \in DOMAIN s.subs THEN s.subs[id] ELSE {}

(* Subscriber id has topics ts, and is forgotten when it has none. *)
WithTopics(s, id, ts) ==
    [s EXCEPT !.subs =
        [i \in (DOMAIN s.subs \ {id}) \cup (IF ts = {} THEN {} ELSE {id}) |->
            IF i = id THEN ts ELSE s.subs[i]]]

PubSubEffect(m, s) ==
    CASE m.op = "pubsub.publish" ->
            [s EXCEPT !.sent = [topic |-> m.topic, data |-> m.data, priority |-> m.priority]]
      [] m.op = "pubsub.subscribe" ->
            WithTopics(s, m.subscriber, TopicsOf(s, m.subscriber) \cup ToSet(m.topics))
      [] m.op = "pubsub.unsubscribe" ->
            WithTopics(s, m.subscriber, TopicsOf(s, m.subscriber) \ ToSet(m.topics))
      [] OTHER -> s

PubSubResult(m, s) ==
    CASE m.op = "pubsub.publish" ->
            I64(Cardinality({i \in DOMAIN s.subs : m.topic \in s.subs[i]}))
      [] m.op = "pubsub.subscribe" -> m.subscriber
      [] m.op = "pubsub.unsubscribe" -> Done
      [] m.op = "pubsub.topics" -> Arr(SetToSeq(UNION {s.subs[i] : i \in DOMAIN s.subs}))
=============================================================================
