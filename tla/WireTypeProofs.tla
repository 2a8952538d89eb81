--------------------------- MODULE WireTypeProofs ---------------------------
(***************************************************************************)
(* Proof that the server's data keep their types, whatever the sessions    *)
(* call over whatever transports: what is stored as a string is a string,  *)
(* also where a transport changed or printed it on the way.                *)
(***************************************************************************)
EXTENDS MappingProofs, WellFoundedInduction

(* Induction over the natural numbers, for a set of them. *)
LEMMA LeastNumber ==
    ASSUME NEW T, T \subseteq Nat, T # {}
    PROVE  \E x \in T : \A y \in T : x <= y
<1>1. PICK x \in T : \A y \in T : ~(<<y, x>> \in OpToRel(<, Nat))
  BY WFMin, NatLessThanWellFounded
<1>2. \A y \in T : ~(y < x)
  BY <1>1 DEF OpToRel
<1> QED
  BY <1>2

(* Of the first k messages of w, the one at i is handed out first. *)
Leads(w, k, i) ==
    /\ i \in 1 .. k
    /\ \A j \in 1 .. k \ {i} : \/ w[i].priority > w[j].priority
                               \/ w[i].priority = w[j].priority /\ i < j

(* A queue that is not empty has a message to hand out. *)
LEMMA SomeoneLeads ==
    ASSUME NEW n \in Nat, NEW w, \A i \in 1 .. n : w[i].priority \in Int
    PROVE  \A k \in 1 .. n : \E i : Leads(w, k, i)
<1> DEFINE T == {k \in 1 .. n : ~\E i : Leads(w, k, i)}
<1>1. SUFFICES ASSUME T # {}
               PROVE  FALSE
  OBVIOUS
<1>2. PICK k \in T : \A y \in T : k <= y
  <2>1. T \subseteq Nat
    OBVIOUS
  <2> HIDE DEF T
  <2> QED
    BY <1>1, <2>1, LeastNumber
<1>3. k # 1
  <2>1. Leads(w, 1, 1)
    BY DEF Leads
  <2> QED
    BY <2>1
<1>4. k - 1 \in 1 .. n /\ k - 1 \notin T
  BY <1>2, <1>3
<1>5. PICK i : Leads(w, k - 1, i)
  BY <1>4
<1>6. i \in 1 .. k - 1 /\ w[i].priority \in Int /\ w[k].priority \in Int /\ k \in 1 .. n
  BY <1>4, <1>5 DEF Leads
<1>7. CASE w[i].priority >= w[k].priority
  <2>1. ASSUME NEW j \in 1 .. k \ {i}
        PROVE  w[i].priority > w[j].priority \/ (w[i].priority = w[j].priority /\ i < j)
    <3>1. CASE j = k
      BY <1>6, <1>7, <3>1
    <3>2. CASE j # k
      <4>1. j \in 1 .. (k - 1) \ {i}
        BY <1>6, <3>2
      <4> QED
        BY <1>5, <4>1 DEF Leads
    <3> QED
      BY <3>1, <3>2
  <2>2. i \in 1 .. k
    BY <1>6
  <2>3. Leads(w, k, i)
    BY <2>1, <2>2 DEF Leads
  <2> QED
    BY <2>3
<1>8. CASE w[i].priority < w[k].priority
  <2>1. ASSUME NEW j \in 1 .. k \ {k}
        PROVE  w[k].priority > w[j].priority
    <3>1. j \in 1 .. k - 1 /\ w[j].priority \in Int
      BY <1>6
    <3>2. j = i \/ w[i].priority >= w[j].priority
      BY <1>5, <1>6, <3>1 DEF Leads
    <3> QED
      BY <1>6, <1>8, <3>1, <3>2
  <2>2. Leads(w, k, k)
    BY <1>6, <2>1 DEF Leads
  <2> QED
    BY <2>2
<1> QED
  BY <1>6, <1>7, <1>8
-----------------------------------------------------------------------------
(* A sequence of strings. *)
TextSeq(l) == \E S : l \in Seq(S) /\ \A v \in S : IsText(v)

(* A message of the queue: its payload is a string, its priority an        *)
(* integer.                                                                *)
IsMessage(e) ==
    /\ {"payload", "priority"} \subseteq DOMAIN e
    /\ IsText(e.payload) /\ e.priority \in Int

(* A sequence of messages. *)
MessageSeq(l) == \E S : l \in Seq(S) /\ \A e \in S : IsMessage(e)

(* A sequence of events, each with a name. *)
EventSeq(l) == \E S : l \in Seq(S) /\ \A e \in S : IsText(e.event)

(* A message taken out of the queue, and one put back. *)
LEMMA MessagesMoved ==
    ASSUME NEW l, MessageSeq(l)
    PROVE  /\ Len(l) \in Nat
           /\ \A i \in DOMAIN l : IsMessage(l[i]) /\ MessageSeq(RemoveAt(l, i))
           /\ \A e : IsMessage(e) => MessageSeq(Append(l, e))
<1>1. PICK S : l \in Seq(S) /\ \A e \in S : IsMessage(e)
  BY DEF MessageSeq
<1>2. ASSUME NEW i \in DOMAIN l
      PROVE  IsMessage(l[i]) /\ MessageSeq(RemoveAt(l, i))
  <2>1. i \in 1 .. Len(l) /\ l[i] \in S
    BY <1>1
  <2>2. SubSeq(l, 1, i - 1) \in Seq(S) /\ SubSeq(l, i + 1, Len(l)) \in Seq(S)
    BY <1>1, <2>1
  <2>3. RemoveAt(l, i) \in Seq(S)
    BY <2>2 DEF RemoveAt
  <2> QED
    BY <1>1, <2>1, <2>3 DEF MessageSeq
<1>3. ASSUME NEW e, IsMessage(e)
      PROVE  MessageSeq(Append(l, e))
  <2>1. l \in Seq(S \cup {e}) /\ e \in S \cup {e}
    BY <1>1
  <2>2. Append(l, e) \in Seq(S \cup {e})
    BY <2>1, AppendProperties
  <2>3. \A x \in S \cup {e} : IsMessage(x)
    BY <1>1, <1>3
  <2> QED
    BY <2>2, <2>3 DEF MessageSeq
<1>4. Len(l) \in Nat
  BY <1>1
<1> QED
  BY <1>2, <1>3, <1>4

(* What the server keeps of the queue. *)
QueueFields == {"open", "depth", "deadline", "waiting", "pending", "published", "consumed", "acked", "nacked"}

(* The messages that wait and those that were handed out are messages. *)
TypedQueue(q) == DOMAIN q = QueueFields /\ MessageSeq(q.waiting) /\ MessageSeq(q.pending)

(* The bound of the room is an integer, and its events have names. *)
TypedRoom(r) ==
    /\ DOMAIN r = {"open", "max", "generation", "events", "total"}
    /\ r.max \in Int
    /\ EventSeq(r.events)

(* The invariant: TypeOK, with the sequences as sequences, the messages    *)
(* handed out but not acknowledged, which Nack puts back, their            *)
(* priorities, by which Consume chooses, and the bound of the room.        *)
TypedStore(s) ==
    /\ DOMAIN s = {"kv", "expires", "hash", "list", "set", "queue", "issued", "room",
                   "generations", "subs", "sent"}
    /\ IsText(s.kv) \/ s.kv = Nil
    /\ s.expires => s.kv # Nil
    /\ \A f \in DOMAIN s.hash : IsText(f) /\ IsText(s.hash[f])
    /\ TextSeq(s.list)
    /\ \A e \in s.set : IsText(e)
    /\ TypedQueue(s.queue)
    /\ TypedRoom(s.room)
    /\ \A id \in DOMAIN s.subs : \A t \in s.subs[id] : IsText(t)

(* What there is at first. *)
LEMMA NothingTyped ==
    /\ TextSeq(<<>>) /\ MessageSeq(<<>>) /\ EventSeq(<<>>)
    /\ TypedQueue(Promise!NoQueue) /\ TypedRoom(Promise!NoRoom)
<1>1. <<>> \in Seq({})
  OBVIOUS
<1>2. TextSeq(<<>>) /\ MessageSeq(<<>>) /\ EventSeq(<<>>)
  <2>1. \E S : <<>> \in Seq(S) /\ S = {}
    BY <1>1
  <2> QED
    BY <2>1, Zenon DEF TextSeq, MessageSeq, EventSeq
<1> QED
  BY <1>2 DEF TypedQueue, TypedRoom, Promise!NoQueue, Promise!NoRoom, QueueFields

(* DataService, instantiated, has the RemoveAt of this module. *)
LEMMA SameRemoval == \A l, i : Promise!RemoveAt(l, i) = RemoveAt(l, i)
BY DEF Promise!RemoveAt, RemoveAt

(* Consume takes a message of the queue. *)
LEMMA NextUpThere ==
    ASSUME NEW q, MessageSeq(q.waiting), q.waiting # <<>>
    PROVE  Promise!NextUp(q) \in DOMAIN q.waiting
<1>1. PICK w, n : w = q.waiting /\ n = Len(w)
  OBVIOUS
<1>2. n \in Nat /\ n # 0 /\ DOMAIN w = 1 .. n
  <2>1. PICK S : w \in Seq(S)
    BY <1>1 DEF MessageSeq
  <2> QED
    BY <1>1, <2>1
<1>3. \A i \in 1 .. n : w[i].priority \in Int
  BY <1>1, <1>2, MessagesMoved DEF IsMessage
<1>a. \A k \in 1 .. n : \E i : Leads(w, k, i)
  BY <1>2, <1>3, SomeoneLeads
<1>b. n \in 1 .. n
  BY <1>2
<1>4. PICK i : Leads(w, n, i)
  BY <1>a, <1>b
<1>c. /\ i \in 1 .. n
      /\ \A j \in 1 .. n \ {i} :
             w[i].priority > w[j].priority \/ (w[i].priority = w[j].priority /\ i < j)
  BY <1>4, Zenon DEF Leads
<1>5. /\ i \in DOMAIN w
      /\ \A j \in DOMAIN w \ {i} :
             w[i].priority > w[j].priority \/ (w[i].priority = w[j].priority /\ i < j)
  BY <1>2, <1>c, Zenon
<1>6. Promise!NextUp(q) = CHOOSE k \in DOMAIN w : \A j \in DOMAIN w \ {k} :
                              w[k].priority > w[j].priority \/ (w[k].priority = w[j].priority /\ k < j)
  BY <1>1 DEF Promise!NextUp
<1> QED
  BY <1>1, <1>5, <1>6

(* A request with the arguments the server stores well typed. *)
TypedRequest(c) ==
    /\ c.op = "kv.set" => IsText(c.value)
    /\ c.op = "hash.set" => IsText(c.field) /\ IsText(c.value)
    /\ c.op \in {"list.lpush", "list.rpush"} => TextSeq(c.values)
    /\ c.op \in {"list.lpop", "list.rpop"} => c.count \in Nat
    /\ c.op = "set.add" => TextSeq(c.members)
    /\ c.op = "queue.publish" => IsText(c.payload) /\ c.priority \in Int
    /\ c.op \in {"stream.create", "stream.get_or_create"} => c.max \in Int
    /\ c.op = "stream.publish" => IsText(c.event)
    /\ c.op = "pubsub.subscribe" => TextSeq(c.topics)

(* The KV, hash, list and set methods keep the types. *)
LEMMA DataTyped ==
    ASSUME NEW s, TypedStore(s), NEW m, TypedRequest(m)
    PROVE  TypedStore(Promise!DataEffect(m, s))
<1>0. PICK t : t = Promise!DataEffect(m, s)
  OBVIOUS
<1>1. ASSUME NEW k, IsText(k) \/ k = Nil, NEW e, e => k # Nil
      PROVE  TypedStore([s EXCEPT !.kv = k, !.expires = e])
  BY <1>1 DEF TypedStore
<1>2. ASSUME NEW k, IsText(k), k # Nil
      PROVE  TypedStore([s EXCEPT !.kv = k])
  BY <1>2 DEF TypedStore
<1>3. ASSUME NEW h, \A f \in DOMAIN h : IsText(f) /\ IsText(h[f])
      PROVE  TypedStore([s EXCEPT !.hash = h])
  BY <1>3 DEF TypedStore
<1>4. ASSUME NEW l, TextSeq(l)
      PROVE  TypedStore([s EXCEPT !.list = l])
  BY <1>4 DEF TypedStore
<1>5. ASSUME NEW c, \A x \in c : IsText(x)
      PROVE  TypedStore([s EXCEPT !.set = c])
  BY <1>5 DEF TypedStore
<1>6. CASE m.op = "kv.set"
  <2>1. t = [s EXCEPT !.kv = m.value, !.expires = m.ttl > 0]
    BY <1>0, <1>6, SameValues DEF Promise!DataEffect
  <2>2. IsText(m.value) /\ m.value # Nil
    BY <1>6 DEF TypedRequest, IsText, Nil
  <2>3. TypedStore([s EXCEPT !.kv = m.value, !.expires = m.ttl > 0])
    BY <1>1, <2>2, Zenon
  <2> QED
    BY <1>0, <2>1, <2>3
<1>7. CASE m.op = "kv.del"
  <2>1. t = [s EXCEPT !.kv = Nil, !.expires = FALSE]
    BY <1>0, <1>7, SameValues DEF Promise!DataEffect
  <2>2. TypedStore([s EXCEPT !.kv = Nil, !.expires = FALSE])
    BY <1>1, Zenon
  <2> QED
    BY <1>0, <2>1, <2>2
<1>8. CASE m.op \in {"kv.incr", "kv.decr"}
  <2>1. t = s \/ \E n : t = [s EXCEPT !.kv = Num(n)]
    <3>1. CASE m.op = "kv.incr" /\ Promise!IsCounter(s)
      BY <1>0, <3>1, SameValues DEF Promise!DataEffect
    <3>2. CASE m.op = "kv.decr" /\ Promise!IsCounter(s)
      BY <1>0, <3>2, SameValues DEF Promise!DataEffect
    <3>3. CASE ~Promise!IsCounter(s)
      BY <1>0, <1>8, <3>3 DEF Promise!DataEffect
    <3> QED
      BY <1>8, <3>1, <3>2, <3>3
  <2>2. \A n : IsText(Num(n)) /\ Num(n) # Nil
    BY DEF IsText, Num, Nil
  <2> QED
    BY <1>0, <1>2, <2>1, <2>2
<1>9. CASE m.op = "hash.set"
  <2>1. PICK h : h = [f \in DOMAIN s.hash \cup {m.field} |-> IF f = m.field THEN m.value ELSE s.hash[f]]
    OBVIOUS
  <2>2. t = [s EXCEPT !.hash = h]
    BY <1>0, <1>9, <2>1, SameValues DEF Promise!DataEffect
  <2>3. \A f \in DOMAIN h : IsText(f) /\ IsText(h[f])
    BY <1>9, <2>1 DEF TypedStore, TypedRequest
  <2> QED
    BY <1>0, <1>3, <2>2, <2>3
<1>10. CASE m.op = "hash.del"
  <2>1. PICK h : h = [f \in DOMAIN s.hash \ {m.field} |-> s.hash[f]]
    OBVIOUS
  <2>2. t = [s EXCEPT !.hash = h]
    BY <1>0, <1>10, <2>1, SameValues DEF Promise!DataEffect
  <2>3. \A f \in DOMAIN h : IsText(f) /\ IsText(h[f])
    BY <1>10, <2>1 DEF TypedStore, TypedRequest
  <2> QED
    BY <1>0, <1>3, <2>2, <2>3
<1>11. CASE m.op \in {"list.lpush", "list.rpush"}
  <2>1. PICK S : s.list \in Seq(S) /\ \A v \in S : IsText(v)
    BY DEF TypedStore, TextSeq
  <2>2. PICK R : m.values \in Seq(R) /\ \A v \in R : IsText(v)
    BY <1>11 DEF TypedRequest, TextSeq
  <2>3. PICK U : U = S \cup R
    OBVIOUS
  <2>4. s.list \in Seq(U) /\ m.values \in Seq(U) /\ \A v \in U : IsText(v)
    BY <2>1, <2>2, <2>3
  <2>5. m.values \o s.list \in Seq(U) /\ s.list \o m.values \in Seq(U)
    BY <2>4
  <2>6. PICK l \in Seq(U) : t = [s EXCEPT !.list = l]
    BY <1>0, <1>11, <2>5, SameValues DEF Promise!DataEffect
  <2> QED
    BY <1>0, <1>4, <2>4, <2>6 DEF TextSeq
<1>12. CASE m.op \in {"list.lpop", "list.rpop"}
  <2>1. PICK S : s.list \in Seq(S) /\ \A v \in S : IsText(v)
    BY DEF TypedStore, TextSeq
  <2>2. PICK n : n = Promise!Popped(m, s) /\ n \in 0 .. Len(s.list)
    BY <1>12, <2>1 DEF TypedRequest, Promise!Popped
  <2>3. SubSeq(s.list, n + 1, Len(s.list)) \in Seq(S) /\ SubSeq(s.list, 1, Len(s.list) - n) \in Seq(S)
    BY <2>1, <2>2
  <2>4. PICK l \in Seq(S) : t = [s EXCEPT !.list = l]
    BY <1>0, <1>12, <2>2, <2>3, SameValues DEF Promise!DataEffect
  <2> QED
    BY <1>0, <1>4, <2>1, <2>4 DEF TextSeq
<1>13. CASE m.op = "set.add"
  <2>1. \A x \in ToSet(m.members) : IsText(x)
    <3>1. PICK S : m.members \in Seq(S) /\ \A v \in S : IsText(v)
      BY <1>13 DEF TypedRequest, TextSeq
    <3> QED
      BY <3>1 DEF ToSet
  <2>2. t = [s EXCEPT !.set = s.set \cup ToSet(m.members)]
    BY <1>0, <1>13, SameValues DEF Promise!DataEffect
  <2>3. \A x \in s.set \cup ToSet(m.members) : IsText(x)
    BY <2>1 DEF TypedStore
  <2> QED
    BY <1>0, <1>5, <2>2, <2>3
<1>14. CASE m.op = "set.rem"
  <2>2. t = [s EXCEPT !.set = s.set \ ToSet(m.members)]
    BY <1>0, <1>14, SameValues DEF Promise!DataEffect
  <2>3. \A x \in s.set \ ToSet(m.members) : IsText(x)
    BY DEF TypedStore
  <2> QED
    BY <1>0, <1>5, <2>2, <2>3
<1>15. CASE m.op \notin {"kv.set", "kv.del", "kv.incr", "kv.decr", "hash.set", "hash.del", "list.lpush",
                         "list.rpush", "list.lpop", "list.rpop", "set.add", "set.rem"}
  BY <1>0, <1>15 DEF Promise!DataEffect
<1> QED
  BY <1>6, <1>7, <1>8, <1>9, <1>10, <1>11, <1>12, <1>13, <1>14, <1>15

(* So do the queue methods: what Consume hands out and Nack puts back are  *)
(* messages.                                                               *)
LEMMA QueueTyped ==
    ASSUME NEW s, TypedStore(s), NEW m, TypedRequest(m)
    PROVE  TypedStore(Promise!QueueEffect(m, s))
<1>0. PICK t : t = Promise!QueueEffect(m, s)
  OBVIOUS
<1>q. PICK q : q = s.queue /\ TypedQueue(q) /\ "queue" \in DOMAIN s
  BY DEF TypedStore
<1>1. ASSUME NEW r, TypedQueue(r)
      PROVE  TypedStore([s EXCEPT !.queue = r])
  BY <1>1 DEF TypedStore
<1>2. CASE t = s
  BY <1>0, <1>2
<1>3. CASE m.op = "queue.create" /\ ~q.open
  <2>1. PICK r : r = [Promise!NoQueue EXCEPT !.open = TRUE, !.depth = m.depth, !.deadline = m.deadline]
    OBVIOUS
  <2>2. t = [s EXCEPT !.queue = r]
    BY <1>0, <1>q, <1>3, <2>1 DEF Promise!QueueEffect
  <2>3. DOMAIN r = QueueFields /\ r.waiting = <<>> /\ r.pending = <<>>
    BY <2>1 DEF Promise!NoQueue, QueueFields
  <2>4. MessageSeq(<<>>)
    BY NothingTyped
  <2> QED
    BY <1>0, <1>1, <2>2, <2>3, <2>4 DEF TypedQueue
<1>4. CASE m.op = "queue.delete" /\ q.open
  <2>1. t = [s EXCEPT !.queue = Promise!NoQueue]
    BY <1>0, <1>q, <1>4 DEF Promise!QueueEffect
  <2> QED
    BY <1>0, <1>1, <2>1, NothingTyped
<1>5. CASE m.op = "queue.publish" /\ q.open /\ ~Promise!IsFull(q)
  <2>1. PICK e : e = [id |-> Num(s.issued + 1), payload |-> m.payload, priority |-> m.priority,
                      retry_count |-> 0, max_retries |-> m.retries]
    OBVIOUS
  <2>2. t = [s EXCEPT !.issued = @ + 1, !.queue.published = @ + 1, !.queue.waiting = Append(@, e)]
    BY <1>0, <1>q, <1>5, <2>1, SameValues DEF Promise!QueueEffect
  <2>3. PICK r : r = [q EXCEPT !.published = @ + 1, !.waiting = Append(@, e)]
    OBVIOUS
  <2>4. t = [[s EXCEPT !.queue = r] EXCEPT !.issued = @ + 1]
    BY <1>q, <2>2, <2>3 DEF TypedStore, TypedQueue, QueueFields
  <2>5. IsMessage(e)
    BY <1>5, <2>1 DEF TypedRequest, IsMessage
  <2>6. TypedQueue(r)
    <3>1. /\ DOMAIN r = QueueFields /\ r.waiting = Append(q.waiting, e) /\ r.pending = q.pending
      BY <1>q, <2>3 DEF TypedQueue, QueueFields
    <3> QED
      BY <1>q, <2>5, <3>1, MessagesMoved DEF TypedQueue
  <2>7. TypedStore([s EXCEPT !.queue = r])
    BY <1>1, <2>6
  <2> QED
    BY <1>0, <2>4, <2>7 DEF TypedStore
<1>6. CASE m.op = "queue.consume" /\ q.waiting # <<>>
  <2>1. PICK i : i = Promise!NextUp(q)
    OBVIOUS
  <2>2. i \in DOMAIN q.waiting
    BY <1>q, <1>6, <2>1, NextUpThere DEF TypedQueue
  <2>3. PICK r : r = [q EXCEPT !.consumed = @ + 1, !.waiting = RemoveAt(@, i),
                               !.pending = Append(@, q.waiting[i])]
    OBVIOUS
  <2>4. t = [s EXCEPT !.queue = r]
    <3>1. t = [s EXCEPT !.queue.consumed = @ + 1,
                        !.queue.waiting = RemoveAt(@, i),
                        !.queue.pending = Append(@, q.waiting[i])]
      BY <1>0, <1>q, <1>6, <2>1, SameRemoval DEF Promise!QueueEffect
    <3> QED
      BY <1>q, <2>3, <3>1 DEF TypedStore, TypedQueue, QueueFields
  <2>5. TypedQueue(r)
    <3>1. /\ DOMAIN r = QueueFields /\ r.waiting = RemoveAt(q.waiting, i)
          /\ r.pending = Append(q.pending, q.waiting[i])
      BY <1>q, <2>3 DEF TypedQueue, QueueFields
    <3>2. IsMessage(q.waiting[i]) /\ MessageSeq(RemoveAt(q.waiting, i))
      BY <1>q, <2>2, MessagesMoved DEF TypedQueue
    <3> QED
      BY <1>q, <3>1, <3>2, MessagesMoved DEF TypedQueue
  <2> QED
    BY <1>0, <1>1, <2>4, <2>5
<1>7. CASE m.op \in {"queue.ack", "queue.nack"} /\ Promise!Pending(q, m.id) # {}
  <2>1. PICK i : i = CHOOSE j \in Promise!Pending(q, m.id) : TRUE
    OBVIOUS
  <2>2. i \in DOMAIN q.pending
    BY <1>7, <2>1 DEF Promise!Pending
  <2>3. IsMessage(q.pending[i]) /\ MessageSeq(RemoveAt(q.pending, i))
    BY <1>q, <2>2, MessagesMoved DEF TypedQueue
  <2>4. CASE m.op = "queue.ack"
    <3>1. PICK r : r = [q EXCEPT !.acked = @ + 1, !.pending = RemoveAt(q.pending, i)]
      OBVIOUS
    <3>2. t = [s EXCEPT !.queue.acked = @ + 1, !.queue.pending = RemoveAt(q.pending, i)]
      BY <1>0, <1>q, <1>7, <2>1, <2>4, SameRemoval DEF Promise!QueueEffect
    <3>3. t = [s EXCEPT !.queue = r]
      BY <1>q, <3>1, <3>2 DEF TypedStore, TypedQueue, QueueFields
    <3>4. DOMAIN r = QueueFields /\ r.waiting = q.waiting /\ r.pending = RemoveAt(q.pending, i)
      BY <1>q, <3>1 DEF TypedQueue, QueueFields
    <3>5. TypedQueue(r)
      BY <1>q, <2>3, <3>4 DEF TypedQueue
    <3> QED
      BY <1>0, <1>1, <3>3, <3>5
  <2>5. CASE m.op = "queue.nack"
    <3>0. PICK e : e = [q.pending[i] EXCEPT !.retry_count = @ + 1]
      OBVIOUS
    <3>1. PICK r : r = [q EXCEPT !.nacked = @ + 1, !.pending = RemoveAt(q.pending, i),
                                 !.waiting = Append(@, e)]
      OBVIOUS
    <3>2. t = [s EXCEPT !.queue.nacked = @ + 1, !.queue.pending = RemoveAt(q.pending, i),
                        !.queue.waiting = Append(@, e)]
      BY <1>0, <1>q, <1>7, <2>1, <2>5, <3>0, SameRemoval DEF Promise!QueueEffect
    <3>3. t = [s EXCEPT !.queue = r]
      BY <1>q, <3>1, <3>2 DEF TypedStore, TypedQueue, QueueFields
    <3>4. /\ DOMAIN r = QueueFields /\ r.waiting = Append(q.waiting, e)
          /\ r.pending = RemoveAt(q.pending, i)
      BY <1>q, <3>1 DEF TypedQueue, QueueFields
    <3>5. IsMessage(e)
      BY <2>3, <3>0 DEF IsMessage
    <3>6. TypedQueue(r)
      BY <1>q, <2>3, <3>4, <3>5, MessagesMoved DEF TypedQueue
    <3> QED
      BY <1>0, <1>1, <3>3, <3>6
  <2> QED
    BY <1>7, <2>4, <2>5
<1>8. \/ t = s
      \/ m.op = "queue.create" /\ ~q.open
      \/ m.op = "queue.delete" /\ q.open
      \/ m.op = "queue.publish" /\ q.open /\ ~Promise!IsFull(q)
      \/ m.op = "queue.consume" /\ q.waiting # <<>>
      \/ m.op \in {"queue.ack", "queue.nack"} /\ Promise!Pending(q, m.id) # {}
  BY <1>0, <1>q DEF Promise!QueueEffect
<1> QED
  BY <1>2, <1>3, <1>4, <1>5, <1>6, <1>7, <1>8

(* Retention keeps the events of a room events. *)
LEMMA EventsKept ==
    ASSUME NEW r, TypedRoom(r)
    PROVE  TypedRoom(Promise!Retained(r))
<1>1. CASE r.max > 0 /\ Len(r.events) > r.max
  <2>1. PICK S : r.events \in Seq(S) /\ \A e \in S : IsText(e.event)
    BY DEF TypedRoom, EventSeq
  <2>2. PICK l : l = SubSeq(r.events, Len(r.events) - r.max + 1, Len(r.events))
    OBVIOUS
  <2>3. l \in Seq(S)
    BY <1>1, <2>1, <2>2 DEF TypedRoom
  <2>4. Promise!Retained(r) = [r EXCEPT !.events = l]
    BY <1>1, <2>2 DEF Promise!Retained
  <2>5. EventSeq(l)
    BY <2>1, <2>3 DEF EventSeq
  <2> QED
    BY <2>4, <2>5 DEF TypedRoom
<1>2. CASE ~(r.max > 0 /\ Len(r.events) > r.max)
  BY <1>2 DEF Promise!Retained
<1> QED
  BY <1>1, <1>2

(* A new room is well typed. *)
LEMMA RoomOpened ==
    ASSUME NEW s, TypedStore(s), NEW max \in Int
    PROVE  TypedStore(Promise!Opened(s, max))
<1>1. PICK r : r = [Promise!NoRoom EXCEPT !.open = TRUE, !.max = max, !.generation = s.generations + 1]
  OBVIOUS
<1>2. TypedRoom(r)
  BY <1>1, NothingTyped DEF TypedRoom, Promise!NoRoom
<1>3. Promise!Opened(s, max) = [s EXCEPT !.generations = @ + 1, !.room = r]
  BY <1>1 DEF Promise!Opened
<1> QED
  BY <1>2, <1>3 DEF TypedStore

(* So do the stream methods, also when Publish opens the room or drops     *)
(* events beyond its bound.                                                *)
LEMMA StreamTyped ==
    ASSUME NEW s, TypedStore(s), NEW m, TypedRequest(m)
    PROVE  TypedStore(Promise!StreamEffect(m, s))
<1>1. CASE m.op \in {"stream.create", "stream.get_or_create"} /\ ~s.room.open
  <2>1. Promise!StreamEffect(m, s) = Promise!Opened(s, m.max)
    BY <1>1 DEF Promise!StreamEffect
  <2>2. m.max \in Int
    BY <1>1 DEF TypedRequest
  <2> QED
    BY <2>1, <2>2, RoomOpened
<1>2. CASE m.op = "stream.delete"
  <2>1. Promise!StreamEffect(m, s) = [s EXCEPT !.room = Promise!NoRoom]
    BY <1>2 DEF Promise!StreamEffect
  <2> QED
    BY <2>1, NothingTyped DEF TypedStore
<1>3. CASE m.op = "stream.publish"
  <2>1. PICK t : t = IF s.room.open THEN s ELSE Promise!Opened(s, 0)
    OBVIOUS
  <2>2. TypedStore(t)
    BY <2>1, RoomOpened
  <2>3. PICK e : e = [offset |-> t.room.total, event |-> m.event, data |-> m.data]
    OBVIOUS
  <2>4. PICK r : r = [t.room EXCEPT !.total = @ + 1, !.events = Append(@, e)]
    OBVIOUS
  <2>5. TypedRoom(t.room)
    BY <2>2 DEF TypedStore
  <2>6. EventSeq(Append(t.room.events, e))
    <3>1. PICK S : t.room.events \in Seq(S) /\ \A x \in S : IsText(x.event)
      BY <2>5 DEF TypedRoom, EventSeq
    <3>2. t.room.events \in Seq(S \cup {e}) /\ e \in S \cup {e}
      BY <3>1
    <3>3. Append(t.room.events, e) \in Seq(S \cup {e})
      BY <3>2, AppendProperties
    <3>4. \A x \in S \cup {e} : IsText(x.event)
      BY <1>3, <2>3, <3>1 DEF TypedRequest
    <3> QED
      BY <3>3, <3>4 DEF EventSeq
  <2>7. TypedRoom(r)
    BY <2>4, <2>5, <2>6 DEF TypedRoom
  <2>8. Promise!StreamEffect(m, s) = [t EXCEPT !.room = Promise!Retained(r)]
    BY <1>3, <2>1, <2>3, <2>4 DEF Promise!StreamEffect
  <2>9. TypedRoom(Promise!Retained(r))
    BY <2>7, EventsKept
  <2> QED
    BY <2>2, <2>8, <2>9 DEF TypedStore
<1>4. CASE m.op \notin {"stream.delete", "stream.publish"}
           /\ ~(m.op \in {"stream.create", "stream.get_or_create"} /\ ~s.room.open)
  BY <1>4 DEF Promise!StreamEffect
<1> QED
  BY <1>1, <1>2, <1>3, <1>4

(* So do the pub/sub methods. *)
LEMMA PubSubTyped ==
    ASSUME NEW s, TypedStore(s), NEW m, TypedRequest(m)
    PROVE  TypedStore(Promise!PubSubEffect(m, s))
<1>1. CASE m.op = "pubsub.publish"
  <2>1. PICK x : x = [topic |-> m.topic, data |-> m.data, priority |-> m.priority]
    OBVIOUS
  <2>2. Promise!PubSubEffect(m, s) = [s EXCEPT !.sent = x]
    BY <1>1, <2>1 DEF Promise!PubSubEffect
  <2> QED
    BY <2>2 DEF TypedStore
<1>2. ASSUME NEW id, NEW ts, \A t \in ts : IsText(t)
      PROVE  TypedStore(Promise!WithTopics(s, id, ts))
  <2>1. PICK f : f = [i \in (DOMAIN s.subs \ {id}) \cup (IF ts = {} THEN {} ELSE {id}) |->
                         IF i = id THEN ts ELSE s.subs[i]]
    OBVIOUS
  <2>2. Promise!WithTopics(s, id, ts) = [s EXCEPT !.subs = f]
    BY <2>1 DEF Promise!WithTopics
  <2>3. \A i \in DOMAIN f : \A t \in f[i] : IsText(t)
    BY <1>2, <2>1 DEF TypedStore
  <2> QED
    BY <2>2, <2>3 DEF TypedStore
<1>3. \A id : \A t \in Promise!TopicsOf(s, id) : IsText(t)
  BY DEF Promise!TopicsOf, TypedStore
<1>4. CASE m.op = "pubsub.subscribe"
  <2>1. PICK ts : ts = Promise!TopicsOf(s, m.subscriber) \cup ToSet(m.topics)
    OBVIOUS
  <2>2. Promise!PubSubEffect(m, s) = Promise!WithTopics(s, m.subscriber, ts)
    BY <1>4, <2>1, SameValues DEF Promise!PubSubEffect
  <2>3. \A t \in ToSet(m.topics) : IsText(t)
    <3>1. PICK S : m.topics \in Seq(S) /\ \A v \in S : IsText(v)
      BY <1>4 DEF TypedRequest, TextSeq
    <3> QED
      BY <3>1 DEF ToSet
  <2> QED
    BY <1>2, <1>3, <2>1, <2>2, <2>3
<1>5. CASE m.op = "pubsub.unsubscribe"
  <2>1. PICK ts : ts = Promise!TopicsOf(s, m.subscriber) \ ToSet(m.topics)
    OBVIOUS
  <2>2. Promise!PubSubEffect(m, s) = Promise!WithTopics(s, m.subscriber, ts)
    BY <1>5, <2>1, SameValues DEF Promise!PubSubEffect
  <2> QED
    BY <1>2, <1>3, <2>1, <2>2
<1>6. CASE m.op \notin {"pubsub.publish", "pubsub.subscribe", "pubsub.unsubscribe"}
  BY <1>6 DEF Promise!PubSubEffect
<1> QED
  BY <1>1, <1>4, <1>5, <1>6

(* Every request whose arguments are well typed keeps the types. *)
LEMMA StoreTyped ==
    ASSUME NEW s, TypedStore(s), NEW m, TypedRequest(m)
    PROVE  TypedStore(Promise!Effect(m, s))
<1>1. Promise!Effect(m, s) \in {s, Promise!QueueEffect(m, s), Promise!StreamEffect(m, s),
                                Promise!PubSubEffect(m, s), Promise!DataEffect(m, s)}
  <2>1. CASE m.op = "none"
    BY <2>1 DEF Promise!Effect, Promise!QueueMethods, Promise!StreamMethods, Promise!PubSubMethods
  <2>2. CASE m.op \in Promise!QueueMethods
    BY <2>2 DEF Promise!Effect, Promise!QueueMethods, Promise!StreamMethods, Promise!PubSubMethods
  <2>3. CASE m.op \in Promise!StreamMethods
    BY <2>3 DEF Promise!Effect, Promise!QueueMethods, Promise!StreamMethods, Promise!PubSubMethods
  <2>4. CASE m.op \in Promise!PubSubMethods
    BY <2>4 DEF Promise!Effect, Promise!QueueMethods, Promise!StreamMethods, Promise!PubSubMethods
  <2>5. CASE m.op \notin {"none"} \cup Promise!QueueMethods \cup Promise!StreamMethods \cup Promise!PubSubMethods
    BY <2>5 DEF Promise!Effect
  <2> QED
    BY <2>1, <2>2, <2>3, <2>4, <2>5
<1> QED
  BY <1>1, QueueTyped, StreamTyped, PubSubTyped, DataTyped
-----------------------------------------------------------------------------
(* The calls of a module with the argument types its Go signatures have:   *)
(* strings of T, data of D, integers.                                      *)
CallsOf(module, T, D) ==
    CASE module = "kv" ->
            [op : {"kv.set"}, value : T, ttl : Int]
            \cup [op : {"kv.get", "kv.del", "kv.exists", "kv.incr", "kv.decr", "kv.stats"}]
      [] module = "hash" ->
            [op : {"hash.set"}, field : T, value : T]
            \cup [op : {"hash.get", "hash.del", "hash.exists"}, field : T]
            \cup [op : {"hash.getall"}]
      [] module = "list" ->
            [op : {"list.lpush", "list.rpush"}, values : Seq(T)]
            \cup [op : {"list.lpop", "list.rpop"}, count : Int]
            \cup [op : {"list.range"}, start : Int, stop : Int]
            \cup [op : {"list.len"}]
      [] module = "set" ->
            [op : {"set.add", "set.rem"}, members : Seq(T)]
            \cup [op : {"set.ismember"}, member : T]
            \cup [op : {"set.members", "set.card"}]
      [] module = "queue" ->
            [op : {"queue.create"}, depth : Int, deadline : Int]
            \cup [op : {"queue.publish"}, payload : T, priority : Int, retries : Int]
            \cup [op : {"queue.ack", "queue.nack"}, id : T]
            \cup [op : {"queue.consume", "queue.list", "queue.stats", "queue.delete"}]
      [] module = "stream" ->
            [op : {"stream.create", "stream.get_or_create"}, max : Int]
            \cup [op : {"stream.publish"}, event : T, data : D]
            \cup [op : {"stream.consume"}, offset : Int, limit : Int]
            \cup [op : {"stream.list", "stream.stats", "stream.delete"}]
      [] module = "pubsub" ->
            [op : {"pubsub.publish"}, topic : T, data : D, priority : Int]
            \cup [op : {"pubsub.subscribe", "pubsub.unsubscribe"}, subscriber : T, topics : Seq(T)]
            \cup [op : {"pubsub.topics"}]

(* Payload p is payload q after payloadToMap or throughJson. *)
Passed(p, q) ==
    /\ \A f \in DOMAIN p : f \in DOMAIN q /\ p[f] \in {q[f], Json(q[f])}
    /\ \A f \in DOMAIN q : q[f] # Nil => f \in DOMAIN p

(* The two encodings of a payload. *)
LEMMA BothPassed ==
    ASSUME NEW q
    PROVE  Passed(payloadToMap(q), q) /\ Passed(throughJson(q), q)
BY DEF Passed, payloadToMap, throughJson

(* No encoding makes anything but a string of a string. *)
LEMMA TextStays ==
    ASSUME NEW v, IsText(v)
    PROVE  IsText(Json(v)) /\ IsText(Received(toWire(v)))
<1>1. v[1] \notin {"arr", "obj"}
  BY DEF IsText
<1>2. Json(v) = RecodeText("json", v) /\ toWire(v) = RecodeText("toWire", v)
  BY <1>1, RecodeLeaf DEF Json, toWire
<1>3. IsText(RecodeText("json", v))
  BY DEF RecodeText, IsText, Str
<1>4. PICK b : b = toWire(v)
  OBVIOUS
<1>5. (b = v /\ ~IsBinary(v)) \/ b = <<"bin", v[2]>>
  BY <1>2, <1>4 DEF RecodeText, IsText
<1>6. b[1] \notin {"arr", "obj"}
  BY <1>1, <1>5
<1>7. Json(b) = b
  BY <1>5, <1>6, RecodeLeaf DEF Json, RecodeText, IsBinary
<1>8. fromWire(b) = RecodeText("fromWire", b)
  BY <1>6, RecodeLeaf DEF fromWire
<1>9. IsText(RecodeText("fromWire", b))
  BY <1>5 DEF RecodeText, IsText, Str
<1> QED
  BY <1>2, <1>3, <1>4, <1>7, <1>8, <1>9 DEF Received

(* Integers pass through every encoding unchanged. *)
LEMMA NumberStays ==
    ASSUME NEW n
    PROVE  Json(I64(n)) = I64(n) /\ Received(toWire(I64(n))) = I64(n)
<1>0. PICK v : v = I64(n)
  OBVIOUS
<1>1. v = I64(n) /\ v[1] = "int"
  BY <1>0 DEF I64
<1>2. \A how \in {"json", "toWire", "fromWire"} : Recode(how, v) = v
  BY <1>1, RecodeLeaf DEF RecodeText, IsBinary
<1> QED
  BY <1>1, <1>2 DEF Json, toWire, fromWire, Received

(* The bytes of a message and nil pass through JSON unchanged. *)
LEMMA OpaqueStays ==
    ASSUME NEW t
    PROVE  Json(Bytes(t)) = Bytes(t) /\ Json(Nil) = Nil
<1>0. PICK v, w : v = Bytes(t) /\ w = Nil
  OBVIOUS
<1>1. v = Bytes(t) /\ v[1] = "bytes" /\ w = Nil /\ w[1] = "nil"
  BY <1>0 DEF Bytes, Nil
<1>2. Recode("json", v) = v /\ Recode("json", w) = w
  BY <1>1, RecodeLeaf DEF RecodeText, IsBinary
<1> QED
  BY <1>1, <1>2 DEF Json

(* What is printed is a string. *)
LEMMA PrintedText == \A v : IsText(printed(v))
BY DEF printed, IsText, Num, Fmt

(* getStr always returns a string. *)
LEMMA StrText == \A p, f : IsText(getStr(p, f))
BY PrintedText DEF getStr, IsText, Str

(* getStrSlice returns strings. *)
LEMMA SliceText ==
    ASSUME NEW p, NEW q, Passed(p, q), NEW f, f \in DOMAIN q, NEW T, NEW s \in Seq(T), q[f] = Arr(s)
    PROVE  TextSeq(getStrSlice(p, f))
<1>1. f \in DOMAIN p /\ p[f] \in {Arr(s), Json(Arr(s))}
  BY DEF Passed, Arr, Nil
<1>2. p[f][1] = "arr" /\ DOMAIN p[f][2] = 1 .. Len(s)
  <2>1. PICK r : r = [x \in DOMAIN s |-> Recode3("json", s[x])]
    OBVIOUS
  <2>2. IsFunction(r) /\ DOMAIN r = DOMAIN s /\ \A x \in DOMAIN s : r[x] = Recode3("json", s[x])
    BY <2>1 DEF IsFunction
  <2>3. Json(Arr(s)) = Arr(r)
    BY <2>2, RecodeParts DEF Json
  <2>4. DOMAIN s = 1 .. Len(s)
    OBVIOUS
  <2> QED
    BY <1>1, <2>2, <2>3, <2>4 DEF Arr
<1>3. PICK l : l = [i \in 1 .. Len(s) |-> printed(p[f][2][i])]
  OBVIOUS
<1>4. getStrSlice(p, f) = l
  BY <1>1, <1>2, <1>3 DEF getStrSlice, Has
<1>5. PICK S : S = {printed(p[f][2][i]) : i \in 1 .. Len(s)}
  OBVIOUS
<1>6. l \in Seq(S)
  BY <1>3, <1>5
<1>7. \A v \in S : IsText(v)
  BY <1>5, PrintedText
<1> QED
  BY <1>4, <1>6, <1>7 DEF TextSeq

(* getFloat returns the number that is there, and 0 for none. *)
LEMMA FloatRead ==
    ASSUME NEW p, NEW q, Passed(p, q), NEW f
    PROVE  /\ f \notin DOMAIN q => getFloat(p, f) = 0
           /\ f \in DOMAIN q /\ q[f] = Nil => getFloat(p, f) = 0
           /\ \A n : f \in DOMAIN q /\ q[f] = I64(n) => getFloat(p, f) = n
<1>1. ASSUME f \notin DOMAIN q
      PROVE  getFloat(p, f) = 0
  BY <1>1 DEF Passed, getFloat, Has
<1>2. ASSUME f \in DOMAIN q, q[f] = Nil
      PROVE  getFloat(p, f) = 0
  <2>1. f \notin DOMAIN p \/ p[f] = Nil
    BY <1>2, OpaqueStays DEF Passed
  <2> QED
    BY <2>1 DEF getFloat, Has, Nil
<1>3. ASSUME NEW n, f \in DOMAIN q, q[f] = I64(n)
      PROVE  getFloat(p, f) = n
  <2>1. I64(n) # Nil
    BY DEF I64, Nil
  <2>2. f \in DOMAIN p /\ p[f] = I64(n)
    BY <1>3, <2>1, NumberStays DEF Passed
  <2> QED
    BY <2>2 DEF getFloat, Has, I64
<1> QED
  BY <1>1, <1>2, <1>3

(* A string in a payload stays a string. *)
LEMMA TextPassed ==
    ASSUME NEW p, NEW q, Passed(p, q), NEW f, f \in DOMAIN q, IsText(q[f])
    PROVE  f \in DOMAIN p /\ IsText(p[f])
<1>1. q[f] # Nil
  BY DEF IsText, Nil
<1> QED
  BY <1>1, TextStays DEF Passed

(* What the server or mapCommandToWire can find in payload p of call m. *)
TypedPayload(p, m) ==
    /\ m.op = "kv.set" => IsText(p["value"])
    /\ m.op = "hash.set" => IsText(p["field"]) /\ IsText(p["value"])
    /\ m.op \in {"list.lpush", "list.rpush"} => TextSeq(getStrSlice(p, "values"))
    /\ m.op \in {"list.lpop", "list.rpop"} => getFloat(p, "count") \in Nat
    /\ m.op = "set.add" => TextSeq(getStrSlice(p, "members"))
    /\ m.op = "queue.publish" => /\ p["payload"] = Bytes(m.payload) /\ IsText(m.payload)
                                 /\ getFloat(p, "priority") \in Int
    /\ m.op \in {"stream.create", "stream.get_or_create"} => getFloat(p, "max_events") \in Int
    /\ m.op = "stream.publish" => IsText(p["event"])
    /\ m.op = "pubsub.subscribe" => TextSeq(getStrSlice(p, "topics"))

(* Every call has a payload that is well typed. *)
LEMMA PayloadTyped ==
    ASSUME NEW T, \A v \in T : IsText(v), NEW D, session.module \in Modules,
           NEW m \in CallsOf(session.module, T, D), NEW p, Passed(p, Payload(m))
    PROVE  TypedPayload(p, m)
<1>0. PICK q : q = Payload(m) /\ Passed(p, q)
  OBVIOUS
<1>1. ASSUME m.op = "kv.set"
      PROVE  IsText(p["value"])
  <2>1. session.module = "kv" /\ m.value \in T
    BY <1>1 DEF CallsOf, Modules
  <2>2. "value" \in DOMAIN q /\ q["value"] = m.value
    BY <1>0, <1>1, <2>1 DEF Payload, kvPayload
  <2> QED
    BY <1>0, <2>1, <2>2, TextPassed
<1>2. ASSUME m.op = "hash.set"
      PROVE  IsText(p["field"]) /\ IsText(p["value"])
  <2>1. session.module = "hash" /\ m.value \in T /\ m.field \in T
    BY <1>2 DEF CallsOf, Modules
  <2>2. "value" \in DOMAIN q /\ q["value"] = m.value /\ "field" \in DOMAIN q /\ q["field"] = m.field
    BY <1>0, <1>2, <2>1 DEF Payload, hashPayload
  <2> QED
    BY <1>0, <2>1, <2>2, TextPassed
<1>3. ASSUME m.op \in {"list.lpush", "list.rpush"}
      PROVE  TextSeq(getStrSlice(p, "values"))
  <2>1. session.module = "list" /\ m.values \in Seq(T)
    BY <1>3 DEF CallsOf, Modules
  <2>2. "values" \in DOMAIN q /\ q["values"] = Arr(m.values)
    BY <1>0, <1>3, <2>1 DEF Payload, listPayload
  <2> QED
    BY <1>0, <2>1, <2>2, SliceText
<1>4. ASSUME m.op \in {"list.lpop", "list.rpop"}
      PROVE  getFloat(p, "count") \in Nat
  <2>1. session.module = "list" /\ m.count \in Int
    BY <1>4 DEF CallsOf, Modules
  <2>2. CASE m.count > 0
    <3>1. "count" \in DOMAIN q /\ q["count"] = I64(m.count)
      BY <1>0, <1>4, <2>1, <2>2 DEF Payload, listPayload
    <3> QED
      BY <1>0, <2>1, <2>2, <3>1, FloatRead
  <2>3. CASE ~(m.count > 0)
    <3>1. "count" \notin DOMAIN q
      BY <1>0, <1>4, <2>1, <2>3 DEF Payload, listPayload
    <3> QED
      BY <1>0, <3>1, FloatRead
  <2> QED
    BY <2>2, <2>3
<1>5. ASSUME m.op = "set.add"
      PROVE  TextSeq(getStrSlice(p, "members"))
  <2>1. session.module = "set" /\ m.members \in Seq(T)
    BY <1>5 DEF CallsOf, Modules
  <2>2. "members" \in DOMAIN q /\ q["members"] = Arr(m.members)
    BY <1>0, <1>5, <2>1 DEF Payload, setPayload
  <2> QED
    BY <1>0, <2>1, <2>2, SliceText
<1>6. ASSUME m.op = "queue.publish"
      PROVE  p["payload"] = Bytes(m.payload) /\ IsText(m.payload) /\ getFloat(p, "priority") \in Int
  <2>1. session.module = "queue" /\ m.payload \in T /\ m.priority \in Int
    BY <1>6 DEF CallsOf, Modules
  <2>2. /\ "payload" \in DOMAIN q /\ q["payload"] = Bytes(m.payload)
        /\ "priority" \in DOMAIN q /\ q["priority"] = I64(m.priority)
    BY <1>0, <1>6, <2>1 DEF Payload, queuePayload
  <2>3. Bytes(m.payload) # Nil
    BY DEF Bytes, Nil
  <2>4. p["payload"] = Bytes(m.payload)
    BY <1>0, <2>2, <2>3, OpaqueStays DEF Passed
  <2>5. getFloat(p, "priority") = m.priority
    BY <1>0, <2>2, FloatRead
  <2> QED
    BY <2>1, <2>4, <2>5
<1>7. ASSUME m.op \in {"stream.create", "stream.get_or_create"}
      PROVE  getFloat(p, "max_events") \in Int
  <2>1. session.module = "stream" /\ m.max \in Int
    BY <1>7 DEF CallsOf, Modules
  <2>2. "max_events" \in DOMAIN q /\ (q["max_events"] = I64(m.max) \/ q["max_events"] = Nil)
    BY <1>0, <1>7, <2>1 DEF Payload, streamPayload, Optional
  <2> QED
    BY <1>0, <2>1, <2>2, FloatRead
<1>8. ASSUME m.op = "stream.publish"
      PROVE  IsText(p["event"])
  <2>1. session.module = "stream" /\ m.event \in T
    BY <1>8 DEF CallsOf, Modules
  <2>2. "event" \in DOMAIN q /\ q["event"] = m.event
    BY <1>0, <1>8, <2>1 DEF Payload, streamPayload
  <2> QED
    BY <1>0, <2>1, <2>2, TextPassed
<1>9. ASSUME m.op = "pubsub.subscribe"
      PROVE  TextSeq(getStrSlice(p, "topics"))
  <2>1. session.module = "pubsub" /\ m.topics \in Seq(T)
    BY <1>9 DEF CallsOf, Modules
  <2>2. "topics" \in DOMAIN q /\ q["topics"] = Arr(m.topics)
    BY <1>0, <1>9, <2>1 DEF Payload, pubsubPayload
  <2> QED
    BY <1>0, <2>1, <2>2, SliceText
<1> QED
  BY <1>1, <1>2, <1>3, <1>4, <1>5, <1>6, <1>7, <1>8, <1>9 DEF TypedPayload
-----------------------------------------------------------------------------
(* A native command whose arguments are what its place asks for: strings   *)
(* where the server stores them, a count where it pops.                    *)
Storable(w) ==
    /\ w.cmd \in {"SET", "HSET", "QPUBLISH", "SPUBLISH"} => 1 \in DOMAIN w.args /\ IsText(w.args[1])
    /\ w.cmd = "HSET" => 2 \in DOMAIN w.args /\ IsText(w.args[2])
    /\ w.cmd \in {"LPUSH", "RPUSH", "SADD", "SUBSCRIBE"} => TextSeq(w.args)
    /\ w.cmd \in {"LPOP", "RPOP"} => 1 \in DOMAIN w.args /\ \E n \in Nat : w.args[1] = I64(n)

(* SynapRPC changes strings that are not UTF-8, but keeps the command      *)
(* storable.                                                               *)
LEMMA SentStorable ==
    ASSUME NEW w, DOMAIN w = {"cmd", "args"}, Storable(w)
    PROVE  Storable([w EXCEPT !.args = [i \in DOMAIN @ |-> Received(toWire(@[i]))]])
<1>1. PICK b, a : b = w.args /\ a = [i \in DOMAIN b |-> Received(toWire(b[i]))]
  OBVIOUS
<1>2. DOMAIN a = DOMAIN b /\ \A i \in DOMAIN b : a[i] = Received(toWire(b[i]))
  BY <1>1
<1>3. PICK v : v = [w EXCEPT !.args = a]
  OBVIOUS
<1>4. v.cmd = w.cmd /\ v.args = a
  BY <1>3
<1>5. \A i \in DOMAIN b : IsText(b[i]) => IsText(a[i])
  BY <1>2, TextStays
<1>6. \A i \in DOMAIN b, n \in Nat : b[i] = I64(n) => a[i] = I64(n)
  BY <1>2, NumberStays
<1>7. ASSUME TextSeq(b)
      PROVE  TextSeq(a)
  <2>1. PICK S : b \in Seq(S) /\ \A x \in S : IsText(x)
    BY <1>7 DEF TextSeq
  <2>2. PICK R : R = {a[i] : i \in DOMAIN b}
    OBVIOUS
  <2>3. a \in Seq(R)
    BY <1>1, <1>2, <2>1, <2>2
  <2>4. \A x \in R : IsText(x)
    BY <1>5, <2>1, <2>2
  <2> QED
    BY <2>3, <2>4 DEF TextSeq
<1>8. Storable(v)
  <2>1. /\ w.cmd \in {"SET", "HSET", "QPUBLISH", "SPUBLISH"} => 1 \in DOMAIN a /\ IsText(a[1])
        /\ w.cmd = "HSET" => 2 \in DOMAIN a /\ IsText(a[2])
    BY <1>1, <1>2, <1>5 DEF Storable
  <2>2. w.cmd \in {"LPUSH", "RPUSH", "SADD", "SUBSCRIBE"} => TextSeq(a)
    BY <1>1, <1>7 DEF Storable
  <2>3. w.cmd \in {"LPOP", "RPOP"} => 1 \in DOMAIN a /\ \E n \in Nat : a[1] = I64(n)
    BY <1>1, <1>2, <1>6 DEF Storable
  <2> QED
    BY <1>4, <2>1, <2>2, <2>3 DEF Storable
<1>9. [w EXCEPT !.args = [i \in DOMAIN @ |-> Received(toWire(@[i]))]] = v
  BY <1>1, <1>3
<1> QED
  BY <1>8, <1>9

(* The server reads a storable command as a request it can store. *)
LEMMA MeaningTyped ==
    ASSUME NEW w, Storable(w), NEW mode
    PROVE  TypedRequest(Meaning(mode, w))
<1>1. ASSUME NEW c, c = dataMeaning(w)
      PROVE  TypedRequest(c)
  <2>1. CASE w.cmd = "SET"
    <3>1. c.op = "kv.set" /\ c.value = w.args[1]
      BY <1>1, <2>1 DEF dataMeaning
    <3> QED
      BY <2>1, <3>1 DEF TypedRequest, Storable
  <2>2. CASE w.cmd = "HSET"
    <3>1. c.op = "hash.set" /\ c.field = w.args[1] /\ c.value = w.args[2]
      BY <1>1, <2>2 DEF dataMeaning
    <3> QED
      BY <2>2, <3>1 DEF TypedRequest, Storable
  <2>3. CASE w.cmd \in {"HGET", "HDEL", "HEXISTS"}
    <3>1. c.op \in {"hash.get", "hash.del", "hash.exists"}
      BY <1>1, <2>3 DEF dataMeaning
    <3> QED
      BY <3>1 DEF TypedRequest
  <2>4. CASE w.cmd \in {"LPUSH", "RPUSH"}
    <3>1. c.op \in {"list.lpush", "list.rpush"} /\ c.values = w.args
      BY <1>1, <2>4 DEF dataMeaning
    <3>2. TextSeq(c.values)
      BY <2>4, <3>1 DEF Storable
    <3> QED
      BY <3>1, <3>2 DEF TypedRequest
  <2>5. CASE w.cmd \in {"LPOP", "RPOP"}
    <3>1. c.op \in {"list.lpop", "list.rpop"} /\ c.count = w.args[1][2]
      BY <1>1, <2>5 DEF dataMeaning
    <3>2. c.count \in Nat
      BY <2>5, <3>1 DEF Storable, I64
    <3> QED
      BY <3>1, <3>2 DEF TypedRequest
  <2>6. CASE w.cmd \in {"SADD", "SREM"}
    <3>1. c.op = (IF w.cmd = "SADD" THEN "set.add" ELSE "set.rem") /\ c.members = w.args
      BY <1>1, <2>6 DEF dataMeaning
    <3>2. c.op = "set.add" => TextSeq(c.members)
      BY <3>1 DEF Storable
    <3>3. c.op \in {"set.add", "set.rem"}
      BY <3>1
    <3> QED
      BY <3>2, <3>3 DEF TypedRequest
  <2>7. CASE w.cmd \in {"LRANGE", "SISMEMBER"}
    <3>1. c.op \in {"list.range", "set.ismember"}
      BY <1>1, <2>7 DEF dataMeaning
    <3> QED
      BY <3>1 DEF TypedRequest
  <2>8. CASE w.cmd \notin {"SET", "HSET", "HGET", "HDEL", "HEXISTS", "LPUSH", "RPUSH", "LPOP", "RPOP",
                           "LRANGE", "SADD", "SREM", "SISMEMBER"}
    <3>1. c.op \in {"kv.get", "kv.del", "kv.exists", "kv.incr", "kv.decr", "hash.getall", "list.len",
                    "set.members", "set.card", "none"}
      BY <1>1, <2>8 DEF dataMeaning
    <3> QED
      BY <3>1 DEF TypedRequest
  <2> QED
    BY <2>1, <2>2, <2>3, <2>4, <2>5, <2>6, <2>7, <2>8
<1>2. ASSUME NEW c, c = brokerMeaning(mode, w)
      PROVE  TypedRequest(c)
  <2>1. CASE w.cmd = "QPUBLISH"
    <3>1. c.op = "queue.publish" /\ c.payload = w.args[1] /\ c.priority = 0
      BY <1>2, <2>1 DEF brokerMeaning
    <3> QED
      BY <2>1, <3>1 DEF TypedRequest, Storable
  <2>2. CASE w.cmd \in {"SCREATE", "SGETORCREATE"}
    <3>1. c.op \in {"stream.create", "stream.get_or_create"} /\ c.max = 0
      BY <1>2, <2>2 DEF brokerMeaning
    <3> QED
      BY <3>1 DEF TypedRequest
  <2>3. CASE w.cmd = "SPUBLISH"
    <3>1. c.op = "stream.publish" /\ c.event = w.args[1]
      BY <1>2, <2>3 DEF brokerMeaning
    <3> QED
      BY <2>3, <3>1 DEF TypedRequest, Storable
  <2>4. CASE w.cmd = "SUBSCRIBE"
    <3>1. c.op = "pubsub.subscribe" /\ c.topics = w.args
      BY <1>2, <2>4 DEF brokerMeaning
    <3> QED
      BY <2>4, <3>1 DEF TypedRequest, Storable
  <2>5. CASE w.cmd \in {"QCREATE", "QACK", "QNACK", "SREAD", "PUBLISH", "UNSUBSCRIBE"}
    <3>1. c.op \in {"queue.create", "queue.ack", "queue.nack", "stream.consume", "pubsub.publish",
                    "pubsub.unsubscribe"}
      BY <1>2, <2>5 DEF brokerMeaning
    <3> QED
      BY <3>1 DEF TypedRequest
  <2>6. CASE w.cmd \notin {"QPUBLISH", "SCREATE", "SGETORCREATE", "SPUBLISH", "SUBSCRIBE", "QCREATE",
                           "QACK", "QNACK", "SREAD", "PUBLISH", "UNSUBSCRIBE"}
    <3>1. c.op \in {"queue.delete", "queue.consume", "queue.list", "queue.stats", "stream.list",
                    "stream.stats", "stream.delete", "pubsub.topics", "none"}
      BY <1>2, <2>6 DEF brokerMeaning
    <3> QED
      BY <3>1 DEF TypedRequest
  <2> QED
    BY <2>1, <2>2, <2>3, <2>4, <2>5, <2>6
<1> QED
  BY <1>1, <1>2 DEF Meaning

(* mapCommandToWire makes storable commands of the calls of its module. *)
LEMMA CommandStorable ==
    ASSUME NEW T, NEW D, session.module \in Modules, NEW m \in CallsOf(session.module, T, D),
           NEW p, TypedPayload(p, m), NEW mode
    PROVE  /\ DOMAIN mapCommandToWire(mode, m.op, p) = {"cmd", "args"}
           /\ Storable(mapCommandToWire(mode, m.op, p))
<1>0. PICK w : w = mapCommandToWire(mode, m.op, p)
  OBVIOUS
<1>1. SUFFICES DOMAIN w = {"cmd", "args"} /\ Storable(w)
  BY <1>0
<1>2. CASE session.module = "queue"
  <2>1. w = queueCommand(m.op, p)
    BY <1>0, <1>2 DEF mapCommandToWire
  <2>2. m.op \in {"queue.create", "queue.publish", "queue.ack", "queue.nack", "queue.consume",
                  "queue.list", "queue.stats", "queue.delete"}
    BY <1>2 DEF CallsOf
  <2>3. CASE m.op = "queue.publish"
    <3>1. w = Wire("QPUBLISH", <<m.payload>>) /\ IsText(m.payload)
      BY <2>1, <2>3 DEF queueCommand, TypedPayload, Bytes
    <3> QED
      BY <3>1 DEF Wire, Storable
  <2>4. CASE m.op # "queue.publish"
    <3>1. /\ DOMAIN w = {"cmd", "args"}
          /\ w.cmd \in {"QCREATE", "QDELETE", "QCONSUME", "QACK", "QNACK", "QLIST", "QSTATS"}
      BY <2>1, <2>2, <2>4 DEF queueCommand, Wire
    <3> QED
      BY <3>1 DEF Storable
  <2> QED
    BY <2>3, <2>4
<1>3. CASE session.module = "stream"
  <2>1. w = streamCommand(m.op, p)
    BY <1>0, <1>3 DEF mapCommandToWire
  <2>2. m.op \in {"stream.create", "stream.get_or_create", "stream.publish", "stream.consume",
                  "stream.list", "stream.stats", "stream.delete"}
    BY <1>3 DEF CallsOf
  <2>3. CASE m.op = "stream.publish"
    <3>1. w = Wire("SPUBLISH", <<getStr(p, "event"), getStr(p, "data")>>)
      BY <2>1, <2>3 DEF streamCommand
    <3> QED
      BY <3>1, StrText DEF Wire, Storable
  <2>4. CASE m.op # "stream.publish"
    <3>1. /\ DOMAIN w = {"cmd", "args"}
          /\ w.cmd \in {"SCREATE", "SGETORCREATE", "SREAD", "SLIST", "SSTATS", "SDELETE"}
      BY <2>1, <2>2, <2>4 DEF streamCommand, Wire
    <3> QED
      BY <3>1 DEF Storable
  <2> QED
    BY <2>3, <2>4
<1>4. CASE session.module = "pubsub"
  <2>1. w = pubsubCommand(mode, m.op, p)
    BY <1>0, <1>4 DEF mapCommandToWire
  <2>2. m.op \in {"pubsub.publish", "pubsub.subscribe", "pubsub.unsubscribe", "pubsub.topics"}
    BY <1>4 DEF CallsOf
  <2>3. CASE m.op = "pubsub.subscribe"
    <3>1. w = Wire("SUBSCRIBE", getStrSlice(p, "topics")) /\ TextSeq(getStrSlice(p, "topics"))
      BY <2>1, <2>3 DEF pubsubCommand, TypedPayload
    <3> QED
      BY <3>1 DEF Wire, Storable
  <2>4. CASE m.op # "pubsub.subscribe"
    <3>1. /\ DOMAIN w = {"cmd", "args"}
          /\ w.cmd \in {"PUBLISH", "UNSUBSCRIBE", "PUBSUB", "TOPICS"}
      BY <2>1, <2>2, <2>4 DEF pubsubCommand, Wire
    <3> QED
      BY <3>1 DEF Storable
  <2> QED
    BY <2>3, <2>4
<1>5. CASE session.module \in {"kv", "hash", "list", "set"}
  <2>1. w = dataCommand(m.op, p)
    BY <1>0, <1>5 DEF mapCommandToWire
  <2>2. CASE m.op = "kv.set"
    <3>1. PICK x, y, z : x = getStr(p, "value") /\ y = Str("EX") /\ z = I64(getFloat(p, "ttl"))
      OBVIOUS
    <3>2. PICK e : e = IF getFloat(p, "ttl") > 0 THEN <<y, z>> ELSE <<>>
      OBVIOUS
    <3>3. w = Wire("SET", <<x>> \o e)
      BY <2>1, <2>2, <3>1, <3>2 DEF dataCommand
    <3>4. e \in Seq({x, y, z}) /\ <<x>> \in Seq({x, y, z})
      <4>1. <<x>> \in Seq({x, y, z}) /\ <<y, z>> \in Seq({x, y, z})
        OBVIOUS
      <4>2. <<>> \in Seq({x, y, z})
        OBVIOUS
      <4>3. e = <<y, z>> \/ e = <<>>
        BY <3>2
      <4> QED
        BY <4>1, <4>2, <4>3
    <3>5. PICK a : a = <<x>> \o e
      OBVIOUS
    <3>6. 1 \in DOMAIN a /\ a[1] = x
      BY <3>4, <3>5
    <3>7. IsText(x)
      BY <3>1, StrText
    <3> QED
      BY <3>3, <3>5, <3>6, <3>7 DEF Wire, Storable
  <2>3. CASE m.op = "hash.set"
    <3>1. w = Wire("HSET", <<getStr(p, "field"), getStr(p, "value")>>)
      BY <2>1, <2>3 DEF dataCommand
    <3> QED
      BY <3>1, StrText DEF Wire, Storable
  <2>4. CASE m.op \in {"list.lpush", "list.rpush"}
    <3>1. PICK c \in {"LPUSH", "RPUSH"} : w = Wire(c, getStrSlice(p, "values"))
      BY <2>1, <2>4 DEF dataCommand
    <3>2. TextSeq(getStrSlice(p, "values"))
      BY <2>4 DEF TypedPayload
    <3> QED
      BY <3>1, <3>2 DEF Wire, Storable
  <2>5. CASE m.op \in {"list.lpop", "list.rpop"}
    <3>1. PICK c \in {"LPOP", "RPOP"} : w = Wire(c, <<I64(getFloat(p, "count"))>>)
      BY <2>1, <2>5 DEF dataCommand
    <3>2. getFloat(p, "count") \in Nat
      BY <2>5 DEF TypedPayload
    <3> QED
      BY <3>1, <3>2 DEF Wire, Storable
  <2>6. CASE m.op = "set.add"
    <3>1. w = Wire("SADD", getStrSlice(p, "members")) /\ TextSeq(getStrSlice(p, "members"))
      BY <2>1, <2>6 DEF dataCommand, TypedPayload
    <3> QED
      BY <3>1 DEF Wire, Storable
  <2>7. CASE m.op \notin {"kv.set", "hash.set", "list.lpush", "list.rpush", "list.lpop", "list.rpop",
                          "set.add"}
    <3>1. /\ DOMAIN w = {"cmd", "args"}
          /\ w.cmd \in {"GET", "DEL", "EXISTS", "INCR", "DECR", "HGET", "HGETALL", "HDEL", "HEXISTS",
                        "LRANGE", "LLEN", "SMEMBERS", "SISMEMBER", "SREM", "SCARD", ""}
      BY <2>1, <2>7 DEF dataCommand, Wire, Unsupported
    <3> QED
      BY <3>1 DEF Storable
  <2> QED
    BY <2>2, <2>3, <2>4, <2>5, <2>6, <2>7
<1> QED
  BY <1>2, <1>3, <1>4, <1>5 DEF Modules

(* An id for the subscriber changes nothing the server stores. *)
LEMMA IdentifiedTyped ==
    ASSUME NEW c, TypedRequest(c)
    PROVE  \A d \in Identified(c) : TypedRequest(d)
<1>1. ASSUME NEW id, c.op = "pubsub.subscribe"
      PROVE  TypedRequest([c EXCEPT !.subscriber = id])
  <2>1. PICK d : d = [c EXCEPT !.subscriber = id]
    OBVIOUS
  <2>2. d.op = "pubsub.subscribe" /\ d.topics = c.topics
    BY <1>1, <2>1
  <2>3. TextSeq(d.topics)
    BY <1>1, <2>2 DEF TypedRequest
  <2> QED
    BY <2>1, <2>2, <2>3 DEF TypedRequest
<1> QED
  BY <1>1 DEF Identified

(* The request in an HTTP envelope can be stored as well. *)
LEMMA EnvelopeTyped ==
    ASSUME NEW T, NEW D, session.module \in Modules, NEW m \in CallsOf(session.module, T, D),
           NEW p, TypedPayload(p, m)
    PROVE  TypedRequest(Envelope(m, p))
<1>0. PICK c : c = Envelope(m, p)
  OBVIOUS
<1>1. SUFFICES TypedRequest(c)
  BY <1>0
<1>2. "op" \in DOMAIN m
  BY DEF CallsOf, Modules
<1>3. c.op = m.op
  <2>1. CASE ForBroker
    BY <1>0, <1>2, <2>1 DEF Envelope, brokerEnvelope
  <2>2. CASE ~ForBroker
    BY <1>0, <1>2, <2>2 DEF Envelope, dataEnvelope
  <2> QED
    BY <2>1, <2>2
<1>4. ASSUME c.op = "kv.set"
      PROVE  IsText(c.value)
  <2>1. session.module = "kv" /\ "value" \in DOMAIN m
    BY <1>3, <1>4 DEF CallsOf, Modules
  <2>2. c.value = p["value"]
    BY <1>0, <2>1 DEF Envelope, ForBroker, dataEnvelope
  <2> QED
    BY <1>3, <1>4, <2>2 DEF TypedPayload
<1>5. ASSUME c.op = "hash.set"
      PROVE  IsText(c.field) /\ IsText(c.value)
  <2>1. session.module = "hash" /\ "field" \in DOMAIN m /\ "value" \in DOMAIN m
    BY <1>3, <1>5 DEF CallsOf, Modules
  <2>2. c.value = p["value"] /\ c.field = p["field"]
    BY <1>0, <2>1 DEF Envelope, ForBroker, dataEnvelope
  <2> QED
    BY <1>3, <1>5, <2>2 DEF TypedPayload
<1>6. ASSUME c.op \in {"list.lpush", "list.rpush"}
      PROVE  TextSeq(c.values)
  <2>1. session.module = "list" /\ "values" \in DOMAIN m
    BY <1>3, <1>6 DEF CallsOf, Modules
  <2>2. c.values = getStrSlice(p, "values")
    BY <1>0, <2>1 DEF Envelope, ForBroker, dataEnvelope
  <2> QED
    BY <1>3, <1>6, <2>2 DEF TypedPayload
<1>7. ASSUME c.op \in {"list.lpop", "list.rpop"}
      PROVE  c.count \in Nat
  <2>1. session.module = "list" /\ "count" \in DOMAIN m
    BY <1>3, <1>7 DEF CallsOf, Modules
  <2>2. c.count = getFloat(p, "count")
    BY <1>0, <2>1 DEF Envelope, ForBroker, dataEnvelope
  <2> QED
    BY <1>3, <1>7, <2>2 DEF TypedPayload
<1>8. ASSUME c.op = "set.add"
      PROVE  TextSeq(c.members)
  <2>1. session.module = "set" /\ "members" \in DOMAIN m
    BY <1>3, <1>8 DEF CallsOf, Modules
  <2>2. c.members = getStrSlice(p, "members")
    BY <1>0, <2>1 DEF Envelope, ForBroker, dataEnvelope
  <2> QED
    BY <1>3, <1>8, <2>2 DEF TypedPayload
<1>9. ASSUME c.op = "queue.publish"
      PROVE  IsText(c.payload) /\ c.priority \in Int
  <2>1. session.module = "queue" /\ "payload" \in DOMAIN m /\ "priority" \in DOMAIN m
    BY <1>3, <1>9 DEF CallsOf, Modules
  <2>2. c.payload = p.payload[2] /\ c.priority = getFloat(p, "priority")
    BY <1>0, <2>1 DEF Envelope, ForBroker, brokerEnvelope
  <2> QED
    BY <1>3, <1>9, <2>2 DEF TypedPayload, Bytes
<1>10. ASSUME c.op \in {"stream.create", "stream.get_or_create"}
       PROVE  c.max \in Int
  <2>1. session.module = "stream" /\ "max" \in DOMAIN m
    BY <1>3, <1>10 DEF CallsOf, Modules
  <2>2. c.max = getFloat(p, "max_events")
    BY <1>0, <2>1 DEF Envelope, ForBroker, brokerEnvelope
  <2> QED
    BY <1>3, <1>10, <2>2 DEF TypedPayload
<1>11. ASSUME c.op = "stream.publish"
       PROVE  IsText(c.event)
  <2>1. session.module = "stream" /\ "event" \in DOMAIN m
    BY <1>3, <1>11 DEF CallsOf, Modules
  <2>2. c.event = p["event"]
    BY <1>0, <2>1 DEF Envelope, ForBroker, brokerEnvelope
  <2> QED
    BY <1>3, <1>11, <2>2 DEF TypedPayload
<1>12. ASSUME c.op = "pubsub.subscribe"
       PROVE  TextSeq(c.topics)
  <2>1. session.module = "pubsub" /\ "topics" \in DOMAIN m
    BY <1>3, <1>12 DEF CallsOf, Modules
  <2>2. c.topics = getStrSlice(p, "topics")
    BY <1>0, <2>1 DEF Envelope, ForBroker, brokerEnvelope
  <2> QED
    BY <1>3, <1>12, <2>2 DEF TypedPayload
<1> QED
  BY <1>4, <1>5, <1>6, <1>7, <1>8, <1>9, <1>10, <1>11, <1>12 DEF TypedRequest
-----------------------------------------------------------------------------
(* The types of the store are an invariant. *)
TypeInv == session \in Sessions /\ TypedStore(store)

(* The server starts with nothing. *)
LEMMA TypeInit == Init => TypeInv
<1>1. SUFFICES ASSUME Init
               PROVE  TypedStore(store)
  BY DEF TypeInv, Init
<1>2. store = Promise!Empty
  BY <1>1 DEF Init, Promise!Init
<1>3. /\ store.kv = Nil /\ store.expires = FALSE /\ store.hash = <<>> /\ store.list = <<>> /\ store.set = {}
      /\ store.queue = Promise!NoQueue /\ store.room = Promise!NoRoom /\ store.subs = <<>>
      /\ DOMAIN store = {"kv", "expires", "hash", "list", "set", "queue", "issued", "room",
                         "generations", "subs", "sent"}
  BY <1>2, SameValues DEF Promise!Empty
<1>4. DOMAIN <<>> = {}
  OBVIOUS
<1> QED
  BY <1>3, <1>4, NothingTyped DEF TypedStore

(* A call over any transport, and the expiry of the key, keep the types. *)
LEMMA TypeStep ==
    ASSUME NEW T, \A v \in T : IsText(v), NEW D,
           \A s \in Sessions : \A mode \in Modes(s) : s.calls[mode] \subseteq CallsOf(s.module, T, D),
           TypeInv, [Next]_vars
    PROVE  TypeInv'
<1>1. session.module \in Modules
  BY WireAssumption DEF TypeInv
<1>2. ASSUME NEW mode, NEW m, NEW c, NEW R, TypedRequest(c), Handle(mode, m, c, R)
      PROVE  TypeInv'
  <2>1. store' = Promise!Effect(c, store) /\ session' = session
    BY <1>2 DEF Handle
  <2>2. TypedStore(Promise!Effect(c, store))
    BY <1>2, StoreTyped DEF TypeInv
  <2> QED
    BY <2>1, <2>2 DEF TypeInv
<1>3. ASSUME NEW mode \in Modes(session), NEW m \in session.calls[mode]
      PROVE  m \in CallsOf(session.module, T, D)
  BY <1>3 DEF TypeInv
<1>4. ASSUME NEW mode \in Modes(session), NEW m \in session.calls[mode], sendRPC(m)
      PROVE  TypeInv'
  <2>1. PICK p, w : p = payloadToMap(Payload(m)) /\ w = mapCommandToWire("rpc", m.op, p)
    OBVIOUS
  <2>2. PICK v : v = [w EXCEPT !.args = [i \in DOMAIN @ |-> Received(toWire(@[i]))]]
    OBVIOUS
  <2>3. TypedPayload(p, m)
    BY <1>1, <1>3, <2>1, BothPassed, PayloadTyped
  <2>4. DOMAIN w = {"cmd", "args"} /\ Storable(w)
    BY <1>1, <1>3, <2>1, <2>3, CommandStorable
  <2>5. TypedRequest(Meaning("rpc", v))
    BY <2>2, <2>4, SentStorable, MeaningTyped
  <2>6. PICK c, R : c \in Identified(Meaning("rpc", v)) /\ Handle("rpc", m, c, R)
    BY <1>4, <2>1, <2>2 DEF sendRPC
  <2>7. TypedRequest(c)
    BY <2>5, <2>6, IdentifiedTyped
  <2> QED
    BY <1>2, <2>6, <2>7
<1>5. ASSUME NEW mode \in Modes(session), NEW m \in session.calls[mode], sendRESP3(m)
      PROVE  TypeInv'
  <2>1. PICK p, w : p = throughJson(Payload(m)) /\ w = mapCommandToWire("resp3", m.op, p)
    OBVIOUS
  <2>2. TypedPayload(p, m)
    BY <1>1, <1>3, <2>1, BothPassed, PayloadTyped
  <2>3. Storable(w)
    BY <1>1, <1>3, <2>1, <2>2, CommandStorable
  <2>4. TypedRequest(Meaning("resp3", w))
    BY <2>3, MeaningTyped
  <2>5. PICK c, R : c \in Identified(Meaning("resp3", w)) /\ Handle("resp3", m, c, R)
    BY <1>5, <2>1 DEF sendRESP3
  <2>6. TypedRequest(c)
    BY <2>4, <2>5, IdentifiedTyped
  <2> QED
    BY <1>2, <2>5, <2>6
<1>6. ASSUME NEW mode \in Modes(session), NEW m \in session.calls[mode], sendHTTP(m)
      PROVE  TypeInv'
  <2>1. PICK p, c : p = throughJson(Payload(m)) /\ c = Envelope(m, p)
    OBVIOUS
  <2>2. TypedPayload(p, m)
    BY <1>1, <1>3, <2>1, BothPassed, PayloadTyped
  <2>3. TypedRequest(c)
    BY <1>1, <1>3, <2>1, <2>2, EnvelopeTyped
  <2>4. PICK R : Handle("http", m, c, R)
    BY <1>6, <2>1 DEF sendHTTP
  <2> QED
    BY <1>2, <2>3, <2>4
<1>7. CASE Expire
  <2>1. store' = [store EXCEPT !.kv = Nil, !.expires = FALSE] /\ session' = session
    BY <1>7, SameValues DEF Expire, Promise!Expire
  <2>2. TypedStore([store EXCEPT !.kv = Nil, !.expires = FALSE])
    BY DEF TypeInv, TypedStore
  <2> QED
    BY <2>1, <2>2 DEF TypeInv
<1>8. CASE UNCHANGED vars
  BY <1>8 DEF TypeInv, TypedStore, vars
<1> QED
  BY <1>4, <1>5, <1>6, <1>7, <1>8 DEF Next, sendCommand

(* The types of the store say what TypeOK does. *)
LEMMA TypeInvEnough == TypeInv => TypeOK
<1>1. SUFFICES ASSUME TypeInv
               PROVE  TypeOK
  OBVIOUS
<1>2. \A i \in DOMAIN store.list : IsText(store.list[i])
  BY <1>1 DEF TypeInv, TypedStore, TextSeq
<1>3. \A i \in DOMAIN store.queue.waiting : IsText(store.queue.waiting[i].payload)
  BY <1>1, MessagesMoved DEF TypeInv, TypedStore, TypedQueue, IsMessage
<1>4. \A i \in DOMAIN store.room.events : IsText(store.room.events[i].event)
  BY <1>1 DEF TypeInv, TypedStore, TypedRoom, EventSeq
<1> QED
  BY <1>1, <1>2, <1>3, <1>4 DEF TypeOK, TypeInv, TypedStore

(* Whatever sessions call, over whatever transports, with arguments of the *)
(* types of the Go signatures: the server's data keep their types, TypeOK. *)
THEOREM WireTypeCorrect ==
    ASSUME NEW T, \A v \in T : IsText(v), NEW D,
           \A s \in Sessions : \A mode \in Modes(s) : s.calls[mode] \subseteq CallsOf(s.module, T, D)
    PROVE  Spec => []TypeOK
<1>1. Init => TypeInv
  BY TypeInit
<1>2. TypeInv /\ [Next]_vars => TypeInv'
  BY TypeStep
<1>3. TypeInv => TypeOK
  BY TypeInvEnough
<1> QED
  BY <1>1, <1>2, <1>3, PTL DEF Spec
=============================================================================
