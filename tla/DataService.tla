---------------------------- MODULE DataService ----------------------------
(***************************************************************************)
(* What the modules of the SDK promise their callers, whatever transport   *)
(* they run on: the effect of every method on the data it is about and the *)
(* value it returns, as the comments on the methods in kv.go, hash.go,     *)
(* list.go and set.go and the examples of the README have it;              *)
(* BrokerMethods has the queue, stream and pub/sub methods.  One key of    *)
(* each data type is enough, since every method works on one key.          *)
(*                                                                         *)
(* A method call is a record with the method in field "op".                *)
(***************************************************************************)
EXTENDS BrokerMethods

CONSTANTS Methods,      \* the method calls under consideration
          Misreported   \* methods whose returned value is not judged

VARIABLES store,        \* the data
          last          \* the last call and what it returned

absVars == <<store, last>>

Empty == [kv |-> Nil, expires |-> FALSE, hash |-> <<>>, list |-> <<>>, set |-> {},
          queue |-> NoQueue, issued |-> 0, room |-> NoRoom, generations |-> 0,
          subs |-> <<>>, sent |-> Nil]

NoCall == [call |-> [op |-> "none"], result |-> Nil]

-----------------------------------------------------------------------------
CountOf(s)   == IF s.kv = Nil THEN 0 ELSE s.kv[2]
IsCounter(s) == s.kv[1] \in {"nil", "num"}

(* list.go 54: "count 0 is treated as 1 by the server". *)
Popped(m, s) ==
    LET n == IF m.count = 0 THEN 1 ELSE m.count IN
    IF n < Len(s.list) THEN n ELSE Len(s.list)

(* The elements from index start to index stop; a negative index counts    *)
(* from the end.                                                           *)
Slice(start, stop, s) ==
    LET At(i)  == IF i < 0 THEN Len(s.list) + i ELSE i
        first  == IF At(start) < 0 THEN 0 ELSE At(start)
        beyond == IF At(stop) < Len(s.list) THEN At(stop) + 1 ELSE Len(s.list) IN
    SubSeq(s.list, first + 1, beyond)

(* README 289-292: after LPush of "a", "b" the head of the list is "a".    *)
DataEffect(m, s) ==
    CASE m.op = "kv.set"     -> [s EXCEPT !.kv = m.value, !.expires = m.ttl > 0]
      [] m.op = "kv.del"     -> [s EXCEPT !.kv = Nil, !.expires = FALSE]
      [] m.op = "kv.incr" /\ IsCounter(s) -> [s EXCEPT !.kv = Num(CountOf(s) + 1)]
      [] m.op = "kv.decr" /\ IsCounter(s) -> [s EXCEPT !.kv = Num(CountOf(s) - 1)]
      [] m.op = "hash.set"   ->
            [s EXCEPT !.hash = [f \in DOMAIN s.hash \cup {m.field} |->
                                    IF f = m.field THEN m.value ELSE s.hash[f]]]
      [] m.op = "hash.del"   ->
            [s EXCEPT !.hash = [f \in DOMAIN s.hash \ {m.field} |-> s.hash[f]]]
      [] m.op = "list.lpush" -> [s EXCEPT !.list = m.values \o @]
      [] m.op = "list.rpush" -> [s EXCEPT !.list = @ \o m.values]
      [] m.op = "list.lpop"  -> [s EXCEPT !.list = SubSeq(@, Popped(m, s) + 1, Len(@))]
      [] m.op = "list.rpop"  -> [s EXCEPT !.list = SubSeq(@, 1, Len(@) - Popped(m, s))]
      [] m.op = "set.add"    -> [s EXCEPT !.set = @ \cup ToSet(m.members)]
      [] m.op = "set.rem"    -> [s EXCEPT !.set = @ \ ToSet(m.members)]
      [] OTHER               -> s

DataResult(m, s) ==
    CASE m.op = "kv.set"       -> Done
      [] m.op = "kv.get"       -> IF s.kv = Nil THEN Str("") ELSE s.kv
      [] m.op \in {"kv.del", "kv.exists"} -> Bool(s.kv # Nil)
      [] m.op = "kv.stats"     -> Obj([total_keys |-> I64(IF s.kv = Nil THEN 0 ELSE 1)])
      [] m.op = "kv.incr"      -> IF IsCounter(s) THEN I64(CountOf(s) + 1) ELSE Failed
      [] m.op = "kv.decr"      -> IF IsCounter(s) THEN I64(CountOf(s) - 1) ELSE Failed
      [] m.op = "hash.set"     -> Bool(m.field \notin DOMAIN s.hash)
      [] m.op = "hash.get"     -> IF m.field \in DOMAIN s.hash THEN s.hash[m.field] ELSE Str("")
      [] m.op = "hash.getall"  -> Obj(s.hash)
      [] m.op = "hash.del"     -> I64(IF m.field \in DOMAIN s.hash THEN 1 ELSE 0)
      [] m.op = "hash.exists"  -> Bool(m.field \in DOMAIN s.hash)
      [] m.op \in {"list.lpush", "list.rpush"} -> I64(Len(s.list) + Len(m.values))
      [] m.op = "list.lpop"    -> Arr(SubSeq(s.list, 1, Popped(m, s)))
      [] m.op = "list.rpop"    -> Arr(SubSeq(Reverse(s.list), 1, Popped(m, s)))
      [] m.op = "list.range"   -> Arr(Slice(m.start, m.stop, s))
      [] m.op = "list.len"     -> I64(Len(s.list))
      [] m.op = "set.add"      -> I64(Cardinality(ToSet(m.members) \ s.set))
      [] m.op = "set.members"  -> Arr(SetToSeq(s.set))
      [] m.op = "set.ismember" -> Bool(m.member \in s.set)
      [] m.op = "set.rem"      -> I64(Cardinality(ToSet(m.members) \cap s.set))
      [] m.op = "set.card"     -> I64(Cardinality(s.set))

(* "none" is a command the server does not have. *)
Effect(m, s) ==
    CASE m.op = "none"         -> s
      [] m.op \in QueueMethods  -> QueueEffect(m, s)
      [] m.op \in StreamMethods -> StreamEffect(m, s)
      [] m.op \in PubSubMethods -> PubSubEffect(m, s)
      [] OTHER                 -> DataEffect(m, s)

Result(m, s) ==
    CASE m.op = "none"         -> Failed
      [] m.op \in QueueMethods  -> QueueResult(m, s)
      [] m.op \in StreamMethods -> StreamResult(m, s)
      [] m.op \in PubSubMethods -> PubSubResult(m, s)
      [] OTHER                 -> DataResult(m, s)

-----------------------------------------------------------------------------
Init ==
    /\ store = Empty
    /\ last = NoCall

(* A method is called; it has its effect and returns its result. *)
Invoke(m) ==
    /\ last'.call = m
    /\ store' = Effect(m, store)
    /\ m.op \in Misreported \/ last'.result = Result(m, store)

(* A key with a time to live expires. *)
Expire ==
    /\ store.expires
    /\ store' = [store EXCEPT !.kv = Nil, !.expires = FALSE]
    /\ UNCHANGED last

Next == Expire \/ \E m \in Methods : Invoke(m)

Spec == Init /\ [][Next]_absVars
=============================================================================
