------------------------- MODULE TransactionProofs -------------------------
(***************************************************************************)
(* Proofs about Transaction, for any number of scopes, keys and commands.  *)
(* That scopes are separate holds however often a request is executed;     *)
(* what Exec and Discard report is proved for a transport that sends a     *)
(* request once, SynapRPC or HTTP: its truth for a Tx on which Multi was   *)
(* called once, its finality for any calls in any order.                   *)
(***************************************************************************)
EXTENDS Transaction, FiniteSetTheorems, SequenceTheorems, TLAPS

-----------------------------------------------------------------------------
(* Facts about sequences *)

(* A sequence with one element appended. *)
LEMMA AppendFacts ==
    ASSUME NEW S, NEW s \in Seq(S), NEW x \in S
    PROVE  /\ Append(s, x) \in Seq(S) /\ Append(s, x) # <<>>
           /\ Len(Append(s, x)) = Len(s) + 1
           /\ \A i \in 1 .. Len(s) : Append(s, x)[i] = s[i]
           /\ Append(s, x)[Len(s) + 1] = x
           /\ ToSet(Append(s, x)) = ToSet(s) \cup {x}
<1>1. /\ Append(s, x) \in Seq(S)
      /\ Len(Append(s, x)) = Len(s) + 1
      /\ \A i \in 1 .. Len(s) : Append(s, x)[i] = s[i]
      /\ Append(s, x)[Len(s) + 1] = x
  BY AppendProperties
<1>2. DOMAIN s = 1 .. Len(s) /\ DOMAIN Append(s, x) = 1 .. Len(s) + 1 /\ Len(s) \in Nat
  BY <1>1
<1>3. ToSet(Append(s, x)) = ToSet(s) \cup {x}
  BY <1>1, <1>2 DEF ToSet
<1>4. Append(s, x) # <<>>
  BY AppendProperties
<1> QED
  BY <1>1, <1>3, <1>4

(* Two sequences one after the other. *)
LEMMA ConcatFacts ==
    ASSUME NEW S, NEW s \in Seq(S), NEW t \in Seq(S)
    PROVE  /\ s \o t \in Seq(S)
           /\ Len(s \o t) = Len(s) + Len(t)
           /\ \A i \in 1 .. Len(s) : (s \o t)[i] = s[i]
           /\ \A i \in 1 .. Len(t) : (s \o t)[Len(s) + i] = t[i]
           /\ ToSet(s \o t) = ToSet(s) \cup ToSet(t)
<1>1. /\ s \o t \in Seq(S)
      /\ Len(s \o t) = Len(s) + Len(t)
      /\ \A i \in 1 .. Len(s) + Len(t) : (s \o t)[i] = IF i <= Len(s) THEN s[i] ELSE t[i - Len(s)]
  BY ConcatProperties
<1>2. /\ DOMAIN s = 1 .. Len(s) /\ DOMAIN t = 1 .. Len(t)
      /\ DOMAIN (s \o t) = 1 .. Len(s) + Len(t)
      /\ Len(s) \in Nat /\ Len(t) \in Nat
  BY <1>1
<1>3. ASSUME NEW i \in 1 .. Len(s)
      PROVE  (s \o t)[i] = s[i] /\ i \in 1 .. Len(s) + Len(t)
  BY <1>1, <1>2
<1>4. ASSUME NEW i \in 1 .. Len(t)
      PROVE  (s \o t)[Len(s) + i] = t[i] /\ Len(s) + i \in 1 .. Len(s) + Len(t)
  BY <1>1, <1>2
<1>5. ASSUME NEW i \in 1 .. Len(s) + Len(t)
      PROVE  \/ i \in 1 .. Len(s)
             \/ i - Len(s) \in 1 .. Len(t) /\ (s \o t)[i] = t[i - Len(s)]
  BY <1>1, <1>2
<1>6. ToSet(s \o t) = ToSet(s) \cup ToSet(t)
  <2>1. ToSet(s \o t) \subseteq ToSet(s) \cup ToSet(t)
    BY <1>2, <1>3, <1>5 DEF ToSet
  <2>2. ToSet(s) \subseteq ToSet(s \o t)
    BY <1>2, <1>3 DEF ToSet
  <2>3. ToSet(t) \subseteq ToSet(s \o t)
    BY <1>2, <1>4 DEF ToSet
  <2> QED
    BY <2>1, <2>2, <2>3
<1> QED
  BY <1>1, <1>3, <1>4, <1>6

(* A sequence and its elements. *)
LEMMA RangeFacts ==
    ASSUME NEW S, NEW s \in Seq(S)
    PROVE  /\ ToSet(s) \subseteq S
           /\ \A i \in 1 .. Len(s) : s[i] \in ToSet(s)
           /\ DOMAIN s = 1 .. Len(s) /\ Len(s) \in Nat
<1>1. DOMAIN s = 1 .. Len(s) /\ Len(s) \in Nat
  OBVIOUS
<1> QED
  BY <1>1 DEF ToSet

(* The empty sequence. *)
LEMMA EmptyFacts == ToSet(<<>>) = {} /\ DOMAIN <<>> = {} /\ \A S : <<>> \in Seq(S)
BY DEF ToSet

-----------------------------------------------------------------------------
(* Scopes: what is known of every request, however often it is executed *)

(* A client object's commands carry its own id or none. *)
OwnId ==
    /\ txClientID[Base] = NoTx
    /\ \A t \in Txs : txClientID[t] \in {NoTx, t}

(* Request w is one its client object can have issued: the plain client's  *)
(* are executed at once, a scope's are queued under its own id or control  *)
(* it, and the scope remembers the control commands it issued.             *)
Genuine(w) ==
    /\ w.form = "direct" => w.by = Base /\ w.verb \in Plain
    /\ w.form # "direct" => w.by \in Txs /\ w.id = w.by
    /\ w.form = "txqueue" => w.verb = "write"
    /\ w.form = "control" => w.verb \in Control \cap said[w.by]

(* Every request in sight is genuine, and a call's request is its own. *)
RequestsAreGenuine ==
    /\ \A s \in stray : Genuine(s.wire)
    /\ \A c \in Clients : call[c] # Quiet =>
        /\ Genuine(call[c].wire)
        /\ call[c].wire.by = c
        /\ call[c].wire.verb = call[c].verb
        /\ call[c].wire.key = call[c].key

(* A call of Multi is counted when it is made. *)
MultisCounted == \A t \in Txs : "multi" \in said[t] => begun[t] >= 1

(* The invariant for the separation of the scopes. *)
Scoped == TypeOK /\ OwnId /\ RequestsAreGenuine /\ ScopesAreSeparate /\ MultisCounted

(* The types of what the server keeps. *)
ServerTypes ==
    /\ open \subseteq Txs /\ dirty \subseteq Txs
    /\ queue \in [Txs -> Seq(Requests)] /\ \A t \in Txs : queue[t] # <<>> => t \in open
    /\ watching \in [Txs -> SUBSET Keys]
    /\ log \in Seq(Entries)

(* What EXEC appends to the log. *)
Batch(q) == [i \in 1 .. Len(q) |-> Entry(q[i], "exec")]

(* One entry for each queued write, in the order of the queue. *)
LEMMA BatchFacts ==
    ASSUME NEW q \in Seq(Requests)
    PROVE  /\ Batch(q) \in Seq(Entries)
           /\ Len(Batch(q)) = Len(q)
           /\ \A i \in 1 .. Len(q) : Batch(q)[i] = Entry(q[i], "exec")
<1>1. \A i \in 1 .. Len(q) : q[i] \in Requests
  OBVIOUS
<1>2. \A i \in 1 .. Len(q) : Entry(q[i], "exec") \in Entries
  BY <1>1 DEF Entry, Tag, Tags, Entries, Requests
<1> QED
  BY <1>2 DEF Batch

(* A genuine request that is not the plain client's names an existing      *)
(* scope.                                                                  *)
LEMMA GenuineFacts ==
    ASSUME NEW w \in Requests, Genuine(w)
    PROVE  /\ w.form = "direct" => w.by = Base /\ w.verb \in {"write", "read"}
           /\ w.form = "txqueue" => w.by \in Txs /\ w.id = w.by /\ w.verb = "write"
           /\ w.verb \notin {"write", "read"} =>
                 w.by \in Txs /\ w.id = w.by /\ w.form = "control" /\ w.verb \in said[w.by]
           /\ w.by = Base => w.form = "direct"
BY TransactionAssumption DEF Genuine, Requests, Control, Plain

(* Executing a genuine request keeps the server typed and scopes separate. *)
LEMMA HandleScoped ==
    ASSUME ServerTypes, ScopesAreSeparate, NEW w \in Requests, Genuine(w), Handle(w)
    PROVE  ServerTypes' /\ ScopesAreSeparate'
<1> USE GenuineFacts
<1>0. w.key \in Keys /\ w.by \in Clients /\ w.n \in Nat
  BY DEF Requests
<1>1. CASE Apply(w)
  <2>1. Entry(w, "direct") \in Entries
    BY <1>0 DEF Entry, Tag, Tags, Entries
  <2>2. Entry(w, "direct").tag[1] = Base /\ Entry(w, "direct").via = "direct"
    BY <1>1 DEF Apply, Entry, Tag
  <2>3. log' \in Seq(Entries) /\ ToSet(log') = ToSet(log) \cup {Entry(w, "direct")}
    BY <1>1, <2>1, AppendFacts DEF Apply, ServerTypes
  <2> QED
    BY <1>1, <2>2, <2>3 DEF Apply, ServerTypes, ScopesAreSeparate, Touched
<1>2. CASE Enqueue(w)
  <2>1. w.id \in Txs /\ w.by = w.id /\ queue[w.id] \in Seq(Requests)
    BY <1>2 DEF Enqueue, ServerTypes
  <2>2. /\ Append(queue[w.id], w) \in Seq(Requests)
        /\ ToSet(Append(queue[w.id], w)) = ToSet(queue[w.id]) \cup {w}
    BY <2>1, AppendFacts
  <2>3. queue' = [queue EXCEPT ![w.id] = Append(queue[w.id], w)] /\ UNCHANGED <<open, watching, dirty, log>>
    BY <1>2 DEF Enqueue
  <2> QED
    BY <1>2, <2>1, <2>2, <2>3 DEF Enqueue, ServerTypes, ScopesAreSeparate
<1>3. CASE OpenTx(w)
  BY <1>3 DEF OpenTx, ServerTypes, ScopesAreSeparate
<1>4. CASE WatchKey(w)
  BY <1>0, <1>4 DEF WatchKey, ServerTypes, ScopesAreSeparate
<1>5. CASE UnwatchKeys(w)
  BY <1>5 DEF UnwatchKeys, ServerTypes, ScopesAreSeparate
<1>6. ASSUME CloseTx(w.id), w.id \in open, dirty' \subseteq Txs
      PROVE  /\ open' \subseteq Txs /\ dirty' \subseteq Txs
             /\ queue' \in [Txs -> Seq(Requests)] /\ \A t \in Txs : queue'[t] # <<>> => t \in open'
             /\ watching' \in [Txs -> SUBSET Keys]
             /\ \A t \in Txs : \A v \in ToSet(queue'[t]) : v.by = t
  <2>1. w.id \in Txs
    BY <1>6 DEF ServerTypes
  <2>2. \A t \in Txs : queue'[t] = IF t = w.id THEN <<>> ELSE queue[t]
    BY <1>6, <2>1 DEF CloseTx, ServerTypes
  <2>3. \A t \in Txs : \A v \in ToSet(queue'[t]) : v.by = t
    BY <2>2, EmptyFacts DEF ScopesAreSeparate
  <2> QED
    BY <1>6, <2>1, <2>2, <2>3 DEF CloseTx, ServerTypes
<1>7. CASE DropTx(w)
  BY <1>6, <1>7 DEF DropTx, ServerTypes, ScopesAreSeparate
<1>8. CASE CommitTx(w)
  <2>1. w.id \in Txs /\ w.id \in open /\ w.by \in Txs /\ queue[w.id] \in Seq(Requests)
    BY <1>8 DEF CommitTx, ServerTypes
  <2> DEFINE b == Batch(queue[w.id])
  <2>2. /\ b \in Seq(Entries)
        /\ Len(b) = Len(queue[w.id])
        /\ \A i \in 1 .. Len(queue[w.id]) : b[i] = Entry(queue[w.id][i], "exec")
    BY <2>1, BatchFacts
  <2>3. log' = log \o b
    BY <1>8 DEF CommitTx, Batch
  <2> HIDE DEF b
  <2>4. log' \in Seq(Entries) /\ ToSet(log') = ToSet(log) \cup ToSet(b)
    BY <2>2, <2>3, ConcatFacts DEF ServerTypes
  <2>5. ASSUME NEW e \in ToSet(b)
        PROVE  e.via = "exec" /\ e.tag[1] = w.id /\ w.id # Base
    <3>1. PICK i \in 1 .. Len(queue[w.id]) : e = Entry(queue[w.id][i], "exec")
      BY <2>2, <2>5, RangeFacts DEF ToSet
    <3>2. queue[w.id][i].by = w.id
      BY <2>1, RangeFacts DEF ScopesAreSeparate
    <3> QED
      BY <2>1, <3>1, <3>2, TransactionAssumption DEF Entry, Tag
  <2>6. dirty' \subseteq Txs
    BY <1>8 DEF CommitTx, ServerTypes, Touched
  <2>7. CloseTx(w.id)
    BY <1>8 DEF CommitTx
  <2>8. \A e \in ToSet(log') : e.via = IF e.tag[1] = Base THEN "direct" ELSE "exec"
    BY <2>4, <2>5 DEF ScopesAreSeparate
  <2> QED
    BY <1>6, <2>1, <2>4, <2>6, <2>7, <2>8 DEF ServerTypes, ScopesAreSeparate
<1>9. CASE Refuse(w)
  BY <1>9 DEF Refuse, server, ServerTypes, ScopesAreSeparate
<1> QED
  BY <1>1, <1>2, <1>3, <1>4, <1>5, <1>7, <1>8, <1>9 DEF Handle

(* The results of EXEC. *)
TagsOf(q) == [i \in 1 .. Len(q) |-> Tag(q[i])]

(* What a genuine request is answered. *)
LEMMA ReplyFacts ==
    ASSUME NEW w \in Requests, Genuine(w)
    PROVE  /\ w.form = "direct" => ReplyTo(w) = Ok
           /\ w.form = "txqueue" => ReplyTo(w) = IF w.id \in open THEN Queued ELSE Error
           /\ w.verb \in {"multi", "watch", "unwatch"} => ReplyTo(w) = IF w.id \in open THEN Error ELSE Ok
           /\ w.verb = "discard" => ReplyTo(w) = IF w.id \in open THEN Ok ELSE Error
           /\ w.verb = "exec" => ReplyTo(w) = IF w.id \notin open THEN Error
                                              ELSE IF w.id \in dirty THEN Null
                                              ELSE Array(TagsOf(queue[w.id]))
BY GenuineFacts DEF ReplyTo, TagsOf

(* The results of EXEC name the queued writes. *)
LEMMA TagsOfFacts ==
    ASSUME NEW q \in Seq(Requests)
    PROVE  /\ TagsOf(q) \in Seq(Tags)
           /\ Len(TagsOf(q)) = Len(q)
           /\ \A i \in 1 .. Len(q) : TagsOf(q)[i] = Tag(q[i])
           /\ ToSet(TagsOf(q)) = {Tag(w) : w \in ToSet(q)}
<1>1. \A i \in 1 .. Len(q) : q[i] \in Requests
  OBVIOUS
<1>2. \A i \in 1 .. Len(q) : Tag(q[i]) \in Tags
  BY <1>1 DEF Tag, Tags, Requests
<1>3. /\ TagsOf(q) \in Seq(Tags)
      /\ Len(TagsOf(q)) = Len(q)
      /\ \A i \in 1 .. Len(q) : TagsOf(q)[i] = Tag(q[i])
  BY <1>2 DEF TagsOf
<1>4. DOMAIN q = 1 .. Len(q) /\ DOMAIN TagsOf(q) = 1 .. Len(q)
  BY DEF TagsOf
<1>5. ToSet(TagsOf(q)) = {Tag(w) : w \in ToSet(q)}
  <2>1. \A x \in ToSet(TagsOf(q)) : \E w \in ToSet(q) : x = Tag(w)
    BY <1>3, <1>4 DEF ToSet
  <2>2. \A w \in ToSet(q) : Tag(w) \in ToSet(TagsOf(q))
    BY <1>3, <1>4 DEF ToSet
  <2> QED
    BY <2>1, <2>2
<1> QED
  BY <1>3, <1>5

(* The server has a reply to every genuine request. *)
LEMMA ReplyType ==
    ASSUME ServerTypes, NEW w \in Requests, Genuine(w)
    PROVE  ReplyTo(w) \in Replies
<1>1. w.verb = "exec" /\ w.id \in open => Array(TagsOf(queue[w.id])) \in Replies
  BY TagsOfFacts DEF ServerTypes, Array, Replies
<1>2. w.form \in {"direct", "txqueue"} \/ w.verb \in Control
  BY DEF Genuine, Requests
<1>3. {Ok, Queued, Error, Null} \subseteq Replies
  BY DEF Replies
<1> QED
  BY <1>1, <1>2, <1>3, ReplyFacts DEF Control

(* Executing the request of a call in progress. *)
LEMMA RunFacts ==
    ASSUME Scoped, NEW c \in Clients, Run(c)
    PROVE  /\ call[c] \in Calls /\ call[c].wire \in Requests /\ Genuine(call[c].wire)
           /\ \E seen \in {ReplyTo(call[c].wire), call[c].reply} \ {NoReply} :
                 /\ seen \in Replies
                 /\ call' = [call EXCEPT ![c] = [call[c] EXCEPT !.runs = call[c].runs + 1, !.reply = seen]]
           /\ call'[c] \in Calls
           /\ call[c].runs < MaxExecutions
           /\ call'[c].runs = call[c].runs + 1
           /\ call'[c].wire = call[c].wire /\ call'[c].verb = call[c].verb /\ call'[c].key = call[c].key
           /\ call'[c].forbids = call[c].forbids
           /\ call'[c].reply \in {ReplyTo(call[c].wire), call[c].reply}
           /\ \A d \in Clients \ {c} : call'[d] = call[d]
           /\ call' \in [Clients -> {Quiet} \cup Calls]
           /\ call'[c] # Quiet
<1>1. call[c] # Quiet /\ call[c].runs < MaxExecutions
  BY DEF Run
<1>2. call[c] \in Calls /\ call[c].wire \in Requests /\ call[c].reply \in Replies
  BY <1>1 DEF Scoped, TypeOK, Calls
<1>3. Genuine(call[c].wire)
  BY <1>1 DEF Scoped, RequestsAreGenuine
<1>4. ReplyTo(call[c].wire) \in Replies
  BY <1>2, <1>3, ReplyType DEF Scoped, TypeOK, ServerTypes
<1>5. PICK seen \in {ReplyTo(call[c].wire), call[c].reply} \ {NoReply} :
        call' = [call EXCEPT ![c].runs = @ + 1, ![c].reply = seen]
  BY DEF Run
<1>6. seen \in Replies
  BY <1>2, <1>4
<1> DEFINE after == [call[c] EXCEPT !.runs = call[c].runs + 1, !.reply = seen]
<1>7. call \in [Clients -> {Quiet} \cup Calls]
  BY DEF Scoped, TypeOK
<1>8. call' = [call EXCEPT ![c] = after]
  BY <1>2, <1>5, <1>7 DEF Calls
<1>9. /\ after \in Calls
      /\ after.runs = call[c].runs + 1 /\ after.reply = seen
      /\ after.wire = call[c].wire /\ after.verb = call[c].verb /\ after.key = call[c].key
      /\ after.forbids = call[c].forbids
  <2>1. call[c].runs + 1 \in 0 .. MaxExecutions
    BY <1>1, <1>2, TransactionAssumption DEF Calls
  <2> QED
    BY <1>2, <1>6, <2>1 DEF Calls
<1>10. call'[c] = after /\ (\A d \in Clients \ {c} : call'[d] = call[d]) /\ DOMAIN call' = Clients
  BY <1>7, <1>8
<1>11. call' \in [Clients -> {Quiet} \cup Calls]
  BY <1>7, <1>8, <1>9
<1>12. after # Quiet
  BY <1>9 DEF Calls, Quiet, Control, Plain
<1> HIDE DEF after
<1>13. \E s \in {ReplyTo(call[c].wire), call[c].reply} \ {NoReply} :
        /\ s \in Replies
        /\ call' = [call EXCEPT ![c] = [call[c] EXCEPT !.runs = call[c].runs + 1, !.reply = s]]
  BY <1>6, <1>8 DEF after
<1> QED
  BY <1>1, <1>2, <1>3, <1>9, <1>10, <1>11, <1>12, <1>13

(* What a call that was just made looks like. *)
LEMMA IssueFacts ==
    ASSUME Scoped, NEW c \in Clients, NEW verb \in Control \cup Plain, NEW key \in Keys,
           Issue(c, verb, key)
    PROVE  /\ call[c] = Quiet
           /\ said' = [said EXCEPT ![c] = @ \cup ({verb} \cap Control)]
           /\ begun' = IF verb = "multi" THEN [begun EXCEPT ![c] = @ + 1] ELSE begun
           /\ verb = "multi" => c \in Txs
           /\ issued' = [issued EXCEPT ![c] = @ + 1] /\ issued[c] + 1 <= MaxOps[c]
           /\ UNCHANGED <<txClientID, stray, server, history>>
           /\ \/ call' = call
              \/ \E w \in Requests :
                    /\ Genuine(w)' /\ w.by = c /\ w.verb = verb /\ w.key = key
                    /\ call' = [call EXCEPT ![c] = [verb |-> verb, key |-> key, wire |-> w, runs |-> 0,
                                                    reply |-> NoReply,
                                                    forbids |-> Forbidden(c, verb, key)]]
<1>1. /\ call[c] = Quiet /\ issued[c] < MaxOps[c]
      /\ c \in Txs => txClientID[c] = c
      /\ c = Base => verb \in Plain
      /\ begun' = IF verb = "multi" THEN [begun EXCEPT ![c] = @ + 1] ELSE begun
      /\ said' = [said EXCEPT ![c] = @ \cup ({verb} \cap Control)]
      /\ issued' = [issued EXCEPT ![c] = @ + 1]
      /\ UNCHANGED <<txClientID, stray, server, history>>
  BY DEF Issue
<1>0. PICK w : w = mapCommandToWire(c, verb, key)
  OBVIOUS
<1>2. /\ issued[c] \in Nat /\ issued[c] + 1 \in Nat /\ MaxOps[c] \in Nat
      /\ said \in [Clients -> SUBSET Control]
  BY TransactionAssumption DEF Scoped, TypeOK
<1>3. /\ w.by = c /\ w.verb = verb /\ w.key = key
      /\ w.form # "refused" => w \in Requests /\ Genuine(w)'
  <2>1. said'[c] = said[c] \cup ({verb} \cap Control)
    BY <1>1, <1>2
  <2>2. CASE verb \in Control
    <3>1. c \in Txs /\ w = [form |-> "control", id |-> c, verb |-> verb, key |-> key, by |-> c, n |-> issued[c] + 1]
      BY <1>0, <1>1, <2>2 DEF mapCommandToWire, Wire, Control, Plain, Clients
    <3> QED
      BY <1>2, <2>1, <2>2, <3>1 DEF Requests, Genuine, Clients
  <2>3. CASE verb \notin Control /\ txClientID[c] = NoTx
    <3>1. c = Base /\ w = [form |-> "direct", id |-> NoTx, verb |-> verb, key |-> key, by |-> c, n |-> issued[c] + 1]
      BY <1>0, <1>1, <2>3, TransactionAssumption DEF mapCommandToWire, Wire, Clients
    <3> QED
      BY <1>2, <2>3, <3>1 DEF Requests, Genuine, Clients
  <2>4. CASE verb \notin Control /\ txClientID[c] # NoTx /\ verb = "write"
    <3>1. /\ c \in Txs
          /\ w = [form |-> "txqueue", id |-> c, verb |-> verb, key |-> key, by |-> c, n |-> issued[c] + 1]
      BY <1>0, <1>1, <2>4 DEF mapCommandToWire, Wire, Clients, Scoped, OwnId
    <3> QED
      BY <1>2, <2>4, <3>1 DEF Requests, Genuine, Clients
  <2>5. CASE verb \notin Control /\ txClientID[c] # NoTx /\ verb # "write"
    BY <1>0, <2>5 DEF mapCommandToWire, Wire
  <2> QED
    BY <2>2, <2>3, <2>4, <2>5
<1>4. call' = IF w.form = "refused"
              THEN call
              ELSE [call EXCEPT ![c] = [verb |-> verb, key |-> key, wire |-> w, runs |-> 0,
                                        reply |-> NoReply, forbids |-> Forbidden(c, verb, key)]]
  BY <1>0 DEF Issue
<1>5. issued[c] + 1 <= MaxOps[c] /\ (verb = "multi" => c \in Txs)
  BY <1>1, <1>2 DEF Clients, Plain
<1>6. CASE w.form = "refused"
  BY <1>1, <1>4, <1>5, <1>6
<1>7. CASE w.form # "refused"
  <2>1. /\ w \in Requests /\ Genuine(w)' /\ w.by = c /\ w.verb = verb /\ w.key = key
        /\ call' = [call EXCEPT ![c] = [verb |-> verb, key |-> key, wire |-> w, runs |-> 0,
                                        reply |-> NoReply, forbids |-> Forbidden(c, verb, key)]]
    BY <1>3, <1>4, <1>7
  <2> QED
    BY <1>1, <1>5, <2>1
<1> QED
  BY <1>6, <1>7

(* A call ends: its request may stay in flight. *)
LEMMA EndFacts ==
    ASSUME Scoped, NEW c \in Clients, Return(c) \/ Fail(c)
    PROVE  /\ call[c] # Quiet /\ call[c] \in Calls
           /\ call' = [call EXCEPT ![c] = Quiet] /\ call' \in [Clients -> {Quiet} \cup Calls]
           /\ call'[c] = Quiet /\ \A d \in Clients \ {c} : call'[d] = call[d]
           /\ \/ stray' = stray
              \/ stray' = stray \cup Copies(c)
           /\ Copies(c) \subseteq [wire : {call[c].wire}, copy : 1 .. MaxExecutions]
           /\ UNCHANGED <<txClientID, issued, said, begun, server>>
<1>1. /\ call[c] # Quiet /\ call' = [call EXCEPT ![c] = Quiet]
      /\ UNCHANGED <<txClientID, issued, said, begun, server>>
      /\ stray' \in Strays(c)
  BY DEF Return, Fail
<1>2. call \in [Clients -> {Quiet} \cup Calls]
  BY DEF Scoped, TypeOK
<1>3. call[c] \in Calls
  BY <1>1, <1>2
<1>4. Copies(c) \subseteq [wire : {call[c].wire}, copy : 1 .. MaxExecutions]
  BY <1>3 DEF Copies, Calls
<1> QED
  BY <1>1, <1>2, <1>3, <1>4 DEF Strays

(* What a caller learns from a reply keeps its type. *)
LEMMA LearnTypes ==
    ASSUME Scoped, NEW c \in Clients, Return(c)
    PROVE  /\ acked' \in [Txs -> Seq(Tags)]
           /\ guarded' \in [Txs -> SUBSET Keys]
           /\ conflicts' \subseteq Txs
           /\ outcome' \in [Txs -> [kind : {"none", "success", "aborted", "discarded"}, results : Seq(Tags)]]
           /\ ended' \in [Txs -> Nat]
<1> DEFINE w == call[c].wire
           r == call[c].reply
<1>1. /\ call[c] \in Calls /\ w \in Requests /\ r \in Replies /\ call[c].key \in Keys
      /\ call[c].forbids \subseteq Txs /\ Genuine(w) /\ w.by = c
  BY EndFacts DEF Scoped, RequestsAreGenuine, Calls
<1>2. Learn(c, w, r)
  BY DEF Return
<1>3. /\ acked \in [Txs -> Seq(Tags)] /\ guarded \in [Txs -> SUBSET Keys] /\ conflicts \subseteq Txs
      /\ outcome \in [Txs -> [kind : {"none", "success", "aborted", "discarded"}, results : Seq(Tags)]]
      /\ ended \in [Txs -> Nat]
  BY DEF Scoped, TypeOK
<1>4. w.verb \notin {"write", "read"} => c \in Txs
  BY <1>1, GenuineFacts
<1>5. Tag(w) \in Tags
  BY <1>1 DEF Tag, Tags, Requests
<1>6. execOutcome(r) \in [kind : {"none", "success", "aborted", "discarded"}, results : Seq(Tags)]
  <2>1. r.kind = "array" => r.results \in Seq(Tags)
    BY <1>1 DEF Replies, Ok, Queued, Error, Null, NoReply
  <2> QED
    BY <2>1, EmptyFacts DEF execOutcome, Ended
<1>7. Ended("discarded", <<>>) \in [kind : {"none", "success", "aborted", "discarded"}, results : Seq(Tags)]
  BY EmptyFacts DEF Ended
<1> HIDE DEF w, r
<1>8. acked' \in [Txs -> Seq(Tags)]
  BY <1>2, <1>3, <1>5, AppendFacts DEF Learn
<1>9. guarded' \in [Txs -> SUBSET Keys]
  BY <1>1, <1>2, <1>3, <1>4 DEF Learn
<1>10. conflicts' \subseteq Txs
  BY <1>1, <1>2, <1>3 DEF Learn
<1>11. outcome' \in [Txs -> [kind : {"none", "success", "aborted", "discarded"}, results : Seq(Tags)]]
  BY <1>2, <1>3, <1>4, <1>6, <1>7 DEF Learn
<1>12. ended' \in [Txs -> Nat]
  BY <1>2, <1>3, <1>4 DEF Learn, Concludes
<1> QED
  BY <1>8, <1>9, <1>10, <1>11, <1>12

(* A request stays genuine: the scopes never forget a command. *)
LEMMA GenuineStays ==
    ASSUME TypeOK, Next, NEW w, Genuine(w), w \in Requests
    PROVE  Genuine(w)'
<1>1. \A c \in Clients : said[c] \subseteq said'[c]
  <2>1. CASE UNCHANGED said
    BY <2>1
  <2>2. ASSUME NEW c \in Clients, NEW verb, said' = [said EXCEPT ![c] = @ \cup ({verb} \cap Control)]
        PROVE  \A d \in Clients : said[d] \subseteq said'[d]
    BY <2>2 DEF TypeOK
  <2> QED
    BY <2>1, <2>2 DEF Next, Begin, Issue, Return, Fail, Run, RunStray
<1> QED
  BY <1>1, TransactionAssumption DEF Genuine, Requests

(* No step lets a command out of its scope. *)
LEMMA ScopedStep == Scoped /\ [Next]_vars => Scoped'
<1> SUFFICES ASSUME Scoped, [Next]_vars
             PROVE  Scoped'
  OBVIOUS
<1>0. TypeOK /\ ServerTypes /\ ScopesAreSeparate /\ OwnId /\ RequestsAreGenuine /\ MultisCounted
  BY DEF Scoped, TypeOK, ServerTypes
<1>1. ASSUME NEW t \in Txs, Begin(t)
      PROVE  Scoped'
  <2>1. t # Base /\ t \in Clients
    BY TransactionAssumption DEF Clients
  <2>2. txClientID' = [txClientID EXCEPT ![t] = t] /\ UNCHANGED <<call, stray, issued, said, begun, server, history>>
    BY <1>1 DEF Begin, scope
  <2>3. TypeOK'
    BY <1>0, <2>1, <2>2 DEF TypeOK, server, history
  <2>4. OwnId'
    BY <1>0, <2>1, <2>2 DEF OwnId, TypeOK, Clients
  <2>5. RequestsAreGenuine' /\ ScopesAreSeparate' /\ MultisCounted'
    BY <1>0, <2>2 DEF RequestsAreGenuine, Genuine, ScopesAreSeparate, MultisCounted, server
  <2> QED
    BY <2>3, <2>4, <2>5 DEF Scoped
<1>2. ASSUME NEW c \in Clients, NEW verb \in Control \cup Plain, NEW key \in Keys, Issue(c, verb, key), Next
      PROVE  Scoped'
  <2>1. /\ said' = [said EXCEPT ![c] = @ \cup ({verb} \cap Control)]
        /\ begun' = IF verb = "multi" THEN [begun EXCEPT ![c] = @ + 1] ELSE begun
        /\ verb = "multi" => c \in Txs
        /\ issued' = [issued EXCEPT ![c] = @ + 1] /\ issued[c] + 1 <= MaxOps[c]
        /\ UNCHANGED <<txClientID, stray, server, history>>
    BY <1>2, IssueFacts
  <2>2. ASSUME call' \in [Clients -> {Quiet} \cup Calls],
               \A d \in Clients : call'[d] # Quiet =>
                   /\ Genuine(call[d].wire)'
                   /\ call'[d].wire.by = d
                   /\ call'[d].wire.verb = call'[d].verb
                   /\ call'[d].wire.key = call'[d].key
        PROVE  Scoped'
    <3>1. TypeOK'
      <4>1. said' \in [Clients -> SUBSET Control]
        BY <1>0, <2>1 DEF TypeOK
      <4>2. issued' \in [Clients -> Nat] /\ \A d \in Clients : issued'[d] <= MaxOps[d]
        BY <1>0, <2>1 DEF TypeOK
      <4>3. begun' \in [Txs -> Nat]
        BY <1>0, <2>1 DEF TypeOK
      <4> QED
        BY <1>0, <2>1, <2>2, <4>1, <4>2, <4>3 DEF TypeOK, server, history
    <3>2. \A s \in stray : \A w : w = s.wire => Genuine(w)'
      BY <1>0, <1>2, GenuineStays DEF RequestsAreGenuine, TypeOK
    <3>3. RequestsAreGenuine' /\ OwnId' /\ ScopesAreSeparate'
      BY <1>0, <2>1, <2>2, <3>2 DEF RequestsAreGenuine, OwnId, ScopesAreSeparate, server
    <3>4. MultisCounted'
      BY <1>0, <2>1 DEF MultisCounted, TypeOK, Clients
    <3> QED
      BY <3>1, <3>3, <3>4 DEF Scoped
  <2>3. ASSUME NEW d \in Clients, call[d] # Quiet
        PROVE  \A w : w = call[d].wire => Genuine(w)' /\ w.by = d /\ w.verb = call[d].verb /\ w.key = call[d].key
    BY <1>0, <1>2, <2>3, GenuineStays DEF RequestsAreGenuine, TypeOK, Calls
  <2>4. CASE call' = call
    <3>1. \A d \in Clients : call'[d] # Quiet => \A w : w = call'[d].wire => Genuine(w)'
      BY <2>3, <2>4
    <3>2. \A d \in Clients : call'[d] # Quiet => Genuine(call[d].wire)'
      BY <3>1 DEF Genuine
    <3> QED
      BY <1>0, <2>2, <2>3, <2>4, <3>2 DEF TypeOK
  <2>5. ASSUME NEW w \in Requests, Genuine(w)', w.by = c, w.verb = verb, w.key = key,
               call' = [call EXCEPT ![c] = [verb |-> verb, key |-> key, wire |-> w, runs |-> 0,
                                            reply |-> NoReply, forbids |-> Forbidden(c, verb, key)]]
        PROVE  Scoped'
    <3> DEFINE made == [verb |-> verb, key |-> key, wire |-> w, runs |-> 0,
                        reply |-> NoReply, forbids |-> Forbidden(c, verb, key)]
    <3>1. made \in Calls
      BY TransactionAssumption DEF Calls, Replies, Forbidden
    <3>2. made.wire = w /\ made.verb = verb /\ made.key = key
      OBVIOUS
    <3>3. call \in [Clients -> {Quiet} \cup Calls] /\ call' = [call EXCEPT ![c] = made]
      BY <1>0, <2>5 DEF TypeOK
    <3> HIDE DEF made
    <3>4. call' \in [Clients -> {Quiet} \cup Calls]
      BY <3>1, <3>3
    <3>5. \A d \in Clients : call'[d] = IF d = c THEN made ELSE call[d]
      BY <3>3
    <3>6. \A d \in Clients : call'[d] # Quiet => \A v : v = call'[d].wire => Genuine(v)'
      BY <2>3, <2>5, <3>2, <3>5
    <3>7. \A d \in Clients : call'[d] # Quiet => Genuine(call[d].wire)'
      BY <3>6 DEF Genuine
    <3> QED
      BY <2>2, <2>3, <2>5, <3>2, <3>4, <3>5, <3>7
  <2> QED
    BY <1>2, <2>4, <2>5, IssueFacts
<1>3. ASSUME NEW c \in Clients, Return(c) \/ Fail(c)
      PROVE  Scoped'
  <2>1. /\ acked' \in [Txs -> Seq(Tags)]
        /\ guarded' \in [Txs -> SUBSET Keys]
        /\ conflicts' \subseteq Txs
        /\ outcome' \in [Txs -> [kind : {"none", "success", "aborted", "discarded"}, results : Seq(Tags)]]
        /\ ended' \in [Txs -> Nat]
    <3>1. CASE Return(c)
      BY <3>1, LearnTypes
    <3>2. CASE Fail(c)
      BY <1>0, <3>2 DEF Fail, TypeOK, history
    <3> QED
      BY <1>3, <3>1, <3>2
  <2>2. /\ call[c] # Quiet /\ call[c] \in Calls /\ call[c].wire \in Requests
        /\ call' \in [Clients -> {Quiet} \cup Calls]
        /\ call'[c] = Quiet /\ \A d \in Clients \ {c} : call'[d] = call[d]
        /\ stray' = stray \/ stray' = stray \cup Copies(c)
        /\ Copies(c) \subseteq [wire : {call[c].wire}, copy : 1 .. MaxExecutions]
        /\ UNCHANGED <<txClientID, issued, said, begun, server>>
    BY <1>3, EndFacts DEF Calls
  <2>3. TypeOK'
    BY <1>0, <2>1, <2>2 DEF TypeOK, server
  <2>4. RequestsAreGenuine'
    BY <1>0, <2>2 DEF RequestsAreGenuine, Genuine
  <2>5. OwnId' /\ ScopesAreSeparate' /\ MultisCounted'
    BY <1>0, <2>2 DEF OwnId, ScopesAreSeparate, MultisCounted, server
  <2> QED
    BY <2>3, <2>4, <2>5 DEF Scoped
<1>4. ASSUME NEW c \in Clients, Run(c)
      PROVE  Scoped'
  <2>1. /\ call[c] # Quiet
        /\ Handle(call[c].wire) /\ UNCHANGED <<txClientID, stray, issued, said, begun, history>>
    BY <1>4 DEF Run
  <2>2. /\ call[c] \in Calls /\ call[c].wire \in Requests /\ Genuine(call[c].wire)
        /\ call'[c].wire = call[c].wire /\ call'[c].verb = call[c].verb /\ call'[c].key = call[c].key
        /\ \A d \in Clients \ {c} : call'[d] = call[d]
        /\ call' \in [Clients -> {Quiet} \cup Calls]
    BY <1>4, RunFacts
  <2>3. ServerTypes' /\ ScopesAreSeparate'
    BY <1>0, <2>1, <2>2, HandleScoped
  <2>4. TypeOK'
    BY <1>0, <2>1, <2>2, <2>3 DEF TypeOK, ServerTypes, history
  <2>5. RequestsAreGenuine' /\ OwnId' /\ MultisCounted'
    BY <1>0, <2>1, <2>2 DEF RequestsAreGenuine, Genuine, OwnId, MultisCounted
  <2> QED
    BY <2>3, <2>4, <2>5 DEF Scoped
<1>5. CASE RunStray
  <2>1. PICK s \in stray : Handle(s.wire) /\ stray' = stray \ {s}
                           /\ UNCHANGED <<txClientID, call, issued, said, begun, history>>
    BY <1>5 DEF RunStray
  <2>2. ServerTypes' /\ ScopesAreSeparate'
    BY <1>0, <2>1, HandleScoped DEF RequestsAreGenuine, TypeOK
  <2>3. TypeOK'
    BY <1>0, <2>1, <2>2 DEF TypeOK, ServerTypes, history
  <2>4. RequestsAreGenuine' /\ OwnId' /\ MultisCounted'
    BY <1>0, <2>1 DEF RequestsAreGenuine, Genuine, OwnId, MultisCounted
  <2> QED
    BY <2>2, <2>3, <2>4 DEF Scoped
<1>6. CASE UNCHANGED vars
  BY <1>0, <1>6 DEF vars, server, history, Scoped, TypeOK, OwnId, RequestsAreGenuine, Genuine, ScopesAreSeparate, MultisCounted
<1> QED
  BY <1>1, <1>2, <1>3, <1>4, <1>5, <1>6 DEF Next

(* Scoped holds in every reachable state. *)
LEMMA ScopedInvariant == Spec => []Scoped
<1>1. Init => Scoped
  <2> SUFFICES ASSUME Init
               PROVE  Scoped
    OBVIOUS
  <2>1. TypeOK
    BY EmptyFacts, TransactionAssumption DEF Init, TypeOK, Clients, Quiet
  <2>2. OwnId /\ MultisCounted
    BY DEF Init, OwnId, MultisCounted, Clients
  <2>3. RequestsAreGenuine
    BY DEF Init, RequestsAreGenuine
  <2>4. ScopesAreSeparate
    BY EmptyFacts DEF Init, ScopesAreSeparate
  <2> QED
    BY <2>1, <2>2, <2>3, <2>4 DEF Scoped
<1> QED
  BY <1>1, ScopedStep, PTL DEF Spec

(* The client objects, the requests in flight and the server's tables      *)
(* keep their types, for any number of scopes and however often a request  *)
(* is executed (transaction.go 34-50, client.go 414-439).                  *)
THEOREM TransactionTypeCorrect == Spec => []TypeOK
BY ScopedInvariant, PTL DEF Scoped

(* A command of a Tx is only ever applied by its own EXEC and a command of *)
(* the plain client only ever directly, for any number of scopes, with     *)
(* lost, late and repeated requests (scope, transaction.go 81-87;          *)
(* mapCommandToWire, client.go 414-439).                                   *)
THEOREM ScopesStaySeparate == Spec => []ScopesAreSeparate
BY ScopedInvariant, PTL DEF Scoped

-----------------------------------------------------------------------------
(* Outcomes: a transaction on which Multi is called once is opened once    *)
(* when requests are executed once                                         *)

(* The verbs that close a transaction. *)
Closers == {"exec", "discard"}

(* Request w is a MULTI of t. *)
OpensTx(w, t) == w.by = t /\ w.verb = "multi"

(* A MULTI of t that can still be executed. *)
MultiAhead(t) ==
    \/ \E s \in stray : OpensTx(s.wire, t)
    \/ call[t] # Quiet /\ call[t].verb = "multi" /\ call[t].runs = 0

(* Transaction t was opened and closed, and can never be opened again. *)
Finished(t) == t \notin open /\ "multi" \in said[t] /\ ~MultiAhead(t)

(* No two MULTIs of a scope, and none ahead once it is open. *)
OpenedOnce ==
    \A t \in Txs : SingleUse(t) =>
        /\ \A r, s \in stray : OpensTx(r.wire, t) /\ OpensTx(s.wire, t) => r = s
        /\ call[t] # Quiet /\ call[t].verb = "multi"
               => \A s \in stray : ~OpensTx(s.wire, t)
        /\ t \in open => "multi" \in said[t] /\ ~MultiAhead(t)

(* The writes whose caller was told, or is being told, they are queued. *)
Telling(t) == IF call[t] # Quiet /\ call[t].reply = Queued THEN {Tag(call[t].wire)} ELSE {}
Told(t)    == ToSet(acked[t]) \cup Telling(t)

(* The writes in the queue of t. *)
QueuedTags(t) == {Tag(w) : w \in ToSet(queue[t])}

(* Until t is closed nothing of it is applied, and every write that was    *)
(* acknowledged is in its queue.                                           *)
NothingYet ==
    \A t \in Txs : SingleUse(t) /\ ~Finished(t) =>
        Applied(t) = {} /\ Told(t) \subseteq QueuedTags(t)

(* Results s tell what transaction t did. *)
Committed(t, s) ==
    /\ Finished(t)
    /\ AppliedAsBlock(t, s)
    /\ Told(t) \subseteq ToSet(s)

(* Transaction t did nothing and never will. *)
Abandoned(t) == Finished(t) /\ Applied(t) = {}

(* The server's reply is true when it is given and stays true while it     *)
(* travels and once it was reported.                                       *)
RepliesAreTrue ==
    \A t \in Txs : SingleUse(t) /\ call[t] # Quiet =>
        /\ call[t].verb = "exec" /\ call[t].reply.kind = "array" => Committed(t, call[t].reply.results)
        /\ call[t].verb = "exec" => call[t].reply \notin {Ok, Queued}
        /\ call[t].verb = "exec" /\ call[t].reply = Null => Abandoned(t)
        /\ call[t].verb = "discard" /\ call[t].reply = Ok => Abandoned(t)

(* The same of what was reported to the callers. *)
OutcomesAreTrue ==
    \A t \in Txs : SingleUse(t) =>
        /\ outcome[t].kind = "success" => Committed(t, outcome[t].results)
        /\ outcome[t].kind \in {"aborted", "discarded"} => Abandoned(t)

(* The invariant for the outcomes. *)
Reported == OpenedOnce /\ NothingYet /\ RepliesAreTrue /\ OutcomesAreTrue

-----------------------------------------------------------------------------
(* What executing one request can do to transaction t *)

(* Only t's own MULTI opens it; only its EXEC or DISCARD closes it. *)
LEMMA OpenEffect ==
    ASSUME ServerTypes, NEW w \in Requests, Genuine(w), Handle(w), NEW t \in Txs
    PROVE  /\ t \in open' /\ t \notin open => w.by = t /\ w.verb = "multi"
           /\ t \in open /\ t \notin open' => w.by = t /\ w.verb \in Closers
           /\ w.by = t /\ w.verb \in Closers => t \notin open'
<1> USE GenuineFacts
<1>1. CASE Apply(w) \/ Enqueue(w)
  BY <1>1 DEF Apply, Enqueue, Closers
<1>2. CASE OpenTx(w) \/ WatchKey(w) \/ UnwatchKeys(w)
  BY <1>2 DEF OpenTx, WatchKey, UnwatchKeys, Closers
<1>3. CASE DropTx(w) \/ CommitTx(w)
  BY <1>3 DEF DropTx, CommitTx, CloseTx, Closers
<1>4. CASE Refuse(w)
  <2>1. w.by = t /\ w.verb \in Closers => w.id = t /\ t \notin open
    BY <1>4, ReplyFacts DEF Refuse, Error, Ok, Null, Array, Closers
  <2> QED
    BY <1>4, <2>1 DEF Refuse, server
<1> QED
  BY <1>1, <1>2, <1>3, <1>4 DEF Handle

(* An open transaction's queue only grows. *)
LEMMA QueueEffect ==
    ASSUME ServerTypes, NEW w \in Requests, Genuine(w), Handle(w), NEW t \in Txs
    PROVE  /\ t \notin open => QueuedTags(t) = {}
           /\ t \in open' => QueuedTags(t) \subseteq QueuedTags(t)'
           /\ w.form = "txqueue" /\ w.by = t /\ t \in open => t \in open' /\ Tag(w) \in QueuedTags(t)'
<1> USE GenuineFacts
<1>1. t \notin open => QueuedTags(t) = {}
  BY EmptyFacts DEF ServerTypes, QueuedTags
<1>2. CASE Enqueue(w)
  <2>1. w.by \in open /\ w.by = w.id /\ queue' = [queue EXCEPT ![w.id] = Append(queue[w.id], w)] /\ open' = open
    BY <1>2 DEF Enqueue
  <2>2. w.by \in Txs /\ queue[w.by] \in Seq(Requests)
    BY <2>1 DEF ServerTypes
  <2>3. ToSet(Append(queue[w.by], w)) = ToSet(queue[w.by]) \cup {w}
    BY <2>2, AppendFacts
  <2>4. queue'[t] = IF t = w.by THEN Append(queue[w.by], w) ELSE queue[t]
    BY <2>1, <2>2 DEF ServerTypes
  <2> QED
    BY <1>1, <2>1, <2>3, <2>4 DEF QueuedTags
<1>3. CASE Apply(w) \/ OpenTx(w) \/ WatchKey(w) \/ UnwatchKeys(w) \/ Refuse(w)
  <2>1. queue' = queue
    BY <1>3 DEF Apply, OpenTx, WatchKey, UnwatchKeys, Refuse, server
  <2>2. w.form = "txqueue" => ~(w.by = t /\ t \in open)
    BY <1>3, ReplyFacts DEF Apply, OpenTx, WatchKey, UnwatchKeys, Refuse, Queued, Error
  <2> QED
    BY <1>1, <2>1, <2>2 DEF QueuedTags
<1>4. CASE DropTx(w) \/ CommitTx(w)
  <2>1. w.id = w.by /\ w.form = "control" /\ open' = open \ {w.id} /\ queue' = [queue EXCEPT ![w.id] = <<>>]
    BY <1>4 DEF DropTx, CommitTx, CloseTx
  <2>2. t \in open' => queue'[t] = queue[t]
    BY <2>1 DEF ServerTypes
  <2> QED
    BY <1>1, <2>1, <2>2 DEF QueuedTags
<1> QED
  BY <1>2, <1>3, <1>4 DEF Handle

(* The log grows at its end by commands of the requester. *)
LEMMA LogEffect ==
    ASSUME ServerTypes, ScopesAreSeparate, NEW w \in Requests, Genuine(w), Handle(w)
    PROVE  /\ log' \in Seq(Entries) /\ Len(log) <= Len(log')
           /\ \A i \in 1 .. Len(log) : log'[i] = log[i]
           /\ \A i \in 1 .. Len(log') : i > Len(log) => log'[i].tag[1] = w.by
           /\ log' = log \/ w.by = Base \/ (w.verb = "exec" /\ w.by \in open /\ w.by \notin dirty)
           /\ w.verb = "exec" /\ w.by \in open /\ w.by \notin dirty =>
                 /\ Len(log') = Len(log) + Len(queue[w.by])
                 /\ \A i \in 1 .. Len(queue[w.by]) : log'[Len(log) + i].tag = TagsOf(queue[w.by])[i]
<1> USE GenuineFacts
<1>0. log \in Seq(Entries) /\ Len(log) \in Nat /\ w.by \in Clients /\ w.n \in Nat
  BY DEF ServerTypes, Requests
<1>1. CASE Apply(w)
  <2>1. Entry(w, "direct") \in Entries /\ Entry(w, "direct").tag[1] = w.by
    BY <1>0 DEF Entry, Tag, Tags, Entries
  <2>2. log' = Append(log, Entry(w, "direct")) /\ w.by = Base /\ w.verb # "exec"
    BY <1>1 DEF Apply
  <2>3. /\ log' \in Seq(Entries) /\ Len(log') = Len(log) + 1
        /\ \A i \in 1 .. Len(log) : log'[i] = log[i]
        /\ log'[Len(log) + 1] = Entry(w, "direct")
    BY <1>0, <2>1, <2>2, AppendFacts
  <2>4. \A i \in 1 .. Len(log') : i > Len(log) => i = Len(log) + 1
    BY <1>0, <2>3
  <2> QED
    BY <1>0, <2>1, <2>2, <2>3, <2>4
<1>2. CASE CommitTx(w)
  <2>1. /\ w.verb = "exec" /\ w.by = w.id /\ w.by \in open /\ w.by \notin dirty
        /\ w.by \in Txs /\ queue[w.by] \in Seq(Requests)
    BY <1>2 DEF CommitTx, ServerTypes
  <2> DEFINE q == queue[w.by]
             b == Batch(q)
  <2>2. log' = log \o b
    BY <1>2, <2>1 DEF CommitTx, Batch
  <2>3. b \in Seq(Entries) /\ Len(b) = Len(q) /\ \A i \in 1 .. Len(q) : b[i] = Entry(q[i], "exec")
    BY <2>1, BatchFacts
  <2>4. \A i \in 1 .. Len(q) : b[i].tag = TagsOf(q)[i] /\ b[i].tag[1] = w.by
    <3>1. \A i \in 1 .. Len(q) : q[i].by = w.by
      BY <2>1, RangeFacts DEF ScopesAreSeparate
    <3>2. \A i \in 1 .. Len(q) : TagsOf(q)[i] = Tag(q[i])
      BY <2>1, TagsOfFacts
    <3> HIDE DEF q, b
    <3>3. ASSUME NEW i \in 1 .. Len(q)
          PROVE  b[i].tag = TagsOf(q)[i] /\ b[i].tag[1] = w.by
      <4>1. b[i] = Entry(q[i], "exec")
        BY <2>3
      <4>2. Entry(q[i], "exec").tag = Tag(q[i]) /\ Tag(q[i])[1] = q[i].by
        BY DEF Entry, Tag
      <4> QED
        BY <3>1, <3>2, <4>1, <4>2
    <3> QED
      BY <3>3
  <2>5. Len(q) \in Nat
    BY <2>1
  <2> HIDE DEF q, b
  <2>6. /\ log' \in Seq(Entries) /\ Len(log') = Len(log) + Len(q)
        /\ \A i \in 1 .. Len(log) : log'[i] = log[i]
        /\ \A i \in 1 .. Len(q) : log'[Len(log) + i] = b[i]
    BY <1>0, <2>2, <2>3, ConcatFacts
  <2>7. ASSUME NEW i \in 1 .. Len(log'), i > Len(log)
        PROVE  log'[i].tag[1] = w.by
    <3>1. i - Len(log) \in 1 .. Len(q) /\ Len(log) + (i - Len(log)) = i
      BY <1>0, <2>5, <2>6, <2>7
    <3>2. log'[i] = b[i - Len(log)]
      BY <2>6, <3>1
    <3> QED
      BY <2>4, <3>1, <3>2
  <2>8. Len(log) <= Len(log')
    BY <1>0, <2>5, <2>6
  <2>9. \A i \in 1 .. Len(q) : log'[Len(log) + i].tag = TagsOf(q)[i]
    BY <2>4, <2>6
  <2> QED
    BY <2>1, <2>6, <2>7, <2>8, <2>9 DEF q
<1>3. CASE Enqueue(w) \/ OpenTx(w) \/ WatchKey(w) \/ UnwatchKeys(w) \/ DropTx(w) \/ Refuse(w)
  <2>1. log' = log
    BY <1>3 DEF Enqueue, OpenTx, WatchKey, UnwatchKeys, DropTx, Refuse, server
  <2>2. w.verb = "exec" => w.by \notin open \/ w.by \in dirty
    BY <1>3, ReplyFacts DEF Enqueue, OpenTx, WatchKey, UnwatchKeys, DropTx, Refuse, Error, Null, Array
  <2> QED
    BY <1>0, <2>1, <2>2
<1> QED
  BY <1>1, <1>2, <1>3 DEF Handle

(* Nothing of t is added to the log and nothing of it is changed. *)
LogKept(t) ==
    /\ Applied(t)' = Applied(t)
    /\ Len(log) <= Len(log')
    /\ \A i \in Applied(t) : log'[i] = log[i]

(* Only its own EXEC adds to the log for t. *)
LEMMA LogKeptUnless ==
    ASSUME ServerTypes, ScopesAreSeparate, NEW w \in Requests, Genuine(w), Handle(w), NEW t \in Txs
    PROVE  LogKept(t) \/ (w.by = t /\ w.verb = "exec" /\ t \in open /\ t \notin dirty)
<1> SUFFICES ASSUME ~(w.by = t /\ w.verb = "exec" /\ t \in open /\ t \notin dirty)
             PROVE  LogKept(t)
  OBVIOUS
<1>1. /\ log \in Seq(Entries) /\ log' \in Seq(Entries) /\ Len(log) <= Len(log')
      /\ \A i \in 1 .. Len(log) : log'[i] = log[i]
  BY LogEffect DEF ServerTypes
<1>2. DOMAIN log = 1 .. Len(log) /\ DOMAIN log' = 1 .. Len(log') /\ Len(log) \in Nat /\ Len(log') \in Nat
  BY <1>1
<1>3. \A i \in 1 .. Len(log') : i > Len(log) => log'[i].tag[1] # t
  <2>1. CASE w.by = t
    <3>1. log' = log
      BY <2>1, LogEffect, TransactionAssumption
    <3> QED
      BY <1>2, <3>1
  <2>2. CASE w.by # t
    BY <2>2, LogEffect
  <2> QED
    BY <2>1, <2>2
<1>4. Applied(t)' = Applied(t)
  BY <1>1, <1>2, <1>3 DEF Applied
<1> QED
  BY <1>1, <1>2, <1>4 DEF LogKept, Applied

(* A block stays where it is. *)
LEMMA BlockStays ==
    ASSUME NEW t, NEW s, log \in Seq(Entries), log' \in Seq(Entries), LogKept(t), AppliedAsBlock(t, s)
    PROVE  AppliedAsBlock(t, s)'
<1>1. PICK start \in 0 .. Len(log) :
        /\ Applied(t) = {start + i : i \in DOMAIN s}
        /\ \A i \in DOMAIN s : log[start + i].tag = s[i]
  BY DEF AppliedAsBlock
<1>2. start \in 0 .. Len(log')
  BY DEF LogKept
<1>3. \A i \in DOMAIN s : start + i \in Applied(t)
  BY <1>1
<1>4. \A i \in DOMAIN s : log'[start + i].tag = s[i]
  BY <1>1, <1>3 DEF LogKept
<1>5. Applied(t)' = {start + i : i \in DOMAIN s}
  BY <1>1 DEF LogKept
<1> QED
  BY <1>2, <1>4, <1>5 DEF AppliedAsBlock

(* EXEC leaves its queue in the log as a block. *)
LEMMA CommitBlock ==
    ASSUME ServerTypes, ScopesAreSeparate, NEW w \in Requests, Genuine(w), Handle(w),
           w.verb = "exec", w.by \in open, w.by \notin dirty, Applied(w.by) = {},
           NEW s, s = TagsOf(queue[w.by])
    PROVE  \E start \in 0 .. Len(log') :
              /\ Applied(w.by)' = {start + i : i \in DOMAIN s}
              /\ \A i \in DOMAIN s : log'[start + i].tag = s[i]
<1>1. queue[w.by] \in Seq(Requests) /\ log \in Seq(Entries)
  BY DEF ServerTypes
<1>2. s \in Seq(Tags) /\ Len(s) = Len(queue[w.by]) /\ DOMAIN s = 1 .. Len(s) /\ Len(s) \in Nat
  BY <1>1, TagsOfFacts
<1>3. /\ log' \in Seq(Entries) /\ Len(log') = Len(log) + Len(s)
      /\ \A i \in 1 .. Len(log) : log'[i] = log[i]
      /\ \A i \in 1 .. Len(s) : log'[Len(log) + i].tag = s[i]
      /\ \A i \in 1 .. Len(log') : i > Len(log) => log'[i].tag[1] = w.by
  BY <1>2, LogEffect
<1>4. DOMAIN log = 1 .. Len(log) /\ DOMAIN log' = 1 .. Len(log') /\ Len(log) \in Nat
  BY <1>1, <1>3
<1>5. ASSUME NEW i \in 1 .. Len(log')
      PROVE  log'[i].tag[1] = w.by <=> i > Len(log)
  BY <1>3, <1>4 DEF Applied
<1>6. Applied(w.by)' = {i \in 1 .. Len(log') : i > Len(log)}
  BY <1>4, <1>5 DEF Applied
<1>7. {i \in 1 .. Len(log') : i > Len(log)} = {Len(log) + i : i \in 1 .. Len(s)}
  <2>1. ASSUME NEW i \in 1 .. Len(log'), i > Len(log)
        PROVE  \E j \in 1 .. Len(s) : i = Len(log) + j
    <3>1. i - Len(log) \in 1 .. Len(s) /\ i = Len(log) + (i - Len(log))
      BY <1>2, <1>3, <1>4, <2>1
    <3> QED
      BY <3>1
  <2>2. \A j \in 1 .. Len(s) : Len(log) + j \in 1 .. Len(log') /\ Len(log) + j > Len(log)
    BY <1>2, <1>3, <1>4
  <2> QED
    BY <2>1, <2>2
<1>8. Len(log) \in 0 .. Len(log')
  BY <1>2, <1>3, <1>4
<1> QED
  BY <1>2, <1>3, <1>6, <1>7, <1>8

-----------------------------------------------------------------------------
(* What a step can do to transaction t when a request is executed once *)

(* The steps, with the request that is executed. *)
Executes(w) ==
    /\ Handle(w) /\ w \in Requests /\ Genuine(w)
    /\ UNCHANGED <<txClientID, issued, said, begun, history>>

(* Run executes the request of the call. *)
LEMMA RunExecutes ==
    ASSUME Scoped, NEW c \in Clients, Run(c)
    PROVE  Executes(call[c].wire) /\ stray' = stray
BY RunFacts DEF Run, Executes

(* RunStray executes a request left in flight and uses it up. *)
LEMMA StrayExecutes ==
    ASSUME Scoped, RunStray
    PROVE  \E s \in stray : Executes(s.wire) /\ stray' = stray \ {s} /\ call' = call
BY DEF RunStray, Executes, Scoped, RequestsAreGenuine, TypeOK

(* The parts of Scoped that most steps use. *)
LEMMA ScopedFacts ==
    ASSUME Scoped
    PROVE  /\ ServerTypes /\ ScopesAreSeparate
           /\ call \in [Clients -> {Quiet} \cup Calls]
           /\ said \in [Clients -> SUBSET Control]
           /\ begun \in [Txs -> Nat]
           /\ Txs \subseteq Clients
BY DEF Scoped, TypeOK, ServerTypes, Clients

(* Calls of Multi are only added. *)
LEMMA BegunGrows ==
    ASSUME Scoped, Next, NEW t \in Txs
    PROVE  /\ begun[t] \in Nat /\ begun'[t] \in Nat /\ begun[t] <= begun'[t]
           /\ SingleUse(t)' => SingleUse(t)
<1>1. begun \in [Txs -> Nat]
  BY ScopedFacts
<1>2. CASE UNCHANGED begun
  BY <1>1, <1>2 DEF SingleUse
<1>3. ASSUME NEW c \in Clients, NEW verb \in Control \cup Plain, NEW key \in Keys, Issue(c, verb, key)
      PROVE  begun'[t] \in Nat /\ begun[t] <= begun'[t]
  <2>1. begun' = begun \/ (c \in Txs /\ begun' = [begun EXCEPT ![c] = @ + 1])
    BY <1>3, IssueFacts
  <2> QED
    BY <1>1, <2>1
<1>4. begun'[t] \in Nat /\ begun[t] <= begun'[t]
  BY <1>1, <1>2, <1>3 DEF Next, Begin, Return, Fail, Run, RunStray
<1> QED
  BY <1>1, <1>4 DEF SingleUse

(* When a request is executed once, a call that ends leaves its request in *)
(* flight only if it was not executed yet.                                 *)
LEMMA StrayMoves ==
    ASSUME MaxExecutions = 1, Scoped, NEW c \in Clients, Return(c) \/ Fail(c)
    PROVE  \/ stray' = stray
           \/ /\ stray' = stray \cup {[wire |-> call[c].wire, copy |-> 1]}
              /\ call[c].runs = 0
<1>1. \/ call[c].runs = 0 /\ Copies(c) = {[wire |-> call[c].wire, copy |-> 1]}
      \/ Copies(c) = {}
  <2>1. call[c].runs \in {0, 1}
    BY EndFacts DEF Calls
  <2>2. CASE call[c].runs = 0
    <3>1. (call[c].runs + 1) .. MaxExecutions = {1}
      BY <2>2
    <3>2. Copies(c) = [wire : {call[c].wire}, copy : {1}]
      BY <3>1 DEF Copies
    <3>3. /\ \A s \in Copies(c) : s = [wire |-> call[c].wire, copy |-> 1]
          /\ [wire |-> call[c].wire, copy |-> 1] \in Copies(c)
      BY <3>2
    <3>4. Copies(c) = {[wire |-> call[c].wire, copy |-> 1]}
      BY <3>3
    <3> QED
      BY <2>2, <3>4
  <2>3. CASE call[c].runs = 1
    <3>1. (call[c].runs + 1) .. MaxExecutions = {}
      BY <2>3
    <3> QED
      BY <3>1 DEF Copies
  <2> QED
    BY <2>1, <2>2, <2>3
<1> QED
  BY <1>1, EndFacts

(* A MULTI gets ahead only by being issued, and opens only by being used   *)
(* up.                                                                     *)
LEMMA MultiMoves ==
    ASSUME MaxExecutions = 1, Scoped, OpenedOnce, Next, NEW t \in Txs, SingleUse(t)'
    PROVE  /\ said[t] \subseteq said'[t]
           /\ "multi" \in said[t] /\ MultiAhead(t)' => MultiAhead(t)
           /\ t \in open' /\ t \notin open => "multi" \in said[t] /\ MultiAhead(t) /\ ~MultiAhead(t)'
           /\ \A r, s \in stray' : OpensTx(r.wire, t) /\ OpensTx(s.wire, t) => r = s
           /\ call'[t] # Quiet /\ call'[t].verb = "multi"
                  => \A s \in stray' : ~OpensTx(s.wire, t)
<1>0. /\ \A r, s \in stray : OpensTx(r.wire, t) /\ OpensTx(s.wire, t) => r = s
      /\ call[t] # Quiet /\ call[t].verb = "multi"
             => \A s \in stray : ~OpensTx(s.wire, t)
      /\ t \in open => "multi" \in said[t] /\ ~MultiAhead(t)
  BY BegunGrows DEF OpenedOnce
<1>s. \A s \in stray : OpensTx(s.wire, t) => "multi" \in said[t]
  BY GenuineFacts DEF Scoped, TypeOK, RequestsAreGenuine, OpensTx
<1>c. call[t] # Quiet /\ call[t].verb = "multi" => "multi" \in said[t]
  BY GenuineFacts, ScopedFacts DEF Scoped, RequestsAreGenuine, Calls
<1>1. ASSUME NEW u \in Txs, Begin(u)
      PROVE  UNCHANGED <<said, open, stray, call>>
  BY <1>1 DEF Begin, server
<1>2. ASSUME NEW c \in Clients, NEW verb \in Control \cup Plain, NEW key \in Keys, Issue(c, verb, key)
      PROVE  /\ UNCHANGED <<open, stray>>
             /\ said[t] \subseteq said'[t]
             /\ \/ call'[t] = call[t]
                \/ call[t] = Quiet /\ (call'[t].verb = "multi" => "multi" \notin said[t])
  <2>1. /\ call[c] = Quiet /\ UNCHANGED <<open, stray>>
        /\ said' = [said EXCEPT ![c] = @ \cup ({verb} \cap Control)]
        /\ begun' = IF verb = "multi" THEN [begun EXCEPT ![c] = @ + 1] ELSE begun
    BY <1>2, IssueFacts DEF server
  <2>2. said[t] \subseteq said'[t]
    BY <2>1, ScopedFacts
  <2>3. CASE c = t
    <3>1. call' = call \/ call'[t].verb = verb
      BY <1>2, <2>3, IssueFacts, ScopedFacts
    <3>2. verb = "multi" => begun[t] = 0
      BY <2>1, <2>3, ScopedFacts DEF SingleUse
    <3>3. verb = "multi" => "multi" \notin said[t]
      BY <3>2 DEF Scoped, MultisCounted
    <3> QED
      BY <2>1, <2>2, <2>3, <3>1, <3>3
  <2>4. CASE c # t
    <3>1. call'[t] = call[t]
      BY <1>2, <2>4, IssueFacts, ScopedFacts
    <3> QED
      BY <2>1, <2>2, <3>1
  <2> QED
    BY <2>3, <2>4
<1>3. ASSUME NEW c \in Clients, Return(c) \/ Fail(c)
      PROVE  /\ UNCHANGED <<said, open>>
             /\ c # t => call'[t] = call[t] /\ \A s \in stray' : s.wire.by = t => s \in stray
             /\ c = t => /\ call'[t] = Quiet /\ call[t] # Quiet
                         /\ \/ stray' = stray
                            \/ \E r : /\ stray' = stray \cup {r} /\ call[t].runs = 0
                                      /\ r.wire.verb = call[t].verb
  <2>1. call[c].wire.by = c /\ call[c].wire.verb = call[c].verb
    BY <1>3, EndFacts DEF Scoped, RequestsAreGenuine
  <2>3. \/ stray' = stray
        \/ /\ stray' = stray \cup {[wire |-> call[c].wire, copy |-> 1]} /\ call[c].runs = 0
    BY <1>3, StrayMoves
  <2>4. UNCHANGED <<said, open>> /\ call[c] # Quiet
        /\ call'[c] = Quiet /\ \A d \in Clients \ {c} : call'[d] = call[d]
    BY <1>3, EndFacts DEF server
  <2> QED
    <3>1. CASE c # t
      <4>1. \A s \in stray' : s.wire.by = t => s \in stray
        BY <2>1, <2>3, <3>1
      <4> QED
        BY <2>4, <3>1, <4>1, ScopedFacts
    <3>2. CASE c = t
      <4> DEFINE r == [wire |-> call[c].wire, copy |-> 1]
      <4>1. r.wire.verb = call[c].verb
        BY <2>1
      <4>2. stray' = stray \/ (stray' = stray \cup {r} /\ call[t].runs = 0)
        BY <2>3, <3>2
      <4> HIDE DEF r
      <4> QED
        BY <2>4, <3>2, <4>1, <4>2
    <3> QED
      BY <3>1, <3>2
<1>4. ASSUME NEW w \in Requests, Executes(w)
      PROVE  /\ said' = said
             /\ t \in open' /\ t \notin open => w.by = t /\ w.verb = "multi"
  BY <1>4, OpenEffect, ScopedFacts DEF Executes
<1>5. ASSUME NEW c \in Clients, Run(c)
      PROVE  /\ UNCHANGED <<said, stray>>
             /\ t \in open' /\ t \notin open => c = t /\ call[t].verb = "multi" /\ call[t].runs = 0
             /\ call'[t] # Quiet => call[t] # Quiet /\ call'[t].verb = call[t].verb
             /\ c = t => call'[t].runs # 0
             /\ c # t => call'[t] = call[t]
             /\ call[c] # Quiet
  <2>1. call[c] # Quiet /\ call[c].wire.by = c /\ call[c].wire.verb = call[c].verb
    BY <1>5 DEF Run, Scoped, RequestsAreGenuine
  <2>2. /\ call[c].wire \in Requests /\ call[c].runs = 0 /\ call'[c].runs = call[c].runs + 1
        /\ call'[c].verb = call[c].verb /\ \A d \in Clients \ {c} : call'[d] = call[d]
    <3>1. /\ call[c] \in Calls /\ call[c].wire \in Requests /\ call[c].runs < 1
          /\ call'[c].runs = call[c].runs + 1 /\ call'[c].verb = call[c].verb
          /\ \A d \in Clients \ {c} : call'[d] = call[d]
      BY <1>5, RunFacts
    <3>2. call[c].runs = 0
      BY <3>1 DEF Calls
    <3> QED
      BY <3>1, <3>2
  <2>3. /\ said' = said /\ stray' = stray
        /\ t \in open' /\ t \notin open => call[c].wire.by = t /\ call[c].wire.verb = "multi"
    BY <1>4, <1>5, <2>2, RunExecutes
  <2> QED
    BY <2>1, <2>2, <2>3, ScopedFacts
<1>6. CASE RunStray
  <2>1. PICK s \in stray : Executes(s.wire) /\ stray' = stray \ {s} /\ call' = call
    BY <1>6, StrayExecutes
  <2>2. /\ said' = said
        /\ t \in open' /\ t \notin open => OpensTx(s.wire, t)
    BY <1>4, <2>1 DEF Executes, OpensTx
  <2> QED
    BY <1>0, <1>s, <2>1, <2>2 DEF MultiAhead
<1>7. CASE \E u \in Txs : Begin(u)
  BY <1>0, <1>1, <1>7 DEF MultiAhead
<1>8. CASE \E c \in Clients, verb \in Control \cup Plain, key \in Keys : Issue(c, verb, key)
  BY <1>0, <1>2, <1>8, <1>s DEF MultiAhead
<1>9. CASE \E c \in Clients : Return(c) \/ Fail(c)
  <2>1. PICK c \in Clients : Return(c) \/ Fail(c)
    BY <1>9
  <2>2. CASE c = t
    BY <1>0, <1>3, <2>1, <2>2 DEF MultiAhead, OpensTx
  <2>3. CASE c # t
    BY <1>0, <1>3, <2>1, <2>3 DEF MultiAhead, OpensTx
  <2> QED
    BY <2>2, <2>3
<1>10. CASE \E c \in Clients : Run(c)
  BY <1>0, <1>5, <1>10, <1>c DEF MultiAhead
<1> QED
  BY <1>6, <1>7, <1>8, <1>9, <1>10 DEF Next

(* A transaction that was opened is not opened again. *)
LEMMA OpenedOnceStep ==
    ASSUME MaxExecutions = 1, Scoped, OpenedOnce, [Next]_vars
    PROVE  OpenedOnce'
<1>1. CASE Next
  <2> SUFFICES ASSUME NEW t \in Txs, SingleUse(t)'
               PROVE  /\ \A r, s \in stray' : OpensTx(r.wire, t) /\ OpensTx(s.wire, t) => r = s
                      /\ call'[t] # Quiet /\ call'[t].verb = "multi"
                             => \A s \in stray' : ~OpensTx(s.wire, t)
                      /\ t \in open' => "multi" \in said'[t] /\ ~MultiAhead(t)'
    BY DEF OpenedOnce
  <2> QED
    BY <1>1, MultiMoves, BegunGrows DEF OpenedOnce
<1>2. CASE UNCHANGED vars
  BY <1>2 DEF OpenedOnce, MultiAhead, SingleUse, vars, server
<1> QED
  BY <1>1, <1>2

(* A closed transaction stays closed. *)
LEMMA FinishedStays ==
    ASSUME MaxExecutions = 1, Scoped, OpenedOnce, Next, NEW t \in Txs, SingleUse(t)'
    PROVE  /\ Finished(t) => Finished(t)'
           /\ t \in open /\ t \notin open' => Finished(t)'
BY MultiMoves, BegunGrows DEF Finished, OpenedOnce

(* What the caller of t is told is never taken back, and grows only while  *)
(* t is open, by what is queued.                                           *)
LEMMA ToldMoves ==
    ASSUME Scoped, Next, NEW t \in Txs
    PROVE  \/ Told(t)' \subseteq Told(t)
           \/ t \in open /\ t \in open' /\ Told(t)' \subseteq Told(t) \cup QueuedTags(t)'
<1>1. ASSUME acked' = acked, call'[t] = call[t] \/ call'[t].reply # Queued \/ call'[t] = Quiet
      PROVE  Told(t)' \subseteq Told(t)
  BY <1>1 DEF Told, Telling
<1>2. ASSUME NEW u \in Txs, Begin(u)
      PROVE  Told(t)' \subseteq Told(t)
  BY <1>1, <1>2 DEF Begin, history
<1>3. ASSUME NEW c \in Clients, NEW verb \in Control \cup Plain, NEW key \in Keys, Issue(c, verb, key)
      PROVE  Told(t)' \subseteq Told(t)
  <2>1. acked' = acked
    BY <1>3, IssueFacts DEF history
  <2>2. call'[t] = call[t] \/ call'[t].reply = NoReply
    BY <1>3, IssueFacts, ScopedFacts
  <2> QED
    BY <1>1, <2>1, <2>2 DEF NoReply, Queued
<1>4. ASSUME NEW c \in Clients, Return(c)
      PROVE  Told(t)' \subseteq Told(t)
  <2>1. /\ call[c] # Quiet /\ call[c] \in Calls /\ call[c].wire \in Requests /\ Learn(c, call[c].wire, call[c].reply)
        /\ call'[c] = Quiet /\ \A d \in Clients \ {c} : call'[d] = call[d]
    BY <1>4, EndFacts DEF Return, Calls
  <2>2. acked \in [Txs -> Seq(Tags)] /\ Tag(call[c].wire) \in Tags
    BY <2>1 DEF Scoped, TypeOK, Tag, Tags, Requests
  <2>3. CASE c = t /\ call[c].reply = Queued
    <3>1. acked'[t] = acked[t] \/ acked'[t] = Append(acked[t], Tag(call[t].wire))
      BY <2>1, <2>2, <2>3 DEF Learn
    <3>2. ToSet(Append(acked[t], Tag(call[t].wire))) = ToSet(acked[t]) \cup {Tag(call[t].wire)}
      BY <2>2, <2>3, AppendFacts
    <3> QED
      BY <2>1, <2>3, <3>1, <3>2 DEF Told, Telling
  <2>4. CASE ~(c = t /\ call[c].reply = Queued)
    <3>1. acked'[t] = acked[t]
      BY <2>1, <2>2, <2>4 DEF Learn
    <3>2. call'[t] = call[t] \/ call'[t] = Quiet
      BY <2>1, ScopedFacts
    <3> QED
      BY <3>1, <3>2 DEF Told, Telling
  <2> QED
    BY <2>3, <2>4
<1>5. ASSUME NEW c \in Clients, Fail(c)
      PROVE  Told(t)' \subseteq Told(t)
  <2>1. call'[t] = call[t] \/ call'[t] = Quiet
    BY <1>5, EndFacts, ScopedFacts
  <2> QED
    BY <1>1, <1>5, <2>1 DEF Fail, history
<1>6. ASSUME NEW c \in Clients, Run(c)
      PROVE  \/ Told(t)' \subseteq Told(t)
             \/ t \in open /\ t \in open' /\ Told(t)' \subseteq Told(t) \cup QueuedTags(t)'
  <2>1. /\ call[c].wire \in Requests /\ Genuine(call[c].wire) /\ Handle(call[c].wire) /\ acked' = acked
        /\ call'[c].reply \in {ReplyTo(call[c].wire), call[c].reply}
        /\ call'[c].wire = call[c].wire
        /\ \A d \in Clients \ {c} : call'[d] = call[d]
    BY <1>6, RunFacts DEF Run, history
  <2>2. call[c] # Quiet /\ call[c].wire.by = c
    BY <1>6 DEF Run, Scoped, RequestsAreGenuine
  <2>3. CASE c # t \/ call'[c].reply # Queued
    BY <1>1, <2>1, <2>3, ScopedFacts
  <2>4. CASE c = t /\ call[c].reply = Queued
    BY <2>1, <2>2, <2>4 DEF Told, Telling
  <2>5. CASE c = t /\ call'[c].reply = Queued /\ call[c].reply # Queued
    <3>1. ReplyTo(call[t].wire) = Queued
      BY <2>1, <2>5
    <3>2. call[t].wire.form = "txqueue" /\ t \in open
      <4>1. call[t].wire.form \in {"direct", "txqueue"} \/ call[t].wire.verb \in Control
        BY <2>1, <2>5 DEF Genuine, Requests
      <4> QED
        BY <2>1, <2>2, <2>5, <3>1, <4>1, ReplyFacts, GenuineFacts
          DEF Control, Ok, Queued, Error, Null, Array
    <3>3. t \in open' /\ Tag(call[t].wire) \in QueuedTags(t)'
      <4>1. \A w : w = call[t].wire => t \in open' /\ Tag(w) \in QueuedTags(t)'
        BY <2>1, <2>2, <2>5, <3>2, QueueEffect, ScopedFacts
      <4> QED
        BY <4>1
    <3>4. Told(t)' \subseteq ToSet(acked[t]) \cup {Tag(call[t].wire)}
      BY <2>1, <2>5 DEF Told, Telling, Tag
    <3> QED
      BY <3>2, <3>3, <3>4 DEF Told
  <2> QED
    BY <2>3, <2>4, <2>5
<1>7. CASE RunStray
  BY <1>1, <1>7 DEF RunStray, history
<1> QED
  BY <1>2, <1>3, <1>4, <1>5, <1>6, <1>7 DEF Next

(* A step keeps t's part of the log unless it executes an EXEC of t while  *)
(* t is open, which closes it.                                             *)
LEMMA LogMoves ==
    ASSUME Scoped, Next, NEW t \in Txs
    PROVE  /\ LogKept(t) \/ (t \in open /\ t \notin open')
           /\ log \in Seq(Entries) /\ log' \in Seq(Entries)
<1>1. ASSUME log' = log
      PROVE  LogKept(t)
  <2>1. Len(log) \in Nat
    BY ScopedFacts DEF ServerTypes
  <2> QED
    BY <1>1, <2>1 DEF LogKept, Applied
<1>2. ASSUME NEW w, Executes(w)
      PROVE  LogKept(t) \/ (t \in open /\ t \notin open')
  BY <1>2, LogKeptUnless, OpenEffect, ScopedFacts DEF Executes, Closers
<1>3. CASE \E c \in Clients : Run(c)
  <2>1. PICK c \in Clients : Run(c)
    BY <1>3
  <2>2. PICK w : w = call[c].wire
    OBVIOUS
  <2>3. Executes(w)
    BY <2>1, <2>2, RunExecutes
  <2> QED
    BY <1>2, <2>3, ScopedStep, ScopedFacts DEF Scoped, TypeOK
<1>4. CASE RunStray
  <2>1. PICK w : Executes(w)
    BY <1>4, StrayExecutes
  <2> QED
    BY <1>2, <2>1, ScopedStep, ScopedFacts DEF Scoped, TypeOK
<1>5. CASE \/ \E u \in Txs : Begin(u)
           \/ \E c \in Clients :
                \/ \E verb \in Control \cup Plain, key \in Keys : Issue(c, verb, key)
                \/ Return(c) \/ Fail(c)
  <2>1. log' = log
    BY <1>5 DEF Begin, Issue, Return, Fail, server
  <2> QED
    BY <1>1, <2>1, ScopedFacts DEF ServerTypes
<1> QED
  BY <1>3, <1>4, <1>5 DEF Next

(* What a reply or an outcome says of a closed transaction stays true. *)
LEMMA WordKept ==
    ASSUME MaxExecutions = 1, Scoped, OpenedOnce, Next, NEW t \in Txs, SingleUse(t)'
    PROVE  /\ Abandoned(t) => Abandoned(t)'
           /\ \A s : Committed(t, s) => Committed(t, s)'
<1>1. Finished(t) => Finished(t)' /\ LogKept(t) /\ Told(t)' \subseteq Told(t)
  BY FinishedStays, LogMoves, ToldMoves DEF Finished
<1>2. Abandoned(t) => Abandoned(t)'
  BY <1>1 DEF Abandoned, LogKept
<1>3. ASSUME NEW s, Committed(t, s)
      PROVE  Committed(t, s)'
  BY <1>1, <1>3, LogMoves, BlockStays DEF Committed
<1> QED
  BY <1>2, <1>3

(* The queue of a transaction that stays open is never cut. *)
LEMMA QueueMoves ==
    ASSUME Scoped, Next, NEW t \in Txs
    PROVE  \/ t \in open /\ t \notin open'
           \/ QueuedTags(t) \subseteq QueuedTags(t)'
<1>1. ASSUME NEW w, Executes(w)
      PROVE  \/ t \in open /\ t \notin open'
             \/ QueuedTags(t) \subseteq QueuedTags(t)'
  <2>1. CASE t \in open
    BY <1>1, <2>1, QueueEffect, ScopedFacts DEF Executes
  <2>2. CASE t \notin open
    BY <1>1, <2>2, QueueEffect, ScopedFacts DEF Executes
  <2> QED
    BY <2>1, <2>2
<1>2. CASE \E c \in Clients : Run(c)
  <2>1. PICK c \in Clients : Run(c)
    BY <1>2
  <2>2. PICK w : w = call[c].wire
    OBVIOUS
  <2> QED
    BY <1>1, <2>1, <2>2, RunExecutes
<1>3. CASE RunStray
  BY <1>1, <1>3, StrayExecutes
<1>4. CASE \/ \E u \in Txs : Begin(u)
           \/ \E c \in Clients :
                \/ \E verb \in Control \cup Plain, key \in Keys : Issue(c, verb, key)
                \/ Return(c) \/ Fail(c)
  <2>1. queue' = queue
    BY <1>4 DEF Begin, Issue, Return, Fail, server
  <2> QED
    BY <2>1 DEF QueuedTags
<1> QED
  BY <1>2, <1>3, <1>4 DEF Next

(* Until it is closed, nothing of t is applied or lost from its queue. *)
LEMMA NothingYetStep ==
    ASSUME MaxExecutions = 1, Scoped, OpenedOnce, NothingYet, Next
    PROVE  NothingYet'
<1> SUFFICES ASSUME NEW t \in Txs, SingleUse(t)', ~Finished(t)'
             PROVE  Applied(t)' = {} /\ Told(t)' \subseteq QueuedTags(t)'
  BY DEF NothingYet
<1>1. ~Finished(t) /\ ~(t \in open /\ t \notin open')
  BY FinishedStays
<1>2. Applied(t) = {} /\ Told(t) \subseteq QueuedTags(t)
  BY <1>1, BegunGrows DEF NothingYet
<1>3. Applied(t)' = {}
  BY <1>1, <1>2, LogMoves DEF LogKept
<1>4. QueuedTags(t) \subseteq QueuedTags(t)'
  BY <1>1, QueueMoves
<1>5. Told(t)' \subseteq QueuedTags(t)'
  BY <1>2, <1>4, ToldMoves
<1> QED
  BY <1>3, <1>5

(* The reply to the request of t that was just executed is true. *)
LEMMA NewReplyIsTrue ==
    ASSUME MaxExecutions = 1, Scoped, OpenedOnce, NothingYet, Next, NEW t \in Txs, SingleUse(t)', Run(t)
    PROVE  LET r == ReplyTo(call[t].wire) IN
           /\ call[t].verb = "exec" => r \notin {Ok, Queued}
           /\ call[t].verb = "exec" /\ r = Null => Abandoned(t)'
           /\ call[t].verb = "discard" /\ r = Ok => Abandoned(t)'
           /\ \A s : call[t].verb = "exec" /\ r = Array(s) /\ call'[t].reply = r => Committed(t, s)'
<1>0. PICK w : w = call[t].wire
  OBVIOUS
<1>1. /\ w \in Requests /\ Genuine(w) /\ Handle(w) /\ w.by = t /\ w.verb = call[t].verb
      /\ t \in Clients /\ ServerTypes /\ ScopesAreSeparate /\ acked' = acked
  BY <1>0, RunFacts, ScopedFacts DEF Run, history, Scoped, RequestsAreGenuine
<1>2. /\ w.verb \notin {"write", "read"} => w.id = t
      /\ w.verb = "discard" => ReplyTo(w) = IF t \in open THEN Ok ELSE Error
      /\ w.verb = "exec" => ReplyTo(w) = IF t \notin open THEN Error
                                         ELSE IF t \in dirty THEN Null
                                         ELSE Array(TagsOf(queue[t]))
  BY <1>1, GenuineFacts, ReplyFacts
<1>3. w.verb \in Closers /\ t \in open => t \notin open' /\ Finished(t)' /\ ~Finished(t) /\ Applied(t) = {}
  BY <1>1, OpenEffect, FinishedStays, BegunGrows DEF Finished, NothingYet
<1>4. ASSUME w.verb = "discard" \/ (w.verb = "exec" /\ t \in dirty), t \in open
      PROVE  Abandoned(t)'
  <2>1. LogKept(t)
    BY <1>1, <1>4, LogKeptUnless
  <2> QED
    BY <1>3, <1>4, <2>1 DEF Abandoned, LogKept, Closers
<1>5. ASSUME w.verb = "exec", t \in open, t \notin dirty, NEW s, s = TagsOf(queue[t]), call'[t].reply = Array(s)
      PROVE  Committed(t, s)'
  <2>1. AppliedAsBlock(t, s)'
    <3>1. Applied(w.by) = {} /\ w.by \in open /\ w.by \notin dirty /\ s = TagsOf(queue[w.by])
      BY <1>1, <1>3, <1>5 DEF Closers
    <3>2. \E start \in 0 .. Len(log') :
             /\ Applied(w.by)' = {start + i : i \in DOMAIN s}
             /\ \A i \in DOMAIN s : log'[start + i].tag = s[i]
      BY <1>1, <1>5, <3>1, CommitBlock
    <3> QED
      BY <1>1, <3>2 DEF AppliedAsBlock
  <2>2. ToSet(acked[t]) \subseteq ToSet(s)
    <3>1. ToSet(s) = QueuedTags(t)
      BY <1>1, <1>5, TagsOfFacts DEF ServerTypes, QueuedTags
    <3> QED
      BY <1>3, <1>5, <3>1, BegunGrows DEF NothingYet, Told, Closers
  <2>3. Told(t)' = ToSet(acked[t])
    BY <1>1, <1>5 DEF Told, Telling, Array, Queued
  <2> QED
    BY <1>3, <1>5, <2>1, <2>2, <2>3 DEF Committed, Closers
<1>6. \A s : TagsOf(queue[t]) = s <=> Array(TagsOf(queue[t])) = Array(s)
  BY DEF Array
<1>7. w.verb = "exec" => ReplyTo(w) \notin {Ok, Queued}
  BY <1>2 DEF Ok, Queued, Error, Null, Array
<1>8. w.verb = "exec" /\ ReplyTo(w) = Null => t \in open /\ t \in dirty
  BY <1>2 DEF Error, Null, Array
<1>9. w.verb = "discard" /\ ReplyTo(w) = Ok => t \in open
  BY <1>2 DEF Ok, Error
<1>10. ASSUME NEW s, w.verb = "exec", ReplyTo(w) = Array(s)
       PROVE  t \in open /\ t \notin dirty /\ s = TagsOf(queue[t])
  BY <1>2, <1>6, <1>10 DEF Error, Null, Array
<1> QED
  BY <1>0, <1>1, <1>4, <1>5, <1>7, <1>8, <1>9, <1>10

(* Replies on their way stay true. *)
LEMMA RepliesStep ==
    ASSUME MaxExecutions = 1, Scoped, OpenedOnce, NothingYet, RepliesAreTrue, Next
    PROVE  RepliesAreTrue'
<1> SUFFICES ASSUME NEW t \in Txs, SingleUse(t)', call'[t] # Quiet
             PROVE  /\ call'[t].verb = "exec" /\ call'[t].reply.kind = "array"
                           => Committed(t, call[t].reply.results)'
                    /\ call'[t].verb = "exec" => call'[t].reply \notin {Ok, Queued}
                    /\ call'[t].verb = "exec" /\ call'[t].reply = Null => Abandoned(t)'
                    /\ call'[t].verb = "discard" /\ call'[t].reply = Ok => Abandoned(t)'
  BY DEF RepliesAreTrue
<1>0. PICK s : s = call'[t].reply.results
  OBVIOUS
<1>1. SUFFICES /\ call'[t].verb = "exec" /\ call'[t].reply.kind = "array" => Committed(t, s)'
               /\ call'[t].verb = "exec" => call'[t].reply \notin {Ok, Queued}
               /\ call'[t].verb = "exec" /\ call'[t].reply = Null => Abandoned(t)'
               /\ call'[t].verb = "discard" /\ call'[t].reply = Ok => Abandoned(t)'
  BY <1>0 DEF Committed, AppliedAsBlock
<1>2. CASE call[t] # Quiet /\ call'[t].verb = call[t].verb /\ call'[t].reply = call[t].reply
  BY <1>0, <1>2, WordKept, BegunGrows DEF RepliesAreTrue
<1>3. CASE call'[t].reply = NoReply
  BY <1>3 DEF NoReply, Ok, Queued, Null
<1>4. ASSUME Run(t), call'[t].reply # call[t].reply
      PROVE  /\ call'[t].verb = "exec" /\ call'[t].reply.kind = "array" => Committed(t, s)'
             /\ call'[t].verb = "exec" => call'[t].reply \notin {Ok, Queued}
             /\ call'[t].verb = "exec" /\ call'[t].reply = Null => Abandoned(t)'
             /\ call'[t].verb = "discard" /\ call'[t].reply = Ok => Abandoned(t)'
  <2>1. /\ call'[t].verb = call[t].verb /\ call'[t].reply = ReplyTo(call[t].wire) /\ call'[t] \in Calls
    BY <1>4, RunFacts, ScopedFacts
  <2>2. call'[t].reply.kind = "array" => call'[t].reply = Array(s)
    <3>1. call'[t].reply \in Replies
      BY <2>1 DEF Calls
    <3> QED
      BY <1>0, <3>1 DEF Replies, Ok, Queued, Error, Null, NoReply, Array
  <2> QED
    BY <1>4, <2>1, <2>2, NewReplyIsTrue
<1>5. \/ call[t] # Quiet /\ call'[t].verb = call[t].verb /\ call'[t].reply = call[t].reply
      \/ call'[t].reply = NoReply
      \/ Run(t)
  <2>1. ASSUME call'[t] = call[t]
        PROVE  call[t] # Quiet /\ call'[t].verb = call[t].verb /\ call'[t].reply = call[t].reply
    BY <2>1
  <2>2. CASE \E c \in Clients, verb \in Control \cup Plain, key \in Keys : Issue(c, verb, key)
    BY <2>1, <2>2, IssueFacts, ScopedFacts
  <2>3. CASE \E c \in Clients : Return(c) \/ Fail(c)
    BY <2>1, <2>3, EndFacts, ScopedFacts
  <2>4. CASE \E c \in Clients : Run(c)
    BY <2>1, <2>4, RunFacts, ScopedFacts
  <2>5. CASE (\E u \in Txs : Begin(u)) \/ RunStray
    BY <2>1, <2>5 DEF Begin, RunStray
  <2> QED
    BY <2>2, <2>3, <2>4, <2>5 DEF Next
<1>6. Run(t) /\ call'[t].reply = call[t].reply => call[t] # Quiet /\ call'[t].verb = call[t].verb
  BY RunFacts, ScopedFacts DEF Run
<1> QED
  BY <1>2, <1>3, <1>4, <1>5, <1>6

(* An outcome is reported by the return of Exec or Discard only. *)
LEMMA OutcomeMoves ==
    ASSUME Scoped, Next, NEW t \in Txs, outcome'[t] # outcome[t]
    PROVE  /\ Return(t) /\ call[t] # Quiet /\ call[t].reply \in Replies /\ call[t].reply # NoReply
           /\ \/ call[t].verb = "exec" /\ call[t].reply # Error /\ outcome'[t] = execOutcome(call[t].reply)
              \/ call[t].verb = "discard" /\ call[t].reply = Ok /\ outcome'[t] = Ended("discarded", <<>>)
<1>1. ASSUME NEW c \in Clients, Return(c), c # t
      PROVE  outcome'[t] = outcome[t]
  BY <1>1 DEF Return, Learn, Scoped, TypeOK
<1>2. Return(t)
  BY <1>1 DEF Next, Begin, Issue, Fail, Run, RunStray, history
<1>3. /\ call[t] # Quiet /\ call[t].reply \in Replies /\ call[t].reply # NoReply
      /\ call[t].wire.verb = call[t].verb
      /\ Learn(t, call[t].wire, call[t].reply)
  BY <1>2, EndFacts, ScopedFacts DEF Return, Scoped, RequestsAreGenuine, Calls
<1>4. outcome \in [Txs -> [kind : {"none", "success", "aborted", "discarded"}, results : Seq(Tags)]]
  BY DEF Scoped, TypeOK
<1>5. \/ call[t].verb = "exec" /\ call[t].reply # Error /\ outcome'[t] = execOutcome(call[t].reply)
      \/ call[t].verb = "discard" /\ call[t].reply = Ok /\ outcome'[t] = Ended("discarded", <<>>)
  BY <1>3, <1>4 DEF Learn, Concludes
<1> QED
  BY <1>2, <1>3, <1>5

(* Outcomes are true when reported and stay true. *)
LEMMA OutcomesStep ==
    ASSUME MaxExecutions = 1, Scoped, OpenedOnce, RepliesAreTrue, OutcomesAreTrue, Next
    PROVE  OutcomesAreTrue'
<1> SUFFICES ASSUME NEW t \in Txs, SingleUse(t)'
             PROVE  /\ outcome'[t].kind = "success" => Committed(t, outcome[t].results)'
                    /\ outcome'[t].kind \in {"aborted", "discarded"} => Abandoned(t)'
  BY DEF OutcomesAreTrue
<1>0. PICK s : s = outcome'[t].results
  OBVIOUS
<1>1. SUFFICES /\ outcome'[t].kind = "success" => Committed(t, s)'
               /\ outcome'[t].kind \in {"aborted", "discarded"} => Abandoned(t)'
  BY <1>0 DEF Committed, AppliedAsBlock
<1>2. CASE outcome'[t] = outcome[t]
  BY <1>0, <1>2, WordKept, BegunGrows DEF OutcomesAreTrue
<1>3. ASSUME outcome'[t] # outcome[t]
      PROVE  /\ outcome'[t].kind = "success" => Committed(t, s)
             /\ outcome'[t].kind \in {"aborted", "discarded"} => Abandoned(t)
  <2>1. call[t] # Quiet /\ call[t].reply \in Replies /\ call[t].reply # NoReply /\ SingleUse(t)
    BY <1>3, OutcomeMoves, BegunGrows
  <2>3. \/ call[t].verb = "exec" /\ call[t].reply # Error /\ outcome'[t] = execOutcome(call[t].reply)
        \/ call[t].verb = "discard" /\ call[t].reply = Ok /\ outcome'[t] = Ended("discarded", <<>>)
    BY <1>3, OutcomeMoves
  <2>4. CASE call[t].verb = "exec" /\ call[t].reply.kind = "array" /\ outcome'[t] = execOutcome(call[t].reply)
    <3>1. outcome'[t].kind = "success" /\ s = call[t].reply.results
      BY <1>0, <2>4 DEF execOutcome, Ended
    <3> QED
      BY <2>1, <2>4, <3>1 DEF RepliesAreTrue
  <2>5. CASE /\ call[t].verb = "exec" /\ call[t].reply.kind # "array" /\ call[t].reply # Error
             /\ outcome'[t] = execOutcome(call[t].reply)
    <3>1. outcome'[t].kind = "aborted"
      BY <2>5 DEF execOutcome, Ended
    <3>2. call[t].reply \notin {Ok, Queued}
      BY <2>1, <2>5 DEF RepliesAreTrue
    <3>3. call[t].reply = Null
      BY <2>1, <2>5, <3>2 DEF Replies
    <3> QED
      BY <2>1, <2>5, <3>1, <3>3 DEF RepliesAreTrue
  <2>6. CASE call[t].verb = "discard" /\ call[t].reply = Ok /\ outcome'[t] = Ended("discarded", <<>>)
    BY <2>1, <2>6 DEF RepliesAreTrue, Ended
  <2> QED
    BY <2>3, <2>4, <2>5, <2>6
<1> QED
  BY <1>2, <1>3, WordKept

(* The four parts of Reported, step by step. *)
LEMMA ReportedStep ==
    ASSUME MaxExecutions = 1, Scoped, Reported, [Next]_vars
    PROVE  Reported'
<1>1. CASE Next
  BY <1>1, OpenedOnceStep, NothingYetStep, RepliesStep, OutcomesStep DEF Reported
<1>2. CASE UNCHANGED vars
  <2>1. UNCHANGED <<call, stray, said, open, queue, log, acked, outcome>>
    BY <1>2 DEF vars, server, history
  <2>0. \A t \in Txs : SingleUse(t)' = SingleUse(t)
    BY <1>2 DEF vars, SingleUse
  <2>2. OpenedOnce'
    BY <2>0, <2>1 DEF Reported, OpenedOnce, MultiAhead
  <2>3. \A t \in Txs : /\ Finished(t)' = Finished(t) /\ Applied(t)' = Applied(t)
                       /\ Told(t)' = Told(t) /\ QueuedTags(t)' = QueuedTags(t)
                       /\ \A s : AppliedAsBlock(t, s)' = AppliedAsBlock(t, s)
    BY <2>1 DEF Finished, MultiAhead, Applied, Told, Telling, QueuedTags, Tag, AppliedAsBlock
  <2>4. NothingYet'
    BY <2>0, <2>3 DEF Reported, NothingYet
  <2>5. \A t \in Txs : /\ Abandoned(t) => Abandoned(t)'
                       /\ \A s : Committed(t, s) => Committed(t, s)'
    BY <2>3 DEF Abandoned, Committed
  <2>6. RepliesAreTrue'
    BY <2>0, <2>1, <2>5 DEF Reported, RepliesAreTrue
  <2>7. OutcomesAreTrue'
    BY <2>0, <2>1, <2>5 DEF Reported, OutcomesAreTrue
  <2> QED
    BY <2>2, <2>4, <2>6, <2>7 DEF Reported
<1> QED
  BY <1>1, <1>2

(* Reported holds when every request is executed once at most. *)
LEMMA ReportedInvariant ==
    ASSUME MaxExecutions = 1
    PROVE  Spec => []Reported
<1>1. Init => Reported
  <2> SUFFICES ASSUME Init
               PROVE  Reported
    OBVIOUS
  <2>1. OpenedOnce /\ \A t \in Txs : ~Finished(t)
    BY DEF Init, OpenedOnce, MultiAhead, Finished, Clients
  <2>2. NothingYet
    BY EmptyFacts DEF Init, NothingYet, Applied, Told, Telling, Clients
  <2>3. RepliesAreTrue /\ OutcomesAreTrue
    BY DEF Init, RepliesAreTrue, OutcomesAreTrue, Clients
  <2> QED
    BY <2>1, <2>2, <2>3 DEF Reported
<1> QED
  BY <1>1, ReportedStep, ScopedInvariant, PTL DEF Spec

(* What Exec and Discard report of a Tx on which Multi was called once is  *)
(* what happened, for any number of scopes, keys and commands, with lost   *)
(* and late requests, over a transport that sends a request once (Exec,    *)
(* transaction.go 133-146; mapResponseFromWire, client.go 857-867).        *)
THEOREM OutcomesStayTrue ==
    ASSUME MaxExecutions = 1
    PROVE  Spec => []OutcomeIsTrue
<1>1. Scoped /\ Reported => OutcomeIsTrue
  BY DEF Reported, OutcomesAreTrue, OutcomeIsTrue, Committed, Abandoned, Told
<1> QED
  BY <1>1, ScopedInvariant, ReportedInvariant, PTL

-----------------------------------------------------------------------------
(* Conflicts: the way of a write on a watched key to the abort *)

(* Scope t has issued none of these verbs. *)
Undisturbed(t, verbs) == said[t] \cap verbs = {}

(* A watch that was acknowledged, or is being acknowledged, is kept by the *)
(* server until the scope gives it up.                                     *)
WatchKept ==
    \A t \in Txs : Undisturbed(t, Closers \cup {"unwatch"}) =>
        /\ guarded[t] \subseteq watching[t]
        /\ call[t] # Quiet /\ call[t].verb = "watch" /\ call[t].reply = Ok
               => call[t].key \in watching[t]

(* A write that was executed has made dirty the scopes it forbids to       *)
(* commit; only the plain client forbids.                                  *)
WriteNoticed ==
    \A c \in Clients : call[c] # Quiet => \A t \in call[c].forbids :
        /\ c = Base /\ call[c].verb = "write"
        /\ call[c].key \in guarded[t]
        /\ call[c].reply = Ok /\ Undisturbed(t, Closers \cup {"unwatch"}) => t \in dirty

(* A conflict stays with the transaction until it is closed for good. *)
ConflictKept ==
    \A t \in conflicts : SingleUse(t) /\ "unwatch" \notin said[t] =>
        /\ t \in dirty \/ Finished(t)
        /\ call[t] # Quiet /\ call[t].verb = "exec" => call[t].reply.kind # "array"
        /\ outcome[t].kind # "success"

(* A success is reported to a caller that asked for it. *)
SuccessAsked ==
    \A t \in Txs : outcome[t].kind = "success" => "exec" \in said[t]

(* The invariant for the conflicts. *)
Watched == WatchKept /\ WriteNoticed /\ ConflictKept /\ SuccessAsked

(* What executing request w can do to the watch of transaction t. *)
LEMMA WatchEffect ==
    ASSUME ServerTypes, NEW w \in Requests, Genuine(w), Handle(w), NEW t \in Txs
    PROVE  /\ t \in dirty /\ t \notin dirty' =>
                 w.by = t /\ (w.verb = "unwatch" \/ (w.verb \in Closers /\ t \in open))
           /\ watching[t] \subseteq watching'[t] \/ (w.by = t /\ w.verb \in Closers \cup {"unwatch"})
           /\ w.by = t /\ w.verb = "watch" /\ t \notin open => w.key \in watching'[t]
           /\ w.form = "direct" /\ w.verb = "write" /\ w.key \in watching[t] => t \in dirty'
<1> USE GenuineFacts
<1>0. watching \in [Txs -> SUBSET Keys] /\ w.key \in Keys
  BY DEF ServerTypes, Requests
<1>1. CASE Apply(w)
  BY <1>0, <1>1 DEF Apply, Touched
<1>2. CASE Enqueue(w) \/ OpenTx(w)
  BY <1>2 DEF Enqueue, OpenTx
<1>3. CASE WatchKey(w)
  BY <1>0, <1>3 DEF WatchKey
<1>4. CASE UnwatchKeys(w)
  BY <1>0, <1>4 DEF UnwatchKeys
<1>5. CASE DropTx(w)
  BY <1>0, <1>5 DEF DropTx, CloseTx, Closers
<1>6. CASE CommitTx(w)
  BY <1>0, <1>6 DEF CommitTx, CloseTx, Closers
<1>7. CASE Refuse(w)
  <2>1. /\ w.form # "direct"
        /\ w.by = t /\ w.verb = "watch" => t \in open
    BY <1>7, ReplyFacts DEF Refuse, Ok, Error
  <2> QED
    BY <1>7, <2>1 DEF Refuse, server
<1> QED
  BY <1>1, <1>2, <1>3, <1>4, <1>5, <1>6, <1>7 DEF Handle

(* The control request that is executed is one the scope issued. *)
LEMMA ExecutedWasSaid ==
    ASSUME NEW w, Executes(w), w.by \in Txs, w.verb \in Closers \cup {"unwatch"}
    PROVE  w.verb \in said[w.by]
BY GenuineFacts DEF Executes, Closers

(* Until the scope gives its watch up, a step neither loses a watched key  *)
(* nor the mark of a change.                                               *)
LEMMA WatchMoves ==
    ASSUME Scoped, Next, NEW t \in Txs, Undisturbed(t, Closers \cup {"unwatch"})
    PROVE  watching[t] \subseteq watching'[t] /\ (t \in dirty => t \in dirty')
<1>1. ASSUME NEW w, Executes(w)
      PROVE  watching[t] \subseteq watching'[t] /\ (t \in dirty => t \in dirty')
  <2>1. ~(w.by = t /\ w.verb \in Closers \cup {"unwatch"})
    BY <1>1, ExecutedWasSaid DEF Undisturbed
  <2> QED
    BY <1>1, <2>1, WatchEffect, ScopedFacts DEF Executes
<1>2. CASE \E c \in Clients : Run(c)
  <2>1. PICK c \in Clients : Run(c)
    BY <1>2
  <2>2. PICK w : w = call[c].wire
    OBVIOUS
  <2> QED
    BY <1>1, <2>1, <2>2, RunExecutes
<1>3. CASE RunStray
  BY <1>1, <1>3, StrayExecutes
<1>4. CASE \/ \E u \in Txs : Begin(u)
           \/ \E c \in Clients :
                \/ \E verb \in Control \cup Plain, key \in Keys : Issue(c, verb, key)
                \/ Return(c) \/ Fail(c)
  BY <1>4 DEF Begin, Issue, Return, Fail, server
<1> QED
  BY <1>2, <1>3, <1>4 DEF Next

(* A mark of a change is only lost to Unwatch or by closing for good. *)
LEMMA DirtyMoves ==
    ASSUME MaxExecutions = 1, Scoped, OpenedOnce, Next, NEW t \in Txs, SingleUse(t)',
           "unwatch" \notin said[t]
    PROVE  t \in dirty => t \in dirty' \/ Finished(t)'
<1>1. ASSUME NEW w, Executes(w), t \in dirty, t \notin dirty'
      PROVE  t \in open /\ t \notin open'
  <2>1. w.by = t /\ w.verb \in Closers /\ t \in open
    BY <1>1, WatchEffect, ExecutedWasSaid, ScopedFacts DEF Executes
  <2> QED
    BY <1>1, <2>1, OpenEffect, ScopedFacts DEF Executes
<1>2. CASE \E c \in Clients : Run(c)
  <2>1. PICK c \in Clients : Run(c)
    BY <1>2
  <2>2. PICK w : w = call[c].wire
    OBVIOUS
  <2> QED
    BY <1>1, <2>1, <2>2, RunExecutes, FinishedStays
<1>3. CASE RunStray
  BY <1>1, <1>3, StrayExecutes, FinishedStays
<1>4. CASE \/ \E u \in Txs : Begin(u)
           \/ \E c \in Clients :
                \/ \E verb \in Control \cup Plain, key \in Keys : Issue(c, verb, key)
                \/ Return(c) \/ Fail(c)
  BY <1>4 DEF Begin, Issue, Return, Fail, server
<1> QED
  BY <1>2, <1>3, <1>4 DEF Next

(* How a call can look after a step. *)
LEMMA CallMoves ==
    ASSUME Scoped, Next, NEW c \in Clients, call'[c] # Quiet
    PROVE  \/ call'[c] = call[c]
           \/ /\ call[c] = Quiet /\ call'[c].reply = NoReply
              /\ call'[c].forbids = Forbidden(c, call'[c].verb, call'[c].key)
           \/ Run(c)
<1>1. CASE \E d \in Clients, verb \in Control \cup Plain, key \in Keys : Issue(d, verb, key)
  BY <1>1, IssueFacts, ScopedFacts
<1>2. CASE \E d \in Clients : Return(d) \/ Fail(d)
  BY <1>2, EndFacts
<1>3. CASE \E d \in Clients : Run(d)
  BY <1>3, RunFacts
<1>4. CASE (\E u \in Txs : Begin(u)) \/ RunStray
  BY <1>4 DEF Begin, RunStray
<1> QED
  BY <1>1, <1>2, <1>3, <1>4 DEF Next

(* A scope does not forget what it issued. *)
LEMMA SaidGrows ==
    ASSUME Scoped, Next, NEW c \in Clients
    PROVE  said[c] \subseteq said'[c]
<1>1. CASE UNCHANGED said
  BY <1>1
<1>2. ASSUME NEW d \in Clients, NEW verb \in Control \cup Plain, NEW key \in Keys, Issue(d, verb, key)
      PROVE  said[c] \subseteq said'[c]
  BY <1>2, IssueFacts, ScopedFacts
<1> QED
  BY <1>1, <1>2 DEF Next, Begin, Return, Fail, Run, RunStray

(* What a call in progress says of its scope. *)
LEMMA CallFacts ==
    ASSUME Scoped, NEW c \in Clients, call[c] # Quiet
    PROVE  /\ call[c].wire \in Requests /\ Genuine(call[c].wire) /\ call[c].wire.by = c
           /\ call[c].wire.verb = call[c].verb /\ call[c].wire.key = call[c].key
           /\ call[c].forbids \subseteq Txs
           /\ call[c].verb \notin {"write", "read"} => c \in Txs /\ call[c].verb \in said[c]
<1>1. call[c] \in Calls
  BY ScopedFacts
<1>2. call[c].wire \in Requests /\ call[c].forbids \subseteq Txs
  BY <1>1 DEF Calls
<1>3. /\ Genuine(call[c].wire) /\ call[c].wire.by = c
      /\ call[c].wire.verb = call[c].verb /\ call[c].wire.key = call[c].key
  BY DEF Scoped, RequestsAreGenuine
<1> QED
  BY <1>2, <1>3, GenuineFacts

(* A key becomes guarded by the return of an acknowledged Watch only. *)
LEMMA GuardedMoves ==
    ASSUME Scoped, Next, NEW t \in Txs
    PROVE  /\ guarded[t] \subseteq guarded'[t]
           /\ guarded'[t] # guarded[t] =>
                 /\ call[t] # Quiet /\ call[t].verb = "watch" /\ call[t].reply = Ok
                 /\ guarded'[t] = guarded[t] \cup {call[t].key}
                 /\ UNCHANGED <<said, watching>>
<1>1. ASSUME NEW c \in Clients, Return(c)
      PROVE  /\ guarded[t] \subseteq guarded'[t]
             /\ guarded'[t] # guarded[t] =>
                   /\ c = t /\ call[t] # Quiet /\ call[t].verb = "watch" /\ call[t].reply = Ok
                   /\ guarded'[t] = guarded[t] \cup {call[t].key}
                   /\ UNCHANGED <<said, watching>>
  <2>1. call[c] # Quiet /\ call[c].wire.verb = call[c].verb /\ guarded \in [Txs -> SUBSET Keys]
    BY <1>1, EndFacts, CallFacts DEF Scoped, TypeOK
  <2>2. Learn(c, call[c].wire, call[c].reply) /\ UNCHANGED <<said, watching>>
    BY <1>1 DEF Return, server
  <2> QED
    BY <2>1, <2>2 DEF Learn
<1> QED
  BY <1>1 DEF Next, Begin, Issue, Fail, Run, RunStray, history

(* An acknowledged watch is kept. *)
LEMMA WatchKeptStep ==
    ASSUME Scoped, WatchKept, Next
    PROVE  WatchKept'
<1> SUFFICES ASSUME NEW t \in Txs, Undisturbed(t, Closers \cup {"unwatch"})'
             PROVE  /\ guarded'[t] \subseteq watching'[t]
                    /\ call'[t] # Quiet /\ call'[t].verb = "watch" /\ call'[t].reply = Ok
                           => call'[t].key \in watching'[t]
  BY DEF WatchKept
<1>0. t \in Clients
  BY ScopedFacts
<1>1. Undisturbed(t, Closers \cup {"unwatch"})
  BY <1>0, SaidGrows DEF Undisturbed
<1>2. /\ guarded[t] \subseteq watching[t]
      /\ call[t] # Quiet /\ call[t].verb = "watch" /\ call[t].reply = Ok => call[t].key \in watching[t]
      /\ watching[t] \subseteq watching'[t]
  BY <1>1, WatchMoves DEF WatchKept
<1>3. guarded'[t] \subseteq watching'[t]
  BY <1>2, GuardedMoves
<1>4. ASSUME call'[t] # Quiet, call'[t].verb = "watch", call'[t].reply = Ok
      PROVE  call'[t].key \in watching'[t]
  <2>1. CASE call'[t] = call[t]
    BY <1>2, <1>4, <2>1
  <2>2. CASE Run(t)
    <3>1. /\ call'[t].verb = call[t].verb /\ call'[t].key = call[t].key
          /\ call'[t].reply \in {ReplyTo(call[t].wire), call[t].reply}
      BY <1>0, <2>2, RunFacts
    <3>2. call[t] # Quiet /\ Handle(call[t].wire)
      BY <2>2 DEF Run
    <3>3. CASE call[t].reply = Ok
      BY <1>2, <1>4, <3>1, <3>2, <3>3
    <3>4. CASE ReplyTo(call[t].wire) = Ok
      <4>1. PICK w : w = call[t].wire
        OBVIOUS
      <4>2. /\ w \in Requests /\ Genuine(w) /\ Handle(w) /\ w.by = t
            /\ w.verb = "watch" /\ w.key = call'[t].key
        BY <1>0, <1>4, <3>1, <3>2, <4>1, CallFacts
      <4>3. t \notin open
        BY <3>4, <4>1, <4>2, ReplyFacts, GenuineFacts DEF Ok, Error
      <4> QED
        BY <4>2, <4>3, WatchEffect, ScopedFacts
    <3> QED
      BY <1>4, <3>1, <3>3, <3>4
  <2> QED
    BY <1>0, <1>4, <2>1, <2>2, CallMoves DEF Ok, NoReply
<1> QED
  BY <1>3, <1>4

(* An executed write has marked the scopes that watch its key. *)
LEMMA WriteNoticedStep ==
    ASSUME Scoped, WatchKept, WriteNoticed, Next
    PROVE  WriteNoticed'
<1> SUFFICES ASSUME NEW c \in Clients, call'[c] # Quiet, NEW t \in call'[c].forbids
             PROVE  /\ c = Base /\ call'[c].verb = "write"
                    /\ call'[c].key \in guarded'[t]
                    /\ call'[c].reply = Ok /\ Undisturbed(t, Closers \cup {"unwatch"})' => t \in dirty'
  BY DEF WriteNoticed
<1>1. t \in Txs
  <2>1. call'[c] \in Calls
    BY ScopedStep DEF Scoped, TypeOK
  <2> QED
    BY <2>1 DEF Calls
<1>2. Undisturbed(t, Closers \cup {"unwatch"})' => Undisturbed(t, Closers \cup {"unwatch"})
  BY <1>1, SaidGrows, ScopedFacts DEF Undisturbed
<1>3. guarded[t] \subseteq guarded'[t]
  BY <1>1, GuardedMoves
<1>4. Undisturbed(t, Closers \cup {"unwatch"}) => (t \in dirty => t \in dirty')
  BY <1>1, WatchMoves
<1>5. CASE call'[c] = call[c]
  BY <1>2, <1>3, <1>4, <1>5 DEF WriteNoticed
<1>6. CASE call'[c].reply = NoReply /\ call'[c].forbids = Forbidden(c, call'[c].verb, call'[c].key)
  BY <1>3, <1>6 DEF Forbidden, NoReply, Ok
<1>7. CASE Run(c)
  <2>1. /\ call'[c].verb = call[c].verb /\ call'[c].key = call[c].key /\ call'[c].forbids = call[c].forbids
        /\ call'[c].reply \in {ReplyTo(call[c].wire), call[c].reply}
    BY <1>7, RunFacts
  <2>2. call[c] # Quiet /\ Handle(call[c].wire)
    BY <1>7 DEF Run
  <2>3. /\ c = Base /\ call[c].verb = "write" /\ call[c].key \in guarded[t]
        /\ call[c].reply = Ok /\ Undisturbed(t, Closers \cup {"unwatch"}) => t \in dirty
    BY <2>1, <2>2 DEF WriteNoticed
  <2>4. ASSUME Undisturbed(t, Closers \cup {"unwatch"})
        PROVE  t \in dirty'
    <3>1. PICK w : w = call[c].wire
      OBVIOUS
    <3>2. /\ w \in Requests /\ Genuine(w) /\ Handle(w) /\ w.by = Base
          /\ w.verb = "write" /\ w.key = call[c].key
      BY <2>2, <2>3, <3>1, CallFacts
    <3>3. w.form = "direct" /\ w.key \in watching[t]
      BY <1>1, <2>3, <2>4, <3>2, GenuineFacts DEF WatchKept
    <3> QED
      BY <1>1, <3>2, <3>3, WatchEffect, ScopedFacts
  <2> QED
    BY <1>2, <1>3, <2>1, <2>3, <2>4
<1> QED
  BY <1>5, <1>6, <1>7, CallMoves

(* A success is the answer to an Exec. *)
LEMMA SuccessAskedStep ==
    ASSUME Scoped, SuccessAsked, Next
    PROVE  SuccessAsked'
<1> SUFFICES ASSUME NEW t \in Txs, outcome'[t].kind = "success"
             PROVE  "exec" \in said'[t]
  BY DEF SuccessAsked
<1>1. said[t] \subseteq said'[t]
  BY SaidGrows, ScopedFacts
<1>2. CASE outcome'[t] = outcome[t]
  BY <1>1, <1>2 DEF SuccessAsked
<1>3. CASE outcome'[t] # outcome[t]
  <2>1. call[t] # Quiet /\ call[t].verb = "exec"
    BY <1>3, OutcomeMoves DEF Ended
  <2> QED
    BY <1>1, <2>1, CallFacts, ScopedFacts
<1> QED
  BY <1>2, <1>3

(* A conflict is not forgotten until the transaction cannot commit. *)
LEMMA ConflictKeptStep ==
    ASSUME MaxExecutions = 1, Scoped, OpenedOnce, Watched, Next
    PROVE  ConflictKept'
<1> SUFFICES ASSUME NEW t \in conflicts', SingleUse(t)', "unwatch" \notin said'[t]
             PROVE  /\ t \in dirty' \/ Finished(t)'
                    /\ call'[t] # Quiet /\ call'[t].verb = "exec" => call'[t].reply.kind # "array"
                    /\ outcome'[t].kind # "success"
  BY DEF ConflictKept
<1>0. t \in Txs /\ t \in Clients
  <2>1. t \in Txs
    BY ScopedStep DEF Scoped, TypeOK
  <2> QED
    BY <2>1, ScopedFacts
<1>1. "unwatch" \notin said[t] /\ SingleUse(t)
  BY <1>0, SaidGrows, BegunGrows
<1>2. CASE t \in conflicts
  <2>1. /\ t \in dirty \/ Finished(t)
        /\ call[t] # Quiet /\ call[t].verb = "exec" => call[t].reply.kind # "array"
        /\ outcome[t].kind # "success"
    BY <1>1, <1>2 DEF Watched, ConflictKept
  <2>2. t \in dirty' \/ Finished(t)'
    BY <1>0, <1>1, <2>1, DirtyMoves, FinishedStays
  <2>3. ASSUME call'[t] # Quiet, call'[t].verb = "exec"
        PROVE  call'[t].reply.kind # "array"
    <3>1. CASE call'[t] = call[t]
      BY <2>1, <2>3, <3>1
    <3>2. CASE Run(t)
      <4>1. call[t] # Quiet /\ call[t].verb = "exec" /\ call'[t].reply \in {ReplyTo(call[t].wire), call[t].reply}
        BY <1>0, <2>3, <3>2, RunFacts DEF Run
      <4>2. PICK w : w = call[t].wire
        OBVIOUS
      <4>3. w \in Requests /\ Genuine(w) /\ w.by = t /\ w.verb = "exec"
        BY <1>0, <4>1, <4>2, CallFacts
      <4>4. ReplyTo(w) \in {Error, Null}
        BY <2>1, <4>3, ReplyFacts, GenuineFacts DEF Finished
      <4> QED
        BY <2>1, <4>1, <4>2, <4>4 DEF Error, Null
    <3> QED
      BY <1>0, <2>3, <3>1, <3>2, CallMoves DEF NoReply
  <2>4. outcome'[t].kind # "success"
    <3>1. CASE outcome'[t] = outcome[t]
      BY <2>1, <3>1
    <3>2. CASE outcome'[t] # outcome[t]
      <4>1. /\ call[t] # Quiet
            /\ \/ call[t].verb = "exec" /\ outcome'[t] = execOutcome(call[t].reply)
               \/ outcome'[t] = Ended("discarded", <<>>)
        BY <1>0, <3>2, OutcomeMoves
      <4>2. Ended("discarded", <<>>).kind # "success" /\ Ended("aborted", <<>>).kind # "success"
        BY DEF Ended
      <4> QED
        BY <2>1, <4>1, <4>2 DEF execOutcome
    <3> QED
      BY <3>1, <3>2
  <2> QED
    BY <2>2, <2>3, <2>4
<1>3. CASE t \notin conflicts
  <2>1. PICK c \in Clients : Return(c)
    BY <1>3 DEF Next, Begin, Issue, Fail, Run, RunStray, history
  <2>2. call[c] # Quiet /\ Learn(c, call[c].wire, call[c].reply) /\ UNCHANGED <<said, dirty>>
    BY <2>1 DEF Return, server
  <2>3. t \in call[c].forbids /\ said[t] \cap {"exec", "discard"} = {} /\ call[c].reply = Ok
    BY <1>3, <2>2 DEF Learn
  <2>4. Undisturbed(t, Closers \cup {"unwatch"})
    BY <1>1, <2>3 DEF Undisturbed, Closers
  <2>5. c = Base /\ t \in dirty
    BY <2>2, <2>3, <2>4 DEF Watched, WriteNoticed
  <2>6. call'[t] = call[t]
    BY <1>0, <2>1, <2>5, EndFacts, TransactionAssumption
  <2>7. call[t] # Quiet => call[t].verb # "exec"
    BY <1>0, <2>3, CallFacts
  <2>8. outcome'[t].kind # "success"
    BY <1>0, <2>2, <2>3, SuccessAskedStep DEF Watched, SuccessAsked
  <2> QED
    BY <2>2, <2>5, <2>6, <2>7, <2>8
<1> QED
  BY <1>2, <1>3

(* Watched holds when every request is executed once at most. *)
LEMMA WatchedInvariant ==
    ASSUME MaxExecutions = 1
    PROVE  Spec => []Watched
<1>1. Init => Watched
  <2> SUFFICES ASSUME Init
               PROVE  Watched
    OBVIOUS
  <2>1. \A t \in Txs : call[t] = Quiet /\ guarded[t] = {} /\ outcome[t].kind = "none"
    BY DEF Init, Clients
  <2>2. WriteNoticed /\ conflicts = {}
    BY DEF Init, WriteNoticed
  <2> QED
    BY <2>1, <2>2 DEF Watched, WatchKept, ConflictKept, SuccessAsked
<1>2. Scoped /\ Reported /\ Watched /\ [Next]_vars => Watched'
  <2> SUFFICES ASSUME Scoped, Reported, Watched, [Next]_vars
               PROVE  Watched'
    OBVIOUS
  <2>1. CASE Next
    BY <2>1, WatchKeptStep, WriteNoticedStep, SuccessAskedStep, ConflictKeptStep DEF Reported, Watched
  <2>2. CASE UNCHANGED vars
    <3>1. UNCHANGED <<call, stray, said, begun, open, watching, dirty, guarded, conflicts, outcome>>
      BY <2>2 DEF vars, server, history
    <3> QED
      BY <3>1 DEF Watched, WatchKept, WriteNoticed, ConflictKept, SuccessAsked, Undisturbed, SingleUse,
                  Finished, MultiAhead
  <2> QED
    BY <2>1, <2>2
<1> QED
  BY <1>1, <1>2, ScopedInvariant, ReportedInvariant, PTL DEF Spec

(* Optimistic locking works end to end: no transaction of a Tx on which    *)
(* Multi was called at most once commits over a write on a key it watches, *)
(* for any number of scopes, keys and commands, over a transport that      *)
(* sends a request once (Watch and Exec, transaction.go 116-146).          *)
THEOREM ConflictsAlwaysAbort ==
    ASSUME MaxExecutions = 1
    PROVE  Spec => []ConflictAborts
<1>1. Watched => ConflictAborts
  BY DEF Watched, ConflictKept, ConflictAborts
<1> QED
  BY <1>1, WatchedInvariant, PTL

-----------------------------------------------------------------------------
(* The end of a transaction is reported once *)

(* The MULTIs of t left in flight. *)
Waiting(t) == {s \in stray : OpensTx(s.wire, t)}

(* A MULTI of t is under way and was not executed yet. *)
Opening(t) == IF call[t] # Quiet /\ call[t].verb = "multi" /\ call[t].runs = 0 THEN 1 ELSE 0

(* Transaction t is open. *)
Opened(t) == IF t \in open THEN 1 ELSE 0

(* An Exec or a Discard of t is about to be told that it ended t. *)
Closing(t) ==
    IF call[t] # Quiet /\ call[t].reply # NoReply /\ Concludes(call[t].wire, call[t].reply)
    THEN 1 ELSE 0

(* Every end that was or will be reported has a call of Multi of its own.  *)
Budget(t) ==
    Opened(t) + Closing(t) + Opening(t) + Cardinality(Waiting(t)) + ended[t] <= begun[t]

(* The invariant for the ends: the budget, no reply before the execution,  *)
(* and no acknowledgement of a write beyond the last end.                  *)
EndsCounted ==
    /\ IsFiniteSet(stray)
    /\ \A t \in Txs :
        /\ Budget(t)
        /\ call[t] # Quiet /\ call[t].runs = 0 => call[t].reply = NoReply
        /\ call[t] # Quiet /\ call[t].reply = Queued => ended[t] < begun[t]

(* The MULTIs in flight can be counted. *)
LEMMA WaitingFinite ==
    ASSUME IsFiniteSet(stray), NEW t
    PROVE  IsFiniteSet(Waiting(t)) /\ Cardinality(Waiting(t)) \in Nat
BY FS_Subset, FS_CardinalityType DEF Waiting

(* One more request in flight. *)
LEMMA WaitingMore ==
    ASSUME IsFiniteSet(stray), NEW r, stray' = stray \cup {r}, NEW t
    PROVE  /\ IsFiniteSet(stray') /\ Cardinality(Waiting(t)') \in Nat
           /\ Cardinality(Waiting(t)') <= Cardinality(Waiting(t)) + 1
           /\ ~OpensTx(r.wire, t) => Cardinality(Waiting(t)') = Cardinality(Waiting(t))
<1>1. IsFiniteSet(Waiting(t)) /\ Cardinality(Waiting(t)) \in Nat
  BY WaitingFinite
<1>2. IsFiniteSet(stray')
  BY FS_AddElement
<1>3. CASE OpensTx(r.wire, t)
  <2>1. Waiting(t)' = Waiting(t) \cup {r}
    BY <1>3 DEF Waiting, OpensTx
  <2>2. Cardinality(Waiting(t) \cup {r}) = IF r \in Waiting(t) THEN Cardinality(Waiting(t)) ELSE Cardinality(Waiting(t)) + 1
    BY <1>1, FS_AddElement
  <2> QED
    BY <1>1, <1>2, <1>3, <2>1, <2>2
<1>4. CASE ~OpensTx(r.wire, t)
  <2>1. Waiting(t)' = Waiting(t)
    BY <1>4 DEF Waiting, OpensTx
  <2> QED
    BY <1>1, <1>2, <2>1
<1> QED
  BY <1>3, <1>4

(* One request in flight less. *)
LEMMA WaitingLess ==
    ASSUME IsFiniteSet(stray), NEW r \in stray, stray' = stray \ {r}, NEW t
    PROVE  /\ IsFiniteSet(stray') /\ Cardinality(Waiting(t)') \in Nat
           /\ OpensTx(r.wire, t) => Cardinality(Waiting(t)') = Cardinality(Waiting(t)) - 1
           /\ ~OpensTx(r.wire, t) => Cardinality(Waiting(t)') = Cardinality(Waiting(t))
<1>1. IsFiniteSet(Waiting(t)) /\ Cardinality(Waiting(t)) \in Nat
  BY WaitingFinite
<1>2. IsFiniteSet(stray')
  BY FS_RemoveElement
<1>3. IsFiniteSet(Waiting(t)') /\ Cardinality(Waiting(t)') \in Nat
  BY <1>2, FS_Subset, FS_CardinalityType DEF Waiting
<1>4. CASE OpensTx(r.wire, t)
  <2>1. Waiting(t)' = Waiting(t) \ {r} /\ r \in Waiting(t)
    BY <1>4 DEF Waiting, OpensTx
  <2>2. Cardinality(Waiting(t) \ {r}) = Cardinality(Waiting(t)) - 1
    BY <1>1, <2>1, FS_RemoveElement
  <2> QED
    BY <1>2, <1>3, <1>4, <2>1, <2>2
<1>5. CASE ~OpensTx(r.wire, t)
  <2>1. Waiting(t)' = Waiting(t)
    BY <1>5 DEF Waiting, OpensTx
  <2> QED
    BY <1>1, <1>2, <1>5, <2>1
<1> QED
  BY <1>4, <1>5

(* What the caller of t is told, it is told by the return of its own call. *)
LEMMA EndMoves ==
    ASSUME Scoped, Next, NEW t \in Txs
    PROVE  /\ ended[t] \in Nat /\ ended'[t] \in Nat
           /\ \/ ended'[t] = ended[t] /\ outcome'[t] = outcome[t]
              \/ ended'[t] = ended[t] + 1 /\ Return(t) /\ Closing(t) = 1
           /\ \/ acked'[t] = acked[t]
              \/ Return(t) /\ call[t] # Quiet /\ call[t].reply = Queued
<1>0. /\ ended \in [Txs -> Nat] /\ acked \in [Txs -> Seq(Tags)]
      /\ outcome \in [Txs -> [kind : {"none", "success", "aborted", "discarded"}, results : Seq(Tags)]]
  BY DEF Scoped, TypeOK
<1>1. ASSUME NEW c \in Clients, Return(c)
      PROVE  /\ \/ ended'[t] = ended[t] /\ outcome'[t] = outcome[t]
                \/ ended'[t] = ended[t] + 1 /\ Return(t) /\ Closing(t) = 1
             /\ \/ acked'[t] = acked[t]
                \/ Return(t) /\ call[t] # Quiet /\ call[t].reply = Queued
  <2>1. call[c] # Quiet /\ call[c].reply # NoReply /\ Learn(c, call[c].wire, call[c].reply)
    BY <1>1 DEF Return
  <2>2. CASE c # t
    BY <1>0, <2>1, <2>2 DEF Learn
  <2>3. CASE c = t /\ Concludes(call[t].wire, call[t].reply)
    <3>1. ended'[t] = ended[t] + 1 /\ Closing(t) = 1
      BY <1>0, <2>1, <2>3 DEF Learn, Closing
    <3>2. acked'[t] = acked[t] \/ call[t].reply = Queued
      BY <1>0, <2>1, <2>3 DEF Learn
    <3> QED
      BY <1>1, <2>1, <2>3, <3>1, <3>2
  <2>4. CASE c = t /\ ~Concludes(call[t].wire, call[t].reply)
    <3>1. ended'[t] = ended[t] /\ outcome'[t] = outcome[t]
      BY <2>1, <2>4 DEF Learn
    <3>2. acked'[t] = acked[t] \/ call[t].reply = Queued
      BY <1>0, <2>1, <2>4 DEF Learn
    <3> QED
      BY <1>1, <2>1, <2>4, <3>1, <3>2
  <2> QED
    BY <2>2, <2>3, <2>4
<1>2. CASE UNCHANGED history
  BY <1>0, <1>2 DEF history
<1>3. CASE \E c \in Clients : Return(c)
  BY <1>0, <1>1, <1>3
<1> QED
  BY <1>2, <1>3 DEF Next, Begin, Issue, Fail, Run, RunStray

(* The parts of a budget are numbers. *)
LEMMA BudgetTypes ==
    ASSUME NEW t
    PROVE  Opened(t) \in {0, 1} /\ Closing(t) \in {0, 1} /\ Opening(t) \in {0, 1}
BY DEF Opened, Closing, Opening

(* A call that was just made. *)
LEMMA IssueCounted ==
    ASSUME Scoped, EndsCounted, NEW t \in Txs,
           NEW c \in Clients, NEW verb \in Control \cup Plain, NEW key \in Keys, Issue(c, verb, key)
    PROVE  /\ UNCHANGED <<Opened(t), ended[t], stray>>
           /\ Closing(t)' + Opening(t)' + begun[t] <= Closing(t) + Opening(t) + begun'[t]
           /\ begun[t] \in Nat /\ begun'[t] \in Nat /\ begun[t] <= begun'[t]
           /\ call'[t] = call[t] \/ (call'[t].reply = NoReply)
<1>1. /\ call[c] = Quiet
      /\ begun' = IF verb = "multi" THEN [begun EXCEPT ![c] = @ + 1] ELSE begun
      /\ verb = "multi" => c \in Txs
      /\ UNCHANGED <<open, ended, stray>>
      /\ t \in Clients /\ begun \in [Txs -> Nat] /\ call \in [Clients -> {Quiet} \cup Calls]
  BY IssueFacts, ScopedFacts DEF server, history
<1>2. UNCHANGED <<Opened(t), ended[t], stray>>
  BY <1>1 DEF Opened
<1>3. begun[t] \in Nat /\ begun'[t] \in Nat /\ begun[t] <= begun'[t]
  BY <1>1
<1>4. CASE call'[t] = call[t]
  <2>1. Closing(t)' = Closing(t) /\ Opening(t)' = Opening(t)
    BY <1>4 DEF Closing, Opening, Concludes
  <2> QED
    BY <1>2, <1>3, <1>4, <2>1, BudgetTypes
<1>5. CASE call'[t] # call[t]
  <2>1. c = t /\ call'[t].verb = verb /\ call'[t].reply = NoReply
    <3>1. PICK w : call' = [call EXCEPT ![c] = [verb |-> verb, key |-> key, wire |-> w, runs |-> 0,
                                                reply |-> NoReply,
                                                forbids |-> Forbidden(c, verb, key)]]
      BY <1>5, IssueFacts
    <3>2. c = t
      BY <1>1, <1>5, <3>1
    <3> QED
      BY <1>1, <3>1, <3>2
  <2>2. Closing(t)' = 0 /\ Closing(t) = 0 /\ Opening(t) = 0
    BY <1>1, <2>1 DEF Closing, Opening
  <2>3. Opening(t)' = 0 \/ (Opening(t)' = 1 /\ begun'[t] = begun[t] + 1)
    BY <1>1, <2>1 DEF Opening
  <2> QED
    BY <1>2, <1>3, <2>1, <2>2, <2>3
<1> QED
  BY <1>4, <1>5

(* A call that ends. *)
LEMMA EndCounted ==
    ASSUME MaxExecutions = 1, Scoped, EndsCounted, Next, NEW t \in Txs,
           NEW c \in Clients, Return(c) \/ Fail(c)
    PROVE  /\ UNCHANGED <<Opened(t), begun[t]>>
           /\ IsFiniteSet(stray') /\ Cardinality(Waiting(t)') \in Nat
           /\ Closing(t)' + Opening(t)' + Cardinality(Waiting(t)') + ended'[t]
                 <= Closing(t) + Opening(t) + Cardinality(Waiting(t)) + ended[t]
           /\ call'[t] = Quiet \/ (call'[t] = call[t] /\ ended'[t] = ended[t])
<1>0. /\ IsFiniteSet(stray) /\ t \in Clients
      /\ call[t] # Quiet /\ call[t].runs = 0 => call[t].reply = NoReply
  BY ScopedFacts DEF EndsCounted
<1>1. /\ call[c] # Quiet /\ call[c].wire.by = c /\ call[c].wire.verb = call[c].verb
      /\ call'[c] = Quiet /\ (\A d \in Clients \ {c} : call'[d] = call[d])
      /\ UNCHANGED <<open, begun>>
  BY EndFacts, CallFacts DEF server
<1>2. UNCHANGED <<Opened(t), begun[t]>>
  BY <1>1 DEF Opened
<1>3. ended[t] \in Nat /\ ended'[t] \in Nat
  BY EndMoves
<1>4. Cardinality(Waiting(t)) \in Nat
  BY <1>0, WaitingFinite
<1> DEFINE r == [wire |-> call[c].wire, copy |-> 1]
<1>5. stray' = stray \/ (stray' = stray \cup {r} /\ call[c].runs = 0)
  BY StrayMoves
<1>6. r.wire = call[c].wire
  OBVIOUS
<1> HIDE DEF r
<1>7. stray' = stray => IsFiniteSet(stray') /\ Waiting(t)' = Waiting(t)
  BY <1>0 DEF Waiting
<1>8. stray' = stray \cup {r} =>
        /\ IsFiniteSet(stray') /\ Cardinality(Waiting(t)') \in Nat
        /\ Cardinality(Waiting(t)') <= Cardinality(Waiting(t)) + 1
        /\ ~OpensTx(r.wire, t) => Cardinality(Waiting(t)') = Cardinality(Waiting(t))
  BY <1>0, WaitingMore
<1>9. CASE c # t
  <2>1. call'[t] = call[t] /\ ~OpensTx(r.wire, t)
    BY <1>0, <1>1, <1>6, <1>9 DEF OpensTx
  <2>2. Closing(t)' = Closing(t) /\ Opening(t)' = Opening(t)
    BY <2>1 DEF Closing, Opening, Concludes
  <2>3. ended'[t] = ended[t]
    <3>1. call[t] # Quiet /\ Return(t) => call'[t] = Quiet
      BY <1>0, EndFacts
    <3>2. Return(t) => call[t] # Quiet
      BY DEF Return
    <3> QED
      BY <2>1, <3>1, <3>2, EndMoves
  <2> QED
    BY <1>2, <1>3, <1>4, <1>5, <1>7, <1>8, <2>1, <2>2, <2>3, BudgetTypes
<1>10. CASE c = t
  <2>1. Closing(t)' = 0 /\ Opening(t)' = 0
    BY <1>1, <1>10 DEF Closing, Opening
  <2>2. ended'[t] = ended[t] \/ (ended'[t] = ended[t] + 1 /\ Return(t) /\ Closing(t) = 1)
    BY EndMoves
  <2>3. CASE stray' = stray
    BY <1>1, <1>2, <1>3, <1>4, <1>7, <1>10, <2>1, <2>2, <2>3, BudgetTypes
  <2>4. CASE stray' = stray \cup {r} /\ call[c].runs = 0
    <3>1. ended'[t] = ended[t]
      BY <1>0, <1>1, <1>10, <2>2, <2>4 DEF Closing
    <3>2. ~OpensTx(r.wire, t) \/ Opening(t) = 1
      BY <1>1, <1>6, <1>10, <2>4 DEF OpensTx, Opening
    <3> QED
      BY <1>1, <1>2, <1>3, <1>4, <1>8, <1>10, <2>1, <2>4, <3>1, <3>2, BudgetTypes
  <2> QED
    BY <1>5, <2>3, <2>4
<1> QED
  BY <1>9, <1>10

(* The request of t's own call is executed: what it opens was counted, and *)
(* an end or a queued write needs an open transaction.                     *)
LEMMA OwnRunCounted ==
    ASSUME MaxExecutions = 1, Scoped, EndsCounted, NEW t \in Txs, Run(t)
    PROVE  /\ Opened(t)' + Closing(t)' + Opening(t)' <= Opened(t) + Closing(t) + Opening(t)
           /\ call'[t].runs # 0
           /\ call'[t].reply = Queued => Opened(t) = 1
<1>0. PICK w : w = call[t].wire
  OBVIOUS
<1>1. /\ t \in Clients /\ t # Base /\ call[t] # Quiet /\ call[t] \in Calls /\ ServerTypes
      /\ w \in Requests /\ Genuine(w) /\ Handle(w) /\ w.by = t /\ w.verb = call[t].verb
  BY <1>0, RunFacts, ScopedFacts, CallFacts, TransactionAssumption DEF Run
<1>2. /\ call[t].runs = 0 /\ call'[t].runs # 0 /\ call'[t] # Quiet
      /\ call'[t].wire = w /\ call'[t].verb = call[t].verb
      /\ call'[t].reply = ReplyTo(w)
  <2>1. /\ call[t].runs < 1 /\ call'[t].runs = call[t].runs + 1 /\ call'[t] # Quiet
        /\ call'[t].wire = call[t].wire /\ call'[t].verb = call[t].verb
    BY <1>1, RunFacts
  <2>2. call[t].runs = 0 /\ call'[t].runs = 1
    BY <1>1, <2>1 DEF Calls
  <2>3. call[t].reply = NoReply
    BY <1>1, <2>2 DEF EndsCounted
  <2>4. PICK seen \in {ReplyTo(call[t].wire), call[t].reply} \ {NoReply} :
          call' = [call EXCEPT ![t] = [call[t] EXCEPT !.runs = call[t].runs + 1, !.reply = seen]]
    <3>1. \E seen \in {ReplyTo(call[t].wire), call[t].reply} \ {NoReply} :
             /\ seen \in Replies
             /\ call' = [call EXCEPT ![t] = [call[t] EXCEPT !.runs = call[t].runs + 1, !.reply = seen]]
      BY <1>1, RunFacts, Zenon
    <3> QED
      BY <3>1, Zenon
  <2>5. call'[t].reply = seen
    <3>1. call \in [Clients -> {Quiet} \cup Calls]
      BY ScopedFacts
    <3> QED
      BY <1>1, <2>4, <3>1 DEF Calls
  <2> QED
    BY <1>0, <2>1, <2>2, <2>3, <2>4, <2>5
<1>3. /\ t \in open' /\ t \notin open => w.verb = "multi"
      /\ w.verb \in Closers => t \notin open'
  BY <1>1, OpenEffect
<1>4. Opening(t)' = 0 /\ (w.verb = "multi" => Opening(t) = 1)
  BY <1>1, <1>2 DEF Opening
<1>5. /\ w.verb = "discard" => ReplyTo(w) = IF t \in open THEN Ok ELSE Error
      /\ w.verb = "exec" => ReplyTo(w) = IF t \notin open THEN Error
                                         ELSE IF t \in dirty THEN Null
                                         ELSE Array(TagsOf(queue[t]))
  BY <1>1, GenuineFacts, ReplyFacts
<1>6. Closing(t)' = 0 \/ (Closing(t)' = 1 /\ w.verb \in Closers /\ t \in open)
  <2>1. Closing(t)' = IF call'[t] # Quiet /\ call'[t].reply # NoReply
                         /\ (\/ call'[t].wire.verb = "exec" /\ call'[t].reply # Error
                             \/ call'[t].wire.verb = "discard" /\ call'[t].reply = Ok)
                      THEN 1 ELSE 0
    BY DEF Closing, Concludes
  <2>2. CASE Closing(t)' # 0
    <3>1. \/ w.verb = "exec" /\ ReplyTo(w) # Error
          \/ w.verb = "discard" /\ ReplyTo(w) = Ok
      BY <1>2, <2>1, <2>2
    <3>2. Ok # Error
      BY DEF Ok, Error
    <3> QED
      BY <1>5, <2>1, <2>2, <3>1, <3>2 DEF Closers
  <2> QED
    BY <2>2
<1>7. Opened(t)' + Closing(t)' + Opening(t)' <= Opened(t) + Closing(t) + Opening(t)
  <2>1. Opened(t) = (IF t \in open THEN 1 ELSE 0) /\ Opened(t)' = (IF t \in open' THEN 1 ELSE 0)
    BY DEF Opened
  <2>2. CASE w.verb = "multi"
    BY <1>4, <1>6, <2>1, <2>2, BudgetTypes DEF Closers
  <2>3. CASE w.verb # "multi"
    BY <1>3, <1>4, <1>6, <2>1, <2>3, BudgetTypes
  <2> QED
    BY <2>2, <2>3
<1>8. call'[t].reply = Queued => Opened(t) = 1
  <2>1. CASE w.form = "txqueue"
    <3>1. w.id = t
      BY <1>1, <2>1 DEF Genuine
    <3> QED
      <4>1. ReplyTo(w) = IF t \in open THEN Queued ELSE Error
        BY <1>1, <2>1, <3>1, ReplyFacts
      <4>2. Queued # Error
        BY DEF Queued, Error
      <4> QED
        BY <1>2, <4>1, <4>2 DEF Opened
  <2>2. CASE w.form # "txqueue"
    <3>1. w.form = "control" /\ w.verb \in Control
      BY <1>1, <2>2 DEF Genuine, Requests
    <3>2. ReplyTo(w) # Queued
      BY <1>1, <3>1, ReplyFacts, GenuineFacts DEF Control, Ok, Queued, Error, Null, Array
    <3> QED
      BY <1>2, <3>2
  <2> QED
    BY <2>1, <2>2
<1> QED
  BY <1>2, <1>7, <1>8

(* Somebody else's request is executed. *)
LEMMA OtherRunCounted ==
    ASSUME Scoped, NEW t \in Txs, NEW c \in Clients \ {t}, Run(c)
    PROVE  Opened(t)' <= Opened(t) /\ call'[t] = call[t] /\ stray' = stray
<1>1. /\ call[c] # Quiet /\ call[c].wire.by = c /\ ServerTypes
      /\ Executes(call[c].wire) /\ stray' = stray /\ call'[t] = call[t]
  BY RunFacts, RunExecutes, CallFacts, ScopedFacts DEF Run
<1>2. t \in open' => t \in open
  BY <1>1, OpenEffect DEF Executes
<1> QED
  BY <1>1, <1>2 DEF Opened

(* A request left in flight is executed: what it opens was counted. *)
LEMMA StrayRunCounted ==
    ASSUME Scoped, EndsCounted, NEW t \in Txs, RunStray
    PROVE  /\ call' = call /\ IsFiniteSet(stray') /\ Cardinality(Waiting(t)') \in Nat
           /\ Opened(t)' + Cardinality(Waiting(t)') <= Opened(t) + Cardinality(Waiting(t))
<1>1. PICK s \in stray : Executes(s.wire) /\ stray' = stray \ {s} /\ call' = call
  BY StrayExecutes
<1>2. IsFiniteSet(stray) /\ Cardinality(Waiting(t)) \in Nat /\ ServerTypes
  BY WaitingFinite, ScopedFacts DEF EndsCounted
<1>3. /\ IsFiniteSet(stray') /\ Cardinality(Waiting(t)') \in Nat
      /\ OpensTx(s.wire, t) => Cardinality(Waiting(t)') = Cardinality(Waiting(t)) - 1
      /\ ~OpensTx(s.wire, t) => Cardinality(Waiting(t)') = Cardinality(Waiting(t))
  BY <1>1, <1>2, WaitingLess
<1>4. t \in open' /\ t \notin open => OpensTx(s.wire, t)
  BY <1>1, <1>2, OpenEffect DEF Executes, OpensTx
<1>5. Opened(t) = (IF t \in open THEN 1 ELSE 0) /\ Opened(t)' = (IF t \in open' THEN 1 ELSE 0)
  BY DEF Opened
<1> QED
  BY <1>1, <1>2, <1>3, <1>4, <1>5

(* One step of the count, for one transaction. *)
LEMMA CountedStep ==
    ASSUME MaxExecutions = 1, Scoped, EndsCounted, Next, NEW t \in Txs
    PROVE  /\ IsFiniteSet(stray') /\ Budget(t)'
           /\ call'[t] # Quiet /\ call'[t].runs = 0 => call'[t].reply = NoReply
           /\ call'[t] # Quiet /\ call'[t].reply = Queued => ended'[t] < begun'[t]
<1>0. /\ IsFiniteSet(stray) /\ Cardinality(Waiting(t)) \in Nat /\ t \in Clients
      /\ ended[t] \in Nat /\ ended'[t] \in Nat
      /\ begun[t] \in Nat /\ begun'[t] \in Nat /\ begun[t] <= begun'[t]
  BY WaitingFinite, EndMoves, BegunGrows, ScopedFacts DEF EndsCounted
<1>1. /\ Opened(t) + Closing(t) + Opening(t) + Cardinality(Waiting(t)) + ended[t] <= begun[t]
      /\ call[t] # Quiet /\ call[t].runs = 0 => call[t].reply = NoReply
      /\ call[t] # Quiet /\ call[t].reply = Queued => ended[t] < begun[t]
  BY DEF EndsCounted, Budget
<1>2. /\ Opened(t) \in {0, 1} /\ Closing(t) \in {0, 1} /\ Opening(t) \in {0, 1}
      /\ Opened(t)' \in {0, 1} /\ Closing(t)' \in {0, 1} /\ Opening(t)' \in {0, 1}
  BY DEF Opened, Closing, Opening
<1>3. SUFFICES /\ IsFiniteSet(stray')
               /\ Opened(t)' + Closing(t)' + Opening(t)' + Cardinality(Waiting(t)') + ended'[t] <= begun'[t]
               /\ call'[t] # Quiet /\ call'[t].runs = 0 => call'[t].reply = NoReply
               /\ call'[t] # Quiet /\ call'[t].reply = Queued => ended'[t] < begun'[t]
  BY DEF Budget
<1>4. call'[t] = call[t] => Closing(t)' = Closing(t) /\ Opening(t)' = Opening(t)
  BY DEF Closing, Opening, Concludes
<1>5. stray' = stray => Cardinality(Waiting(t)') = Cardinality(Waiting(t))
  BY DEF Waiting
<1>6. CASE \E u \in Txs : Begin(u)
  <2>1. UNCHANGED <<call, stray, begun, ended, open>>
    BY <1>6 DEF Begin, server, history
  <2>2. Opened(t)' = Opened(t)
    BY <2>1 DEF Opened
  <2> QED
    BY <1>0, <1>1, <1>2, <1>4, <1>5, <2>1, <2>2
<1>7. ASSUME NEW c \in Clients, NEW verb \in Control \cup Plain, NEW key \in Keys, Issue(c, verb, key)
      PROVE  /\ IsFiniteSet(stray')
             /\ Opened(t)' + Closing(t)' + Opening(t)' + Cardinality(Waiting(t)') + ended'[t] <= begun'[t]
             /\ call'[t] # Quiet /\ call'[t].runs = 0 => call'[t].reply = NoReply
             /\ call'[t] # Quiet /\ call'[t].reply = Queued => ended'[t] < begun'[t]
  <2>1. /\ Opened(t)' = Opened(t) /\ ended'[t] = ended[t] /\ stray' = stray
        /\ Closing(t)' + Opening(t)' + begun[t] <= Closing(t) + Opening(t) + begun'[t]
        /\ call'[t] = call[t] \/ call'[t].reply = NoReply
    BY <1>7, IssueCounted
  <2>2. NoReply # Queued
    BY DEF NoReply, Queued
  <2> QED
    BY <1>0, <1>1, <1>2, <1>5, <2>1, <2>2
<1>8. ASSUME NEW c \in Clients, Return(c) \/ Fail(c)
      PROVE  /\ IsFiniteSet(stray')
             /\ Opened(t)' + Closing(t)' + Opening(t)' + Cardinality(Waiting(t)') + ended'[t] <= begun'[t]
             /\ call'[t] # Quiet /\ call'[t].runs = 0 => call'[t].reply = NoReply
             /\ call'[t] # Quiet /\ call'[t].reply = Queued => ended'[t] < begun'[t]
  <2>1. /\ Opened(t)' = Opened(t) /\ begun'[t] = begun[t]
        /\ IsFiniteSet(stray') /\ Cardinality(Waiting(t)') \in Nat
        /\ Closing(t)' + Opening(t)' + Cardinality(Waiting(t)') + ended'[t]
              <= Closing(t) + Opening(t) + Cardinality(Waiting(t)) + ended[t]
        /\ call'[t] = Quiet \/ (call'[t] = call[t] /\ ended'[t] = ended[t])
    BY <1>8, EndCounted
  <2> QED
    BY <1>0, <1>1, <1>2, <2>1
<1>9. ASSUME Run(t)
      PROVE  /\ IsFiniteSet(stray')
             /\ Opened(t)' + Closing(t)' + Opening(t)' + Cardinality(Waiting(t)') + ended'[t] <= begun'[t]
             /\ call'[t] # Quiet /\ call'[t].runs = 0 => call'[t].reply = NoReply
             /\ call'[t] # Quiet /\ call'[t].reply = Queued => ended'[t] < begun'[t]
  <2>1. UNCHANGED <<stray, ended, begun>>
    BY <1>9 DEF Run, history
  <2>2. /\ Opened(t)' + Closing(t)' + Opening(t)' <= Opened(t) + Closing(t) + Opening(t)
        /\ call'[t].runs # 0
        /\ call'[t].reply = Queued => Opened(t) = 1
    BY <1>9, OwnRunCounted
  <2> QED
    BY <1>0, <1>1, <1>2, <1>5, <2>1, <2>2
<1>10. ASSUME NEW c \in Clients \ {t}, Run(c)
       PROVE  /\ IsFiniteSet(stray')
              /\ Opened(t)' + Closing(t)' + Opening(t)' + Cardinality(Waiting(t)') + ended'[t] <= begun'[t]
              /\ call'[t] # Quiet /\ call'[t].runs = 0 => call'[t].reply = NoReply
              /\ call'[t] # Quiet /\ call'[t].reply = Queued => ended'[t] < begun'[t]
  <2>1. UNCHANGED <<ended, begun>>
    BY <1>10 DEF Run, history
  <2>2. Opened(t)' <= Opened(t) /\ call'[t] = call[t] /\ stray' = stray
    BY <1>10, OtherRunCounted
  <2> QED
    BY <1>0, <1>1, <1>2, <1>4, <1>5, <2>1, <2>2
<1>11. CASE RunStray
  <2>1. UNCHANGED <<ended, begun>>
    BY <1>11 DEF RunStray, history
  <2>2. /\ call' = call /\ IsFiniteSet(stray') /\ Cardinality(Waiting(t)') \in Nat
        /\ Opened(t)' + Cardinality(Waiting(t)') <= Opened(t) + Cardinality(Waiting(t))
    BY <1>11, StrayRunCounted
  <2> QED
    BY <1>0, <1>1, <1>2, <1>4, <2>1, <2>2
<1> QED
  BY <1>6, <1>7, <1>8, <1>9, <1>10, <1>11 DEF Next

(* The requests in flight can be counted. *)
LEMMA StrayFinite ==
    ASSUME MaxExecutions = 1, Scoped, IsFiniteSet(stray), Next
    PROVE  IsFiniteSet(stray')
<1>1. CASE stray' = stray
  BY <1>1
<1>2. ASSUME NEW c \in Clients, Return(c) \/ Fail(c)
      PROVE  IsFiniteSet(stray')
  <2>1. stray' = stray \/ stray' = stray \cup {[wire |-> call[c].wire, copy |-> 1]}
    BY <1>2, StrayMoves
  <2> QED
    BY <2>1, FS_AddElement
<1>3. CASE RunStray
  <2>1. PICK s \in stray : stray' = stray \ {s}
    BY <1>3, StrayExecutes
  <2> QED
    BY <2>1, FS_RemoveElement
<1> QED
  BY <1>1, <1>2, <1>3 DEF Next, Begin, Issue, Run

(* The ends stay counted. *)
LEMMA EndsInvariant ==
    ASSUME MaxExecutions = 1
    PROVE  Spec => []EndsCounted
<1>1. Init => EndsCounted
  <2> SUFFICES ASSUME Init
               PROVE  EndsCounted
    OBVIOUS
  <2>1. /\ stray = {} /\ open = {} /\ Txs \subseteq Clients
        /\ call = [c \in Clients |-> Quiet] /\ begun = [t \in Txs |-> 0] /\ ended = [t \in Txs |-> 0]
    BY DEF Init, Clients
  <2>2. IsFiniteSet(stray) /\ Cardinality({}) = 0
    BY <2>1, FS_EmptySet
  <2>3. ASSUME NEW t \in Txs
        PROVE  /\ call[t] = Quiet /\ Opened(t) = 0 /\ Closing(t) = 0 /\ Opening(t) = 0
               /\ Waiting(t) = {} /\ begun[t] = 0 /\ ended[t] = 0
    BY <2>1, <2>3 DEF Opened, Closing, Opening, Waiting
  <2> QED
    BY <2>2, <2>3 DEF EndsCounted, Budget
<1>2. Scoped /\ EndsCounted /\ [Next]_vars => EndsCounted'
  <2> SUFFICES ASSUME Scoped, EndsCounted, [Next]_vars
               PROVE  EndsCounted'
    OBVIOUS
  <2>1. CASE Next
    <3>1. IsFiniteSet(stray')
      BY <2>1, StrayFinite DEF EndsCounted
    <3> QED
      BY <2>1, <3>1, CountedStep DEF EndsCounted
  <2>2. CASE UNCHANGED vars
    <3>1. UNCHANGED <<call, stray, begun, ended, open>>
      BY <2>2 DEF vars, server, history
    <3> QED
      BY <3>1 DEF EndsCounted, Budget, Opened, Closing, Opening, Waiting, Concludes
  <2> QED
    BY <2>1, <2>2
<1> QED
  BY <1>1, <1>2, ScopedInvariant, PTL DEF Spec

(* A finished transaction's caller is told nothing more. *)
LEMMA EndsKept ==
    ASSUME Scoped, EndsCounted, Next, NEW t \in Txs, ended[t] >= begun[t]
    PROVE  UNCHANGED <<outcome[t], ended[t], acked[t]>>
<1>1. /\ Opened(t) + Closing(t) + Opening(t) + Cardinality(Waiting(t)) + ended[t] <= begun[t]
      /\ call[t] # Quiet /\ call[t].reply = Queued => ended[t] < begun[t]
      /\ Cardinality(Waiting(t)) \in Nat
  BY WaitingFinite DEF EndsCounted, Budget
<1>2. ended[t] \in Nat /\ begun[t] \in Nat
  BY EndMoves, BegunGrows
<1>3. Closing(t) # 1 /\ ~(call[t] # Quiet /\ call[t].reply = Queued)
  BY <1>1, <1>2, BudgetTypes
<1> QED
  BY <1>3, EndMoves

(* The end of a transaction is reported once, over a transport that sends  *)
(* a request once: for any number of scopes, keys and commands, and in     *)
(* whatever order Multi, Exec and Discard are called, repeated and given   *)
(* up, no more of them are told that they ended a transaction than Multi   *)
(* was called (Exec and Discard, transaction.go 106-125 and 140-146).      *)
THEOREM OutcomesAreFinal ==
    ASSUME MaxExecutions = 1
    PROVE  Spec => OutcomeIsFinal
<1>1. Scoped /\ EndsCounted /\ [Next]_vars =>
        [\A t \in Txs : ended[t] >= begun[t] => UNCHANGED <<outcome[t], ended[t], acked[t]>>]_vars
  BY EndsKept
<1> QED
  BY <1>1, ScopedInvariant, EndsInvariant, PTL DEF Spec, OutcomeIsFinal
=============================================================================
