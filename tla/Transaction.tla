---------------------------- MODULE Transaction ----------------------------
(***************************************************************************)
(* transaction.go and the part of mapCommandToWire it relies on: MULTI ..  *)
(* EXEC scopes beside the client they were opened from.  A Tx is a shallow *)
(* copy of the client that carries a client id; writes issued through it   *)
(* travel as TXQUEUE, control commands carry the id themselves, and what   *)
(* cannot be queued is refused.  The client it was copied from goes on     *)
(* executing its commands at once.                                         *)
(*                                                                         *)
(* Every client object makes one call at a time.  A call goes through a    *)
(* transport with the promises of CallService: its command is executed at  *)
(* most MaxExecutions times, perhaps after the call returned, and the      *)
(* caller gets the server's reply or a transport error.  The server's      *)
(* transaction table is external.                                          *)
(***************************************************************************)
EXTENDS Naturals, Sequences, FiniteSets, SequencesExt

CONSTANTS Txs,           \* transaction scopes, named by their client id
          Base,          \* the client Transaction() was called on
          NoTx,          \* txClientID == ""
          Keys,
          MaxOps,        \* bound: [Clients -> commands issued through it]
          MaxExecutions  \* 1 for SynapRPC and HTTP, 2 for RESP3

Clients == Txs \cup {Base}

ASSUME TransactionAssumption ==
    /\ Base \notin Txs
    /\ NoTx \notin Txs
    /\ MaxOps \in [Clients -> Nat]
    /\ MaxExecutions \in Nat \ {0}

(* Commands: the control commands, a queueable write and a read, which no  *)
(* transaction can queue.                                                  *)
Control == {"multi", "exec", "discard", "watch", "unwatch"}
Plain   == {"write", "read"}

VARIABLES txClientID,  \* [Clients -> the id its commands carry]
          call,        \* [Clients -> the call in progress]
          stray,       \* copies of requests in flight whose call has returned
          issued,      \* [Clients -> commands issued so far]
          said,        \* [Clients -> control commands issued so far]
          begun,       \* [Txs -> calls of Multi so far]
          open,        \* server: transactions between MULTI and EXEC or DISCARD
          queue,       \* server: [Txs -> queued writes]
          watching,    \* server: [Txs -> watched keys]
          dirty,       \* server: transactions with a watched key changed
          log,         \* server: the commands applied, in order
          acked,       \* [Txs -> writes whose caller was told they are queued]
          guarded,     \* [Txs -> keys whose Watch was acknowledged]
          conflicts,   \* transactions that must not commit
          outcome,     \* [Txs -> how Exec or Discard ended last]
          ended        \* [Txs -> calls of Exec or Discard that ended it]

server  == <<open, queue, watching, dirty, log>>
history == <<acked, guarded, conflicts, outcome, ended>>
vars    == <<txClientID, call, stray, issued, said, begun, server, history>>

Quiet == [verb |-> "none"]

(* What the server replies. *)
Ok       == [kind |-> "ok"]
Queued   == [kind |-> "queued"]
Error    == [kind |-> "error"]
Null     == [kind |-> "null"]
Array(s) == [kind |-> "array", results |-> s]
NoReply  == [kind |-> "none"]

Init ==
    /\ txClientID = [c \in Clients |-> NoTx]
    /\ call = [c \in Clients |-> Quiet]
    /\ stray = {}
    /\ issued = [c \in Clients |-> 0]
    /\ said = [c \in Clients |-> {}]
    /\ begun = [t \in Txs |-> 0]
    /\ open = {}
    /\ queue = [t \in Txs |-> <<>>]
    /\ watching = [t \in Txs |-> {}]
    /\ dirty = {}
    /\ log = <<>>
    /\ acked = [t \in Txs |-> <<>>]
    /\ guarded = [t \in Txs |-> {}]
    /\ conflicts = {}
    /\ outcome = [t \in Txs |-> [kind |-> "none", results |-> <<>>]]
    /\ ended = [t \in Txs |-> 0]

-----------------------------------------------------------------------------
(* The client *)

(* A command as it leaves mapCommandToWire: how the server is to treat it, *)
(* the id it carries, and who issued it as the n-th command.               *)
Wire(form, c, id, verb, key) ==
    [form |-> form, id |-> id, verb |-> verb, key |-> key, by |-> c, n |-> issued[c] + 1]

(* Mutant of mapCommandToWire: WATCH is sent without its keys. *)
MapDropsKeys(c, verb, key) ==
    IF verb = "watch" THEN Wire("control", c, c, verb, "none")
    ELSE IF verb \in Control THEN Wire("control", c, c, verb, key)
    ELSE IF txClientID[c] = NoTx THEN Wire("direct", c, NoTx, verb, key)
    ELSE IF verb = "write" THEN Wire("txqueue", c, txClientID[c], verb, key)
    ELSE Wire("refused", c, txClientID[c], verb, key)

(* Control commands carry the scope's own id; a write under a client id is *)
(* wrapped in TXQUEUE; another command under a client id is refused.       *)
mapCommandToWire(c, verb, key) ==
    IF verb \in Control THEN Wire("control", c, c, verb, key)
    ELSE IF txClientID[c] = NoTx THEN Wire("direct", c, NoTx, verb, key)
    ELSE IF verb = "write" THEN Wire("txqueue", c, txClientID[c], verb, key)
    ELSE Wire("refused", c, txClientID[c], verb, key)

(* Mutant of scope: the copy is given an id of the wrong kind. *)
ScopeMisnamed(t) == [txClientID EXCEPT ![t] = Base]

(* Mutant of scope: the id is set on the client itself, not on a copy. *)
ScopeWithoutCopy(t) == [c \in Clients |-> IF c \in {t, Base} THEN t ELSE txClientID[c]]

(* scope: the copy carries the id. *)
scope(t) == [txClientID EXCEPT ![t] = t]

(* Begin or Resume; the server is not contacted. *)
Begin(t) ==
    /\ txClientID[t] = NoTx
    /\ txClientID' = scope(t)
    /\ UNCHANGED <<call, stray, issued, said, begun, server, history>>

(* Transactions that, as far as their callers know, a command of client    *)
(* object c forbids to commit: it writes a key whose watch was             *)
(* acknowledged.                                                           *)
Forbidden(c, verb, key) ==
    {t \in Txs : c = Base /\ verb = "write" /\ key \in guarded[t]}

(* A method of a module or of the Tx is called, at any time and any number *)
(* of times; bound: MaxOps commands per client object.                     *)
Issue(c, verb, key) ==
    /\ call[c] = Quiet
    /\ issued[c] < MaxOps[c]
    /\ c \in Txs => txClientID[c] = c
    /\ c = Base => verb \in Plain
    /\ LET w == mapCommandToWire(c, verb, key) IN
        call' = IF w.form = "refused"
                THEN call
                ELSE [call EXCEPT ![c] = [verb |-> verb, key |-> key, wire |-> w, runs |-> 0,
                                          reply |-> NoReply, forbids |-> Forbidden(c, verb, key)]]
    /\ issued' = [issued EXCEPT ![c] = @ + 1]
    /\ said' = [said EXCEPT ![c] = @ \cup ({verb} \cap Control)]
    /\ begun' = IF verb = "multi" THEN [begun EXCEPT ![c] = @ + 1] ELSE begun
    /\ UNCHANGED <<txClientID, stray, server, history>>

Tag(w) == <<w.by, w.n>>

Ended(kind, results) == [kind |-> kind, results |-> results]

(* Mutant of execOutcome: a null reply counts as a commit without results. *)
ExecOutcomeIgnoresNull(r) ==
    IF r.kind = "array" THEN Ended("success", r.results) ELSE Ended("success", <<>>)

(* mapResponseFromWire for transaction.exec, and Tx.Exec: a list of        *)
(* results means committed, null means aborted.                            *)
execOutcome(r) ==
    IF r.kind = "array" THEN Ended("success", r.results) ELSE Ended("aborted", <<>>)

(* Mutant of Concludes: Discard does not look at the error. *)
ConcludesAnyway(w, r) == w.verb = "discard" \/ (w.verb = "exec" /\ r # Error)

(* Exec or Discard returns without an error. *)
Concludes(w, r) ==
    \/ w.verb = "exec" /\ r # Error
    \/ w.verb = "discard" /\ r = Ok

(* What the caller of client object c learns from reply r to request w; an *)
(* error reply is returned as an error.                                    *)
Learn(c, w, r) ==
    /\ acked' = IF w.form = "txqueue" /\ r = Queued /\ c \in Txs
                THEN [acked EXCEPT ![c] = Append(@, Tag(w))]
                ELSE acked
    /\ guarded' = IF w.verb = "watch" /\ r = Ok
                  THEN [guarded EXCEPT ![c] = @ \cup {call[c].key}]
                  ELSE guarded
    /\ conflicts' = IF r = Ok
                    THEN conflicts \cup {t \in call[c].forbids : said[t] \cap {"exec", "discard"} = {}}
                    ELSE conflicts
    /\ outcome' = IF Concludes(w, r)
                  THEN [outcome EXCEPT ![c] = IF w.verb = "exec" THEN execOutcome(r)
                                              ELSE Ended("discarded", <<>>)]
                  ELSE outcome
    /\ ended' = IF Concludes(w, r) THEN [ended EXCEPT ![c] = @ + 1] ELSE ended

(* The copies of c's request that can still be executed after its call     *)
(* returned: none, or as many as were not executed yet.                    *)
Copies(c) == [wire : {call[c].wire}, copy : (call[c].runs + 1) .. MaxExecutions]
Strays(c) == {stray, stray \cup Copies(c)}

(* The call returns the server's reply. *)
Return(c) ==
    /\ call[c] # Quiet
    /\ call[c].reply # NoReply
    /\ Learn(c, call[c].wire, call[c].reply)
    /\ stray' \in Strays(c)
    /\ call' = [call EXCEPT ![c] = Quiet]
    /\ UNCHANGED <<txClientID, issued, said, begun, server>>

(* The call returns a transport error, executed or not. *)
Fail(c) ==
    /\ call[c] # Quiet
    /\ stray' \in Strays(c)
    /\ call' = [call EXCEPT ![c] = Quiet]
    /\ UNCHANGED <<txClientID, issued, said, begun, server, history>>

-----------------------------------------------------------------------------
(* The server (external) *)

(* A write on key by anyone makes every transaction that watches it dirty. *)
Touched(key) == {t \in Txs : key \in watching[t]}

Entry(w, via) == [tag |-> Tag(w), via |-> via]

CloseTx(id) ==
    /\ open' = open \ {id}
    /\ queue' = [queue EXCEPT ![id] = <<>>]
    /\ watching' = [watching EXCEPT ![id] = {}]

(* The reply to request w. *)
ReplyTo(w) ==
    CASE w.form = "direct"                                          -> Ok
      [] w.form = "txqueue" /\ w.id \in open                        -> Queued
      [] w.verb \in {"multi", "watch", "unwatch"} /\ w.id \notin open -> Ok
      [] w.verb = "discard" /\ w.id \in open                        -> Ok
      [] w.verb = "exec" /\ w.id \in open /\ w.id \in dirty         -> Null
      [] w.verb = "exec" /\ w.id \in open \ dirty                   ->
            Array([i \in 1 .. Len(queue[w.id]) |-> Tag(queue[w.id][i])])
      [] OTHER                                                      -> Error

(* A command outside a transaction is applied at once. *)
Apply(w) ==
    /\ w.form = "direct"
    /\ log' = Append(log, Entry(w, "direct"))
    /\ dirty' = IF w.verb = "write" THEN dirty \cup Touched(w.key) ELSE dirty
    /\ UNCHANGED <<open, queue, watching>>

Enqueue(w) ==
    /\ w.form = "txqueue" /\ w.id \in open
    /\ queue' = [queue EXCEPT ![w.id] = Append(@, w)]
    /\ UNCHANGED <<open, watching, dirty, log>>

OpenTx(w) ==
    /\ w.verb = "multi" /\ w.id \notin open
    /\ open' = open \cup {w.id}
    /\ UNCHANGED <<queue, watching, dirty, log>>

WatchKey(w) ==
    /\ w.verb = "watch" /\ w.id \notin open
    /\ watching' = [watching EXCEPT ![w.id] = @ \cup {w.key}]
    /\ UNCHANGED <<open, queue, dirty, log>>

UnwatchKeys(w) ==
    /\ w.verb = "unwatch" /\ w.id \notin open
    /\ watching' = [watching EXCEPT ![w.id] = {}]
    /\ dirty' = dirty \ {w.id}
    /\ UNCHANGED <<open, queue, log>>

(* DISCARD, or EXEC of a transaction with a changed watched key. *)
DropTx(w) ==
    /\ w.verb = "discard" \/ (w.verb = "exec" /\ w.id \in dirty)
    /\ w.id \in open
    /\ CloseTx(w.id)
    /\ dirty' = dirty \ {w.id}
    /\ UNCHANGED log

CommitTx(w) ==
    /\ w.verb = "exec" /\ w.id \in open \ dirty
    /\ log' = log \o [i \in 1 .. Len(queue[w.id]) |-> Entry(queue[w.id][i], "exec")]
    /\ dirty' = (dirty \cup UNION {Touched(q.key) : q \in ToSet(queue[w.id])}) \ {w.id}
    /\ CloseTx(w.id)

Refuse(w) ==
    /\ ReplyTo(w) = Error
    /\ UNCHANGED server

(* The server executes request w. *)
Handle(w) ==
    \/ Apply(w) \/ Enqueue(w)
    \/ OpenTx(w) \/ WatchKey(w) \/ UnwatchKeys(w)
    \/ DropTx(w) \/ CommitTx(w)
    \/ Refuse(w)

(* A request of a call in progress is executed.  After a retry the caller  *)
(* sees the reply to either execution.                                     *)
Run(c) ==
    /\ call[c] # Quiet
    /\ call[c].runs < MaxExecutions
    /\ Handle(call[c].wire)
    /\ \E seen \in {ReplyTo(call[c].wire), call[c].reply} \ {NoReply} :
        call' = [call EXCEPT ![c].runs = @ + 1, ![c].reply = seen]
    /\ UNCHANGED <<txClientID, stray, issued, said, begun, history>>

(* A request left over from a call that returned is executed. *)
RunStray ==
    \E s \in stray :
        /\ Handle(s.wire)
        /\ stray' = stray \ {s}
        /\ UNCHANGED <<txClientID, call, issued, said, begun, history>>

-----------------------------------------------------------------------------
Next ==
    \/ \E t \in Txs : Begin(t)
    \/ \E c \in Clients :
        \/ \E verb \in Control \cup Plain, key \in Keys : Issue(c, verb, key)
        \/ Return(c)
        \/ Fail(c)
        \/ Run(c)
    \/ RunStray

Spec == Init /\ [][Next]_vars

-----------------------------------------------------------------------------
Tags     == Clients \X Nat
Requests == [form : {"direct", "txqueue", "control"}, id : Txs \cup {NoTx},
             verb : Control \cup Plain, key : Keys, by : Clients, n : Nat]
Entries  == [tag : Tags, via : {"direct", "exec"}]
Replies  == {Ok, Queued, Error, Null, NoReply} \cup [kind : {"array"}, results : Seq(Tags)]
Calls    == [verb : Control \cup Plain, key : Keys, wire : Requests, runs : 0 .. MaxExecutions,
             reply : Replies, forbids : SUBSET Txs]

(* What a client object makes is a request the server knows how to treat,  *)
(* every transaction with queued writes is open, and the callers' views    *)
(* and the server's tables stay within their types (transaction.go 34-50,  *)
(* client.go 414-439).                                                     *)
TypeOK ==
    /\ txClientID \in [Clients -> Txs \cup {NoTx}]
    /\ call \in [Clients -> {Quiet} \cup Calls]
    /\ stray \subseteq [wire : Requests, copy : 1 .. MaxExecutions]
    /\ issued \in [Clients -> Nat] /\ \A c \in Clients : issued[c] <= MaxOps[c]
    /\ said \in [Clients -> SUBSET Control]
    /\ begun \in [Txs -> Nat] /\ ended \in [Txs -> Nat]
    /\ open \subseteq Txs /\ dirty \subseteq Txs /\ conflicts \subseteq Txs
    /\ queue \in [Txs -> Seq(Requests)] /\ \A t \in Txs : queue[t] # <<>> => t \in open
    /\ watching \in [Txs -> SUBSET Keys] /\ guarded \in [Txs -> SUBSET Keys]
    /\ log \in Seq(Entries)
    /\ acked \in [Txs -> Seq(Tags)]
    /\ outcome \in [Txs -> [kind : {"none", "success", "aborted", "discarded"}, results : Seq(Tags)]]

(* A command issued through a Tx is never executed outside its             *)
(* transaction, and one issued through the client the Tx came from is      *)
(* never caught in it, however the two are interleaved.                    *)
ScopesAreSeparate ==
    /\ \A e \in ToSet(log) : e.via = (IF e.tag[1] = Base THEN "direct" ELSE "exec")
    /\ \A t \in Txs : \A w \in ToSet(queue[t]) : w.by = t

(* Where the commands of client object c stand in the server's log. *)
Applied(c) == {i \in DOMAIN log : log[i].tag[1] = c}

(* Client object c's commands stand in the log as one block, which is s:   *)
(* all of them, in that order, with nobody else's in between.              *)
AppliedAsBlock(c, s) ==
    \E start \in 0 .. Len(log) :
        /\ Applied(c) = {start + i : i \in DOMAIN s}
        /\ \A i \in DOMAIN s : log[start + i].tag = s[i]

(* Multi was called once at most: t is one transaction.  A Tx on which it  *)
(* is called again is another transaction under the same id, and the       *)
(* server cannot tell a late request of the first from one of the second.  *)
SingleUse(t) == begun[t] <= 1

(* What Exec and Discard report is what happened, however often they are   *)
(* called: after a success the transaction was applied atomically and its  *)
(* commands are the results, every write whose caller was told it is       *)
(* queued among them; after an abort or a discard nothing of the           *)
(* transaction is ever applied.                                            *)
OutcomeIsTrue ==
    \A t \in Txs : SingleUse(t) =>
        /\ outcome[t].kind = "success" =>
            /\ AppliedAsBlock(t, outcome[t].results)
            /\ ToSet(acked[t]) \subseteq ToSet(outcome[t].results)
        /\ outcome[t].kind \in {"aborted", "discarded"} => Applied(t) = {}

(* The end of a transaction is reported once.  When as many calls of Exec  *)
(* and Discard returned without an error as Multi was called, no later one *)
(* is told that it ended a transaction, and no later write that it was     *)
(* queued, in whatever order and however often Multi, Exec and Discard are *)
(* called and whatever requests of the scope were given up and still       *)
(* arrive.                                                                 *)
OutcomeIsFinal ==
    [][\A t \in Txs : ended[t] >= begun[t] => UNCHANGED <<outcome[t], ended[t], acked[t]>>]_vars

(* Optimistic locking works end to end: when a watch was acknowledged and  *)
(* a later write on the key was acknowledged before Exec was called, the   *)
(* transaction does not commit, by that Exec or a repeated one, unless     *)
(* Unwatch was called.                                                     *)
ConflictAborts ==
    \A t \in conflicts : SingleUse(t) /\ "unwatch" \notin said[t] => outcome[t].kind # "success"
=============================================================================
