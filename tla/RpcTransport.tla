---------------------------- MODULE RpcTransport ----------------------------
(***************************************************************************)
(* transport_rpc.go: the SynapRPC transport.  One Thunder client is shared *)
(* by all callers; ensureConnected checks it, and replaces a dead one,     *)
(* under a mutex, and the call itself is made outside the mutex, on the    *)
(* client the caller was handed.  Calls overlap on one connection and      *)
(* Thunder pairs replies with calls by frame id.  Nothing is retried.      *)
(*                                                                         *)
(* Thunder and the server are external.  A Thunder client loses its        *)
(* connection at any time and may restore it by itself (comment at 163).   *)
(***************************************************************************)
EXTENDS Naturals, FiniteSets

CONSTANTS Calls,     \* the calls of Execute
          Clients,   \* Thunder clients, bound: one dial per call
          NoCall,    \* the mutex is free
          NoClient,  \* t.client == nil
          Prompt     \* calls that the server answers or that time out

ASSUME RpcAssumption ==
    /\ Prompt \subseteq Calls
    /\ NoCall \notin Calls
    /\ NoClient \notin Clients

VARIABLES pc,        \* [Calls -> where its Execute is]
          mu,        \* the owner of t.mu
          client,    \* t.client
          using,     \* [Calls -> the client ensureConnected returned]
          life,      \* [Clients -> state of the Thunder client]
          sent,      \* requests sent and not yet executed
          replies,   \* replies not yet delivered
          executed,  \* [Calls -> executions by the server]
          result     \* [Calls -> how Execute ended]

vars == <<pc, mu, client, using, life, sent, replies, executed, result>>

(* What Execute returns: every error is a SynapError of newServerError,    *)
(* whether the server sent it or the command never left the client.        *)
Answer == {"value", "svrerr"}

Live == {"up", "lost"}  \* neither unused nor closed

Init ==
    /\ pc = [k \in Calls |-> "idle"]
    /\ mu = NoCall
    /\ client = NoClient
    /\ using = [k \in Calls |-> NoClient]
    /\ life = [c \in Clients |-> "unused"]
    /\ sent = {}
    /\ replies = {}
    /\ executed = [k \in Calls |-> 0]
    /\ result = [k \in Calls |-> "none"]

(* t.client != nil && t.client.IsAlive() *)
IsAlive(c) == c # NoClient /\ life[c] = "up"

Finish(k, a) ==
    /\ pc' = [pc EXCEPT ![k] = "done"]
    /\ result' = [result EXCEPT ![k] = a]

(* thunder.Client.Close: calls in flight fail, replies go nowhere. *)
CloseClient(c) ==
    /\ life' = [life EXCEPT ![c] = "closed"]
    /\ replies' = {r \in replies : r.via # c}

-----------------------------------------------------------------------------
(* A caller enters Execute, and with it ensureConnected. *)
Call(k) ==
    /\ pc[k] = "idle"
    /\ pc' = [pc EXCEPT ![k] = "lock"]
    /\ UNCHANGED <<mu, client, using, life, sent, replies, executed, result>>

(* Mutant of Lock: ensureConnected does not take the mutex. *)
LockNotTaken(k) ==
    /\ pc[k] = "lock"
    /\ pc' = [pc EXCEPT ![k] = "check"]
    /\ UNCHANGED <<mu, client, using, life, sent, replies, executed, result>>

(* t.mu.Lock() *)
Lock(k) ==
    /\ pc[k] = "lock"
    /\ mu = NoCall
    /\ mu' = k
    /\ pc' = [pc EXCEPT ![k] = "check"]
    /\ UNCHANGED <<client, using, life, sent, replies, executed, result>>

(* Mutant of Reuse: the mutex is kept over the round trip, as in the       *)
(* transport's previous implementation.                                    *)
ReuseKeepsLock(k) ==
    /\ pc[k] = "check"
    /\ IsAlive(client)
    /\ using' = [using EXCEPT ![k] = client]
    /\ pc' = [pc EXCEPT ![k] = "call"]
    /\ UNCHANGED <<mu, client, life, sent, replies, executed, result>>

(* The shared client is alive and is handed out. *)
Reuse(k) ==
    /\ pc[k] = "check"
    /\ IsAlive(client)
    /\ using' = [using EXCEPT ![k] = client]
    /\ mu' = NoCall
    /\ pc' = [pc EXCEPT ![k] = "call"]
    /\ UNCHANGED <<client, life, sent, replies, executed, result>>

(* There is no client, or a dead one, which is closed before the dial. *)
Discard(k) ==
    /\ pc[k] = "check"
    /\ ~IsAlive(client)
    /\ IF client = NoClient THEN UNCHANGED <<life, replies>> ELSE CloseClient(client)
    /\ client' = NoClient
    /\ pc' = [pc EXCEPT ![k] = "dial"]
    /\ UNCHANGED <<mu, using, sent, executed, result>>

(* Mutant of Dial: the caller is handed t.client as it was before. *)
DialReturnsOld(k) ==
    /\ pc[k] = "dial"
    /\ \E c \in Clients :
        /\ life[c] = "unused"
        /\ life' = [life EXCEPT ![c] = "up"]
        /\ client' = c
    /\ using' = [using EXCEPT ![k] = client]
    /\ mu' = NoCall
    /\ pc' = [pc EXCEPT ![k] = "call"]
    /\ UNCHANGED <<sent, replies, executed, result>>

(* t.dial() succeeds, still under the mutex. *)
Dial(k) ==
    /\ pc[k] = "dial"
    /\ \E c \in Clients :
        /\ life[c] = "unused"
        /\ life' = [life EXCEPT ![c] = "up"]
        /\ client' = c
        /\ using' = [using EXCEPT ![k] = c]
    /\ mu' = NoCall
    /\ pc' = [pc EXCEPT ![k] = "call"]
    /\ UNCHANGED <<sent, replies, executed, result>>

(* t.dial() fails, and so does Execute, with newServerError. *)
DialFails(k) ==
    /\ pc[k] = "dial"
    /\ Finish(k, "svrerr")
    /\ mu' = NoCall
    /\ UNCHANGED <<client, using, life, sent, replies, executed>>

(* c.Call sends the request, if the client is still connected: it may have *)
(* died, or been replaced and closed by another caller, since the check.   *)
Send(k) ==
    /\ pc[k] = "call"
    /\ IsAlive(using[k])
    /\ sent' = sent \cup {[call |-> k, via |-> using[k]]}
    /\ pc' = [pc EXCEPT ![k] = "wait"]
    /\ UNCHANGED <<mu, client, using, life, replies, executed, result>>

(* Mutant of CallFails: the call is sent once more on an error. *)
CallFailsResends(k) ==
    /\ pc[k] \in {"call", "wait"}
    /\ pc' = [pc EXCEPT ![k] = "lock"]
    /\ UNCHANGED <<mu, client, using, life, sent, replies, executed, result>>

(* c.Call fails: no connection, a connection lost or closed meanwhile, the *)
(* call timeout, or the caller's context.  The error is wrapped in         *)
(* newServerError like one the server replied with.                        *)
CallFails(k) ==
    /\ pc[k] \in {"call", "wait"}
    /\ Finish(k, "svrerr")
    /\ UNCHANGED <<mu, client, using, life, sent, replies, executed>>

(* c.Call returns the reply with this call's frame id. *)
Receive(k) ==
    /\ pc[k] = "wait"
    /\ \E r \in replies :
        /\ r.call = k
        /\ r.via = using[k]
        /\ replies' = replies \ {r}
        /\ Finish(k, r.kind)
    /\ UNCHANGED <<mu, client, using, life, sent, executed>>

(* Close by any goroutine. *)
Close ==
    /\ mu = NoCall
    /\ IF client = NoClient THEN UNCHANGED <<life, replies>> ELSE CloseClient(client)
    /\ client' = NoClient
    /\ UNCHANGED <<pc, mu, using, sent, executed, result>>

-----------------------------------------------------------------------------
(* The server (external) executes requests in any order, also those of a   *)
(* connection that is gone; only a connected client gets the reply.        *)
Serve ==
    \E q \in sent :
        /\ sent' = sent \ {q}
        /\ executed' = [executed EXCEPT ![q.call] = @ + 1]
        /\ \E kind \in Answer :
            replies' = IF life[q.via] = "up"
                       THEN replies \cup {[call |-> q.call, via |-> q.via, kind |-> kind]}
                       ELSE replies
        /\ UNCHANGED <<pc, mu, client, using, life, result>>

(* A Thunder client (external) loses its connection, and with it any part  *)
(* of what is in flight.                                                   *)
Lose(c) ==
    /\ life[c] = "up"
    /\ life' = [life EXCEPT ![c] = "lost"]
    /\ \E gone \in SUBSET {q \in sent : q.via = c} : sent' = sent \ gone
    /\ replies' = {r \in replies : r.via # c}
    /\ UNCHANGED <<pc, mu, client, using, executed, result>>

(* It restores the connection by itself. *)
Restore(c) ==
    /\ life[c] = "lost"
    /\ life' = [life EXCEPT ![c] = "up"]
    /\ UNCHANGED <<pc, mu, client, using, sent, replies, executed, result>>

-----------------------------------------------------------------------------
(* The steps of ensureConnected, which wait for no reply. *)
Ensure(k) ==
    \/ Reuse(k)
    \/ Discard(k)
    \/ Dial(k)
    \/ DialFails(k)

RoundTrip(k) ==
    \/ Send(k)
    \/ CallFails(k)
    \/ Receive(k)

Next ==
    \/ \E k \in Calls : Call(k) \/ Lock(k) \/ Ensure(k) \/ RoundTrip(k)
    \/ Close
    \/ Serve
    \/ \E c \in Clients : Lose(c) \/ Restore(c)

Spec == Init /\ [][Next]_vars

(* Every caller gets the mutex and runs ensureConnected (dialing has a     *)
(* timeout); only prompt calls are answered or time out.                   *)
Fairness ==
    /\ \A k \in Calls : WF_vars(Lock(k)) /\ WF_vars(Ensure(k))
    /\ \A k \in Prompt : WF_vars(CallFails(k) \/ Receive(k))

LiveSpec == Spec /\ Fairness

-----------------------------------------------------------------------------
TypeOK ==
    /\ pc \in [Calls -> {"idle", "lock", "check", "dial", "call", "wait", "done"}]
    /\ mu \in Calls \cup {NoCall}
    /\ client \in Clients \cup {NoClient}
    /\ using \in [Calls -> Clients \cup {NoClient}]
    /\ \A k \in Calls : pc[k] \in {"call", "wait"} => using[k] \in Clients
    /\ life \in [Clients -> Live \cup {"unused", "closed"}]
    /\ sent \subseteq [call : Calls, via : Clients]
    /\ replies \subseteq [call : Calls, via : Clients, kind : Answer]
    /\ executed \in [Calls -> Nat]
    /\ result \in [Calls -> Answer \cup {"none"}]

(* No Thunder client is leaked: one that was dialled and not closed is     *)
(* t.client, although any number of callers find the client dead at once   *)
(* and Close runs in between.                                              *)
NoLeakedClient == \A c \in Clients : life[c] \in Live => c = client

(* A command is executed at most once, before or after its caller returns, *)
(* and was executed if its caller is given a value.  An error says nothing *)
(* of an execution, as every failure is a server_error.                    *)
AtMostOnce ==
    \A k \in Calls : /\ executed[k] <= 1
                     /\ result[k] = "value" => executed[k] = 1

(* transport_rpc.go 140: commands "genuinely overlap".  A call whose reply *)
(* does not come holds up no other: every prompt call returns.             *)
PromptCallsReturn == \A k \in Prompt : pc[k] = "lock" ~> pc[k] = "done"

-----------------------------------------------------------------------------
Phases ==
    [k \in Calls |-> CASE pc[k] = "idle" -> "new"
                       [] pc[k] = "done" -> result[k]
                       [] OTHER          -> "open"]

Service == INSTANCE CallService WITH
    MaxExecutions <- 1,
    Telling       <- {"value"},
    phase         <- Phases,
    executions    <- executed

(* The transport implements the call service with single execution. *)
ImplementsCallService == Service!Spec
=============================================================================
