--------------------------- MODULE Resp3Transport ---------------------------
(***************************************************************************)
(* transport_resp3.go: one lazily opened TCP connection shared by all the  *)
(* callers of a SynapClient.  Execute holds a mutex over the whole         *)
(* request/response round trip, and on a network failure closes the        *)
(* connection, reconnects once and sends the command again.  Nothing on    *)
(* the wire says which request a reply answers: a caller takes whatever    *)
(* its connection delivers next.                                           *)
(*                                                                         *)
(* Every call of Execute is a process of its own.  The network and the     *)
(* server are external: a connection has a queue of requests and a queue   *)
(* of replies, it can break at any time, losing either or both, and the    *)
(* server may still execute a request whose connection is gone.            *)
(***************************************************************************)
EXTENDS Naturals, Sequences, FiniteSets

CONSTANTS Calls,    \* the calls of Execute
          Conns,    \* TCP connections, bound: two dials per call
          NoCall,   \* the mutex is free
          NoConn,   \* t.conn == nil
          Shapes    \* the forms of the replies the server sends

(* A reply is a value, a server error ('-' or '!'), or an aggregate ('*',  *)
(* '%', '~') of such scalars.                                              *)
ScalarKind == {"val", "err"}
ReplyShape == [kind : ScalarKind \cup {"agg"}, items : Seq(ScalarKind)]

ASSUME ShapesAssumption ==
    /\ Shapes \subseteq ReplyShape
    /\ NoCall \notin Calls
    /\ NoConn \notin Conns

VARIABLES pc,       \* [Calls -> where its Execute is]
          mu,       \* the owner of t.mu
          conn,     \* t.conn (t.reader lives and dies with it)
          attempt,  \* [Calls -> the loop variable of Execute]
          status,   \* [Conns -> the state of the socket]
          req,      \* [Conns -> requests sent, not yet executed]
          rep,      \* [Conns -> replies sent, not yet read]
          applied,  \* [Calls -> [0..1 -> executions of that attempt's request]]
          result    \* [Calls -> what Execute returned]

vars == <<pc, mu, conn, attempt, status, req, rep, applied, result>>

Attempt == 0 .. 1
Request == [call : Calls, attempt : Attempt]
Frame   == [of : Calls, shape : ReplyShape]
Pending == [kind |-> "none", of |-> NoCall]
NetErr  == [kind |-> "neterr", of |-> NoCall]
Answers == [kind : {"value", "svrerr"}, of : Calls] \cup {NetErr}
Open    == {"up", "down"}   \* the client has not closed the socket

-----------------------------------------------------------------------------
(* readResponse: what one call of it returns, and what it leaves unread.   *)

ErrorsIn(s) == {i \in DOMAIN s.items : s.items[i] = "err"}

FirstError(s) == CHOOSE i \in ErrorsIn(s) : \A j \in ErrorsIn(s) : i <= j

IsError(s) == s.kind = "err" \/ (s.kind = "agg" /\ ErrorsIn(s) # {})

(* The loops over an aggregate return at the first element that is an      *)
(* error; the elements after it stay in the reader.                        *)
LeftOver(s) ==
    IF s.kind = "agg" /\ ErrorsIn(s) # {}
    THEN SubSeq(s.items, FirstError(s) + 1, Len(s.items))
    ELSE <<>>

(* An element left in the reader is the next caller's reply. *)
AsFrames(k, items) ==
    [i \in 1 .. Len(items) |->
        [of |-> k, shape |-> [kind |-> items[i], items |-> <<>>]]]

(* No reply is left half read. *)
WellFramed == \A s \in Shapes : LeftOver(s) = <<>>

-----------------------------------------------------------------------------
Init ==
    /\ pc = [k \in Calls |-> "idle"]
    /\ mu = NoCall
    /\ conn = NoConn
    /\ attempt = [k \in Calls |-> 0]
    /\ status = [n \in Conns |-> "unused"]
    /\ req = [n \in Conns |-> <<>>]
    /\ rep = [n \in Conns |-> <<>>]
    /\ applied = [k \in Calls |-> [a \in Attempt |-> 0]]
    /\ result = [k \in Calls |-> Pending]

-----------------------------------------------------------------------------
(* Mutant of Finish: the error paths forget to unlock. *)
FinishKeepsLock(k, r) ==
    /\ pc' = [pc EXCEPT ![k] = "done"]
    /\ result' = [result EXCEPT ![k] = r]
    /\ mu' = IF r = NetErr THEN mu ELSE NoCall
    /\ UNCHANGED attempt

(* Execute returns answer r; the deferred Unlock is part of it. *)
Finish(k, r) ==
    /\ pc' = [pc EXCEPT ![k] = "done"]
    /\ result' = [result EXCEPT ![k] = r]
    /\ mu' = NoCall
    /\ UNCHANGED attempt

(* Mutant of RetryOrFail: the loop has no bound. *)
RetryForever(k) ==
    /\ attempt' = [attempt EXCEPT ![k] = @ + 1]
    /\ pc' = [pc EXCEPT ![k] = "top"]
    /\ UNCHANGED <<mu, result>>

(* "if attempt == 0 { continue }", else the error is returned. *)
RetryOrFail(k) ==
    IF attempt[k] = 0
    THEN /\ attempt' = [attempt EXCEPT ![k] = 1]
         /\ pc' = [pc EXCEPT ![k] = "top"]
         /\ UNCHANGED <<mu, result>>
    ELSE Finish(k, NetErr)

(* Mutant of Drop: the field is cleared, the socket is not closed. *)
DropWithoutClose(n) ==
    /\ conn' = NoConn
    /\ UNCHANGED <<status, req, rep>>

(* t.conn.Close(); t.conn = nil; t.reader = nil: unread replies are gone,  *)
(* requests already sent are not.                                          *)
Drop(n) ==
    /\ status' = [status EXCEPT ![n] = "closed"]
    /\ rep' = [rep EXCEPT ![n] = <<>>]
    /\ conn' = NoConn
    /\ UNCHANGED req

(* A caller enters Execute. *)
Call(k) ==
    /\ pc[k] = "idle"
    /\ pc' = [pc EXCEPT ![k] = "lock"]
    /\ UNCHANGED <<mu, conn, attempt, status, req, rep, applied, result>>

(* t.mu.Lock() *)
Lock(k) ==
    /\ pc[k] = "lock"
    /\ mu = NoCall
    /\ mu' = k
    /\ pc' = [pc EXCEPT ![k] = "top"]
    /\ UNCHANGED <<conn, attempt, status, req, rep, applied, result>>

MustConnect(k) == conn = NoConn \/ attempt[k] = 1

(* The old connection, if any, is closed before the dial. *)
WithOldClosed(f, v) == IF conn = NoConn THEN f ELSE [f EXCEPT ![conn] = v]

(* doConnect succeeds. *)
Connect(k) ==
    /\ pc[k] = "top"
    /\ MustConnect(k)
    /\ \E n \in Conns :
        /\ status[n] = "unused"
        /\ status' = [WithOldClosed(status, "closed") EXCEPT ![n] = "up"]
        /\ conn' = n
    /\ rep' = WithOldClosed(rep, <<>>)
    /\ pc' = [pc EXCEPT ![k] = "write"]
    /\ UNCHANGED <<mu, attempt, req, applied, result>>

(* doConnect fails: refused, unreachable or timed out. *)
ConnectFails(k) ==
    /\ pc[k] = "top"
    /\ MustConnect(k)
    /\ status' = WithOldClosed(status, "closed")
    /\ rep' = WithOldClosed(rep, <<>>)
    /\ conn' = NoConn
    /\ RetryOrFail(k)
    /\ UNCHANGED <<req, applied>>

(* The connection of an earlier call is used again. *)
Reuse(k) ==
    /\ pc[k] = "top"
    /\ ~MustConnect(k)
    /\ pc' = [pc EXCEPT ![k] = "write"]
    /\ UNCHANGED <<mu, conn, attempt, status, req, rep, applied, result>>

(* Mutant of Write: after a short write the whole frame is sent again. *)
WriteTwice(k) ==
    /\ pc[k] = "write"
    /\ pc' = [pc EXCEPT ![k] = "read"]
    /\ LET r == [call |-> k, attempt |-> attempt[k]] IN
        req' = [req EXCEPT ![conn] = @ \o <<r, r>>]
    /\ UNCHANGED <<mu, conn, attempt, status, rep, applied, result>>

(* t.conn.Write(frame) returns nil.  On a connection that broke unnoticed  *)
(* the bytes go nowhere.                                                   *)
Write(k) ==
    /\ pc[k] = "write"
    /\ pc' = [pc EXCEPT ![k] = "read"]
    /\ IF status[conn] = "up"
       THEN req' = [req EXCEPT ![conn] = Append(@, [call |-> k, attempt |-> attempt[k]])]
       ELSE UNCHANGED req
    /\ UNCHANGED <<mu, conn, attempt, status, rep, applied, result>>

(* t.conn.Write fails: reset, or past the deadline.  The server has at     *)
(* most a part of the frame, and never executes it.                        *)
WriteFails(k) ==
    /\ pc[k] = "write"
    /\ Drop(conn)
    /\ RetryOrFail(k)
    /\ UNCHANGED applied

(* readResponse parses the next reply in the reader.  A *SynapError is     *)
(* returned without touching the connection.                               *)
Read(k) ==
    /\ pc[k] = "read"
    /\ rep[conn] # <<>>
    /\ LET f == Head(rep[conn]) IN
        /\ rep' = [rep EXCEPT ![conn] = AsFrames(f.of, LeftOver(f.shape)) \o Tail(@)]
        /\ Finish(k, [kind |-> IF IsError(f.shape) THEN "svrerr" ELSE "value", of |-> f.of])
    /\ UNCHANGED <<conn, status, req, applied>>

(* Mutant of ReadFails: a read that timed out keeps the connection. *)
ReadFailsKeepsConn(k) ==
    /\ pc[k] = "read"
    /\ RetryOrFail(k)
    /\ UNCHANGED <<conn, status, req, rep, applied>>

(* readResponse fails: the deadline passed, the connection broke, or the   *)
(* bytes do not parse.                                                     *)
ReadFails(k) ==
    /\ pc[k] = "read"
    /\ Drop(conn)
    /\ RetryOrFail(k)
    /\ UNCHANGED applied

(* Close by any goroutine, at any time the mutex is free. *)
Close ==
    /\ mu = NoCall
    /\ IF conn = NoConn THEN UNCHANGED <<status, req, rep, conn>> ELSE Drop(conn)
    /\ UNCHANGED <<pc, mu, attempt, applied, result>>

-----------------------------------------------------------------------------
(* The server (external) executes the next request of a connection and     *)
(* answers it, into the void when the connection is gone.                  *)
Serve(n) ==
    /\ req[n] # <<>>
    /\ LET r == Head(req[n]) IN
        /\ applied' = [applied EXCEPT ![r.call][r.attempt] = @ + 1]
        /\ IF status[n] = "up"
           THEN \E s \in Shapes : rep' = [rep EXCEPT ![n] = Append(@, [of |-> r.call, shape |-> s])]
           ELSE UNCHANGED rep
    /\ req' = [req EXCEPT ![n] = Tail(@)]
    /\ UNCHANGED <<pc, mu, conn, attempt, status, result>>

(* The network (external) breaks a connection: what is in flight in either *)
(* direction may be lost.                                                  *)
Sever(n) ==
    /\ status[n] = "up"
    /\ status' = [status EXCEPT ![n] = "down"]
    /\ \E lost \in BOOLEAN : req' = IF lost THEN [req EXCEPT ![n] = <<>>] ELSE req
    /\ \E lost \in BOOLEAN : rep' = IF lost THEN [rep EXCEPT ![n] = <<>>] ELSE rep
    /\ UNCHANGED <<pc, mu, conn, attempt, applied, result>>

-----------------------------------------------------------------------------
(* The steps of a caller inside Execute that need no one else. *)
Step(k) ==
    \/ Connect(k)
    \/ ConnectFails(k)
    \/ Reuse(k)
    \/ Write(k)
    \/ WriteFails(k)
    \/ Read(k)
    \/ ReadFails(k)

Next ==
    \/ \E k \in Calls : Call(k) \/ Lock(k) \/ Step(k)
    \/ Close
    \/ \E n \in Conns : Serve(n) \/ Sever(n)

Spec == Init /\ [][Next]_vars

(* Dials, writes and reads have deadlines, so a caller inside the critical *)
(* section always moves on, and the Go mutex is handed to a waiter.        *)
Fairness ==
    \A k \in Calls : /\ WF_vars(Step(k))
                     /\ WF_vars(Lock(k))

LiveSpec == Spec /\ Fairness

-----------------------------------------------------------------------------
TypeOK ==
    /\ pc \in [Calls -> {"idle", "lock", "top", "write", "read", "done"}]
    /\ mu \in Calls \cup {NoCall}
    /\ conn \in Conns \cup {NoConn}
    /\ attempt \in [Calls -> Attempt]
    /\ status \in [Conns -> Open \cup {"unused", "closed"}]
    /\ req \in [Conns -> Seq(Request)]
    /\ rep \in [Conns -> Seq(Frame)]
    /\ applied \in [Calls -> [Attempt -> Nat]]
    /\ result \in [Calls -> Answers \cup {Pending}]

(* A caller is never given the reply to another caller's command: a value  *)
(* or a server error that Execute returns answers the command it sent.     *)
ReplyIsOwn == \A k \in Calls : result[k].kind \in {"value", "svrerr"} => result[k].of = k

(* The connection a caller finds when it takes the mutex is quiet: no      *)
(* request of an earlier call is outstanding on it and no reply is unread, *)
(* whatever failures, retries and Closes came before.                      *)
QuietWhenFree ==
    mu = NoCall /\ conn # NoConn => req[conn] = <<>> /\ rep[conn] = <<>>

(* No socket is leaked: one that the client opened and has not closed is   *)
(* t.conn, over all the paths that give a connection up.                   *)
NoLeakedSocket == \A n \in Conns : status[n] \in Open => n = conn

(* How often the server executed the command of call k. *)
Executions(k) == applied[k][0] + applied[k][1]

(* The retry runs a command at most twice, and an answer with the server's *)
(* word is only given for a command it did execute.                        *)
ExecutedAsAnswered ==
    \A k \in Calls : /\ Executions(k) <= 2
                     /\ result[k].kind \in {"value", "svrerr"} => Executions(k) >= 1

(* kv.go 88: Incr "increments the integer value stored at key by one".     *)
(* The command of one call takes effect at most once.                      *)
ExecutedAtMostOnce == \A k \in Calls : Executions(k) <= 1

(* Every Execute returns, although it waits for the mutex without a        *)
(* deadline.                                                               *)
EveryCallReturns == \A k \in Calls : pc[k] = "lock" ~> pc[k] = "done"

-----------------------------------------------------------------------------
(* What callers see is a CallService that executes a command at most twice.*)
Phases ==
    [k \in Calls |-> CASE pc[k] = "idle" -> "new"
                       [] pc[k] = "done" -> result[k].kind
                       [] OTHER          -> "open"]

Service == INSTANCE CallService WITH
    MaxExecutions <- 2,
    Telling       <- {"value", "svrerr"},
    phase         <- Phases,
    executions    <- [k \in Calls |-> Executions(k)]

(* The transport implements the call service. *)
ImplementsCallService == Service!Spec
=============================================================================
