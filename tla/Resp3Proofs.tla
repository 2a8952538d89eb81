---------------------------- MODULE Resp3Proofs ----------------------------
(***************************************************************************)
(* Proofs about Resp3Transport, for any number of calls and connections    *)
(* and any set of reply shapes.  What depends on framing is proved under   *)
(* WellFramed.                                                             *)
(***************************************************************************)
EXTENDS Resp3Transport, SequenceTheorems, WellFoundedInduction, TLAPS

-----------------------------------------------------------------------------
(* Facts about the reply reader *)

(* An aggregate with an error element has a first one. *)
LEMMA FirstErrorExists ==
    ASSUME NEW s \in ReplyShape, ErrorsIn(s) # {}
    PROVE  FirstError(s) \in ErrorsIn(s)
<1>1. ErrorsIn(s) \subseteq Nat
  BY DEF ErrorsIn, ReplyShape
<1>2. \E i \in ErrorsIn(s) : \A j \in ErrorsIn(s) : ~(<<j, i>> \in OpToRel(<, Nat))
  BY <1>1, NatLessThanWellFounded, WFMin, Zenon
<1>3. \E i \in ErrorsIn(s) : \A j \in ErrorsIn(s) : i <= j
  <2>1. PICK i \in ErrorsIn(s) : \A j \in ErrorsIn(s) : ~(<<j, i>> \in OpToRel(<, Nat))
    BY <1>2
  <2>2. \A j \in ErrorsIn(s) : ~(j < i)
    BY <1>1, <2>1 DEF OpToRel
  <2> QED
    BY <1>1, <2>2
<1> QED
  BY <1>3 DEF FirstError

(* What readResponse leaves unread is a sequence of scalars. *)
LEMMA LeftOverType ==
    ASSUME NEW s \in ReplyShape
    PROVE  LeftOver(s) \in Seq(ScalarKind)
<1>1. CASE s.kind = "agg" /\ ErrorsIn(s) # {}
  <2>1. FirstError(s) \in 1 .. Len(s.items)
    BY <1>1, FirstErrorExists DEF ErrorsIn, ReplyShape
  <2>2. /\ s.items \in Seq(ScalarKind)
        /\ FirstError(s) + 1 \in Int
        /\ Len(s.items) \in Int
        /\ \A i \in FirstError(s) + 1 .. Len(s.items) : s.items[i] \in ScalarKind
    BY <2>1 DEF ReplyShape
  <2> QED
    BY <1>1, <2>2, SubSeqProperties DEF LeftOver
<1>2. CASE ~(s.kind = "agg" /\ ErrorsIn(s) # {})
  BY <1>2 DEF LeftOver
<1> QED
  BY <1>1, <1>2

(* Read as replies of their own, leftovers are frames. *)
LEMMA AsFramesType ==
    ASSUME NEW k \in Calls, NEW items \in Seq(ScalarKind)
    PROVE  AsFrames(k, items) \in Seq(Frame)
<1>1. \A i \in 1 .. Len(items) :
        [of |-> k, shape |-> [kind |-> items[i], items |-> <<>>]] \in Frame
  BY DEF Frame, ReplyShape
<1>2. Len(items) \in Nat
  OBVIOUS
<1> QED
  BY <1>1, <1>2, IsASeq DEF AsFrames

-----------------------------------------------------------------------------
(* Types, the mutex and the socket: independent of framing *)

(* The mutex is held by the caller that is between Lock and Unlock. *)
LockOwner == \A k \in Calls : pc[k] \in {"top", "write", "read"} <=> mu = k

(* A caller about to write or to read has a connection. *)
Connected == \A k \in Calls : pc[k] \in {"write", "read"} => conn # NoConn

(* t.conn is a socket that is not closed, and the only one. *)
SocketOwner ==
    /\ conn # NoConn => status[conn] \in Open
    /\ NoLeakedSocket

Basic == TypeOK /\ LockOwner /\ Connected /\ SocketOwner

(* The retry path: the next attempt, or the transport error. *)
LEMMA RetryOrFailEffect ==
    ASSUME TypeOK, LockOwner, NEW k \in Calls, mu = k, RetryOrFail(k)
    PROVE  /\ attempt' \in [Calls -> Attempt]
           /\ pc' \in [Calls -> {"idle", "lock", "top", "write", "read", "done"}]
           /\ mu' \in Calls \cup {NoCall}
           /\ result' \in [Calls -> Answers \cup {Pending}]
           /\ LockOwner'
           /\ \A j \in Calls : pc'[j] \notin {"write", "read"}
<1>1. \A j \in Calls : j # k => pc[j] \notin {"top", "write", "read"}
  BY DEF LockOwner
<1>2. CASE attempt[k] = 0
  <2>1. /\ attempt' = [attempt EXCEPT ![k] = 1]
        /\ pc' = [pc EXCEPT ![k] = "top"]
        /\ UNCHANGED <<mu, result>>
    BY <1>2 DEF RetryOrFail
  <2> QED
    BY <1>1, <2>1 DEF TypeOK, LockOwner, Attempt
<1>3. CASE attempt[k] # 0
  <2>1. /\ pc' = [pc EXCEPT ![k] = "done"]
        /\ result' = [result EXCEPT ![k] = NetErr]
        /\ mu' = NoCall
        /\ UNCHANGED attempt
    BY <1>3 DEF RetryOrFail, Finish
  <2>2. NetErr \in Answers
    BY DEF Answers
  <2>3. result' \in [Calls -> Answers \cup {Pending}]
    BY <2>1, <2>2 DEF TypeOK
  <2> QED
    BY <1>1, <2>1, <2>3, ShapesAssumption DEF TypeOK, LockOwner
<1> QED
  BY <1>2, <1>3

(* Giving up a connection closes it and leaves no other open. *)
LEMMA DropEffect ==
    ASSUME TypeOK, SocketOwner, conn # NoConn, Drop(conn)
    PROVE  /\ conn' = NoConn
           /\ status' \in [Conns -> Open \cup {"unused", "closed"}]
           /\ req' \in [Conns -> Seq(Request)]
           /\ rep' \in [Conns -> Seq(Frame)]
           /\ SocketOwner'
<1>1. conn \in Conns
  BY DEF TypeOK
<1>2. <<>> \in Seq(Frame)
  OBVIOUS
<1>3. rep' \in [Conns -> Seq(Frame)]
  BY <1>1, <1>2 DEF TypeOK, Drop
<1> QED
  BY <1>1, <1>3 DEF TypeOK, Drop, SocketOwner, NoLeakedSocket, Open

(* The steps of the environment and of a caller preserve Basic. *)
LEMMA BasicStep == Basic /\ [Next]_vars => Basic'
<1> SUFFICES ASSUME Basic, [Next]_vars
             PROVE  Basic'
  OBVIOUS
<1>t. TypeOK /\ LockOwner /\ Connected /\ SocketOwner
  BY DEF Basic
<1>0. ASSUME NEW k \in Calls, pc[k] \in {"write", "read"}
      PROVE  mu = k /\ conn \in Conns
  BY <1>t, <1>0 DEF TypeOK, LockOwner, Connected
<1>1. ASSUME NEW k \in Calls, Call(k)
      PROVE  Basic'
  BY <1>t, <1>1 DEF Call, Basic, TypeOK, LockOwner, Connected, SocketOwner, NoLeakedSocket
<1>2. ASSUME NEW k \in Calls, Lock(k)
      PROVE  Basic'
  BY <1>t, <1>2, ShapesAssumption
     DEF Lock, Basic, TypeOK, LockOwner, Connected, SocketOwner, NoLeakedSocket
<1>3. ASSUME NEW k \in Calls, Connect(k)
      PROVE  Basic'
  <2>1. PICK n \in Conns : /\ status[n] = "unused"
                           /\ status' = [WithOldClosed(status, "closed") EXCEPT ![n] = "up"]
                           /\ conn' = n
    BY <1>3 DEF Connect
  <2>2. <<>> \in Seq(Frame)
    OBVIOUS
  <2>3. rep' \in [Conns -> Seq(Frame)]
    BY <1>t, <1>3, <2>2 DEF Connect, TypeOK, WithOldClosed
  <2>4. status' \in [Conns -> Open \cup {"unused", "closed"}]
    BY <1>t, <2>1 DEF TypeOK, WithOldClosed, Open
  <2>5. SocketOwner'
    BY <1>t, <2>1, ShapesAssumption DEF SocketOwner, NoLeakedSocket, WithOldClosed, Open, TypeOK
  <2>6. conn' \in Conns /\ conn' # NoConn
    BY <2>1, ShapesAssumption
  <2> QED
    BY <1>t, <1>3, <2>3, <2>4, <2>5, <2>6 DEF Connect, Basic, TypeOK, LockOwner, Connected
<1>4. ASSUME NEW k \in Calls, ConnectFails(k)
      PROVE  Basic'
  <2>1. mu = k
    BY <1>t, <1>4 DEF ConnectFails, LockOwner
  <2>2. <<>> \in Seq(Frame)
    OBVIOUS
  <2>3. rep' \in [Conns -> Seq(Frame)]
    BY <1>t, <1>4, <2>2 DEF ConnectFails, TypeOK, WithOldClosed
  <2>4. status' \in [Conns -> Open \cup {"unused", "closed"}]
    BY <1>t, <1>4 DEF ConnectFails, TypeOK, WithOldClosed, Open
  <2>5. SocketOwner' /\ conn' = NoConn
    BY <1>t, <1>4 DEF ConnectFails, SocketOwner, NoLeakedSocket, WithOldClosed, Open, TypeOK
  <2>6. RetryOrFail(k) /\ UNCHANGED <<req, applied>>
    BY <1>4 DEF ConnectFails
  <2> QED
    BY <1>t, <2>1, <2>3, <2>4, <2>5, <2>6, RetryOrFailEffect DEF Basic, TypeOK, Connected
<1>5. ASSUME NEW k \in Calls, Reuse(k)
      PROVE  Basic'
  BY <1>t, <1>5
     DEF Reuse, MustConnect, Basic, TypeOK, LockOwner, Connected, SocketOwner, NoLeakedSocket
<1>6. ASSUME NEW k \in Calls, Write(k)
      PROVE  Basic'
  <2>1. [call |-> k, attempt |-> attempt[k]] \in Request
    BY <1>t DEF Request, TypeOK
  <2>2. req' \in [Conns -> Seq(Request)]
    <3>1. conn \in Conns
      BY <1>0, <1>6 DEF Write
    <3>2. Append(req[conn], [call |-> k, attempt |-> attempt[k]]) \in Seq(Request)
      BY <1>t, <2>1, <3>1 DEF TypeOK
    <3> QED
      BY <1>t, <1>6, <3>2 DEF Write, TypeOK
  <2>3. /\ pc[k] = "write"
        /\ pc' = [pc EXCEPT ![k] = "read"]
        /\ UNCHANGED <<mu, conn, attempt, status, rep, applied, result>>
    BY <1>6 DEF Write
  <2>4. TypeOK'
    BY <1>t, <2>2, <2>3 DEF TypeOK
  <2>5. LockOwner' /\ Connected'
    BY <1>t, <2>3 DEF TypeOK, LockOwner, Connected
  <2>6. SocketOwner'
    BY <1>t, <2>3 DEF SocketOwner, NoLeakedSocket
  <2> QED
    BY <2>4, <2>5, <2>6 DEF Basic
<1>7. ASSUME NEW k \in Calls, WriteFails(k) \/ ReadFails(k)
      PROVE  Basic'
  <2>1. Drop(conn) /\ RetryOrFail(k) /\ UNCHANGED applied
    BY <1>7 DEF WriteFails, ReadFails
  <2>2. mu = k /\ conn # NoConn
    BY <1>t, <1>7 DEF WriteFails, ReadFails, LockOwner, Connected
  <2> QED
    BY <1>t, <2>1, <2>2, RetryOrFailEffect, DropEffect DEF Basic, TypeOK, Connected
<1>8. ASSUME NEW k \in Calls, Read(k)
      PROVE  Basic'
  <2>1. conn \in Conns /\ mu = k
    BY <1>0, <1>8 DEF Read
  <2>2. rep[conn] \in Seq(Frame) /\ rep[conn] # <<>>
    BY <1>t, <1>8, <2>1 DEF TypeOK, Read
  <2> DEFINE f == Head(rep[conn])
  <2>3. f \in Frame /\ Tail(rep[conn]) \in Seq(Frame)
    BY <2>2, HeadTailProperties
  <2>4. f.of \in Calls /\ f.shape \in ReplyShape
    BY <2>3 DEF Frame
  <2>5. AsFrames(f.of, LeftOver(f.shape)) \in Seq(Frame)
    BY <2>4, LeftOverType, AsFramesType
  <2>6. AsFrames(f.of, LeftOver(f.shape)) \o Tail(rep[conn]) \in Seq(Frame)
    BY <2>3, <2>5, ConcatProperties
  <2>7. rep' \in [Conns -> Seq(Frame)]
    BY <1>t, <1>8, <2>6 DEF TypeOK, Read
  <2>8. [kind |-> IF IsError(f.shape) THEN "svrerr" ELSE "value", of |-> f.of] \in Answers
    BY <2>4 DEF Answers
  <2>9. Finish(k, [kind |-> IF IsError(f.shape) THEN "svrerr" ELSE "value", of |-> f.of])
    BY <1>8 DEF Read
  <2>10. result' \in [Calls -> Answers \cup {Pending}]
    BY <1>t, <2>8, <2>9 DEF Finish, TypeOK
  <2>11. /\ pc' = [pc EXCEPT ![k] = "done"]
         /\ mu' = NoCall
         /\ UNCHANGED <<attempt, conn, status, req, applied>>
    BY <1>8, <2>9 DEF Read, Finish
  <2> QED
    BY <1>t, <2>1, <2>7, <2>10, <2>11, ShapesAssumption
       DEF Basic, TypeOK, LockOwner, Connected, SocketOwner, NoLeakedSocket
<1>9. CASE Close
  <2>1. CASE conn = NoConn
    BY <1>t, <1>9, <2>1
       DEF Close, Basic, TypeOK, LockOwner, Connected, SocketOwner, NoLeakedSocket
  <2>2. CASE conn # NoConn
    <3>1. Drop(conn) /\ UNCHANGED <<pc, mu, attempt, applied, result>> /\ mu = NoCall
      BY <1>9, <2>2 DEF Close
    <3>2. \A k \in Calls : pc[k] \notin {"write", "read"}
      BY <1>t, <3>1, ShapesAssumption DEF LockOwner
    <3> QED
      BY <1>t, <2>2, <3>1, <3>2, DropEffect DEF Basic, TypeOK, LockOwner, Connected
  <2> QED
    BY <2>1, <2>2
<1>10. ASSUME NEW n \in Conns, Serve(n)
       PROVE  Basic'
  <2> DEFINE r == Head(req[n])
  <2>1. req[n] \in Seq(Request) /\ req[n] # <<>>
    BY <1>t, <1>10 DEF TypeOK, Serve
  <2>2. r \in Request /\ Tail(req[n]) \in Seq(Request)
    BY <2>1, HeadTailProperties
  <2>3. r.call \in Calls /\ r.attempt \in Attempt
    BY <2>2 DEF Request
  <2>4. req' \in [Conns -> Seq(Request)]
    BY <1>t, <1>10, <2>2 DEF Serve, TypeOK
  <2>5. applied' \in [Calls -> [Attempt -> Nat]]
    BY <1>t, <1>10, <2>3 DEF Serve, TypeOK
  <2>6. rep' \in [Conns -> Seq(Frame)]
    <3>1. CASE status[n] = "up"
      <4>1. PICK s \in Shapes : rep' = [rep EXCEPT ![n] = Append(@, [of |-> r.call, shape |-> s])]
        BY <1>10, <3>1 DEF Serve
      <4>2. [of |-> r.call, shape |-> s] \in Frame
        BY <2>3, ShapesAssumption DEF Frame
      <4> QED
        BY <1>t, <4>1, <4>2 DEF TypeOK
    <3>2. CASE status[n] # "up"
      BY <1>t, <1>10, <3>2 DEF Serve, TypeOK
    <3> QED
      BY <3>1, <3>2
  <2>7. UNCHANGED <<pc, mu, conn, attempt, status, result>>
    BY <1>10 DEF Serve
  <2> QED
    BY <1>t, <2>4, <2>5, <2>6, <2>7
       DEF Basic, TypeOK, LockOwner, Connected, SocketOwner, NoLeakedSocket
<1>11. ASSUME NEW n \in Conns, Sever(n)
       PROVE  Basic'
  <2>1. <<>> \in Seq(Frame) /\ <<>> \in Seq(Request)
    OBVIOUS
  <2>2. req' \in [Conns -> Seq(Request)] /\ rep' \in [Conns -> Seq(Frame)]
    BY <1>t, <1>11, <2>1 DEF Sever, TypeOK
  <2>3. SocketOwner' /\ status' \in [Conns -> Open \cup {"unused", "closed"}]
    BY <1>t, <1>11, ShapesAssumption DEF Sever, TypeOK, SocketOwner, NoLeakedSocket, Open
  <2>4. UNCHANGED <<pc, mu, conn, attempt, applied, result>>
    BY <1>11 DEF Sever
  <2> QED
    BY <1>t, <2>2, <2>3, <2>4 DEF Basic, TypeOK, LockOwner, Connected
<1>12. CASE UNCHANGED vars
  BY <1>t, <1>12
     DEF vars, Basic, TypeOK, LockOwner, Connected, SocketOwner, NoLeakedSocket
<1> QED
  BY <1>1, <1>2, <1>3, <1>4, <1>5, <1>6, <1>7, <1>8, <1>9, <1>10, <1>11, <1>12 DEF Next, Step

(* Basic holds of every behaviour. *)
LEMMA BasicInvariant == Spec => []Basic
<1>1. Init => Basic
  <2> SUFFICES ASSUME Init
               PROVE  Basic
    OBVIOUS
  <2>1. TypeOK
    BY DEF Init, TypeOK, Attempt, Open
  <2>2. LockOwner /\ Connected /\ SocketOwner
    BY ShapesAssumption DEF Init, LockOwner, Connected, SocketOwner, NoLeakedSocket, Open
  <2> QED
    BY <2>1, <2>2 DEF Basic
<1> QED
  BY <1>1, BasicStep, PTL DEF Spec

(* Every reachable state of the transport is well typed, for replies of    *)
(* any shape: also after a reply that was left half read.                  *)
THEOREM TypeCorrect == Spec => []TypeOK
<1>1. Basic => TypeOK
  BY DEF Basic
<1> QED
  BY <1>1, BasicInvariant, PTL

(* However a call ends, the transport never loses a socket it opened       *)
(* (transport_resp3.go 287-331, 340-348).                                  *)
THEOREM NoSocketLeaks == Spec => []NoLeakedSocket
<1>1. Basic => NoLeakedSocket
  BY DEF Basic, SocketOwner
<1> QED
  BY <1>1, BasicInvariant, PTL

-----------------------------------------------------------------------------
(* Framing: the line between the callers and the server *)

(* The request of attempt a has been written, or never will be. *)
Sent(k, a) ==
    /\ pc[k] # "idle"
    /\ attempt[k] > a \/ (attempt[k] = a /\ pc[k] \in {"read", "done"})

(* A connection carries at most one request, which was written and has     *)
(* not been executed yet.                                                  *)
Requests ==
    \A n \in Conns :
        req[n] = <<>> \/ \E r \in Request : /\ req[n] = <<r>>
                                            /\ Sent(r.call, r.attempt)
                                            /\ applied[r.call][r.attempt] = 0

(* An attempt writes to one connection only. *)
OneLinePerAttempt ==
    \A m, n \in Conns : \A r \in Request : req[m] = <<r>> /\ req[n] = <<r>> => m = n

(* Nothing is on a line unless somebody reads from it. *)
QuietLines ==
    /\ \A n \in Conns : status[n] = "unused" => req[n] = <<>>
    /\ \A n \in Conns : n # conn => rep[n] = <<>>
    /\ conn # NoConn /\ (\A k \in Calls : pc[k] # "read") => req[conn] = <<>> /\ rep[conn] = <<>>

(* The line of a caller that reads holds nothing, its request, or the      *)
(* reply to it.                                                            *)
ReaderLine ==
    \A k \in Calls : pc[k] = "read" =>
        \/ req[conn] = <<>> /\ rep[conn] = <<>>
        \/ req[conn] = <<[call |-> k, attempt |-> attempt[k]]>> /\ rep[conn] = <<>>
        \/ /\ req[conn] = <<>>
           /\ Executions(k) >= 1
           /\ \E s \in Shapes : rep[conn] = <<[of |-> k, shape |-> s]>>

(* An attempt is executed at most once, and only if it was written. *)
Counts ==
    \A k \in Calls : \A a \in Attempt :
        applied[k][a] <= 1 /\ (~Sent(k, a) => applied[k][a] = 0)

(* Answers that carry the server's word are the caller's own. *)
OwnAnswers ==
    \A k \in Calls :
        /\ pc[k] = "done" <=> result[k] # Pending
        /\ result[k].kind \in {"value", "svrerr"} => result[k].of = k /\ Executions(k) >= 1

Lines == Requests /\ OneLinePerAttempt /\ QuietLines /\ ReaderLine /\ Counts /\ OwnAnswers

(* A request stays sent: attempts only move on. *)
LEMMA SentStays ==
    ASSUME Basic, [Next]_vars, NEW k \in Calls, NEW a \in Attempt, Sent(k, a)
    PROVE  Sent(k, a)'
<1> USE DEF Attempt
<1>t. /\ pc \in [Calls -> {"idle", "lock", "top", "write", "read", "done"}]
      /\ attempt \in [Calls -> Attempt]
  BY DEF Basic, TypeOK
<1>1. ASSUME NEW j \in Calls, RetryOrFail(j), pc[j] # "done"
      PROVE  Sent(k, a)'
  BY <1>t, <1>1 DEF Sent, RetryOrFail, Finish
<1>2. ASSUME NEW j \in Calls, UNCHANGED attempt, pc[j] \notin {"read", "done"},
             NEW p \in {"lock", "top", "write", "read"}, pc' = [pc EXCEPT ![j] = p]
      PROVE  Sent(k, a)'
  BY <1>t, <1>2 DEF Sent
<1>3. ASSUME NEW j \in Calls, Call(j) \/ Lock(j) \/ Connect(j) \/ Reuse(j) \/ Write(j)
      PROVE  Sent(k, a)'
  BY <1>2, <1>3 DEF Call, Lock, Connect, Reuse, Write
<1>4. ASSUME NEW j \in Calls, ConnectFails(j) \/ WriteFails(j) \/ ReadFails(j)
      PROVE  Sent(k, a)'
  BY <1>1, <1>4 DEF ConnectFails, WriteFails, ReadFails
<1>5. ASSUME NEW j \in Calls, Read(j)
      PROVE  Sent(k, a)'
  BY <1>t, <1>5 DEF Read, Finish, Sent
<1>6. ASSUME UNCHANGED <<pc, attempt>>
      PROVE  Sent(k, a)'
  BY <1>6 DEF Sent
<1>7. ASSUME Close \/ UNCHANGED vars \/ \E n \in Conns : Serve(n) \/ Sever(n)
      PROVE  Sent(k, a)'
  BY <1>6, <1>7 DEF Close, Serve, Sever, vars
<1> QED
  BY <1>3, <1>4, <1>5, <1>7 DEF Next, Step

(* Requests and counts survive a step that neither sends nor executes. *)
LEMMA RequestsKept ==
    ASSUME Basic, Lines, [Next]_vars, UNCHANGED <<req, applied>>
    PROVE  Requests' /\ OneLinePerAttempt' /\ Counts'
<1>1. Requests'
  <2> SUFFICES ASSUME NEW n \in Conns, req'[n] # <<>>
               PROVE  \E r \in Request : /\ req'[n] = <<r>>
                                         /\ Sent(r.call, r.attempt)'
                                         /\ applied'[r.call][r.attempt] = 0
    BY DEF Requests
  <2>1. PICK r \in Request : /\ req[n] = <<r>>
                             /\ Sent(r.call, r.attempt)
                             /\ applied[r.call][r.attempt] = 0
    BY DEF Lines, Requests
  <2>2. r.call \in Calls /\ r.attempt \in Attempt
    BY DEF Request
  <2>3. Sent(r.call, r.attempt)'
    BY <2>1, <2>2, SentStays
  <2> QED
    BY <2>1, <2>3
<1>2. OneLinePerAttempt'
  BY DEF Lines, OneLinePerAttempt
<1>3. Counts'
  BY SentStays DEF Lines, Counts
<1> QED
  BY <1>1, <1>2, <1>3

(* The connection is given up and the call retried or failed. *)
LEMMA GiveUp ==
    ASSUME Basic, Lines, [Next]_vars, UNCHANGED <<req, applied>>,
           NEW k \in Calls, mu = k, RetryOrFail(k), conn' = NoConn,
           \A n \in Conns : rep'[n] = <<>>,
           \A n \in Conns : status'[n] = "unused" => status[n] = "unused"
    PROVE  Lines'
<1>t. TypeOK /\ LockOwner /\ pc[k] # "done"
  BY DEF Basic, LockOwner
<1>1. QuietLines'
  BY DEF Lines, QuietLines
<1>2. ReaderLine'
  <2>1. \A j \in Calls : pc'[j] # "read"
    BY <1>t, RetryOrFailEffect
  <2> QED
    BY <2>1 DEF ReaderLine
<1>3. OwnAnswers'
  <2>1. CASE attempt[k] = 0
    <3>1. pc' = [pc EXCEPT ![k] = "top"] /\ UNCHANGED result
      BY <2>1 DEF RetryOrFail
    <3> QED
      BY <1>t, <3>1 DEF Lines, OwnAnswers, TypeOK, Executions
  <2>2. CASE attempt[k] # 0
    <3>1. pc' = [pc EXCEPT ![k] = "done"] /\ result' = [result EXCEPT ![k] = NetErr]
      BY <2>2 DEF RetryOrFail, Finish
    <3>2. NetErr # Pending /\ NetErr.kind \notin {"value", "svrerr"}
      BY DEF NetErr, Pending
    <3> QED
      BY <1>t, <3>1, <3>2 DEF Lines, OwnAnswers, TypeOK, Executions
  <2> QED
    BY <2>1, <2>2
<1> QED
  BY <1>1, <1>2, <1>3, RequestsKept DEF Lines

(* The server executes a request: it is the only one on its line, and was  *)
(* not executed before.                                                    *)
LEMMA ServeKeepsLines ==
    ASSUME Basic, Lines, [Next]_vars, NEW n \in Conns, Serve(n)
    PROVE  Lines'
<1>t. TypeOK /\ LockOwner /\ Connected /\ SocketOwner
  BY DEF Basic
<1>u. UNCHANGED <<pc, mu, conn, attempt, status, result>>
  BY DEF Serve
<1>1. PICK r \in Request : /\ req[n] = <<r>>
                           /\ Sent(r.call, r.attempt)
                           /\ applied[r.call][r.attempt] = 0
  BY DEF Lines, Requests, Serve
<1>2. r.call \in Calls /\ r.attempt \in Attempt
  BY DEF Request
<1>3. /\ Head(req[n]) = r
      /\ req' = [req EXCEPT ![n] = <<>>]
      /\ applied' = [applied EXCEPT ![r.call][r.attempt] = 1]
  <2>1. Head(req[n]) = r /\ Tail(req[n]) = <<>>
    BY <1>1
  <2>2. req' = [req EXCEPT ![n] = <<>>]
    BY <2>1 DEF Serve
  <2>3. applied' = [applied EXCEPT ![r.call][r.attempt] = @ + 1]
    BY <2>1 DEF Serve
  <2>4. applied[r.call][r.attempt] + 1 = 1
    BY <1>1
  <2> QED
    BY <2>1, <2>2, <2>3, <2>4
<1>4. \A k \in Calls : \A a \in Attempt :
        applied'[k][a] = IF k = r.call /\ a = r.attempt THEN 1 ELSE applied[k][a]
  BY <1>t, <1>2, <1>3 DEF TypeOK
<1>5. \A k \in Calls : /\ Executions(k) \in Nat
                        /\ Executions(k)' \in Nat
                        /\ Executions(k)' >= Executions(k)
  <2> SUFFICES ASSUME NEW k \in Calls
               PROVE  /\ Executions(k) \in Nat
                      /\ Executions(k)' \in Nat
                      /\ Executions(k)' >= Executions(k)
    OBVIOUS
  <2>1. applied[k][0] \in Nat /\ applied[k][1] \in Nat
    BY <1>t DEF TypeOK, Attempt
  <2>2. \A a \in {0, 1} : applied'[k][a] \in {1, applied[k][a]} /\ applied'[k][a] >= applied[k][a]
    BY <1>1, <1>4, <2>1 DEF Attempt
  <2> QED
    BY <2>1, <2>2 DEF Executions
<1>6. Executions(r.call)' >= 1
  <2>a. applied[r.call][0] \in Nat /\ applied[r.call][1] \in Nat
    BY <1>t, <1>2 DEF TypeOK, Attempt
  <2>1. applied'[r.call][0] \in Nat /\ applied'[r.call][1] \in Nat
    BY <1>2, <1>4, <2>a DEF Attempt
  <2>2. applied'[r.call][0] = 1 \/ applied'[r.call][1] = 1
    BY <1>2, <1>4 DEF Attempt
  <2> QED
    BY <2>1, <2>2 DEF Executions
<1>7. Requests'
  <2> SUFFICES ASSUME NEW m \in Conns, req'[m] # <<>>
               PROVE  \E q \in Request : /\ req'[m] = <<q>>
                                         /\ Sent(q.call, q.attempt)'
                                         /\ applied'[q.call][q.attempt] = 0
    BY DEF Requests
  <2>1. m # n /\ req'[m] = req[m]
    BY <1>t, <1>3 DEF TypeOK
  <2>2. PICK q \in Request : /\ req[m] = <<q>>
                             /\ Sent(q.call, q.attempt)
                             /\ applied[q.call][q.attempt] = 0
    BY <2>1 DEF Lines, Requests
  <2>3. q.call \in Calls /\ q.attempt \in Attempt
    BY DEF Request
  <2>4. q # r
    BY <1>1, <2>1, <2>2 DEF Lines, OneLinePerAttempt
  <2>5. ~(q.call = r.call /\ q.attempt = r.attempt)
    BY <2>4 DEF Request
  <2> QED
    BY <1>4, <2>1, <2>2, <2>3, <2>5, SentStays
<1>8. OneLinePerAttempt'
  BY <1>t, <1>3 DEF Lines, OneLinePerAttempt, TypeOK
<1>9. Counts'
  <2> SUFFICES ASSUME NEW k \in Calls, NEW a \in Attempt
               PROVE  applied'[k][a] <= 1 /\ (~Sent(k, a)' => applied'[k][a] = 0)
    BY DEF Counts
  <2>1. applied[k][a] <= 1 /\ (~Sent(k, a) => applied[k][a] = 0)
    BY DEF Lines, Counts
  <2>2. Sent(k, a) => Sent(k, a)'
    BY SentStays
  <2> QED
    BY <1>1, <1>4, <2>1, <2>2
<1>10. OwnAnswers'
  <2>1. OwnAnswers
    BY DEF Lines
  <2>2. \A k \in Calls : Executions(k) >= 1 => Executions(k)' >= 1
    BY <1>5
  <2> QED
    BY <1>u, <2>1, <2>2 DEF OwnAnswers
<1>11. QuietLines' /\ ReaderLine'
  <2>1. CASE n # conn
    <3>1. status[n] # "up"
      BY <1>t, <2>1 DEF SocketOwner, NoLeakedSocket, Open
    <3>2. UNCHANGED rep
      BY <3>1 DEF Serve
    <3>3. conn \in Conns => req'[conn] = req[conn]
      BY <1>t, <1>3, <2>1 DEF TypeOK
    <3>4. QuietLines'
      BY <1>t, <1>u, <1>3, <3>2, <3>3 DEF Lines, QuietLines, TypeOK
    <3>5. ReaderLine'
      <4> SUFFICES ASSUME NEW k \in Calls, pc[k] = "read"
                   PROVE  (\/ req[conn] = <<>> /\ rep[conn] = <<>>
                           \/ req[conn] = <<[call |-> k, attempt |-> attempt[k]]>> /\ rep[conn] = <<>>
                           \/ /\ req[conn] = <<>>
                              /\ Executions(k) >= 1
                              /\ \E s \in Shapes : rep[conn] = <<[of |-> k, shape |-> s]>>)'
        BY <1>u DEF ReaderLine
      <4>1. conn \in Conns
        BY <1>t DEF TypeOK, Connected
      <4>2. Executions(k) >= 1 => Executions(k)' >= 1
        BY <1>5
      <4>3. req'[conn'] = req[conn] /\ rep'[conn'] = rep[conn] /\ attempt'[k] = attempt[k]
        BY <1>u, <3>2, <3>3, <4>1
      <4>4. \/ req[conn] = <<>> /\ rep[conn] = <<>>
            \/ req[conn] = <<[call |-> k, attempt |-> attempt[k]]>> /\ rep[conn] = <<>>
            \/ /\ req[conn] = <<>>
               /\ Executions(k) >= 1
               /\ \E s \in Shapes : rep[conn] = <<[of |-> k, shape |-> s]>>
        BY DEF Lines, ReaderLine
      <4> QED
        BY <4>2, <4>3, <4>4
    <3> QED
      BY <3>4, <3>5
  <2>2. CASE n = conn
    <3>1. conn # NoConn
      BY <2>2, ShapesAssumption
    <3>0. req[conn] = <<r>> /\ req[conn] # <<>>
      <4>1. req[n] = <<r>> /\ req[n] # <<>>
        BY <1>1 DEF Serve
      <4> QED
        BY <2>2, <4>1, Zenon
    <3>2. PICK k \in Calls : pc[k] = "read"
      BY <3>0, <3>1 DEF Lines, QuietLines
    <3>3. r = [call |-> k, attempt |-> attempt[k]] /\ rep[n] = <<>>
      <4>1. req[conn] = <<[call |-> k, attempt |-> attempt[k]]>> /\ rep[conn] = <<>>
        BY <3>0, <3>2 DEF Lines, ReaderLine
      <4> QED
        BY <2>2, <3>0, <4>1
    <3>4. \A j \in Calls : pc[j] = "read" => j = k
      BY <1>t, <3>2 DEF LockOwner
    <3>5. /\ req'[n] = <<>>
          /\ \A m \in Conns : m # n => rep'[m] = rep[m] /\ req'[m] = req[m]
          /\ \/ rep'[n] = <<>>
             \/ \E s \in Shapes : rep'[n] = <<[of |-> k, shape |-> s]>>
      <4>1. CASE status[n] = "up"
        <5>1. PICK s \in Shapes : rep' = [rep EXCEPT ![n] = Append(@, [of |-> r.call, shape |-> s])]
          BY <1>3, <4>1 DEF Serve
        <5> QED
          BY <1>t, <1>3, <3>3, <5>1 DEF TypeOK
      <4>2. CASE status[n] # "up"
        <5>1. UNCHANGED rep
          BY <4>2 DEF Serve
        <5> QED
          BY <1>t, <1>3, <3>3, <5>1 DEF TypeOK
      <4> QED
        BY <4>1, <4>2
    <3>6. Executions(k)' >= 1
      BY <1>6, <3>3
    <3>7. QuietLines'
      BY <1>u, <2>2, <3>2, <3>5 DEF Lines, QuietLines
    <3>8. ReaderLine'
      BY <1>u, <2>2, <3>2, <3>4, <3>5, <3>6 DEF ReaderLine
    <3> QED
      BY <3>7, <3>8
  <2> QED
    BY <2>1, <2>2
<1> QED
  BY <1>7, <1>8, <1>9, <1>10, <1>11 DEF Lines

(* A caller sends its request on a quiet line. *)
LEMMA WriteKeepsLines ==
    ASSUME Basic, Lines, [Next]_vars, NEW k \in Calls, Write(k)
    PROVE  Lines'
<1>t. TypeOK /\ LockOwner /\ Connected /\ SocketOwner
  BY DEF Basic
<1> DEFINE r == [call |-> k, attempt |-> attempt[k]]
<1>u. /\ pc[k] = "write"
      /\ pc' = [pc EXCEPT ![k] = "read"]
      /\ UNCHANGED <<mu, conn, attempt, status, rep, applied, result>>
  BY DEF Write
<1>1. conn \in Conns /\ conn # NoConn /\ mu = k /\ attempt[k] \in Attempt /\ r \in Request
  BY <1>t, <1>u DEF TypeOK, Connected, LockOwner, Request
<1>2. \A j \in Calls : /\ pc[j] # "read"
                       /\ pc'[j] = "read" <=> j = k
  BY <1>t, <1>u, <1>1 DEF TypeOK, LockOwner
<1>3. req[conn] = <<>> /\ rep[conn] = <<>>
  BY <1>1, <1>2 DEF Lines, QuietLines
<1>4. /\ \A n \in Conns : n # conn => req'[n] = req[n]
      /\ req'[conn] \in {<<>>, <<r>>}
  BY <1>t, <1>1, <1>3 DEF Write, TypeOK
<1>5. ~Sent(k, attempt[k])
  BY <1>t, <1>u, <1>1 DEF Sent, Attempt
<1>6. applied[k][attempt[k]] = 0
  BY <1>1, <1>5 DEF Lines, Counts
<1>7. \A n \in Conns : req[n] # <<r>>
  <2> SUFFICES ASSUME NEW n \in Conns, req[n] = <<r>>
               PROVE  FALSE
    OBVIOUS
  <2>1. PICK q \in Request : req[n] = <<q>> /\ Sent(q.call, q.attempt)
    BY DEF Lines, Requests
  <2>2. q = r
    BY <2>1
  <2> QED
    BY <1>5, <2>1, <2>2
<1>9. Requests'
  <2> SUFFICES ASSUME NEW n \in Conns, req'[n] # <<>>
               PROVE  \E q \in Request : /\ req'[n] = <<q>>
                                         /\ Sent(q.call, q.attempt)'
                                         /\ applied'[q.call][q.attempt] = 0
    BY DEF Requests
  <2>1. CASE n = conn
    <3>1. PICK q \in Request : q = r
      BY <1>1
    <3>2. req'[n] = <<q>> /\ applied'[q.call][q.attempt] = 0
      BY <1>u, <1>4, <1>6, <2>1, <3>1
    <3>3. q.call = k /\ q.attempt = attempt[k] /\ q.attempt = attempt'[k]
      BY <1>u, <3>1
    <3>4. Sent(q.call, q.attempt)'
      BY <1>t, <1>u, <3>3 DEF Sent, TypeOK
    <3> QED
      BY <3>2, <3>4
  <2>2. CASE n # conn
    <3>1. PICK q \in Request : /\ req[n] = <<q>>
                               /\ Sent(q.call, q.attempt)
                               /\ applied[q.call][q.attempt] = 0
      BY <1>4, <2>2 DEF Lines, Requests
    <3>2. Sent(q.call, q.attempt)'
      BY <3>1, SentStays DEF Request
    <3> QED
      BY <1>u, <1>4, <2>2, <3>1, <3>2
  <2> QED
    BY <2>1, <2>2
<1>10. OneLinePerAttempt'
  <2> SUFFICES ASSUME NEW m \in Conns, NEW n \in Conns, NEW q \in Request,
                      req'[m] = <<q>>, req'[n] = <<q>>
               PROVE  m = n
    BY DEF OneLinePerAttempt
  <2>1. ASSUME NEW l \in Conns, l # conn, NEW p \in Request, req'[l] = <<p>>
        PROVE  req[l] = <<p>> /\ p # r
    BY <1>4, <1>7, <2>1
  <2>2. m = conn => q = r
    BY <1>4
  <2>3. n = conn => q = r
    BY <1>4
  <2> QED
    BY <2>1, <2>2, <2>3 DEF Lines, OneLinePerAttempt
<1>11. QuietLines'
  <2>1. \A n \in Conns : status'[n] = "unused" => req'[n] = <<>>
    BY <1>t, <1>u, <1>1, <1>4 DEF Lines, QuietLines, SocketOwner, Open
  <2> QED
    BY <1>u, <1>2, <2>1 DEF Lines, QuietLines
<1>12. ReaderLine'
  BY <1>u, <1>2, <1>3, <1>4 DEF ReaderLine
<1>13. Counts'
  BY <1>u, SentStays DEF Lines, Counts
<1>14. OwnAnswers'
  <2>1. \A j \in Calls : pc'[j] = "done" <=> pc[j] = "done"
    BY <1>t, <1>u DEF TypeOK
  <2>2. \A j \in Calls : Executions(j)' = Executions(j)
    BY <1>u DEF Executions
  <2> QED
    BY <1>u, <2>1, <2>2 DEF Lines, OwnAnswers
<1> QED
  BY <1>9, <1>10, <1>11, <1>12, <1>13, <1>14 DEF Lines

(* A caller reads the reply to its own request, and leaves nothing behind. *)
LEMMA ReadKeepsLines ==
    ASSUME WellFramed, Basic, Lines, [Next]_vars, NEW k \in Calls, Read(k)
    PROVE  Lines'
<1>t. TypeOK /\ LockOwner /\ Connected /\ SocketOwner
  BY DEF Basic
<1>1. conn \in Conns /\ pc[k] = "read" /\ rep[conn] # <<>> /\ mu = k
  BY <1>t DEF Read, TypeOK, Connected, LockOwner
<1>2. PICK s \in Shapes : rep[conn] = <<[of |-> k, shape |-> s]>>
  BY <1>1 DEF Lines, ReaderLine
<1>3. req[conn] = <<>> /\ Executions(k) >= 1
  BY <1>1 DEF Lines, ReaderLine
<1> DEFINE f == Head(rep[conn])
           a == [kind |-> IF IsError(f.shape) THEN "svrerr" ELSE "value", of |-> f.of]
<1>4. f = [of |-> k, shape |-> s] /\ Tail(rep[conn]) = <<>>
  BY <1>2
<1>5. AsFrames(f.of, LeftOver(f.shape)) \o Tail(rep[conn]) = <<>>
  <2>1. LeftOver(f.shape) = <<>>
    BY <1>4 DEF WellFramed
  <2>2. AsFrames(f.of, <<>>) = <<>>
    BY DEF AsFrames
  <2> QED
    BY <1>4, <2>1, <2>2
<1>u. /\ rep' = [rep EXCEPT ![conn] = <<>>]
      /\ pc' = [pc EXCEPT ![k] = "done"]
      /\ result' = [result EXCEPT ![k] = a]
      /\ UNCHANGED <<conn, status, req, applied, attempt>>
  BY <1>5 DEF Read, Finish
<1>6. a.of = k /\ a.kind \in {"value", "svrerr"} /\ a # Pending
  BY <1>4 DEF Pending
<1>7. \A j \in Calls : pc'[j] # "read"
  BY <1>t, <1>1, <1>u DEF TypeOK, LockOwner
<1>8. QuietLines' /\ ReaderLine'
  BY <1>t, <1>1, <1>3, <1>7, <1>u DEF Lines, QuietLines, ReaderLine, TypeOK
<1>9. OwnAnswers'
  <2>1. \A j \in Calls : Executions(j)' = Executions(j)
    BY <1>u DEF Executions
  <2>2. /\ \A j \in Calls : j # k => pc'[j] = pc[j] /\ result'[j] = result[j]
        /\ pc'[k] = "done" /\ result'[k] = a
    BY <1>t, <1>u DEF TypeOK
  <2> QED
    BY <1>3, <1>6, <2>1, <2>2 DEF Lines, OwnAnswers
<1> QED
  BY <1>8, <1>9, <1>u, RequestsKept DEF Lines

(* Every step preserves Lines when replies are well framed. *)
LEMMA LinesStep ==
    ASSUME WellFramed
    PROVE  Basic /\ Lines /\ [Next]_vars => Lines'
<1> SUFFICES ASSUME Basic, Lines, [Next]_vars
             PROVE  Lines'
  OBVIOUS
<1>t. TypeOK /\ LockOwner /\ Connected /\ SocketOwner
  BY DEF Basic
<1>1. ASSUME NEW k \in Calls, Call(k) \/ Lock(k) \/ Reuse(k)
      PROVE  Lines'
  <2>1. /\ UNCHANGED <<conn, attempt, status, req, rep, applied, result>>
        /\ \A j \in Calls : pc'[j] = "read" <=> pc[j] = "read"
        /\ \A j \in Calls : pc'[j] = "done" <=> pc[j] = "done"
    BY <1>t, <1>1 DEF Call, Lock, Reuse, TypeOK
  <2>2. \A j \in Calls : Executions(j)' = Executions(j)
    BY <2>1 DEF Executions
  <2>3. QuietLines'
    BY <2>1 DEF Lines, QuietLines
  <2>4. ReaderLine'
    BY <2>1, <2>2 DEF Lines, ReaderLine
  <2>5. OwnAnswers'
    BY <2>1, <2>2 DEF Lines, OwnAnswers
  <2> QED
    BY <2>1, <2>3, <2>4, <2>5, RequestsKept DEF Lines
<1>2. ASSUME NEW k \in Calls, Connect(k)
      PROVE  Lines'
  <2>1. PICK n \in Conns : /\ status[n] = "unused"
                           /\ status' = [WithOldClosed(status, "closed") EXCEPT ![n] = "up"]
                           /\ conn' = n
    BY <1>2 DEF Connect
  <2>2. /\ pc[k] = "top"
        /\ pc' = [pc EXCEPT ![k] = "write"]
        /\ rep' = WithOldClosed(rep, <<>>)
        /\ UNCHANGED <<req, applied, result, attempt>>
    BY <1>2 DEF Connect
  <2>3. \A j \in Calls : pc'[j] # "read" /\ (pc'[j] = "done" <=> pc[j] = "done")
    BY <1>t, <2>2 DEF TypeOK, LockOwner
  <2>4. \A m \in Conns : rep'[m] = <<>>
    BY <1>t, <2>2, ShapesAssumption DEF TypeOK, WithOldClosed, Lines, QuietLines
  <2>5. req[n] = <<>>
    BY <2>1 DEF Lines, QuietLines
  <2>6. \A m \in Conns : status'[m] = "unused" => status[m] = "unused"
    BY <1>t, <2>1 DEF TypeOK, WithOldClosed
  <2>7. QuietLines'
    BY <2>1, <2>2, <2>3, <2>4, <2>5, <2>6 DEF Lines, QuietLines
  <2>8. ReaderLine'
    BY <2>3 DEF ReaderLine
  <2>9. OwnAnswers'
    BY <2>2, <2>3 DEF Lines, OwnAnswers, Executions
  <2> QED
    BY <2>2, <2>7, <2>8, <2>9, RequestsKept DEF Lines
<1>3. ASSUME NEW k \in Calls, ConnectFails(k)
      PROVE  Lines'
  <2>1. /\ mu = k
        /\ RetryOrFail(k)
        /\ UNCHANGED <<req, applied>>
        /\ conn' = NoConn
    BY <1>t, <1>3 DEF ConnectFails, LockOwner
  <2>2. \A n \in Conns : /\ rep'[n] = <<>>
                         /\ status'[n] = "unused" => status[n] = "unused"
    BY <1>t, <1>3, ShapesAssumption DEF ConnectFails, TypeOK, WithOldClosed, Lines, QuietLines
  <2> QED
    BY <2>1, <2>2, GiveUp
<1>4. ASSUME NEW k \in Calls, WriteFails(k) \/ ReadFails(k)
      PROVE  Lines'
  <2>1. /\ mu = k
        /\ RetryOrFail(k)
        /\ UNCHANGED <<req, applied>>
        /\ conn' = NoConn
        /\ Drop(conn)
    BY <1>t, <1>4 DEF WriteFails, ReadFails, LockOwner, Drop
  <2>2. \A n \in Conns : /\ rep'[n] = <<>>
                         /\ status'[n] = "unused" => status[n] = "unused"
    BY <1>t, <2>1 DEF Drop, TypeOK, Lines, QuietLines
  <2> QED
    BY <2>1, <2>2, GiveUp
<1>5. CASE Close
  <2>1. /\ \A k \in Calls : pc[k] # "read"
        /\ UNCHANGED <<pc, attempt, applied, result, req>>
    BY <1>t, <1>5, ShapesAssumption DEF Close, LockOwner, Drop
  <2>2. /\ \A n \in Conns : /\ rep'[n] = <<>>
                            /\ status'[n] = "unused" => status[n] = "unused"
        /\ conn' = NoConn
    BY <1>t, <1>5, ShapesAssumption DEF Close, Drop, TypeOK, Lines, QuietLines
  <2>3. QuietLines' /\ ReaderLine'
    BY <2>1, <2>2 DEF Lines, QuietLines, ReaderLine
  <2>4. OwnAnswers'
    BY <2>1 DEF Lines, OwnAnswers, Executions
  <2> QED
    BY <2>1, <2>3, <2>4, RequestsKept DEF Lines
<1>6. ASSUME NEW n \in Conns, Sever(n)
      PROVE  Lines'
  <2>1. /\ UNCHANGED <<pc, conn, attempt, applied, result>>
        /\ \A m \in Conns : /\ req'[m] \in {req[m], <<>>}
                            /\ rep'[m] \in {rep[m], <<>>}
                            /\ status'[m] = "unused" => status[m] = "unused"
    BY <1>t, <1>6 DEF Sever, TypeOK
  <2>2. Requests'
    BY <2>1 DEF Lines, Requests, Sent
  <2>3. OneLinePerAttempt'
    BY <2>1 DEF Lines, OneLinePerAttempt
  <2>4. QuietLines'
    BY <1>t, <2>1 DEF Lines, QuietLines, TypeOK
  <2>5. \A j \in Calls : Executions(j)' = Executions(j)
    BY <2>1 DEF Executions
  <2>6. ReaderLine'
    BY <1>t, <2>1, <2>5 DEF Lines, ReaderLine, TypeOK, Connected
  <2>7. Counts'
    BY <2>1 DEF Lines, Counts, Sent
  <2>8. OwnAnswers'
    BY <2>1, <2>5 DEF Lines, OwnAnswers
  <2> QED
    BY <2>2, <2>3, <2>4, <2>6, <2>7, <2>8 DEF Lines
<1>7. CASE UNCHANGED vars
  <2>1. \A j \in Calls : Executions(j)' = Executions(j)
    BY <1>7 DEF Executions, vars
  <2>2. QuietLines' /\ ReaderLine' /\ OwnAnswers'
    BY <1>7, <2>1 DEF vars, Lines, QuietLines, ReaderLine, OwnAnswers
  <2> QED
    BY <1>7, <2>2, RequestsKept DEF Lines, vars
<1> QED
  BY <1>1, <1>2, <1>3, <1>4, <1>5, <1>6, <1>7, WriteKeepsLines, ReadKeepsLines, ServeKeepsLines
     DEF Next, Step

(* The inductive invariant of the transport. *)
LEMMA LinesInvariant ==
    ASSUME WellFramed
    PROVE  Spec => [](Basic /\ Lines)
<1>1. Init => Lines
  <2> SUFFICES ASSUME Init
               PROVE  Lines
    OBVIOUS
  <2>1. Requests /\ OneLinePerAttempt /\ QuietLines /\ ReaderLine
    BY DEF Init, Requests, OneLinePerAttempt, QuietLines, ReaderLine
  <2>2. Counts
    BY DEF Init, Counts
  <2>3. OwnAnswers
    BY DEF Init, OwnAnswers, Pending
  <2> QED
    BY <2>1, <2>2, <2>3 DEF Lines
<1> QED
  BY <1>1, BasicInvariant, LinesStep, PTL DEF Spec

(* With well-framed replies no caller is ever given another caller's       *)
(* reply, for any number of callers, reconnects, retries and Closes        *)
(* (transport_resp3.go 282-337).                                           *)
THEOREM RepliesAreOwn ==
    ASSUME WellFramed
    PROVE  Spec => []ReplyIsOwn
<1>1. Lines => ReplyIsOwn
  BY DEF Lines, OwnAnswers, ReplyIsOwn
<1> QED
  BY <1>1, LinesInvariant, PTL

(* The connection passed on with the mutex has nothing in flight. *)
THEOREM ConnectionIsQuiet ==
    ASSUME WellFramed
    PROVE  Spec => []QuietWhenFree
<1>1. Basic /\ Lines => QuietWhenFree
  BY ShapesAssumption DEF Basic, LockOwner, Lines, QuietLines, QuietWhenFree
<1> QED
  BY <1>1, LinesInvariant, PTL

(* One call makes the server execute its command at most twice, and is     *)
(* answered in the server's name only if it was executed.                  *)
THEOREM AnswersMatchExecutions ==
    ASSUME WellFramed
    PROVE  Spec => []ExecutedAsAnswered
<1>1. Basic /\ Lines => ExecutedAsAnswered
  <2> SUFFICES ASSUME Basic, Lines, NEW k \in Calls
               PROVE  /\ Executions(k) <= 2
                      /\ result[k].kind \in {"value", "svrerr"} => Executions(k) >= 1
    BY DEF ExecutedAsAnswered
  <2>1. applied[k][0] \in Nat /\ applied[k][1] \in Nat
    BY DEF Basic, TypeOK, Attempt
  <2>2. applied[k][0] <= 1 /\ applied[k][1] <= 1
    BY DEF Lines, Counts, Attempt
  <2> QED
    BY <2>1, <2>2 DEF Executions, Lines, OwnAnswers
<1> QED
  BY <1>1, LinesInvariant, PTL

-----------------------------------------------------------------------------
(* Refinement *)

(* A step that leaves the answers and the executions alone is not visible. *)
LEMMA Invisible ==
    ASSUME UNCHANGED <<result, applied>>,
           \A k \in Calls : /\ pc'[k] = "idle" <=> pc[k] = "idle"
                            /\ pc'[k] = "done" <=> pc[k] = "done"
    PROVE  UNCHANGED Service!absVars
<1>1. Phases' = Phases
  BY DEF Phases
<1>2. \A k \in Calls : Executions(k)' = Executions(k)
  BY DEF Executions
<1> QED
  BY <1>1, <1>2 DEF Service!absVars

(* A step on which call k is answered with a returns a. *)
LEMMA Answering ==
    ASSUME Basic, Lines, NEW k \in Calls, mu = k, NEW a \in Answers,
           pc' = [pc EXCEPT ![k] = "done"],
           result' = [result EXCEPT ![k] = a],
           UNCHANGED applied,
           a.kind \in {"value", "svrerr"} => Executions(k) >= 1
    PROVE  Service!Next
<1>1. /\ pc \in [Calls -> {"idle", "lock", "top", "write", "read", "done"}]
      /\ result \in [Calls -> Answers \cup {Pending}]
      /\ pc[k] \notin {"idle", "done"}
  BY DEF Basic, TypeOK, LockOwner
<1>2. a.kind \in Service!Answer
  BY DEF Answers, NetErr, Service!Answer
<1>3. Phases[k] = "open"
  BY <1>1 DEF Phases
<1>4. Phases' = [Phases EXCEPT ![k] = a.kind]
  BY <1>1 DEF Phases
<1>5. [j \in Calls |-> Executions(j)]' = [j \in Calls |-> Executions(j)]
  BY DEF Executions
<1>6. a.kind \in {"value", "svrerr"} => [j \in Calls |-> Executions(j)][k] > 0
  <2>1. applied[k][0] \in Nat /\ applied[k][1] \in Nat
    BY DEF Basic, TypeOK, Attempt
  <2> QED
    BY <2>1 DEF Executions
<1>7. Service!Return(k, a.kind)
  BY <1>3, <1>4, <1>5, <1>6 DEF Service!Return
<1> QED
  BY <1>2, <1>7 DEF Service!Next

(* The retry path is a return with a transport error, or invisible. *)
LEMMA RetryOrFailVisible ==
    ASSUME Basic, Lines, NEW k \in Calls, mu = k, RetryOrFail(k), UNCHANGED applied
    PROVE  Service!Next \/ UNCHANGED Service!absVars
<1>1. CASE attempt[k] = 0
  <2>1. pc' = [pc EXCEPT ![k] = "top"] /\ UNCHANGED result
    BY <1>1 DEF RetryOrFail
  <2> QED
    BY <2>1, Invisible DEF Basic, TypeOK, LockOwner
<1>2. CASE attempt[k] # 0
  <2>1. pc' = [pc EXCEPT ![k] = "done"] /\ result' = [result EXCEPT ![k] = NetErr]
    BY <1>2 DEF RetryOrFail, Finish
  <2>2. NetErr \in Answers /\ NetErr.kind \notin {"value", "svrerr"}
    BY DEF Answers, NetErr
  <2> QED
    BY <2>1, <2>2, Answering
<1> QED
  BY <1>1, <1>2

(* Callers of the transport see a CallService that executes a command at   *)
(* most twice: late, repeated and unanswered executions are all the retry  *)
(* can add.                                                                *)
THEOREM TransportImplementsCallService ==
    ASSUME WellFramed
    PROVE  Spec => ImplementsCallService
<1>1. Init => Service!Init
  <2> SUFFICES ASSUME Init
               PROVE  Service!Init
    OBVIOUS
  <2>1. Phases = [k \in Calls |-> "new"]
    BY DEF Init, Phases
  <2>2. \A k \in Calls : Executions(k) = 0
    BY DEF Init, Executions, Attempt
  <2> QED
    BY <2>1, <2>2 DEF Service!Init
<1>2. /\ Basic /\ Lines /\ (Basic /\ Lines)'
      /\ [Next]_vars
      => [Service!Next]_(Service!absVars)
  <2> SUFFICES ASSUME Basic, Lines, Lines', [Next]_vars
               PROVE  Service!Next \/ UNCHANGED Service!absVars
    OBVIOUS
  <2>t. TypeOK /\ LockOwner
    BY DEF Basic
  <2>1. ASSUME NEW k \in Calls, Call(k)
        PROVE  Service!Next
    <3>1. /\ Phases[k] = "new"
          /\ Phases' = [Phases EXCEPT ![k] = "open"]
      BY <2>t, <2>1 DEF Call, Phases, TypeOK
    <3>2. [j \in Calls |-> Executions(j)]' = [j \in Calls |-> Executions(j)]
      BY <2>1 DEF Executions, Call
    <3> QED
      BY <3>1, <3>2 DEF Service!Next, Service!Invoke
  <2>2. ASSUME NEW k \in Calls, Lock(k) \/ Connect(k) \/ Reuse(k) \/ Write(k)
        PROVE  UNCHANGED Service!absVars
    <3>1. /\ UNCHANGED <<result, applied>>
          /\ \A j \in Calls : /\ pc'[j] = "idle" <=> pc[j] = "idle"
                              /\ pc'[j] = "done" <=> pc[j] = "done"
      BY <2>t, <2>2 DEF Lock, Connect, Reuse, Write, TypeOK
    <3> QED
      BY <3>1, Invisible
  <2>3. ASSUME NEW k \in Calls, ConnectFails(k) \/ WriteFails(k) \/ ReadFails(k)
        PROVE  Service!Next \/ UNCHANGED Service!absVars
    <3>1. mu = k /\ RetryOrFail(k) /\ UNCHANGED applied
      BY <2>t, <2>3 DEF ConnectFails, WriteFails, ReadFails, LockOwner
    <3> QED
      BY <3>1, RetryOrFailVisible
  <2>4. ASSUME NEW k \in Calls, Read(k)
        PROVE  Service!Next
    <3> DEFINE f == Head(rep[conn])
               a == [kind |-> IF IsError(f.shape) THEN "svrerr" ELSE "value", of |-> f.of]
    <3>1. /\ pc[k] = "read"
          /\ pc' = [pc EXCEPT ![k] = "done"]
          /\ result' = [result EXCEPT ![k] = a]
          /\ UNCHANGED applied
      BY <2>4 DEF Read, Finish
    <3>2. rep[conn] # <<>> /\ mu = k
      BY <2>t, <2>4 DEF Read, LockOwner
    <3>3. PICK s \in Shapes : rep[conn] = <<[of |-> k, shape |-> s]>>
      BY <3>1, <3>2 DEF Lines, ReaderLine
    <3>4. Executions(k) >= 1
      BY <3>1, <3>2 DEF Lines, ReaderLine
    <3>5. a \in Answers
      BY <3>3 DEF Answers
    <3> HIDE DEF a
    <3> QED
      BY <3>1, <3>2, <3>4, <3>5, Answering
  <2>5. CASE Close
    <3>1. UNCHANGED <<pc, result, applied>>
      BY <2>5 DEF Close
    <3> QED
      BY <3>1, Invisible
  <2>6. ASSUME NEW n \in Conns, Serve(n)
        PROVE  Service!Next
    <3>1. PICK r \in Request : /\ req[n] = <<r>>
                               /\ Sent(r.call, r.attempt)
                               /\ applied[r.call][r.attempt] = 0
      BY <2>6 DEF Lines, Requests, Serve
    <3> DEFINE k == r.call
    <3>2. k \in Calls /\ r.attempt \in Attempt
      BY DEF Request
    <3>3. Head(req[n]) = r
      BY <3>1
    <3>4. /\ applied' = [applied EXCEPT ![k][r.attempt] = @ + 1]
          /\ UNCHANGED <<pc, result, attempt>>
      BY <2>6, <3>3 DEF Serve
    <3>5. Phases' = Phases /\ Phases[k] # "new"
      <4>1. Phases' = Phases
        BY <3>4 DEF Phases
      <4>2. pc[k] # "idle"
        BY <3>1 DEF Sent
      <4>3. result[k].kind # "new"
        <5>1. result[k] \in Answers \/ result[k] = Pending
          BY <2>t, <3>2 DEF TypeOK
        <5>2. \A x \in Answers : x.kind # "new"
          BY DEF Answers, NetErr
        <5>3. Pending.kind # "new"
          BY DEF Pending
        <5> QED
          BY <5>1, <5>2, <5>3
      <4> QED
        BY <3>2, <4>1, <4>2, <4>3 DEF Phases
    <3>6. applied[k][0] \in Nat /\ applied[k][1] \in Nat /\ applied[k][0] <= 1 /\ applied[k][1] <= 1
      BY <2>t, <3>2 DEF TypeOK, Attempt, Lines, Counts
    <3>7. Executions(k) < 2
      BY <3>1, <3>2, <3>6 DEF Executions, Attempt
    <3>8. /\ Executions(k)' = Executions(k) + 1
          /\ \A j \in Calls : j # k => Executions(j)' = Executions(j)
      BY <2>t, <3>2, <3>4, <3>6 DEF Executions, Attempt, TypeOK
    <3>9. [j \in Calls |-> Executions(j)]' = [[j \in Calls |-> Executions(j)] EXCEPT ![k] = @ + 1]
      BY <3>2, <3>8
    <3>10. Service!ExecuteOnServer(k)
      BY <3>2, <3>5, <3>7, <3>9 DEF Service!ExecuteOnServer
    <3> QED
      BY <3>2, <3>10 DEF Service!Next
  <2>7. ASSUME NEW n \in Conns, Sever(n)
        PROVE  UNCHANGED Service!absVars
    <3>1. UNCHANGED <<pc, result, applied>>
      BY <2>7 DEF Sever
    <3> QED
      BY <3>1, Invisible
  <2>8. CASE UNCHANGED vars
    <3>1. UNCHANGED <<pc, result, applied>>
      BY <2>8 DEF vars
    <3> QED
      BY <3>1, Invisible
  <2> QED
    BY <2>1, <2>2, <2>3, <2>4, <2>5, <2>6, <2>7, <2>8 DEF Next, Step
<1> QED
  BY <1>1, <1>2, LinesInvariant, PTL DEF Spec, ImplementsCallService, Service!Spec
=============================================================================
