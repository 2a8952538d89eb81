----------------------------- MODULE RpcProofs -----------------------------
(***************************************************************************)
(* Proofs about RpcTransport, for any number of calls and Thunder clients. *)
(***************************************************************************)
EXTENDS RpcTransport, TLAPS

-----------------------------------------------------------------------------
(* Types, the mutex and the shared client *)

(* The mutex is held by the caller inside ensureConnected. *)
LockOwner == \A k \in Calls : pc[k] \in {"check", "dial"} <=> mu = k

(* t.client was dialled and not closed, and is the only such client; while *)
(* a caller dials there is none.                                           *)
ClientOwner ==
    /\ client # NoClient => life[client] \in Live
    /\ NoLeakedClient
    /\ \A k \in Calls : pc[k] = "dial" => client = NoClient

Shared == TypeOK /\ LockOwner /\ ClientOwner

(* Closing the shared client leaves none alive. *)
LEMMA CloseLeavesNone ==
    ASSUME TypeOK, ClientOwner,
           IF client = NoClient THEN UNCHANGED <<life, replies>> ELSE CloseClient(client),
           client' = NoClient
    PROVE  /\ life' \in [Clients -> Live \cup {"unused", "closed"}]
           /\ replies' \subseteq replies
           /\ \A c \in Clients : life'[c] \notin Live
<1>1. CASE client = NoClient
  BY <1>1, RpcAssumption DEF TypeOK, ClientOwner, NoLeakedClient
<1>2. CASE client # NoClient
  BY <1>2 DEF CloseClient, TypeOK, ClientOwner, NoLeakedClient, Live
<1> QED
  BY <1>1, <1>2

(* Every step preserves the types and the ownership of mutex and client. *)
LEMMA SharedStep == Shared /\ [Next]_vars => Shared'
<1> SUFFICES ASSUME Shared, [Next]_vars
             PROVE  Shared'
  OBVIOUS
<1>t. TypeOK /\ LockOwner /\ ClientOwner
  BY DEF Shared
<1>1. ASSUME NEW k \in Calls, Call(k)
      PROVE  Shared'
  BY <1>t, <1>1 DEF Call, Shared, TypeOK, LockOwner, ClientOwner, NoLeakedClient
<1>2. ASSUME NEW k \in Calls, Lock(k)
      PROVE  Shared'
  BY <1>t, <1>2, RpcAssumption DEF Lock, Shared, TypeOK, LockOwner, ClientOwner, NoLeakedClient
<1>3. ASSUME NEW k \in Calls, Reuse(k)
      PROVE  Shared'
  BY <1>t, <1>3, RpcAssumption
     DEF Reuse, IsAlive, Shared, TypeOK, LockOwner, ClientOwner, NoLeakedClient
<1>4. ASSUME NEW k \in Calls, Discard(k)
      PROVE  Shared'
  <2>1. /\ life' \in [Clients -> Live \cup {"unused", "closed"}]
        /\ replies' \subseteq replies
        /\ \A c \in Clients : life'[c] \notin Live
    BY <1>t, <1>4, CloseLeavesNone DEF Discard
  <2>2. TypeOK'
    BY <1>t, <1>4, <2>1 DEF Discard, TypeOK
  <2>3. LockOwner'
    BY <1>t, <1>4 DEF Discard, TypeOK, LockOwner
  <2>4. ClientOwner'
    BY <1>4, <2>1 DEF Discard, ClientOwner, NoLeakedClient
  <2> QED
    BY <2>2, <2>3, <2>4 DEF Shared
<1>5. ASSUME NEW k \in Calls, Dial(k)
      PROVE  Shared'
  <2>1. PICK c \in Clients : /\ life[c] = "unused"
                             /\ life' = [life EXCEPT ![c] = "up"]
                             /\ client' = c
                             /\ using' = [using EXCEPT ![k] = c]
    BY <1>5 DEF Dial
  <2>2. client = NoClient /\ \A d \in Clients : life[d] \notin Live
    BY <1>t, <1>5, RpcAssumption DEF Dial, ClientOwner, NoLeakedClient
  <2>3. TypeOK'
    BY <1>t, <1>5, <2>1 DEF Dial, TypeOK, Live
  <2>4. LockOwner'
    BY <1>t, <1>5, RpcAssumption DEF Dial, TypeOK, LockOwner
  <2>5. ClientOwner'
    <3>1. \A j \in Calls : pc'[j] # "dial"
      BY <1>t, <1>5 DEF Dial, TypeOK, LockOwner
    <3> QED
      BY <1>t, <2>1, <2>2, <3>1 DEF TypeOK, ClientOwner, NoLeakedClient, Live
  <2> QED
    BY <2>3, <2>4, <2>5 DEF Shared
<1>6. ASSUME NEW k \in Calls, DialFails(k)
      PROVE  Shared'
  BY <1>t, <1>6, RpcAssumption
     DEF DialFails, Finish, Answer, Shared, TypeOK, LockOwner, ClientOwner, NoLeakedClient
<1>7. ASSUME NEW k \in Calls, Send(k)
      PROVE  Shared'
  BY <1>t, <1>7 DEF Send, Shared, TypeOK, LockOwner, ClientOwner, NoLeakedClient
<1>8. ASSUME NEW k \in Calls, CallFails(k)
      PROVE  Shared'
  BY <1>t, <1>8 DEF CallFails, Finish, Answer, Shared, TypeOK, LockOwner, ClientOwner, NoLeakedClient
<1>9. ASSUME NEW k \in Calls, Receive(k)
      PROVE  Shared'
  <2>1. PICK r \in replies : replies' = replies \ {r} /\ Finish(k, r.kind)
    BY <1>9 DEF Receive
  <2>2. r.kind \in Answer
    BY <1>t DEF TypeOK, Answer
  <2> QED
    BY <1>t, <1>9, <2>1, <2>2
       DEF Receive, Finish, Shared, TypeOK, LockOwner, ClientOwner, NoLeakedClient
<1>10. CASE Close
  <2>1. /\ life' \in [Clients -> Live \cup {"unused", "closed"}]
        /\ replies' \subseteq replies
        /\ \A c \in Clients : life'[c] \notin Live
    BY <1>t, <1>10, CloseLeavesNone DEF Close
  <2> QED
    BY <1>t, <1>10, <2>1 DEF Close, Shared, TypeOK, LockOwner, ClientOwner, NoLeakedClient
<1>11. CASE Serve
  <2>1. PICK q \in sent, kind \in Answer :
            /\ sent' = sent \ {q}
            /\ executed' = [executed EXCEPT ![q.call] = @ + 1]
            /\ replies' = IF life[q.via] = "up"
                          THEN replies \cup {[call |-> q.call, via |-> q.via, kind |-> kind]}
                          ELSE replies
            /\ UNCHANGED <<pc, mu, client, using, life, result>>
    BY <1>11 DEF Serve
  <2>2. q.call \in Calls /\ q.via \in Clients
    BY <1>t DEF TypeOK
  <2>3. TypeOK'
    BY <1>t, <2>1, <2>2 DEF TypeOK
  <2> QED
    BY <1>t, <2>1, <2>3 DEF Shared, LockOwner, ClientOwner, NoLeakedClient
<1>12. ASSUME NEW c \in Clients, Lose(c)
       PROVE  Shared'
  BY <1>t, <1>12 DEF Lose, Live, Shared, TypeOK, LockOwner, ClientOwner, NoLeakedClient
<1>13. ASSUME NEW c \in Clients, Restore(c)
       PROVE  Shared'
  BY <1>t, <1>13 DEF Restore, Live, Shared, TypeOK, LockOwner, ClientOwner, NoLeakedClient
<1>14. CASE UNCHANGED vars
  BY <1>t, <1>14 DEF vars, Shared, TypeOK, LockOwner, ClientOwner, NoLeakedClient
<1> QED
  BY <1>1, <1>2, <1>3, <1>4, <1>5, <1>6, <1>7, <1>8, <1>9, <1>10, <1>11, <1>12, <1>13, <1>14
     DEF Next, Ensure, RoundTrip

(* Shared holds of every behaviour. *)
LEMMA SharedInvariant == Spec => []Shared
<1>1. Init => Shared
  BY RpcAssumption DEF Init, Shared, TypeOK, LockOwner, ClientOwner, NoLeakedClient, Live
<1> QED
  BY <1>1, SharedStep, PTL DEF Spec

(* Every reachable state of the transport is well typed; a caller past     *)
(* ensureConnected has a client, also when that was closed meanwhile.      *)
THEOREM RpcTypeCorrect == Spec => []TypeOK
<1>1. Shared => TypeOK
  BY DEF Shared
<1> QED
  BY <1>1, SharedInvariant, PTL

(* However many callers find the client dead at once, and whenever Close   *)
(* runs, every client that was dialled is t.client or closed               *)
(* (transport_rpc.go 187-214).                                             *)
THEOREM NoClientLeaks == Spec => []NoLeakedClient
<1>1. Shared => NoLeakedClient
  BY DEF Shared, ClientOwner
<1> QED
  BY <1>1, SharedInvariant, PTL

-----------------------------------------------------------------------------
(* Requests, executions and answers *)

(* A request in flight belongs to a call that sent it on the client it was *)
(* handed, and was not executed yet: a call has one request at most.       *)
InFlight ==
    \A q \in sent : /\ pc[q.call] \in {"wait", "done"}
                    /\ q.via = using[q.call]
                    /\ executed[q.call] = 0

(* Only what was sent is executed, and once. *)
Counts ==
    \A k \in Calls : /\ executed[k] <= 1
                     /\ executed[k] > 0 => pc[k] \in {"wait", "done"}

(* A reply follows an execution. *)
RepliesAreReal == \A r \in replies : executed[r.call] = 1

(* A call has an answer when it is done, and a value only after an         *)
(* execution.                                                              *)
AnswersAreReal ==
    \A k \in Calls : /\ pc[k] = "done" <=> result[k] # "none"
                     /\ result[k] = "value" => executed[k] = 1

Flight == InFlight /\ Counts /\ RepliesAreReal /\ AnswersAreReal

(* Every step preserves the account of requests and executions. *)
LEMMA FlightStep == Shared /\ Flight /\ [Next]_vars => Flight'
<1> SUFFICES ASSUME TypeOK, Flight, [Next]_vars
             PROVE  Flight'
  BY DEF Shared
<1>f. InFlight /\ Counts /\ RepliesAreReal /\ AnswersAreReal
  BY DEF Flight
<1>s. \A q \in sent : q.call \in Calls
  BY DEF TypeOK
<1>1. ASSUME NEW k \in Calls, Call(k) \/ Lock(k)
      PROVE  Flight'
  BY <1>f, <1>s, <1>1
     DEF Call, Lock, TypeOK, Flight, InFlight, Counts, RepliesAreReal, AnswersAreReal
<1>2. ASSUME NEW k \in Calls, Reuse(k) \/ Dial(k)
      PROVE  Flight'
  <2>1. /\ pc[k] \in {"check", "dial"}
        /\ pc' = [pc EXCEPT ![k] = "call"]
        /\ \E c : using' = [using EXCEPT ![k] = c]
        /\ UNCHANGED <<sent, replies, executed, result>>
    BY <1>2 DEF Reuse, Dial
  <2> QED
    BY <1>f, <1>s, <2>1 DEF TypeOK, Flight, InFlight, Counts, RepliesAreReal, AnswersAreReal
<1>3. ASSUME NEW k \in Calls, Discard(k)
      PROVE  Flight'
  <2>1. /\ pc[k] = "check"
        /\ pc' = [pc EXCEPT ![k] = "dial"]
        /\ replies' \subseteq replies
        /\ UNCHANGED <<using, sent, executed, result>>
    BY <1>3 DEF Discard, CloseClient
  <2> QED
    BY <1>f, <1>s, <2>1 DEF TypeOK, Flight, InFlight, Counts, RepliesAreReal, AnswersAreReal
<1>4. ASSUME NEW k \in Calls, DialFails(k) \/ CallFails(k)
      PROVE  Flight'
  <2>1. /\ pc[k] \in {"dial", "call", "wait"}
        /\ pc' = [pc EXCEPT ![k] = "done"]
        /\ result' = [result EXCEPT ![k] = "svrerr"]
        /\ UNCHANGED <<using, sent, replies, executed>>
    BY <1>4 DEF DialFails, CallFails, Finish
  <2> QED
    BY <1>f, <1>s, <2>1 DEF TypeOK, Flight, InFlight, Counts, RepliesAreReal, AnswersAreReal
<1>5. ASSUME NEW k \in Calls, Send(k)
      PROVE  Flight'
  <2>1. executed[k] = 0
    BY <1>f, <1>5 DEF Send, Counts, TypeOK
  <2> QED
    BY <1>f, <1>s, <1>5, <2>1
       DEF Send, TypeOK, Flight, InFlight, Counts, RepliesAreReal, AnswersAreReal
<1>6. ASSUME NEW k \in Calls, Receive(k)
      PROVE  Flight'
  <2>1. PICK r \in replies : r.call = k /\ replies' = replies \ {r} /\ Finish(k, r.kind)
    BY <1>6 DEF Receive
  <2>2. r.kind \in Answer /\ executed[k] = 1
    BY <1>f, <2>1 DEF TypeOK, RepliesAreReal
  <2>3. /\ pc[k] = "wait"
        /\ pc' = [pc EXCEPT ![k] = "done"]
        /\ result' = [result EXCEPT ![k] = r.kind]
        /\ replies' \subseteq replies
        /\ UNCHANGED <<using, sent, executed>>
    BY <1>6, <2>1 DEF Receive, Finish
  <2> QED
    BY <1>f, <1>s, <2>2, <2>3 DEF TypeOK, Answer, Flight, InFlight, Counts, RepliesAreReal, AnswersAreReal
<1>7. ASSUME Close \/ \E c \in Clients : Lose(c) \/ Restore(c)
      PROVE  Flight'
  <2>1. /\ sent' \subseteq sent
        /\ replies' \subseteq replies
        /\ UNCHANGED <<pc, using, executed, result>>
    BY <1>7 DEF Close, CloseClient, Lose, Restore
  <2> QED
    BY <1>f, <2>1 DEF Flight, InFlight, Counts, RepliesAreReal, AnswersAreReal
<1>8. CASE Serve
  <2>1. PICK q \in sent, kind \in Answer :
            /\ sent' = sent \ {q}
            /\ executed' = [executed EXCEPT ![q.call] = @ + 1]
            /\ replies' = IF life[q.via] = "up"
                          THEN replies \cup {[call |-> q.call, via |-> q.via, kind |-> kind]}
                          ELSE replies
            /\ UNCHANGED <<pc, mu, client, using, life, result>>
    BY <1>8 DEF Serve
  <2>2. q.call \in Calls /\ executed[q.call] = 0 /\ executed'[q.call] = 1
    BY <1>f, <1>s, <2>1 DEF InFlight, TypeOK
  <2>3. InFlight'
    <3> SUFFICES ASSUME NEW p \in sent'
                 PROVE  /\ pc[p.call] \in {"wait", "done"}
                        /\ p.via = using[p.call]
                        /\ executed'[p.call] = 0
      BY <2>1 DEF InFlight
    <3>1. p \in sent /\ p # q
      BY <2>1
    <3>2. p.call # q.call
      <4>1. p.call = q.call => p.via = q.via
        BY <1>f, <3>1 DEF InFlight
      <4>2. p \in [call : Calls, via : Clients] /\ q \in [call : Calls, via : Clients]
        BY <3>1 DEF TypeOK
      <4> QED
        BY <3>1, <4>1, <4>2
    <3> QED
      BY <1>f, <1>s, <2>1, <2>2, <3>1, <3>2 DEF InFlight, TypeOK
  <2>4. Counts'
    BY <1>f, <2>1, <2>2 DEF Counts, InFlight, TypeOK
  <2>5. RepliesAreReal'
    <3> SUFFICES ASSUME NEW r \in replies'
                 PROVE  executed'[r.call] = 1
      BY DEF RepliesAreReal
    <3>1. CASE r \in replies
      BY <1>f, <2>1, <2>2, <3>1 DEF RepliesAreReal, TypeOK
    <3>2. CASE r \notin replies
      BY <2>1, <2>2, <3>2
    <3> QED
      BY <3>1, <3>2
  <2>6. AnswersAreReal'
    BY <1>f, <2>1, <2>2 DEF AnswersAreReal, TypeOK
  <2> QED
    BY <2>3, <2>4, <2>5, <2>6 DEF Flight
<1>9. CASE UNCHANGED vars
  BY <1>f, <1>9 DEF vars, Flight, InFlight, Counts, RepliesAreReal, AnswersAreReal
<1> QED
  BY <1>1, <1>2, <1>3, <1>4, <1>5, <1>6, <1>7, <1>8, <1>9 DEF Next, Ensure, RoundTrip

(* Flight holds of every behaviour. *)
LEMMA FlightInvariant == Spec => [](Shared /\ Flight)
<1>1. Init => Flight
  BY DEF Init, Flight, InFlight, Counts, RepliesAreReal, AnswersAreReal
<1> QED
  BY <1>1, FlightStep, SharedInvariant, PTL DEF Spec

(* Without a retry a command is executed at most once, although its client *)
(* may be closed, replaced or lost after ensureConnected returned it, and  *)
(* a value is given only for an executed command (transport_rpc.go         *)
(* 208-225).                                                               *)
THEOREM ExecutedAtMostOnce == Spec => []AtMostOnce
<1>1. Flight => AtMostOnce
  BY DEF Flight, Counts, AnswersAreReal, AtMostOnce
<1> QED
  BY <1>1, FlightInvariant, PTL

-----------------------------------------------------------------------------
(* Refinement *)

(* A step that leaves the answers and the executions alone is not visible. *)
LEMMA RpcInvisible ==
    ASSUME UNCHANGED <<result, executed>>,
           \A k \in Calls : /\ pc'[k] = "idle" <=> pc[k] = "idle"
                            /\ pc'[k] = "done" <=> pc[k] = "done"
    PROVE  UNCHANGED Service!absVars
<1>1. Phases' = Phases
  BY DEF Phases
<1> QED
  BY <1>1 DEF Service!absVars

(* A step on which call k is answered with a returns a. *)
LEMMA RpcAnswering ==
    ASSUME TypeOK, NEW k \in Calls, pc[k] \notin {"idle", "done"}, NEW a \in Answer,
           Finish(k, a),
           UNCHANGED executed,
           a = "value" => executed[k] = 1
    PROVE  Service!Next
<1>1. Phases[k] = "open"
  BY DEF Phases
<1>2. Phases' = [Phases EXCEPT ![k] = a]
  BY DEF Phases, Finish, TypeOK
<1>3. Service!Return(k, a)
  BY <1>1, <1>2 DEF Service!Return
<1> QED
  BY <1>3 DEF Service!Next, Service!Answer, Answer

(* Callers of the transport see a CallService that executes a command at   *)
(* most once.                                                              *)
THEOREM RpcImplementsCallService == Spec => ImplementsCallService
<1>1. Init => Service!Init
  BY DEF Init, Phases, Service!Init
<1>2. Shared /\ Flight /\ [Next]_vars => [Service!Next]_(Service!absVars)
  <2> SUFFICES ASSUME TypeOK, Flight, [Next]_vars
               PROVE  Service!Next \/ UNCHANGED Service!absVars
    BY DEF Shared
  <2>1. ASSUME NEW k \in Calls, Call(k)
        PROVE  Service!Next
    <3>1. /\ Phases[k] = "new"
          /\ Phases' = [Phases EXCEPT ![k] = "open"]
      BY <2>1 DEF Call, Phases, TypeOK
    <3> QED
      BY <2>1, <3>1 DEF Call, Service!Next, Service!Invoke
  <2>2. ASSUME NEW k \in Calls, Lock(k) \/ Reuse(k) \/ Discard(k) \/ Dial(k) \/ Send(k)
        PROVE  UNCHANGED Service!absVars
    <3>1. /\ UNCHANGED <<result, executed>>
          /\ \A j \in Calls : /\ pc'[j] = "idle" <=> pc[j] = "idle"
                              /\ pc'[j] = "done" <=> pc[j] = "done"
      BY <2>2 DEF Lock, Reuse, Discard, Dial, Send, TypeOK
    <3> QED
      BY <3>1, RpcInvisible
  <2>3. ASSUME NEW k \in Calls, DialFails(k) \/ CallFails(k)
        PROVE  Service!Next
    <3>1. /\ pc[k] \notin {"idle", "done"}
          /\ Finish(k, "svrerr")
          /\ UNCHANGED executed
      BY <2>3 DEF DialFails, CallFails
    <3> QED
      BY <3>1, RpcAnswering DEF Answer
  <2>4. ASSUME NEW k \in Calls, Receive(k)
        PROVE  Service!Next
    <3>1. PICK r \in replies : r.call = k /\ Finish(k, r.kind)
      BY <2>4 DEF Receive
    <3>2. r.kind \in Answer /\ executed[k] = 1
      BY <3>1 DEF TypeOK, Answer, Flight, RepliesAreReal
    <3>3. pc[k] \notin {"idle", "done"} /\ UNCHANGED executed
      BY <2>4 DEF Receive
    <3> QED
      BY <3>1, <3>2, <3>3, RpcAnswering
  <2>5. ASSUME Close \/ \E c \in Clients : Lose(c) \/ Restore(c)
        PROVE  UNCHANGED Service!absVars
    <3>1. UNCHANGED <<pc, result, executed>>
      BY <2>5 DEF Close, Lose, Restore
    <3> QED
      BY <3>1, RpcInvisible
  <2>6. CASE Serve
    <3>1. PICK q \in sent : /\ executed' = [executed EXCEPT ![q.call] = @ + 1]
                            /\ UNCHANGED <<pc, result>>
      BY <2>6 DEF Serve
    <3>2. q.call \in Calls /\ executed[q.call] = 0 /\ pc[q.call] \in {"wait", "done"}
      BY DEF TypeOK, Flight, InFlight
    <3>3. Phases' = Phases
      BY <3>1 DEF Phases
    <3>4. Phases[q.call] # "new"
      BY <3>2 DEF Phases, TypeOK, Answer
    <3>5. Service!ExecuteOnServer(q.call)
      BY <3>1, <3>2, <3>3, <3>4 DEF Service!ExecuteOnServer
    <3> QED
      BY <3>2, <3>5 DEF Service!Next
  <2>7. CASE UNCHANGED vars
    <3>1. UNCHANGED <<pc, result, executed>>
      BY <2>7 DEF vars
    <3> QED
      BY <3>1, RpcInvisible
  <2> QED
    BY <2>1, <2>2, <2>3, <2>4, <2>5, <2>6, <2>7 DEF Next, Ensure, RoundTrip
<1> QED
  BY <1>1, <1>2, FlightInvariant, PTL DEF Spec, ImplementsCallService, Service!Spec
=============================================================================
