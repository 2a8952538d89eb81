----------------------------- MODULE PushProofs -----------------------------
(***************************************************************************)
(* Proofs about PushSubscription, for channels of any capacity, any number *)
(* of events, any of them garbled, and any number of goroutines that call  *)
(* stop.  Where the code relies on Thunder's Close waiting for a running   *)
(* hook, JoinsReader is assumed.                                           *)
(***************************************************************************)
EXTENDS PushSubscription, SequenceTheorems, TLAPS

-----------------------------------------------------------------------------
(* Facts about sequences of events *)

Increasing(s) == \A i, j \in 1 .. Len(s) : i < j => s[i] < s[j]

(* The events of a sequence with one appended. *)
LEMMA AppendFacts ==
    ASSUME NEW s \in Seq(Events), NEW x \in Events
    PROVE  /\ Append(s, x) \in Seq(Events)
           /\ Len(Append(s, x)) = Len(s) + 1
           /\ ToSet(Append(s, x)) = ToSet(s) \cup {x}
           /\ Increasing(s) /\ (\A y \in ToSet(s) : y < x) => Increasing(Append(s, x))
<1>1. /\ Append(s, x) \in Seq(Events)
      /\ Len(Append(s, x)) = Len(s) + 1
      /\ \A i \in 1 .. Len(s) : Append(s, x)[i] = s[i]
      /\ Append(s, x)[Len(s) + 1] = x
  BY AppendProperties
<1>2. DOMAIN s = 1 .. Len(s) /\ DOMAIN Append(s, x) = 1 .. Len(s) + 1 /\ Len(s) \in Nat
  BY <1>1
<1>3. ToSet(Append(s, x)) = ToSet(s) \cup {x}
  BY <1>1, <1>2 DEF ToSet
<1>4. Increasing(s) /\ (\A y \in ToSet(s) : y < x) => Increasing(Append(s, x))
  BY <1>1, <1>2 DEF ToSet, Increasing
<1> QED
  BY <1>1, <1>3, <1>4

(* The events of a sequence with the first one taken off. *)
LEMMA TailFacts ==
    ASSUME NEW s \in Seq(Events), s # <<>>
    PROVE  /\ Head(s) \in Events
           /\ Tail(s) \in Seq(Events)
           /\ Len(Tail(s)) = Len(s) - 1
           /\ ToSet(s) = {Head(s)} \cup ToSet(Tail(s))
           /\ Increasing(s) => /\ Increasing(Tail(s))
                               /\ \A y \in ToSet(Tail(s)) : Head(s) < y
<1>1. /\ Head(s) \in Events /\ Head(s) = s[1]
      /\ Tail(s) \in Seq(Events)
      /\ Len(Tail(s)) = Len(s) - 1
      /\ \A i \in 1 .. Len(Tail(s)) : Tail(s)[i] = s[i + 1]
  BY HeadTailProperties
<1>2. /\ DOMAIN s = 1 .. Len(s) /\ DOMAIN Tail(s) = 1 .. Len(s) - 1
      /\ Len(s) \in Nat /\ Len(s) >= 1
  BY <1>1
<1>3. ToSet(s) = {Head(s)} \cup ToSet(Tail(s))
  <2>1. ASSUME NEW i \in 1 .. Len(s)
        PROVE  s[i] = Head(s) \/ s[i] \in ToSet(Tail(s))
    <3>1. CASE i = 1
      BY <1>1, <3>1
    <3>2. CASE i # 1
      <4>1. i - 1 \in 1 .. Len(s) - 1 /\ Tail(s)[i - 1] = s[i]
        BY <1>1, <1>2, <3>2
      <4> QED
        BY <1>2, <4>1 DEF ToSet
    <3> QED
      BY <3>1, <3>2
  <2>2. ASSUME NEW i \in 1 .. Len(s) - 1
        PROVE  Tail(s)[i] \in ToSet(s)
    <3>1. i + 1 \in 1 .. Len(s) /\ Tail(s)[i] = s[i + 1]
      BY <1>1, <1>2
    <3> QED
      BY <1>2, <3>1 DEF ToSet
  <2>3. Head(s) \in ToSet(s)
    BY <1>1, <1>2 DEF ToSet
  <2> QED
    BY <1>2, <2>1, <2>2, <2>3 DEF ToSet
<1>4. Increasing(s) => /\ Increasing(Tail(s))
                       /\ \A y \in ToSet(Tail(s)) : Head(s) < y
  BY <1>1, <1>2 DEF ToSet, Increasing
<1> QED
  BY <1>1, <1>3, <1>4

(* The events of two sequences one after the other. *)
LEMMA ConcatFacts ==
    ASSUME NEW s \in Seq(Events), NEW t \in Seq(Events)
    PROVE  /\ s \o t \in Seq(Events)
           /\ ToSet(s \o t) = ToSet(s) \cup ToSet(t)
           /\ Increasing(s) /\ Increasing(t) /\ (\A x \in ToSet(s), y \in ToSet(t) : x < y)
              => Increasing(s \o t)
<1>1. /\ s \o t \in Seq(Events)
      /\ Len(s \o t) = Len(s) + Len(t)
      /\ \A i \in 1 .. Len(s) + Len(t) :
            (s \o t)[i] = IF i <= Len(s) THEN s[i] ELSE t[i - Len(s)]
  BY ConcatProperties
<1>2. /\ DOMAIN s = 1 .. Len(s) /\ DOMAIN t = 1 .. Len(t) /\ DOMAIN (s \o t) = 1 .. Len(s) + Len(t)
      /\ Len(s) \in Nat /\ Len(t) \in Nat
  BY <1>1
<1>3. \A i \in 1 .. Len(s) : (s \o t)[i] = s[i]
  BY <1>1, <1>2
<1>4. \A i \in 1 .. Len(t) : Len(s) + i \in 1 .. Len(s) + Len(t) /\ (s \o t)[Len(s) + i] = t[i]
  BY <1>1, <1>2
<1>5. ASSUME NEW i \in 1 .. Len(s) + Len(t)
      PROVE  \/ i \in 1 .. Len(s)
             \/ i - Len(s) \in 1 .. Len(t) /\ (s \o t)[i] = t[i - Len(s)]
  BY <1>1, <1>2
<1>6. ToSet(s \o t) = ToSet(s) \cup ToSet(t)
  <2>1. ToSet(s \o t) \subseteq ToSet(s) \cup ToSet(t)
    BY <1>2, <1>3, <1>5 DEF ToSet
  <2>2. ToSet(s) \subseteq ToSet(s \o t)
    BY <1>2, <1>3 DEF ToSet
  <2>3. ToSet(t) \subseteq ToSet(s \o t)
    BY <1>2, <1>4 DEF ToSet
  <2> QED
    BY <2>1, <2>2, <2>3
<1>7. ASSUME Increasing(s), Increasing(t), \A x \in ToSet(s), y \in ToSet(t) : x < y
      PROVE  Increasing(s \o t)
  <2> SUFFICES ASSUME NEW i \in 1 .. Len(s) + Len(t), NEW j \in 1 .. Len(s) + Len(t), i < j
               PROVE  (s \o t)[i] < (s \o t)[j]
    BY <1>1 DEF Increasing
  <2>1. CASE j \in 1 .. Len(s)
    <3>1. i \in 1 .. Len(s)
      BY <2>1
    <3> QED
      BY <1>3, <1>7, <2>1, <3>1 DEF Increasing
  <2>2. CASE i \in 1 .. Len(s) /\ j \notin 1 .. Len(s)
    <3>1. s[i] \in ToSet(s) /\ t[j - Len(s)] \in ToSet(t)
      BY <1>2, <1>5, <2>2 DEF ToSet
    <3> QED
      BY <1>3, <1>5, <1>7, <2>2, <3>1
  <2>3. CASE i \notin 1 .. Len(s)
    <3>1. j \notin 1 .. Len(s) /\ i - Len(s) < j - Len(s)
      BY <1>2, <2>3
    <3> QED
      BY <1>5, <1>7, <2>3, <3>1 DEF Increasing
  <2> QED
    BY <2>1, <2>2, <2>3
<1> QED
  BY <1>1, <1>6, <1>7

(* No events, no order. *)
LEMMA EmptyFacts == /\ <<>> \in Seq(Events)
                    /\ Len(<<>>) = 0
                    /\ ToSet(<<>>) = {}
                    /\ Increasing(<<>>)
BY DEF ToSet, Increasing

-----------------------------------------------------------------------------
(* Types and the opening of the subscription *)

(* The hook is there before the request leaves the client, and with it     *)
(* before the server can route an event; frames come in only over a        *)
(* connection that is up.                                                  *)
HookFirst ==
    /\ phase \in {"hooked", "asking", "active"} => hook
    /\ phase \in {"start", "dialled", "hooked"} => request = "none"
    /\ request = "sent" => phase = "asking" /\ conn = "up"
    /\ request \in {"sent", "acked"} => hook
    /\ sub => conn = "up" /\ request = "acked"
    /\ wire # <<>> => conn = "up" /\ request = "acked"
    /\ NoEventMissed

(* There is no connection before the dial, none is left by a failure, and  *)
(* only an active subscription is torn down.                               *)
Opened ==
    /\ phase = "start" => conn = "none"
    /\ FailureLeavesNoConn
    /\ \A g \in Goroutines : at[g] # "idle" => phase = "active"

Opening == TypeOK /\ HookFirst /\ Opened

(* Every step keeps the types, the hook in front of the events, and        *)
(* failures clean.                                                         *)
LEMMA OpeningStep == Opening /\ [Next]_vars => Opening'
<1> SUFFICES ASSUME Opening, [Next]_vars
             PROVE  Opening'
  OBVIOUS
<1>t. TypeOK /\ HookFirst /\ Opened
  BY DEF Opening
<1>e. <<>> \in Seq(Events)
  OBVIOUS
<1> USE DEF opening, delivery, teardown
<1>1. CASE Dial
  <2>1. TypeOK'
    BY <1>t, <1>1 DEF Dial, TypeOK
  <2>2. HookFirst' /\ Opened'
    BY <1>t, <1>1 DEF Dial, HookFirst, Opened, NoEventMissed, FailureLeavesNoConn
  <2> QED
    BY <2>1, <2>2 DEF Opening
<1>2. CASE RegisterHook
  <2>1. TypeOK'
    BY <1>t, <1>2 DEF RegisterHook, TypeOK
  <2>2. HookFirst' /\ Opened'
    BY <1>t, <1>2 DEF RegisterHook, HookFirst, Opened, NoEventMissed, FailureLeavesNoConn
  <2> QED
    BY <2>1, <2>2 DEF Opening
<1>3. CASE Ask
  <2>1. TypeOK'
    BY <1>t, <1>3 DEF Ask, TypeOK
  <2>2. HookFirst' /\ Opened'
    BY <1>t, <1>3 DEF Ask, HookFirst, Opened, NoEventMissed, FailureLeavesNoConn
  <2> QED
    BY <2>1, <2>2 DEF Opening
<1>4. CASE Subscribe
  <2>1. TypeOK'
    BY <1>t, <1>4 DEF Subscribe, TypeOK
  <2>2. HookFirst' /\ Opened'
    BY <1>t, <1>4 DEF Subscribe, HookFirst, Opened, NoEventMissed, FailureLeavesNoConn
  <2> QED
    BY <2>1, <2>2 DEF Opening
<1>5. CASE Acknowledged
  <2>1. TypeOK'
    BY <1>t, <1>5 DEF Acknowledged, TypeOK
  <2>2. HookFirst' /\ Opened'
    BY <1>t, <1>5 DEF Acknowledged, HookFirst, Opened, NoEventMissed, FailureLeavesNoConn
  <2> QED
    BY <2>1, <2>2 DEF Opening
<1>6. CASE AskFails
  <2>1. TypeOK'
    BY <1>t, <1>e, <1>6 DEF AskFails, TypeOK
  <2>2. HookFirst' /\ Opened'
    BY <1>t, <1>6 DEF AskFails, HookFirst, Opened, NoEventMissed, FailureLeavesNoConn
  <2> QED
    BY <2>1, <2>2 DEF Opening
<1>7. CASE Publish
  <2>1. published + 1 \in Events /\ published' \in 0 .. MaxEvents
    BY <1>t, <1>7, PushAssumption DEF Publish, TypeOK, Events
  <2>2. wire' \in Seq(Events)
    BY <1>t, <1>7, <2>1, AppendFacts DEF Publish, TypeOK
  <2>3. TypeOK'
    BY <1>t, <1>7, <2>1, <2>2 DEF Publish, TypeOK
  <2>4. HookFirst' /\ Opened'
    BY <1>t, <1>7 DEF Publish, HookFirst, Opened, NoEventMissed, FailureLeavesNoConn
  <2> QED
    BY <2>3, <2>4 DEF Opening
<1>8. CASE TakeFrame
  <2>1. hook /\ reader' = Head(wire) /\ UNCHANGED missed
    BY <1>t, <1>8 DEF TakeFrame, HookFirst
  <2>2. Head(wire) \in Events /\ wire' \in Seq(Events)
    BY <1>t, <1>8, TailFacts DEF TakeFrame, TypeOK
  <2>3. TypeOK'
    BY <1>t, <1>8, <2>1, <2>2 DEF TakeFrame, TypeOK
  <2>4. HookFirst' /\ Opened'
    BY <1>t, <1>8, <2>1 DEF TakeFrame, HookFirst, Opened, NoEventMissed, FailureLeavesNoConn
  <2> QED
    BY <2>3, <2>4 DEF Opening
<1>9. CASE RunHook
  <2>1. chan' \in Seq(Events) /\ Len(chan') <= Cap
    <3>1. CASE chan' = chan
      BY <1>t, <3>1 DEF TypeOK
    <3>2. CASE chan' # chan
      <4>1. chan' = Append(chan, reader) /\ Len(chan) < Cap /\ reader \in Events
        BY <1>t, <1>9, <3>2 DEF RunHook, TypeOK
      <4>2. chan \in Seq(Events) /\ Len(chan) \in Nat /\ Cap \in Nat
        BY <1>t, PushAssumption DEF TypeOK
      <4> QED
        BY <4>1, <4>2, AppendFacts
    <3> QED
      BY <3>1, <3>2
  <2>2. reader' = Idle /\ panicked' \in BOOLEAN /\ dropped' \subseteq Events
    BY <1>t, <1>9 DEF RunHook, TypeOK
  <2>3. TypeOK'
    BY <1>t, <1>9, <2>1, <2>2 DEF RunHook, TypeOK
  <2>4. HookFirst' /\ Opened'
    BY <1>t, <1>9 DEF RunHook, HookFirst, Opened, NoEventMissed, FailureLeavesNoConn
  <2> QED
    BY <2>3, <2>4 DEF Opening
<1>10. CASE Consume
  <2>1. /\ Head(chan) \in Events
        /\ chan' \in Seq(Events) /\ Len(chan') = Len(chan) - 1
        /\ got' \in Seq(Events)
    BY <1>t, <1>10, TailFacts, AppendFacts DEF Consume, TypeOK
  <2>2. Len(chan') <= Cap
    BY <1>t, <2>1, PushAssumption DEF TypeOK
  <2>3. TypeOK'
    BY <1>t, <1>10, <2>1, <2>2 DEF Consume, TypeOK
  <2>4. HookFirst' /\ Opened'
    BY <1>t, <1>10 DEF Consume, HookFirst, Opened, NoEventMissed, FailureLeavesNoConn
  <2> QED
    BY <2>3, <2>4 DEF Opening
<1>11. CASE Lose
  <2>1. TypeOK'
    BY <1>t, <1>e, <1>11 DEF Lose, TypeOK
  <2>2. HookFirst' /\ Opened'
    BY <1>t, <1>11 DEF Lose, HookFirst, Opened, NoEventMissed, FailureLeavesNoConn
  <2> QED
    BY <2>1, <2>2 DEF Opening
<1>12. CASE Restore \/ CancelContext
  <2>1. TypeOK'
    <3>1. CASE Restore
      BY <1>t, <3>1 DEF Restore, TypeOK
    <3>2. CASE CancelContext
      BY <1>t, <3>2 DEF CancelContext, TypeOK
    <3> QED
      BY <1>12, <3>1, <3>2
  <2>2. HookFirst' /\ Opened'
    BY <1>t, <1>12 DEF Restore, CancelContext, HookFirst, Opened, NoEventMissed, FailureLeavesNoConn
  <2> QED
    BY <2>1, <2>2 DEF Opening
<1>13. ASSUME NEW g \in Goroutines, CallShutdown(g)
       PROVE  Opening'
  <2>1. TypeOK'
    BY <1>t, <1>13 DEF CallShutdown, TypeOK
  <2>2. HookFirst' /\ Opened'
    BY <1>t, <1>13 DEF CallShutdown, TypeOK, HookFirst, Opened, NoEventMissed, FailureLeavesNoConn
  <2> QED
    BY <2>1, <2>2 DEF Opening
<1>14. ASSUME NEW g \in Goroutines, Shutdown(g)
       PROVE  Opening'
  <2>1. at[g] # "idle" /\ phase = "active" /\ UNCHANGED <<phase, hook, request, sid, delivery>>
    BY <1>t, <1>14
       DEF Shutdown, EnterOnce, WaitOnce, Unwatch, CloseConn, CloseReturns, CloseOut, Opened
  <2>2. TypeOK'
    <3>1. wire' \in Seq(Events) /\ sub' \in BOOLEAN /\ closed' \in BOOLEAN /\ panicked' \in BOOLEAN
      BY <1>t, <1>e, <1>14
         DEF Shutdown, EnterOnce, WaitOnce, Unwatch, CloseConn, CloseReturns, CloseOut, TypeOK
    <3>2. at' \in [Goroutines -> {"idle", "once", "unwatch", "close", "join", "closeout", "returned"}]
      BY <1>t, <1>14
         DEF Shutdown, EnterOnce, WaitOnce, Unwatch, CloseConn, CloseReturns, CloseOut, TypeOK
    <3>3. /\ conn' \in {"none", "up", "lost", "closed"}
          /\ once' \in {"free", "running", "done"}
          /\ UNCHANGED <<ctx, published>>
      BY <1>t, <1>14
         DEF Shutdown, EnterOnce, WaitOnce, Unwatch, CloseConn, CloseReturns, CloseOut, TypeOK
    <3> QED
      BY <1>t, <2>1, <3>1, <3>2, <3>3 DEF TypeOK
  <2>3. \/ UNCHANGED <<conn, wire>> /\ (sub' => sub)
        \/ conn' = "closed" /\ wire' = <<>> /\ ~sub'
    BY <1>14 DEF Shutdown, EnterOnce, WaitOnce, Unwatch, CloseConn, CloseReturns, CloseOut
  <2>4. HookFirst' /\ Opened'
    BY <1>t, <2>1, <2>3 DEF HookFirst, Opened, NoEventMissed, FailureLeavesNoConn
  <2> QED
    BY <2>2, <2>4 DEF Opening
<1>15. CASE UNCHANGED vars
  BY <1>t, <1>15 DEF vars, Opening, TypeOK, HookFirst, Opened, NoEventMissed, FailureLeavesNoConn
<1> QED
  BY <1>1, <1>2, <1>3, <1>4, <1>5, <1>6, <1>7, <1>8, <1>9, <1>10, <1>11, <1>12, <1>13, <1>14, <1>15
     DEF Next

(* Opening holds of every behaviour. *)
LEMMA OpeningInvariant == Spec => []Opening
<1>1. Init => Opening
  <2> SUFFICES ASSUME Init
               PROVE  Opening
    OBVIOUS
  <2>1. TypeOK
    <3>1. <<>> \in Seq(Events) /\ Len(<<>>) <= Cap /\ 0 \in 0 .. MaxEvents
      BY PushAssumption, EmptyFacts
    <3> QED
      BY <3>1 DEF Init, TypeOK
  <2>2. HookFirst /\ Opened
    BY DEF Init, HookFirst, Opened, NoEventMissed, FailureLeavesNoConn
  <2> QED
    BY <2>1, <2>2 DEF Opening
<1> QED
  BY <1>1, OpeningStep, PTL DEF Spec

(* Every reachable state is well typed; the channel never holds more than  *)
(* its capacity.                                                           *)
THEOREM PushTypeCorrect == Spec => []TypeOK
<1>1. Opening => TypeOK
  BY DEF Opening
<1> QED
  BY <1>1, OpeningInvariant, PTL

(* No frame arrives before the hook, however early the server publishes    *)
(* (transport_rpc.go 230, 274).                                            *)
THEOREM PushMissesNothing == Spec => []NoEventMissed
<1>1. Opening => NoEventMissed
  BY DEF Opening, HookFirst
<1> QED
  BY <1>1, OpeningInvariant, PTL

(* A failed Watch or Observe leaves no connection (transport_rpc.go 258,   *)
(* 297).                                                                   *)
THEOREM PushFailsClean == Spec => []FailureLeavesNoConn
<1>1. Opening => FailureLeavesNoConn
  BY DEF Opening, Opened
<1> QED
  BY <1>1, OpeningInvariant, PTL

-----------------------------------------------------------------------------
(* Teardown *)

Inside == {"unwatch", "close", "join", "closeout"}

(* One goroutine at most is inside the sync.Once, and the others return    *)
(* after it is done.                                                       *)
OnceOwner ==
    /\ \A g \in Goroutines : at[g] \in Inside => once = "running"
    /\ \A g, h \in Goroutines : at[g] \in Inside /\ at[h] \in Inside => g = h
    /\ \A g \in Goroutines : at[g] = "returned" => once = "done"
    /\ closed <=> once = "done"

(* The connection is closed before the channel is. *)
ConnThenChannel ==
    /\ \A g \in Goroutines : at[g] \in {"join", "closeout"} => conn = "closed"
    /\ closed => conn = "closed" /\ phase = "active"

(* A Thunder that joins its reader leaves no hook running. *)
HookEnded ==
    JoinsReader => /\ \A g \in Goroutines : at[g] = "closeout" => reader = Idle
                   /\ closed => reader = Idle
                   /\ NoPanic

Teardown == OnceOwner /\ ConnThenChannel /\ HookEnded

(* Every step keeps the teardown in order. *)
LEMMA TeardownStep == Opening /\ Teardown /\ [Next]_vars => Teardown'
<1> SUFFICES ASSUME TypeOK, Opened, Teardown, [Next]_vars
             PROVE  Teardown'
  BY DEF Opening
<1>t. OnceOwner /\ ConnThenChannel /\ HookEnded
  BY DEF Teardown
<1>a. at \in [Goroutines -> {"idle", "once", "unwatch", "close", "join", "closeout", "returned"}]
  BY DEF TypeOK
<1> USE DEF opening, delivery, teardown
<1> USE DEF Inside, NoPanic
<1>1. CASE Dial \/ AskFails
  <2>1. (\A g \in Goroutines : at[g] = "idle") /\ ~closed
    BY <1>t, <1>1 DEF Dial, AskFails, Opened, ConnThenChannel
  <2>2. UNCHANGED <<closed, once, at, reader, panicked>>
    BY <1>1 DEF Dial, AskFails
  <2> QED
    BY <1>t, <2>1, <2>2 DEF Teardown, OnceOwner, ConnThenChannel, HookEnded
<1>2. CASE RegisterHook \/ Ask \/ Subscribe \/ Acknowledged \/ Publish \/ Consume \/ CancelContext
  <2>1. UNCHANGED <<closed, once, at, conn, reader, panicked>>
    BY <1>2 DEF RegisterHook, Ask, Subscribe, Acknowledged, Publish, Consume, CancelContext
  <2>2. closed => UNCHANGED phase
    BY <1>t, <1>2
       DEF RegisterHook, Ask, Subscribe, Acknowledged, Publish, Consume, CancelContext, ConnThenChannel
  <2> QED
    BY <1>t, <2>1, <2>2 DEF Teardown, OnceOwner, ConnThenChannel, HookEnded
<1>3. CASE TakeFrame
  <2>1. conn = "up" /\ UNCHANGED <<closed, once, at, conn, phase, panicked>>
    BY <1>3 DEF TakeFrame
  <2> QED
    BY <1>t, <2>1 DEF Teardown, OnceOwner, ConnThenChannel, HookEnded
<1>4. CASE RunHook
  <2>1. /\ reader # Idle /\ reader' = Idle
        /\ panicked' = (panicked \/ (Decodes(reader) /\ closed))
        /\ UNCHANGED <<closed, once, at, conn, phase>>
    BY <1>4 DEF RunHook
  <2> QED
    BY <1>t, <2>1 DEF Teardown, OnceOwner, ConnThenChannel, HookEnded
<1>5. CASE Lose \/ Restore
  <2>1. conn # "closed" /\ UNCHANGED <<closed, once, at, reader, phase, panicked>>
    BY <1>5 DEF Lose, Restore
  <2> QED
    BY <1>t, <2>1 DEF Teardown, OnceOwner, ConnThenChannel, HookEnded
<1>6. ASSUME NEW g \in Goroutines, CallShutdown(g)
      PROVE  Teardown'
  <2>1. /\ at[g] = "idle" /\ at' = [at EXCEPT ![g] = "once"]
        /\ UNCHANGED <<closed, once, conn, reader, phase, panicked>>
    BY <1>6 DEF CallShutdown
  <2> QED
    BY <1>t, <1>a, <2>1 DEF Teardown, OnceOwner, ConnThenChannel, HookEnded
<1>7. ASSUME NEW g \in Goroutines, EnterOnce(g)
      PROVE  Teardown'
  <2>1. /\ at[g] = "once" /\ once = "free" /\ once' = "running"
        /\ at' = [at EXCEPT ![g] = IF Unwatches /\ sid THEN "unwatch" ELSE "close"]
        /\ UNCHANGED <<closed, conn, reader, phase, panicked>>
    BY <1>7 DEF EnterOnce
  <2> QED
    BY <1>t, <1>a, <2>1 DEF Teardown, OnceOwner, ConnThenChannel, HookEnded
<1>8. ASSUME NEW g \in Goroutines, WaitOnce(g)
      PROVE  Teardown'
  <2>1. /\ once = "done" /\ at' = [at EXCEPT ![g] = "returned"]
        /\ UNCHANGED <<closed, once, conn, reader, phase, panicked>>
    BY <1>8 DEF WaitOnce
  <2> QED
    BY <1>t, <1>a, <2>1 DEF Teardown, OnceOwner, ConnThenChannel, HookEnded
<1>9. ASSUME NEW g \in Goroutines, Unwatch(g)
      PROVE  Teardown'
  <2>1. /\ at[g] = "unwatch" /\ at' = [at EXCEPT ![g] = "close"]
        /\ UNCHANGED <<closed, once, conn, reader, phase, panicked>>
    BY <1>9 DEF Unwatch
  <2> QED
    BY <1>t, <1>a, <2>1 DEF Teardown, OnceOwner, ConnThenChannel, HookEnded
<1>10. ASSUME NEW g \in Goroutines, CloseConn(g)
       PROVE  Teardown'
  <2>1. /\ at[g] = "close" /\ at' = [at EXCEPT ![g] = "join"]
        /\ conn' = "closed"
        /\ UNCHANGED <<closed, once, reader, phase, panicked>>
    BY <1>10 DEF CloseConn
  <2> QED
    BY <1>t, <1>a, <2>1 DEF Teardown, OnceOwner, ConnThenChannel, HookEnded
<1>11. ASSUME NEW g \in Goroutines, CloseReturns(g)
       PROVE  Teardown'
  <2>1. /\ at[g] = "join" /\ at' = [at EXCEPT ![g] = "closeout"]
        /\ JoinsReader => reader = Idle
        /\ UNCHANGED <<closed, once, conn, reader, phase, panicked>>
    BY <1>11 DEF CloseReturns
  <2> QED
    BY <1>t, <1>a, <2>1 DEF Teardown, OnceOwner, ConnThenChannel, HookEnded
<1>12. ASSUME NEW g \in Goroutines, CloseOut(g)
       PROVE  Teardown'
  <2>1. /\ at[g] = "closeout" /\ at' = [at EXCEPT ![g] = "returned"]
        /\ panicked' = (panicked \/ closed)
        /\ closed' /\ once' = "done"
        /\ UNCHANGED <<conn, reader, phase>>
    BY <1>12 DEF CloseOut
  <2>2. once = "running" /\ ~closed /\ conn = "closed" /\ phase = "active"
    BY <1>t, <2>1 DEF OnceOwner, ConnThenChannel, Opened
  <2>3. \A h \in Goroutines : h # g => at[h] \notin Inside
    BY <1>t, <2>1 DEF OnceOwner
  <2>4. OnceOwner'
    BY <1>t, <1>a, <2>1, <2>3 DEF OnceOwner
  <2>5. ConnThenChannel' /\ HookEnded'
    BY <1>t, <1>a, <2>1, <2>2, <2>3 DEF ConnThenChannel, HookEnded
  <2> QED
    BY <2>4, <2>5 DEF Teardown
<1>13. CASE UNCHANGED vars
  BY <1>t, <1>13 DEF vars, Teardown, OnceOwner, ConnThenChannel, HookEnded
<1> QED
  BY <1>1, <1>2, <1>3, <1>4, <1>5, <1>6, <1>7, <1>8, <1>9, <1>10, <1>11, <1>12, <1>13
     DEF Next, Shutdown

(* Teardown holds of every behaviour. *)
LEMMA TeardownInvariant == Spec => [](Opening /\ Teardown)
<1>1. Init => Teardown
  BY DEF Init, Teardown, OnceOwner, ConnThenChannel, HookEnded, NoPanic, Inside
<1> QED
  BY <1>1, TeardownStep, OpeningInvariant, PTL DEF Spec

(* Provided that Thunder's Close waits for a running hook, no goroutine    *)
(* that stops the subscription can make another, or the hook, panic        *)
(* (pubsub.go 136-152, kv.go 209-231).                                     *)
THEOREM PushNeverPanics ==
    ASSUME JoinsReader
    PROVE  Spec => []NoPanic
<1>1. Teardown => NoPanic
  BY DEF Teardown, HookEnded
<1> QED
  BY <1>1, TeardownInvariant, PTL

(* A stop that returned, first or not, leaves nothing of the subscription  *)
(* behind.                                                                 *)
THEOREM StopIsComplete == Spec => []StopMeansEnded
<1>1. Teardown => StopMeansEnded
  BY DEF Teardown, OnceOwner, ConnThenChannel, HookEnded, StopMeansEnded
<1> QED
  BY <1>1, TeardownInvariant, PTL

-----------------------------------------------------------------------------
(* Order and completeness *)

(* The way of an event: over the wire, through the hook and the channel to *)
(* the consumer.                                                           *)
Arriving  == ({reader} \ {Idle}) \cup ToSet(wire)
Arrived   == ToSet(got) \cup ToSet(chan)
Pipe      == Arrived \cup Arriving
Accounted == Pipe \cup dropped \cup Garbled

(* Events are in order on the way, and published before they are on it. *)
Ordered ==
    /\ Increasing(got) /\ Increasing(chan) /\ Increasing(wire)
    /\ \A x \in ToSet(got), y \in ToSet(chan) : x < y
    /\ \A x \in Arrived, y \in Arriving : x < y
    /\ reader # Idle => \A y \in ToSet(wire) : reader < y
    /\ \A x \in Pipe : x <= published

(* Between two events on the way none is unaccounted for. *)
NoGaps == \A a, m \in Pipe : a .. m \subseteq Accounted

(* While the server routes events, none after the first on the way is      *)
(* unaccounted for; before that there is none on the way.                  *)
UpToDate ==
    /\ sub => \A a \in Pipe : a .. published \subseteq Accounted
    /\ request \in {"none", "sent"} => Pipe = {}

Lined == Ordered /\ NoGaps /\ UpToDate

(* The events on the way are numbers. *)
LEMMA PipeType ==
    ASSUME TypeOK
    PROVE  Pipe \subseteq Events /\ Idle \notin Pipe
<1>1. ASSUME NEW s \in Seq(Events)
      PROVE  ToSet(s) \subseteq Events
  BY <1>1 DEF ToSet
<1>2. /\ ToSet(got) \subseteq Events /\ ToSet(chan) \subseteq Events /\ ToSet(wire) \subseteq Events
      /\ reader \in Events \cup {Idle}
  BY <1>1 DEF TypeOK
<1>3. Idle \notin Events
  BY DEF Events, Idle
<1> QED
  BY <1>2, <1>3 DEF Pipe, Arrived, Arriving

(* Losing what is on the wire leaves no gap. *)
LEMMA WireLost ==
    ASSUME TypeOK, Lined, wire' = <<>>, ~sub',
           request' \in {"none", "sent"} => request \in {"none", "sent"},
           UNCHANGED <<reader, chan, got, dropped, published>>
    PROVE  Lined'
<1>o. Ordered /\ NoGaps /\ UpToDate
  BY DEF Lined
<1>n. Pipe \subseteq Events /\ Events \subseteq Int
  BY PipeType DEF Events
<1>1. ToSet(wire') = {} /\ Increasing(wire')
  BY EmptyFacts
<1>2. /\ Arrived' = Arrived /\ Arriving' = {reader} \ {Idle} /\ Pipe' \subseteq Pipe
      /\ Pipe' = Arrived \cup ({reader} \ {Idle})
      /\ Pipe = Pipe' \cup ToSet(wire)
      /\ Accounted' = Pipe' \cup dropped \cup Garbled
  BY <1>1 DEF Arrived, Arriving, Pipe, Accounted
<1>3. Ordered'
  BY <1>o, <1>1, <1>2 DEF Ordered, Arriving
<1>4. NoGaps'
  <2> SUFFICES ASSUME NEW a \in Pipe', NEW m \in Pipe', NEW n \in a .. m
               PROVE  n \in Accounted'
    BY DEF NoGaps
  <2>1. n \in Accounted
    BY <1>o, <1>2 DEF NoGaps
  <2>2. \A y \in ToSet(wire) : m < y
    BY <1>o, <1>2 DEF Ordered, Arriving
  <2>3. n \notin ToSet(wire)
    BY <1>n, <1>2, <2>2
  <2> QED
    BY <1>2, <2>1, <2>3 DEF Accounted
<1>5. UpToDate'
  BY <1>o, <1>2 DEF UpToDate
<1> QED
  BY <1>3, <1>4, <1>5 DEF Lined

(* The server's next event comes last. *)
LEMMA PublishLined ==
    ASSUME Opening, Lined, Publish
    PROVE  Lined'
<1> USE DEF opening, delivery, teardown
<1>t. TypeOK /\ HookFirst /\ Ordered /\ NoGaps /\ UpToDate
  BY DEF Opening, Lined
<1>n. Pipe \subseteq Events /\ Events \subseteq Int /\ published \in Int /\ Idle \notin Pipe
  BY <1>t, PipeType DEF Events, TypeOK
<1>1. /\ published' = published + 1
      /\ UNCHANGED <<reader, chan, got, dropped, request, sub>>
  BY DEF Publish
<1>2. CASE sub
  <2>1. wire' = Append(wire, published + 1) /\ published + 1 \in Events
    BY <1>t, <1>2, PushAssumption DEF Publish, HookFirst, TypeOK, Events
  <2>2. ToSet(wire') = ToSet(wire) \cup {published + 1}
    BY <1>t, <2>1, AppendFacts DEF TypeOK
  <2>3. /\ Arrived' = Arrived /\ Arriving' = Arriving \cup {published + 1}
        /\ Pipe' = Pipe \cup {published + 1} /\ Accounted' = Accounted \cup {published + 1}
    BY <1>1, <2>2 DEF Arrived, Arriving, Pipe, Accounted
  <2>4. \A x \in Pipe : x < published + 1
    BY <1>t, <1>n DEF Ordered
  <2>5. Increasing(wire')
    <3>1. \A y \in ToSet(wire) : y < published + 1
      BY <2>4 DEF Pipe, Arriving
    <3> QED
      BY <1>t, <2>1, <3>1, AppendFacts DEF TypeOK, Ordered
  <2>6. Ordered'
    <3>1. \A x \in Arrived', y \in Arriving' : x < y
      BY <1>t, <2>3, <2>4 DEF Ordered, Pipe
    <3>2. reader # Idle => \A y \in ToSet(wire') : reader < y
      BY <1>t, <2>2, <2>4 DEF Ordered, Pipe, Arriving
    <3>3. \A x \in Pipe' : x <= published'
      BY <1>1, <1>n, <2>3, <2>4
    <3> QED
      BY <1>t, <1>1, <2>5, <3>1, <3>2, <3>3 DEF Ordered
  <2>7. NoGaps' /\ UpToDate'
    <3>1. ASSUME NEW a \in Pipe', NEW n \in a .. published + 1
          PROVE  n \in Accounted'
      <4>1. CASE n = published + 1
        BY <2>3, <4>1
      <4>2. CASE n # published + 1
        <5>1. a \in Pipe /\ n \in a .. published
          BY <1>n, <2>3, <4>2
        <5> QED
          BY <1>t, <1>2, <2>3, <5>1 DEF UpToDate
      <4> QED
        BY <4>1, <4>2
    <3>2. \A a, m \in Pipe' : a .. m \subseteq a .. published + 1
      BY <1>n, <2>3, <2>4
    <3>3. NoGaps'
      BY <3>1, <3>2 DEF NoGaps
    <3>4. request \notin {"none", "sent"}
      BY <1>t, <1>2 DEF HookFirst
    <3> QED
      BY <1>1, <3>1, <3>3, <3>4 DEF UpToDate
  <2> QED
    BY <2>6, <2>7 DEF Lined
<1>3. CASE ~sub
  <2>1. wire' = wire
    BY <1>3 DEF Publish
  <2>2. Arrived' = Arrived /\ Arriving' = Arriving /\ Pipe' = Pipe /\ Accounted' = Accounted
    BY <1>1, <2>1 DEF Arrived, Arriving, Pipe, Accounted
  <2>3. \A x \in Pipe' : x <= published'
    BY <1>t, <1>1, <1>n, <2>2 DEF Ordered
  <2>4. Ordered'
    BY <1>t, <1>1, <2>1, <2>2, <2>3 DEF Ordered
  <2> QED
    BY <1>t, <1>1, <1>3, <2>2, <2>4 DEF Lined, NoGaps, UpToDate
<1> QED
  BY <1>2, <1>3

(* An event on its way from one station to the next stays in line. *)
LEMMA MoveLined ==
    ASSUME Opening, Lined, TakeFrame \/ Consume
    PROVE  Lined'
<1> USE DEF opening, delivery, teardown
<1>t. TypeOK /\ HookFirst /\ Ordered /\ NoGaps /\ UpToDate
  BY DEF Opening, Lined
<1>1. UNCHANGED <<dropped, published, request, sub>>
  BY DEF TakeFrame, Consume
<1>2. Pipe' = Pipe /\ Ordered'
  <2>1. CASE TakeFrame
    <3>1. /\ wire # <<>> /\ reader = Idle
          /\ wire' = Tail(wire) /\ reader' = Head(wire)
          /\ UNCHANGED <<chan, got>>
      BY <1>t, <2>1 DEF TakeFrame, HookFirst
    <3>2. /\ Head(wire) \in Events
          /\ ToSet(wire) = {Head(wire)} \cup ToSet(wire')
          /\ Increasing(wire')
          /\ \A y \in ToSet(wire') : Head(wire) < y
      BY <1>t, <3>1, TailFacts DEF TypeOK, Ordered
    <3>3. Head(wire) # Idle
      BY <3>2 DEF Events, Idle
    <3>4. Arrived' = Arrived /\ Arriving' = Arriving /\ Pipe' = Pipe
      BY <3>1, <3>2, <3>3 DEF Arrived, Arriving, Pipe
    <3> QED
      BY <1>t, <1>1, <3>1, <3>2, <3>4 DEF Ordered
  <2>2. CASE Consume
    <3>1. /\ chan # <<>>
          /\ got' = Append(got, Head(chan)) /\ chan' = Tail(chan)
          /\ UNCHANGED <<wire, reader>>
      BY <2>2 DEF Consume
    <3>2. /\ Head(chan) \in Events
          /\ ToSet(chan) = {Head(chan)} \cup ToSet(chan')
          /\ Increasing(chan')
          /\ \A y \in ToSet(chan') : Head(chan) < y
      BY <1>t, <3>1, TailFacts DEF TypeOK, Ordered
    <3>3. ToSet(got') = ToSet(got) \cup {Head(chan)} /\ Increasing(got')
      BY <1>t, <3>1, <3>2, AppendFacts DEF TypeOK, Ordered
    <3>4. Arrived' = Arrived /\ Arriving' = Arriving /\ Pipe' = Pipe
      BY <3>1, <3>2, <3>3 DEF Arrived, Arriving, Pipe
    <3> QED
      BY <1>t, <1>1, <3>1, <3>2, <3>3, <3>4 DEF Ordered
  <2> QED
    BY <2>1, <2>2
<1>3. Accounted' = Accounted
  BY <1>1, <1>2 DEF Accounted
<1> QED
  BY <1>t, <1>1, <1>2, <1>3 DEF Lined, NoGaps, UpToDate

(* The hook puts its event behind the others, drops it, or ignores it; on  *)
(* a closed channel it has no successor.                                   *)
LEMMA RunHookLined ==
    ASSUME Opening, Teardown, Lined, RunHook
    PROVE  Lined'
<1> USE DEF opening, delivery, teardown
<1>t. TypeOK /\ HookFirst /\ Ordered /\ NoGaps /\ UpToDate
  BY DEF Opening, Lined
<1>n. Pipe \subseteq Events /\ Events \subseteq Int
  BY <1>t, PipeType DEF Events
<1>1. /\ reader # Idle /\ reader' = Idle /\ reader \in Events
      /\ UNCHANGED <<wire, got, published, request, sub>>
  BY <1>t DEF RunHook, TypeOK
<1>2. CASE Decodes(reader) /\ ~closed /\ Len(chan) < Cap
  <2>1. chan' = Append(chan, reader) /\ dropped' = dropped
    <3>1. ~(Len(chan) >= Cap)
      BY <1>t, <1>2, PushAssumption DEF TypeOK
    <3> QED
      BY <1>2, <3>1 DEF RunHook
  <2>2. /\ ToSet(chan') = ToSet(chan) \cup {reader}
        /\ Increasing(chan')
    <3>1. \A y \in ToSet(chan) : y < reader
      BY <1>t, <1>1 DEF Ordered, Arrived, Arriving
    <3> QED
      BY <1>t, <1>1, <2>1, <3>1, AppendFacts DEF TypeOK, Ordered
  <2>3. /\ Arrived' = Arrived \cup {reader} /\ Arriving' = ToSet(wire)
        /\ Pipe' = Pipe /\ Accounted' = Accounted
    BY <1>1, <2>1, <2>2 DEF Arrived, Arriving, Pipe, Accounted
  <2>4. Ordered'
    <3>1. \A x \in ToSet(got), y \in ToSet(chan') : x < y
      BY <1>t, <1>1, <2>2 DEF Ordered, Arrived, Arriving
    <3>2. \A x \in Arrived', y \in Arriving' : x < y
      BY <1>t, <1>1, <2>3 DEF Ordered, Arriving
    <3> QED
      BY <1>t, <1>1, <2>2, <2>3, <3>1, <3>2 DEF Ordered
  <2> QED
    BY <1>t, <1>1, <2>3, <2>4 DEF Lined, NoGaps, UpToDate
<1>3. CASE ~(Decodes(reader) /\ ~closed /\ Len(chan) < Cap)
  <2>1. chan' = chan /\ dropped \subseteq dropped'
    BY <1>3 DEF RunHook
  <2>2. /\ Arrived' = Arrived /\ Arriving' = ToSet(wire)
        /\ Pipe' \subseteq Pipe /\ Pipe \subseteq Pipe' \cup {reader}
    BY <1>1, <2>1 DEF Arrived, Arriving, Pipe
  <2>3. Ordered'
    BY <1>t, <1>1, <2>1, <2>2 DEF Ordered, Arriving
  <2>4. CASE reader \in dropped' \cup Garbled
    <3>1. Accounted \subseteq Accounted'
      BY <2>1, <2>2, <2>4 DEF Accounted
    <3> QED
      BY <1>t, <1>1, <2>2, <2>3, <3>1 DEF Lined, NoGaps, UpToDate
  <2>5. CASE reader \notin dropped' \cup Garbled
    <3>1. closed
      BY <1>3, <1>t, <2>5, PushAssumption DEF RunHook, Decodes, TypeOK
    <3>2. ~sub /\ wire = <<>>
      BY <1>t, <3>1 DEF Teardown, ConnThenChannel, HookFirst
    <3>3. Pipe' = Arrived
      BY <2>2, <3>2, EmptyFacts DEF Pipe
    <3>4. NoGaps'
      <4> SUFFICES ASSUME NEW a \in Pipe', NEW m \in Pipe', NEW n \in a .. m
                   PROVE  n \in Accounted'
        BY DEF NoGaps
      <4>1. n \in Accounted
        BY <1>t, <2>2 DEF NoGaps
      <4>2. m < reader
        BY <1>t, <1>1, <3>3 DEF Ordered, Arriving
      <4>3. n # reader
        BY <1>n, <1>1, <2>2, <4>2
      <4> QED
        BY <2>1, <2>2, <4>1, <4>3 DEF Accounted
    <3> QED
      BY <1>t, <1>1, <2>2, <2>3, <3>2, <3>4 DEF Lined, UpToDate
  <2> QED
    BY <2>4, <2>5
<1> QED
  BY <1>2, <1>3

(* Every step keeps the events in line. *)
LEMMA LinedStep == Opening /\ Teardown /\ Lined /\ [Next]_vars => Lined'
<1> SUFFICES ASSUME Opening, Teardown, Lined, [Next]_vars
             PROVE  Lined'
  OBVIOUS
<1> USE DEF opening, delivery, teardown
<1>t. TypeOK /\ HookFirst /\ Ordered /\ NoGaps /\ UpToDate
  BY DEF Opening, Lined
<1>0. ASSUME UNCHANGED <<wire, reader, chan, got, dropped, published>>,
             sub' => sub,
             request' \in {"none", "sent"} => request \in {"none", "sent"}
      PROVE  Lined'
  <2>1. Arrived' = Arrived /\ Arriving' = Arriving /\ Pipe' = Pipe /\ Accounted' = Accounted
    BY <1>0 DEF Arrived, Arriving, Pipe, Accounted
  <2> QED
    BY <1>t, <1>0, <2>1 DEF Lined, Ordered, NoGaps, UpToDate
<1>1. CASE Dial \/ RegisterHook \/ Acknowledged \/ Restore \/ CancelContext
  BY <1>0, <1>1 DEF Dial, RegisterHook, Acknowledged, Restore, CancelContext
<1>2. CASE Ask
  BY <1>t, <1>0, <1>2 DEF Ask, HookFirst
<1>3. CASE Subscribe
  <2>1. /\ Pipe = {} /\ request' = "acked"
        /\ UNCHANGED <<wire, reader, chan, got, dropped, published>>
    BY <1>t, <1>3 DEF Subscribe, UpToDate
  <2>2. Arrived' = Arrived /\ Arriving' = Arriving /\ Pipe' = Pipe
    BY <2>1 DEF Arrived, Arriving, Pipe
  <2> QED
    BY <1>t, <2>1, <2>2 DEF Lined, Ordered, NoGaps, UpToDate
<1>4. CASE AskFails \/ Lose
  BY <1>t, <1>4, WireLost DEF AskFails, Lose
<1>5. CASE Publish
  BY <1>5, PublishLined
<1>6. CASE TakeFrame \/ Consume
  BY <1>6, MoveLined
<1>7. CASE RunHook
  BY <1>7, RunHookLined
<1>8. ASSUME NEW g \in Goroutines,
             CallShutdown(g) \/ EnterOnce(g) \/ WaitOnce(g) \/ Unwatch(g) \/ CloseReturns(g) \/ CloseOut(g)
      PROVE  Lined'
  BY <1>0, <1>8 DEF CallShutdown, EnterOnce, WaitOnce, Unwatch, CloseReturns, CloseOut
<1>9. ASSUME NEW g \in Goroutines, CloseConn(g)
      PROVE  Lined'
  BY <1>t, <1>9, WireLost DEF CloseConn
<1>10. CASE UNCHANGED vars
  BY <1>0, <1>10 DEF vars
<1> QED
  BY <1>1, <1>2, <1>3, <1>4, <1>5, <1>6, <1>7, <1>8, <1>9, <1>10 DEF Next, Shutdown

(* Events reach the consumer in order and complete up to drops, for any    *)
(* capacity, speed of the consumer and moment of stopping                  *)
(* (pubsub.go 112-135, kv.go 187-207).                                     *)
THEOREM PushInOrder == Spec => []InOrderUpToDrops
<1>1. Init => Lined
  <2> SUFFICES ASSUME Init
               PROVE  Lined
    OBVIOUS
  <2>1. Pipe = {}
    BY EmptyFacts DEF Init, Pipe, Arrived, Arriving
  <2> QED
    BY <2>1, EmptyFacts DEF Init, Lined, Ordered, NoGaps, UpToDate, Pipe
<1>2. Opening /\ Lined => InOrderUpToDrops
  <2> SUFFICES ASSUME TypeOK, Ordered, NoGaps
               PROVE  InOrderUpToDrops
    BY DEF Opening, Lined
  <2> DEFINE seen == got \o chan
  <2>1. seen \in Seq(Events) /\ ToSet(seen) = Arrived /\ Increasing(seen)
    BY ConcatFacts DEF TypeOK, Ordered, Arrived
  <2> HIDE DEF seen
  <2>2. ASSUME seen # <<>>, NEW n \in seen[1] .. seen[Len(seen)]
        PROVE  n \in ToSet(seen) \cup dropped \cup Garbled
    <3>1. 1 \in 1 .. Len(seen) /\ Len(seen) \in 1 .. Len(seen) /\ DOMAIN seen = 1 .. Len(seen)
      BY <2>1, <2>2
    <3>2. seen[1] \in Arrived /\ seen[Len(seen)] \in Arrived
      BY <2>1, <3>1 DEF ToSet
    <3>3. n \in Accounted
      BY <2>2, <3>2 DEF NoGaps, Pipe
    <3>4. n \notin Arriving
      <4>1. \A y \in Arriving : seen[Len(seen)] < y
        BY <3>2 DEF Ordered
      <4>2. Arrived \subseteq Int /\ Arriving \subseteq Int
        BY PipeType DEF Pipe, Events
      <4>3. seen[1] \in Int /\ seen[Len(seen)] \in Int
        BY <3>2, <4>2
      <4>4. n \in Int /\ n <= seen[Len(seen)]
        BY <2>2, <4>3
      <4>5. ASSUME n \in Arriving
            PROVE  FALSE
        <5>1. seen[Len(seen)] < n
          BY <4>1, <4>5
        <5> QED
          BY <4>3, <4>4, <5>1
      <4> QED
        BY <4>5
    <3> QED
      BY <2>1, <3>3, <3>4 DEF Accounted, Pipe
  <2>3. \A i, j \in 1 .. Len(seen) : i < j => seen[i] < seen[j]
    BY <2>1 DEF Increasing
  <2> QED
    BY <2>2, <2>3 DEF InOrderUpToDrops, seen
<1> QED
  BY <1>1, <1>2, LinedStep, TeardownInvariant, PTL DEF Spec
=============================================================================
