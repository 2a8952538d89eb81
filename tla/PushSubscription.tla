-------------------------- MODULE PushSubscription --------------------------
(***************************************************************************)
(* One push subscription: KVStore.Watch over WatchPush, and                *)
(* PubSubManager.Observe over SubscribePush, which differ only in that the *)
(* teardown of a watch first sends KV.UNWATCH.  A dedicated Thunder client *)
(* is dialled, the push hook registered, the subscribe command sent; then  *)
(* Thunder's reader runs the hook for every push frame, the hook puts the  *)
(* event into a buffered channel or drops it, and the consumer receives    *)
(* from the channel.  The subscription is torn down, once, by whichever    *)
(* goroutine comes first: callers of stop and the goroutine that waits for *)
(* the context.                                                            *)
(*                                                                         *)
(* Thunder, the server and the consumer are external.  Events are numbered *)
(* in the order the server publishes them.                                 *)
(***************************************************************************)
EXTENDS Naturals, Sequences, FiniteSets, SequencesExt

CONSTANTS Cap,          \* capacity of the channel (64 in the code)
          MaxEvents,    \* bound: events the server publishes
          Garbled,      \* events whose frame the hook cannot decode
          Stoppers,     \* goroutines that call the returned stop
          Watcher,      \* the goroutine that waits for ctx.Done()
          Unwatches,    \* TRUE for Watch, FALSE for Observe
          JoinsReader   \* Thunder's Close returns after a running hook has

Events == 1 .. MaxEvents

ASSUME PushAssumption ==
    /\ Cap \in Nat \ {0}
    /\ MaxEvents \in Nat
    /\ Garbled \subseteq Events
    /\ Watcher \notin Stoppers
    /\ Unwatches \in BOOLEAN
    /\ JoinsReader \in BOOLEAN

Goroutines == Stoppers \cup {Watcher}
Idle       == 0                     \* no hook is running

VARIABLES phase,     \* how far Watch or Observe has come
          conn,      \* the dedicated Thunder client
          hook,      \* is the push hook registered?
          request,   \* the subscribe command on its way to and back from the server
          sub,       \* does the server route events to the connection?
          sid,       \* did the acknowledgement carry a subscriber id?
          wire,      \* push frames on their way to the client
          reader,    \* the event whose hook is running, or Idle
          chan,      \* contents of the channel out
          closed,    \* is out closed?
          once,      \* the sync.Once of shutdown
          at,        \* [Goroutines -> where it is in shutdown]
          ctx,       \* is the caller's context cancelled?
          published, \* number of events published so far
          got,       \* what the consumer received
          dropped,   \* events the hook dropped on a full channel
          missed,    \* frames that arrived while no hook was registered
          panicked   \* a send on, or a close of, a closed channel

vars == <<phase, conn, hook, request, sub, sid, wire, reader, chan, closed, once, at,
          ctx, published, got, dropped, missed, panicked>>

opening  == <<phase, hook, request, sid>>
delivery == <<reader, chan, dropped, missed, got>>
teardown == <<closed, once, at>>

Init ==
    /\ phase = "start"
    /\ conn = "none"
    /\ hook = FALSE
    /\ request = "none"
    /\ sub = FALSE
    /\ sid = FALSE
    /\ wire = <<>>
    /\ reader = Idle
    /\ chan = <<>>
    /\ closed = FALSE
    /\ once = "free"
    /\ at = [g \in Goroutines |-> "idle"]
    /\ ctx = FALSE
    /\ published = 0
    /\ got = <<>>
    /\ dropped = {}
    /\ missed = {}
    /\ panicked = FALSE

-----------------------------------------------------------------------------
(* Opening the subscription *)

(* t.dial() *)
Dial ==
    /\ phase = "start"
    /\ \/ phase' = "dialled" /\ conn' = "up"
       \/ phase' = "failed" /\ UNCHANGED conn
    /\ UNCHANGED <<hook, request, sid, sub, wire, ctx, published, panicked, delivery, teardown>>

(* Mutant of RegisterHook: the hook is left for later. *)
RegisterNothing ==
    /\ phase = "dialled"
    /\ phase' = "hooked"
    /\ UNCHANGED <<hook, conn, request, sid, sub, wire, ctx, published, panicked, delivery, teardown>>

(* c.OnPush(...) *)
RegisterHook ==
    /\ phase = "dialled"
    /\ hook' = TRUE
    /\ phase' = "hooked"
    /\ UNCHANGED <<conn, request, sid, sub, wire, ctx, published, panicked, delivery, teardown>>

(* c.Call(ctx, "SUBSCRIBE" or "KV.WATCH") leaves the client. *)
Ask ==
    /\ phase = "hooked"
    /\ phase' = "asking"
    /\ request' = IF conn = "up" THEN "sent" ELSE "lost"
    /\ UNCHANGED <<hook, conn, sid, sub, wire, ctx, published, panicked, delivery, teardown>>

(* The server routes events from here on; its acknowledgement is not yet   *)
(* with the client.                                                        *)
Subscribe ==
    /\ request = "sent"
    /\ request' = "acked"
    /\ sub' = TRUE
    /\ UNCHANGED <<phase, hook, sid, conn, wire, ctx, published, panicked, delivery, teardown>>

(* The acknowledgement arrives, with or without a subscriber id, and the   *)
(* goroutine that waits for the context is started.                        *)
Acknowledged ==
    /\ phase = "asking"
    /\ request = "acked"
    /\ phase' = "active"
    /\ sid' \in BOOLEAN
    /\ UNCHANGED <<hook, conn, request, sub, wire, ctx, published, panicked, delivery, teardown>>

(* Mutant of AskFails: the connection is not closed. *)
AskFailsKeepsConn ==
    /\ phase = "asking"
    /\ phase' = "failed"
    /\ UNCHANGED <<conn, sub, wire, hook, request, sid, ctx, published, panicked, delivery, teardown>>

(* c.Call fails (refused, timed out, connection lost, context cancelled):  *)
(* c.Close() and the error is returned.                                    *)
AskFails ==
    /\ phase = "asking"
    /\ phase' = "failed"
    /\ conn' = "closed"
    /\ request' = "lost"
    /\ sub' = FALSE
    /\ wire' = <<>>
    /\ UNCHANGED <<hook, sid, ctx, published, panicked, delivery, teardown>>

-----------------------------------------------------------------------------
(* Delivery *)

(* The server publishes the next event. *)
Publish ==
    /\ published < MaxEvents
    /\ published' = published + 1
    /\ wire' = IF sub /\ conn = "up" THEN Append(wire, published + 1) ELSE wire
    /\ UNCHANGED <<conn, sub, ctx, panicked, opening, delivery, teardown>>

(* Thunder's reader takes a push frame; without a hook it is discarded.    *)
TakeFrame ==
    /\ conn = "up"
    /\ reader = Idle
    /\ wire # <<>>
    /\ wire' = Tail(wire)
    /\ IF hook
       THEN reader' = Head(wire) /\ UNCHANGED missed
       ELSE missed' = missed \cup {Head(wire)} /\ UNCHANGED reader
    /\ UNCHANGED <<conn, sub, ctx, published, panicked, chan, dropped, got, opening, teardown>>

(* fromWire gives a map and, for a watch, its payload is a JSON object. *)
Decodes(n) == n \notin Garbled

(* Mutant of RunHook: a plain send, which blocks while the channel is      *)
(* full.                                                                   *)
RunHookBlocking ==
    /\ reader # Idle
    /\ reader' = Idle
    /\ panicked' = (panicked \/ closed)
    /\ closed \/ Len(chan) < Cap
    /\ chan' = Append(chan, reader)
    /\ UNCHANGED <<conn, sub, wire, ctx, published, missed, got, dropped, opening, teardown>>

(* Mutant of RunHook: a goroutine per event, and a later one overtakes. *)
RunHookReorders ==
    /\ reader # Idle
    /\ reader' = Idle
    /\ chan' = IF Len(chan) < Cap THEN <<reader>> \o chan ELSE chan
    /\ dropped' = IF Len(chan) < Cap THEN dropped ELSE dropped \cup {reader}
    /\ UNCHANGED <<conn, sub, wire, ctx, published, missed, got, panicked, opening, teardown>>

(* Mutant of RunHook: the buffer has no bound. *)
RunHookUnbounded ==
    /\ reader # Idle
    /\ reader' = Idle
    /\ chan' = Append(chan, reader)
    /\ UNCHANGED <<conn, sub, wire, ctx, published, missed, got, dropped, panicked, opening, teardown>>

(* The hook: frames that do not decode are ignored; otherwise select sends *)
(* into the channel, or drops the event when the channel is full, and      *)
(* panics when it is closed.                                               *)
RunHook ==
    /\ reader # Idle
    /\ reader' = Idle
    /\ \/ /\ Decodes(reader) /\ ~closed /\ Len(chan) < Cap
          /\ chan' = Append(chan, reader)
          /\ UNCHANGED dropped
       \/ /\ Decodes(reader) /\ ~closed /\ Len(chan) >= Cap
          /\ dropped' = dropped \cup {reader}
          /\ UNCHANGED chan
       \/ /\ ~Decodes(reader) \/ closed
          /\ UNCHANGED <<chan, dropped>>
    /\ panicked' = (panicked \/ (Decodes(reader) /\ closed))
    /\ UNCHANGED <<conn, sub, wire, ctx, published, missed, got, opening, teardown>>

(* The consumer receives the next event; events that were buffered are     *)
(* received also after the channel was closed.                             *)
Consume ==
    /\ phase = "active"
    /\ chan # <<>>
    /\ got' = Append(got, Head(chan))
    /\ chan' = Tail(chan)
    /\ UNCHANGED <<conn, sub, wire, ctx, published, panicked, reader, dropped, missed, opening, teardown>>

(* The connection is lost, or the server disconnects a slow consumer. *)
Lose ==
    /\ conn = "up"
    /\ conn' = "lost"
    /\ request' = IF phase = "asking" THEN "lost" ELSE request
    /\ sub' = FALSE
    /\ wire' = <<>>
    /\ UNCHANGED <<phase, hook, sid, ctx, published, panicked, delivery, teardown>>

(* Thunder reconnects; it knows nothing of the subscription. *)
Restore ==
    /\ conn = "lost"
    /\ conn' = "up"
    /\ UNCHANGED <<sub, wire, ctx, published, panicked, opening, delivery, teardown>>

-----------------------------------------------------------------------------
(* Teardown *)

CancelContext ==
    /\ ~ctx
    /\ ctx' = TRUE
    /\ UNCHANGED <<conn, sub, wire, published, panicked, opening, delivery, teardown>>

(* Mutant of CallShutdown: nobody waits for the context. *)
CallShutdownByStopOnly(g) ==
    /\ phase = "active"
    /\ at[g] = "idle"
    /\ g # Watcher
    /\ at' = [at EXCEPT ![g] = "once"]
    /\ UNCHANGED <<closed, once, conn, sub, wire, ctx, published, panicked, opening, delivery>>

(* A caller of stop, or the waiting goroutine once the context is done,    *)
(* calls shutdown.                                                         *)
CallShutdown(g) ==
    /\ phase = "active"
    /\ at[g] = "idle"
    /\ g = Watcher => ctx
    /\ at' = [at EXCEPT ![g] = "once"]
    /\ UNCHANGED <<closed, once, conn, sub, wire, ctx, published, panicked, opening, delivery>>

(* Mutant of EnterOnce: a plain flag check in place of sync.Once. *)
EnterUnguarded(g) ==
    /\ at[g] = "once"
    /\ once' = "running"
    /\ at' = [at EXCEPT ![g] = IF Unwatches /\ sid THEN "unwatch" ELSE "close"]
    /\ UNCHANGED <<closed, conn, sub, wire, ctx, published, panicked, opening, delivery>>

(* once.Do: the first caller runs the teardown. *)
EnterOnce(g) ==
    /\ at[g] = "once"
    /\ once = "free"
    /\ once' = "running"
    /\ at' = [at EXCEPT ![g] = IF Unwatches /\ sid THEN "unwatch" ELSE "close"]
    /\ UNCHANGED <<closed, conn, sub, wire, ctx, published, panicked, opening, delivery>>

(* Mutant of WaitOnce: a second caller does not wait for the first. *)
WaitOnceReturnsEarly(g) ==
    /\ at[g] = "once"
    /\ once # "free"
    /\ at' = [at EXCEPT ![g] = "returned"]
    /\ UNCHANGED <<closed, once, conn, sub, wire, ctx, published, panicked, opening, delivery>>

(* once.Do: the others return when it is over. *)
WaitOnce(g) ==
    /\ at[g] = "once"
    /\ once = "done"
    /\ at' = [at EXCEPT ![g] = "returned"]
    /\ UNCHANGED <<closed, once, conn, sub, wire, ctx, published, panicked, opening, delivery>>

(* KV.UNWATCH with a timeout of two seconds; whether it reaches the server *)
(* is not looked at.                                                       *)
Unwatch(g) ==
    /\ at[g] = "unwatch"
    /\ \/ conn = "up" /\ sub' = FALSE
       \/ UNCHANGED sub
    /\ at' = [at EXCEPT ![g] = "close"]
    /\ UNCHANGED <<closed, once, conn, wire, ctx, published, panicked, opening, delivery>>

(* c.Close(): no further frame is taken. *)
CloseConn(g) ==
    /\ at[g] = "close"
    /\ conn' = "closed"
    /\ sub' = FALSE
    /\ wire' = <<>>
    /\ at' = [at EXCEPT ![g] = "join"]
    /\ UNCHANGED <<closed, once, ctx, published, panicked, opening, delivery>>

(* c.Close() returns; a Thunder that joins its reader first lets a running *)
(* hook end.                                                               *)
CloseReturns(g) ==
    /\ at[g] = "join"
    /\ JoinsReader => reader = Idle
    /\ at' = [at EXCEPT ![g] = "closeout"]
    /\ UNCHANGED <<closed, once, conn, sub, wire, ctx, published, panicked, opening, delivery>>

(* close(out), and shutdown returns. *)
CloseOut(g) ==
    /\ at[g] = "closeout"
    /\ panicked' = (panicked \/ closed)
    /\ closed' = TRUE
    /\ once' = "done"
    /\ at' = [at EXCEPT ![g] = "returned"]
    /\ UNCHANGED <<conn, sub, wire, ctx, published, opening, delivery>>

Shutdown(g) ==
    \/ EnterOnce(g)
    \/ WaitOnce(g)
    \/ Unwatch(g)
    \/ CloseConn(g)
    \/ CloseReturns(g)
    \/ CloseOut(g)

-----------------------------------------------------------------------------
Next ==
    \/ Dial \/ RegisterHook \/ Ask \/ Subscribe \/ Acknowledged \/ AskFails
    \/ Publish \/ TakeFrame \/ RunHook \/ Consume \/ Lose \/ Restore
    \/ CancelContext
    \/ \E g \in Goroutines : CallShutdown(g) \/ Shutdown(g)

Spec == Init /\ [][Next]_vars

(* The Go scheduler runs every goroutine that can run, Thunder's reader    *)
(* among them; UNWATCH has a timeout.  Nothing is assumed of the consumer, *)
(* the server or the network.                                              *)
Fairness ==
    /\ WF_vars(RunHook)
    /\ WF_vars(CallShutdown(Watcher))
    /\ \A g \in Goroutines : WF_vars(Shutdown(g))

LiveSpec == Spec /\ Fairness

-----------------------------------------------------------------------------
TypeOK ==
    /\ phase \in {"start", "dialled", "hooked", "asking", "active", "failed"}
    /\ conn \in {"none", "up", "lost", "closed"}
    /\ request \in {"none", "sent", "acked", "lost"}
    /\ hook \in BOOLEAN /\ sub \in BOOLEAN /\ sid \in BOOLEAN
    /\ wire \in Seq(Events)
    /\ reader \in Events \cup {Idle}
    /\ chan \in Seq(Events)
    /\ Len(chan) <= Cap
    /\ closed \in BOOLEAN /\ ctx \in BOOLEAN /\ panicked \in BOOLEAN
    /\ once \in {"free", "running", "done"}
    /\ at \in [Goroutines -> {"idle", "once", "unwatch", "close", "join", "closeout", "returned"}]
    /\ published \in 0 .. MaxEvents
    /\ got \in Seq(Events)
    /\ dropped \subseteq Events /\ missed \subseteq Events

(* No event is sent to a closed channel and the channel is closed once,    *)
(* whoever stops the subscription while frames are arriving: either would  *)
(* bring the program down.                                                 *)
NoPanic == ~panicked

(* transport_rpc.go 230, 274: an event published "between the server's     *)
(* acknowledgement and the reader starting cannot be lost".                *)
NoEventMissed == missed = {}

(* Events reach the consumer in the order of publication, none twice, and  *)
(* none is lost between two delivered ones except by a full channel or a   *)
(* garbled frame.                                                          *)
InOrderUpToDrops ==
    LET seen == got \o chan IN
    /\ \A i, j \in 1 .. Len(seen) : i < j => seen[i] < seen[j]
    /\ seen # <<>> =>
        \A n \in seen[1] .. seen[Len(seen)] :
            n \in ToSet(seen) \cup dropped \cup Garbled

(* When any call of stop has returned, the channel and the connection are  *)
(* closed, and no hook runs.                                               *)
StopMeansEnded ==
    \A g \in Goroutines : at[g] = "returned" =>
        closed /\ conn = "closed" /\ (JoinsReader => reader = Idle)

(* When Watch or Observe returns an error no connection is left behind.    *)
FailureLeavesNoConn == phase = "failed" => conn \in {"none", "closed"}

(* stop returns, whatever the consumer, the server and the network do: the *)
(* consumer may be the one that called it.                                 *)
StopReturns == \A g \in Goroutines : at[g] = "once" ~> at[g] = "returned"

(* Cancelling the context ends an active subscription: its channel is      *)
(* closed.                                                                 *)
CancelEnds == (ctx /\ phase = "active") ~> closed

-----------------------------------------------------------------------------
(* What the comment promises and the code does not do *)

(* pubsub.go 103: "the channel is closed when it ends".  A subscription    *)
(* the server no longer serves has its channel closed.                     *)
LossEndsSubscription == (phase = "active" /\ ~sub) ~> closed
=============================================================================
