---------------------------- MODULE StreamCursor ----------------------------
(***************************************************************************)
(* A consumer that follows a stream room with StreamManager.Stats and      *)
(* StreamManager.Consume the way the README shows: it keeps a cursor and   *)
(* the generation of the room, rewinds when the generation changes, and    *)
(* reads on from the cursor.  Meanwhile events are published, the room is  *)
(* deleted or wiped by a restart of the server and comes back with offsets *)
(* from 0, old events fall out of retention, and calls fail.               *)
(*                                                                         *)
(* An event is identified by the generation of its room and its offset.    *)
(* The room is an interval of offsets.  A call is sent, served at some     *)
(* later moment, and returns or fails at a still later one.                *)
(***************************************************************************)
EXTENDS Integers, FiniteSets

CONSTANTS Limit,        \* the limit the consumer passes to Consume
          MaxEvents,    \* bound: events published in one incarnation of the room
          MaxRooms,     \* bound: incarnations of the room
          MaxFailures   \* bound: calls that fail on the way

ASSUME CursorAssumption ==
    /\ Limit \in Nat \ {0}
    /\ {MaxEvents, MaxRooms, MaxFailures} \subseteq Nat

VARIABLES generation,   \* of the room, 0 while there is none
          latest,       \* the last generation the server gave to a room
          lo, hi,       \* the room holds the offsets lo .. hi - 1
          pc,           \* what the consumer does
          cursor, remembered,   \* its variables
          answer,       \* the answer on its way
          log,          \* history: <<event, remembered generation>> of every delivery
          again,        \* history: deliveries that were in the log before
          failures      \* calls that failed on the way

room == <<generation, latest, lo, hi>>
consumer == <<pc, cursor, remembered, answer, log, again, failures>>
vars == <<generation, latest, lo, hi, pc, cursor, remembered, answer, log, again, failures>>

None  == [kind |-> "none"]
Error == [kind |-> "error"]

Min2(a, b) == IF a < b THEN a ELSE b
Max2(a, b) == IF a < b THEN b ELSE a

-----------------------------------------------------------------------------
Init ==
    /\ generation = 0 /\ latest = 0
    /\ lo = 0 /\ hi = 0
    /\ pc = "ready"
    /\ cursor = 0 /\ remembered = 0
    /\ answer = None
    /\ log = {} /\ again = {}
    /\ failures = 0

-----------------------------------------------------------------------------
(* The room *)

(* Publish appends at the next offset; without a room it creates one. *)
Publish ==
    /\ IF generation = 0
       THEN /\ latest < MaxRooms /\ MaxEvents > 0
            /\ latest' = latest + 1
            /\ generation' = latest + 1
            /\ lo' = 0 /\ hi' = 1
       ELSE /\ hi < MaxEvents
            /\ hi' = hi + 1
            /\ UNCHANGED <<generation, latest, lo>>
    /\ UNCHANGED consumer

(* Delete, or a restart of the server. *)
Wipe ==
    /\ generation # 0
    /\ generation' = 0
    /\ lo' = 0 /\ hi' = 0
    /\ UNCHANGED latest
    /\ UNCHANGED consumer

(* Retention drops the oldest event. *)
Trim ==
    /\ lo < hi
    /\ lo' = lo + 1
    /\ UNCHANGED <<generation, latest, hi>>
    /\ UNCHANGED consumer

-----------------------------------------------------------------------------
(* Mutant of Stats: the generation is decoded under another name and zero. *)
StatsWithoutGeneration == [kind |-> "stats", generation |-> 0, min_offset |-> lo]

(* What Stats gets from the room, in the fields the consumer uses. *)
Stats == [kind |-> "stats", generation |-> generation, min_offset |-> lo]

(* Mutants of Consume: it reads from behind the cursor, from before it,    *)
(* and without the limit.                                                  *)
ConsumeAfter(from) ==
    LET first == Max2(from + 1, lo) IN
    [kind |-> "events", generation |-> generation, first |-> first,
     end |-> Max2(first, Min2(first + Limit, hi))]

ConsumeBefore(from) ==
    LET first == Max2(from - 1, lo) IN
    [kind |-> "events", generation |-> generation, first |-> first,
     end |-> Max2(first, Min2(first + Limit, hi))]

ConsumeAll(from) ==
    LET first == Max2(from, lo) IN
    [kind |-> "events", generation |-> generation, first |-> first, end |-> Max2(first, hi)]

(* What Consume gets: up to Limit events that start at offset from.  The   *)
(* generation is not part of the answer, only of the events' identity.     *)
Consume(from) ==
    LET first == Max2(from, lo) IN
    [kind |-> "events", generation |-> generation, first |-> first,
     end |-> Max2(first, Min2(first + Limit, hi))]

(* The consumer calls Stats. *)
AskStats ==
    /\ pc = "ready"
    /\ pc' = "stats"
    /\ UNCHANGED <<room, cursor, remembered, answer, log, again, failures>>

(* The server handles the call; without a room it answers with an error. *)
Serve ==
    /\ pc \in {"stats", "consume"}
    /\ answer = None
    /\ answer' = CASE generation = 0 -> Error
                   [] generation # 0 /\ pc = "stats" -> Stats
                   [] OTHER -> Consume(cursor)
    /\ UNCHANGED <<room, pc, cursor, remembered, log, again, failures>>

(* Stats returns: the consumer compares generations, and calls Consume. *)
ReturnStats ==
    /\ answer.kind = "stats"
    /\ remembered' = answer.generation
    /\ cursor' = IF answer.generation # remembered THEN answer.min_offset ELSE cursor
    /\ pc' = "consume"
    /\ answer' = None
    /\ UNCHANGED <<room, log, again, failures>>

Delivery(a) == {<<<<a.generation, o>>, remembered>> : o \in a.first .. a.end - 1}

(* Consume returns: the events are handled, the cursor is behind the last. *)
ReturnConsume ==
    /\ answer.kind = "events"
    /\ log' = log \cup Delivery(answer)
    /\ again' = again \cup (log \cap Delivery(answer))
    /\ cursor' = IF answer.end > answer.first THEN answer.end ELSE cursor
    /\ pc' = "ready"
    /\ answer' = None
    /\ UNCHANGED <<room, remembered, failures>>

(* The server's error is returned, or the call fails on the way out or     *)
(* back; the consumer starts over.                                         *)
ReturnError ==
    /\ pc \in {"stats", "consume"}
    /\ \/ answer = Error /\ UNCHANGED failures
       \/ failures < MaxFailures /\ failures' = failures + 1
    /\ pc' = "ready"
    /\ answer' = None
    /\ UNCHANGED <<room, cursor, remembered, log, again>>

-----------------------------------------------------------------------------
Follow == AskStats \/ Serve \/ ReturnStats \/ ReturnConsume \/ (answer = Error /\ ReturnError)

Next == Publish \/ Wipe \/ Trim \/ AskStats \/ Serve \/ ReturnStats \/ ReturnConsume \/ ReturnError

(* The consumer calls on and on, and the server handles what it is sent. *)
Spec == Init /\ [][Next]_vars /\ WF_vars(Follow)

-----------------------------------------------------------------------------
TypeOK ==
    /\ generation \in 0 .. latest
    /\ latest \in 0 .. MaxRooms
    /\ lo \in 0 .. hi
    /\ hi \in 0 .. MaxEvents
    /\ pc \in {"ready", "stats", "consume"}
    /\ cursor \in 0 .. MaxEvents
    /\ remembered \in 0 .. latest
    /\ answer \in {None, Error}
            \cup [kind : {"stats"}, generation : 1 .. latest, min_offset : 0 .. MaxEvents]
            \cup {a \in [kind : {"events"}, generation : 1 .. latest, first : 0 .. MaxEvents,
                         end : 0 .. MaxEvents] : a.end \in a.first .. a.first + Limit}
    /\ \A d \in log : /\ d[1][1] \in 1 .. latest
                      /\ d[1][2] \in 0 .. MaxEvents - 1
                      /\ d[2] \in 0 .. latest
    /\ again \subseteq log
    /\ failures \in 0 .. MaxFailures

Seen(e) == \E d \in log : d[1] = e

(* types.go 44: a consumer that remembers the generation "alongside its    *)
(* offset cursor detects a room wipe".  Once it remembers the generation   *)
(* of the room, every event of the room before its cursor was delivered,   *)
(* whatever came between a Stats and the Consume that follows it.          *)
NothingSkipped ==
    remembered = generation /\ generation # 0 =>
        \A o \in lo .. hi - 1 : o < cursor => Seen(<<generation, o>>)

(* An event is delivered a second time only if a wipe between Stats and    *)
(* Consume made its first delivery an early one, under the generation of   *)
(* an earlier room; and no event comes from a room before the remembered.  *)
RedeliveredOnce ==
    /\ again = {}
    /\ \A d \in log : d[2] <= d[1][1]
    /\ \A d, e \in log : d[1] = e[1] /\ d[2] < d[1][1] /\ e[2] < e[1][1] => d = e

InRoom(g, o) == generation = g /\ o \in lo .. hi - 1

(* Every event is delivered, unless the room loses it first: also when the *)
(* new room has grown past the cursor of the old one.                      *)
EveryEventArrives ==
    \A g \in 1 .. MaxRooms, o \in 0 .. MaxEvents - 1 :
        InRoom(g, o) ~> (Seen(<<g, o>>) \/ ~InRoom(g, o))
=============================================================================
