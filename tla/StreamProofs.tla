---------------------------- MODULE StreamProofs ----------------------------
(***************************************************************************)
(* Proofs about StreamCursor, for any limit and any number of events,      *)
(* incarnations of the room and failed calls.                              *)
(***************************************************************************)
EXTENDS StreamCursor, TLAPS

-----------------------------------------------------------------------------
(* The inductive invariant *)

(* The answer on its way belongs to the call under way. *)
AnswerOfCall ==
    /\ answer.kind = "stats" => pc = "stats"
    /\ answer.kind = "events" => pc = "consume"

(* A room has the last generation given out; offsets are those of a room. *)
RoomIsLatest ==
    /\ generation = 0 \/ generation = latest
    /\ generation = 0 => hi = 0

(* The generation in an answer of Stats is not older than what the         *)
(* consumer knows, from Stats or from events; while the room is the same   *)
(* it holds nothing before the offset in the answer.                       *)
StatsAnswer ==
    answer.kind = "stats" =>
        /\ remembered <= answer.generation
        /\ answer.generation = generation => answer.min_offset <= lo
        /\ \A d \in log : d[1][1] <= answer.generation

(* The events in an answer of Consume start at the cursor, or at the first *)
(* that was left in their room, and end within it.                         *)
EventsAnswer ==
    answer.kind = "events" =>
        /\ remembered <= answer.generation
        /\ cursor <= answer.first
        /\ answer.generation = generation =>
            /\ answer.first <= cursor \/ answer.first <= lo
            /\ answer.end <= hi \/ answer.end = answer.first

(* The cursor of the room that the consumer knows points into it, or       *)
(* behind its last event.                                                  *)
CursorInRoom == remembered = generation /\ generation # 0 => cursor <= hi

(* What was delivered under the remembered generation lies before the      *)
(* cursor, nothing under a later one, and no event is older than the       *)
(* generation it was delivered under.                                      *)
LogBehindCursor ==
    /\ log \subseteq (Nat \X Nat) \X Nat
    /\ \A d \in log : /\ d[2] <= remembered
                      /\ d[2] = remembered => d[1][2] < cursor
                      /\ d[2] <= d[1][1]
                      /\ pc = "consume" => d[1][1] <= remembered

Inv == /\ TypeOK /\ AnswerOfCall /\ RoomIsLatest /\ StatsAnswer /\ EventsAnswer
       /\ CursorInRoom /\ LogBehindCursor /\ NothingSkipped /\ RedeliveredOnce

(* The forms an answer can have. *)
StatsAnswers == [kind : {"stats"}, generation : 1 .. latest, min_offset : 0 .. MaxEvents]

EventsAnswers ==
    {a \in [kind : {"events"}, generation : 1 .. latest, first : 0 .. MaxEvents,
            end : 0 .. MaxEvents] : a.end \in a.first .. a.first + Limit}

(* What its kind says about an answer. *)
LEMMA AnswerForms ==
    ASSUME TypeOK
    PROVE  /\ answer.kind = "stats" => answer \in StatsAnswers
           /\ answer.kind = "events" => answer \in EventsAnswers
           /\ answer \in {None, Error} => answer.kind \notin {"stats", "events"}
BY DEF TypeOK, None, Error, StatsAnswers, EventsAnswers

(* A step of the room does not touch what the consumer knows. *)
LEMMA RoomStep ==
    ASSUME Inv, Publish \/ Wipe \/ Trim
    PROVE  Inv'
<1>c. UNCHANGED <<pc, cursor, remembered, answer, log, again, failures>>
  BY DEF Publish, Wipe, Trim, consumer
<1>i. /\ TypeOK /\ AnswerOfCall /\ RoomIsLatest /\ StatsAnswer /\ EventsAnswer
      /\ CursorInRoom /\ LogBehindCursor /\ NothingSkipped /\ RedeliveredOnce
  BY DEF Inv
<1>n. /\ generation \in Nat /\ latest \in Nat /\ lo \in Nat /\ hi \in Nat
      /\ cursor \in Nat /\ remembered \in Nat /\ remembered <= latest
      /\ MaxEvents \in Nat /\ MaxRooms \in Nat /\ generation <= latest
  BY <1>i, CursorAssumption DEF TypeOK
<1>1. /\ generation' \in 0 .. latest' /\ latest' \in latest .. MaxRooms
      /\ lo' \in 0 .. hi' /\ hi' \in 0 .. MaxEvents
  BY <1>i, <1>n DEF Publish, Wipe, Trim, TypeOK
<1>2. RoomIsLatest'
  BY <1>i, <1>n DEF Publish, Wipe, Trim, RoomIsLatest
<1>3. \/ generation' = generation /\ latest' = latest /\ lo <= lo' /\ hi <= hi'
      \/ generation' = 0 /\ latest' = latest
      \/ generation' > latest
  BY <1>n DEF Publish, Wipe, Trim
<1>4. TypeOK'
  <2>1. answer' \in {None, Error} \cup StatsAnswers' \cup EventsAnswers'
    <3>1. answer \in {None, Error} \cup StatsAnswers \cup EventsAnswers
      BY <1>i DEF TypeOK, StatsAnswers, EventsAnswers
    <3>2. 1 .. latest \subseteq 1 .. latest'
      BY <1>1, <1>n
    <3> QED
      BY <1>c, <3>1, <3>2 DEF StatsAnswers, EventsAnswers
  <2> QED
    BY <1>i, <1>c, <1>1, <1>n, <2>1 DEF TypeOK, StatsAnswers, EventsAnswers
<1>5. StatsAnswer' /\ EventsAnswer'
  <2>1. answer.kind = "stats" => /\ answer.generation \in 1 .. latest
                                 /\ answer.min_offset \in Nat
    BY <1>i, <1>n, AnswerForms DEF StatsAnswers
  <2>2. answer.kind = "events" => /\ answer.generation \in 1 .. latest
                                  /\ answer.first \in Nat /\ answer.end \in Nat
    BY <1>i, <1>n, AnswerForms DEF EventsAnswers
  <2> QED
    BY <1>i, <1>c, <1>n, <1>1, <1>3, <2>1, <2>2 DEF StatsAnswer, EventsAnswer
<1>6. NothingSkipped'
  <2> SUFFICES ASSUME remembered' = generation', generation' # 0,
                      NEW o \in lo' .. hi' - 1, o < cursor'
               PROVE  Seen(<<generation, o>>)'
    BY DEF NothingSkipped
  <2>1. generation' = generation /\ lo <= lo'
    BY <1>c, <1>n, <1>3
  <2>2. CASE o < hi
    <3>1. o \in lo .. hi - 1
      BY <1>n, <1>1, <2>1, <2>2
    <3>2. Seen(<<generation, o>>)
      BY <1>i, <1>c, <2>1, <3>1 DEF NothingSkipped
    <3> QED
      BY <1>c, <2>1, <3>2 DEF Seen
  <2>3. CASE o >= hi
    <3>1. cursor <= hi
      BY <1>i, <1>c, <2>1 DEF CursorInRoom
    <3>2. o \in Int /\ o < cursor
      BY <1>c, <1>1, <1>n
    <3> QED
      BY <1>n, <2>3, <3>1, <3>2
  <2> QED
    BY <1>n, <1>1, <2>2, <2>3
<1>7. CursorInRoom'
  BY <1>i, <1>c, <1>n, <1>1, <1>3 DEF CursorInRoom
<1>8. AnswerOfCall' /\ LogBehindCursor' /\ RedeliveredOnce'
  BY <1>i, <1>c DEF AnswerOfCall, LogBehindCursor, RedeliveredOnce
<1> QED
  BY <1>2, <1>4, <1>5, <1>6, <1>7, <1>8 DEF Inv

(* The consumer's steps *)

(* What Consume gets from the room. *)
LEMMA ConsumeAnswer ==
    ASSUME TypeOK, generation # 0
    PROVE  /\ Consume(cursor) \in EventsAnswers
           /\ Consume(cursor).kind = "events"
           /\ Consume(cursor).generation = generation
           /\ cursor <= Consume(cursor).first
           /\ Consume(cursor).first <= cursor \/ Consume(cursor).first <= lo
           /\ Consume(cursor).end <= hi \/ Consume(cursor).end = Consume(cursor).first
<1>1. /\ Limit \in Nat /\ lo \in Nat /\ hi \in Nat /\ cursor \in Nat /\ MaxEvents \in Nat
      /\ cursor <= MaxEvents /\ hi <= MaxEvents /\ lo <= hi
      /\ latest \in Nat /\ generation \in 1 .. latest
  BY CursorAssumption DEF TypeOK
<1> DEFINE first == Max2(cursor, lo)
           end   == Max2(first, Min2(first + Limit, hi))
<1>2. /\ first \in 0 .. MaxEvents /\ end \in 0 .. MaxEvents
      /\ end \in first .. first + Limit
      /\ cursor <= first
      /\ first <= cursor \/ first <= lo
      /\ end <= hi \/ end = first
  BY <1>1 DEF Max2, Min2
<1>3. Consume(cursor) = [kind |-> "events", generation |-> generation, first |-> first, end |-> end]
  BY DEF Consume
<1> HIDE DEF first, end
<1> QED
  BY <1>1, <1>2, <1>3 DEF EventsAnswers

(* Calls that are sent, served or fail. *)
LEMMA CallStep ==
    ASSUME Inv, AskStats \/ Serve \/ ReturnError
    PROVE  Inv'
<1>i. /\ TypeOK /\ AnswerOfCall /\ RoomIsLatest /\ StatsAnswer /\ EventsAnswer
      /\ CursorInRoom /\ LogBehindCursor /\ NothingSkipped /\ RedeliveredOnce
  BY DEF Inv
<1>u. UNCHANGED <<generation, latest, lo, hi, cursor, remembered, log, again>>
  BY DEF AskStats, Serve, ReturnError, room
<1>1. RoomIsLatest' /\ CursorInRoom' /\ NothingSkipped' /\ RedeliveredOnce'
  BY <1>i, <1>u DEF RoomIsLatest, CursorInRoom, NothingSkipped, RedeliveredOnce, Seen
<1>2. LogBehindCursor'
  <2>1. pc' = "consume" => pc = "consume"
    BY DEF AskStats, Serve, ReturnError
  <2> QED
    BY <1>i, <1>u, <2>1 DEF LogBehindCursor
<1>3. CASE AskStats
  <2>1. pc' = "stats" /\ UNCHANGED <<answer, failures>> /\ answer.kind \notin {"stats", "events"}
    BY <1>i, <1>3 DEF AskStats, AnswerOfCall
  <2>2. TypeOK'
    BY <1>i, <1>u, <2>1 DEF TypeOK
  <2>3. AnswerOfCall' /\ StatsAnswer' /\ EventsAnswer'
    BY <1>i, <1>u, <2>1 DEF AnswerOfCall, StatsAnswer, EventsAnswer
  <2> QED
    BY <1>1, <1>2, <2>2, <2>3 DEF Inv
<1>4. CASE ReturnError
  <2>1. pc' = "ready" /\ answer' = None /\ failures' \in 0 .. MaxFailures
    BY <1>i, <1>4, CursorAssumption DEF ReturnError, TypeOK
  <2>2. TypeOK'
    BY <1>i, <1>u, <2>1 DEF TypeOK
  <2>3. AnswerOfCall' /\ StatsAnswer' /\ EventsAnswer'
    BY <2>1 DEF AnswerOfCall, StatsAnswer, EventsAnswer, None
  <2> QED
    BY <1>1, <1>2, <2>2, <2>3 DEF Inv
<1>5. CASE Serve
  <2>1. UNCHANGED <<pc, failures>>
    BY <1>5 DEF Serve
  <2>n. /\ generation \in 0 .. latest /\ latest \in Nat /\ remembered \in 0 .. latest
        /\ lo \in 0 .. MaxEvents
    BY <1>i, CursorAssumption DEF TypeOK
  <2>2. CASE generation = 0
    <3>1. answer' = Error
      BY <1>5, <2>2 DEF Serve
    <3>2. TypeOK'
      BY <1>i, <1>u, <2>1, <3>1 DEF TypeOK
    <3>3. AnswerOfCall' /\ StatsAnswer' /\ EventsAnswer'
      BY <3>1 DEF AnswerOfCall, StatsAnswer, EventsAnswer, Error
    <3> QED
      BY <1>1, <1>2, <3>2, <3>3 DEF Inv
  <2>3. CASE generation # 0 /\ pc = "stats"
    <3>1. answer' = [kind |-> "stats", generation |-> generation, min_offset |-> lo]
      BY <1>5, <2>3 DEF Serve, Stats
    <3>2. generation = latest
      BY <1>i, <2>3 DEF RoomIsLatest
    <3>3. answer' \in StatsAnswers'
      BY <1>u, <2>n, <2>3, <3>1 DEF StatsAnswers
    <3>4. TypeOK'
      BY <1>i, <1>u, <2>1, <3>3 DEF TypeOK, StatsAnswers
    <3>5. AnswerOfCall' /\ EventsAnswer'
      BY <2>1, <2>3, <3>1 DEF AnswerOfCall, EventsAnswer
    <3>6. StatsAnswer'
      BY <1>i, <1>u, <2>n, <3>1, <3>2 DEF StatsAnswer, TypeOK
    <3> QED
      BY <1>1, <1>2, <3>4, <3>5, <3>6 DEF Inv
  <2>4. CASE generation # 0 /\ pc # "stats"
    <3>1. answer' = Consume(cursor) /\ pc = "consume"
      BY <1>5, <2>4 DEF Serve
    <3>2. generation = latest
      BY <1>i, <2>4 DEF RoomIsLatest
    <3>3. /\ answer' \in EventsAnswers
          /\ answer'.kind = "events"
          /\ answer'.generation = generation
          /\ cursor <= answer'.first
          /\ answer'.first <= cursor \/ answer'.first <= lo
          /\ answer'.end <= hi \/ answer'.end = answer'.first
      BY <1>i, <2>4, <3>1, ConsumeAnswer
    <3>4. TypeOK'
      BY <1>i, <1>u, <2>1, <3>3 DEF TypeOK, EventsAnswers
    <3>5. AnswerOfCall' /\ StatsAnswer'
      BY <2>1, <3>1, <3>3 DEF AnswerOfCall, StatsAnswer
    <3>6. EventsAnswer'
      BY <1>u, <2>n, <3>2, <3>3 DEF EventsAnswer
    <3> QED
      BY <1>1, <1>2, <3>4, <3>5, <3>6 DEF Inv
  <2> QED
    BY <2>2, <2>3, <2>4
<1> QED
  BY <1>3, <1>4, <1>5

(* The consumer learns the generation of the room, and rewinds when it is  *)
(* another than the one it knew.                                           *)
LEMMA ReturnStatsStep ==
    ASSUME Inv, ReturnStats
    PROVE  Inv'
<1>i. /\ TypeOK /\ AnswerOfCall /\ RoomIsLatest /\ StatsAnswer /\ EventsAnswer
      /\ CursorInRoom /\ LogBehindCursor /\ NothingSkipped /\ RedeliveredOnce
  BY DEF Inv
<1>1. /\ remembered' = answer.generation
      /\ cursor' = IF answer.generation # remembered THEN answer.min_offset ELSE cursor
      /\ pc' = "consume" /\ answer' = None
      /\ UNCHANGED <<generation, latest, lo, hi, log, again, failures>>
  BY DEF ReturnStats, room
<1>2. /\ answer.kind = "stats"
      /\ answer.generation \in 1 .. latest /\ answer.min_offset \in 0 .. MaxEvents
      /\ remembered <= answer.generation
      /\ answer.generation = generation => answer.min_offset <= lo
      /\ \A d \in log : d[1][1] <= answer.generation
  BY <1>i, AnswerForms DEF ReturnStats, StatsAnswer, StatsAnswers
<1>n. /\ generation \in Nat /\ latest \in Nat /\ lo \in Nat /\ hi \in Nat /\ lo <= hi
      /\ cursor \in 0 .. MaxEvents /\ remembered \in Nat /\ MaxEvents \in Nat
  BY <1>i, CursorAssumption DEF TypeOK
<1>3. TypeOK'
  BY <1>i, <1>1, <1>2, <1>n DEF TypeOK
<1>4. AnswerOfCall' /\ StatsAnswer' /\ EventsAnswer'
  BY <1>1 DEF AnswerOfCall, StatsAnswer, EventsAnswer, None
<1>5. RoomIsLatest' /\ RedeliveredOnce'
  BY <1>i, <1>1 DEF RoomIsLatest, RedeliveredOnce
<1>6. CursorInRoom'
  BY <1>i, <1>1, <1>2, <1>n DEF CursorInRoom
<1>7. LogBehindCursor'
  <2> SUFFICES ASSUME NEW d \in log
               PROVE  /\ d[2] <= answer.generation
                      /\ d[2] = answer.generation => d[1][2] < cursor'
                      /\ d[2] <= d[1][1]
                      /\ d[1][1] <= answer.generation
    BY <1>i, <1>1 DEF LogBehindCursor
  <2>1. d[1][1] \in Nat /\ d[1][2] \in Nat /\ d[2] \in Nat
    BY <1>i DEF LogBehindCursor
  <2>2. d[2] <= remembered /\ (d[2] = remembered => d[1][2] < cursor) /\ d[2] <= d[1][1]
    BY <1>i DEF LogBehindCursor
  <2> QED
    BY <1>1, <1>2, <1>n, <2>1, <2>2
<1>8. NothingSkipped'
  <2> SUFFICES ASSUME answer.generation = generation, generation # 0,
                      NEW o \in lo .. hi - 1, o < cursor'
               PROVE  Seen(<<generation, o>>)
    BY <1>1 DEF NothingSkipped, Seen
  <2>1. answer.generation = remembered /\ cursor' = cursor
    BY <1>1, <1>2, <1>n
  <2> QED
    BY <1>i, <2>1 DEF NothingSkipped
<1> QED
  BY <1>3, <1>4, <1>5, <1>6, <1>7, <1>8 DEF Inv

(* The consumer takes delivery of events and moves its cursor behind them. *)
LEMMA ReturnConsumeStep ==
    ASSUME Inv, ReturnConsume
    PROVE  Inv'
<1>i. /\ TypeOK /\ AnswerOfCall /\ RoomIsLatest /\ StatsAnswer /\ EventsAnswer
      /\ CursorInRoom /\ LogBehindCursor /\ NothingSkipped /\ RedeliveredOnce
  BY DEF Inv
<1> DEFINE g  == answer.generation
           New == Delivery(answer)
<1>1. /\ log' = log \cup New
      /\ again' = again \cup (log \cap New)
      /\ cursor' = IF answer.end > answer.first THEN answer.end ELSE cursor
      /\ pc' = "ready" /\ answer' = None
      /\ UNCHANGED <<generation, latest, lo, hi, remembered, failures>>
  BY DEF ReturnConsume, room
<1>2. /\ answer.kind = "events" /\ pc = "consume"
      /\ g \in 1 .. latest
      /\ answer.first \in 0 .. MaxEvents /\ answer.end \in answer.first .. MaxEvents
      /\ remembered <= g
      /\ cursor <= answer.first
      /\ g = generation => /\ answer.first <= cursor \/ answer.first <= lo
                           /\ answer.end <= hi \/ answer.end = answer.first
  <2>1. answer.kind = "events" /\ pc = "consume"
    BY <1>i DEF ReturnConsume, AnswerOfCall
  <2>2. answer \in EventsAnswers
    BY <1>i, <2>1, AnswerForms
  <2>3. answer.end \in answer.first .. MaxEvents
    BY <2>2, CursorAssumption DEF EventsAnswers
  <2>4. g \in 1 .. latest /\ answer.first \in 0 .. MaxEvents
    BY <2>2 DEF EventsAnswers
  <2> QED
    BY <1>i, <2>1, <2>3, <2>4 DEF EventsAnswer
<1>n. /\ generation \in 0 .. latest /\ latest \in Nat /\ lo \in Nat /\ hi \in Nat /\ lo <= hi
      /\ cursor \in 0 .. MaxEvents /\ remembered \in 0 .. latest /\ MaxEvents \in Nat
  BY <1>i, CursorAssumption DEF TypeOK
<1>3. /\ cursor' \in 0 .. MaxEvents /\ cursor <= cursor'
      /\ answer.end > answer.first => cursor' = answer.end
  BY <1>1, <1>2, <1>n
<1>4. \A d \in New : \E o \in answer.first .. answer.end - 1 : d = <<<<g, o>>, remembered>>
  BY DEF Delivery
<1>5. ASSUME NEW d \in New
      PROVE  /\ d \in (Nat \X Nat) \X Nat
             /\ d[1][1] = g /\ d[2] = remembered
             /\ d[1][2] \in cursor .. cursor' - 1
             /\ d[1][2] \in 0 .. MaxEvents - 1
  <2>1. PICK o \in answer.first .. answer.end - 1 : d = <<<<g, o>>, remembered>>
    BY <1>4
  <2>2. o \in Nat /\ o \in cursor .. cursor' - 1 /\ o \in 0 .. MaxEvents - 1
    <3>1. /\ answer.first \in Nat /\ answer.end \in Nat /\ answer.end <= MaxEvents
          /\ cursor \in Nat /\ cursor <= answer.first
      BY <1>2, <1>n
    <3>2. answer.end > answer.first
      BY <3>1
    <3>3. cursor' = answer.end
      BY <1>3, <3>2
    <3> QED
      BY <1>n, <3>1, <3>3
  <2>3. g \in Nat /\ remembered \in Nat
    BY <1>2, <1>n
  <2> QED
    BY <2>1, <2>2, <2>3
<1>6. ASSUME NEW d \in log
      PROVE  /\ d \in (Nat \X Nat) \X Nat
             /\ d[1][1] \in Nat /\ d[1][2] \in Nat /\ d[2] \in Nat
             /\ d[2] <= remembered
             /\ d[2] = remembered => d[1][2] < cursor
             /\ d[2] <= d[1][1]
             /\ d[1][1] <= remembered
  BY <1>i, <1>2 DEF LogBehindCursor
<1> HIDE DEF New
<1>7. log \cap New = {}
  <2> SUFFICES ASSUME NEW d \in log, d \in New
               PROVE  FALSE
    OBVIOUS
  <2>1. d[2] = remembered /\ d[1][2] \in cursor .. cursor' - 1
    BY <1>5
  <2>2. d[1][2] < cursor
    BY <1>6, <2>1
  <2> QED
    BY <1>n, <1>3, <2>1, <2>2
<1>8. TypeOK'
  <2>1. \A d \in log' : /\ d[1][1] \in 1 .. latest
                        /\ d[1][2] \in 0 .. MaxEvents - 1
                        /\ d[2] \in 0 .. latest
    <3>1. \A d \in log : /\ d[1][1] \in 1 .. latest
                         /\ d[1][2] \in 0 .. MaxEvents - 1
                         /\ d[2] \in 0 .. latest
      BY <1>i DEF TypeOK
    <3> QED
      BY <1>1, <1>2, <1>5, <1>n, <3>1
  <2>2. again' \subseteq log'
    BY <1>i, <1>1 DEF TypeOK
  <2> QED
    BY <1>i, <1>1, <1>3, <2>1, <2>2 DEF TypeOK
<1>9. AnswerOfCall' /\ StatsAnswer' /\ EventsAnswer' /\ RoomIsLatest'
  BY <1>i, <1>1 DEF AnswerOfCall, StatsAnswer, EventsAnswer, RoomIsLatest, None
<1>10. CursorInRoom'
  <2> SUFFICES ASSUME remembered = generation, generation # 0
               PROVE  cursor' <= hi
    BY <1>1 DEF CursorInRoom
  <2>1. g = generation
    BY <1>i, <1>2, <1>n DEF RoomIsLatest
  <2> QED
    BY <1>i, <1>1, <1>2, <1>n, <2>1 DEF CursorInRoom
<1>11. LogBehindCursor'
  <2> SUFFICES ASSUME NEW d \in log'
               PROVE  /\ d \in (Nat \X Nat) \X Nat
                      /\ d[2] <= remembered
                      /\ d[2] = remembered => d[1][2] < cursor'
                      /\ d[2] <= d[1][1]
    BY <1>1 DEF LogBehindCursor
  <2>1. CASE d \in log
    BY <1>3, <1>6, <1>n, <2>1
  <2>2. CASE d \in New
    BY <1>2, <1>3, <1>5, <1>n, <2>2
  <2> QED
    BY <1>1, <2>1, <2>2
<1>12. NothingSkipped'
  <2> SUFFICES ASSUME remembered = generation, generation # 0,
                      NEW o \in lo .. hi - 1, o < cursor'
               PROVE  \E d \in log' : d[1] = <<generation, o>>
    BY <1>1 DEF NothingSkipped, Seen
  <2>1. g = generation
    BY <1>i, <1>2, <1>n DEF RoomIsLatest
  <2>2. CASE o < cursor
    BY <1>i, <1>1, <2>2 DEF NothingSkipped, Seen
  <2>3. CASE o >= cursor
    <3>1. o \in answer.first .. answer.end - 1
      BY <1>1, <1>2, <1>n, <2>1, <2>3
    <3>2. <<<<g, o>>, remembered>> \in New
      BY <3>1 DEF New, Delivery
    <3> QED
      BY <1>1, <2>1, <3>2
  <2> QED
    BY <1>n, <2>2, <2>3
<1>13. RedeliveredOnce'
  <2>1. again' = {}
    BY <1>i, <1>1, <1>7 DEF RedeliveredOnce
  <2>2. \A d \in log' : d[2] <= d[1][1]
    BY <1>11 DEF LogBehindCursor
  <2>3. ASSUME NEW d \in log', NEW e \in log',
               d[1] = e[1], d[2] < d[1][1], e[2] < e[1][1]
        PROVE  d = e
    <3>1. d \in (Nat \X Nat) \X Nat /\ e \in (Nat \X Nat) \X Nat
      BY <1>11 DEF LogBehindCursor
    <3>2. CASE d \in log /\ e \in log
      BY <1>i, <2>3, <3>2 DEF RedeliveredOnce
    <3>3. CASE d \in New /\ e \in New
      <4>1. d[2] = e[2]
        BY <1>5, <3>3
      <4> QED
        BY <2>3, <3>1, <4>1
    <3>4. CASE d \in log /\ e \in New
      BY <1>2, <1>5, <1>6, <1>n, <2>3, <3>4
    <3>5. CASE d \in New /\ e \in log
      BY <1>2, <1>5, <1>6, <1>n, <2>3, <3>5
    <3> QED
      BY <1>1, <3>2, <3>3, <3>4, <3>5
  <2> QED
    BY <2>1, <2>2, <2>3 DEF RedeliveredOnce
<1> QED
  BY <1>8, <1>9, <1>10, <1>11, <1>12, <1>13 DEF Inv

-----------------------------------------------------------------------------
(* The theorems *)

(* Inv holds of every behaviour. *)
LEMMA InvInvariant == Spec => []Inv
<1>1. Init => Inv
  <2> SUFFICES ASSUME Init
               PROVE  Inv
    OBVIOUS
  <2>1. TypeOK
    BY CursorAssumption DEF Init, TypeOK
  <2>2. AnswerOfCall /\ RoomIsLatest /\ StatsAnswer /\ EventsAnswer
    BY DEF Init, AnswerOfCall, RoomIsLatest, StatsAnswer, EventsAnswer, None
  <2>3. CursorInRoom /\ LogBehindCursor /\ NothingSkipped /\ RedeliveredOnce
    BY DEF Init, CursorInRoom, LogBehindCursor, NothingSkipped, RedeliveredOnce
  <2> QED
    BY <2>1, <2>2, <2>3 DEF Inv
<1>2. Inv /\ [Next]_vars => Inv'
  <2> SUFFICES ASSUME Inv, [Next]_vars
               PROVE  Inv'
    OBVIOUS
  <2>1. CASE Publish \/ Wipe \/ Trim
    BY <2>1, RoomStep
  <2>2. CASE AskStats \/ Serve \/ ReturnError
    BY <2>2, CallStep
  <2>3. CASE ReturnStats
    BY <2>3, ReturnStatsStep
  <2>4. CASE ReturnConsume
    BY <2>4, ReturnConsumeStep
  <2>5. CASE UNCHANGED vars
    BY <2>5 DEF vars, Inv, TypeOK, AnswerOfCall, RoomIsLatest, StatsAnswer, EventsAnswer,
                CursorInRoom, LogBehindCursor, NothingSkipped, RedeliveredOnce, Seen
  <2> QED
    BY <2>1, <2>2, <2>3, <2>4, <2>5 DEF Next
<1> QED
  BY <1>1, <1>2, PTL DEF Spec

(* Every reachable state is well typed: Consume returns no more than the   *)
(* limit, and the cursor stays within what a room can hold.                *)
THEOREM CursorTypeCorrect == Spec => []TypeOK
<1>1. Inv => TypeOK
  BY DEF Inv
<1> QED
  BY <1>1, InvInvariant, PTL

(* The recipe is safe for any limit, any number of wipes and wherever they *)
(* fall between its calls: a consumer that knows the room's generation has *)
(* got everything before its cursor (types.go 43-48, stream.go 82-134).    *)
THEOREM CursorSkipsNothing == Spec => []NothingSkipped
<1>1. Inv => NothingSkipped
  BY DEF Inv
<1> QED
  BY <1>1, InvInvariant, PTL

(* The price of that is one early delivery of an event at most, when the   *)
(* room was wiped between Stats and Consume.                               *)
THEOREM CursorRedeliversOnce == Spec => []RedeliveredOnce
<1>1. Inv => RedeliveredOnce
  BY DEF Inv
<1> QED
  BY <1>1, InvInvariant, PTL
=============================================================================
