# Synap Go SDK: specifications

TLA+ models of the Synap Go SDK, the client library for the Synap server. They
cover what the SDK does between a method call and the network: sharing a
connection among goroutines, reconnecting and retrying, delivering pushed
events, following a stream room, scoping transactions, and mapping commands and
replies. The server,
Thunder (the RPC library under the `synap://` transport), `encoding/json` and
the network are external; they are modelled from how the SDK uses them.

## The system

| Component | State | Operations | Interacts with | What is hard |
|---|---|---|---|---|
| RESP3 transport (`transport_resp3.go`) | one connection and its reader, a mutex | `Execute`, `Close` | every module through `sendRESP3` | replies have no request id; timeouts, broken connections; a retry of what may have been done |
| SynapRPC transport (`transport_rpc.go`) | one Thunder client, a mutex | `ensureConnected`, `Execute`, `Close` | every module through `sendRPC` | the client is checked under the mutex and used outside it; concurrent redial |
| Push subscriptions (`Watch`, `Observe`, `WatchPush`, `SubscribePush`) | a dedicated connection, a hook, a bounded channel, a `sync.Once` | open, hook, `stop`, context cancellation | Thunder's reader, the consumer, the server | frames before the acknowledgement, a full channel, close against send, stop from several goroutines |
| Transactions (`transaction.go`) | a copy of the client with a client id; the server's queue | `Begin`, `Multi`, `Watch`, `Unwatch`, `Exec`, `Discard`, the modules' methods | a transport, the server, the client it was copied from | interleaving with the plain client, late or repeated requests |
| Command and response mapping (`client.go`, `payload.go`, `response.go`) | none | `mapCommandToWire`, `mapResponseFromWire`, `payloadToMap`, `Decode` | all modules and all transports | three transports must agree; values that are not UTF-8; names agreed by spelling |
| KV, hash, list, set modules | none | the methods | the mapping | results depend on the transport |
| Queue and pub/sub request modules | none | the methods | the mapping | byte payloads with a different form on each wire, a reply that does not decode, options the native wires have no place for, ids the server makes up |
| Stream module | none; its consumer keeps a cursor and a generation | the methods | the mapping, the consumer | a room wiped between `Stats` and `Consume`, a lost reply |
| HTTP transport (`sendHTTP`) | none | one POST per command | `net/http` | nothing kept between requests |
| Configuration, authentication, errors | written once | builders | constructors | - |

What makes them correct: a caller gets the answer to its own command; nothing
is executed more often than promised; no connection leaks; every call returns;
events arrive in order, and are lost only where the channel is full; a stream
consumer skips no event of a room that was wiped and came back; stopping is safe, complete
and never blocks; a transaction applies what its `Exec` says and nothing of it
escapes; a method does the same on every transport.

## Modules

| Module | Models |
|---|---|
| `CallService` | Abstract: what a transport promises. A call is answered once; an answer that tells of an execution (`Telling`) is given only for a command the server executed; a command is executed at most `MaxExecutions` times, perhaps after the caller was answered. |
| `Resp3Transport`, `MCResp3` | `Resp3Transport.Execute`, `readResponse`, `Close`. |
| `Resp3Proofs`, `RpcProofs`, `PushProofs`, `TransactionProofs`, `StreamProofs` | Theorems about `Resp3Transport`, `RpcTransport`, `PushSubscription`, `Transaction` and `StreamCursor`. |
| `MappingProofs` | Lemmas about the operators of `Encoding` and `DataMapping`. |
| `WireProofs`, `WireTypeProofs` | Theorems about `WireMapping`: the refinement of `DataService`, and the types of the server's data. |
| `RpcTransport` | `SynapRpcTransport.ensureConnected`, `Execute`, `Close`. |
| `PushSubscription` | `KVStore.Watch` over `WatchPush`, `PubSubManager.Observe` over `SubscribePush`. |
| `Transaction`, `MCTransaction` | `TransactionManager`, `Tx`, and the TXQUEUE part of `mapCommandToWire`, over a transport with `CallService`'s promises. |
| `BrokerMethods`, `DataService` | Abstract: what the methods of all modules do and return, from their comments; `BrokerMethods` has queue, stream and pub/sub. |
| `Encoding` | `encoding/json`, `payloadToMap`, SynapRPC's `toWire`/`fromWire`, the accessors of `mapCommandToWire`, `Decode` and `assign`. |
| `DataMapping`, `BrokerMapping` | For KV, hash, list, set and for queue, stream, pub/sub: payload structs, `mapCommandToWire`, `mapResponseFromWire`, result structs, and the server's understanding of commands. |
| `WireMapping`, `MCWire` | A method call's way to the server and back over the three transports; composes the two mappings and is shown to implement `DataService`. |
| `StreamCursor` | A consumer that follows a stream room with `Stats` and `Consume`. |
| `Values` | The tagged values that `DataService` and the mappings speak about. |

### Resp3Transport

Each call of `Execute` is a process; `pc[k]` is where it is, `attempt[k]` the
loop variable, `mu` the mutex, `conn` the field `t.conn` (`t.reader` lives and
dies with it). A connection has a status, a queue of requests and a queue of
replies. `Connect`/`ConnectFails`, `Write`/`WriteFails` and `Read`/`ReadFails`
are the two outcomes of the three network operations; a failure drops the
connection and goes through `RetryOrFail`, the `if attempt == 0 { continue }`
of the code. `Finish` includes the deferred unlock. A `Write` on a connection
that broke unnoticed succeeds and goes nowhere; a `WriteFails` leaves a partial
frame, which the server never executes.

A reply has a shape: a scalar, an error, or an aggregate of those. `LeftOver`
is what `readResponse` leaves unread: it returns at the first element of an
aggregate that is an error. `WellFramed` says that the server sends no shape
that leaves something unread; the passing runs and four of the theorems assume
it, the run `resp3_framing` shows what happens without it.

`Serve` executes requests in the order of a connection, also after it is gone.
`Sever` breaks a connection and loses requests, replies, both or neither.

### RpcTransport

`ensureConnected` is `Lock`, then `Reuse` or `Discard` followed by `Dial` or
`DialFails`, under the mutex; `Send`, `CallFails` and `Receive` are
`thunder.Client.Call`, outside it, on the client in `using[k]`. Thunder pairs
replies with calls by frame id, so a reply names its call. `Lose` and `Restore`
are Thunder's connection breaking and being restored by Thunder itself. Thunder
is taken not to send a call twice.

`Execute` wraps every failure in `newServerError`: a dial that fails, a
connection lost, a timeout, and an error the server replied with. A caller
cannot tell them apart, so they are one answer here, `"svrerr"`, and only a
value tells of an execution (`Telling` is `{"value"}`; over RESP3, which keeps
server errors and transport errors apart, it is `{"value", "svrerr"}`).

### PushSubscription

`phase` follows `Watch` or `Observe` to the point where they return; `reader`
is the event whose hook is running; `at[g]` is where a goroutine is in
`shutdown`. `Unwatches` chooses between a watch, whose teardown sends
`KV.UNWATCH` when the acknowledgement carried an id, and an observation.
`Garbled` events are those whose frame the hook cannot decode.

The code relies on Thunder's `Close` not returning while its reader is inside
the hook: otherwise `close(out)` can meet a send. `JoinsReader` names that
assumption; with `JoinsReader = FALSE`, `NoPanic` is violated. Nothing in this
repository establishes it.

### Transaction

A client object is the plain client or the copy a `Tx` owns; `txClientID[c]` is
the id its commands carry. `Issue` maps the command (direct, TXQUEUE, control,
or refused with `UnsupportedCommand`); `Run` executes it on the server up to
`MaxExecutions` times; `Return` gives the reply, `Fail` a transport error. A
request not yet executed as often as it was sent when its call ends may stay
behind in `stray`, copy by copy, and be executed later. `acked`, `guarded` and
`conflicts` record what callers were told, `begun` and `ended` count the calls
of `Multi` and the calls of `Exec` and `Discard` that returned without an error.
`OutcomeIsTrue` reads the server's log: after a success the transaction's
commands stand in it as one block with nobody else's in between, and are the
results. `OutcomeIsFinal` is about the callers: no more calls are told that
they ended a transaction than `Multi` was called, and after the last of these no
write is told that it was queued. The server's transaction table follows
MULTI/EXEC: writes are queued while the transaction is open, WATCH and UNWATCH
work before MULTI, EXEC of a transaction with a changed watched key replies
null.

Any method may be called on a `Tx` at any time and any number of times; the code
keeps nobody from it. `OutcomeIsTrue` and `ConflictAborts` speak about a `Tx`
on which `Multi` was called at most once (`SingleUse`), with `Exec`, `Discard`
and the others repeated at will: a second `Multi` makes another transaction
under the same id, and the server cannot tell a late request of the one from a
request of the other. Without `SingleUse` `OutcomeIsTrue` does not hold: two
MULTIs and an EXEC are given up and stay in flight; one late MULTI is executed
and `Discard` is acknowledged; then a write is issued, the other late MULTI
opens the transaction again, the write is queued and the late EXEC applies it,
although the last outcome reported is "discarded".
`OutcomeIsFinal` needs no such restriction.

### WireMapping

A call is one step of four translations: the method's payload struct
(`kvPayload` ... `pubsubPayload`), its encoding (`payloadToMap`, or
`throughJson` for RESP3 and HTTP), `mapCommandToWire`, and back
`mapResponseFromWire`, `Decode` and the result struct. The server understands
wire commands and HTTP envelopes as methods, executes them as `DataService`
says, and may use any form of reply the code accepts: Booleans or integers,
flat arrays or maps, a single element or an array. The modules share no data,
so a behaviour is a session with one of them (`session`): the transports in use
and the methods called over each.

`Encoding` keeps of a conversion what it does to a value. JSON turns a string
that is not UTF-8 into U+FFFD; SynapRPC sends it as bytes and gets it back;
what is not a string is printed with `%v` where the map wants text, and a
printed object is not the object any more (`Fmt`); `assign` accepts a value
only for a field of its kind, with a string for `[]byte` taken as base64.
`toWire`, `fromWire` and `assign` call themselves in the code. In the model they
have one operator per level (`Recode1` ... `Recode`, `assign1` ... `assign`):
four levels of values and three of types are what the structs of the SDK reach,
and the prover cannot use recursive operators.

The server is external. Beside the reply forms these choices of it matter:

- `Resp3Bytes`: a payload of bytes comes back over RESP3 as an array of
  `"numbers"` or as a bulk string, `"text"`. Nothing in this repository settles
  it. The passing run assumes numbers; `wire_queue` has text.
- `Generated`: `mapCommandToWire` sends SUBSCRIBE without the caller's
  subscriber id, so the server makes one up and the method returns it. The
  promise is that the caller's id is registered (`pubsub.go:34`); over HTTP it
  is. The native transports break it (`wire_arguments`), and the passing
  run has clients that subscribe over HTTP only, while native clients publish,
  unsubscribe and list topics beside them.
- `LPush` puts its values in front of the list in the order given, as the
  example of the SDK's README has it (lines 289-292: after `LPush` of a and b,
  `LPop` returns a). Nothing else in this repository settles the order; Redis,
  whose command names the server uses, has the opposite one.
- A queue hands out the oldest message of the highest priority and keeps it
  pending until it is acknowledged; a negative acknowledgement puts it back. A
  room that is created anew has a new generation and offsets from 0.
- `kv.stats` has no native command. Over HTTP it works, over the native
  transports the call is refused with `UnsupportedCommand`.

Left out are acknowledgement deadlines, dead letters, retention by size and
topic wildcards, which are all the server's, and the names of queues, rooms and
consumers: every method works on one.

### StreamCursor

The README of the SDK shows how to follow a room: call `Stats`; when the
generation differs from the remembered one, rewind the cursor; call `Consume`
from the cursor; repeat. `AskStats`, `ReturnStats` and `ReturnConsume` are the
steps of that loop, `Serve` the server's handling of the call under way, and
`ReturnError` a call that fails, before or after the server has handled it. The
room is an interval of offsets with a generation; `Publish`, `Wipe` (a delete,
or a restart of the server) and `Trim` (retention) happen at any moment, so
also between `Stats` and `Consume`. An event is its generation and offset; the
consumer does not see the generation of the events it gets. `log` keeps with
each delivery the generation the consumer remembered at that time.

## Runs

Passing:

| Run | Bounds | Distinct states | Shows |
|---|---|---|---|
| `resp3` | 3 calls, 3 connections | 327,631 | `ReplyIsOwn`, `QuietWhenFree`, `NoLeakedSocket`, `ExecutedAsAnswered`, `EveryCallReturns`, and that the transport implements `CallService` with two executions |
| `rpc` | 3 calls, one of them never answered, 3 clients | 140,037 | `NoLeakedClient`, `AtMostOnce`, `PromptCallsReturn`, `CallService` with one execution |
| `push` | capacity 2, 4 events, one garbled, 2 stoppers and the context | 19,840 | `NoPanic`, `NoEventMissed`, `InOrderUpToDrops`, `StopMeansEnded`, `FailureLeavesNoConn`, `StopReturns`, `CancelEnds` |
| `transaction` | one `Tx` with 4 commands of any kind, one command beside it, one key | 471,445 | `ScopesAreSeparate`, `OutcomeIsTrue`, `ConflictAborts`, `OutcomeIsFinal` |
| `wire` | text and default options over three transports, subscriptions, options and objects over HTTP, values that are not UTF-8 over SynapRPC; lists, queue and room of 2, counter within 2 | 4,688 | `ImplementsDataService` up to the two hash results of `wire_hash` |
| `stream` | limit 2, 3 events a room, 3 rooms, one failed call | 280,311 | `NothingSkipped`, `RedeliveredOnce`, `EveryEventArrives` |

Violations, each a statement of a comment that the code does not keep:

| Run | Statement | What happens |
|---|---|---|
| `resp3_framing` | `transport_resp3.go:321` "the connection is still healthy" | an error inside an array leaves the rest of the array for the next caller |
| `resp3_retry` | `kv.go:88` "by one" | a lost reply makes the transport send INCR again |
| `push_loss` | `pubsub.go:103` "the channel is closed when it ends" | a lost connection leaves the channel open |
| `wire_hash` | `hash.go:13`, `hash.go:78` | `created`/`removed` are sent up, `success`/`deleted` are read |
| `wire_queue` | `queue.go:75` "Returns nil, nil when the queue is empty" | over RESP3, with payloads as bulk strings, a delivered message does not decode and `Consume` says there is none |
| `wire_arguments` | `kv.go:14`, `queue.go:13`, `stream.go:57`, `pubsub.go:34` "registers subscriberID" with `README.md:258-264` | over the native transports a lifetime below a second is cut to 0, which means none; queue and stream options and message priorities are not sent; data that are no strings arrive as Go prints them; the subscriber's id is not sent, the subscription exists under another one, and `Unsubscribe` with the caller's id leaves it |

The property of `wire_arguments` fails in each of its sessions. TLC reports the
first failure it meets, and the others when `OptionSessions` in `MCWire` is cut
to their module and calls.

Two more comments are not kept, as the models show without a run of their own.
`pubsub.go:132` says that a slow consumer "loses the oldest frames"; the hook's
`select` drops the newest (`RunHook` in `PushSubscription`). `transaction.go:48`
promises "one entry per queued command"; the retry of `resp3_retry` can queue a
TXQUEUE twice. For the same reason `transaction` runs with one execution per
request: with two, a MULTI executed late opens the transaction again after its
EXEC, an EXEC that aborted is repeated and commits, and neither `OutcomeIsTrue`
nor `ConflictAborts` holds.

Why the bounds are enough. RESP3: two calls suffice for one to find what
another left behind; the third meets what a retry left; a call dials at most
twice, and three connections let one call use up two while the others find an
old one or dial the third. RPC: three calls can find the client dead at once, and one dial per call
is all they can make. Push: a channel of two holds an older and a newer event
while a third is dropped and a fourth arrives later. Transactions: WATCH,
MULTI, a write and EXEC are the shortest transaction with a conflict, and the
client beside it makes the conflicting write; two calls of `Multi`, one given
up, and two ends fit in four as well. Wire: no method looks at more
than one element beyond the ends of a list; two messages can differ in priority
and be waiting and pending at once. Stream: three events with a limit of two
take two `Consume` calls, and let a new room be shorter than, as long as and
longer than the old cursor; with three rooms a wipe can hit before `Stats`,
between `Stats` and `Consume`, and both.

Deadlock is checked in the transports', the mapping's and the stream's runs. Subscriptions
and transactions end, so their runs do not check it; nobody is left waiting by
`StopReturns` and `CancelEnds`.

Fairness. RESP3: dials, writes and reads have deadlines (`DialTimeout`,
`SetDeadline`), so a caller that holds the mutex moves; Go's mutex is handed to
waiters in turn, and callers are finitely many. RPC: the same for the mutex and
the dial, and the call timeout ends calls; only calls in `Prompt` are assumed to
be answered or time out, which is weaker than the code's timeout for all. Push:
the scheduler runs the hook and the goroutines in `shutdown`, and `KV.UNWATCH`
has a timeout of two seconds; nothing is assumed of the consumer, the server or
the network. Stream: the consumer keeps calling, and a call that does not fail
is served and returns (transports bound a call by a timeout, and failures are
finitely many); nothing is assumed of publishers, wipes or retention.

Every property has a mutant of the code, defined beside the definition it
changes and named so, that violates it.

## Proofs

Each proof module holds for all values of the constants that satisfy the named
assumption of the module it is about (`ShapesAssumption`, `RpcAssumption`,
`PushAssumption`, `TransactionAssumption`, `CursorAssumption`, `WireAssumption`: the kinds of the
constants, and that "none" values are not members). What a theorem assumes
beyond that is written in it.

| Theorem | States | Assumes |
|---|---|---|
| `TypeCorrect`, `NoSocketLeaks` | `TypeOK`, `NoLeakedSocket` of RESP3 | |
| `RepliesAreOwn`, `ConnectionIsQuiet`, `AnswersMatchExecutions` | `ReplyIsOwn`, `QuietWhenFree`, `ExecutedAsAnswered` | `WellFramed` |
| `TransportImplementsCallService` | RESP3 implements `CallService` with two executions | `WellFramed` |
| `RpcTypeCorrect`, `NoClientLeaks`, `ExecutedAtMostOnce` | `TypeOK`, `NoLeakedClient`, `AtMostOnce` of SynapRPC | |
| `RpcImplementsCallService` | SynapRPC implements `CallService` with one execution | |
| `PushTypeCorrect`, `PushMissesNothing`, `PushFailsClean` | `TypeOK`, `NoEventMissed`, `FailureLeavesNoConn` | |
| `StopIsComplete`, `PushInOrder` | `StopMeansEnded`, `InOrderUpToDrops` | |
| `PushNeverPanics` | `NoPanic` | `JoinsReader` |
| `TransactionTypeCorrect`, `ScopesStaySeparate` | `TypeOK`, `ScopesAreSeparate` | |
| `OutcomesStayTrue`, `ConflictsAlwaysAbort` | `OutcomeIsTrue`, `ConflictAborts`: a `Tx` with one call of `Multi` | `MaxExecutions = 1` |
| `OutcomesAreFinal` | `OutcomeIsFinal`: any calls in any order | `MaxExecutions = 1` |
| `CursorTypeCorrect`, `CursorSkipsNothing`, `CursorRedeliversOnce` | `TypeOK`, `NothingSkipped`, `RedeliveredOnce` | |
| `DataServiceImplemented` | `ImplementsDataService`: KV, hash, list and set do and return what `DataService` says | sessions with these modules (`DataSession`), `hash.set` and `hash.del` in `Misreported` |
| `WireTypeCorrect` | `TypeOK` of `WireMapping`, for all modules | calls with arguments of their Go types (`CallsOf`) |

The assumptions are needed: `resp3_framing` is what happens without
`WellFramed`; without `JoinsReader` the hook can meet the closed channel; with
two executions a late MULTI opens a transaction again. `DataSession` asks for
what the code needs: strings that are UTF-8 unless every client of the session
is on SynapRPC, names of hash fields in UTF-8 always, lifetimes in whole seconds
(`wire_arguments` has half a second), `Stats` over HTTP only; and `wire_hash`
shows the two results that are excepted. The sessions of the run `wire` satisfy
`CallsOf`, and those with the four data modules satisfy `DataSession`.

**RESP3.** `Basic` ties the program counters to the mutex (only its owner is
inside), says that a caller that writes or reads has a connection, and that an
open socket is `t.conn`; with the type it is inductive alone and gives the
first two theorems. `Lines` says, for every attempt of every call, that it is
outstanding at most once among queued requests and executions; that a
connection is empty unless its owner is reading, when it carries at most that
caller's own request or reply; and that answers given are the caller's own.
`ReplyIsOwn` alone is not inductive: a stale reply in the queue of a connection
in use would violate it one step later, and excluding stale replies needs
`OneLinePerAttempt` and `QuietLines` over every failure path. There is one
lemma per action that disturbs `Lines`.

**SynapRPC.** `Shared` adds to the type who holds the mutex and that
`t.client` is the only client alive, with none at all while a caller dials:
without that last part a dial could overwrite a client that is still open. It
gives `NoClientLeaks`. `Flight` counts, for every call, its request in flight
and its executions; a reply, or a value that was returned, needs an execution. It gives `AtMostOnce` and the refinement, where `using[k]` may by
then be a client that someone else closed.

**Push.** `Opening` orders dial, hook, request and events: a frame is on the
wire only over a connection that is up and acknowledged, and by then the hook
is in place. `Teardown` has one goroutine inside the `sync.Once`, the
connection closed before the channel, and, with `JoinsReader`, no hook running
once the channel may be closed. `Lined` follows events from the wire through
the hook and the channel to the consumer. The property speaks about delivered
events only, and a gap in the wire would reach it later, so `NoGaps` covers the
whole way. A step that takes events off the way without accounting for them
(the loss of a connection, a channel closed under the hook) is harmless because
nothing follows the lost events: `UpToDate` ties what is published next to the
end of the way only while the server routes events.

**Transactions.** `Scoped` says that every request in sight is one its client
object can have issued, under its own id, and that scopes remember the control
commands they issued. It is inductive with `ScopesAreSeparate`, however often
requests are executed. `OutcomesStayTrue` and `ConflictsAlwaysAbort` rest on
`OpenedOnce`: when a request is executed once and `Multi` was called once, a
MULTI that was used up is not repeated, so a transaction that was closed
(`Finished`) stays closed and its part of the log never changes again. `Reported` then says that until a transaction is finished
nothing of it is applied and every acknowledged write is in its queue, and that
a reply is true when given and stays true while it travels and once reported;
`OutcomeIsTrue` alone says nothing of replies that are still on their way.
`Watched` follows a conflict: an acknowledged watch is in the server's table, a
write that was executed has marked the scopes it forbids to commit, and the
mark stays until the transaction is finished.

`OutcomesAreFinal` holds for any use of a `Tx`, so it cannot rest on
`OpenedOnce`; a transaction may be opened again. It is a count: an open
transaction, an end that was replied and not yet reported, a MULTI under way and
not executed, every MULTI left in flight, and every end reported so far, each
have a call of `Multi` of their own (`Budget`). An execution or a return moves
a unit from one of these to another or drops it, and only `Multi` adds one. When
as many ends were reported as `Multi` was called nothing else is left: no
transaction is open, nobody will open one, and no end is on its way.
`EndsCounted` has with it that a write acknowledged as queued was acknowledged
before the last end, and that the requests in flight are finitely many.

**Stream.** The invariant relates the answer on its way to what the consumer
remembers. `NothingSkipped` alone breaks when an answer of `Consume` comes
from a room that was wiped since; what excludes it is that such an answer
carries an older generation than the room's. `CursorInRoom` is needed because a
cursor beyond the end of a known room would make a later event look passed.

**Mapping.** The lemmas of `MappingProofs` follow a value down: what
the encodings do to a string or a scalar (`LeafKept`), to a list or an object
of them (`FlatKept`), what the accessors read from a payload (`Carries`), and
that the server reads from the command, or from the HTTP envelope, the call that
was made (`DataCommand`, `DataEnvelope`). `WireProofs` follows the result back:
for every method, every form of reply the server may choose and every
transport, the method returns the result that was sent (`KvAnswers` ...
`SetHttp`). The hardest are `PairsReadBack` (a hash sent as a flat array is
the same hash again, for any order of its fields) and `DecodeField`, which
`Decode` owes to `assign` at every level. The steps of `WireMapping` then map
to steps of `DataService`, given `DataInv`: the data in the store are strings
that the session's transports carry, the hash and the set are finite, and a
key with a lifetime is there. The refinement alone is not inductive: a string
that is not UTF-8, once stored, would be read back changed over RESP3.

`WireTypeProofs` is about all seven modules, and about any string, also one that
a transport changes. A string stays a string in every encoding (`TextStays`), a
payload that is well typed makes a command the server can store
(`CommandStorable`, `MeaningTyped`, `EnvelopeTyped`), and every method keeps the
types of the store (`StoreTyped`). `TypeOK` is not inductive: `Nack` puts back
a message that is pending, of which `TypeOK` says nothing, and `Consume` takes
a message that `NextUp` chooses. That there is one to choose
(`SomeoneLeads`) is an induction over the length of the queue, carried out as a
least counterexample in a set of numbers (`LeastNumber`); so `TypedStore` has
the pending messages and the priorities as well.

Only model-checked: all liveness (`EveryCallReturns`, `PromptCallsReturn`,
`StopReturns`, `CancelEnds`, `EveryEventArrives`), which is beyond the prover,
and `ImplementsDataService` for queue, stream and pub/sub, whose replies nest
deeper and were not proved about. The inductive invariants of the transports,
the subscriptions, the transactions and the stream were also checked with TLC,
on the bounds of the passing runs.

## Not modelled

Time: a deadline is an operation that may fail at any moment; a caller that
waits for the RESP3 mutex beyond its own deadline, and cancellation of a context
inside RESP3's `Execute`, which the code does not look at, are not expressed.
The byte-level parsing of RESP3. HTTP transactions: the client id is added to
the payload, and what is queued is the server's decision. The reply to a
command that is queued, which the method decodes as if it were the command's
own: what the server replies is not settled here. URL parsing, builders,
credentials and headers: written once, before the client is used. Commands of
`mapCommandToWire` that no method sends. The interop command and the example:
sequential programs that call the SDK.

## Plan

1. Done: `CallService`, `Resp3Transport` and its proofs, `RpcTransport`,
   `PushSubscription`, `Transaction`, `DataService` and `WireMapping` for all
   modules, `StreamCursor`.
2. Done: the safety properties of the passing runs and both refinements of
   `CallService`, proved; the refinement of `DataService` proved for KV, hash,
   list and set.
3. The refinement of `DataService` for queue, stream and pub/sub, with lemmas
   about values that nest two deep beside `FlatKept`.
4. Cancellation of a caller that waits for the RESP3 mutex, with the proofs it
   touches.
