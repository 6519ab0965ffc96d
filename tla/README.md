# A TLA+ model of the A2A JavaScript SDK

This directory models the SDK from the executor's events to the client's calls:
how what an agent publishes reaches the callers that wait for it and the store
that keeps it, while sends, cancels and resubscriptions overlap; how tasks are
listed, and webhooks notified; how a stream crosses the network; how a client
negotiates, intercepts, retries and ends its calls; and how a message survives
its four encodings and the older protocol 0.3. The modules are checked with TLC
on small instances; event delivery, the write lock, the result manager, the push
sender, the paging of lists, the order and outcome of a stream, the client's calls
and much of the request handler are also proved with TLAPS for every value of their
constants.

Paths below are relative to the repository's `src/` (`server/store.ts` is
`src/src/server/store.ts` in `PROJECT.json`).

## 1. Inventory

### Components

| component | state it keeps | operations | what makes it correct |
|---|---|---|---|
| event bus `server/events/execution_event_bus.ts` | two maps of listeners | `publish`, `finished`, `on`, `off`, `removeAllListeners` | a listener gets every event published while it is on, and none after |
| bus manager `.../execution_event_bus_manager.ts` | `taskIdToBus` | create-or-get, get, cleanup | the table leads to the bus the executor publishes on, as long as it does |
| queue `.../execution_event_queue.ts` | buffer, `stopped`, `resolvePromise` | `handleEvent`, `stop`, the generator `events()` | no event lost, doubled or reordered; no sleeper and no listener left behind |
| write lock `server/result_manager.ts:27-55` | `taskWriteLocks`: key to the end of a promise chain | `serializeByScope` | exclusion per key, first come first served, entries evicted |
| result manager `server/result_manager.ts` | `currentTask`, `finalMessageResult`, `latestUserMessage` | `setContext`, `processEvent`, the getters | no update of a sibling is lost |
| task store `server/store.ts`, `utils.ts`, `owner_resolver.ts` | tenant -> owner -> id -> task | `load`, `save`, `list` | rows of one owner are seen by that owner only; pages add up to the list |
| request handler `server/request_handler/default_request_handler.ts` | none of its own: promises, generators and the objects above | `sendMessage`, `sendMessageStream`, `cancelTask`, `resubscribe`, `getTask`, `listTasks`, push configurations | every caller is answered, with a state that was stored; a final state stays; buses and queues are released |
| push notifications `server/push_notification/` | configurations per scope and task, a chain of sends per task | `save`, `load`, `delete`, `send` | in order, to the configurations registered; no webhook holds the chain |
| Express servers `server/express/` | one response each | the peek of a stream's first event, its loop, its error event | both ends agree on the outcome; the generator is finished |
| SSE `sse_utils.ts` | buffer, event type and data of the parser | format, parse | the events sent, whatever the chunks; nothing beyond the size limit |
| versions `version_utils.ts`, `server/version.ts` | none | comparison, the gate of a request | the client's choice is what the server admits |
| client `client/multitransport-client.ts`, `interceptors.ts`, `factory.ts` | the cached agent card | every method, `before` and `after` hooks | hooks mirror each other; streams are closed; calls end |
| authenticating `fetch` `client/auth-handler.ts` | the handler's credentials | one retry | a request is executed once; only accepted credentials are kept |
| client transports `client/transports/` | none | one call per method | the version negotiated; whole messages |
| generated codecs `types/pb`, `grpc/pb` | none | `encode`, `decode`, `toJSON`, `fromJSON` | a message is what was sent |
| protocol 0.3 `compat/v0_3/` | none | translators, converters, handlers, transports | a message keeps what 0.3 has a place for |
| agent cards, errors, signatures, samples | none | | not modelled |

### How they interact

A send creates or finds the task's bus, attaches a queue to it, and calls
`execute(requestContext, eventBus)` without awaiting it. `execute` publishes on
the bus, synchronously, to every queue attached. Each send (and a cancel that
finds a bus) drains its own queue through a result manager of its own: for each
event it awaits `processEvent`, which takes the write lock, loads the row, merges
and saves, and only then hands the event on, to the push sender and to the caller.
A resubscription drains a queue and forwards, storing nothing. When `execute`
settles, `_settleBus` either keeps the bus for a follow-up or closes it and drops
it from the table. A stream's events leave the handler's generator one at a time,
are encoded and framed, cut into chunks by the network and put together by the
client's parser, whose transport hands them to the hooks of the interceptors and
then to the application. Nothing runs in parallel on either side, but every
`await` is a point where the others go on.

### What is hard

Events are buffered in one place, folded in a second and tracked in a third, each
with its own idea of the task's latest state; store operations are awaited, so
everything read before one may be stale after; executors and hooks throw;
consumers leave; webhooks hang; a bus outlives its executor on purpose; a page's
cursor may be gone; a connection is cut in the middle of a line; four encoders
and two protocol versions treat an unset field each in its own way.
`PROJECT.json` lists each hazard at its line with the properties that watch it.

## 2. Modules

| module | models | built on |
|---|---|---|
| `A2AEvents` | events and task states, which events end a queue | |
| `EventBus` | bus, manager table and queues as operators on shared state | `A2AEvents` |
| `EventDelivery` | the bus driven by executions and consumers in general | `EventBus` |
| `TicketLock` | abstract: numbered tickets per key | |
| `TaskWriteLock` | `serializeByScope`; implements `TicketLock` | |
| `TaskMerge` | how an event is folded into a task, as pure operators | `A2AEvents` |
| `TaskRows` | abstract: rows that change by one folded event at a time | `TaskMerge` |
| `ResultManager` | result managers over the lock and the store; implements `TaskRows` | `TaskMerge`, `TaskWriteLock` |
| `RequestHandler` | the handler's methods, executors, bus, queues and store on one task | `EventBus`, `TaskMerge` |
| `TaskList` | `listTasks` and `list()` over a store that changes between pages | |
| `PushNotifications` | the configuration store and the sender | |
| `SseStream` | generator, Express response, network, SSE parser, transport loop | |
| `Negotiation` | which interface and version a client picks and a server admits | |
| `ClientCall` | calls of one client: hooks, streams, card, authenticating `fetch` | `Negotiation` |
| `WireSchema` | the presence rules of a field | |
| `GrpcMessages`, `JsonMessages`, `GrpcMessages03`, `JsonMessages03`, `GoogleMessages` | the fields of every generated message | `WireSchema` |
| `MessageCodec` | the encoders and decoders, and a relay of messages through them | `WireSchema` |
| `Translation` | tables of rows: a field, where it is taken from, and how | |
| `LegacyTranslate`, `LegacyToProto`, `LegacyFromProto` | the translators and converters of `compat/v0_3` as such tables | `Translation` |
| `LegacyRelay` | the relay with parties of protocol 0.3 | `MessageCodec` |
| `MC...` | instances for TLC: scripts, events, messages and contexts as definitions | |
| `EventBusProofs` | lemmas about the operators of `EventBus` | `EventBus` |
| `EventDeliveryProofs`, `ResultManagerProofs` (with the lock's), `RequestHandlerProofs`, `TaskListProofs`, `PushNotificationsProofs`, `SseStreamProofs`, `ClientCallProofs` | the theorems about each component; the second and third begin with the lemmas about `TaskMerge` that they need | its module, and `EventBusProofs` where it drives the bus |

Everything between two awaits is one action; every resumption is an action of its
own. `PROJECT.json` maps each definition to the lines it stands for. What the
environment does has no code of its own: a `StoreFails` is mapped to the awaits it
rejects, and a kind of row of `Translation` to one of the places where it occurs.

**Queues.** `queue[c].loop` is the point `events()` is suspended at: not pulled
yet (`attached`), awaiting `resolvePromise` (`parked`), resolved but not resumed
(`ready`), at the `yield` (`holding`), returned (`done`). `Pull` is one resumption
up to the next suspension, with the `break` after a final event. `SettleBus` is
`finished()` followed by `cleanupByTaskId`, which empties whatever bus the table
holds by then. `listeners[b]` stands for the pair of listeners a queue puts on.
`log`, `from` and `got` are history.

**Lock.** `tail[k]` is the map entry, `prev[c]` the promise a call is chained on.
`Evict` is the reaction `serializeByScope` registers on `next` before anyone can
chain on it, so it runs before the successor's function.

**Result manager.** A call's `Load` is the start of its locked function and reads
the row; its last step writes it and releases the lock. `SaveFails` covers a save
that rejects before and one that rejects after the row was written. Rows are keyed
by tenant, owner and id; the lock by tenant, user name and id.

**Request handler.** A request is identified with its user message and its queue.
`Method` is fixed in the initial state, so one run covers every combination of
modes. `pc[r]` names the await the handler is at; the executor's own progress is
`exec[r]` and `script[r]`, and `Settle` is the `.finally`. The write lock is the
condition that one request is `folding` or `repairing` (`ResultManager` and its
proofs show the lock gives that); the handler's own saves do not wait for it, as
in the code. Messages agents put in status updates and artifacts are left to
`ResultManager`; `RequestHandler` keeps user messages and a cancel's message in
the history. A bus is made once per table entry, from the set `Bus`.

**The executor** is external. `execute` is a script of events ended by a return or
a throw, `cancelTask` publishes CANCELED itself, tells `execute` to, or throws.
The scripts follow the repository's samples and tests: a task that completes,
asks for input, asks for authorisation and goes on, a bare message, a crash
before and after the first event, a task left working, an event after the final
one.

**Consumers that leave.** `Disconnect` returns a stream's generator at a yield.
That is what a caller of the handler does that breaks out of its loop, and what
`delegateAsyncIterator` forwards (`server/express/common.ts:29`); the bundled
Express and gRPC servers do not themselves watch for a closed connection, and in
`SseStream` go on writing to it.

**Lists.** A task is its id's place in the order, its timestamp, and whether the
filters accept it. A page reads the whole store in one step, as the in-memory
`list()` does; saves come between pages. The token is the timestamp and id of the
last task of a page, and `Following` looks for exactly that task. No two tasks of a
bucket are equal in the order, so `Sorted` puts each at the place that the number of
tasks before it says.

**Push notifications.** `send` copies the configurations at once (the in-memory
`load` is synchronous up to its resolution) and is chained when the load resolves,
in the order of the loads. A promise of the chain is named by its notification.
`Abort` is the timer, `Answered` a webhook that answers, well or not: the code
treats both alike. The stored configurations are `configs`; what ought to be
there, by the calls of create and delete alone, is the history `registered`.

**Streams.** The text on the wire is a sequence of symbols: field names, line
ends, pieces of a payload; sizes are counted in symbols. `Peek`, `WriteFirst` and
`PullNext` are the awaits of `sendStreamResponse` and its JSON-RPC twin. A script
of the generator is its events, each with a size and whether `toJSON` and
`JSON.stringify` take it, and its end. Frames come in three styles: this library's, with CRLF,
and pretty-printed over several `data:` lines after a comment. The history variable
`cut` tells a connection that the network closed from one that the client did.

**Client.** A call's record is its generator's or promise's state: which hooks have
passed, which are to run, the transport's stream, the attempts of `fetch`.
`Serve` is the agent: the version gate, then the credentials, then execution.
Hooks pass, return early or throw; the handler of credentials offers new ones for
a refused request, right or wrong, or none.

**Messages.** A message maps each field to its items; an item is `zero`, `some` or
a value that its type treats apart. Nested messages are items, and each kind is
relayed for itself. The tables give each field's number or JSON keys, type and
presence rule, one line for each of the generated functions' blocks; `encode`,
`decode`, `toJSON` and `fromJSON` are written once, over a table. A peer may order
fields as it likes, use the other spelling of a key, write defaults and nulls out,
send a field twice, and add fields of a later version.

**Protocol 0.3.** A translator is a set of rows: the field of the result, the field
it comes from, how (`copy`, `orZero` for `?? ''`, `nonEmpty` for `|| undefined`,
...), and what it throws without. `LegacyRelay` sends a message of 1.0 to a party
over JSON-RPC 0.3 (translate, translate back) or gRPC and REST 0.3 (translate,
`ToProto`, the codec, `FromProto`, translate back), and on.

**Faulty variants.** A definition whose name has a mark, such as
`Enqueue_Unshift`, is a plausible bug in the definition that follows it. Nothing
uses it; `PROJECT.json` pairs each property of each run with a variant that
breaks it there.

## 3. What the runs check

| run | instance | question | distinct states |
|---|---|---|---|
| `EventDelivery` | 2 executions, 2 consumers, 2 buses, 2 published events per bus and what a throw adds | delivery, wake-ups, final events | 925k |
| `TaskWriteLock` | 4 calls, 2 keys | exclusion, eviction, progress, refinement | 14k |
| `ResultManager` | 2 managers, 3 locked events of 4 kinds, messages and events without a task id, failures | lost updates, refinement | 1.5M |
| `RequestHandler_sends` | a send of any mode with 8 scripts, then a follow-up of any mode or beside it a resubscription, 2 failing store operations | answers, outcomes, hand-over and release of the bus | 291k |
| `RequestHandler_cancel` | a send and a cancel at any time; `cancelTask` may throw, 1 failure | answers, queues | 120k |
| `TaskList` | up to 3 tasks, 2 scopes, 2 saves, pages of 1 and 2 | pages, isolation | 179k |
| `PushNotifications` | 4 notifications, 2 scopes, 2 writes of configurations | recipients, order, chain | 96k |
| `SseStream` | 10 scripts of up to 3 events, 3 styles, chunks of up to 5 symbols, a limit of 3 | whole events, outcome, release | 24k |
| `ClientCall` | a stream of up to 2 events beside another call, 2 interceptors, 2 cards, `legacyCompat` enabled or not, 1 change of credentials | hooks, streams, retries, versions | 681k |
| `MessageCodec` | the 125 generated messages with up to 2 fields set | round trips, crossings of 0.3 | 29k |

`RequestHandler_hang` and `MessageCodec_append` find a property violated that a
comment of the repository states; section 6 describes them.

### The bounds, and why they suffice

- Two consumers and two executions: a queue's interaction is with its bus and with
  one other party that settles it; a third adds no new pair. Two buses: one closed,
  one current. The theorems of section 7 remove these bounds for `EventDelivery`.
- `MaxPublished` = 2 lets one event be yielded while another is buffered, and one
  be published after a final one.
- Four calls on two keys give chains of length three next to a second chain; the
  theorems remove the bound.
- Two events of one manager beside one of the other (`MaxEvents`) give a manager
  that holds a cached task while the sibling writes, which one event each would not.
- In `RequestHandler`, two requests are the pairs the code distinguishes; the mode
  of each, the script and the order are free. `MaxFailures` bounds rejecting store
  operations; two let a repair fail as well. Task ids, artifacts and parts have
  one or no value there, since only states and history matter to its properties.
  The follow-up waits until the first send is over (`Patience = "over"`).
- Three tasks in pages of one and two give a cursor that is first, inner and last,
  and two saves move the task of a cursor and another one. `DEFAULT_MAX` is the
  code's; a page size of 0 stands for what is refused.
- Three notifications of one task are a chain whose middle is evicted, one of
  them in a second scope; the fourth has no task. Two writes are a creation
  before and a replacement or deletion during a send.
- The limit of three symbols, with events of two and four pieces, puts the limit
  on and on either side of a line and of an event of several lines; chunks of one
  to five symbols cut anywhere.
- Two interceptors show an order; the second call may replace the card or refresh
  the credentials under the stream. One change of credentials is one that a
  retry answers; a second call's retry meets it at any point. Credentials that a
  caller brings itself are those the agent accepts at the start (`OwnCredential` = 0).
  The two cards have both versions on one URL, and a binding that has 0.3 only;
  each is met with `legacyCompat` on and off.
- Two fields are a pair of alternatives, of an optional and a default, or of a
  field and its metadata: the translators relate no more than two. The relays are
  not bounded.

`CHECK_DEADLOCK FALSE` is given throughout: executions, calls, requests and
streams are finite in number, and a model in which all are over has no step.

### Fairness

- `TaskWriteLock!FairLockSpec`: weak fairness of each call: promise reactions run,
  and the locked function settles (a store call that never settles blocks its
  chain, in the code as well).
- `RequestHandler!FairSpec`: weak fairness of each request that has started and of
  each executor: the event loop resumes, the store answers, and an executor that
  was started goes on until it returns or throws. A request need not be made, a
  consumer need not leave, and an operation need not fail.
- `TaskList!Spec`: the client goes on asking for pages while it has a token.
- `PushNotifications!Spec`: weak fairness of each notification's own steps, the
  timer among them; no webhook need answer.
- `SseStream!Spec`: weak fairness of the server's steps and of the client's: the
  handler's generator goes on and the client reads. The network need not cut and
  the application need not leave. What is written arrives unless it is cut.
- `ClientCall!Spec`: weak fairness of each call: hooks settle, the agent answers
  or fails, and a consumer goes on or leaves.

## 4. The properties

Event delivery: `InOrder` (exactly the events since attaching, once, in order),
`NoLostWakeup`, `NothingAfterFinal`.

Write lock: `MutualExclusion`, `MapDrains`, `EveryCallServed`, and the refinement
`ImplementsTicketLock`.

Result manager: `MergeIsFresh` (what a call merges against is what is stored),
`UpdatesKept` (messages and parts that were saved are not lost to a sibling), and
the refinement `ImplementsTaskRows`.

Request handler: `CallsAndDrainsEnd`, `EveryCallAnswered`, `SendAnswerIsFinal`,
`AnswerWasStored` for what callers see; `TerminalIsFinal`, `OutcomePersisted`,
`FollowUpKept` for the stored task; `BusLifetime`, `QueueReleased` for what is held
and released. `TerminalIsFinal`, `SendAnswerIsFinal` and `OutcomePersisted` are
claimed while the store has not rejected anything, and say so in their definitions.

Lists: `ExactPages`, `ListingEnds`. Push notifications: `PostedToRegistered`,
`SequentialPerTask`, `EverySendSettles`. Streams: `EventsInOrder`, `OutcomeAgrees`,
`GeneratorReleased`, `BothEnd`. Client: `AfterMirrorsBefore`, `StreamReleased`,
`RetriedOnceIfRefused`, `Negotiated`, `EveryCallEnds`.

Messages: `RoundTrip` within a protocol version; `CrossingKeeps`,
`WrittenIsReadable` and `OnceIsEnough` across them. A property that is a conjunction names its parts.

## 5. What the encodings keep

`RoundTrip` and `CrossingKeeps` say exactly what a message loses, and this is all:

- gRPC rewrites a timestamp as `toISOString` does, and throws on an empty one.
- JSON reads the number of an enum value it has no name for as UNRECOGNIZED, and
  the `null` of a `Value` as nothing.
- Protocol 0.3 has no tenant, page sizes and tokens, PKCE flag, device code flow,
  names of parts that are no file, enum values beyond its own, nor interfaces of
  other versions.
- Its protobuf form, by `ToProto` or `FromProto`, leaves out `referenceTaskIds`, an
  artifact update's `append`, an artifact's `extensions`, a part's metadata and
  file name, a configuration's `historyLength`, the metadata of a cancel, and the
  icon of a card.
- A wrapped data part loses its flag with the metadata, and arrives wrapped.
- Some optional fields come back as their default, or left out where they were
  empty: `Defaulted` and `Emptied` in `LegacyRelay` list them. A `GetTask` without
  `historyLength` asks, over 0.3 gRPC, for none.

## 6. Where the code departs from what the repository says

1. `RequestHandler_hang`: a *task* event in INPUT_REQUIRED keeps the bus alive and
   does not end the queue, so a blocking send is never answered.
   `server/utils.ts:15` says of the state "Both `execute()` and the blocking
   consumer's drain loop stop when this state is published."
2. `MessageCodec_append`: over 0.3 gRPC and REST, a chunk to be appended arrives
   as one that replaces: `FromProto.taskArtifactUpdateEvent` leaves `append` out.
   `compat/v0_3/types/types.ts:2311` says "the content of this artifact should be
   appended to a previously sent artifact".

Others need a change to an instance, and have no run of their own:

- `UpdatesKept` fails in `ResultManager` with `User = {alice, bob}`,
  `UserOf <- OrgUserOf`, `OwnerResolver <- OrgResolver`, `Owner <- OrgOwner`,
  `Event <- AddingEvent` and `MaxEvents <- TwoEach`. `lockKey` uses the user's name, the store its
  `OwnerResolver`; with a resolver that groups users, two colleagues share a row
  and not a lock, and an update is lost. `result_manager.ts:22` says "The lock key
  mirrors the {@link TaskStore} scoping contract"; `owner_resolver.ts:6` lets
  implementations "base ownership on user identity, organizational roles, project
  membership, etc."
- `TerminalIsFinal` fails with `Patience = "answered"`, `Methods <- WaitedTurns` and
  `Script <- AuthScript`: `_createRequestContext` saves the copy it loaded, without
  the lock, and a drain that completed the task meanwhile is undone.
  `default_request_handler.ts:175` says that a task in a terminal state "cannot be
  modified".
- `TerminalIsFinal` fails, clients taking turns, in two more ways. With
  `Methods <- Cancelled` in any order and `CancelBy = {"publish"}`: `cancelTask` marks
  the copy it loaded (`default_request_handler.ts:825`), and an executor that completed
  the task meanwhile is overruled. With a script
  `<<NewTask("COMPLETED"), Update("WORKING")>>`: a task event does not end the queue,
  and what follows it is folded into a task that is over.
- `FollowUpKept` fails with a follow-up whose executor publishes a task with a history
  of its own: a task event replaces the stored task, and with it what was saved.
- `BusLifetime` fails with `Patience = "answered"`, `Methods <- WaitedTurns` and
  `Script <- InputScript`: a follow-up sent as
  soon as the first send was answered shares its bus, and the first executor's
  settlement removes it while the second still publishes.
  `default_request_handler.ts:610` says "Bus cleanup is tied to the executor's
  lifecycle, not the consumer's".
- `BusLifetime` fails with a script that throws after AUTH_REQUIRED: the stream's
  error path reads the tracker, which detaches it, before it publishes FAILED, and
  the bus of a FAILED task is kept.
- `OutcomePersisted` fails in three more ways, clients taking turns and nobody
  cancelling. With a script `<<NewTask("WORKING"), Update("INPUT_REQUIRED")>>` that
  throws, or `<<NewTask("WORKING"), Update("INPUT_REQUIRED"), Update("COMPLETED")>>`:
  the state comes after the event that ended the only queue that stores. With a first
  send's script `<<Update("WORKING"), Update("COMPLETED")>>`: an update of a task that
  nobody published is dropped by the result manager.
- `SendAnswerIsFinal` fails with that last script, and with an executor that returns
  and published nothing: a blocking send is answered with an error though its
  executor ran.
- `OutcomePersisted` exempts streams whose consumer may leave; without that
  conjunct it fails with `Disconnecting = {first}`: once the consumer has left, what
  the executor publishes is forwarded to resubscribers and stored by nobody.
- `QueueReleased` exempts queues that were never pulled. There are two: a stream's
  whose push configuration cannot be saved, on a bus that no executor will settle,
  and that of a cancel whose `cancelTask` threw.
- `GeneratorReleased` fails with a script whose first event cannot be written
  (`<<Unfit, Small>>`): it is written outside of `delegateAsyncIterator`
  (`rest_handler.ts:216`, `json_rpc_handler.ts:186`), whose comment says what a
  dropped `return()` leaks.
- Without `legacyCompat`, which is the default (`json_rpc_transport.ts:388`,
  `rest_transport.ts:423`, `grpc_transport.ts:322`), `selectInterface` still picks an
  interface of 0.3, also where the card has one of 1.0 on another binding that the
  client could use, and the factory makes a 1.0 transport for it. The agent's gate
  refuses whatever it sends. The run has both, and `Negotiated` says which is when;
  that the version sent is always the interface's fails. `test/client/factory.spec.ts:359` expects the
  transport of 1.0, and `multitransport-client.ts:69` says that the version sent is
  "Determined by the transport, which receives the version from the matched
  `AgentInterface`".
- `RetriedOnceIfRefused` fails with `OwnCredential = 1`, a caller whose own
  credentials are those the agent is about to change to. They are refused, the
  handler offers new ones, the agent changes; the retry sends the caller's again
  (`auth-handler.ts:60`), is accepted, and `onSuccessfulRetry` is told to keep the
  handler's, which nobody has sent. `auth-handler.ts:24` says that it is called "when
  a retry using the headers from {@link shouldRetryWithHeaders} succeeded".
- `translate/parts.ts:157` says that a wrapped data value lets `toCorePart`
  "losslessly unwrap" it; over the protobuf of 0.3 it does not.
- A card's interface without a version is 0.3 to the client (`isLegacyVersion`) and
  nothing to the server's gate; bindings are compared without case by the client
  (`pick_interface.ts:21`) and with case by the gate (`server/version.ts:16`).

## 7. What is proved

For every set of consumers, buses, executions, calls, keys, managers, requests,
scopes, configurations, notifications, tasks, pages, events, interceptors and cards. Each proof has the
same shape: an inductive invariant, one lemma per action (or per operator that
actions share), and the properties as its consequences. Each invariant was checked
with TLC before it was proved.

- `EventDeliveryProofs`: `TypeCorrect`, `DeliveryInOrder`, `WakeupsAreKept`,
  `EndsCleanly`. The inductive invariant is `BusInv` (the type invariant with
  `InOrder`, `NoLostWakeup`, `NoListenerLeak` and `NothingAfterFinal`) together
  with the typing of `phase` and `target`. The four are needed together: order
  across a publish needs to know that a listening queue is not stopped, and that a
  stopped queue is not listening is what `NoListenerLeak` says. `EventBusProofs`
  shows that every operation of `EventBus` preserves `BusInv`, once, so that any
  module that drives the bus can use it.
- `ResultManagerProofs`, first of the lock alone: `Exclusive`, `MapIsEvicted`,
  `Refinement`. The invariant `LockInv` says that the unfinished calls of a key form one chain: tickets are
  distinct and below `issued`, a call's `prev` has the ticket before its own unless
  it was evicted, `served` counts the calls that are over, and `tail` is the last
  ticket's call while one is unfinished. Exclusion follows because a running call
  has the ticket `served`.
  Then of the result managers over it: `TypeCorrect`, `NoLostUpdate`,
  `Linearizable`, `EveryUpdateKept`. The invariant joins `LockInv` with the typing, with the fact that a call holds the
  lock of the row its event names, and with `MergeIsFresh`. The refinement then
  is step by step: a `Save` writes the fold of one event into the row as it is;
  every other step leaves the rows a task id can name alone. `EveryUpdateKept` is
  `UpdatesKept`: a message stays because a fold only adds to a history (unless a task
  event replaces it), and a part of an artifact that is only ever appended to is
  counted by comparing the set of calls that carry it with the set of its places in the
  row before and after one fold, so that no induction over the histories is needed;
  that the sets are finite (`FiniteInv`) is part of the invariant.
- `RequestHandlerProofs`, in layers. `HandlerInv` gives `TypeCorrect`,
  `AnswersWereStored`, `QueuesReleased` and `NoListenerLeft`: it joins `BusInv`
  (which `EventBusProofs` carries through every operation) with the agreement
  between a request's `pc` and its queue's `loop` (`StageInv`), with what can
  become an answer having been stored (`AnswerInv`: the row, every copy a drain
  holds and the event it is about to hand on, except after a save that failed),
  and with the trackers' listeners. `TurnInv` adds, for clients that take turns,
  that one executor is engaged at a time and that its bus is the table's; it gives
  `BusFound`. `KeptInv` adds what the tracker knows of its bus when the executor
  settles, and gives `LifetimeOfBus`. On `TurnInv` rest two more, for clients that
  do not cancel. `WriterInv` says that the send whose turn it is, and no other
  request, writes the row: what it loaded is what is there until it saves. While
  the store rejects nothing, `FinalInv` follows a terminal state along the way of
  the event that brought it: if the row has it, then whatever the send whose turn
  it is may still be brought (the event it holds, those in its queue's buffer, the
  rest of its executor's script, the FAILED it would publish) reports that state
  or none, unless the queue has ended; it gives `TerminalStays`. That a status
  update ends the queue is why nothing need be assumed of what an executor does
  after one. `ContextInv` says that a follow-up that saved its message knows the
  history of those before it and brings no other, and that the row begins with all
  of them; it gives `HistoryIsKept`. The executor's error path is the case that
  needs it: the FAILED task is made of the context, and folding it replaces the
  stored history by the context's.
  `OutcomeIsStored` is `OutcomePersisted`. Its invariant `OutcomeInv` follows the
  log of the bus the turn's send is on: the part of it that was folded and the row
  agree on the last state, what was folded, what is held, buffered and still to be
  published is the whole log unless the queue has ended, what follows an event that
  ends the queue adds no other terminal state, and a new task begins with an event
  the result manager does not drop. When everything is over nothing is left to fold.
  `SendIsAnswered` is `SendAnswerIsFinal`. `RepliesInv` carries what a caller can be
  told: while its executor runs or its queue has events, there will be something to
  answer with; once something was folded, the result manager's task or message is
  there with the last state reported; and a send that was answered was answered with
  a final state, or with the one its executor left when nobody could publish on its
  bus any more. The last part rests on `KeptInv`: a bus outlives its executor only in
  an interrupted state.
- `TaskListProofs`: `PagesAreExact`, which is `ExactPages`. `PlacesTaken` is about
  sorting: tasks with different ids have different places, and there are as many places
  as tasks, so every place is taken (the library's pigeonhole facts; no induction).
  `PageIs` describes a page as a segment of the sorted list, and `ListInv` joins
  `ExactPages` with what the client can count on between two pages: the token is that of
  the last task listed (`CursorInv`), a task that nobody saved is listed or comes after
  that one (`Ahead`), and if nobody saved anything, as many are listed as come up to it
  (`Counted`). A save may move the cursor's place in the list or remove it; `Ahead`
  compares with the timestamp and id that the client was given, which no save changes.
- `PushNotificationsProofs`: `RegisteredWebhooksOnly`, `SequentialNotifications`.
  `OrderInv` relates the order of the calls of `send` to that of their loads;
  `ChainInv` says that whatever is pending is reached from its task's entry in the
  chain, and from the promise that each later notification waits for, also after
  the entry of a finished one was evicted; `StoreInv` that the stored
  configurations mirror what was registered; `RequestInv` ties the posts to both.
- `ClientCallProofs`: `HooksInOrder`, `StreamsReleased`, `RefusedAndRetried`,
  `SpeaksItsVersion`.
  `HookInv` says that the hooks that have run and those yet to run are together the
  reverse of the ones that passed; `RetryInv` what the two attempts have sent, with
  the agent's credentials at the time as a bound; `GateInv` that the agent's
  version gate admits both attempts of a call or neither, without which a retry
  could be turned away for no change of credentials. `SpeaksItsVersion` is
  `Negotiated`, with `legacyCompat` enabled and without, and is about the choice itself:
  the factory's interface is the best of the first preferred binding the card has, and
  the second choice by URL is of the same version. So with the option the transport
  sends the version of the interface, which the card declares, and the gate admits it;
  without the option it sends 1.0, and an interface of 0.3 is selected only on a
  binding that has no other, for which the gate refuses 1.0.
- `SseStreamProofs`: `OrderIsKept`, `OutcomeIsAgreed`, `GeneratorIsFinished`. All that
  was ever written is the text of a sequence of lines (`Layout`), each of which follows
  the one before it as in a frame (`Chain`, `Follows`), and each of the server's three
  ways of writing makes such a frame (`EventIsFrame`, `ErrorIsFrame`). `Told` places the
  parser between two lines: what it has buffered and what is on the wire is the text
  from there, whole while the connection is open and cut anywhere when not (`Window`);
  the events before that place have been received, and the pending data are what the
  lines of the next one have said of it (`Placed`). The end of a line is where
  `indexOf` finds it (`LineAhead`), so chunks do not matter. For the outcome,
  `Written` ties the lines to the server's state while the connection is open:
  a stream with all its lines parsed has all its frames, and only the last can be an
  error's; `LongLine` says that a line or data beyond the limit are an event's that is
  too large, and `SizeInv` that what the parser took is not.

Hypotheses, beyond the named `ASSUME`s of the modules (model values distinct from
data, `Call` and `Key` large enough for the managers, contexts total, finitely many
tasks in a store):

- `LockMirrorsStore` (`ResultManagerProofs`): two managers that reach the same row
  use the same lock key. With the default resolver and named users that is so.
- `PayloadCarries` (`RequestHandlerProofs`): any history of a task can be carried
  by an event, as the FAILED task that the handler publishes carries it. It holds
  when `Payload` is all of `TaskPayload`; the runs have less, and check the same
  properties there.
- `TakesTurns` (all of `RequestHandlerProofs` from `BusFound` on): a send is made
  when those before it are over. Cancels and resubscriptions come at any time.
- `AsksAndReturns` (`LifetimeOfBus`, `SendIsAnswered`): an executor that asked for
  input or authorisation does not throw afterwards, and `cancelTask` leaves it to the
  executor to publish.
- `NoCancel` (`TerminalStays`, `HistoryIsKept`, `OutcomeIsStored`, `SendIsAnswered`):
  no request is a cancel.
- `FinishesOnce` (`TerminalStays`): after a task event with a terminal state an
  executor reports no other state and does not throw. After a status update it may do
  anything.
- `HistoryLeft` (`HistoryIsKept`): the task events of a follow-up's executor carry no
  history.
- `OpensTask` (`OutcomeIsStored`, `SendIsAnswered`): the executor of a new task begins
  with the task or a message.
- `HeardOut` (`OutcomeIsStored`): after an event that ends its queue an executor
  reports no other terminal state and does not throw.
- `Reports` (`SendIsAnswered`): an executor that returns has published a message or a
  state, and the states that keep a bus alive are interrupted ones.
- `DeclaresVersions` (`SpeaksItsVersion`): every interface of a card is of 1.0 or 0.3.
- `OwnIsOld` (`RefusedAndRetried`): credentials that callers bring themselves are
  accepted from the start or never; once refused they stay refused.
- `FirstIsWritten` (`GeneratorIsFinished`): the first event of a stream can be written.
- `ErrorsFit` (`OutcomeIsAgreed`): the limit on an SSE event leaves room for an error of
  one piece. By default it is 4 MiB (`sse_utils.ts:82`). With a smaller one the
  client refuses the error as too large.

`TakesTurns`, `NoCancel`, `AsksAndReturns`, `FinishesOnce`, `HistoryLeft`, `OpensTask`,
`HeardOut` and `Reports` hold of the instance of `RequestHandler_sends`, which checks
the properties they are for, and `DeclaresVersions` and `OwnIsOld` of that of `ClientCall`; the
scripts of `SseStream` satisfy `FirstIsWritten`, and its limit `ErrorsFit`. Section 6 has the
counterexamples without `LockMirrorsStore`, `TakesTurns`, `NoCancel`, `FinishesOnce`,
`HistoryLeft`, `OpensTask`, `HeardOut`, `Reports`, `OwnIsOld`, `FirstIsWritten` and, for
`LifetimeOfBus`, the first half of `AsksAndReturns`, and says what becomes of a card
without `DeclaresVersions`. Without the second half of `AsksAndReturns` a cancel that
reaches a bus kept alive publishes CANCELED on it, and no executor is left to close it
(`default_request_handler.ts:466`). That an executor asks and then throws is not known
to break `SendAnswerIsFinal`: the hypothesis is there for the bus its proof rests on.

Only model-checked:

- every liveness property: fairness and `ENABLED` are outside the prover;
- the encodings and translations of messages, which are tables to be evaluated.

Facts that need induction over the natural numbers (`EventBusProofs`,
`ClientCallProofs`) go by least elements: the library's induction
theorems take an operator, which the provers here cannot instantiate.
The modules proved about use no recursive operator.

## 8. Not modelled

- Metadata, names and order of artifacts in the result manager; contents of
  messages; `TASK_STATE_UNSPECIFIED` in the handler.
- `historyLength` trimming, extension negotiation, `getTask`, the client
  configuration merged into requests (`applyClientConfig`).
- Stores with their own consistency: a save is atomic, visible to the next load,
  and loads resolve in the order they are made.
- Restarts: the SDK keeps nothing across one but the store the application gives.
- The handler on several tasks: a request names one task, and rows, buses and locks
  of different tasks share nothing (`ResultManager` and `TaskList` have several rows).
- The dispatch of the JSON-RPC, REST and gRPC handlers of both versions, which
  parse a request and call one method, and the stream that the JSON-RPC handler
  opens for a resubscription of 0.3 without a peek (`json_rpc_handler.ts:131`).
- A nested message is an item of the one around it: that its own field is lost is
  seen where its kind is relayed, not again inside every message that has it. A
  push configuration inside a `SendMessageConfiguration` loses its task id and
  tenant over 0.3 that way. Ids are opaque, though `id_decoding.ts:4` cuts a task
  id at a slash; the `embedV1Interfaces` option of a 0.3 card is left out.
- The pair of converters for the request that creates a push configuration
  (`FromProto.createTaskPushNotificationConfig`,
  `ToProto.taskPushNotificationConfigCreate`), which wraps that of the configuration.
- Errors (tables of codes), agent card resolution (a fetch and a parse), signatures
  (cryptography over canonical JSON), samples, integration and conformance kits.

## 9. Plan

What exists is sections 2 to 7. Next, in this order:

1. `RequestHandler` with artifact updates and two managers on one bus, where parts
   are stored once per manager; a cancel on a bus kept alive.
2. The hazards of `PROJECT.json` that have no property yet, each where its note says.
