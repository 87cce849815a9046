# ib_async: specifications

ib_async is an asyncio client for the API of Interactive Brokers' Trader
Workstation. One TCP connection carries length-prefixed messages both ways; the
client turns requests into futures and streams into events. This directory holds
TLA+ modules for its core, TLC configurations that check them on small
instances, and proofs that TLAPS checks for every instance.

Contents: [the system](#the-system), [modules](#modules), [runs](#runs),
[bounds](#bounds), [fairness](#fairness), [proofs](#proofs),
[where the code disagrees with its own documents](#where-the-code-disagrees-with-its-own-documents),
[what is left out](#what-is-left-out), [plan](#plan).

## The system

Everything runs in one asyncio event loop, so a function without `await` is
atomic: a call, a handler or a callback is one step. What interleaves is their
order. `IBClient` (`__init__.py`) is `Protocol` plus one mixin for each part.

| Component | State | Operations | Talks to |
|---|---|---|---|
| `protocol.py`: futures and message loop | `next_request_id`, `_pending_responses`, `reader`, `writer`, `version` | `make_future`, `resolve_future`, `_handle_err_msg`, `dispatch_message`, `_message_loop`, `send`, `connect`, `disconnect` | all mixins call it; it calls their `_handle_*` by message name |
| one-answer calls: `matching_symbols.py`, `executions.py`, `instrument_details.py`, history in `realtime_bars.py` | `__pending_execs`, `_pending_instrument_updates` | a call makes a future and sends; rows and a closing message come back | `make_future`, `resolve_future`; rows build or update `Instrument`s |
| `orders.py` | `_next_order_id`, `__orders`, `__submitted_future`, `__open_orders_future` | `place_order`, `get_open_orders`, handlers for status, open orders, the end of the list, the next id | overrides `_handle_err_msg`; ids share the field of request ids |
| `current_time.py` | one future | `current_time`, `_handle_current_time` | `send` |
| `event.py`: `_EventQueue` | `queue`, `future` | `push`, `__anext__` | an event pushes, one consumer task asks |
| `event.py`: `EventInstance` | weak list of handlers | `+=`, `-=`, `has_subscribers`, dispatch | first and last handler call `on_subscribe`, `on_unsubscribe` |
| streams: `market_data.py`, `market_depth.py`, `tickbytick.py`, bars in `realtime_bars.py` | a table id -> instrument in each mixin, the id on the `Instrument` | subscribe, unsubscribe, resubscribe, snapshot, data handlers | called by the events of `Instrument`, send through `Protocol` |
| `position.py` | a shared future, a dummy handler | `get_positions`, `_handle_position*` | an event and a future at once |
| `instrument.py`: registry | weak registry by contract id for each client, asserted unique | the `contract_id` setter, `deserialize` | every handler that reads an instrument |
| coding: `IncomingMessage`, `OutgoingMessage`, `tick_types.py`, `utils.py` | the fields still to be read | reading and writing fields, limits by version | every handler and call |

What is hard here:

- *Order of messages.* Replies, rows, closing messages and errors for several
  calls interleave, and an error may come after rows or after a cancellation.
- *Callers that give up.* A future cancelled by its caller (`wait_for`) stays in
  the tables; a late reply or error meets it.
- *Handlers that raise.* Nothing catches an exception in a handler: the task of
  `_message_loop` ends, and nobody is told.
- *Names.* Orders and requests are counted apart and named by one field.
- *Weak references.* Handlers disappear without notice, in the middle of a dispatch too.
- *Streams.* Data crosses its cancellation; subscribing can raise half way.
- *Losing the connection.* No waiting future is failed, no event hears of it, and
  `connect` may be called while a task of the old connection is still reading.
- *One future for several callers*, of `get_positions` and `get_open_orders`.
- *Equality that moves.* Instruments are found by their contract ids, which rows change.

What makes each part correct: a reply settles its own call and no other, and
nobody waits for what has been dispatched (requests, orders); nothing that a
server or a caller may legally do ends the loop, or only what is named (all); a
result holds what was sent for it (executions, contract data); values are
delivered once and in order with no wake-up lost (queue); handlers and streams
come and go together, with no stream doubled or leaked (events, streams,
positions); an id names one object (orders, registry); messages are read whole, in
order, and as they were written (connection, coding); rows named by position are
found where the server has them (depth).

## Modules

| Module | Models | Notes |
|---|---|---|
| `Replies` | what a request/response client promises, without ids or tables | abstract; `Requests` implements it |
| `Requests`, `RequestsProofs` | `Protocol`'s futures, the loop, the one-answer calls | `Orders` extends it |
| `Orders`, `OrdersProofs` | `OrdersMixin` on top of `Requests`: `EXTENDS`, with the `ERR_MSG` handler of the mixin in place of `Protocol`'s | `MCOrders` adds symmetry and a constraint |
| `Connection`, `ConnectionProofs` | `connect`, the negotiation of the version, framing, early messages, `_message_loop`, `disconnect` | several connections of one client |
| `Channel` | what an event stream promises its consumer | abstract; `EventQueue` implements it |
| `EventQueue`, `EventProofs` | `_EventQueue` and its consumer task | |
| `EventInstance`, `EventProofs` | weak handler list, dispatch, opening and closing the stream | |
| `Subscriptions`, `SubscriptionsProofs` | the four kinds of stream, below their events | a handler joining or leaving is one step here; `EventInstance` has its detail; `MCSubscriptions` adds a constraint |
| `MarketDepth`, `SubscriptionsProofs` | the rows of a book, under the subscriptions that come and go | |
| `Positions`, `PositionsProofs` | `PositionMixin`: event, shared future, dummy handler | |
| `Instruments`, `InstrumentsProofs` | the weak registry, all that names an instrument, the search of the tick-by-tick table | `MCInstruments` adds symmetry |
| `CurrentTime`, `PositionsProofs` | `CurrentTimeMixin` | |
| `Codec`, `ConnectionProofs` | fields and versions of messages; attributes of ticks; durations | |
| `SequenceLemmas` | facts about numbers, folds and sequences | the proofs about `Connection`, `EventInstance` and `MarketDepth` instantiate it |

Some modules of proofs are about two components, so names that would meet there
carry the component's: `QueueInit`, `TimeInit`, `DepthInit`, `CodecInit`.

### How state and actions correspond to the code

Variables carry the names of the attributes they stand for; each variable's
comment gives the attribute. `PROJECT.json` gives the lines of each definition.
Some conventions are shared:

- **The wire.** In `Requests`, `Orders`, `Subscriptions`, `CurrentTime` and
  `Instruments` the server's choice of its next message is left open until the
  client dispatches it, which is when the client can first tell. So an action
  named after a message (`ContractData`, `OrderStatus`, `HandleErrMsg`...) is
  both the sending and the whole handler. Its guard says what the server may
  send in view of what it has received (`request`, `rows`, `final`, `taken`,
  `status`...); those server variables are the model's environment. Where it matters
  how much is in flight (`Connection`, `Positions`, `MarketDepth`) the messages
  are there, in order.
- **Futures.** `state` of a future is `pending`, `result`, `exception` or
  `cancelled` as asyncio has it. `orphaned` is a future that was made and
  registered by a call which then raised, so nobody holds it: no writer, an
  instrument or an order that cannot be serialized. Such a call is an action of
  its own (`Raise`, `PlaceRaises`, `OpenRaises`...), with every assignment made
  before the raise.
- **The loop.** `running`, and how it may end: `stopped` (end of stream or
  disconnect), `misfired` (`InvalidStateError` from a future already done),
  `raised` (any other exception of a handler). After `disconnect()` a loop that
  was reading a message still dispatches it: `draining`. Losing the connection
  (`ConnectionLost`) stops the loop and leaves a `writer` that accepts bytes and
  loses them: `broken`.
- **Histories.** `cause`, `again`, `overtaken`, `crossed`, `rejected`, `pushed`,
  `delivered`, `undue`, `held_over`, `left`, `begins`, `called`, `unheard`, `unnamed` and
  `meddled` record the past for the properties; no guard reads them, but the bound
  on `pushed`.
- **Mutants.** Definitions whose comment says *Mutant* are the plausible bugs
  each property was tried against; no specification uses them.
- **`TypeOK`** is in no configuration. It is proved for every component but
  `Connection`, of whose variables the proof types the ones it needs (`Shape`,
  `FlowTypes`), and `EventInstance`; there it can be added to the configuration.

`Requests`: `Issue` is a call that succeeds (`symbols`, `history`, `executions`,
`details` name its kind), `Cancel` the caller giving up, `RunCallback` the
done-callback of `get_historical_bars`, run later by the event loop. `Answer`,
`ExecutionData(End)`, `ContractData(End)`, `ErrMsg` and `WarningMsg` are
messages. `clash` is the assertion of `Instrument.contract_id` failing in a
handler: here it may fail in any row, and `Instruments` has its condition. A row
of executions may also raise before it is added to its list.

`Orders`: `AssignId` is the application setting `order.order_id`, whenever and to
whatever id it likes. `PlaceOrder` takes that id, or `_next_order_id` as it stands, and
writes the tables whatever they hold already; then it sends (`PlaceSent`) or raises
(`PlaceRaises`). `overtaken` holds the futures that were awaited under an id when it was
placed again. `KnownOrNew` finds the order of an open order by its id, whoever placed
it. `FinishOrder` is the pop and the unguarded `set_result` or `set_exception` the
handlers share. A status and an open order are two steps, the second of them
`HandlersReturn` or `HandlerRaises`: while `subject` names it, the handlers of
`Order.updated` run, and may place orders, that very one again too, or give up on a
future. Nothing else happens then, for nothing there awaits. A status resolves its
future after its handlers, an open order before them, as the code does. `again` holds the
futures that a handler made under the id of its own status. `HandleErrMsg` is told what the
server's error is `about`, which the message does not say: `crossed` holds the
errors about a request that failed an order and those about an order that failed a request.

`Connection`: call number *c* of `connect()` opens connection *c*; its coroutine
and the loop it starts are task *c*. A message is two halves, its size and its
body, as `_read_message` reads them with two awaits; `taken` counts the halves
each reader has given. A loss, a disconnection or another `connect()` may fall
between any two steps.

`EventQueue`: `__anext__` is split where it awaits. `NextAtHand` returns at once,
`NextAwait` suspends or goes straight through a future already done, `Resume`
runs once the future is done and the task is scheduled.

`EventInstance`: `running` is the stack of dispatches, since handlers run inside
them and may call anything. A handler is live while the application holds it or
a dispatch has it in its list. `streams` counts what is open at the server.

`Subscriptions`: one `table` stands for the tables of the four mixins, whose ids
come from one counter. `AddListener` and `RemoveListener` call `on_subscribe`
for the first handler and `on_unsubscribe` for the last. `GetMarketData` and
`CancelMarketData` are the same two methods of market data called by the application,
beside handlers or without: `called` holds the streams without handlers it asked for,
`unheard` those whose handlers have none, because subscribing raised or it was
cancelled beside them. `status` is what the server has made of an id: `stray` means
cancelled with data still under way. A future is `lone` when a call made under an id
already in use awaits one that no table knows.

`MarketDepth`: one side of a book. The server's `book` is empty when it starts a
subscription, and so is not what the client has (`rows`), for nothing empties
those. `left` is what they will be when the stream's first message comes.

`Positions`: `current` is `__position_future`; a new number is a new future.
`NewFuture` and `Send` are `__on_position__subscribe`, `Purge` is
`_live_handlers` with its `on_unsubscribe`, `RunRemoval` the callback
`conditional_unsubscribe`. `gone` are dead weak references still in the list.

`Instruments`: objects are drawn from a finite set and may be used again once
freed. `held` is what the application refers to, `Kept` whatever keeps an object
alive; everything else may be freed at any time or never (`Free`). `Name` gives an
instrument an id, or another one. `Equals` is the search by equality of the tick-by-tick
table: instruments without an id are all equal, so they take over and end each other's
streams; `unnamed` are those that had none when their handlers came. `meddled` are those
whose known id was changed by the application or by a row of a request without one.

`CurrentTime`: the message has no id. Calls are numbered; `asked` holds those
the server still has to answer.

`Codec`: a value is named by a string, and so is the text of a field; `Item` is
what one call of `add` or `read` codes: a single value, a list or a dict, with its
version limit. The server writes as `OutgoingMessage` does, which is how the
repository's tests make its messages.

### What the code needs and does not check

Few guards are assumptions about the application or the server; what happens
without them is said here.

- `Connection.MayConnect`: `connect()` is not called while another is opening a
  connection, nor over one that is still read. Two tasks would read from one
  reader and share out the halves between them.
- `subscribe_*` and `unsubscribe_*` of depth, bars and ticks are called by their events
  only; `get_market_data` and `cancel_market_data` by applications too. An application
  that calls `subscribe_realtime_bars` while the bars are on draws a second id, and the
  first stream can no longer be cancelled.
- An instrument that has a contract id is never renamed to 0, which is how the code
  says that it has none.
- The server sends contract ids other than 0, and the rows of a request that named a
  contract carry its id.

## Runs

Each passing run checks the whole specification of one component. States are
distinct states.

| Run | Question | States |
|---|---|---|
| `requests` | Do replies reach their own calls in every order of rows, ends, errors, cancellations and disconnection? Is each call decided? Is `Replies` implemented? | 63,000 |
| `orders` | With orders of this client and of others placed under any ids, again too, and a request that has the number of one, sharing the loop and `ERR_MSG`, and handlers that place orders in the middle of a status: what decides each future, and who is left waiting? | 2,521,000 with symmetry |
| `connection` | Through losses, disconnections and reconnections between the halves of a message, is framing kept, and is every message dispatched once, in order, under its own version? Does every task end? | 49,000 |
| `queue` | Is every value delivered once, in order, and eventually? Is `Channel` implemented? | 2,000 |
| `event` | With reentrant, raising and dying handlers, is there ever a stream without a handler, two streams, or handlers without the stream they should have? Do abandoned streams close? | 14,000 |
| `subscriptions` | Through failing and repeated subscriptions, snapshots, refusals and stray data, does a stream leak, reach the wrong instrument, or leave handlers or someone waiting, when the application requests and cancels market data beside its handlers? | 1,142,000 |
| `depth` | Over three subscriptions of one book, resubscribed, cancelled or lost, does a change always find its row? | 661,000 |
| `positions` | Are positions requested exactly while someone listens? Who answers the callers that share a future, and does the dummy handler go? | 53,000 |
| `instruments` | Does an id name one instrument, whatever rows and the application rename and whenever garbage is collected? Which tick-by-tick streams stay apart? | 427,000 with symmetry |
| `time` | What can kill the loop, and who is answered? | 4,300 |
| `codec` | Does reading stay aligned with writing under every version limit, and yield what was written? | 73,000 |
| `requests_cancelled_error` | Does the loop survive an error for a cancelled call? (It does not.) | violation |

The properties, by what they say:

- *Routing*: `OrderRouting`, `CallsBesideOrders`, `Routed`, `StreamsApart`, `OwnVersion`: what decides
  a future, where data goes, and how a message is read, is its own.
- *Nobody is forgotten*: `NoOneLeftWaiting`, `NoOrderForgotten`,
  `NoOrderLeftWaiting`, `SharedFutureKept`; and as liveness `EventuallySettled`,
  `SubscriptionsSettle`, `EachCallAnswered`, `CallersAnswered`, `AllDelivered`,
  `AbandonedStreamCloses`, `DummyGoes`, `DisconnectEnds`.
- *What may end the loop*: `MisfireCause`, `OrdersMisfireCause`,
  `OnlyStrayDepthRaises`, `RaisedCause` (of `Instruments` and of `Codec`). They
  name the cases in which the code does let it end.
- *Agreement of two sides*: `ResultMatchesRows`, `CancelJustified`, `OneOrderPerId`,
  `RegistryRight`, `IdsStand`, `StreamMatches`, `NoStrayStream`, `ConsumersServed`,
  `NoStreamLeaks`, `HandlersServed`, `Framed`, `InOrderOnce`, `BookOnTop`,
  `RoundTrip`, `OnlyFirstAttributeTold`, `DurationKept`.
- *Refinement*: `KeepsPromise` (`Replies`), `IsChannel` (`Channel`).

## Bounds

| Bound | Value | Why it is enough |
|---|---|---|
| `Future`, `MaxRequests` (`Requests`) | 2, 2 | a misrouted reply needs two calls; the theorems cover any number |
| `MaxRows` (`Requests`) | 2 | one row lost among others; none, one and more differ for contract data |
| `Order`, `OFuture`, `OrderIds` | 2, 2, 2 | two orders, under one id or two, or one order placed twice; another client's order takes the second object, or finds ours by its id |
| `Future`, `FirstId`, `GivenIds` (`Orders`) | 1, 2, {2} | one request to share `ERR_MSG` with, whose number is the second order id: an error about either may meet the other. The first id is the one orders start from; the second is what the application and `NEXT_VALID_ID` give |
| `MaxListings` (`Orders`) | 2 | the list asked for again before it has ended, over the shared future |
| `ListingApart` (`MCOrders`) | | the listing is over before the request is made: they touch no common state but the loop. The proofs do without it |
| `MaxConnects`, `MaxMessages` (`Connection`) | 2, 2 | an old task and a new connection; a message before the version and one after it, or two on either side; `Framed`, `InOrderOnce` and `OwnVersion` are proved for any number |
| `MaxPush` | 5 | a value pushed in each state of the consumer and after a cancellation; proved for any number |
| `MaxRefs`, `MaxDepth`, `Handler` (`EventInstance`) | 2, 2, 2 | a handler registered twice, or a dead and a live one, with a dispatch inside a dispatch |
| `MaxRequests`, `MaxListeners` (`Subscriptions`) | 3, 2 | a stream, its successor after a cancellation, and a snapshot or a stream of another kind; a handler that is not the last |
| `UntilStopped` (`MCSubscriptions`) | | a loop that stopped never runs again here, and its connection is gone: the properties say nothing of what follows. The proofs do without it |
| `Entry`, `MaxRows`, `MaxSubs`, `MaxWire` (`MarketDepth`) | 2, 2, 3, 2 | a row below and one above the one that changes; what two earlier subscriptions left; a message in flight when the next subscription starts |
| `Handler`, `MaxFutures`, `MaxRows`, `MaxConnects` (`Positions`) | 2, 2, 1, 2 | an application handler beside the dummy, and one more; the second subscription cancels the first future; what is left over from one connection |
| `Instrument`, `Id`, `Request`, `MaxRows` (`Instruments`) | 3, 2, 2, 2 | two instruments that meet on an id and a new one; two requests with a row each, or one with two |
| `MaxCalls` | 5 | overlapping and consecutive calls, and cancelled ones |
| `MaxVersion`, `MaxItems` (`Codec`) | 2, 2 | below and at a limit; an item that shifts the one after it |

`FirstId` is 1000 in the code and order ids start from 1; nothing keeps them apart
for good, so that in `orders` they meet. Deadlock is not checked, because
each system may stop: its bounds are used up, or it is disconnected and nothing
is left to do.

## Fairness

Nothing is assumed of callers, of handlers being added, or of the network.

- `Requests`: the server closes or fails each request it has received, and the
  loop dispatches it, as the API documents of each call.
- `Subscriptions`: the server sends the first bar of a stream or refuses it, and
  ends a snapshot or refuses it.
- `Positions`: the server reads requests and ends the listings it has begun; the
  loop dispatches what has come; asyncio runs a callback it has scheduled.
- `Connection`: asyncio runs the tasks that can run.
- `EventQueue`: a task that is ready runs, which asyncio guarantees, and a
  consumer in `async for` asks again.
- `EventInstance`: an open stream goes on sending, and a handler returns.
- `CurrentTime`: the server answers what it has received.

`Orders`, `Instruments`, `MarketDepth` and `Codec` assume none. All are weak:
each step, once possible, stays possible until taken or until the loop ends.
Properties of the form `P ~> Q` therefore admit the end of the loop, or the loss
of the connection, as an answer, because the code gives callers none.

## Proofs

`tlapm` proves the following for every value of the constants that the modules'
named assumptions admit: any number of calls, requests, orders, instruments,
connections, rows, values, messages and versions. The assumptions say that `None`, `Nobody`, `Dummy`
and `Unknown` are none of the things they stand beside, that the kinds of stream
are disjoint, and that bounds are naturals. In each module one lemma for an
action, or for the steps several actions share, shows that it keeps the
invariant; the invariant is more than the properties because of what follows.

`RequestsProofs`. `Routing` is not inductive: a reply finds its future through
the table, so the table must be right (`TableInv`: an entry is the future made
under that id, still open unless cancelled), which needs ids to be drawn once
(`IdsInv`), and the server must know only ids that were sent (`ServerInv`), or a
new call could be born answered. `ResultMatchesRows` needs `ResultInv`: no row
follows a decided call. `ResolveEffect` and `FailEffect` say once what a reply or
an error does to all futures. `CancelJustified` needs `CallbackInv`: a callback
that is out belongs to a history request of its own id. From these follow
`TypeCorrect`, `RepliesReachTheirCall` (`Routing`), `DispatchedMeansSettled`
(`NoOneLeftWaiting`), `ResultsAreComplete` (`ResultMatchesRows`),
`OnlyCancelledErrorsMisfire` (`MisfireCause`), `CancelsAreJustified`
(`CancelJustified`) and `RequestsKeepPromise`: `Spec => R!Spec`, each action
mapped to the step of `Replies` it implements or to a stutter (`NextRefines`).

`OrdersProofs`, which extends `RequestsProofs`, in layers, and with no assumption about
ids: orders may be placed under any, again too, and share them with requests. `Shape`
has the types that all of it needs. `AwaitedInv`, on top of it: a future in the table is
there under its id, beside its order, and done only when its caller gave it up (`Held`);
the status whose handlers run is about the order that waits under its id, unless one of
them placed another there (`Own`). They give `AwaitedOrdersRemembered`
(`NoOrderForgotten`) and `OrdersReachTheirFuture` (`OrderRouting`).

A second layer is about who waits: a future waits for what was already reported only
while the handlers of that very status run, or when it was overtaken (`WaitInv`);
`ReportedOrdersAreSettled` (`NoOrderLeftWaiting`) follows.

The last layer composes orders and requests: every step of `Orders` is one of
`Requests`, one that leaves its calls alone, or an error, which is either (`EveryStep`,
`Aside`, `ErrorSteps`). An error about a request that failed an order is lost to
`Requests`, as if the server had not sent it, and one about an order that fails a call is an
error about that call: `LostInv` and `ErrsInv` say which of the two befell whom. So the
invariant of `Requests` holds here too. It gives `RequestsBesideOrders`
(`CallsBesideOrders`, `ResultMatchesRows`): a call fails or waits on only over its own
errors, except those crossed; and `PromiseKeptBesideOrders`: `OrdersSpec => R!Spec`, calls
are settled once and for good as `Replies` promises, where a reply is what `Protocol` is
handed. What a message finds done is named (`LoopCause`): `OnlyTheGivenUpMisfire`
(`OrdersMisfireCause`). `OrdersTypeCorrect` follows as well.

`ConnectionProofs`: `FramingKept` (`Framed`). A task reads from the connection it
opened (`ReadsOwn`) since `self.reader` is that or `None` for as long as the task
lasts (`ReaderIsOwn`): when it changes, the old reader has been fed EOF
(`LeftIsEof`), and `connect()` opens its connection only when the tasks before it
are at their end (`OpensAlone`). Then the halves a task has read make up whole
messages and the one begun (`Halves`).

`MessagesInOrder` (`InOrderOnce`) and `VersionsAreOwn` (`OwnVersion`), by an invariant
on top (`FlowInv`). `InOrderOnce` says nothing of messages not yet dispatched:
until the version comes, what a task has read is what it keeps for later, all of
it and in order (`KeptForLater`), and from then on what is dispatched is what it
has read without the version (`Told`), which the server sends once (`OneAnswer`).
The early messages are dispatched by a fold, whose result `EarlyOnesLogged` gives for
any number of them. A task that has opened its connection is the only one
(`OneBegun`), so the version is that of its connection or none (`VersionIsOwn`).

The same module is about `Codec`. Every item is laid out between the places at which
it and the next begin (`Layout`), what a version leaves out in writing is what it does
not read (`Limits`), and reading an item from where it was laid out
yields what it means and ends where the next begins (`Progress`): `ReadsAsWritten`
(`RoundTrip`), `RaisesOnlyOver` (`RaisedCause`) and `CodecTypeCorrect`, for messages of
any length and any number of versions. `AttributesTold` (`OnlyFirstAttributeTold`) and
`HistoryLength` (`DurationKept`) are about the conversions; lemma `DaysKept` has the
latter for any number of seconds.

`InstrumentsProofs`: `TypeCorrect`, `RegistryIsRight`, `StreamsAreApart`,
`OnlyUnnamedRequestsRaise` (`RaisedCause`), `KnownIdsStand` (`IdsStand`). The last
two need to know what a request that sent an id has pending: an instrument with
that id, unless it was meddled with (`AskedById`). `StreamsAreApart` needs a named
instrument to stay named (`StillNamed`): equality then is identity, by `RegistryRight`.

`PositionsProofs`: `TypeCorrect`, `StreamFollowsHandlers` (`StreamMatches`),
`WaitersAreServed` (a caller that waits has the current future, and the end of
its listing is to come unless the handlers went first), `DummiesArePaired` (the
callback never raises `KeyError`). The end to come is an invariant of the
current future whoever waits (`ListingToCome`), and only the current one is ever
pending (`PendingIsCurrent`). `SharersKeepWaiting` (`SharedFutureKept`) is the action
property: who shares a future is not cancelled by a subscription, unless the stream
had lost its handlers before.

In the same module, `CurrentTime`: `TimeTypeCorrect`, `MisfiresOnlyWhenUndue`
(`MisfireCause`), and `DueCallsAreRemembered`. The future that answers go to is that
of the request answered (`LastCallWaits`, `AskedIsCurrent`, `CurrentIsAsked`), until a
call is given up or overtaken.

`SubscriptionsProofs`: `TypeCorrect`, `DataIsRouted` (`Routed`), `NoStreamIsLeaked`
(`NoStreamLeaks`), `HandlersAreServed` (`HandlersServed`), `OnlyBooksRaise`
(`OnlyStrayDepthRaises`). `Has` says how an instrument finds its request, by the
id it keeps or, for ticks, through the table. Client and server agree on who has
which id (`Agreed`), which needs ids not yet drawn to be unknown (`Fresh`) and an
id to be sent for one stream only, also when sending raised (`OwnRequest`); what has an
id is wanted by handlers or by the application (`Wanted`), and handlers have an id unless
they are `unheard` (`Heard`); what a message looks up is there (`Found`), also after
`disconnect()` (`LoopInv`).

The same module is about `MarketDepth`: `DepthTypeCorrect` and `BookIsOnTop`
(`BookOnTop`). The property itself is about the end of a queue of messages: applying
those that are left turns the rows into the server's book on top of what was left.
The inductive form follows that fold through every message (`Leads`): there is a
path of rows, one for each message in flight, along which each change finds its row
and which ends at the server's book. The server makes the path longer at its end: on
top of what was left, its change does what it does to the book (`ChangeOnTop`). The
client takes the first step of the path away.

`EventProofs`: `TypeCorrect`, `DeliveredInOrderOnce`, `WakeupsAreNotLost`,
`WokenConsumersFindValues`, and `QueueIsChannel`: `Spec => C!Spec`. A suspended
consumer's queue is empty exactly when its future is unresolved, and that is
kept by `push` because it appends and resolves in one step.

And of `EventInstance`: `NoStreamIsStray` (`NoStrayStream`) and `HandlersAreServed`
(`ConsumersServed`), for any handlers, references and depth of dispatches. What the
code does to its list of weak references is a fold; `LiveHandlersOf` says that it
yields handlers, no more than there were, and none from an empty list. The two
properties are inductive only together, and with the server keeping no stream of a
connection that was lost (`StreamInv`).

`SequenceLemmas`. The library's induction theorems take an operator for a
parameter, which the provers cannot instantiate; `NatInduct` takes a set instead and
rests on a well-founded order alone. With it `FoldExists` shows that the function by which
`FoldLeft` is defined exists, `FoldHasPath` that a fold runs along a path of
intermediate results, and `FoldIs` that any such path ends where the fold does.
The step that is folded is the module's constant `Step`: `Log`, `KeepLive` and `Applied`
in its three instances.

Proofs changed the models in three places. In `Codec`, two definitions turned out to
be underdetermined: the count of a list was a `CHOOSE` with more than one answer, and
the cases of `Parse` overlapped; TLC evaluates the first that fits and saw neither.
`InOrderOnce` of `Connection` is stated by the set of what was dispatched before, which says
the same as the sequence it was compared with.

Only model-checked: all liveness properties (`EventuallySettled`, `SubscriptionsSettle`,
`EachCallAnswered`, `CallersAnswered`, `DummyGoes`, `AllDelivered`, `AbandonedStreamCloses`,
`DisconnectEnds`), for fairness and `ENABLED` are out of the prover's reach. All other
properties of the passing runs are proved, and the violation of
`requests_cancelled_error` is a trace of TLC's.

## Where the code disagrees with its own documents

`requests_cancelled_error` expects a violation; the trace that TLC finds is an
execution of the code: an error for a call whose caller has cancelled it ends the
message loop, because `_handle_err_msg` does not ask whether the future is done,
as `resolve_future` does. `PROJECT.json` quotes the lines of either side.

The properties of the passing runs name the other exceptions they found, so
that nothing hides behind them:

| Where | What happens | Named in |
|---|---|---|
| `orders.py:302` | a warning about an order fails its future, though `errors.py:104` has codes of warnings ("PlaceOrder is now processed") | `OrderRouting` |
| `orders.py:304` | an error about request *n* fails order *n* when that waits, and the request waits on | `crossed`, and `cause` in `OrderRouting` |
| `orders.py:309` | an error about order *n* that nobody waits for fails request *n* | `crossed` |
| `orders.py:94` | orders placed without an id share `_next_order_id`, and the future of the first is overwritten: its caller waits for ever, as when an order is placed again before it is reported | `overtaken` |
| `orders.py:119` | a handler of a status that places an order under that id has the new future resolved, with the order of before | `again` |
| `orders.py:135` | another client's order with an id of ours is taken for ours, and resolves its future | `Report`, `KnownOrNew` |
| `market_data.py:44` | `get_market_data` of a stream that is already requested returns a future that is in no table; `resolve_future` at line 76 does not find it, though line 75 says that subscriptions are complete once sent: the caller waits for ever | `lone` |
| `tickbytick.py:19` | all instruments without a contract id share one entry: the ticks of the last one asked for go to it alone, and any of them ends the stream | `unnamed` in `StreamsApart` |
| `orders.py:48` | a listing ends over a cancelled future: the loop ends | `OrdersMisfireCause` |
| `current_time.py:17` | of two overlapping calls the first is never answered, and the second answer ends the loop | `undue` |
| `event.py:23` | a value taken without waiting leaves the future done; the next `__anext__` on the empty queue raises `IndexError` | `AllDelivered` |
| `event.py:84` | a handler whose subscription raised stays in the list; the next is added without a stream | `unserved` |
| `position.py:56` | "Already subscribed. Data is up-to-date": not after a reconnection, nor before the listing has come | `held_over` |
| `position.py:57` | a caller that shares the future waits for ever when the handlers go before the listing ends; one that gives up cancels it for all | `CallersAnswered` |
| `position.py:59` | `get_positions` that raises leaves its dummy in the list | `held_over` of `DummyGoes` |
| `market_depth.py:42` | a message of a book that crosses its cancellation ends the loop | `OnlyStrayDepthRaises` |
| `instrument.py:306` | the rows of a book survive its subscription, and lie under those of the next | `left` |
| `instrument_details.py:87` | the rows of a request without a contract id are all written over one instrument, whose entry in `_pending_instrument_updates` is never removed; an id changed so is put back by the rows of a request that named it | `IdsStand` |
| `matching_symbols.py:19` | a sample of an instrument that exists fails its assertion and ends the loop | `RaisedCause` |
| `protocol.py:390` | `disconnect()` raises `AttributeError`, for it has cleared `self.writer` | `Connection.Disconnect` |
| `protocol.py:128` | a type of security that `SecurityType` lacks (options) raises in the loop | `RaisedCause` of `Codec` |
| `protocol.py:163` | 2147483647 and larger integers are read as `None` | `Meaning` |
| `tick_types.py:20` | `list_from_int` never ends over any attribute but the first | `OnlyFirstAttributeTold` |
| `utils.py:25` | durations of 65536 to 86399 seconds are sent as `0 D` | `DurationKept` |

## What is left out

- What a tick, a bar or an execution contains, and what a tick writes into its
  instrument: no property depends on it.
- `execution.py`, `errors.py` beyond the two classes of codes: no state.
- `change_market_data_timeliness` and `MARKET_DATA_TYPE`: one assignment, never read.
- `connect()` of the package: it makes a coroutine and does not await it.
- The growth of a queue whose consumer never asks: there is no limit in the code.
- What happens beyond the assumptions above: two tasks on one reader, instruments
  renamed to 0.
- The liveness of orders: the unsymmetric state space is several times that of
  `orders`. `NoOrderLeftWaiting` states its safety part.
- Cancelled snapshots and their errors: a snapshot's future behaves as a
  future of `Requests`.

## Plan

1. The abstract specification of a stream (opened for the first consumer, closed
   after the last, data only in between), which `EventInstance`, `Subscriptions` and
   `Positions` should each implement.
2. Liveness of orders on a smaller instance.
3. What a tick writes into its instrument, and which updates are told to handlers.
4. Theorems about those: that `EventInstance`, `Subscriptions` and `Positions`
   implement the abstract stream, step by step.
