---------------------------- MODULE Subscriptions ----------------------------
(* The four kinds of stream an instrument has: market data, market depth,    *)
(* real-time bars and tick-by-tick data.  The event of a stream calls        *)
(* on_subscribe for its first handler and on_unsubscribe after its last (see *)
(* EventInstance); the mixins keep a table from request id to instrument and *)
(* the instrument its request id.  The server goes on sending until it has   *)
(* read the cancellation, and may refuse a stream at any time.               *)
(* The mixins' tables are one function here: their ids come from the same    *)
(* counter and never coincide.                                               *)
EXTENDS Integers

CONSTANTS
    Market, Depth, Bars, Ticks,  \* the streams of each kind, one an instrument
    None,
    MaxRequests,                 \* bound: how many request ids are ever drawn
    MaxListeners                 \* bound: handlers registered for one stream

Stream == Market \cup Depth \cup Bars \cup Ticks

ASSUME StreamAssumption ==
    /\ None \notin Stream
    /\ Market \cap (Depth \cup Bars \cup Ticks) = {}
    /\ Depth \cap (Bars \cup Ticks) = {} /\ Bars \cap Ticks = {}
ASSUME SubscriptionBounds == MaxRequests \in Nat /\ MaxListeners \in Nat

Ids == 1..MaxRequests

VARIABLES
    next_request_id,  \* Protocol.next_request_id
    table,            \* __instruments and _realtime_bar_instruments: id -> stream
    request_id,       \* Instrument._market_data_request_id and the like, 0 for None
    listeners,        \* handlers registered for the event of each stream
    future,           \* the future made under each id, and not yet popped if waiting
    called,           \* history: streams without handlers that the application asked for
    unheard,          \* history: with handlers, but subscribing raised or it was cancelled
    req,              \* server: the stream each id was last requested for
    status,           \* server: what has become of each id
    writer,           \* Protocol.writer
    loop              \* the task running _message_loop, as in Requests

callers == <<called, unheard>>
client == <<next_request_id, table, request_id, listeners, future, callers>>
vars == <<client, req, status, writer, loop>>

\* "stray": cancelled, with messages perhaps still on their way.
Statuses == {"none", "open", "snapshot", "stray", "over", "refused"}

\* "lone": a later call made under that id awaits a future that no table knows.
Futures == {"none", "waiting", "orphaned", "done", "failed", "lone"}

TypeOK ==
    /\ next_request_id \in 1..(MaxRequests + 1)
    /\ table \in [Ids -> Stream \cup {None}]
    /\ request_id \in [Stream -> Ids \cup {0}]
    /\ listeners \in [Stream -> 0..MaxListeners]
    /\ future \in [Ids -> Futures]
    /\ called \subseteq Market /\ unheard \subseteq Stream
    /\ req \in [Ids -> Stream \cup {None}]
    /\ status \in [Ids -> Statuses]
    /\ writer \in {"open", "broken", "closed"}
    /\ loop \in {"running", "draining", "stopped", "raised"}

Init ==
    /\ next_request_id = 1
    /\ table = [i \in Ids |-> None]
    /\ request_id = [s \in Stream |-> 0]
    /\ listeners = [s \in Stream |-> 0]
    /\ future = [i \in Ids |-> "none"]
    /\ called = {} /\ unheard = {}
    /\ req = [i \in Ids |-> None]
    /\ status = [i \in Ids |-> "none"]
    /\ writer = "open"
    /\ loop = "running"

-----------------------------------------------------------------------------
\* Request ids.

\* TickByTickMixin finds the id of a stream in its table; the other mixins keep
\* it on the instrument.
RequestId(s) ==
    IF s \in Ticks
    THEN IF \E i \in Ids : table[i] = s THEN CHOOSE i \in Ids : table[i] = s ELSE 0
    ELSE request_id[s]

\* Mutant of SubscriptionId: the id of the last request is not used again.
FreshId(s) == next_request_id

\* The id a subscription is made under.  Bars always take a fresh one.
SubscriptionId(s) ==
    IF s \notin Bars /\ RequestId(s) # 0 THEN RequestId(s) ELSE next_request_id

Drawn(id) == /\ id \in Ids
             /\ next_request_id' = IF id = next_request_id THEN id + 1 ELSE next_request_id

\* The state of the future made with a fresh id; a used one keeps its own.
MadeFuture(id, outcome) ==
    future' = IF id = next_request_id THEN [future EXCEPT ![id] = outcome] ELSE future

\* Market data is complete once requested.  Under a used id it makes a new future
\* and leaves it out of the table, so that resolve_future does not find it: who
\* awaits that one, waits for ever.
MarketFuture(id, awaited) ==
    future' = [future EXCEPT ![id] = IF id = next_request_id THEN "done"
                                     ELSE IF awaited THEN "lone" ELSE @]

\* The server learns of a request unless the connection is broken.
Asked(id, s, kind) ==
    IF writer = "open" THEN /\ req' = [req EXCEPT ![id] = s]
                            /\ status' = [status EXCEPT ![id] = kind]
                       ELSE UNCHANGED <<req, status>>

-----------------------------------------------------------------------------
\* on_subscribe.

\* The request is sent: every kind fills its table, and the instrument keeps
\* the id.  Only the future of a bars subscription waits for its first answer.
Subscribe(s, awaited) ==
    LET id == SubscriptionId(s) IN
    /\ writer # "closed"
    /\ Drawn(id)
    /\ table' = [table EXCEPT ![id] = s]
    /\ request_id' = IF s \in Ticks THEN request_id ELSE [request_id EXCEPT ![s] = id]
    /\ CASE s \in Market -> MarketFuture(id, awaited)
         [] s \in Depth  -> MadeFuture(id, "done")
         [] s \in Bars   -> MadeFuture(id, "waiting")
         [] s \in Ticks  -> UNCHANGED future
    /\ Asked(id, s, "open")
    /\ unheard' = unheard \ {s}

\* on_subscribe raises: without a writer, for market data of a BAG instrument,
\* or for tick-by-tick data from an old server, before an id is drawn.
SubscribeRaises(s) ==
    LET id == SubscriptionId(s) IN
    /\ writer = "closed" \/ s \in Market \cup Ticks
    /\ \/ /\ s \in Ticks
          /\ UNCHANGED <<next_request_id, table, future>>
       \/ /\ s \in Ticks => writer = "closed"
          /\ Drawn(id)
          /\ table' = IF s \in Ticks THEN [table EXCEPT ![id] = s] ELSE table
          /\ CASE s \in Market \cup Bars -> MadeFuture(id, "orphaned")
               [] s \in Depth            -> MadeFuture(id, "done")
               [] s \in Ticks            -> UNCHANGED future
    /\ unheard' = IF listeners[s] = 0 /\ listeners'[s] > 0 THEN unheard \cup {s} ELSE unheard
    /\ UNCHANGED <<request_id, req, status>>

-----------------------------------------------------------------------------
\* on_unsubscribe.

\* The server closes the stream when it has read the cancellation.
Cancelled(id) ==
    status' = IF writer = "open" /\ id # 0 /\ status[id] = "open"
              THEN [status EXCEPT ![id] = "stray"] ELSE status

\* Mutant of Forgets: every entry of the instrument goes, its snapshots' too.
ForgetsAll(s) == table' = [i \in Ids |-> IF table[i] = s THEN None ELSE table[i]]

\* Market data is never taken out of the table.
Forgets(s) ==
    table' = IF s \in Market \/ RequestId(s) = 0 THEN table
             ELSE [table EXCEPT ![RequestId(s)] = None]

\* The bars future that waits for its first bar is resolved with None.
BarsResolved(s) ==
    future' = IF s \in Bars /\ RequestId(s) # 0 /\ future[RequestId(s)] = "waiting"
              THEN [future EXCEPT ![RequestId(s)] = "done"] ELSE future

\* Mutant of IdForgotten: the instrument keeps the id of what it has cancelled.
IdKept(s) == UNCHANGED request_id

IdForgotten(s) == request_id' = [request_id EXCEPT ![s] = 0]

Unsubscribe(s) ==
    /\ writer # "closed"
    /\ Forgets(s)
    /\ BarsResolved(s)
    /\ IdForgotten(s)
    /\ Cancelled(RequestId(s))
    /\ UNCHANGED <<next_request_id, req>>

\* Without a writer send raises: bars and ticks have been forgotten by then,
\* the others have not, and every instrument keeps its id.
UnsubscribeRaises(s) ==
    /\ writer = "closed"
    /\ IF s \in Bars \cup Ticks THEN Forgets(s) /\ BarsResolved(s)
                                ELSE UNCHANGED <<table, future>>
    /\ UNCHANGED <<next_request_id, request_id, req, status>>

-----------------------------------------------------------------------------
\* Handlers come and go (see EventInstance).

AddListener(s) ==
    /\ listeners[s] < MaxListeners
    /\ listeners' = [listeners EXCEPT ![s] = @ + 1]
    /\ called' = called \ {s}
    /\ IF listeners[s] = 0 THEN Subscribe(s, FALSE) \/ SubscribeRaises(s)
       ELSE UNCHANGED <<next_request_id, table, request_id, future, unheard, req, status>>
    /\ UNCHANGED <<writer, loop>>

RemoveListener(s) ==
    /\ listeners[s] > 0
    /\ listeners' = [listeners EXCEPT ![s] = @ - 1]
    /\ IF listeners[s] = 1
       THEN (Unsubscribe(s) \/ UnsubscribeRaises(s)) /\ unheard' = unheard \ {s}
       ELSE UNCHANGED <<next_request_id, table, request_id, future, unheard, req, status>>
    /\ UNCHANGED <<called, writer, loop>>

\* Setting market_data_tick_types or market_depth_rows subscribes again.
Resubscribe(s) ==
    /\ s \in Market \cup Depth
    /\ listeners[s] > 0
    /\ Subscribe(s, FALSE) \/ SubscribeRaises(s)
    /\ UNCHANGED <<listeners, called, writer, loop>>

\* The application awaits get_market_data itself, beside handlers or without.
GetMarketData(s) ==
    /\ s \in Market
    /\ UNCHANGED listeners
    /\ \/ /\ Subscribe(s, TRUE)
          /\ called' = IF listeners[s] = 0 THEN called \cup {s} ELSE called
       \/ SubscribeRaises(s) /\ UNCHANGED called
    /\ UNCHANGED <<writer, loop>>

\* It calls cancel_market_data itself, and its handlers then hear nothing.
CancelMarketData(s) ==
    /\ s \in Market
    /\ Unsubscribe(s) \/ UnsubscribeRaises(s)
    /\ called' = IF writer = "closed" THEN called ELSE called \ {s}
    /\ unheard' = IF listeners[s] > 0 THEN unheard \cup {s} ELSE unheard
    /\ UNCHANGED <<listeners, writer, loop>>

\* fetch_market_data: a request of its own beside the stream.
Snapshot(s) ==
    LET id == next_request_id IN
    /\ s \in Market
    /\ Drawn(id)
    /\ \/ /\ writer # "closed"
          /\ MadeFuture(id, "waiting")
          /\ table' = [table EXCEPT ![id] = s]
          /\ Asked(id, s, "snapshot")
       \/ /\ MadeFuture(id, "orphaned")
          /\ UNCHANGED <<table, req, status>>
    /\ UNCHANGED <<request_id, listeners, callers, writer, loop>>

-----------------------------------------------------------------------------
\* Messages.

Dispatching == loop \in {"running", "draining"}

AfterDispatch == IF loop = "draining" THEN "stopped" ELSE loop

ResolvedByBar(id) ==
    future' = IF req[id] \in Bars /\ future[id] = "waiting"
              THEN [future EXCEPT ![id] = "done"] ELSE future

\* Mutant of LooksUp: bars and ticks are looked up like depth.
LooksUpAll(id) == table[id] # None

\* Market data and depth use what they find without asking; bars and ticks
\* of an unknown id are ignored.
LooksUp(id) == req[id] \in Market \cup Depth => table[id] # None

\* A tick, bar or depth message of a stream, perhaps after its cancellation.
Data(id) ==
    /\ Dispatching
    /\ status[id] \in {"open", "snapshot", "stray"}
    /\ ResolvedByBar(id)
    /\ loop' = IF LooksUp(id) THEN AfterDispatch ELSE "raised"
    /\ UNCHANGED <<next_request_id, table, request_id, listeners, callers, req, status, writer>>

\* Mutant of SnapshotResolved: the end only clears the table.
SnapshotUnresolved(id) == UNCHANGED future

SnapshotResolved(id) ==
    future' = IF future[id] = "waiting" THEN [future EXCEPT ![id] = "done"] ELSE future

\* TICK_SNAPSHOT_END
SnapshotEnd(id) ==
    /\ Dispatching
    /\ status[id] = "snapshot"
    /\ status' = [status EXCEPT ![id] = "over"]
    /\ table' = [table EXCEPT ![id] = None]
    /\ SnapshotResolved(id)
    /\ loop' = AfterDispatch
    /\ UNCHANGED <<next_request_id, request_id, listeners, callers, req, writer>>

\* ERR_MSG: the server refuses the stream or the snapshot.  Only the future
\* learns of it.
Refused(id) ==
    /\ Dispatching
    /\ status[id] \in {"open", "snapshot"}
    /\ status' = [status EXCEPT ![id] = "refused"]
    /\ future' = IF future[id] = "waiting" THEN [future EXCEPT ![id] = "failed"] ELSE future
    /\ loop' = AfterDispatch
    /\ UNCHANGED <<next_request_id, table, request_id, listeners, callers, req, writer>>

\* The last message sent before the server read the cancellation has come.
StraysOver(id) ==
    /\ status[id] = "stray"
    /\ status' = [status EXCEPT ![id] = "over"]
    /\ UNCHANGED <<client, req, writer, loop>>

\* A loop that is reading may still dispatch the message it was reading.
Disconnect ==
    /\ writer # "closed"
    /\ writer' = "closed"
    /\ loop' \in IF loop = "running" THEN {"draining", "stopped"} ELSE {loop}
    /\ UNCHANGED <<client, req, status>>

ConnectionLost ==
    /\ writer = "open" /\ loop = "running"
    /\ writer' = "broken"
    /\ loop' = "stopped"
    /\ UNCHANGED <<client, req, status>>

Message(id) == Data(id) \/ SnapshotEnd(id) \/ Refused(id) \/ StraysOver(id)

Next == \/ \E s \in Stream : \/ AddListener(s) \/ RemoveListener(s)
                             \/ Resubscribe(s) \/ Snapshot(s)
                             \/ GetMarketData(s) \/ CancelMarketData(s)
        \/ \E id \in Ids : Message(id)
        \/ Disconnect
        \/ ConnectionLost

Spec == Init /\ [][Next]_vars

\* The server sends the first data of each stream and ends each snapshot, or
\* refuses it.
FairSpec == Spec /\ \A id \in Ids :
    /\ WF_vars(future[id] = "waiting" /\ (Data(id) \/ Refused(id)))
    /\ WF_vars(SnapshotEnd(id) \/ (status[id] = "snapshot" /\ Refused(id)))

-----------------------------------------------------------------------------
\* Properties, while the connection lasts.

\* Every stream and snapshot open at the server has its id in the table, for the
\* very instrument it was asked for: its data goes nowhere else.
Routed == writer = "open" =>
    \A id \in Ids : status[id] \in {"open", "snapshot"} => table[id] = req[id]

\* Every stream open at the server is the only one for its instrument, has
\* handlers or was asked for by the application, and can be cancelled: through
\* raising and repeated subscriptions, refusals and snapshots none is leaked.
NoStreamLeaks ==
    writer = "open" =>
        \A id \in Ids : status[id] = "open" =>
            /\ RequestId(req[id]) = id
            /\ listeners[req[id]] > 0 \/ req[id] \in called

\* Handlers have a stream, unless subscribing for the first of them raised or the
\* application cancelled it beside them; and a stream with an id is wanted, and
\* open unless the server has refused it: a cancelled id is never taken for live.
HandlersServed ==
    writer = "open" =>
        \A s \in Stream :
            /\ listeners[s] > 0 /\ s \notin unheard => RequestId(s) # 0
            /\ RequestId(s) # 0 => /\ listeners[s] > 0 \/ s \in called
                                   /\ status[RequestId(s)] \in {"open", "refused"}

\* Only a depth message that crossed its cancellation ends the loop; stray bars
\* and ticks (test_func_realtime_bars.py: "Simulate a stray bar arriving") do not.
OnlyStrayDepthRaises ==
    loop = "raised" => \E id \in Ids : /\ status[id] \in {"stray", "over"}
                                       /\ req[id] \in Depth

\* "subscriptions are complete as soon as the request is sent" (market_data.py), or
\* when their first bar or the end of the snapshot comes: everyone who waits under
\* an id of the table gets an answer.  The lone ones, who have called
\* get_market_data for a stream that had an id, do not.
SubscriptionsSettle ==
    \A id \in Ids : future[id] = "waiting" ~> (future[id] # "waiting" \/ loop # "running")
=============================================================================
