-------------------------------- MODULE Orders -------------------------------
(* OrdersMixin on top of Requests: place_order and the futures it returns,   *)
(* the table of known orders, the messages that update it, get_open_orders,  *)
(* and the _handle_err_msg that takes precedence over the one of Protocol.   *)
(* Orders and requests share the message loop, the writer and the ERR_MSG    *)
(* message, whose id names either an order or a request.                     *)
(* The handlers of Order.updated run in the middle of a status, before its   *)
(* future is resolved, and may place orders or give up on them themselves.   *)
EXTENDS Requests

CONSTANTS
    Order,        \* Order objects, of the application or made by a handler
    OFuture,      \* the futures place_order creates
    OrderIds,     \* bound: the order ids in use; they may overlap Ids
    GivenIds,     \* bound: the ones that NEXT_VALID_ID and the application name
    MaxListings   \* bound: REQ_ALL_OPEN_ORDERS in flight at once

ASSUME OrderAssumption == /\ None \notin Order \cup OFuture
                          /\ OrderIds \subseteq Nat \ {0} /\ 1 \in OrderIds
                          /\ GivenIds \subseteq OrderIds
                          /\ MaxListings \in Nat

VARIABLES
    next_order_id,       \* OrdersMixin._next_order_id
    order_id,            \* Order.order_id of each object, 0 when not set
    orders,              \* OrdersMixin.__orders: id -> object
    submitted_future,    \* OrdersMixin.__submitted_future: id -> future
    ostate,              \* the asyncio state of each place_order future
    placed,              \* the object each future was returned for
    under,               \* the id it was placed under
    oresult,             \* the object each future was resolved with
    open_orders_future,  \* OrdersMixin.__open_orders_future
    cause,               \* history: what message decided each future, and its id
    subject,             \* the message whose updated handlers run: id, order, and what it was
    again,               \* history: futures such a handler made under the id of its own status
    overtaken,           \* history: futures awaited when their id was placed again
    crossed,             \* history: errors about a request or an order that failed the other
    undecided,           \* server: ids placed and not reported or rejected since
    rejected,            \* server: requests it has sent an error for
    listings             \* server: REQ_ALL_OPEN_ORDERS it has yet to close

tables  == <<next_order_id, order_id, orders>>
awaited == <<submitted_future, ostate, placed, under, oresult, cause>>
oserver == <<undecided, rejected, listings>>
orderVars == <<tables, awaited, open_orders_future, oserver>>
handling == <<subject, again, overtaken>>
allVars == <<vars, orderVars, handling, crossed>>

\* A report of an order, an error or a warning about one, or an ERR_MSG about a
\* request.
Causes == {"report", "error", "warning", "request"}

OrdersTypeOK ==
    /\ TypeOK
    /\ next_order_id \in OrderIds
    /\ order_id \in [Order -> OrderIds \cup {0}]
    /\ orders \in [OrderIds -> Order \cup {None}]
    /\ submitted_future \in [OrderIds -> OFuture \cup {None}]
    /\ ostate \in [OFuture -> States]
    /\ placed \in [OFuture -> Order \cup {None}]
    /\ under \in [OFuture -> OrderIds \cup {0}]
    /\ oresult \in [OFuture -> Order \cup {None}]
    /\ open_orders_future \in {"none", "pending", "cancelled"}
    /\ cause \in [OFuture -> (Causes \X OrderIds) \cup {<<>>}]
    /\ subject \in (OrderIds \X Order \X {"status", "opened"}) \cup {<<>>}
    /\ again \subseteq OFuture /\ overtaken \subseteq OFuture
    /\ crossed \subseteq Ids \X {"order", "request"}
    /\ undecided \subseteq OrderIds
    /\ rejected \subseteq Ids
    /\ listings \in 0..MaxListings

OrdersInit ==
    /\ Init
    /\ next_order_id = 1
    /\ order_id = [o \in Order |-> 0]
    /\ orders = [i \in OrderIds |-> None]
    /\ submitted_future = [i \in OrderIds |-> None]
    /\ ostate = [f \in OFuture |-> "unused"]
    /\ placed = [f \in OFuture |-> None]
    /\ under = [f \in OFuture |-> 0]
    /\ oresult = [f \in OFuture |-> None]
    /\ open_orders_future = "none"
    /\ cause = [f \in OFuture |-> <<>>]
    /\ subject = <<>> /\ again = {} /\ overtaken = {} /\ crossed = {}
    /\ undecided = {} /\ rejected = {}
    /\ listings = 0

ODone(f) == ostate[f] \in {"result", "exception", "cancelled"}

\* No handler of an order is running, so the event loop can go on.
Idle == subject = <<>>

-----------------------------------------------------------------------------
\* The application, and what an updated handler may do too.

\* The id an order is placed under: an order without one takes _next_order_id,
\* which placing it does not advance.
PlacedId(o) == IF order_id[o] = 0 THEN next_order_id ELSE order_id[o]

\* The application sets order.order_id, whenever and to whatever it likes.
AssignId(o, id) ==
    /\ order_id' = [order_id EXCEPT ![o] = id]
    /\ UNCHANGED <<vars, next_order_id, orders, awaited, open_orders_future, oserver>>

\* The order has been serialized and sent; a broken connection loses it.
PlaceSent(id, f) ==
    /\ writer # "closed"
    /\ ostate' = [ostate EXCEPT ![f] = "pending"]
    /\ undecided' = IF writer = "open" THEN undecided \cup {id} ELSE undecided

\* Order.serialize raises for a BAG instrument and for order conditions, send
\* when there is no writer: nobody gets the future.
PlaceRaises(f) ==
    /\ ostate' = [ostate EXCEPT ![f] = "orphaned"]
    /\ UNCHANGED undecided

\* Who waits for an order of this id, whether or not the table still knows.
Awaiting(id) == {f \in OFuture : ostate[f] = "pending" /\ under[f] = id}

\* A status of this id is being handled; its future is resolved when that is done.
Reporting(id) == subject # <<>> /\ subject[1] = id /\ subject[3] = "status"

\* place_order, whatever the tables hold under that id already.  They are written
\* before the message is serialized and sent, so when that raises they keep what
\* they were given.
PlaceOrder(o, f) ==
    LET id == PlacedId(o) IN
    /\ ostate[f] = "unused"
    /\ order_id' = [order_id EXCEPT ![o] = id]
    /\ orders' = [orders EXCEPT ![id] = o]
    /\ submitted_future' = [submitted_future EXCEPT ![id] = f]
    /\ placed' = [placed EXCEPT ![f] = o]
    /\ under' = [under EXCEPT ![f] = id]
    /\ PlaceSent(id, f) \/ PlaceRaises(f)
    /\ again' = IF Reporting(id) THEN again \cup {f} ELSE again
    /\ overtaken' = overtaken \cup Awaiting(id)
    /\ UNCHANGED <<vars, next_order_id, oresult, cause, open_orders_future, rejected, listings>>

CancelOrderFuture(f) ==
    /\ ostate[f] = "pending"
    /\ ostate' = [ostate EXCEPT ![f] = "cancelled"]
    /\ UNCHANGED <<vars, tables, submitted_future, placed, under, oresult, cause,
                   open_orders_future, oserver>>

\* get_open_orders: one future shared by all callers until the list has ended,
\* one request each.  It is kept when send raises, and when it is cancelled.
GetOpenOrders ==
    /\ open_orders_future' = IF open_orders_future = "none" THEN "pending" ELSE open_orders_future
    /\ \/ writer = "open" /\ listings < MaxListings /\ listings' = listings + 1
       \/ writer # "open" /\ UNCHANGED listings
    /\ UNCHANGED <<vars, tables, awaited, undecided, rejected>>

CancelOpenOrders ==
    /\ open_orders_future = "pending"
    /\ open_orders_future' = "cancelled"
    /\ UNCHANGED <<vars, tables, awaited, oserver>>

-----------------------------------------------------------------------------
\* Messages.

\* What a future that is decided becomes.
Decide(f, s, o, what, id) ==
    /\ ostate' = [ostate EXCEPT ![f] = s]
    /\ oresult' = [oresult EXCEPT ![f] = o]
    /\ cause' = [cause EXCEPT ![f] = <<what, id>>]

\* Mutants of FinishOrder: the entry is read and kept; it is popped and dropped.
FinishOrderNoPop(id, s, o, what) ==
    LET f == submitted_future[id] IN
    /\ IF f = None \/ ODone(f) THEN UNCHANGED <<ostate, oresult, cause>>
       ELSE Decide(f, s, o, what, id)
    /\ UNCHANGED <<submitted_future, placed, under>>
FinishOrderDropped(id, s, o, what) ==
    /\ submitted_future' = [submitted_future EXCEPT ![id] = None]
    /\ UNCHANGED <<ostate, oresult, cause, placed, under>>

\* Pop the future of the order and finish it as s.
FinishOrder(id, s, o, what) ==
    LET f == submitted_future[id] IN
    /\ submitted_future' = [submitted_future EXCEPT ![id] = None]
    /\ IF f = None \/ ODone(f) THEN UNCHANGED <<ostate, oresult, cause>>
       ELSE Decide(f, s, o, what, id)
    /\ UNCHANGED <<placed, under>>

\* That is not asked: finishing a future already done raises, else the handler of
\* the message goes on.
Finishing(id, onwards) ==
    LET f == submitted_future[id] IN
    loop' = IF f # None /\ ODone(f) THEN "misfired" ELSE onwards

\* NEXT_VALID_ID, on every connection, soon or late.
NextValidId(n) ==
    /\ Dispatching
    /\ next_order_id' = n
    /\ loop' = AfterDispatch
    /\ UNCHANGED <<futures, pending_execs, server, writer, order_id, orders, awaited,
                   open_orders_future, oserver, crossed>>

\* The server has said what became of the order; or it had sent the report before
\* it read the order, placed again since; or the order is another client's, or an
\* earlier session's, and only has the id.
Report(id) == /\ undecided' \in {undecided, undecided \ {id}}
              /\ UNCHANGED <<rejected, listings, crossed>>

\* Mutant: a status updates the order and leaves its future alone.
OrderStatusUpdateOnly(id) ==
    /\ Dispatching
    /\ Report(id)
    /\ loop' = AfterDispatch
    /\ UNCHANGED <<futures, pending_execs, server, writer, tables, awaited, open_orders_future,
                   handling>>

\* ORDER_STATUS, up to its updated handlers; one of an order this client does not
\* know is ignored.
OrderStatus(id) ==
    /\ Dispatching
    /\ Report(id)
    /\ IF orders[id] = None
       THEN loop' = AfterDispatch /\ UNCHANGED subject
       ELSE subject' = <<id, orders[id], "status">> /\ UNCHANGED loop
    /\ UNCHANGED <<futures, pending_execs, server, writer, tables, awaited, open_orders_future,
                   again, overtaken>>

\* Mutant of KnownOrNew: a new object every time.
AlwaysNew(id, o) ==
    /\ order_id[o] = 0
    /\ order_id' = [order_id EXCEPT ![o] = id]
    /\ orders' = [orders EXCEPT ![id] = o]

\* An object nobody has used yet.
Fresh(o) == /\ order_id[o] = 0
            /\ \A i \in OrderIds : orders[i] # o
            /\ \A f \in OFuture : placed[f] # o

\* The order of an OPEN_ORDER: the one known by its id, whoever placed it, or a
\* new object.
KnownOrNew(id, o) ==
    /\ IF orders[id] # None THEN o = orders[id] ELSE Fresh(o)
    /\ order_id' = [order_id EXCEPT ![o] = id]
    /\ orders' = [orders EXCEPT ![id] = o]

\* OPEN_ORDER, up to its updated handlers, which come after the future here.  It
\* raises UnsupportedFeature for combo legs and for conditions, after it has
\* entered the order and before it resolves the future.
OpenOrder(id, o, unsupported) ==
    /\ Dispatching
    /\ Report(id)
    /\ KnownOrNew(id, o)
    /\ IF unsupported
       THEN loop' = "raised" /\ UNCHANGED <<awaited, subject>>
       ELSE /\ FinishOrder(id, "result", o, "report")
            /\ Finishing(id, loop)
            /\ subject' = IF loop' = "misfired" THEN <<>> ELSE <<id, o, "opened">>
    /\ UNCHANGED <<futures, pending_execs, server, writer, next_order_id, open_orders_future,
                   again, overtaken>>

\* The handlers have returned: whatever future the order of a status has by now
\* is resolved with the order that was looked up before they ran.
HandlersReturn ==
    /\ ~Idle
    /\ IF subject[3] = "opened"
       THEN loop' = AfterDispatch /\ UNCHANGED awaited
       ELSE /\ FinishOrder(subject[1], "result", subject[2], "report")
            /\ Finishing(subject[1], AfterDispatch)
    /\ subject' = <<>>
    /\ UNCHANGED <<futures, pending_execs, server, writer, tables, open_orders_future, oserver,
                   again, overtaken, crossed>>

\* A handler raises, and the future of a status is left as it is.
HandlerRaises ==
    /\ ~Idle
    /\ loop' = "raised"
    /\ subject' = <<>>
    /\ UNCHANGED <<futures, pending_execs, server, writer, orderVars, again, overtaken, crossed>>

\* set_result without asking whether the future is done, then forget it.
ListingEnded ==
    IF open_orders_future = "cancelled"
    THEN loop' = "misfired" /\ UNCHANGED open_orders_future
    ELSE loop' = AfterDispatch /\ open_orders_future' = "none"

OpenOrderEnd ==
    /\ Dispatching
    /\ listings > 0
    /\ listings' = listings - 1
    /\ ListingEnded
    /\ UNCHANGED <<futures, pending_execs, server, writer, tables, awaited, undecided, rejected,
                   crossed>>

\* A call waits for a response under this number, be it one of orders too.
Expecting(id) == id \in Ids /\ pending_responses[id] # None

\* Mutant: a request's error is logged once orders have passed it on.
SuperErrMsgLogged(id, code, about) ==
    UNCHANGED <<pending_responses, state, value, callback, errs>> /\ loop' = AfterDispatch

\* Protocol._handle_err_msg: warnings are logged, errors fail the request of that
\* number, whatever they are about.  So errs is here what Protocol is handed.
SuperErrMsg(id, code, about) ==
    IF code = "error" /\ (about = "request" \/ Expecting(id))
    THEN FailFuture(id) /\ errs' = IF request[id] # None THEN errs \cup {id} ELSE errs
    ELSE UNCHANGED <<pending_responses, state, value, callback, errs>> /\ loop' = AfterDispatch

\* An order waits under this number, be it one of requests too.
OrderAwaited(id) == id \in OrderIds /\ submitted_future[id] # None

\* An error fails an order or a call that it is not about.
Crosses(id, about) ==
    IF about = "request" THEN OrderAwaited(id) ELSE ~OrderAwaited(id) /\ Expecting(id)

\* ERR_MSG about an order or about a request: OrdersMixin looks for an order of
\* that id first, whatever the code, and only then asks Protocol.
HandleErrMsg(id, code, about) ==
    /\ Dispatching
    /\ about = "order" => id \in OrderIds
    /\ about = "request" => id \in Ids /\ request[id] # None
    /\ rejected' = IF about = "request" /\ code = "error" THEN rejected \cup {id} ELSE rejected
    /\ undecided' = IF about = "order" /\ code = "error" THEN undecided \ {id} ELSE undecided
    /\ crossed' = IF code = "error" /\ Crosses(id, about) THEN crossed \cup {<<id, about>>} ELSE crossed
    /\ IF OrderAwaited(id)
       THEN /\ FinishOrder(id, "exception", None, IF about = "order" THEN code ELSE about)
            /\ Finishing(id, AfterDispatch)
            /\ UNCHANGED <<pending_responses, state, value, callback, errs>>
       ELSE /\ UNCHANGED awaited
            /\ SuperErrMsg(id, code, about)
    /\ UNCHANGED <<next_request_id, rid, pending_execs, request, rows, final, cancels, writer,
                   tables, open_orders_future, listings>>

-----------------------------------------------------------------------------
\* Requests as before, except for its ERR_MSG handlers.
RequestStep ==
    /\ \/ \E f \in Future : Calls(f)
       \/ \E id \in Ids : Closing(id) \/ Row(id)
       \/ Disconnect
       \/ ConnectionLost
    /\ UNCHANGED <<orderVars, crossed>>

Application ==
    /\ \/ \E o \in Order, f \in OFuture : PlaceOrder(o, f)
       \/ /\ UNCHANGED <<again, overtaken>>
          /\ \/ \E f \in OFuture : CancelOrderFuture(f)
             \/ \E o \in Order, id \in GivenIds : AssignId(o, id)
             \/ GetOpenOrders
             \/ CancelOpenOrders
    /\ UNCHANGED <<subject, crossed>>

AStatus == \E id \in OrderIds : OrderStatus(id)

AnOpenOrder == \E id \in OrderIds, o \in Order, unsupported \in BOOLEAN : OpenOrder(id, o, unsupported)

AnyErrMsg == \E id \in Ids \cup OrderIds, code \in {"error", "warning"},
                about \in {"order", "request"} : HandleErrMsg(id, code, about)

OrdersNext ==
    \/ Application
    \/ HandlersReturn \/ HandlerRaises
    \/ Idle /\ (AStatus \/ AnOpenOrder)
    \/ /\ Idle /\ UNCHANGED handling
       /\ RequestStep \/ OpenOrderEnd \/ AnyErrMsg \/ \E n \in GivenIds : NextValidId(n)

OrdersSpec == OrdersInit /\ [][OrdersNext]_allVars

-----------------------------------------------------------------------------
\* Properties.

\* A place_order future is decided by a message under its own id.  It resolves
\* over a status or an open order, with the very Order it was returned for unless
\* a handler of such a status has just placed another one under that id.  It fails
\* over an error; over a warning too, though errors.py says of one that the order
\* is processed; and over an ERR_MSG about a request, if one has that number.
OrderRouting ==
    \A f \in OFuture :
        /\ ostate[f] = "result" => /\ cause[f] = <<"report", under[f]>>
                                   /\ oresult[f] = placed[f] \/ f \in again
        /\ ostate[f] = "exception" =>
              /\ cause[f] \in {"error", "warning", "request"} \X {under[f]}
              /\ cause[f][1] = "request" => under[f] \in Ids

\* "All simple calls are awaitable" (README.md): a place_order future somebody
\* holds stays in the table until it is decided, unless an order is placed under
\* the same id in the meantime.
NoOrderForgotten ==
    \A f \in OFuture :
        ostate[f] = "pending" => submitted_future[under[f]] = f \/ f \in overtaken

\* Nobody waits on an order whose report or rejection has been dispatched since
\* it was placed, unless a handler raised half way or the id was placed again.
NoOrderLeftWaiting ==
    loop # "raised" /\ Idle =>
        \A f \in OFuture : ostate[f] = "pending" =>
            under[f] \in undecided \/ writer # "open" \/ f \in overtaken

\* An ERR_MSG is about one call, order or request, and fails no other, and no call
\* whose error has come waits on: unless an order and a request share the
\* number, and one was not waiting or the other was there first.
CallsBesideOrders ==
    \A f \in Future :
        /\ state[f] = "exception" => rid[f] \in rejected \/ <<rid[f], "order">> \in crossed
        /\ state[f] = "pending" /\ loop # "raised" =>
              /\ rid[f] \notin final
              /\ rid[f] \in rejected => <<rid[f], "request">> \in crossed

\* A handler touches a future already done only where a caller has cancelled.
OrdersMisfireCause ==
    loop = "misfired" =>
        \/ \E f \in Future : /\ state[f] = "cancelled"
                             /\ rid[f] \in rejected \/ <<rid[f], "order">> \in crossed
        \/ \E f \in OFuture : ostate[f] = "cancelled"
        \/ open_orders_future = "cancelled"
=============================================================================
