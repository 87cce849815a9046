------------------------------ MODULE Requests -------------------------------
(* The request/response core of the client: Protocol.make_future,            *)
(* resolve_future, _handle_err_msg, the message loop that dispatches to them *)
(* and the calls that use them for one answer each (matching_symbols,        *)
(* get_executions, the contract data calls and get_historical_bars).         *)
(*                                                                           *)
(* One event loop thread runs everything, so a call, a handler or a callback *)
(* is one atomic action.  What interleaves is their order: callers issuing   *)
(* and cancelling calls, the server's replies, the callbacks the event loop  *)
(* runs later, and the loss of the connection.  The TCP stream is a FIFO and *)
(* the server's choice of the next message is left open until the message is *)
(* dispatched, which is when the client can first tell what it was; that     *)
(* leaves a reply no position of its own on the wire.                        *)
EXTENDS Integers

CONSTANTS
    Future,       \* the asyncio futures the calls create, one for each call
    None,         \* Python's None, and "not in the table"
    FirstId,      \* the value next_request_id starts from (1000 in the code)
    MaxRequests,  \* bound: how many request ids are ever drawn
    MaxRows,      \* bound: how many rows the server sends for one request
    Kinds         \* the kinds of call that are made

AllKinds == {"symbols", "history", "executions", "details"}

ASSUME NoneAssumption == None \notin Future /\ None \notin Int /\ None \notin AllKinds
ASSUME BoundsAssumption == FirstId \in Nat /\ MaxRequests \in Nat \ {0} /\ MaxRows \in Nat \ {0}
ASSUME KindsAssumption == Kinds \subseteq AllKinds

Ids == FirstId .. (FirstId + MaxRequests - 1)

VARIABLES
    next_request_id,    \* Protocol.next_request_id
    pending_responses,  \* Protocol._pending_responses: id -> future
    pending_execs,      \* ExecutionsMixin.__pending_execs: id -> number of rows held
    rid,                \* the id under which each future was made
    state,              \* the asyncio state of each future
    value,              \* rows in the result (details: 1 an instrument, 0 None)
    callback,           \* the done-callback of get_historical_bars on each future
    request,            \* server: the requests it has received, by id
    rows,               \* server: rows it has sent for each id
    final,              \* server: ids it has sent the closing message for
    errs,               \* server: ids it has sent an error for
    cancels,            \* server: ids it got CANCEL_HISTORICAL_DATA for
    writer,             \* Protocol.writer, and whether its transport still works
    loop                \* the task running _message_loop

futures == <<next_request_id, pending_responses, rid, state, value, callback>>
server  == <<request, rows, final, errs, cancels>>
vars    == <<futures, pending_execs, server, writer, loop>>

\* "orphaned": the call raised after make_future, so nobody holds the future or
\* sees what becomes of it.
States == {"unused", "pending", "orphaned", "result", "exception", "cancelled"}

\* "misfired": a handler raised InvalidStateError on a future already done;
\* "raised": a handler gave up half way, with the AssertionError of
\* Instrument.contract_id, with UnsupportedFeature, or as its own handlers did.
LoopStates == {"running", "draining", "stopped", "misfired", "raised"}

TypeOK ==
    /\ next_request_id \in FirstId .. (FirstId + MaxRequests)
    /\ pending_responses \in [Ids -> Future \cup {None}]
    /\ pending_execs \in [Ids -> 0..MaxRows \cup {None}]
    /\ rid \in [Future -> Ids \cup {None}]
    /\ state \in [Future -> States]
    /\ value \in [Future -> 0..MaxRows]
    /\ callback \in [Future -> {"none", "registered", "scheduled", "run"}]
    /\ request \in [Ids -> Kinds \cup {None}]
    /\ rows \in [Ids -> 0..MaxRows]
    /\ final \subseteq Ids
    /\ errs \subseteq Ids
    /\ cancels \subseteq Ids
    /\ writer \in {"open", "broken", "closed"}
    /\ loop \in LoopStates

Init ==
    /\ next_request_id = FirstId
    /\ pending_responses = [i \in Ids |-> None]
    /\ pending_execs = [i \in Ids |-> None]
    /\ rid = [f \in Future |-> None]
    /\ state = [f \in Future |-> "unused"]
    /\ value = [f \in Future |-> 0]
    /\ callback = [f \in Future |-> "none"]
    /\ request = [i \in Ids |-> None]
    /\ rows = [i \in Ids |-> 0]
    /\ final = {}
    /\ errs = {}
    /\ cancels = {}
    /\ writer = "open"
    /\ loop = "running"

-----------------------------------------------------------------------------
\* Futures.

Done(f) == state[f] \in {"result", "exception", "cancelled"}

\* A future becomes done: asyncio schedules its done-callbacks.
Settle(f, s, v) ==
    /\ state' = [state EXCEPT ![f] = IF @ = "orphaned" THEN @ ELSE s]
    /\ value' = [value EXCEPT ![f] = v]
    /\ callback' = [callback EXCEPT ![f] = IF @ = "registered" THEN "scheduled" ELSE @]

Unsettled == UNCHANGED <<state, value, callback>>

MakeRequestId == next_request_id \in Ids /\ next_request_id' = next_request_id + 1

MakeFuture(f) ==
    /\ state[f] = "unused"
    /\ MakeRequestId
    /\ rid' = [rid EXCEPT ![f] = next_request_id]
    /\ pending_responses' = [pending_responses EXCEPT ![next_request_id] = f]

\* Mutant: resolve_future reads the table without removing the entry.
ResolveFutureNoPop(id, v) ==
    /\ UNCHANGED pending_responses
    /\ LET f == pending_responses[id] IN
       IF f # None /\ ~Done(f) THEN Settle(f, "result", v) ELSE Unsettled

\* Mutant: resolve_future does not ask whether the future is done.
ResolveFutureUnguarded(id, v) ==
    /\ pending_responses' = [pending_responses EXCEPT ![id] = None]
    /\ LET f == pending_responses[id] IN
       IF f # None THEN Settle(f, "result", v) ELSE Unsettled

\* Protocol.resolve_future: pop, and set the result unless the future is done.
ResolveFuture(id, v) ==
    /\ pending_responses' = [pending_responses EXCEPT ![id] = None]
    /\ LET f == pending_responses[id] IN
       IF f # None /\ ~Done(f) THEN Settle(f, "result", v) ELSE Unsettled

-----------------------------------------------------------------------------
\* Calls.

\* get_executions keeps a list for the rows; get_historical_bars registers
\* _cancel_if_cancelled on its future.
StartsGathering(id, k) ==
    pending_execs' = IF k = "executions" THEN [pending_execs EXCEPT ![id] = 0]
                                         ELSE pending_execs
RegistersCallback(f, k) ==
    callback' = IF k = "history" THEN [callback EXCEPT ![f] = "registered"] ELSE callback

\* The request is written: make_future, send, then what the call keeps for the
\* handlers.  A transport that has lost its connection drops what is written.
Issue(f, k) ==
    LET id == next_request_id IN
    /\ writer # "closed"
    /\ MakeFuture(f)
    /\ state' = [state EXCEPT ![f] = "pending"]
    /\ request' = IF writer = "open" THEN [request EXCEPT ![id] = k] ELSE request
    /\ StartsGathering(id, k)
    /\ RegistersCallback(f, k)
    /\ UNCHANGED <<value, rows, final, errs, cancels, writer, loop>>

\* The call raises after make_future: send on a writer that is None, or the
\* UnsupportedFeature of get_historical_bars for a BAG instrument.
Raise(f, k) ==
    /\ writer = "closed" \/ k = "history"
    /\ MakeFuture(f)
    /\ state' = [state EXCEPT ![f] = "orphaned"]
    /\ UNCHANGED <<pending_execs, value, callback, server, writer, loop>>

\* The caller gives up: future.cancel(), or a wait_for that timed out.
Cancel(f) ==
    /\ state[f] = "pending"
    /\ Settle(f, "cancelled", 0)
    /\ UNCHANGED <<next_request_id, pending_responses, rid, pending_execs, server, writer, loop>>

\* Mutant of WasCancelled: the callback sends however the future ended.
EndedAnyhow(f) == Done(f)
WasCancelled(f) == state[f] = "cancelled"

\* _cancel_if_cancelled, run by the event loop some time after the future is
\* done.  With no writer it raises into the event loop and nothing is sent.
RunCallback(f) ==
    /\ callback[f] = "scheduled"
    /\ callback' = [callback EXCEPT ![f] = "run"]
    /\ cancels' = IF WasCancelled(f) /\ writer = "open"
                  THEN cancels \cup {rid[f]} ELSE cancels
    /\ UNCHANGED <<next_request_id, pending_responses, rid, state, value, pending_execs,
                   request, rows, final, errs, writer, loop>>

-----------------------------------------------------------------------------
\* Messages from the server, each dispatched to its handler.

Dispatching == loop \in {"running", "draining"}

\* A loop that was reading when disconnect() cleared the reader ends after the
\* message it was reading.
AfterDispatch == IF loop = "draining" THEN "stopped" ELSE loop

\* SYMBOL_SAMPLES or HISTORICAL_DATA.  _handle_symbol_samples makes a new
\* Instrument for each sample, which clashes with a live one of the same id.
Answer(id, clash) ==
    /\ Dispatching
    /\ request[id] \in {"symbols", "history"}
    /\ clash => request[id] = "symbols"
    /\ id \notin final
    /\ final' = final \cup {id}
    /\ IF clash
       THEN /\ loop' = "raised"
            /\ pending_responses' = pending_responses
            /\ Unsettled
       ELSE /\ loop' = AfterDispatch
            /\ ResolveFuture(id, 1)
    /\ UNCHANGED <<next_request_id, rid, pending_execs, request, rows, errs, cancels, writer>>

\* A row of an older message version raises before it is listed; the handlers of
\* on_execution run after that, and may raise too.
ExecutionData(id, listed, raises) ==
    /\ Dispatching
    /\ request[id] = "executions" /\ id \notin final /\ rows[id] < MaxRows
    /\ ~listed => raises
    /\ rows' = [rows EXCEPT ![id] = @ + 1]
    /\ pending_execs' = IF listed /\ pending_execs[id] # None
                        THEN [pending_execs EXCEPT ![id] = @ + 1] ELSE pending_execs
    /\ loop' = IF raises THEN "raised" ELSE AfterDispatch
    /\ UNCHANGED <<futures, request, final, errs, cancels, writer>>

\* Mutant of Gathered: the list is lost.
GatheredNothing(id) == 0

\* __pending_execs.get(id) or []
Gathered(id) == IF pending_execs[id] = None THEN 0 ELSE pending_execs[id]

\* Resolves with the list gathered so far; the table keeps its entry.
ExecutionDataEnd(id) ==
    /\ Dispatching
    /\ request[id] = "executions" /\ id \notin final
    /\ final' = final \cup {id}
    /\ ResolveFuture(id, Gathered(id))
    /\ loop' = AfterDispatch
    /\ UNCHANGED <<next_request_id, rid, pending_execs, request, rows, errs, cancels, writer>>

\* The first row resolves the call.  Writing the row's contract id over the
\* instrument's own clashes when another live instrument has that id.
ContractData(id, clash) ==
    /\ Dispatching
    /\ request[id] = "details" /\ id \notin final /\ rows[id] < MaxRows
    /\ rows' = [rows EXCEPT ![id] = @ + 1]
    /\ IF clash
       THEN /\ loop' = "raised"
            /\ pending_responses' = pending_responses
            /\ Unsettled
       ELSE /\ loop' = AfterDispatch
            /\ ResolveFuture(id, 1)
    /\ UNCHANGED <<next_request_id, rid, pending_execs, request, final, errs, cancels, writer>>

\* Mutant: the closing message leaves a call that found nothing alone.
ContractDataEndIgnored(id) ==
    /\ Dispatching
    /\ request[id] = "details" /\ id \notin final
    /\ final' = final \cup {id}
    /\ loop' = AfterDispatch
    /\ UNCHANGED <<futures, pending_execs, request, rows, errs, cancels, writer>>

ContractDataEnd(id) ==
    /\ Dispatching
    /\ request[id] = "details" /\ id \notin final
    /\ final' = final \cup {id}
    /\ ResolveFuture(id, 0)
    /\ loop' = AfterDispatch
    /\ UNCHANGED <<next_request_id, rid, pending_execs, request, rows, errs, cancels, writer>>

\* Mutant: every error is logged and dropped from the table.
FailFutureLogged(id) ==
    /\ pending_responses' = [pending_responses EXCEPT ![id] = None]
    /\ Unsettled
    /\ loop' = AfterDispatch

\* Protocol._handle_err_msg for a code that is not in warning_codes: pop, and
\* set_exception without asking whether the future is done.
FailFuture(id) ==
    /\ pending_responses' = [pending_responses EXCEPT ![id] = None]
    /\ LET f == pending_responses[id] IN
       IF f # None /\ ~Done(f)
       THEN Settle(f, "exception", 0) /\ loop' = AfterDispatch
       ELSE Unsettled /\ loop' = IF f = None THEN AfterDispatch ELSE "misfired"

\* ERR_MSG about a request the server has received, at any time and more than
\* once: before, between or after the other replies to it.
ErrMsg(id) ==
    /\ Dispatching
    /\ request[id] # None
    /\ errs' = errs \cup {id}
    /\ FailFuture(id)
    /\ UNCHANGED <<next_request_id, rid, pending_execs, request, rows, final, cancels, writer>>

\* ERR_MSG with a warning code is only logged.
WarningMsg(id) ==
    /\ Dispatching
    /\ request[id] # None
    /\ loop' = AfterDispatch
    /\ UNCHANGED <<futures, pending_execs, server, writer>>

-----------------------------------------------------------------------------
\* The connection.

\* disconnect(): no more writes; the loop ends now, or after one more message.
Disconnect ==
    /\ writer # "closed"
    /\ writer' = "closed"
    /\ loop' \in IF loop = "running" THEN {"draining", "stopped"} ELSE {loop}
    /\ UNCHANGED <<futures, pending_execs, server>>

\* The peer closes or the network fails: readexactly raises, the loop's task
\* ends, and nothing tells the callers.
ConnectionLost ==
    /\ loop = "running"
    /\ writer = "open"
    /\ writer' = "broken"
    /\ loop' = "stopped"
    /\ UNCHANGED <<futures, pending_execs, server>>

-----------------------------------------------------------------------------
Calls(f) == (\E k \in Kinds : Issue(f, k) \/ Raise(f, k)) \/ Cancel(f) \/ RunCallback(f)

Closing(id) == \/ \E clash \in BOOLEAN : Answer(id, clash)
               \/ ExecutionDataEnd(id)
               \/ ContractDataEnd(id)

Row(id) == \/ \E listed, raises \in BOOLEAN : ExecutionData(id, listed, raises)
           \/ \E clash \in BOOLEAN : ContractData(id, clash)

Next == \/ \E f \in Future : Calls(f)
        \/ \E id \in Ids : Closing(id) \/ Row(id) \/ ErrMsg(id) \/ WarningMsg(id)
        \/ Disconnect
        \/ ConnectionLost

Spec == Init /\ [][Next]_vars

\* The server closes or fails each request it has received.  Nothing is assumed of
\* callers or the network.
FirstReply(id) == id \notin final \cup errs /\ (Closing(id) \/ ErrMsg(id))

Fairness == \A id \in Ids : WF_vars(FirstReply(id))

FairSpec == Spec /\ Fairness

-----------------------------------------------------------------------------
\* Properties.

\* The server has said enough about id for its call to be decided.
Replied(id) == id \in final \cup errs \/ (request[id] = "details" /\ rows[id] > 0)

\* A future that is waited on is registered under its own id, and whatever
\* decided a future was sent for that id: no reply ever settles another call.
Routing ==
    \A f \in Future :
        /\ state[f] = "pending" => pending_responses[rid[f]] = f
        /\ state[f] = "result" => Replied(rid[f])
        /\ state[f] = "exception" => rid[f] \in errs

\* No caller waits for a reply that has already been dispatched, in whichever
\* order rows, closing messages, errors and cancellations came; a handler
\* that raised half way is the only exception.
NoOneLeftWaiting ==
    loop # "raised" => \A f \in Future : state[f] = "pending" => ~Replied(rid[f])

\* get_executions returns every row that was sent for it; a contract data call
\* returns None exactly when no row was (the comment in _handle_contract_data_end).
ResultMatchesRows ==
    \A f \in Future : state[f] = "result" =>
        CASE request[rid[f]] = "executions" -> value[f] = rows[rid[f]]
          [] request[rid[f]] = "details"    -> value[f] = 0 <=> rows[rid[f]] = 0
          [] OTHER                          -> TRUE

\* The message loop dies in set_exception only over a call that its caller has
\* cancelled and the server has failed: resolve_future is safe in every order.
MisfireCause ==
    loop = "misfired" =>
        \E f \in Future : state[f] = "cancelled" /\ rid[f] \in errs

\* CANCEL_HISTORICAL_DATA names a history request whose caller cancelled it.
CancelJustified ==
    \A id \in cancels : /\ request[id] = "history"
                        /\ \E f \in Future : rid[f] = id /\ state[f] = "cancelled"

\* test_protocol_futures_error has an error nobody waits for logged and
\* survived; an error for a cancelled call should be no different.
LoopSurvivesErrors == loop # "misfired"

\* Every call the server has received is decided while messages are dispatched.
EventuallySettled ==
    \A f \in Future :
        (state[f] = "pending" /\ rid[f] \in Ids /\ request[rid[f]] # None)
            ~> (state[f] # "pending" \/ loop # "running")

-----------------------------------------------------------------------------
\* The abstract promise.

OutcomeOf(s) == CASE s = "unused"    -> "idle"
                  [] s = "pending"   -> "open"
                  [] s = "orphaned"  -> "refused"
                  [] s = "result"    -> "answered"
                  [] s = "exception" -> "failed"
                  [] s = "cancelled" -> "withdrawn"

Outcome == [f \in Future |-> OutcomeOf(state[f])]

Decided == {f \in Future : rid[f] \in Ids /\ Replied(rid[f])}

R == INSTANCE Replies WITH Call <- Future, outcome <- Outcome,
                           replied <- Decided, up <- loop \in {"running", "draining"}

\* The client keeps the promise of Replies, whatever the order of messages.
KeepsPromise == R!Spec
=============================================================================
