------------------------------ MODULE Positions ------------------------------
(* PositionMixin (functionality/position.py): the on_position event, whose   *)
(* first handler asks for positions and whose last one cancels them, and     *)
(* get_positions, which shares one future among its callers and, when nobody *)
(* listens, listens itself through a dummy handler that a done-callback of   *)
(* the future removes.  POSITION_DATA and POSITION_END name no request.      *)
(* Handlers that call back into the event are EventInstance's subject.       *)
EXTENDS Naturals, Sequences, SequencesExt

CONSTANTS
    Handler,     \* handlers of the application
    Dummy,       \* _dummy_handler__for_get_positions
    MaxFutures,  \* bound: how often the event is subscribed to
    MaxRows,     \* bound: rows in flight
    MaxConnects  \* bound: how often the client connects

ASSUME DummyAssumption == Dummy \notin Handler
ASSUME BoundsAssumption == MaxFutures \in Nat /\ MaxRows \in Nat /\ MaxConnects \in Nat

Future == 0..MaxFutures

VARIABLES
    handlers,   \* on_position: the handlers in the list, dead ones included
    gone,       \* those among them that have been garbage collected
    current,    \* __position_future
    state,      \* the asyncio state of each future
    waited,     \* futures that get_positions has returned
    removals,   \* futures whose callback conditional_unsubscribe has yet to run
    conn,       \* "up"; "lost": the loop is dead, the writer is there; "down": no
                \* writer; "draining": no writer, the loop may read one message more
    connects,   \* how often connect() was called
    toServer, toClient,  \* messages in flight
    serving,    \* server: its listing of positions
    held_over   \* history: the list has not been empty since the last connect()

list == <<handlers, gone, held_over>>
futures == <<current, state, waited, removals>>
link == <<conn, connects, toServer, toClient, serving>>
vars == <<list, futures, link>>

TypeOK ==
    /\ handlers \subseteq Handler \cup {Dummy} /\ gone \subseteq handlers \ {Dummy}
    /\ current \in Future
    /\ state \in [Future -> {"unused", "pending", "result", "cancelled"}]
    /\ \A f \in Future : state[f] = "unused" <=> f > current
    /\ waited \subseteq 0..current /\ removals \subseteq waited
    /\ conn \in {"up", "lost", "draining", "down"}
    /\ connects \in 0..MaxConnects
    /\ toServer \in Seq({"req", "cancel"})
    /\ toClient \in Seq({"row", "end"})
    /\ serving \in {"no", "listing", "updates"}
    /\ held_over \in BOOLEAN

Init ==
    /\ handlers = {} /\ gone = {} /\ held_over = FALSE
    /\ current = 0 /\ waited = {} /\ removals = {}
    /\ state = [f \in Future |-> IF f = 0 THEN "pending" ELSE "unused"]
    /\ conn = "down" /\ connects = 0
    /\ toServer = <<>> /\ toClient = <<>> /\ serving = "no"

-----------------------------------------------------------------------------
\* Sending raises when there is no writer.
CanSend == conn \in {"up", "lost"}

Send(ms) ==
    /\ toServer' = IF conn = "up" THEN toServer \o ms ELSE toServer
    /\ UNCHANGED <<conn, connects, toClient, serving>>

ListIs(hs) == handlers' = hs /\ held_over' = (held_over /\ hs # {})

\* if not future.done()
Ended(f, how) == IF state[f] = "pending" THEN [state EXCEPT ![f] = how] ELSE state

\* __on_position__subscribe, up to the message.
NewFuture ==
    /\ current < MaxFutures
    /\ current' = current + 1
    /\ state' = [Ended(current, "cancelled") EXCEPT ![current + 1] = "pending"]

\* Mutant of Cancels: a request is cancelled when the first handler goes.
CancelsEarly(rest) == handlers # rest

\* EventInstance._live_handlers calls on_unsubscribe.
Cancels(rest) == handlers # {} /\ rest = {}

\* _live_handlers, with h among what is removed.  When CANCEL_POSITIONS cannot be
\* sent the list is the new one all the same.
Purge(h) ==
    LET rest == handlers \ (gone \cup {h}) IN
    /\ ListIs(rest) /\ gone' = {}
    /\ IF Cancels(rest) /\ CanSend THEN Send(<<"cancel">>) ELSE UNCHANGED link

-----------------------------------------------------------------------------
\* Mutant of Subscribes: the dummy does not count.
SubscribesAnew == handlers \subseteq {Dummy}

\* if not had_handlers
Subscribes == handlers = {}

\* on_position += h.  The handler is in the list also when sending raises.
AddHandler(h) ==
    /\ h \notin handlers
    /\ ListIs(handlers \cup {h})
    /\ IF Subscribes
       THEN /\ NewFuture /\ UNCHANGED <<waited, removals>>
            /\ IF CanSend THEN Send(<<"req">>) ELSE UNCHANGED link
       ELSE UNCHANGED <<futures, link>>
    /\ UNCHANGED gone

\* on_position -= h.
RemoveHandler(h) ==
    /\ h \in handlers \ gone
    /\ Purge(h)
    /\ UNCHANGED futures

\* The application lets go of a handler.
Drop(h) ==
    /\ h \in handlers \ gone
    /\ gone' = gone \cup {h}
    /\ UNCHANGED <<handlers, held_over, futures, link>>

\* get_positions() with a live handler.
JoinPositions ==
    /\ handlers \ gone # {}
    /\ ListIs(handlers \ gone) /\ gone' = {}
    /\ waited' = waited \cup {current}
    /\ UNCHANGED <<current, state, removals, link>>

\* Mutant of Watches: the callback is forgotten.
WatchesNot == UNCHANGED removals

\* add_done_callback
Watches == removals' = removals \cup {current'}

\* get_positions() with none: dead ones are purged, and the dummy subscribes.
OpenPositions ==
    /\ handlers \ gone = {} /\ CanSend
    /\ NewFuture
    /\ handlers' = {Dummy} /\ gone' = {} /\ held_over' = FALSE
    /\ Send(IF handlers = {} THEN <<"req">> ELSE <<"cancel", "req">>)
    /\ waited' = waited \cup {current'} /\ Watches

\* The same without a writer raises: in the purge of the last dead handlers, or
\* after the dummy is in the list, where no callback will remove it.
OpenRaises ==
    /\ handlers \ gone = {} /\ ~CanSend
    /\ IF handlers # {} THEN ListIs({}) /\ UNCHANGED <<current, state>>
                        ELSE ListIs({Dummy}) /\ NewFuture
    /\ gone' = {}
    /\ UNCHANGED <<waited, removals, link>>

\* A caller gives up, or its wait_for times out: the future of all is cancelled.
CancelCall(f) ==
    /\ f \in waited /\ state[f] = "pending"
    /\ state' = [state EXCEPT ![f] = "cancelled"]
    /\ UNCHANGED <<list, current, waited, removals, link>>

\* The event loop runs conditional_unsubscribe.  KeyError, if the dummy is not in
\* the list, comes after the purge.
RunRemoval(f) ==
    /\ f \in removals /\ state[f] # "pending"
    /\ removals' = removals \ {f}
    /\ Purge(Dummy)
    /\ UNCHANGED <<current, state, waited>>

-----------------------------------------------------------------------------
\* The server reads requests in order, and lists all positions, rows and an end,
\* before it sends their updates.
ServerReads ==
    /\ conn = "up" /\ toServer # <<>>
    /\ serving' = IF Head(toServer) = "req" THEN "listing" ELSE "no"
    /\ toServer' = Tail(toServer)
    /\ UNCHANGED <<list, futures, conn, connects, toClient>>

ServerRow ==
    /\ conn = "up" /\ serving # "no" /\ Len(toClient) < MaxRows
    /\ toClient' = Append(toClient, "row")
    /\ UNCHANGED <<list, futures, conn, connects, toServer, serving>>

ServerEnds ==
    /\ conn = "up" /\ serving = "listing"
    /\ serving' = "updates"
    /\ toClient' = Append(toClient, "end")
    /\ UNCHANGED <<list, futures, conn, connects, toServer>>

\* The message is taken; the draining loop stops after one.
Taken == /\ conn \in {"up", "draining"} /\ toClient # <<>>
         /\ toClient' = Tail(toClient)
         /\ conn' = IF conn = "up" THEN "up" ELSE "down"
         /\ UNCHANGED <<connects, serving>>

\* _handle_position_data: the dispatch purges the list.
PositionData ==
    /\ Taken /\ Head(toClient) = "row"
    /\ ListIs(handlers \ gone) /\ gone' = {}
    /\ toServer' = IF Cancels(handlers \ gone) /\ conn = "up" THEN Append(toServer, "cancel")
                   ELSE toServer
    /\ UNCHANGED futures

PositionEnd ==
    /\ Taken /\ Head(toClient) = "end"
    /\ state' = Ended(current, "result")
    /\ UNCHANGED <<list, current, waited, removals, toServer>>

ConnectionLost ==
    /\ conn = "up" /\ conn' = "lost"
    /\ UNCHANGED <<list, futures, connects, toServer, toClient, serving>>

\* disconnect() leaves the loop to finish the message it is reading.
Disconnect ==
    /\ CanSend
    /\ conn' = IF conn = "up" THEN "draining" ELSE "down"
    /\ UNCHANGED <<list, futures, connects, toServer, toClient, serving>>

\* Another connection, of which the event hears nothing.
Connect ==
    /\ ~CanSend /\ connects < MaxConnects
    /\ conn' = "up" /\ connects' = connects + 1
    /\ toServer' = <<>> /\ toClient' = <<>> /\ serving' = "no"
    /\ held_over' = (handlers # {})
    /\ UNCHANGED <<handlers, gone, futures>>

-----------------------------------------------------------------------------
Next ==
    \/ \E h \in Handler : AddHandler(h) \/ RemoveHandler(h) \/ Drop(h)
    \/ JoinPositions \/ OpenPositions \/ OpenRaises
    \/ \E f \in Future : CancelCall(f) \/ RunRemoval(f)
    \/ ServerReads \/ ServerRow \/ ServerEnds \/ PositionData \/ PositionEnd
    \/ ConnectionLost \/ Disconnect \/ Connect

\* The event loop reads what has come and runs the callbacks that are due; the
\* server reads requests and finishes its listings.
Fairness ==
    /\ WF_vars(ServerReads) /\ WF_vars(ServerEnds)
    /\ WF_vars(PositionData) /\ WF_vars(PositionEnd)
    /\ \A f \in Future : WF_vars(RunRemoval(f))

Spec == Init /\ [][Next]_vars
FairSpec == Spec /\ Fairness

-----------------------------------------------------------------------------
\* What was sent last leaves positions requested, and an end of their listing is
\* to come, or has come without being dispatched.
Requested == IF toServer = <<>> THEN serving # "no" ELSE Last(toServer) = "req"
EndToCome == \/ "end" \in ToSet(toClient)
             \/ Requested /\ (toServer = <<>> => serving = "listing")

\* Positions are requested from the server exactly while the event has handlers
\* (dead ones count until the next dispatch), but for handlers left over from an
\* earlier connection: while there is one, nobody subscribes again.
StreamMatches ==
    conn = "up" => /\ Requested => handlers # {}
                   /\ handlers # {} /\ ~held_over => Requested

\* A caller of get_positions that waits has the current future, and it will end
\* as long as the event keeps a handler.  The exceptions: the handler whose
\* stream the caller shares goes before the listing ends, or all was left over
\* from an earlier connection.
WaitersServed ==
    conn = "up" =>
        \A f \in waited : state[f] = "pending" =>
            f = current /\ (handlers = {} \/ held_over \/ EndToCome)

\* The dummy is removed once for each time it was added: the callback of at most
\* one future is out, and finds the dummy in the list (no KeyError).
DummyPaired ==
    \A f \in removals : Dummy \in handlers /\ removals = {f}
                        /\ (state[f] = "pending" => f = current)

\* Whoever subscribes cancels the wait of a caller only when the stream that the
\* caller shared has lost all its handlers: never while the dummy is there.
SharedFutureKept ==
    [][\A f \in waited :
          state[f] = "pending" /\ state'[f] = "cancelled"
          => CancelCall(f) \/ handlers \subseteq gone]_vars

\* While the connection lasts, a caller that shares a stream of this connection
\* gets an answer, unless the stream's handlers go first.
CallersAnswered ==
    \A f \in Future :
        f \in waited /\ state[f] = "pending" /\ conn = "up" /\ ~held_over
        ~> state[f] # "pending" \/ conn # "up" \/ handlers = {}

\* While the connection lasts, a dummy that was added in it goes again, so that
\* get_positions alone never keeps positions requested.
DummyGoes ==
    Dummy \in handlers /\ conn = "up" /\ ~held_over ~> Dummy \notin handlers \/ conn # "up"
=============================================================================
