---------------------------- MODULE EventInstance ----------------------------
(* One event of one object (EventInstance in ib_async/event.py): the weak    *)
(* references to its handlers, the stream that the first of them opens at    *)
(* the server and the last one closes, and dispatching an event to them.     *)
(* A handler runs inside the dispatch and may add, remove or drop handlers,  *)
(* or dispatch again, before the next one is called.  A handler that nobody  *)
(* holds is gone at once, and is noticed only when the list is next read.    *)
EXTENDS Naturals, SequencesExt

CONSTANTS Handler,   \* the callables that are ever registered
          MaxRefs,   \* bound: references in the list
          MaxDepth   \* bound: dispatches inside one another

ASSUME EventBounds == MaxRefs \in Nat /\ MaxDepth \in Nat

VARIABLES
    handlers,  \* EventInstance._handlers, oldest first
    held,      \* the handlers that the application holds
    running,   \* the dispatches under way, innermost first
    streams,   \* server: the streams open for this event
    up,        \* the connection can be written to
    unserved   \* why the present handlers have no stream, if they have none

vars == <<handlers, held, running, streams, up, unserved>>

\* "raised": on_subscribe raised.  "lost": the connection went away.
Reasons == {"no", "raised", "lost"}

\* A dispatch holds every handler of its list until it ends; its first is the
\* one that runs now.
Frame(all) == [all |-> all, left |-> Tail(all)]

Live(h) == h \in held \/ \E i \in 1..Len(running) : Contains(running[i].all, h)

TypeOK ==
    /\ handlers \in Seq(Handler) /\ Len(handlers) <= MaxRefs
    /\ held \subseteq Handler
    /\ Len(running) <= MaxDepth
    /\ \A i \in 1..Len(running) : /\ running[i].all # <<>>
                                  /\ IsSuffix(running[i].left, running[i].all)
    /\ streams \in Nat
    /\ up \in BOOLEAN
    /\ unserved \in Reasons

Init ==
    /\ handlers = <<>>
    /\ held = Handler
    /\ running = <<>>
    /\ streams = 0
    /\ up = TRUE
    /\ unserved = "no"

-----------------------------------------------------------------------------
\* on_subscribe and on_unsubscribe.

\* on_subscribe raises without a writer, and for what cannot be subscribed.
Subscribe == \/ up /\ streams' = streams + 1 /\ unserved' = "no"
             \/ unserved' = "raised" /\ UNCHANGED streams

\* on_unsubscribe sends a cancellation if it can; without a writer it raises,
\* and the server has forgotten the stream already.
Unsubscribe == /\ streams' = IF up /\ streams > 0 THEN streams - 1 ELSE streams
               /\ unserved' = "no"

-----------------------------------------------------------------------------
\* _live_handlers.

\* Mutant of Keep: emptying the list goes unnoticed.
KeepSilently(list) == handlers' = list /\ UNCHANGED <<streams, unserved>>

\* The list becomes what is left of it; on_unsubscribe when that empties it.
Keep(list) ==
    /\ handlers' = list
    /\ IF handlers # <<>> /\ list = <<>> THEN Unsubscribe
                                         ELSE UNCHANGED <<streams, unserved>>

\* A round of its loop.
KeepLive(list, h) == IF Live(h) THEN Append(list, h) ELSE list

LiveHandlers == FoldLeft(KeepLive, <<>>, handlers)

\* Mutant of Iadd: on_subscribe is called when no handler is live.
IaddNoneLive(h) ==
    /\ Live(h) /\ Len(handlers) < MaxRefs
    /\ handlers' = Append(handlers, h)
    /\ IF LiveHandlers = <<>> THEN Subscribe ELSE UNCHANGED <<streams, unserved>>
    /\ UNCHANGED <<held, running, up>>

\* event += h: appended before on_subscribe is called, and left there when that
\* raises.  References to dead handlers count.
Iadd(h) ==
    /\ Live(h) /\ Len(handlers) < MaxRefs
    /\ handlers' = Append(handlers, h)
    /\ IF handlers = <<>> THEN Subscribe ELSE UNCHANGED <<streams, unserved>>
    /\ UNCHANGED <<held, running, up>>

\* event -= h: one reference to h goes, with all dead ones.  When h is not
\* there, KeyError is raised after the dead ones have gone.
Isub(h) ==
    /\ Live(h)
    /\ Keep(RemoveFirst(LiveHandlers, h))
    /\ UNCHANGED <<held, running, up>>

HasSubscribers == Keep(LiveHandlers) /\ UNCHANGED <<held, running, up>>

\* Mutant: dispatching reads the list without dropping the dead ones.
CallKeepsDead ==
    /\ Len(running) < MaxDepth
    /\ running' = IF LiveHandlers = <<>> THEN running
                  ELSE <<Frame(LiveHandlers)>> \o running
    /\ UNCHANGED <<handlers, held, streams, up, unserved>>

\* event(arg): the handlers live now are called in order.
Call ==
    /\ Len(running) < MaxDepth
    /\ Keep(LiveHandlers)
    /\ running' = IF LiveHandlers = <<>> THEN running
                  ELSE <<Frame(LiveHandlers)>> \o running
    /\ UNCHANGED <<held, up>>

\* The handler returns, and the next one is called or the dispatch ends.
HandlerReturns ==
    /\ running # <<>>
    /\ running' = LET f == Head(running) IN
                  IF f.left = <<>> THEN Tail(running)
                  ELSE <<[f EXCEPT !.left = Tail(@)]>> \o Tail(running)
    /\ UNCHANGED <<handlers, held, streams, up, unserved>>

\* The handler raises: those after it are not called.
HandlerRaises ==
    /\ running # <<>>
    /\ running' = Tail(running)
    /\ UNCHANGED <<handlers, held, streams, up, unserved>>

-----------------------------------------------------------------------------
\* The application drops its last reference to h.
Drop(h) == /\ h \in held
           /\ held' = held \ {h}
           /\ UNCHANGED <<handlers, running, streams, up, unserved>>

\* The connection goes, and with it every stream; or a new one is made.
\* Both are awaited, so neither happens inside a dispatch.
Disconnect ==
    /\ up /\ running = <<>>
    /\ up' = FALSE
    /\ streams' = 0
    /\ unserved' = IF handlers # <<>> /\ unserved = "no" THEN "lost" ELSE unserved
    /\ UNCHANGED <<handlers, held, running>>

Reconnect == /\ ~up /\ running = <<>>
             /\ up' = TRUE
             /\ UNCHANGED <<handlers, held, running, streams, unserved>>

Next == \/ \E h \in Handler : Iadd(h) \/ Isub(h) \/ Drop(h)
        \/ HasSubscribers
        \/ Call
        \/ HandlerReturns
        \/ HandlerRaises
        \/ Disconnect
        \/ Reconnect

Spec == Init /\ [][Next]_vars

\* Events arrive while a stream is open, and handlers return.
FairSpec == /\ Spec
            /\ WF_vars(streams > 0 /\ running = <<>> /\ Call)
            /\ WF_vars(HandlerReturns)

-----------------------------------------------------------------------------
\* Properties.

\* Through additions, removals, deaths, purges in the middle of a dispatch,
\* failures and reconnections, the event never has two streams at the server,
\* and none that no reference in the list accounts for.
NoStrayStream == streams <= IF handlers = <<>> THEN 0 ELSE 1

\* Handlers in the list are served by a stream, unless subscribing raised for
\* the first of them or the connection was lost under them.
ConsumersServed == handlers # <<>> /\ unserved = "no" => up /\ streams = 1

\* A stream whose handlers have all been dropped without being removed is
\* closed at the server, or comes to be used again.
AbandonedStreamCloses ==
    (streams > 0 /\ LiveHandlers = <<>>) ~> (streams = 0 \/ LiveHandlers # <<>>)
=============================================================================
