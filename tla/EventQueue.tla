----------------------------- MODULE EventQueue ------------------------------
(* The queue behind "async for value in event" (ib_async/event.py): push is  *)
(* called for every event, __anext__ by one consumer task.  push is one step *)
(* of the event loop; __anext__ is two, because it gives up control when it  *)
(* awaits the future that push resolves.  Between the moment the future is   *)
(* resolved and the moment the task runs again, anything else may run.       *)
(* EventProofs extends this module and EventInstance: no name is in both.    *)
EXTENDS Naturals, Sequences

CONSTANTS Value,    \* what is published
          MaxPush   \* bound: how many values are published

ASSUME PushBound == MaxPush \in Nat

VARIABLES
    queue,      \* _EventQueue.queue
    future,     \* the asyncio state of _EventQueue.future
    consumer,   \* where the consumer task is
    pushed,     \* history: every value pushed
    delivered   \* history: every value __anext__ has returned

queue_vars == <<queue, future, consumer, pushed, delivered>>

\* "busy": in the body of its loop.  "waiting": suspended on the future.
\* "failed": __anext__ raised IndexError.  "cancelled": it raised CancelledError;
\* a consumer that catches it, as wait_for does, may ask again.
ConsumerStates == {"busy", "waiting", "failed", "cancelled"}

QueueTypeOK ==
    /\ queue \in Seq(Value)
    /\ future \in {"pending", "done", "cancelled"}
    /\ consumer \in ConsumerStates
    /\ pushed \in Seq(Value)
    /\ delivered \in Seq(Value)

QueueInit ==
    /\ queue = <<>>
    /\ future = "pending"
    /\ consumer = "busy"
    /\ pushed = <<>>
    /\ delivered = <<>>

\* Mutant: the test for a future already done is inverted.
WakeInverted == future

\* What push does to the future.
Wake == IF future = "pending" THEN "done" ELSE future

Push(v) == /\ Len(pushed) < MaxPush
           /\ queue' = Append(queue, v)
           /\ pushed' = Append(pushed, v)
           /\ future' = Wake
           /\ UNCHANGED <<consumer, delivered>>

\* Mutant: the newest value is taken, and what is left loses its oldest.
PopNewest == /\ queue # <<>>
             /\ delivered' = Append(delivered, queue[Len(queue)])
             /\ queue' = Tail(queue)
             /\ consumer' = "busy"

\* head = self.queue[0]; self.queue = self.queue[1:]
Pop == /\ queue # <<>>
       /\ delivered' = Append(delivered, Head(queue))
       /\ queue' = Tail(queue)
       /\ consumer' = "busy"

\* queue[0] of an empty list raises IndexError into the consumer.
PopEmpty == /\ queue = <<>>
            /\ consumer' = "failed"
            /\ UNCHANGED <<queue, delivered>>

Asking == consumer \in {"busy", "cancelled"}

\* __anext__ with values at hand returns at once.
NextAtHand == /\ Asking
              /\ queue # <<>>
              /\ Pop
              /\ UNCHANGED <<future, pushed>>

\* __anext__ with an empty queue awaits the future: it suspends on a pending
\* one, and goes straight on with one that is done already.
NextAwait == /\ Asking
             /\ queue = <<>>
             /\ CASE future = "pending"   -> /\ consumer' = "waiting"
                                             /\ UNCHANGED <<future, queue, delivered>>
                  [] future = "done"      -> PopEmpty /\ future' = "pending"
                  [] future = "cancelled" -> /\ consumer' = "cancelled"
                                             /\ UNCHANGED <<future, queue, delivered>>
             /\ UNCHANGED pushed

\* The task runs again after its future was resolved.
Resume == /\ consumer = "waiting"
          /\ future = "done"
          /\ future' = "pending"
          /\ Pop \/ PopEmpty
          /\ UNCHANGED pushed

\* The task is cancelled while it waits: asyncio cancels the future it awaits,
\* unless that is done already, and raises in the task.
CancelWait == /\ consumer = "waiting"
              /\ future' = IF future = "pending" THEN "cancelled" ELSE future
              /\ consumer' = "cancelled"
              /\ UNCHANGED <<queue, pushed, delivered>>

QueueNext == (\E v \in Value : Push(v)) \/ NextAtHand \/ NextAwait \/ Resume \/ CancelWait

QueueSpec == QueueInit /\ [][QueueNext]_queue_vars

\* The consumer keeps asking and the event loop runs a task that is ready.
QueueFairSpec ==
    /\ QueueSpec
    /\ WF_queue_vars(NextAtHand) /\ WF_queue_vars(NextAwait) /\ WF_queue_vars(Resume)

-----------------------------------------------------------------------------
\* Properties.

\* Nothing is lost, repeated or overtaken, whatever the consumer does between:
\* what was delivered and what is queued are what was pushed, in that order.
InOrderOnce == delivered \o queue = pushed

\* A consumer that is suspended on an unresolved future has nothing to fetch.
NoLostWakeup == consumer = "waiting" /\ future # "done" => queue = <<>>

\* A task that was woken finds a value: IndexError never meets a consumer that
\* was suspended, only one that asks when the queue is empty and the future is
\* still done from a push nobody waited for.
WokenFindsValue == consumer = "waiting" /\ future = "done" => queue # <<>>

\* Every value reaches a consumer that keeps asking and does not fail.
AllDelivered == \A n \in 1..MaxPush :
    Len(pushed) >= n ~> (Len(delivered) >= n \/ consumer = "failed")

C == INSTANCE Channel WITH sent <- pushed, received <- delivered

\* The queue is a channel: the consumer sees the published values in order.
IsChannel == C!Spec
=============================================================================
