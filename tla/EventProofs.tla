----------------------------- MODULE EventProofs -----------------------------
(* Proofs about ib_async/event.py.  What the run of EventQueue shows on five *)
(* values, for any number of values from any set: in order and once, no lost *)
(* wakeup, and a refinement of Channel.  And what the run of EventInstance   *)
(* shows on two handlers, for any of them, and any number of references and  *)
(* dispatches.                                                               *)
EXTENDS EventQueue, EventInstance, SequenceTheorems, TLAPS

L == INSTANCE SequenceLemmas WITH Step <- KeepLive

\* A task is never suspended on a cancelled future: cancelling it ends the wait.
WaitsOnLive == consumer = "waiting" => future # "cancelled"

IInv == QueueTypeOK /\ InOrderOnce /\ NoLostWakeup /\ WokenFindsValue /\ WaitsOnLive

-----------------------------------------------------------------------------
\* Moving the head of the queue behind what was delivered changes nothing.

LEMMA PopKeepsOrder ==
    ASSUME NEW S, NEW d \in Seq(S), NEW q \in Seq(S), q # <<>>
    PROVE  /\ Head(q) \in S /\ Tail(q) \in Seq(S)
           /\ Append(d, Head(q)) \o Tail(q) = d \o q
           /\ Len(d) < Len(d \o q)
           /\ (d \o q)[Len(d) + 1] = Head(q)
<1>1. Head(q) \in S /\ Tail(q) \in Seq(S)
  BY HeadTailProperties
<1>2. q = <<Head(q)>> \o Tail(q)
  <2>1. <<Head(q)>> \o Tail(q) \in Seq(S) /\ Len(<<Head(q)>> \o Tail(q)) = Len(q)
    BY <1>1, HeadTailProperties, LenProperties, ConcatProperties
  <2>2. \A i \in 1..Len(q) : q[i] = (<<Head(q)>> \o Tail(q))[i]
    BY <1>1, HeadTailProperties, LenProperties
  <2>. QED BY <2>1, <2>2, SeqEqual
<1>3. Append(d, Head(q)) = d \o <<Head(q)>> /\ <<Head(q)>> \in Seq(S)
  BY <1>1, AppendIsConcat
<1>4. Append(d, Head(q)) \o Tail(q) = d \o q
  BY <1>1, <1>2, <1>3, ConcatAssociative
<1>5. Len(q) \in Nat \ {0} /\ Len(d) \in Nat
  BY EmptySeq, LenProperties
<1>6. Len(d) < Len(d \o q) /\ (d \o q)[Len(d) + 1] = q[1]
  BY <1>5, ConcatProperties
<1>. QED BY <1>1, <1>4, <1>6

LEMMA PushKeepsOrder ==
    ASSUME NEW S, NEW d \in Seq(S), NEW q \in Seq(S), NEW v \in S
    PROVE  d \o Append(q, v) = Append(d \o q, v)
<1>1. <<v>> \in Seq(S) /\ d \o q \in Seq(S)
  BY ConcatProperties
<1>2. Append(q, v) = q \o <<v>> /\ Append(d \o q, v) = (d \o q) \o <<v>>
  BY <1>1, AppendIsConcat
<1>. QED BY <1>1, <1>2, ConcatAssociative

-----------------------------------------------------------------------------
LEMMA InitIInv == QueueInit => IInv
BY EmptySeq, ConcatEmptySeq
   DEF QueueInit, IInv, QueueTypeOK, InOrderOnce, NoLostWakeup, WokenFindsValue, WaitsOnLive, ConsumerStates

LEMMA PushKeeps == ASSUME IInv, NEW v \in Value, Push(v) PROVE IInv'
<1>1. /\ queue' \in Seq(Value) /\ queue' # <<>> /\ pushed' \in Seq(Value)
      /\ delivered' \o queue' = pushed'
  <2>1. queue' \in Seq(Value) /\ pushed' \in Seq(Value) /\ queue' # <<>>
    BY AppendProperties DEF IInv, QueueTypeOK, Push
  <2>2. delivered' \o queue' = pushed'
    BY PushKeepsOrder DEF IInv, QueueTypeOK, InOrderOnce, Push
  <2>. QED BY <2>1, <2>2
<1>. QED BY <1>1
            DEF IInv, QueueTypeOK, InOrderOnce, NoLostWakeup, WokenFindsValue, WaitsOnLive,
            Push, Wake, ConsumerStates

LEMMA PopKeeps ==
    ASSUME IInv, Pop, UNCHANGED pushed, future' \in {"pending", "done", "cancelled"}
    PROVE  IInv'
<1>1. /\ queue' \in Seq(Value) /\ delivered' \in Seq(Value)
      /\ delivered' \o queue' = pushed'
  BY PopKeepsOrder, AppendProperties DEF IInv, QueueTypeOK, InOrderOnce, Pop
<1>. QED BY <1>1
            DEF IInv, QueueTypeOK, InOrderOnce, NoLostWakeup, WokenFindsValue, WaitsOnLive,
            Pop, ConsumerStates

\* Steps that only move the consumer and its future.
LEMMA WaitKeeps ==
    ASSUME IInv, NextAwait \/ CancelWait \/ (Resume /\ PopEmpty) \/ UNCHANGED queue_vars
    PROVE  IInv'
BY DEF IInv, QueueTypeOK, InOrderOnce, NoLostWakeup, WokenFindsValue, WaitsOnLive,
   ConsumerStates,
   NextAwait, CancelWait, Resume, PopEmpty, Asking, queue_vars

LEMMA NextKeeps == IInv /\ [QueueNext]_queue_vars => IInv'
<1>. SUFFICES ASSUME IInv, [QueueNext]_queue_vars PROVE IInv'
  OBVIOUS
<1>1. ASSUME NextAtHand \/ (Resume /\ Pop) PROVE IInv'
  BY <1>1, PopKeeps DEF NextAtHand, Resume, IInv, QueueTypeOK
<1>. QED BY <1>1, PushKeeps, WaitKeeps DEF QueueNext, Resume

LEMMA Invariance == QueueSpec => []IInv
BY InitIInv, NextKeeps, PTL DEF QueueSpec

\* The queue and the histories hold values, and the consumer is in a known state.
THEOREM TypeCorrect == QueueSpec => []QueueTypeOK
<1>1. IInv => QueueTypeOK
  BY DEF IInv
<1>. QED BY <1>1, Invariance, PTL

\* No value is lost, repeated or reordered between push and __anext__, for any
\* interleaving of pushes, suspensions, wakeups and cancellations.
THEOREM DeliveredInOrderOnce == QueueSpec => []InOrderOnce
<1>1. IInv => InOrderOnce
  BY DEF IInv
<1>. QED BY <1>1, Invariance, PTL

\* A consumer is never suspended with a value in the queue and nobody to wake it.
THEOREM WakeupsAreNotLost == QueueSpec => []NoLostWakeup
<1>1. IInv => NoLostWakeup
  BY DEF IInv
<1>. QED BY <1>1, Invariance, PTL

\* A consumer that is woken finds a value, so only one that never suspended can
\* meet the IndexError.
THEOREM WokenConsumersFindValues == QueueSpec => []WokenFindsValue
<1>1. IInv => WokenFindsValue
  BY DEF IInv
<1>. QED BY <1>1, Invariance, PTL

\* The queue implements Channel.
THEOREM QueueIsChannel == QueueSpec => IsChannel
<1>1. QueueInit => C!Init
  BY DEF QueueInit, C!Init
<1>2. IInv /\ [QueueNext]_queue_vars => [C!Next]_(C!vars)
  <2>. SUFFICES ASSUME IInv, [QueueNext]_queue_vars PROVE [C!Next]_(C!vars)
    OBVIOUS
  <2>1. ASSUME NEW v \in Value, Push(v) PROVE C!Send(v)
    BY <2>1 DEF Push, C!Send
  <2>2. ASSUME Pop, UNCHANGED pushed PROVE C!Receive
    BY <2>2, PopKeepsOrder DEF Pop, IInv, QueueTypeOK, InOrderOnce, C!Receive
  <2>3. ASSUME NextAwait \/ CancelWait \/ (Resume /\ PopEmpty) \/ UNCHANGED queue_vars
        PROVE  UNCHANGED C!vars
    BY <2>3 DEF IInv, QueueTypeOK, NextAwait, CancelWait, Resume, PopEmpty, queue_vars, C!vars
  <2>. QED BY <2>1, <2>2, <2>3 DEF QueueNext, NextAtHand, Resume, C!Next
<1>. QED BY <1>1, <1>2, Invariance, PTL DEF QueueSpec, IsChannel, C!Spec

-----------------------------------------------------------------------------
(* The handlers of an event, and its stream at the server.                   *)

\* The handlers kept, round by round of the loop.
LEMMA LivePath ==
    ASSUME handlers \in Seq(Handler)
    PROVE  \E g : L!IsPath(g, <<>>, handlers) /\ LiveHandlers = g[Len(handlers)]
<1>1. LiveHandlers = L!FoldLeft(KeepLive, <<>>, handlers)
  BY Zenon DEF LiveHandlers, FoldLeft, MapThenFoldSet, Max,
               L!FoldLeft, L!MapThenFoldSet, L!Max
<1>2. Len(handlers) \in Nat /\ DOMAIN handlers = 1..Len(handlers)
  BY LenProperties
<1>. QED BY <1>1, <1>2, L!FoldHasPath

\* No more handlers live than there are references.
LEMMA LiveHandlersOf ==
    ASSUME handlers \in Seq(Handler)
    PROVE  /\ LiveHandlers \in Seq(Handler) /\ Len(LiveHandlers) <= Len(handlers)
           /\ handlers = <<>> => LiveHandlers = <<>>
<1>. DEFINE n == Len(handlers)
<1>0. n \in Nat
  BY LenProperties
<1>1. PICK g : /\ g[0] = <<>>
               /\ \A k \in 1..n : g[k] = KeepLive(g[k - 1], handlers[k])
               /\ LiveHandlers = g[n]
  BY LivePath DEF L!IsPath
<1>. DEFINE S == {k \in Nat : k <= n => g[k] \in Seq(Handler) /\ Len(g[k]) <= k}
<1>2. 0 \in S
  <2>1. g[0] \in Seq(Handler) /\ Len(g[0]) = 0
    BY <1>1, EmptySeq
  <2>. QED BY <2>1
<1>3. ASSUME NEW k \in Nat, k \in S PROVE k + 1 \in S
  <2>. SUFFICES ASSUME k + 1 <= n
                PROVE  g[k + 1] \in Seq(Handler) /\ Len(g[k + 1]) <= k + 1
    OBVIOUS
  <2>1. g[k] \in Seq(Handler) /\ Len(g[k]) <= k /\ Len(g[k]) \in Nat
    BY <1>0, <1>3, LenProperties
  <2>2. k + 1 \in 1..n /\ handlers[k + 1] \in Handler
    BY <1>0, ElementOfSeq
  <2>3. g[k + 1] = KeepLive(g[k], handlers[k + 1])
    BY <1>1, <2>2
  <2>. QED BY <2>1, <2>2, <2>3, AppendProperties DEF KeepLive
<1>. HIDE DEF S
<1>4. n \in S
  BY <1>0, <1>2, <1>3, L!NatInduct
<1>5. n = 0 => LiveHandlers = <<>>
  BY <1>1
<1>. QED BY <1>0, <1>1, <1>4, <1>5, EmptySeq DEF S

LEMMA FirstGone ==
    ASSUME NEW S, NEW s \in Seq(S), NEW e
    PROVE  /\ RemoveFirst(s, e) \in Seq(S)
           /\ s = <<>> => RemoveFirst(s, e) = <<>>
<1>1. RemoveFirst(s, e) = L!RemoveFirst(s, e)
  BY Zenon DEF RemoveFirst, RemoveAt, SelectInSeq, Min,
               L!RemoveFirst, L!RemoveAt, L!SelectInSeq, L!Min
<1>. QED BY <1>1, L!FirstRemoved

\* ConsumersServed and NoStrayStream need each other, and that the server keeps no
\* stream over a lost connection.
StreamInv ==
    /\ handlers \in Seq(Handler) /\ streams \in Nat
    /\ ~up => streams = 0
    /\ NoStrayStream
    /\ ConsumersServed

\* What any reading of the list does, whatever it drops from it.
LEMMA KeepKeeps ==
    ASSUME StreamInv, NEW list \in Seq(Handler), handlers = <<>> => list = <<>>,
           Keep(list), UNCHANGED up
    PROVE  StreamInv'
<1>1. CASE handlers # <<>> /\ list = <<>>
  <2>1. handlers' = <<>> /\ streams' = IF up /\ streams > 0 THEN streams - 1 ELSE streams
    BY <1>1 DEF Keep, Unsubscribe
  <2>2. streams = 0 \/ (streams = 1 /\ up)
    BY <1>1 DEF StreamInv, NoStrayStream
  <2>3. streams' = 0 /\ handlers' \in Seq(Handler)
    BY <2>1, <2>2, EmptySeq
  <2>. QED BY <2>1, <2>3 DEF StreamInv, NoStrayStream, ConsumersServed
<1>2. CASE ~(handlers # <<>> /\ list = <<>>)
  <2>1. handlers' = list /\ UNCHANGED <<streams, unserved>> /\ (list = <<>> <=> handlers = <<>>)
    BY <1>2 DEF Keep
  <2>. QED BY <2>1 DEF StreamInv, NoStrayStream, ConsumersServed
<1>. QED BY <1>1, <1>2

LEMMA StreamInit == Init => StreamInv
BY EmptySeq DEF Init, StreamInv, NoStrayStream, ConsumersServed

LEMMA StreamNext == StreamInv /\ [Next]_vars => StreamInv'
<1>. SUFFICES ASSUME StreamInv, [Next]_vars PROVE StreamInv'
  OBVIOUS
<1>. USE DEF NoStrayStream, ConsumersServed
<1>0. /\ LiveHandlers \in Seq(Handler)
      /\ handlers = <<>> => LiveHandlers = <<>>
  BY LiveHandlersOf DEF StreamInv
<1>1. ASSUME NEW h \in Handler, Iadd(h) PROVE StreamInv'
  <2>1. handlers' \in Seq(Handler) /\ handlers' # <<>>
    <3>1. handlers' = Append(handlers, h)
      BY <1>1 DEF Iadd
    <3>. QED BY <3>1, AppendProperties DEF StreamInv
  <2>2. CASE handlers = <<>>
    <3>1. streams = 0 /\ Subscribe /\ up' = up
      BY <1>1, <2>2 DEF Iadd, StreamInv
    <3>. QED BY <2>1, <3>1 DEF StreamInv, Subscribe
  <2>3. CASE handlers # <<>>
    <3>1. UNCHANGED <<streams, unserved, up>>
      BY <1>1, <2>3 DEF Iadd
    <3>. QED BY <2>1, <2>3, <3>1 DEF StreamInv
  <2>. QED BY <2>2, <2>3
<1>2. ASSUME NEW h \in Handler, Isub(h) PROVE StreamInv'
  <2>1. Keep(RemoveFirst(LiveHandlers, h)) /\ UNCHANGED up
    BY <1>2 DEF Isub
  <2>. QED BY <1>0, <2>1, FirstGone, KeepKeeps
<1>3. ASSUME NEW h \in Handler, Drop(h) PROVE StreamInv'
  BY <1>3 DEF Drop, StreamInv
<1>4. CASE HasSubscribers \/ Call
  <2>1. Keep(LiveHandlers) /\ UNCHANGED up
    BY <1>4 DEF HasSubscribers, Call
  <2>. QED BY <1>0, <2>1, KeepKeeps
<1>5. CASE HandlerReturns \/ HandlerRaises
  BY <1>5 DEF HandlerReturns, HandlerRaises, StreamInv
<1>6. CASE Disconnect
  BY <1>6 DEF Disconnect, StreamInv
<1>7. CASE Reconnect
  BY <1>7 DEF Reconnect, StreamInv
<1>8. CASE UNCHANGED vars
  BY <1>8 DEF vars, StreamInv
<1>. QED BY <1>1, <1>2, <1>3, <1>4, <1>5, <1>6, <1>7, <1>8 DEF Next

LEMMA StreamInvAlways == Spec => []StreamInv
BY StreamInit, StreamNext, PTL DEF Spec

\* However handlers come, go and die, in dispatches inside dispatches too, the event
\* has at most one stream at the server, and none when its list is empty.
THEOREM NoStreamIsStray == Spec => []NoStrayStream
<1>1. StreamInv => NoStrayStream
  BY DEF StreamInv
<1>. QED BY <1>1, StreamInvAlways, PTL

\* The handlers in the list are served, unless on_subscribe raised for the first of
\* them or the connection was lost under them.
THEOREM HandlersAreServed == Spec => []ConsumersServed
<1>1. StreamInv => ConsumersServed
  BY DEF StreamInv
<1>. QED BY <1>1, StreamInvAlways, PTL
=============================================================================
