------------------------- MODULE SubscriptionsProofs -------------------------
(* What the run of Subscriptions shows on one stream of each kind, for any   *)
(* number of streams and requests: no stream leaks, its data goes where it   *)
(* belongs, and only stray messages of a book can end the loop.  What the    *)
(* run of MarketDepth shows, for any number of rows, messages and            *)
(* subscriptions: the rows become the server's book on top of what was left. *)
EXTENDS Subscriptions, MarketDepth, SequenceTheorems, TLAPS

D == INSTANCE SequenceLemmas WITH Step <- Applied

\* A stream finds its request by the id on the instrument, or in the table.
Has(s, i) == IF s \in Ticks THEN table[i] = s ELSE request_id[s] = i

\* Nobody knows of an id that has not been drawn.
Fresh ==
    /\ \A i \in Ids : i >= next_request_id =>
           table[i] = None /\ req[i] = None /\ status[i] = "none"
    /\ \A s \in Stream : request_id[s] < next_request_id

\* An id that a stream goes by was never sent for another stream.
OwnRequest ==
    /\ \A i \in Ids : /\ table[i] # None => req[i] \in {table[i], None}
                      /\ req[i] = None <=> status[i] = "none"
    /\ \A s \in Stream : request_id[s] # 0 => req[request_id[s]] \in {s, None}

\* Client and server agree while they are connected: the streams with an id are
\* those open or refused, each under one id, and those that should be heard have one.
Wanted(s) == listeners[s] > 0 \/ s \in called
OneId == \A s \in Stream, i, j \in Ids : Has(s, i) /\ Has(s, j) => i = j
Served == \A s \in Stream, i \in Ids :
    Has(s, i) => /\ Wanted(s) /\ status[i] \in {"open", "refused"}
                 /\ req[i] = s /\ table[i] = s
Known == \A i \in Ids :
    /\ status[i] = "open" => Has(req[i], i)
    /\ status[i] = "snapshot" => req[i] \in Market /\ table[i] = req[i]
Heard == \A s \in Stream :
    listeners[s] > 0 /\ s \notin unheard => \E i \in Ids : Has(s, i)
Agreed == writer = "open" => OneId /\ Served /\ Known /\ Heard

LoopInv == /\ loop = "running" => writer = "open"
           /\ loop = "draining" => writer = "closed"

\* What market data and the messages of a book look up is there, but for those
\* of a book whose cancellation they have crossed.
Expected(i) == \/ status[i] \in {"open", "snapshot"} /\ req[i] \in Market \cup Depth
               \/ status[i] = "stray" /\ req[i] \in Market
Found == Dispatching => \A i \in Ids : Expected(i) => table[i] # None

\* The properties say nothing of fresh ids, of what a connection that is being
\* closed leaves behind, or of ids that were never sent: these parts do.
IInv == TypeOK /\ Fresh /\ OwnRequest /\ Agreed /\ LoopInv /\ Found /\ OnlyStrayDepthRaises

LEMMA IdFacts == Ids \subseteq Nat \ {0}
  BY SubscriptionBounds DEF Ids

LEMMA InitInv == Init => IInv
<1> SUFFICES ASSUME Init PROVE IInv
  OBVIOUS
<1> USE StreamAssumption, IdFacts
<1>1. TypeOK
  BY SubscriptionBounds DEF Init, TypeOK, Statuses, Futures, Ids
<1>2. Fresh /\ OwnRequest /\ LoopInv /\ Found /\ OnlyStrayDepthRaises
  BY DEF Init, Fresh, OwnRequest, LoopInv, Found, Expected, OnlyStrayDepthRaises
<1>3. \A s \in Stream, i \in Ids : ~Has(s, i)
  BY DEF Init, Has
<1>4. Agreed
  BY <1>3 DEF Init, Agreed, OneId, Served, Known, Heard
<1> QED BY <1>1, <1>2, <1>4 DEF IInv

-----------------------------------------------------------------------------
\* Request ids.

LEMMA RequestIdHas ==
  ASSUME TypeOK, NEW s \in Stream
  PROVE  /\ RequestId(s) \in Ids \cup {0}
         /\ RequestId(s) # 0 => Has(s, RequestId(s))
         /\ RequestId(s) = 0 => \A i \in Ids : ~Has(s, i)
<1>1. CASE s \in Ticks /\ \E i \in Ids : table[i] = s
  <2>1. RequestId(s) \in Ids /\ table[RequestId(s)] = s
    BY <1>1 DEF RequestId
  <2> QED BY <1>1, <2>1, IdFacts DEF Has
<1>2. CASE s \in Ticks /\ ~\E i \in Ids : table[i] = s
  BY <1>2 DEF RequestId, Has
<1>3. CASE s \notin Ticks
  BY <1>3, IdFacts DEF RequestId, Has, TypeOK
<1> QED BY <1>1, <1>2, <1>3

LEMMA IdsBelow ==
  ASSUME IInv, NEW s \in Stream
  PROVE  request_id[s] \in Nat /\ request_id[s] < next_request_id
<1>1. request_id[s] \in Ids \cup {0}
  BY DEF IInv, TypeOK
<1>2. request_id[s] < next_request_id
  BY DEF IInv, Fresh
<1>3. \A i \in Ids \cup {0} : i \in Nat
  BY IdFacts
<1> QED BY <1>1, <1>2, <1>3

\* The id of a subscription is the stream's own, or fresh.
LEMMA SubscriptionIdIs ==
  ASSUME IInv, NEW s \in Stream, NEW id \in Ids, id = SubscriptionId(s)
  PROVE  /\ next_request_id \in Nat /\ id <= next_request_id
         /\ \/ Has(s, id)
            \/ /\ id = next_request_id
               /\ s \notin Bars => \A i \in Ids : ~Has(s, i)
         /\ req[id] \in {s, None}
         /\ \A t \in Stream : request_id[t] = id => req[id] = t \/ writer # "open"
<1> USE IdFacts, StreamAssumption
<1>0. next_request_id \in Nat /\ id \in Nat \ {0}
  BY SubscriptionBounds DEF IInv, TypeOK
<1>1. CASE id = RequestId(s) /\ RequestId(s) # 0 
  <2>1. Has(s, id)
    BY <1>1, RequestIdHas DEF IInv
  <2>2. id < next_request_id
    <3>1. CASE s \in Ticks
      BY <1>0, <2>1, <3>1 DEF IInv, Fresh, Has
    <3>2. CASE s \notin Ticks
      BY <1>0, <2>1, <3>2 DEF IInv, Fresh, Has
    <3> QED BY <3>1, <3>2
  <2>3. req[id] \in {s, None}
    BY <2>1 DEF IInv, OwnRequest, Has
  <2>4. \A t \in Stream : request_id[t] = id => req[id] = t \/ writer # "open"
    <3> SUFFICES ASSUME NEW t \in Stream, request_id[t] = id, writer = "open"
                 PROVE  req[id] = t
      OBVIOUS
    <3>1. req[id] = s
      BY <2>1 DEF IInv, Agreed, Served
    <3> QED BY <3>1 DEF IInv, OwnRequest
  <2> QED BY <1>0, <2>1, <2>2, <2>3, <2>4
<1>2. CASE id = next_request_id /\ (s \in Bars \/ RequestId(s) = 0)
  <2>1. req[id] = None /\ \A t \in Stream : request_id[t] # id
    BY <1>2 DEF IInv, TypeOK, Fresh
  <2>2. s \notin Bars => \A i \in Ids : ~Has(s, i)
    BY <1>2, RequestIdHas DEF IInv
  <2> QED BY <1>0, <1>2, <2>1, <2>2
<1> QED BY <1>1, <1>2 DEF SubscriptionId

-----------------------------------------------------------------------------
\* Handlers.

\* What a step does to the handlers and callers: those of other streams stay.
Counted(s) ==
    /\ listeners' \in [Stream -> 0..MaxListeners]
    /\ called' \subseteq Market /\ unheard' \subseteq Stream
    /\ \A t \in Stream \ {s} : /\ listeners'[t] = listeners[t]
                               /\ t \in called' <=> t \in called
                               /\ t \in unheard' <=> t \in unheard

\* Who wanted a stream still does, and who is to be heard now already was.
StillWanted(s) ==
    /\ Wanted(s) => Wanted(s)'
    /\ listeners'[s] > 0 /\ s \notin unheard' => listeners[s] > 0 /\ s \notin unheard

LEMMA StillWantedAll ==
  ASSUME NEW s \in Stream, Counted(s), StillWanted(s)
  PROVE  \A t \in Stream :
             /\ Wanted(t) => Wanted(t)'
             /\ listeners'[t] > 0 /\ t \notin unheard' => listeners[t] > 0 /\ t \notin unheard
  BY DEF Counted, StillWanted, Wanted

LEMMA SubscribeKeeps ==
  ASSUME IInv, NEW s \in Stream, NEW awaited \in BOOLEAN, Subscribe(s, awaited),
         Counted(s), Wanted(s)',
         s \in Market \cup Depth \/ listeners[s] = 0,
         UNCHANGED <<writer, loop>>
  PROVE  IInv'
<1> USE StreamAssumption
<1> PICK id \in Ids : id = SubscriptionId(s)
  BY DEF Subscribe, Drawn
<1>1. /\ writer # "closed" /\ Drawn(id) /\ Asked(id, s, "open")
      /\ table' = [table EXCEPT ![id] = s]
      /\ request_id' = IF s \in Ticks THEN request_id ELSE [request_id EXCEPT ![s] = id]
  BY DEF Subscribe
<1>2. /\ id \in Nat \ {0} /\ next_request_id \in Nat /\ id <= next_request_id
      /\ Has(s, id) \/ (id = next_request_id /\ (s \notin Bars => \A i \in Ids : ~Has(s, i)))
      /\ req[id] \in {s, None}
      /\ \A t \in Stream : request_id[t] = id => req[id] = t \/ writer # "open"
  BY SubscriptionIdIs, IdFacts
<1>3. TypeOK'
  <2>1. future' \in [Ids -> Futures]
    BY DEF IInv, TypeOK, Subscribe, MadeFuture, MarketFuture, Futures, Stream
  <2>2. next_request_id' \in 1..(MaxRequests + 1)
    BY <1>1, <1>2, SubscriptionBounds DEF IInv, TypeOK, Drawn, Ids
  <2>3. req' \in [Ids -> Stream \cup {None}] /\ status' \in [Ids -> Statuses]
    BY <1>1 DEF IInv, TypeOK, Asked, Statuses
  <2>4. request_id' \in [Stream -> Ids \cup {0}] /\ table' \in [Ids -> Stream \cup {None}]
    BY <1>1 DEF IInv, TypeOK
  <2> QED BY <2>1, <2>2, <2>3, <2>4 DEF IInv, TypeOK, Counted
<1>4. Fresh'
  <2>1. /\ next_request_id \in Nat /\ id \in Nat /\ next_request_id' \in Nat
        /\ next_request_id' >= next_request_id /\ next_request_id' > id
    BY <1>1, <1>2 DEF Drawn
  <2>2. ASSUME NEW i \in Ids, i >= next_request_id'
        PROVE  (table[i] = None /\ req[i] = None /\ status[i] = "none")'
    <3>1. i # id /\ i >= next_request_id
      BY <2>1, <2>2, IdFacts
    <3> QED BY <1>1, <3>1 DEF IInv, TypeOK, Fresh, Asked
  <2>3. ASSUME NEW t \in Stream PROVE request_id'[t] < next_request_id'
    <3>1. request_id[t] \in Nat /\ request_id[t] < next_request_id
      BY IdsBelow
    <3>2. request_id'[t] \in {request_id[t], id}
      BY <1>1 DEF IInv, TypeOK
    <3> QED BY <2>1, <3>1, <3>2
  <2> QED BY <2>2, <2>3 DEF Fresh
<1>5. OwnRequest'
  <2>1. /\ req'[id] \in {s, None} /\ table'[id] = s
        /\ req'[id] = None <=> status'[id] = "none"
        /\ \A i \in Ids \ {id} : /\ req'[i] = req[i] /\ status'[i] = status[i]
                                 /\ table'[i] = table[i]
    BY <1>1, <1>2 DEF IInv, TypeOK, OwnRequest, Asked, Stream
  <2>2. ASSUME NEW t \in Stream, request_id'[t] # 0
        PROVE  req'[request_id'[t]] \in {t, None}
    <3>1. CASE request_id'[t] = id
      <4>1. t = s \/ request_id[t] = id
        BY <1>1, <3>1 DEF IInv, TypeOK
      <4>2. CASE writer = "open"
        <5>1. t = s \/ req[id] = t
          BY <1>2, <4>1, <4>2
        <5> QED BY <1>2, <2>1, <3>1, <5>1 DEF Stream
      <4>3. CASE writer # "open"
        <5>1. req' = req
          BY <1>1, <4>3 DEF Asked
        <5> QED BY <1>2, <2>1, <2>2, <3>1, <4>1, <5>1 DEF IInv, OwnRequest
      <4> QED BY <4>2, <4>3
    <3>2. CASE request_id'[t] # id
      <4>1. request_id'[t] = request_id[t] /\ request_id[t] \in Ids
        BY <1>1, <2>2, <3>2 DEF IInv, TypeOK
      <4> QED BY <2>1, <2>2, <3>2, <4>1 DEF IInv, OwnRequest
    <3> QED BY <3>1, <3>2
  <2>3. ASSUME NEW i \in Ids
        PROVE  (/\ table[i] # None => req[i] \in {table[i], None}
                /\ req[i] = None <=> status[i] = "none")'
    <3>1. CASE i = id
      BY <2>1, <3>1
    <3>2. CASE i # id
      <4>1. req'[i] = req[i] /\ status'[i] = status[i] /\ table'[i] = table[i]
        BY <2>1, <3>2
      <4>2. /\ table[i] # None => req[i] \in {table[i], None}
            /\ req[i] = None <=> status[i] = "none"
        BY DEF IInv, OwnRequest
      <4> QED BY <4>1, <4>2
    <3> QED BY <3>1, <3>2
  <2> QED BY <2>2, <2>3 DEF OwnRequest
<1>6. ASSUME writer = "open" PROVE OneId' /\ Served' /\ Known' /\ Heard'
  <2>1. req' = [req EXCEPT ![id] = s] /\ status' = [status EXCEPT ![id] = "open"]
    BY <1>1, <1>6 DEF Asked
  <2>2. OneId /\ Served /\ Known /\ Heard
    BY <1>6 DEF IInv, Agreed
  <2>3. \A i \in Ids \ {id} : ~Has(s, i)
    BY <1>2, <2>2 DEF OneId, Served, Wanted, Stream, IInv, TypeOK
  <2>4. \A t \in Stream \ {s} : ~Has(t, id)
    BY <1>2, <2>2 DEF Served
  <2>5. \A t \in Stream, i \in Ids : Has(t, i)' <=> IF t = s THEN i = id ELSE Has(t, i)
    BY <1>1, <2>3, <2>4 DEF Has, IInv, TypeOK
  <2>6. OneId' /\ Served'
    BY <1>1, <2>1, <2>2, <2>4, <2>5 DEF OneId, Served, Wanted, IInv, TypeOK, Counted
  <2>7. Known'
    <3>1. ASSUME NEW i \in Ids, i # id
          PROVE  /\ status'[i] = "open" => Has(req[i], i)'
                 /\ status'[i] = "snapshot" => req'[i] \in Market /\ table'[i] = req'[i]
      <4>1. status'[i] = status[i] /\ req'[i] = req[i] /\ table'[i] = table[i]
        BY <1>1, <2>1, <3>1 DEF IInv, TypeOK
      <4>2. status[i] = "open" => Has(req[i], i) /\ req[i] \in Stream
        BY <2>2 DEF Known, IInv, TypeOK, OwnRequest
      <4>3. status[i] = "open" => Has(req[i], i)'
        BY <2>3, <2>5, <3>1, <4>1, <4>2
      <4> QED BY <2>2, <4>1, <4>3 DEF Known
    <3>2. status'[id] = "open" /\ req'[id] = s /\ Has(s, id)'
      BY <2>1, <2>5 DEF IInv, TypeOK
    <3> QED BY <2>1, <3>1, <3>2 DEF Known, Has, IInv, TypeOK
  <2>8. Heard'
    BY <2>2, <2>5 DEF Heard, Counted
  <2> QED BY <2>6, <2>7, <2>8
<1>7. LoopInv'
  BY DEF IInv, LoopInv
<1>8. Found'
  BY <1>1 DEF IInv, TypeOK, LoopInv, Found, Expected, Dispatching, Asked
<1>9. OnlyStrayDepthRaises'
  <2>1. CASE writer = "open"
    <3>1. status[id] \in {"open", "refused", "none"}
      BY <1>2, <2>1 DEF IInv, Agreed, Served, Fresh
    <3> QED BY <1>1, <2>1, <3>1 DEF IInv, TypeOK, OnlyStrayDepthRaises, Asked
  <2>2. CASE writer # "open"
    BY <1>1, <2>2 DEF IInv, OnlyStrayDepthRaises, Asked
  <2> QED BY <2>1, <2>2
<1> QED BY <1>3, <1>4, <1>5, <1>6, <1>7, <1>8, <1>9 DEF IInv, Agreed

\* Handlers and callers that come and go leave the tables as they are.
LEMMA CountKeeps ==
  ASSUME IInv, NEW s \in Stream, Counted(s), StillWanted(s),
         UNCHANGED <<next_request_id, table, request_id, future, req, status, writer, loop>>
  PROVE  IInv'
  BY StillWantedAll
     DEF IInv, TypeOK, Counted, Fresh, OwnRequest, Agreed, OneId, Served, Heard,
         Known, Has, LoopInv, Found, Expected, Dispatching, OnlyStrayDepthRaises

LEMMA SubscribeRaisesKeeps ==
  ASSUME IInv, NEW s \in Stream, SubscribeRaises(s), Counted(s), StillWanted(s),
         UNCHANGED <<writer, loop>>
  PROVE  IInv'
<1> USE StreamAssumption
<1>1. CASE UNCHANGED <<next_request_id, table, future>>
  <2>1. UNCHANGED <<next_request_id, table, future, request_id, req, status, writer, loop>>
    BY <1>1 DEF SubscribeRaises
  <2> QED BY <2>1, CountKeeps
<1>2. CASE ~UNCHANGED <<next_request_id, table, future>>
  <2> PICK id \in Ids : id = SubscriptionId(s)
    BY <1>2 DEF SubscribeRaises, Drawn
  <2>1. /\ Drawn(id) /\ UNCHANGED <<request_id, req, status>>
        /\ s \in Ticks => writer = "closed"
        /\ table' = IF s \in Ticks THEN [table EXCEPT ![id] = s] ELSE table
    BY <1>2 DEF SubscribeRaises
  <2>2. /\ id \in Nat \ {0} /\ next_request_id \in Nat /\ id <= next_request_id
        /\ req[id] \in {s, None}
    BY SubscriptionIdIs, IdFacts
  <2>3. /\ next_request_id' \in Nat /\ next_request_id' >= next_request_id
        /\ next_request_id' > id
    BY <2>1, <2>2 DEF Drawn
  <2>4. TypeOK'
    <3>1. future' \in [Ids -> Futures]
      BY <1>2 DEF IInv, TypeOK, SubscribeRaises, MadeFuture, Futures, Stream
    <3>2. next_request_id' \in 1..(MaxRequests + 1)
      BY <2>1, <2>2, SubscriptionBounds DEF IInv, TypeOK, Drawn, Ids
    <3> QED BY <2>1, <3>1, <3>2 DEF IInv, TypeOK, Counted
  <2>5. Fresh'
    <3>1. ASSUME NEW i \in Ids, i >= next_request_id'
          PROVE  (table[i] = None /\ req[i] = None /\ status[i] = "none")'
      <4>1. i # id /\ i >= next_request_id
        BY <2>2, <2>3, <3>1, IdFacts
      <4> QED BY <2>1, <4>1 DEF IInv, TypeOK, Fresh
    <3>2. ASSUME NEW t \in Stream PROVE request_id'[t] < next_request_id'
      <4>1. request_id[t] \in Nat /\ request_id[t] < next_request_id
        BY IdsBelow
      <4> QED BY <2>1, <2>2, <2>3, <4>1
    <3> QED BY <3>1, <3>2 DEF Fresh
  <2>6. OwnRequest'
    BY <2>1, <2>2 DEF IInv, TypeOK, OwnRequest
  <2>7. Agreed'
    <3> SUFFICES ASSUME writer = "open" PROVE OneId' /\ Served' /\ Known' /\ Heard'
      BY DEF Agreed
    <3>1. table' = table
      BY <2>1
    <3> QED BY <2>1, <3>1, StillWantedAll
            DEF IInv, Agreed, OneId, Served, Known, Heard, Has
  <2>8. Found' /\ LoopInv' /\ OnlyStrayDepthRaises'
    BY <2>1 DEF IInv, TypeOK, LoopInv, Found, Expected, Dispatching, OnlyStrayDepthRaises
  <2> QED BY <2>4, <2>5, <2>6, <2>7, <2>8 DEF IInv
<1> QED BY <1>1, <1>2

\* The id that a stream goes by is the one that is forgotten.
LEMMA UnsubscribeKeeps ==
  ASSUME IInv, NEW s \in Stream, Unsubscribe(s), Counted(s), UNCHANGED <<writer, loop>>,
         listeners'[s] > 0 => s \in unheard'
  PROVE  IInv'
<1> USE StreamAssumption
<1> DEFINE id == RequestId(s)
<1>1. /\ writer # "closed" /\ Forgets(s) /\ Cancelled(id)
      /\ request_id' = [request_id EXCEPT ![s] = 0]
      /\ UNCHANGED <<next_request_id, req>>
  BY DEF Unsubscribe, IdForgotten
<1>2. /\ id \in Ids \cup {0}
      /\ id # 0 => Has(s, id)
      /\ id = 0 => \A i \in Ids : ~Has(s, i)
  BY RequestIdHas DEF IInv
<1>3. table' \in [Ids -> Stream \cup {None}]
      /\ \A i \in Ids : table'[i] # table[i] => i = id /\ table'[i] = None /\ s \notin Market
  BY <1>1, <1>2, IdFacts DEF Forgets, IInv, TypeOK
<1>4. status' \in [Ids -> Statuses]
      /\ \A i \in Ids : status'[i] # status[i] =>
             i = id /\ writer = "open" /\ status[i] = "open" /\ status'[i] = "stray"
  BY <1>1, <1>2, IdFacts DEF Cancelled, IInv, TypeOK, Statuses
<1>5. request_id' \in [Stream -> Ids \cup {0}] /\ request_id'[s] = 0
      /\ \A t \in Stream \ {s} : request_id'[t] = request_id[t]
  BY <1>1 DEF IInv, TypeOK
<1>6. TypeOK'
  <2>1. future' \in [Ids -> Futures]
    BY DEF IInv, TypeOK, Unsubscribe, BarsResolved, Futures
  <2> QED BY <1>1, <1>3, <1>4, <1>5, <2>1 DEF IInv, TypeOK, Counted
<1>7. Fresh'
  <2>1. \A t \in Stream : request_id'[t] < next_request_id'
    BY <1>1, <1>5, SubscriptionBounds DEF IInv, TypeOK, Fresh
  <2> QED BY <1>1, <1>3, <1>4, <2>1 DEF IInv, Fresh
<1>8. OwnRequest'
  BY <1>1, <1>3, <1>4, <1>5 DEF IInv, OwnRequest
<1>9. ASSUME writer = "open" PROVE OneId' /\ Served' /\ Known' /\ Heard'
  <2>1. OneId /\ Served /\ Known /\ Heard
    BY <1>9 DEF IInv, Agreed
  <2>2. \A i \in Ids : Has(s, i) => i = id
    BY <1>2, <2>1 DEF OneId
  <2>3. id # 0 => status'[id] # "open"
    BY <1>1, <1>2, <1>9, IdFacts DEF Cancelled, IInv, TypeOK
  <2>4. \A t \in Stream \ {s} : id # 0 => ~Has(t, id)
    BY <1>2, <2>1 DEF Served
  <2>5. \A i \in Ids : ~Has(s, i)'
    BY <1>1, <1>2, <1>5, <2>2, IdFacts DEF Has, Forgets, IInv, TypeOK, Stream
  <2>6. \A t \in Stream \ {s}, i \in Ids : Has(t, i)' <=> Has(t, i)
    BY <1>1, <1>2, <1>3, <1>5, <2>4, IdFacts DEF Has
  <2>7. OneId'
    BY <2>1, <2>5, <2>6 DEF OneId
  <2>8. Served'
    <3> SUFFICES ASSUME NEW t \in Stream \ {s}, NEW i \in Ids, Has(t, i)
                 PROVE  (/\ Wanted(t) /\ status[i] \in {"open", "refused"}
                         /\ req[i] = t /\ table[i] = t)'
      BY <2>5, <2>6 DEF Served
    <3>1. i # id
      BY <2>4, IdFacts
    <3> QED BY <1>1, <1>3, <1>4, <2>1, <3>1 DEF Served, Wanted, Counted
  <2>9. Known'
    <3>1. ASSUME NEW i \in Ids, status'[i] = "open" PROVE Has(req[i], i)'
      <4>1. i # id /\ status[i] = "open"
        BY <1>4, <2>3, <3>1, IdFacts
      <4>2. req[i] \in Stream /\ Has(req[i], i)
        BY <2>1, <4>1 DEF Known, IInv, TypeOK, OwnRequest
      <4>3. req[i] # s
        BY <2>2, <4>1, <4>2
      <4> QED BY <1>1, <2>6, <4>2, <4>3
    <3>2. ASSUME NEW i \in Ids, status'[i] = "snapshot"
          PROVE  req'[i] \in Market /\ table'[i] = req'[i]
      <4>1. status[i] = "snapshot"
        BY <1>4, <3>2
      <4>2. id # 0 => status[id] # "snapshot"
        BY <1>2, <2>1 DEF Served
      <4> QED BY <1>1, <1>3, <2>1, <4>1, <4>2, IdFacts DEF Known
    <3> QED BY <3>1, <3>2 DEF Known, Has
  <2>10. Heard'
    BY <2>1, <2>6 DEF Heard, Counted, IInv, TypeOK
  <2> QED BY <2>7, <2>8, <2>9, <2>10
<1>10. LoopInv' /\ OnlyStrayDepthRaises'
  BY <1>1, <1>4 DEF IInv, LoopInv, OnlyStrayDepthRaises
<1>11. Found'
  <2> SUFFICES ASSUME writer = "open", Dispatching, NEW i \in Ids, Expected(i)'
               PROVE  table'[i] # None
    BY <1>1 DEF IInv, LoopInv, Found, Dispatching
  <2>1. CASE i # id
    BY <1>1, <1>3, <1>4, <2>1 DEF IInv, Found, Expected
  <2>2. CASE i = id
    <3>1. status[i] \in {"open", "refused"} /\ req[i] = s /\ table[i] = s
      BY <1>2, <2>2, IdFacts DEF IInv, Agreed, Served
    <3>2. status'[i] # "open"
      BY <1>1, <2>2, <3>1, IdFacts DEF Cancelled, IInv, TypeOK
    <3>3. s \in Market
      BY <1>1, <1>4, <3>1, <3>2 DEF Expected
    <3> QED BY <1>3, <3>1, <3>3
  <2> QED BY <2>1, <2>2
<1> QED BY <1>6, <1>7, <1>8, <1>9, <1>10, <1>11 DEF IInv, Agreed

LEMMA UnsubscribeRaisesKeeps ==
  ASSUME IInv, NEW s \in Stream, UnsubscribeRaises(s), Counted(s), UNCHANGED <<writer, loop>>
  PROVE  IInv'
<1> USE StreamAssumption
<1> DEFINE id == RequestId(s)
<1>1. /\ writer = "closed"
      /\ UNCHANGED <<next_request_id, request_id, req, status, writer, loop>>
      /\ \/ Forgets(s) /\ s \in Bars \cup Ticks
         \/ UNCHANGED table
  BY DEF UnsubscribeRaises
<1>2. /\ id \in Ids \cup {0}
      /\ id # 0 => Has(s, id)
  BY RequestIdHas DEF IInv
<1>3. table' \in [Ids -> Stream \cup {None}]
      /\ \A i \in Ids : table'[i] # table[i] =>
             i = id /\ table'[i] = None /\ s \in Bars \cup Ticks
  BY <1>1, <1>2, IdFacts DEF Forgets, IInv, TypeOK
<1>4. TypeOK'
  <2>1. future' \in [Ids -> Futures]
    BY DEF IInv, TypeOK, UnsubscribeRaises, BarsResolved, Futures
  <2> QED BY <1>1, <1>3, <2>1 DEF IInv, TypeOK, Counted
<1>5. Fresh' /\ OwnRequest' /\ Agreed' /\ LoopInv' /\ OnlyStrayDepthRaises'
  BY <1>1, <1>3 DEF IInv, Fresh, OwnRequest, Agreed, LoopInv, OnlyStrayDepthRaises
<1>6. Found'
  <2>1. id # 0 => req[id] \in {s, None}
    BY <1>2, IdFacts DEF IInv, OwnRequest, Has
  <2>2. \A i \in Ids : Expected(i) => req[i] \in Market \cup Depth
    BY DEF Expected
  <2>3. \A i \in Ids : Expected(i)' <=> Expected(i)
    BY <1>1 DEF Expected
  <2>4. \A i \in Ids : Expected(i) => table'[i] = table[i]
    BY <1>3, <2>1, <2>2, IdFacts DEF Stream
  <2> QED BY <1>1, <2>3, <2>4 DEF IInv, Found, Dispatching
<1> QED BY <1>4, <1>5, <1>6 DEF IInv

LEMMA AddListenerKeeps ==
  ASSUME IInv, NEW s \in Stream, AddListener(s)
  PROVE  IInv'
<1>1. listeners[s] \in 0..MaxListeners /\ MaxListeners \in Nat
  BY SubscriptionBounds DEF IInv, TypeOK
<1>2. /\ Counted(s) /\ Wanted(s)' /\ listeners'[s] > 0
      /\ UNCHANGED <<writer, loop>>
  <2>1. unheard' \in {unheard, unheard \cup {s}, unheard \ {s}}
    BY DEF AddListener, Subscribe, SubscribeRaises
  <2>2. /\ listeners' = [listeners EXCEPT ![s] = @ + 1] /\ called' = called \ {s}
        /\ listeners[s] < MaxListeners /\ UNCHANGED <<writer, loop>>
    BY DEF AddListener
  <2>3. listeners'[s] > 0 /\ listeners' \in [Stream -> 0..MaxListeners]
    BY <1>1, <2>2 DEF IInv, TypeOK
  <2> QED BY <2>1, <2>2, <2>3 DEF IInv, TypeOK, Counted, Wanted
<1>3. CASE listeners[s] = 0
  <2>1. CASE Subscribe(s, FALSE)
    BY <1>2, <1>3, <2>1, SubscribeKeeps
  <2>2. CASE SubscribeRaises(s)
    <3>1. StillWanted(s)
      BY <1>2, <1>3, <2>2 DEF SubscribeRaises, StillWanted
    <3> QED BY <1>2, <2>2, <3>1, SubscribeRaisesKeeps
  <2> QED BY <1>3, <2>1, <2>2 DEF AddListener
<1>4. CASE listeners[s] # 0
  <2>1. StillWanted(s)
    BY <1>1, <1>2, <1>4 DEF AddListener, StillWanted
  <2> QED BY <1>2, <1>4, <2>1, CountKeeps DEF AddListener
<1> QED BY <1>3, <1>4

LEMMA RemoveListenerKeeps ==
  ASSUME IInv, NEW s \in Stream, RemoveListener(s)
  PROVE  IInv'
<1>1. listeners[s] \in 0..MaxListeners /\ MaxListeners \in Nat /\ listeners[s] > 0
  BY SubscriptionBounds DEF IInv, TypeOK, RemoveListener
<1>2. Counted(s) /\ listeners'[s] = listeners[s] - 1 /\ UNCHANGED <<writer, loop>>
  BY <1>1 DEF IInv, TypeOK, RemoveListener, Counted
<1>3. CASE listeners[s] = 1
  <2>1. (Unsubscribe(s) \/ UnsubscribeRaises(s)) /\ ~(listeners'[s] > 0)
    BY <1>2, <1>3 DEF RemoveListener
  <2> QED BY <1>2, <2>1, UnsubscribeKeeps, UnsubscribeRaisesKeeps
<1>4. CASE listeners[s] # 1
  <2>1. StillWanted(s)
    BY <1>1, <1>2, <1>4 DEF RemoveListener, StillWanted, Wanted
  <2> QED BY <1>2, <1>4, <2>1, CountKeeps DEF RemoveListener
<1> QED BY <1>3, <1>4

LEMMA ResubscribeKeeps ==
  ASSUME IInv, NEW s \in Stream, Resubscribe(s)
  PROVE  IInv'
<1>1. /\ Counted(s) /\ Wanted(s)' /\ UNCHANGED <<writer, loop>>
      /\ s \in Market \cup Depth
  BY DEF IInv, TypeOK, Resubscribe, Subscribe, SubscribeRaises, Counted, Wanted
<1>2. CASE Subscribe(s, FALSE)
  BY <1>1, <1>2, SubscribeKeeps
<1>3. CASE SubscribeRaises(s)
  <2>1. StillWanted(s)
    BY <1>3 DEF Resubscribe, SubscribeRaises, StillWanted, Wanted
  <2> QED BY <1>1, <1>3, <2>1, SubscribeRaisesKeeps
<1> QED BY <1>2, <1>3 DEF Resubscribe

\* The application's own call is noted where nobody listens.
LEMMA GetMarketDataKeeps ==
  ASSUME IInv, NEW s \in Stream, GetMarketData(s)
  PROVE  IInv'
<1>1. Counted(s) /\ s \in Market /\ UNCHANGED <<listeners, writer, loop>>
  BY DEF IInv, TypeOK, GetMarketData, Subscribe, SubscribeRaises, Counted
<1>2. CASE Subscribe(s, TRUE) /\ called' = IF listeners[s] = 0 THEN called \cup {s} ELSE called
  <2>1. Wanted(s)'
    BY <1>1, <1>2 DEF Wanted, IInv, TypeOK
  <2> QED BY <1>1, <1>2, <2>1, SubscribeKeeps
<1>3. CASE SubscribeRaises(s) /\ UNCHANGED called
  <2>1. StillWanted(s)
    BY <1>1, <1>3 DEF SubscribeRaises, StillWanted, Wanted
  <2> QED BY <1>1, <1>3, <2>1, SubscribeRaisesKeeps
<1> QED BY <1>2, <1>3 DEF GetMarketData

LEMMA CancelMarketDataKeeps ==
  ASSUME IInv, NEW s \in Stream, CancelMarketData(s)
  PROVE  IInv'
<1>1. /\ Counted(s) /\ UNCHANGED <<writer, loop>>
      /\ listeners'[s] > 0 => s \in unheard'
  BY DEF IInv, TypeOK, CancelMarketData, Counted
<1> QED BY <1>1, UnsubscribeKeeps, UnsubscribeRaisesKeeps DEF CancelMarketData

\* A snapshot has a fresh id, which no stream goes by.
LEMMA SnapshotKeeps ==
  ASSUME IInv, NEW s \in Stream, Snapshot(s)
  PROVE  IInv'
<1> USE StreamAssumption
<1> DEFINE id == next_request_id
<1>1. /\ id \in Ids /\ id \in Nat /\ next_request_id' = id + 1 /\ s \in Market
      /\ UNCHANGED <<request_id, listeners, called, unheard, writer, loop>>
      /\ \/ /\ writer # "closed" /\ table' = [table EXCEPT ![id] = s]
            /\ Asked(id, s, "snapshot")
         \/ UNCHANGED <<table, req, status>>
  BY IdFacts DEF Snapshot, Drawn, callers
<1>2. table[id] = None /\ req[id] = None /\ status[id] = "none"
  BY <1>1 DEF IInv, Fresh
<1>3. /\ table' \in [Ids -> Stream \cup {None}] /\ req' \in [Ids -> Stream \cup {None}]
      /\ status' \in [Ids -> Statuses]
      /\ \A i \in Ids \ {id} : /\ table'[i] = table[i] /\ req'[i] = req[i]
                               /\ status'[i] = status[i]
      /\ table'[id] \in {None, s}
      /\ \/ req'[id] = None /\ status'[id] = "none"
         \/ req'[id] = s /\ status'[id] = "snapshot" /\ table'[id] = s
  BY <1>1, <1>2 DEF IInv, TypeOK, Asked, Statuses, Stream
<1>4. TypeOK'
  <2>1. future' \in [Ids -> Futures]
    BY <1>1 DEF IInv, TypeOK, Snapshot, MadeFuture, Futures
  <2>2. next_request_id' \in 1..(MaxRequests + 1)
    BY <1>1, SubscriptionBounds DEF Ids
  <2> QED BY <1>1, <1>3, <2>1, <2>2 DEF IInv, TypeOK
<1>5. Fresh'
  <2>1. ASSUME NEW i \in Ids, i >= next_request_id'
        PROVE  (table[i] = None /\ req[i] = None /\ status[i] = "none")'
    <3>1. i # id /\ i >= next_request_id
      BY <1>1, <2>1, IdFacts
    <3> QED BY <1>3, <3>1 DEF IInv, Fresh
  <2>2. ASSUME NEW t \in Stream PROVE request_id'[t] < next_request_id'
    BY <1>1, IdsBelow
  <2> QED BY <2>1, <2>2 DEF Fresh
<1>6. \A t \in Stream : request_id[t] # id
  BY <1>1, IdsBelow
<1>7. OwnRequest'
  <2>1. ASSUME NEW t \in Stream, request_id'[t] # 0
        PROVE  req'[request_id'[t]] \in {t, None}
    <3>1. request_id'[t] = request_id[t] /\ request_id[t] \in Ids \ {id}
      BY <1>1, <1>6, <2>1 DEF IInv, TypeOK
    <3> QED BY <1>3, <2>1, <3>1 DEF IInv, OwnRequest
  <2>2. ASSUME NEW i \in Ids
        PROVE  (/\ table[i] # None => req[i] \in {table[i], None}
                /\ req[i] = None <=> status[i] = "none")'
    BY <1>1, <1>3 DEF IInv, OwnRequest, Stream
  <2> QED BY <2>1, <2>2 DEF OwnRequest
<1>8. ASSUME writer = "open" PROVE OneId' /\ Served' /\ Known' /\ Heard'
  <2>1. OneId /\ Served /\ Known /\ Heard
    BY <1>8 DEF IInv, Agreed
  <2>2. \A t \in Stream, i \in Ids : Has(t, i)' <=> Has(t, i)
    BY <1>1, <1>2, <1>3 DEF Has, Stream
  <2>3. \A t \in Stream : ~Has(t, id)
    BY <1>2, <1>6 DEF Has, Stream
  <2>4. Heard'
    BY <1>1, <2>1, <2>2 DEF Heard
  <2>7. OneId'
    BY <2>1, <2>2 DEF OneId
  <2>8. Served'
    <3> SUFFICES ASSUME NEW t \in Stream, NEW i \in Ids, Has(t, i)
                 PROVE  (/\ Wanted(t) /\ status[i] \in {"open", "refused"}
                         /\ req[i] = t /\ table[i] = t)'
      BY <2>2 DEF Served
    <3>1. i # id
      BY <2>3
    <3> QED BY <1>1, <1>3, <2>1, <3>1 DEF Served, Wanted
  <2>5. ASSUME NEW i \in Ids, status'[i] = "open" PROVE Has(req[i], i)'
    <3>1. req'[i] = req[i] /\ status[i] = "open"
      BY <1>3, <2>5
    <3>2. req[i] \in Stream /\ Has(req[i], i)
      BY <2>1, <3>1 DEF Known, IInv, TypeOK, OwnRequest
    <3> QED BY <2>2, <3>1, <3>2
  <2>6. ASSUME NEW i \in Ids, status'[i] = "snapshot"
        PROVE  req'[i] \in Market /\ table'[i] = req'[i]
    BY <1>1, <1>3, <2>1, <2>6 DEF Known
  <2> QED BY <2>4, <2>5, <2>6, <2>7, <2>8 DEF Known, Has
<1>9. LoopInv' /\ OnlyStrayDepthRaises'
  BY <1>1, <1>2, <1>3 DEF IInv, LoopInv, OnlyStrayDepthRaises
<1>10. Found'
  BY <1>1, <1>2, <1>3 DEF IInv, Found, Expected, Dispatching, Stream
<1>11. Agreed'
  BY <1>1, <1>8 DEF Agreed
<1> QED BY <1>4, <1>5, <1>7, <1>9, <1>10, <1>11 DEF IInv

-----------------------------------------------------------------------------
\* Messages and the connection.

LEMMA DispatchFacts ==
  ASSUME IInv, Dispatching
  PROVE  /\ AfterDispatch \in {"running", "draining", "stopped", "raised"}
         /\ AfterDispatch # "raised" /\ loop # "raised"
         /\ AfterDispatch \in {"running", "draining"} => AfterDispatch = loop
BY DEF Dispatching, AfterDispatch

\* A message changes what the server has made of one id, and perhaps its entry.
LEMMA DataKeeps ==
  ASSUME IInv, NEW id \in Ids, Data(id)
  PROVE  IInv'
<1> USE StreamAssumption
<1>1. /\ Dispatching /\ status[id] \in {"open", "snapshot", "stray"}
      /\ loop' = IF LooksUp(id) THEN AfterDispatch ELSE "raised"
      /\ UNCHANGED <<next_request_id, table, request_id, listeners, req, status, writer>>
      /\ UNCHANGED <<called, unheard>>
  BY DEF Data, callers
<1>2. TypeOK'
  <2>1. future' \in [Ids -> Futures]
    BY DEF Data, ResolvedByBar, IInv, TypeOK, Futures
  <2> QED BY <1>1, <2>1, DispatchFacts DEF IInv, TypeOK
<1>3. Fresh' /\ OwnRequest' /\ Agreed'
  BY <1>1 DEF IInv, Fresh, OwnRequest, Agreed, OneId, Served, Known, Heard, Wanted, Has
<1>4. LoopInv' /\ Found'
  BY <1>1, DispatchFacts DEF IInv, LoopInv, Found, Expected, Dispatching
<1>5. OnlyStrayDepthRaises'
  <2>1. ~LooksUp(id) => status[id] = "stray" /\ req[id] \in Depth
    BY <1>1 DEF LooksUp, IInv, Found, Expected
  <2> QED BY <1>1, <2>1, DispatchFacts DEF OnlyStrayDepthRaises
<1> QED BY <1>2, <1>3, <1>4, <1>5 DEF IInv

LEMMA SnapshotEndKeeps ==
  ASSUME IInv, NEW id \in Ids, SnapshotEnd(id)
  PROVE  IInv'
<1> USE StreamAssumption
<1>1. /\ Dispatching /\ status[id] = "snapshot" /\ loop' = AfterDispatch
      /\ status' = [status EXCEPT ![id] = "over"]
      /\ table' = [table EXCEPT ![id] = None]
      /\ UNCHANGED <<next_request_id, request_id, listeners, req, writer>>
      /\ UNCHANGED <<called, unheard>>
  BY DEF SnapshotEnd, callers
<1>2. TypeOK'
  <2>1. future' \in [Ids -> Futures]
    BY DEF SnapshotEnd, SnapshotResolved, IInv, TypeOK, Futures
  <2> QED BY <1>1, <2>1, DispatchFacts DEF IInv, TypeOK, Statuses
<1>3. Fresh' /\ OwnRequest'
  BY <1>1 DEF IInv, TypeOK, Fresh, OwnRequest
<1>4. Agreed'
  <2> SUFFICES ASSUME writer = "open" PROVE OneId' /\ Served' /\ Known' /\ Heard'
    BY <1>1 DEF Agreed
  <2>1. OneId /\ Served /\ Known /\ Heard
    BY DEF IInv, Agreed
  <2>2. \A t \in Stream : ~Has(t, id)
    BY <1>1, <2>1 DEF Served
  <2>3. \A t \in Stream, i \in Ids : Has(t, i)' <=> Has(t, i)
    BY <1>1, <2>2 DEF Has, IInv, TypeOK, Stream
  <2>4. OneId' /\ Served' /\ Heard'
    BY <1>1, <2>1, <2>2, <2>3 DEF OneId, Served, Heard, Wanted, IInv, TypeOK
  <2>5. \A i \in Ids : status'[i] = "open" => Has(req[i], i)'
    <3> SUFFICES ASSUME NEW i \in Ids, status'[i] = "open" PROVE Has(req[i], i)'
      OBVIOUS
    <3>1. status[i] = "open"
      BY <1>1 DEF IInv, TypeOK
    <3>2. req[i] \in Stream /\ Has(req[i], i)
      BY <2>1, <3>1 DEF Known, IInv, TypeOK, OwnRequest
    <3> QED BY <1>1, <2>3, <3>2
  <2>6. \A i \in Ids : status'[i] = "snapshot" => req'[i] \in Market /\ table'[i] = req'[i]
    BY <1>1, <2>1 DEF Known, IInv, TypeOK
  <2> QED BY <2>4, <2>5, <2>6 DEF Known, Has
<1>5. LoopInv' /\ OnlyStrayDepthRaises'
  BY <1>1, DispatchFacts DEF IInv, LoopInv, OnlyStrayDepthRaises
<1>6. Found'
  BY <1>1, DispatchFacts DEF IInv, TypeOK, Found, Expected, Dispatching
<1> QED BY <1>2, <1>3, <1>4, <1>5, <1>6 DEF IInv

\* The server is done with an id, and the client's tables stay as they are.
LEMMA StatusKeeps ==
  ASSUME IInv, NEW id \in Ids, NEW how \in {"refused", "over"},
         IF how = "refused" THEN status[id] \in {"open", "snapshot"} ELSE status[id] = "stray",
         status' = [status EXCEPT ![id] = how],
         future' \in [Ids -> Futures],
         \/ loop' = loop /\ how = "over"
         \/ Dispatching /\ loop' = AfterDispatch,
         UNCHANGED <<next_request_id, table, request_id, listeners, req, writer>>,
         UNCHANGED <<called, unheard>>
  PROVE  IInv'
<1>1. TypeOK'
  BY DispatchFacts DEF IInv, TypeOK, Statuses
<1>2. Fresh' /\ OwnRequest'
  BY DEF IInv, TypeOK, Fresh, OwnRequest
<1>3. Agreed'
  <2> SUFFICES ASSUME writer = "open" PROVE OneId' /\ Served' /\ Known' /\ Heard'
    BY DEF Agreed
  <2>1. OneId /\ Served /\ Known /\ Heard
    BY DEF IInv, Agreed
  <2>2. \A t, i : Has(t, i)' <=> Has(t, i)
    BY DEF Has
  <2>3. \A i \in Ids : status'[i] \in {"open", "snapshot"} => status'[i] = status[i]
    BY DEF IInv, TypeOK
  <2>4. OneId' /\ Served' /\ Heard'
    BY <2>1, <2>2 DEF OneId, Served, Heard, Wanted, IInv, TypeOK
  <2>5. Known'
    BY <2>1, <2>2, <2>3 DEF Known, Has
  <2> QED BY <2>4, <2>5
<1>4. LoopInv'
  BY DispatchFacts DEF IInv, LoopInv
<1>5. Found'
  BY DispatchFacts DEF IInv, TypeOK, Found, Expected, Dispatching
<1>6. OnlyStrayDepthRaises'
  BY DispatchFacts DEF IInv, TypeOK, OnlyStrayDepthRaises
<1> QED BY <1>1, <1>2, <1>3, <1>4, <1>5, <1>6 DEF IInv

LEMMA MessageKeeps ==
  ASSUME IInv, NEW id \in Ids, Message(id)
  PROVE  IInv'
<1>1. CASE Data(id)
  BY <1>1, DataKeeps
<1>2. CASE SnapshotEnd(id)
  BY <1>2, SnapshotEndKeeps
<1>3. CASE Refused(id)
  <2>1. future' \in [Ids -> Futures]
    BY <1>3 DEF Refused, IInv, TypeOK, Futures
  <2> QED BY <1>3, <2>1, StatusKeeps DEF Refused, callers
<1>4. CASE StraysOver(id)
  <2>1. future' \in [Ids -> Futures]
    BY <1>4 DEF StraysOver, client, IInv, TypeOK, Futures
  <2> QED BY <1>4, <2>1, StatusKeeps DEF StraysOver, client, callers
<1> QED BY <1>1, <1>2, <1>3, <1>4 DEF Message

LEMMA ConnectionKeeps ==
  ASSUME IInv, Disconnect \/ ConnectionLost
  PROVE  IInv'
<1>1. /\ UNCHANGED <<client, req, status>> /\ writer' \in {"closed", "broken"}
      /\ loop' \in {"running", "draining", "stopped", "raised"}
      /\ loop' = "draining" => writer' = "closed" /\ Dispatching
      /\ loop' # "running" /\ (loop' = "raised" => loop = "raised")
  BY DEF Disconnect, ConnectionLost, IInv, TypeOK, LoopInv, Dispatching
<1>2. TypeOK' /\ Agreed' /\ LoopInv'
  BY <1>1 DEF IInv, TypeOK, Agreed, LoopInv, client, callers
<1>3. Fresh' /\ OwnRequest' /\ Found' /\ OnlyStrayDepthRaises'
  BY <1>1
     DEF IInv, Fresh, OwnRequest, Found, Expected, Dispatching, OnlyStrayDepthRaises, client
<1> QED BY <1>2, <1>3 DEF IInv

-----------------------------------------------------------------------------
LEMMA NextKeeps == IInv /\ [Next]_vars => IInv'
<1> SUFFICES ASSUME IInv, [Next]_vars PROVE IInv'
  OBVIOUS
<1>1. CASE UNCHANGED vars
  BY <1>1 DEF IInv, TypeOK, Fresh, OwnRequest, Agreed, OneId, Served, Known, Heard, Wanted,
              Has, LoopInv, Found, Expected, Dispatching, OnlyStrayDepthRaises, vars, client,
              callers
<1>2. ASSUME NEW s \in Stream,
             \/ AddListener(s) \/ RemoveListener(s) \/ Resubscribe(s) \/ Snapshot(s)
             \/ GetMarketData(s) \/ CancelMarketData(s)
      PROVE  IInv'
  BY <1>2, AddListenerKeeps, RemoveListenerKeeps, ResubscribeKeeps, SnapshotKeeps,
     GetMarketDataKeeps, CancelMarketDataKeeps
<1>3. ASSUME NEW id \in Ids, Message(id) PROVE IInv'
  BY <1>3, MessageKeeps
<1>4. CASE Disconnect \/ ConnectionLost
  BY <1>4, ConnectionKeeps
<1> QED BY <1>1, <1>2, <1>3, <1>4 DEF Next

LEMMA Inductive == Spec => []IInv
BY InitInv, NextKeeps, PTL DEF Spec

\* Every variable keeps its type.
THEOREM TypeCorrect == Spec => []TypeOK
BY Inductive, PTL DEF IInv

\* While the connection lasts, the data of every stream and snapshot finds the
\* instrument that it was asked for (the tables of the four mixins).
THEOREM DataIsRouted == Spec => []Routed
<1>1. ASSUME IInv PROVE Routed
  BY <1>1 DEF IInv, TypeOK, OwnRequest, Agreed, Served, Known, Routed
<1> QED BY <1>1, Inductive, PTL

\* While the connection lasts, every stream that is open at the server has handlers or
\* was asked for, is the only one of its instrument, and is found by its cancellation.
THEOREM NoStreamIsLeaked == Spec => []NoStreamLeaks
<1>1. ASSUME IInv PROVE NoStreamLeaks
  <2> SUFFICES ASSUME writer = "open", NEW i \in Ids, status[i] = "open"
               PROVE  RequestId(req[i]) = i /\ (listeners[req[i]] > 0 \/ req[i] \in called)
    BY DEF NoStreamLeaks
  <2>1. req[i] \in Stream /\ Has(req[i], i)
    BY <1>1 DEF IInv, TypeOK, OwnRequest, Agreed, Known
  <2>2. RequestId(req[i]) # 0 /\ RequestId(req[i]) \in Ids /\ Has(req[i], RequestId(req[i]))
    BY <1>1, <2>1, RequestIdHas DEF IInv
  <2> QED BY <1>1, <2>1, <2>2 DEF IInv, Agreed, OneId, Served, Wanted
<1> QED BY <1>1, Inductive, PTL

\* While the connection lasts, a stream with handlers has an id unless subscribing for
\* the first of them raised or the application cancelled it, and a stream with an id is
\* wanted, and open or refused.
THEOREM HandlersAreServed == Spec => []HandlersServed
<1>1. ASSUME IInv PROVE HandlersServed
  <2> SUFFICES ASSUME writer = "open", NEW s \in Stream
               PROVE  /\ listeners[s] > 0 /\ s \notin unheard => RequestId(s) # 0
                      /\ RequestId(s) # 0 => /\ listeners[s] > 0 \/ s \in called
                                             /\ status[RequestId(s)] \in {"open", "refused"}
    BY DEF HandlersServed
  <2>1. Served /\ Heard
    BY <1>1 DEF IInv, Agreed
  <2>2. listeners[s] > 0 /\ s \notin unheard => RequestId(s) # 0
    BY <1>1, <2>1, RequestIdHas DEF IInv, Heard
  <2>3. RequestId(s) # 0 => RequestId(s) \in Ids /\ Has(s, RequestId(s))
    BY <1>1, RequestIdHas DEF IInv
  <2> QED BY <2>1, <2>2, <2>3 DEF Served, Wanted
<1> QED BY <1>1, Inductive, PTL

\* Only a message of a book that crossed its cancellation ends the loop
\* (MarketDepthMixin._handle_market_depth).
THEOREM OnlyBooksRaise == Spec => []OnlyStrayDepthRaises
BY Inductive, PTL DEF IInv

-----------------------------------------------------------------------------
(* The rows of a book.                                                       *)

\* A row of a sequence lies in its first part or in its second.

LEMMA FrontOf ==
    ASSUME NEW S, NEW b \in Seq(S), NEW l \in Seq(S), NEW j \in 0..Len(b)
    PROVE  SubSeq(b \o l, 1, j) = SubSeq(b, 1, j)
<1>1. b \o l \in Seq(S) /\ Len(b \o l) = Len(b) + Len(l) /\ Len(b) \in Nat /\ Len(l) \in Nat
      /\ \A i \in 1..Len(b) : (b \o l)[i] = b[i]
  BY ConcatProperties, LenProperties
<1>2. /\ SubSeq(b \o l, 1, j) \in Seq(S) /\ Len(SubSeq(b \o l, 1, j)) = j
      /\ \A i \in 1..j : SubSeq(b \o l, 1, j)[i] = (b \o l)[i]
  BY <1>1, SubSeqProperties
<1>3. /\ SubSeq(b, 1, j) \in Seq(S) /\ Len(SubSeq(b, 1, j)) = j
      /\ \A i \in 1..j : SubSeq(b, 1, j)[i] = b[i]
  BY <1>1, SubSeqProperties
<1>4. \A i \in 1..j : i \in 1..Len(b)
  BY <1>1
<1>. QED BY <1>1, <1>2, <1>3, <1>4, SeqEqual

LEMMA BackOf ==
    ASSUME NEW S, NEW b \in Seq(S), NEW l \in Seq(S), NEW j \in 1..(Len(b) + 1)
    PROVE  SubSeq(b \o l, j, Len(b \o l)) = SubSeq(b, j, Len(b)) \o l
<1>1. b \o l \in Seq(S) /\ Len(b \o l) = Len(b) + Len(l) /\ Len(b) \in Nat /\ Len(l) \in Nat
      /\ \A i \in 1..(Len(b) + Len(l)) :
            (b \o l)[i] = IF i <= Len(b) THEN b[i] ELSE l[i - Len(b)]
  BY ConcatProperties, LenProperties
<1>. DEFINE n == Len(b) + 1 - j
            s == SubSeq(b, j, Len(b))
            t == SubSeq(b \o l, j, Len(b \o l))
<1>2. t \in Seq(S) /\ Len(t) = n + Len(l)
      /\ \A i \in 1..(n + Len(l)) : t[i] = (b \o l)[j + i - 1]
  BY <1>1, SubSeqProperties
<1>3. s \in Seq(S) /\ Len(s) = n /\ \A i \in 1..n : s[i] = b[j + i - 1]
  BY <1>1, SubSeqProperties
<1>. HIDE DEF s, t
<1>4. s \o l \in Seq(S) /\ Len(s \o l) = n + Len(l)
      /\ \A i \in 1..(n + Len(l)) : (s \o l)[i] = IF i <= n THEN s[i] ELSE l[i - n]
  <2>1. /\ s \o l \in Seq(S) /\ Len(s \o l) = Len(s) + Len(l)
        /\ \A i \in 1..(Len(s) + Len(l)) :
              (s \o l)[i] = IF i <= Len(s) THEN s[i] ELSE l[i - Len(s)]
    BY <1>3, ConcatProperties
  <2>2. Len(s) = n
    BY <1>3
  <2>. HIDE DEF n
  <2>. QED BY <2>1, <2>2
<1>5. ASSUME NEW i \in 1..(n + Len(l)) PROVE t[i] = (s \o l)[i]
  <2>1. j + i - 1 \in 1..(Len(b) + Len(l)) /\ (j + i - 1 <= Len(b) <=> i <= n)
        /\ j + i - 1 - Len(b) = i - n
    BY <1>1
  <2>2. CASE i <= n
    BY <1>1, <1>2, <1>3, <1>4, <2>1, <2>2
  <2>3. CASE ~ i <= n
    BY <1>1, <1>2, <1>4, <2>1, <2>3
  <2>. QED BY <2>2, <2>3
<1>. QED BY <1>2, <1>4, <1>5, SeqEqual DEF s, t

LEMMA Regroup ==
    ASSUME NEW a \in Seq(Entry), NEW b \in Seq(Entry), NEW c \in Seq(Entry)
    PROVE  a \o (b \o c) = (a \o b) \o c
BY ConcatAssociative

\* What an operation asks of the server's book, and what the client then makes of it.
Allowed(b, m) == IF m.op = "insert" THEN m.at <= Len(b) + 1 ELSE m.at <= Len(b)
Matches(b, l, m) ==
    /\ InRange(b \o l, m)
    /\ Changed(b, m.op, m.at, m.entry) \in Seq(Entry)
    /\ Applied(b \o l, m) = Changed(b, m.op, m.at, m.entry) \o l

\* What the client makes of an operation is what the server made of it, with the
\* rows that were left below.
LEMMA ChangeOnTop ==
    ASSUME NEW b \in Seq(Entry), NEW l \in Seq(Entry), NEW m \in Op, Allowed(b, m)
    PROVE  Matches(b, l, m)
<1>. DEFINE op == m.op
            at == m.at
            e == m.entry
            s == b \o l
<1>0. /\ op \in {"insert", "update", "delete"} /\ at \in Nat \ {0} /\ e \in Entry
      /\ IF op = "insert" THEN at <= Len(b) + 1 ELSE at <= Len(b)
  BY BoundsAssumption DEF Op, Allowed
<1>2. m.op = op /\ m.at = at /\ m.entry = e
  OBVIOUS
<1>. HIDE DEF op, at, e
<1>1. s \in Seq(Entry) /\ Len(s) = Len(b) + Len(l) /\ Len(b) \in Nat /\ Len(l) \in Nat
  BY ConcatProperties, LenProperties
<1>3. InRange(s, m)
  BY <1>0, <1>1, <1>2 DEF InRange
<1>. DEFINE front == SubSeq(b, 1, at - 1)
<1>4. front \in Seq(Entry) /\ SubSeq(s, 1, at - 1) = front
  <2>1. at - 1 \in 0..Len(b)
    BY <1>0, <1>1
  <2>2. front \in Seq(Entry)
    BY <1>1, <2>1, SubSeqProperties
  <2>. QED BY <2>1, <2>2, FrontOf
<1>5. CASE op = "insert"
  <2>. DEFINE back == SubSeq(b, at, Len(b))
  <2>1. back \in Seq(Entry) /\ SubSeq(s, at, Len(s)) = back \o l
    <3>1. at \in 1..(Len(b) + 1)
      BY <1>0, <1>1, <1>5
    <3>2. back \in Seq(Entry)
      BY <1>1, <3>1, SubSeqProperties
    <3>. QED BY <3>1, <3>2, BackOf
  <2>2. (IF at > Len(s) THEN Len(s) + 1 ELSE at) = at
    BY <1>0, <1>1, <1>5
  <2>. HIDE DEF s, front, back
  <2>3. Applied(s, m) = (front \o <<e>>) \o (back \o l)
    BY <1>2, <1>4, <1>5, <2>1, <2>2 DEF Applied, InsertAt
  <2>. DEFINE top == front \o <<e>>
  <2>4. top \in Seq(Entry) /\ top \o back \in Seq(Entry)
    BY <1>0, <1>4, <2>1, ConcatProperties
  <2>. HIDE DEF top
  <2>5. top \o (back \o l) = (top \o back) \o l
    BY <2>1, <2>4, Regroup
  <2>6. Changed(b, op, at, e) = top \o back
    BY <1>5 DEF Changed, front, back, top
  <2>. QED BY <1>2, <1>3, <2>1, <2>3, <2>4, <2>5, <2>6 DEF s, top, Matches
<1>6. CASE op = "delete"
  <2>. DEFINE back == SubSeq(b, at + 1, Len(b))
  <2>1. back \in Seq(Entry) /\ SubSeq(s, at + 1, Len(s)) = back \o l
    <3>1. at + 1 \in 1..(Len(b) + 1)
      BY <1>0, <1>1, <1>6
    <3>2. back \in Seq(Entry)
      BY <1>1, <3>1, SubSeqProperties
    <3>. QED BY <3>1, <3>2, BackOf
  <2>. HIDE DEF s, front, back
  <2>2. Applied(s, m) = front \o (back \o l)
    BY <1>2, <1>4, <1>6, <2>1 DEF Applied, RemoveAt
  <2>3. front \o back \in Seq(Entry) /\ front \o (back \o l) = (front \o back) \o l
    BY <1>4, <2>1, ConcatProperties, Regroup
  <2>4. Changed(b, op, at, e) = front \o back
    BY <1>6 DEF Changed, front, back
  <2>. QED BY <1>2, <1>3, <2>2, <2>3, <2>4 DEF s, Matches
<1>7. CASE op = "update"
  <2>. DEFINE c == [b EXCEPT ![at] = e]
  <2>1. at \in 1..Len(b)
    BY <1>0, <1>1, <1>7
  <2>2. c \in Seq(Entry) /\ Len(c) = Len(b)
        /\ \A k \in 1..Len(b) : c[k] = IF k = at THEN e ELSE b[k]
    BY <1>0, <2>1, ExceptSeq
  <2>. HIDE DEF c
  <2>3. c \o l \in Seq(Entry) /\ Len(c \o l) = Len(s)
        /\ \A k \in 1..Len(s) : (c \o l)[k] = IF k <= Len(b) THEN c[k] ELSE l[k - Len(b)]
    <3>1. c \o l \in Seq(Entry) /\ Len(c \o l) = Len(c) + Len(l)
          /\ \A k \in 1..(Len(c) + Len(l)) :
                (c \o l)[k] = IF k <= Len(c) THEN c[k] ELSE l[k - Len(c)]
      BY <2>2, ConcatProperties
    <3>. QED BY <1>1, <2>2, <3>1
  <2>4. \A k \in 1..Len(s) : s[k] = IF k <= Len(b) THEN b[k] ELSE l[k - Len(b)]
    BY <1>1, ConcatProperties
  <2>5. at \in 1..Len(s)
    BY <1>1, <2>1
  <2>. HIDE DEF s
  <2>. DEFINE d == [s EXCEPT ![at] = e]
  <2>6. d \in Seq(Entry) /\ Len(d) = Len(s)
        /\ \A k \in 1..Len(s) : d[k] = IF k = at THEN e ELSE s[k]
    BY <1>0, <1>1, <2>5, ExceptSeq
  <2>. HIDE DEF d
  <2>7. \A k \in 1..Len(s) : d[k] = (c \o l)[k]
    BY <1>1, <2>1, <2>2, <2>3, <2>4, <2>6
  <2>8. d = c \o l
    <3>. DEFINE f == c \o l
    <3>1. f \in Seq(Entry) /\ Len(f) = Len(s) /\ \A k \in 1..Len(s) : d[k] = f[k]
      BY <2>3, <2>7
    <3>. HIDE DEF f
    <3>2. Len(d) = Len(f) /\ \A k \in 1..Len(d) : d[k] = f[k]
      BY <2>6, <3>1
    <3>3. d = f
      BY <2>6, <3>1, <3>2, SeqEqual
    <3>. QED BY <3>3 DEF f
  <2>9. Applied(s, m) = d
    BY <1>2, <1>7 DEF Applied, ReplaceAt, d
  <2>10. Changed(b, op, at, e) = c
    BY <1>7 DEF Changed, c
  <2>. QED BY <1>2, <1>3, <2>2, <2>8, <2>9, <2>10 DEF s, Matches
<1>. QED BY <1>0, <1>5, <1>6, <1>7

\* While the loop runs, the messages in flight can all be applied, one after the
\* other, and lead to the server's book on top of what was left.
Leads(g) ==
    /\ g[0] = rows
    /\ \A k \in 0..Len(wire) : g[k] \in Seq(Entry)
    /\ \A k \in 1..Len(wire) : InRange(g[k - 1], wire[k]) /\ g[k] = Applied(g[k - 1], wire[k])
    /\ serving # 0 => g[Len(wire)] = book \o left
DepthInv ==
    /\ DepthTypeOK
    /\ message_loop # "IndexError"
    /\ message_loop = "running" => \E g : Leads(g)

LEMMA LeadsToAll ==
    ASSUME DepthTypeOK, NEW g, Leads(g)
    PROVE  AllApplied(rows, wire) = g[Len(wire)]
<1>1. AllApplied(rows, wire) = D!FoldLeft(Applied, rows, wire)
  BY Zenon DEF AllApplied, FoldLeft, MapThenFoldSet, Max,
               D!FoldLeft, D!MapThenFoldSet, D!Max
<1>2. Len(wire) \in Nat /\ DOMAIN wire = 1..Len(wire)
  BY LenProperties DEF DepthTypeOK
<1>3. D!IsPath(g, rows, wire)
  BY DEF Leads, D!IsPath
<1>. QED BY <1>1, <1>2, <1>3, D!FoldIs

LEMMA DepthInitInv == DepthInit => DepthInv
<1>. SUFFICES ASSUME DepthInit PROVE DepthInv
  OBVIOUS
<1>1. DepthTypeOK
  BY BoundsAssumption, EmptySeq DEF DepthInit, DepthTypeOK
<1>2. Leads([k \in 0..0 |-> <<>>])
  BY EmptySeq DEF DepthInit, Leads
<1>. QED BY <1>1, <1>2 DEF DepthInit, DepthInv

\* The requests in flight name what has been asked for, also when more has been.
LEMMA RequestsGrow ==
    ASSUME NEW n \in Nat, NEW k \in Nat, k >= n, NEW s \in Seq(0..n), NEW i \in 0..k
    PROVE  Append(s, i) \in Seq(0..k)
<1>1. s \in Seq(0..k)
  <2>1. Len(s) \in Nat /\ DOMAIN s = 1..Len(s) /\ s \in [1..Len(s) -> 0..n]
    BY LenProperties
  <2>2. s \in [1..Len(s) -> 0..k]
    BY <2>1
  <2>. QED BY <2>1, <2>2, SeqDef
<1>. QED BY <1>1, AppendProperties

LEMMA ChangedLength ==
    ASSUME NEW b \in Seq(Entry), NEW op \in {"insert", "update", "delete"},
           NEW at \in Nat \ {0}, NEW e \in Entry,
           IF op = "insert" THEN at <= Len(b) + 1 ELSE at <= Len(b)
    PROVE  Len(Changed(b, op, at, e)) <= Len(b) + (IF op = "insert" THEN 1 ELSE 0)
<1>. DEFINE front == SubSeq(b, 1, at - 1)
<1>1. Len(b) \in Nat /\ front \in Seq(Entry) /\ Len(front) = at - 1
  BY LenProperties, SubSeqProperties
<1>2. CASE op = "insert"
  <2>. DEFINE back == SubSeq(b, at, Len(b))
              top == front \o <<e>>
  <2>1. back \in Seq(Entry) /\ Len(back) = Len(b) - at + 1
    BY <1>1, <1>2, SubSeqProperties
  <2>. HIDE DEF front, back
  <2>2. top \in Seq(Entry) /\ Len(top) = Len(front) + 1
    BY <1>1, ConcatProperties
  <2>. HIDE DEF top
  <2>3. Len(top \o back) = Len(top) + Len(back)
    BY <2>1, <2>2, ConcatProperties
  <2>4. Changed(b, op, at, e) = top \o back
    BY <1>2 DEF Changed, front, back, top
  <2>. QED BY <1>1, <1>2, <2>1, <2>2, <2>3, <2>4
<1>3. CASE op = "delete"
  <2>. DEFINE back == SubSeq(b, at + 1, Len(b))
  <2>1. back \in Seq(Entry) /\ Len(back) = Len(b) - at
    BY <1>1, <1>3, SubSeqProperties
  <2>. HIDE DEF front, back
  <2>2. Len(front \o back) = Len(front) + Len(back)
    BY <1>1, <2>1, ConcatProperties
  <2>3. Changed(b, op, at, e) = front \o back
    BY <1>3 DEF Changed, front, back
  <2>. QED BY <1>1, <1>3, <2>1, <2>2, <2>3
<1>4. CASE op = "update"
  BY <1>1, <1>4, ExceptSeq DEF Changed
<1>. QED BY <1>2, <1>3, <1>4

LEMMA DispatchKeeps == ASSUME DepthInv, Dispatch PROVE DepthInv'
<1>1. PICK g : Leads(g)
  BY DEF DepthInv, Dispatch
<1>2. /\ Len(wire) \in Nat \ {0} /\ wire[1] = Head(wire)
      /\ Tail(wire) \in Seq(Op) /\ Len(Tail(wire)) = Len(wire) - 1
      /\ \A k \in 1..(Len(wire) - 1) : Tail(wire)[k] = wire[k + 1]
  BY HeadTailProperties, EmptySeq, LenProperties DEF DepthInv, DepthTypeOK, Dispatch
<1>3. InRange(rows, Head(wire)) /\ g[1] = Applied(rows, Head(wire)) /\ g[1] \in Seq(Entry)
  BY <1>1, <1>2 DEF Leads
<1>4. /\ \/ message_loop' = "AttributeError" /\ rows' = rows
         \/ message_loop' = message_loop /\ rows' = g[1]
      /\ wire' = Tail(wire) /\ UNCHANGED <<depth_id, subs, toServer, serving, book, left>>
  BY <1>3 DEF Dispatch, server
<1>5. DepthTypeOK' /\ message_loop' # "IndexError"
  BY <1>2, <1>3, <1>4, BoundsAssumption DEF DepthInv, DepthTypeOK
<1>6. ASSUME message_loop' = "running" PROVE \E h : Leads(h)'
  <2>. DEFINE h == [k \in 0..Len(wire') |-> g[k + 1]]
  <2>1. rows' = g[1] /\ Len(wire') = Len(wire) - 1
    BY <1>2, <1>4, <1>6
  <2>2. \A k \in 0..Len(wire') : k + 1 \in 0..Len(wire) /\ h[k] = g[k + 1]
    BY <1>2, <2>1
  <2>3. \A k \in 1..Len(wire') : /\ k - 1 \in 0..Len(wire') /\ h[k - 1] = g[k]
                                 /\ k + 1 \in 1..Len(wire) /\ wire'[k] = wire[k + 1]
    BY <1>2, <1>4, <2>1
  <2>4. 0 \in 0..Len(wire') /\ Len(wire') \in 0..Len(wire') /\ Len(wire') + 1 = Len(wire)
    BY <1>2, <2>1
  <2>. HIDE DEF h
  <2>5. h[0] = rows' /\ \A k \in 0..Len(wire') : h[k] \in Seq(Entry)
    <3>1. h[0] = rows'
      BY <2>1, <2>2, <2>4
    <3>2. \A k \in 0..Len(wire) : g[k] \in Seq(Entry)
      BY <1>1 DEF Leads
    <3>. QED BY <2>2, <3>1, <3>2
  <2>6. \A k \in 1..Len(wire') : /\ InRange(h[k - 1], wire'[k])
                                 /\ h[k] = Applied(h[k - 1], wire'[k])
    <3>. SUFFICES ASSUME NEW k \in 1..Len(wire')
                  PROVE  InRange(h[k - 1], wire'[k]) /\ h[k] = Applied(h[k - 1], wire'[k])
      OBVIOUS
    <3>1. /\ InRange(g[(k + 1) - 1], wire[k + 1])
          /\ g[k + 1] = Applied(g[(k + 1) - 1], wire[k + 1])
      BY <1>1, <2>3 DEF Leads
    <3>2. (k + 1) - 1 = k /\ k \in 0..Len(wire')
      BY <1>2, <2>1
    <3>. QED BY <2>2, <2>3, <3>1, <3>2
  <2>7. serving' # 0 => h[Len(wire')] = book' \o left'
    BY <1>1, <1>4, <2>2, <2>4 DEF Leads
  <2>. QED BY <2>5, <2>6, <2>7 DEF Leads
<1>. QED BY <1>5, <1>6 DEF DepthInv

LEMMA ReadsKeeps == ASSUME DepthInv, ServerReads PROVE DepthInv'
<1>1. Head(toServer) \in 0..subs /\ Tail(toServer) \in Seq(0..subs)
  BY HeadTailProperties DEF DepthInv, DepthTypeOK, ServerReads
<1>2. UNCHANGED <<rows, depth_id, subs, message_loop, wire>>
  BY DEF ServerReads, depth_client
<1>3. CASE message_loop = "running"
  <2>1. PICK g : Leads(g)
    BY <1>3 DEF DepthInv
  <2>2. AllApplied(rows, wire) = g[Len(wire)] /\ g[Len(wire)] \in Seq(Entry)
    <3>1. Len(wire) \in 0..Len(wire)
      BY LenProperties DEF DepthInv, DepthTypeOK
    <3>. QED BY <2>1, <3>1, LeadsToAll DEF DepthInv, Leads
  <2>3. DepthTypeOK'
    BY <1>1, <1>2, <2>2, BoundsAssumption, EmptySeq DEF DepthInv, DepthTypeOK, ServerReads
  <2>4. serving' # 0 => g[Len(wire)] = book' \o left'
    <3>1. serving' # 0 => left' = g[Len(wire)] /\ book' = <<>>
      BY <1>3, <2>2 DEF ServerReads
    <3>. QED BY <2>2, <3>1, ConcatEmptySeq
  <2>5. Leads(g)'
    BY <1>2, <2>1, <2>4 DEF Leads
  <2>. QED BY <1>2, <2>3, <2>5 DEF DepthInv
<1>4. CASE message_loop # "running"
  <2>1. DepthTypeOK'
    BY <1>1, <1>2, <1>4, BoundsAssumption, EmptySeq DEF DepthInv, DepthTypeOK, ServerReads
  <2>. QED BY <1>2, <1>4, <2>1 DEF DepthInv
<1>. QED BY <1>3, <1>4

LEMMA ChangesKeeps ==
    ASSUME DepthInv, NEW op \in {"insert", "update", "delete"}, NEW at \in 1..MaxRows,
           NEW e \in Entry, ServerChanges(op, at, e)
    PROVE  DepthInv'
<1>. DEFINE m == [id |-> serving, op |-> op, at |-> at, entry |-> e]
            n == Len(wire)
<1>1. UNCHANGED <<rows, depth_id, subs, message_loop, toServer, serving, left>>
      /\ wire' = Append(wire, m) /\ book' = Changed(book, op, at, e) /\ at \in Nat \ {0} /\ serving # 0
  BY BoundsAssumption DEF ServerChanges, depth_client
<1>0. IF op = "insert" THEN at <= Len(book) + 1 ELSE at <= Len(book)
  BY DEF ServerChanges
<1>2. m \in Op
  BY <1>1, BoundsAssumption DEF DepthInv, DepthTypeOK, Op
<1>3. n \in Nat /\ wire' \in Seq(Op) /\ Len(wire') = n + 1 /\ Len(wire') <= MaxWire
      /\ wire'[n + 1] = m /\ \A k \in 1..n : wire'[k] = wire[k]
  <2>1. wire \in Seq(Op) /\ n \in Nat /\ n < MaxWire
    BY LenProperties DEF DepthInv, DepthTypeOK, ServerChanges
  <2>2. wire' \in Seq(Op) /\ Len(wire') = n + 1
        /\ wire'[n + 1] = m /\ \A k \in 1..n : wire'[k] = wire[k]
    BY <1>1, <1>2, <2>1, AppendProperties
  <2>. QED BY <2>1, <2>2, BoundsAssumption
<1>4. /\ InRange(book \o left, m)
      /\ book' \in Seq(Entry)
      /\ Applied(book \o left, m) = book' \o left
  <2>1. book \in Seq(Entry) /\ left \in Seq(Entry)
    BY DEF DepthInv, DepthTypeOK
  <2>2. /\ InRange(book \o left, m)
        /\ Changed(book, op, at, e) \in Seq(Entry)
        /\ Applied(book \o left, m) = Changed(book, op, at, e) \o left
    <3>1. m.op = op /\ m.at = at /\ m.entry = e
      OBVIOUS
    <3>2. Allowed(book, m)
      BY <1>0 DEF Allowed
    <3>. HIDE DEF m
    <3>3. Matches(book, left, m)
      BY <1>2, <2>1, <3>2, ChangeOnTop
    <3>. QED BY <3>1, <3>3 DEF Matches
  <2>. QED BY <1>1, <2>2
<1>5. Len(book') <= MaxRows
  <2>1. book \in Seq(Entry) /\ Len(book) \in Nat /\ Len(book) <= MaxRows
        /\ (op = "insert" => Len(book) < MaxRows)
    BY LenProperties DEF DepthInv, DepthTypeOK, ServerChanges
  <2>2. Len(book') <= Len(book) + (IF op = "insert" THEN 1 ELSE 0)
    BY <1>0, <1>1, <2>1, ChangedLength
  <2>3. Len(book') \in Nat
    BY <1>4, LenProperties
  <2>. QED BY <2>1, <2>2, <2>3, BoundsAssumption
<1>. HIDE DEF m
<1>6. DepthTypeOK'
  BY <1>1, <1>3, <1>4, <1>5 DEF DepthInv, DepthTypeOK
<1>7. ASSUME message_loop' = "running" PROVE \E h : Leads(h)'
  <2>1. PICK g : Leads(g)
    BY <1>1, <1>7 DEF DepthInv
  <2>. DEFINE h == [k \in 0..(n + 1) |-> IF k = n + 1 THEN book' \o left ELSE g[k]]
  <2>2. h[n + 1] = book' \o left /\ \A k \in 0..n : h[k] = g[k]
    BY <1>3
  <2>. HIDE DEF h
  <2>3. g[n] = book \o left
    BY <1>1, <2>1 DEF Leads
  <2>4. h[0] = rows'
    BY <1>1, <1>3, <2>1, <2>2 DEF Leads
  <2>5. \A k \in 0..Len(wire') : h[k] \in Seq(Entry)
    <3>1. book' \o left \in Seq(Entry)
      BY <1>4, ConcatProperties DEF DepthInv, DepthTypeOK
    <3>2. \A k \in 0..(n + 1) : k = n + 1 \/ k \in 0..n
      BY <1>3
    <3>. QED BY <1>3, <2>1, <2>2, <3>1, <3>2 DEF Leads
  <2>6. \A k \in 1..Len(wire') : /\ InRange(h[k - 1], wire'[k])
                                 /\ h[k] = Applied(h[k - 1], wire'[k])
    <3>1. ASSUME NEW k \in 1..n
          PROVE  InRange(h[k - 1], wire'[k]) /\ h[k] = Applied(h[k - 1], wire'[k])
      <4>1. k - 1 \in 0..n /\ k \in 0..n
        BY <1>3
      <4>. QED BY <1>3, <2>1, <2>2, <4>1 DEF Leads
    <3>2. /\ InRange(h[(n + 1) - 1], wire'[n + 1])
          /\ h[n + 1] = Applied(h[(n + 1) - 1], wire'[n + 1])
      <4>1. (n + 1) - 1 = n /\ n \in 0..n
        BY <1>3
      <4>. QED BY <1>3, <1>4, <2>2, <2>3, <4>1
    <3>3. \A k \in 1..(n + 1) : k = n + 1 \/ k \in 1..n
      BY <1>3
    <3>. QED BY <1>3, <3>1, <3>2, <3>3
  <2>7. h[Len(wire')] = book' \o left'
    BY <1>1, <1>3, <2>2
  <2>. QED BY <2>4, <2>5, <2>6, <2>7 DEF Leads
<1>. QED BY <1>1, <1>6, <1>7 DEF DepthInv

LEMMA DepthNextInv == DepthInv /\ [DepthNext]_depth_vars => DepthInv'
<1>. SUFFICES ASSUME DepthInv, [DepthNext]_depth_vars PROVE DepthInv'
  OBVIOUS
<1>1. CASE SubscribeDepth \/ UnsubscribeDepth
  <2>1. UNCHANGED <<rows, message_loop, serving, book, left, wire>>
    BY <1>1 DEF SubscribeDepth, UnsubscribeDepth, server
  <2>2. DepthTypeOK'
    <3>1. /\ subs' \in 0..MaxSubs /\ subs' >= subs /\ depth_id' \in 0..subs'
          /\ \E i \in 0..subs' : toServer' = Append(toServer, i)
      BY <1>1, BoundsAssumption DEF DepthInv, DepthTypeOK, SubscribeDepth, UnsubscribeDepth
    <3>2. toServer' \in Seq(0..subs')
      BY <3>1, RequestsGrow, BoundsAssumption DEF DepthInv, DepthTypeOK
    <3>. QED BY <2>1, <3>1, <3>2, BoundsAssumption DEF DepthInv, DepthTypeOK
  <2>. QED BY <2>1, <2>2 DEF DepthInv, Leads
<1>2. CASE Dispatch
  BY <1>2, DispatchKeeps
<1>3. CASE Reconnect
  <2>1. DepthTypeOK'
    BY <1>3, EmptySeq, BoundsAssumption DEF DepthInv, DepthTypeOK, Reconnect
  <2>2. Leads([k \in 0..0 |-> rows])'
    <3>1. wire' = <<>> /\ serving' = 0 /\ rows' = rows /\ rows \in Seq(Entry) /\ Len(wire') = 0
      BY <1>3, EmptySeq DEF DepthInv, DepthTypeOK, Reconnect
    <3>. QED BY <3>1 DEF Leads
  <2>. QED BY <1>3, <2>1, <2>2 DEF DepthInv, Reconnect
<1>4. CASE ServerReads
  BY <1>4, ReadsKeeps
<1>5. ASSUME NEW op \in {"insert", "update", "delete"}, NEW at \in 1..MaxRows,
             NEW e \in Entry, ServerChanges(op, at, e)
      PROVE  DepthInv'
  BY <1>5, ChangesKeeps
<1>6. CASE UNCHANGED depth_vars
  <2>1. UNCHANGED <<rows, depth_id, subs, toServer, serving, book, wire, message_loop, left>>
    BY <1>6 DEF depth_vars, depth_client, server
  <2>. QED BY <2>1 DEF DepthInv, DepthTypeOK, Leads
<1>. QED BY <1>1, <1>2, <1>3, <1>4, <1>5, <1>6 DEF DepthNext

LEMMA DepthInvAlways == DepthSpec => []DepthInv
BY DepthInitInv, DepthNextInv, PTL DEF DepthSpec

\* The rows, the server's book, the messages and the requests in flight keep their types.
THEOREM DepthTypeCorrect == DepthSpec => []DepthTypeOK
<1>1. DepthInv => DepthTypeOK
  BY DEF DepthInv
<1>. QED BY <1>1, DepthInvAlways, PTL

\* However subscriptions of a book follow each other, the client's rows become the
\* server's book on top of what was left, and no change misses its row.
THEOREM BookIsOnTop == DepthSpec => []BookOnTop
<1>1. DepthInv => BookOnTop
  <2>. SUFFICES ASSUME DepthInv, message_loop = "running", serving # 0
                PROVE  AllApplied(rows, wire) = book \o left
    BY DEF DepthInv, BookOnTop
  <2>1. PICK g : Leads(g)
    BY DEF DepthInv
  <2>. QED BY <2>1, LeadsToAll DEF DepthInv, Leads
<1>. QED BY <1>1, DepthInvAlways, PTL
=============================================================================
