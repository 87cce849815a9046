--------------------------- MODULE RequestsProofs ----------------------------
(* What the runs of Requests show on two calls, for any number of calls,     *)
(* requests and rows: the type invariant, that replies settle the calls they *)
(* are for, that nobody is left waiting for a reply already dispatched, that *)
(* results hold the rows sent, what can kill the message loop, and that      *)
(* every step is a step of Replies.                                          *)
EXTENDS Requests, TLAPS

\* Each request id is drawn once, and belongs to the future made with it.
IdsInv ==
    /\ \A f \in Future : state[f] = "unused" <=> rid[f] = None
    /\ \A f \in Future : rid[f] # None => rid[f] < next_request_id
    /\ \A f, g \in Future : rid[f] = rid[g] /\ rid[f] # None => f = g

\* An entry of the table is the future made under that id, and is still open
\* unless its caller has cancelled it.
TableInv ==
    \A i \in Ids : pending_responses[i] # None =>
        /\ rid[pending_responses[i]] = i
        /\ state[pending_responses[i]] \in {"pending", "orphaned", "cancelled"}

\* The server speaks only of requests it has received, and a call that raised
\* never reached it.
ServerInv ==
    /\ \A i \in Ids : i >= next_request_id => request[i] = None
    /\ \A i \in Ids : request[i] = None => i \notin final /\ i \notin errs /\ rows[i] = 0
    /\ \A f \in Future : state[f] = "orphaned" => request[rid[f]] = None
    /\ \A i \in Ids : request[i] = "executions" => pending_execs[i] = rows[i] \/ loop = "raised"

\* A decided call will see no more rows: executions wait for the closing
\* message, and contract data returns None only after it.
ResultInv ==
    \A f \in Future : state[f] = "result" =>
        /\ request[rid[f]] = "executions" => rid[f] \in final
        /\ request[rid[f]] = "details" /\ value[f] = 0 => rid[f] \in final

\* What is true of the calls, whatever may have killed the message loop.
CallsInv ==
    /\ TypeOK
    /\ IdsInv
    /\ TableInv
    /\ ServerInv
    /\ Routing
    /\ NoOneLeftWaiting
    /\ ResultInv
    /\ ResultMatchesRows

IInv == CallsInv /\ MisfireCause

-----------------------------------------------------------------------------
\* Facts about the constants.

LEMMA IdsNat == Ids \subseteq Nat /\ FirstId \in Nat /\ MaxRows \in Nat \ {0}
BY BoundsAssumption DEF Ids

LEMMA NoneNotId == None \notin Ids
BY NoneAssumption, BoundsAssumption DEF Ids

LEMMA NoneNotKind ==
    /\ None \notin Future /\ None \notin Kinds /\ None \notin 0..MaxRows
    /\ None \notin {"symbols", "history", "executions", "details"}
<1>1. None \notin Future
  BY NoneAssumption
<1>2. None \notin Kinds /\ None \notin {"symbols", "history", "executions", "details"}
  BY NoneAssumption, KindsAssumption DEF AllKinds
<1>3. None \notin 0..MaxRows
  BY NoneAssumption, BoundsAssumption
<1>. QED BY <1>1, <1>2, <1>3

LEMMA InitIInv == Init => IInv
<1>. SUFFICES ASSUME Init PROVE IInv
  OBVIOUS
<1>. USE NoneNotId, NoneNotKind, IdsNat
<1>1. TypeOK
  BY BoundsAssumption DEF Init, TypeOK, Ids, States, LoopStates
<1>2. IdsInv /\ TableInv /\ ServerInv
  BY DEF Init, IdsInv, TableInv, ServerInv
<1>3. Routing /\ NoOneLeftWaiting /\ ResultInv /\ ResultMatchesRows /\ MisfireCause
  BY DEF Init, Routing, NoOneLeftWaiting, ResultInv, ResultMatchesRows, MisfireCause
<1>. QED BY <1>1, <1>2, <1>3 DEF IInv, CallsInv

-----------------------------------------------------------------------------
\* Calls keep the invariant.

\* Both kinds of call draw a fresh id for their future.
LEMMA FreshId ==
    ASSUME TypeOK, IdsInv, ServerInv, TableInv, NEW f \in Future, MakeFuture(f)
    PROVE  /\ next_request_id \in Ids /\ rid[f] = None
           /\ request[next_request_id] = None
           /\ \A g \in Future : rid[g] # None => rid[g] \in Ids /\ rid[g] # next_request_id
           /\ \A i \in Ids : pending_responses[i] # None =>
                  i # next_request_id /\ pending_responses[i] # f
           /\ IdsInv' <=> \A g \in Future : state'[g] = "unused" <=> rid'[g] = None
<1>. USE NoneNotId, NoneNotKind, IdsNat
<1>1. /\ next_request_id \in Ids /\ rid[f] = None /\ request[next_request_id] = None
      /\ \A g \in Future : rid[g] # None => rid[g] \in Ids /\ rid[g] # next_request_id
  BY DEF MakeFuture, MakeRequestId, TypeOK, IdsInv, ServerInv
<1>2. \A i \in Ids : pending_responses[i] # None =>
          i # next_request_id /\ pending_responses[i] # f
  BY <1>1 DEF TypeOK, TableInv
<1>3. IdsInv' <=> \A g \in Future : state'[g] = "unused" <=> rid'[g] = None
  BY <1>1 DEF MakeFuture, MakeRequestId, TypeOK, IdsInv
<1>. QED BY <1>1, <1>2, <1>3

LEMMA IssueKeeps ==
    ASSUME CallsInv, NEW f \in Future, NEW k \in Kinds, Issue(f, k)
    PROVE  CallsInv' /\ (MisfireCause => MisfireCause')
<1>. USE NoneNotId, NoneNotKind, IdsNat
<1>1. /\ TypeOK /\ IdsInv /\ TableInv /\ ServerInv /\ Routing /\ NoOneLeftWaiting
      /\ ResultInv /\ ResultMatchesRows
  BY DEF CallsInv
<1>2. /\ next_request_id \in Ids /\ rid[f] = None
      /\ request[next_request_id] = None
      /\ \A g \in Future : rid[g] # None => rid[g] \in Ids /\ rid[g] # next_request_id
      /\ \A i \in Ids : pending_responses[i] # None =>
                  i # next_request_id /\ pending_responses[i] # f
      /\ IdsInv' <=> \A g \in Future : state'[g] = "unused" <=> rid'[g] = None
  BY <1>1, FreshId DEF Issue
<1>3. TypeOK'
  <2>1. pending_execs' \in [Ids -> 0..MaxRows \cup {None}]
    BY <1>1, <1>2 DEF Issue, StartsGathering, TypeOK
  <2>2. callback' \in [Future -> {"none", "registered", "scheduled", "run"}]
    BY <1>1 DEF Issue, RegistersCallback, TypeOK
  <2>3. request' \in [Ids -> Kinds \cup {None}] /\ state' \in [Future -> States]
    BY <1>1, <1>2 DEF Issue, TypeOK, States
  <2>. QED BY <1>1, <1>2, <2>1, <2>2, <2>3, BoundsAssumption
           DEF Issue, MakeFuture, MakeRequestId, TypeOK, Ids
<1>4. IdsInv'
  BY <1>1, <1>2 DEF Issue, MakeFuture, TypeOK, IdsInv
<1>5. TableInv'
  BY <1>1, <1>2 DEF Issue, MakeFuture, TypeOK, TableInv
<1>6. ServerInv'
  BY <1>1, <1>2
     DEF Issue, StartsGathering, MakeFuture, MakeRequestId, TypeOK, ServerInv, IdsInv
<1>7. Routing' /\ NoOneLeftWaiting'
  BY <1>1, <1>2
     DEF Issue, MakeFuture, TypeOK, ServerInv, IdsInv, Routing, NoOneLeftWaiting, Replied
<1>8. ResultInv' /\ ResultMatchesRows'
  BY <1>1, <1>2
     DEF Issue, StartsGathering, MakeFuture, TypeOK, IdsInv, ResultInv, ResultMatchesRows
<1>9. MisfireCause => MisfireCause'
  BY <1>1, <1>2 DEF Issue, MakeFuture, TypeOK, IdsInv, MisfireCause
<1>. QED BY <1>3, <1>4, <1>5, <1>6, <1>7, <1>8, <1>9 DEF CallsInv

LEMMA RaiseKeeps ==
    ASSUME CallsInv, NEW f \in Future, NEW k \in Kinds, Raise(f, k)
    PROVE  CallsInv' /\ (MisfireCause => MisfireCause')
<1>. USE NoneNotId, NoneNotKind, IdsNat
<1>1. /\ TypeOK /\ IdsInv /\ TableInv /\ ServerInv /\ Routing /\ NoOneLeftWaiting
      /\ ResultInv /\ ResultMatchesRows
  BY DEF CallsInv
<1>2. /\ next_request_id \in Ids /\ rid[f] = None
      /\ request[next_request_id] = None
      /\ \A g \in Future : rid[g] # None => rid[g] \in Ids /\ rid[g] # next_request_id
      /\ \A i \in Ids : pending_responses[i] # None =>
                  i # next_request_id /\ pending_responses[i] # f
      /\ IdsInv' <=> \A g \in Future : state'[g] = "unused" <=> rid'[g] = None
  BY <1>1, FreshId DEF Raise
<1>3. TypeOK'
  BY <1>1, <1>2, BoundsAssumption
     DEF Raise, MakeFuture, MakeRequestId, server, Ids, TypeOK, IdsInv, States, LoopStates
<1>4. IdsInv' /\ TableInv'
  BY <1>1, <1>2, BoundsAssumption
     DEF Raise, MakeFuture, MakeRequestId, server, Ids, TypeOK, IdsInv, TableInv
<1>5. ServerInv'
  BY <1>1, <1>2, BoundsAssumption
     DEF Raise, MakeFuture, MakeRequestId, server, Ids, TypeOK, ServerInv, IdsInv
<1>6. Routing' /\ NoOneLeftWaiting'
  BY <1>1, <1>2, BoundsAssumption
     DEF Raise, MakeFuture, MakeRequestId, server, Ids, TypeOK, IdsInv, TableInv, ServerInv,
         Routing, NoOneLeftWaiting, Replied
<1>7. ResultInv' /\ ResultMatchesRows'
  BY <1>1, <1>2, BoundsAssumption
     DEF Raise, MakeFuture, MakeRequestId, server, Ids, TypeOK, IdsInv, ServerInv, Routing,
         NoOneLeftWaiting, Replied, ResultInv, ResultMatchesRows
<1>8. MisfireCause => MisfireCause'
  BY <1>1, <1>2, BoundsAssumption
     DEF Raise, MakeFuture, MakeRequestId, server, Ids, TypeOK, IdsInv, TableInv, MisfireCause
<1>. QED BY <1>3, <1>4, <1>5, <1>6, <1>7, <1>8 DEF CallsInv

LEMMA CancelKeeps ==
    ASSUME CallsInv, NEW f \in Future, Cancel(f)
    PROVE  CallsInv' /\ (MisfireCause => MisfireCause')
<1>. USE NoneNotId, NoneNotKind, IdsNat
<1>1. /\ TypeOK /\ IdsInv /\ TableInv /\ ServerInv /\ Routing /\ NoOneLeftWaiting
      /\ ResultInv /\ ResultMatchesRows
  BY DEF CallsInv
<1>3. TypeOK'
  BY <1>1 DEF Cancel, Settle, server, TypeOK, IdsInv, States, LoopStates
<1>4. IdsInv' /\ TableInv'
  BY <1>1 DEF Cancel, Settle, server, TypeOK, IdsInv, TableInv
<1>5. ServerInv'
  BY <1>1 DEF Cancel, Settle, server, TypeOK, ServerInv, IdsInv
<1>6. Routing' /\ NoOneLeftWaiting'
  BY <1>1
     DEF Cancel, Settle, server, TypeOK, IdsInv, TableInv, ServerInv, Routing,
         NoOneLeftWaiting, Replied
<1>7. ResultInv' /\ ResultMatchesRows'
  BY <1>1
     DEF Cancel, Settle, server, TypeOK, IdsInv, ServerInv, Routing, NoOneLeftWaiting,
         Replied, ResultInv, ResultMatchesRows
<1>8. MisfireCause => MisfireCause'
  BY <1>1 DEF Cancel, Settle, server, TypeOK, IdsInv, TableInv, MisfireCause
<1>. QED BY <1>3, <1>4, <1>5, <1>6, <1>7, <1>8 DEF CallsInv

LEMMA RunCallbackKeeps ==
    ASSUME CallsInv, NEW f \in Future, RunCallback(f)
    PROVE  CallsInv' /\ (MisfireCause => MisfireCause')
<1>. USE NoneNotId, NoneNotKind, IdsNat
<1>1. /\ TypeOK /\ IdsInv /\ TableInv /\ ServerInv /\ Routing /\ NoOneLeftWaiting
      /\ ResultInv /\ ResultMatchesRows
  BY DEF CallsInv
<1>3. TypeOK'
  BY <1>1 DEF RunCallback, WasCancelled, TypeOK, IdsInv, States, LoopStates
<1>4. IdsInv' /\ TableInv'
  BY <1>1 DEF RunCallback, WasCancelled, TypeOK, IdsInv, TableInv
<1>5. ServerInv'
  BY <1>1 DEF RunCallback, WasCancelled, TypeOK, ServerInv, IdsInv
<1>6. Routing' /\ NoOneLeftWaiting'
  BY <1>1
     DEF RunCallback, WasCancelled, TypeOK, IdsInv, TableInv, ServerInv, Routing,
         NoOneLeftWaiting, Replied
<1>7. ResultInv' /\ ResultMatchesRows'
  BY <1>1
     DEF RunCallback, WasCancelled, TypeOK, IdsInv, ServerInv, Routing, NoOneLeftWaiting,
         Replied, ResultInv, ResultMatchesRows
<1>8. MisfireCause => MisfireCause'
  BY <1>1 DEF RunCallback, WasCancelled, TypeOK, IdsInv, TableInv, MisfireCause
<1>. QED BY <1>3, <1>4, <1>5, <1>6, <1>7, <1>8 DEF CallsInv

-----------------------------------------------------------------------------
\* What a reply does to the futures: it settles the one call waiting for that
\* id, if there is one, and clears the entry.

LEMMA ResolveEffect ==
    ASSUME TypeOK, IdsInv, TableInv, ServerInv, Routing,
           NEW id \in Ids, request[id] # None, NEW v \in 0..MaxRows, ResolveFuture(id, v)
    PROVE
      /\ \A g \in Future : IF state[g] = "pending" /\ rid[g] = id
                           THEN state'[g] = "result" /\ value'[g] = v
                           ELSE state'[g] = state[g] /\ value'[g] = value[g]
      /\ \A i \in Ids : pending_responses'[i] = IF i = id THEN None ELSE pending_responses[i]
      /\ pending_responses' \in [Ids -> Future \cup {None}]
      /\ state' \in [Future -> States] /\ value' \in [Future -> 0..MaxRows]
      /\ callback' \in [Future -> {"none", "registered", "scheduled", "run"}]
<1>. USE NoneNotId, NoneNotKind, IdsNat
<1>. DEFINE f == pending_responses[id]
<1>1. CASE f # None /\ ~Done(f)
  <2>1. f \in Future /\ rid[f] = id /\ state[f] = "pending"
    BY <1>1 DEF TypeOK, TableInv, ServerInv, Done
  <2>2. \A g \in Future : state[g] = "pending" /\ rid[g] = id => g = f
    BY <2>1 DEF IdsInv
  <2>3. /\ state' = [state EXCEPT ![f] = "result"] /\ value' = [value EXCEPT ![f] = v]
        /\ callback' = [callback EXCEPT ![f] = IF @ = "registered" THEN "scheduled" ELSE @]
        /\ pending_responses' = [pending_responses EXCEPT ![id] = None]
    <3>1. state' = [state EXCEPT ![f] = IF @ = "orphaned" THEN @ ELSE "result"]
      BY <1>1 DEF ResolveFuture, Settle
    <3>2. state' = [state EXCEPT ![f] = "result"]
      BY <2>1, <3>1 DEF TypeOK
    <3>. QED BY <1>1, <3>2 DEF ResolveFuture, Settle
  <2>. QED BY <2>1, <2>2, <2>3 DEF TypeOK, States
<1>2. CASE ~(f # None /\ ~Done(f))
  <2>1. \A g \in Future : ~(state[g] = "pending" /\ rid[g] = id)
    BY <1>2 DEF Routing, Done
  <2>. QED BY <1>2, <2>1 DEF ResolveFuture, Unsettled, TypeOK, States
<1>. QED BY <1>1, <1>2

LEMMA FailEffect ==
    ASSUME TypeOK, IdsInv, TableInv, ServerInv, Routing,
           NEW id \in Ids, request[id] # None, FailFuture(id)
    PROVE
      /\ \A g \in Future : IF state[g] = "pending" /\ rid[g] = id
                           THEN state'[g] = "exception" /\ value'[g] = 0
                           ELSE state'[g] = state[g] /\ value'[g] = value[g]
      /\ \A i \in Ids : pending_responses'[i] = IF i = id THEN None ELSE pending_responses[i]
      /\ pending_responses' \in [Ids -> Future \cup {None}]
      /\ state' \in [Future -> States] /\ value' \in [Future -> 0..MaxRows]
      /\ callback' \in [Future -> {"none", "registered", "scheduled", "run"}]
      /\ \/ loop' = AfterDispatch
         \/ loop' = "misfired" /\ \E g \in Future : state[g] = "cancelled" /\ rid[g] = id
<1>. USE NoneNotId, NoneNotKind, IdsNat
<1>. DEFINE f == pending_responses[id]
<1>1. CASE f # None /\ ~Done(f)
  <2>1. f \in Future /\ rid[f] = id /\ state[f] = "pending"
    BY <1>1 DEF TypeOK, TableInv, ServerInv, Done
  <2>2. \A g \in Future : state[g] = "pending" /\ rid[g] = id => g = f
    BY <2>1 DEF IdsInv
  <2>3. /\ state' = [state EXCEPT ![f] = "exception"] /\ value' = [value EXCEPT ![f] = 0]
        /\ callback' = [callback EXCEPT ![f] = IF @ = "registered" THEN "scheduled" ELSE @]
        /\ pending_responses' = [pending_responses EXCEPT ![id] = None]
        /\ loop' = AfterDispatch
    <3>1. state' = [state EXCEPT ![f] = IF @ = "orphaned" THEN @ ELSE "exception"]
      BY <1>1 DEF FailFuture, Settle
    <3>2. state' = [state EXCEPT ![f] = "exception"]
      BY <2>1, <3>1 DEF TypeOK
    <3>. QED BY <1>1, <3>2 DEF FailFuture, Settle
  <2>. QED BY <2>1, <2>2, <2>3 DEF TypeOK, States
<1>2. CASE f = None
  <2>1. \A g \in Future : ~(state[g] = "pending" /\ rid[g] = id)
    BY <1>2 DEF Routing
  <2>. QED BY <1>2, <2>1 DEF FailFuture, Unsettled, TypeOK, States
<1>3. CASE f # None /\ Done(f)
  <2>1. f \in Future /\ rid[f] = id /\ state[f] = "cancelled"
    BY <1>3 DEF TypeOK, TableInv, Done
  <2>2. \A g \in Future : ~(state[g] = "pending" /\ rid[g] = id)
    BY <2>1 DEF IdsInv
  <2>. QED BY <1>3, <2>1, <2>2 DEF FailFuture, Unsettled, TypeOK, States
<1>. QED BY <1>1, <1>2, <1>3

-----------------------------------------------------------------------------
\* Messages keep the invariant.

LEMMA AnswerClashKeeps ==
    ASSUME CallsInv, NEW id \in Ids, Answer(id, TRUE)
    PROVE  CallsInv' /\ (MisfireCause => MisfireCause')
<1>. USE NoneNotId, NoneNotKind, IdsNat
<1>1. /\ TypeOK /\ IdsInv /\ TableInv /\ ServerInv /\ Routing /\ NoOneLeftWaiting
      /\ ResultInv /\ ResultMatchesRows
  BY DEF CallsInv
<1>3. TypeOK'
  BY <1>1 DEF Answer, Unsettled, Dispatching, TypeOK, IdsInv, ServerInv, States, LoopStates
<1>4. IdsInv' /\ TableInv'
  BY <1>1 DEF Answer, Unsettled, Dispatching, TypeOK, IdsInv, TableInv
<1>5. ServerInv'
  BY <1>1 DEF Answer, Unsettled, Dispatching, TypeOK, ServerInv, IdsInv
<1>6. Routing'
  BY <1>1 DEF Answer, Unsettled, Dispatching, TypeOK, IdsInv, ServerInv, Routing, Replied
<1>9. NoOneLeftWaiting'
  BY <1>1
     DEF Answer, Unsettled, Dispatching, TypeOK, IdsInv, ServerInv, NoOneLeftWaiting, Replied
<1>7. ResultInv' /\ ResultMatchesRows'
  BY <1>1
     DEF Answer, Unsettled, Dispatching, TypeOK, IdsInv, ServerInv, Routing, NoOneLeftWaiting,
         Replied, ResultInv, ResultMatchesRows
<1>8. MisfireCause => MisfireCause'
  BY <1>1 DEF Answer, Unsettled, Dispatching, TypeOK, IdsInv, TableInv, MisfireCause
<1>. QED BY <1>3, <1>4, <1>5, <1>6, <1>7, <1>8, <1>9 DEF CallsInv

LEMMA AnswerKeeps ==
    ASSUME CallsInv, NEW id \in Ids, Answer(id, FALSE)
    PROVE  CallsInv' /\ (MisfireCause => MisfireCause')
<1>. USE NoneNotId, NoneNotKind, IdsNat
<1>1. /\ TypeOK /\ IdsInv /\ TableInv /\ ServerInv /\ Routing /\ NoOneLeftWaiting
      /\ ResultInv /\ ResultMatchesRows
  BY DEF CallsInv
<1>2. /\ \A g \in Future : IF state[g] = "pending" /\ rid[g] = id
                           THEN state'[g] = "result" /\ value'[g] = 1
                           ELSE state'[g] = state[g] /\ value'[g] = value[g]
      /\ \A i \in Ids : pending_responses'[i] = IF i = id THEN None ELSE pending_responses[i]
      /\ pending_responses' \in [Ids -> Future \cup {None}]
      /\ state' \in [Future -> States] /\ value' \in [Future -> 0..MaxRows]
      /\ callback' \in [Future -> {"none", "registered", "scheduled", "run"}]
  BY <1>1, ResolveEffect DEF Answer
<1>3. TypeOK'
  BY <1>1, <1>2
     DEF Answer, AfterDispatch, Dispatching, TypeOK, IdsInv, ServerInv, States, LoopStates
<1>4. IdsInv' /\ TableInv'
  BY <1>1, <1>2 DEF Answer, AfterDispatch, Dispatching, TypeOK, IdsInv, TableInv
<1>5. ServerInv'
  BY <1>1, <1>2 DEF Answer, AfterDispatch, Dispatching, TypeOK, ServerInv, IdsInv
<1>6. Routing'
  <2>1. /\ \A i \in Ids : Replied(i) => Replied(i)'
        /\ \A i \in errs : i \in errs'
        /\ Replied(id)'
    BY <1>1, <1>2 DEF Answer, AfterDispatch, Dispatching, TypeOK, Replied
  <2>2. /\ rid' = rid
        /\ \A g \in Future : state[g] # "unused" => rid[g] \in Ids
    BY <1>1, <1>2 DEF Answer, AfterDispatch, Dispatching, TypeOK, IdsInv
  <2>. QED BY <1>1, <1>2, <2>1, <2>2 DEF Routing, TypeOK, States
<1>9. NoOneLeftWaiting'
  BY <1>1, <1>2
     DEF Answer, AfterDispatch, Dispatching, TypeOK, IdsInv, ServerInv, NoOneLeftWaiting,
         Replied
<1>7. ResultInv' /\ ResultMatchesRows'
  BY <1>1, <1>2
     DEF Answer, AfterDispatch, Dispatching, TypeOK, IdsInv, ServerInv, Routing,
         NoOneLeftWaiting, Replied, ResultInv, ResultMatchesRows
<1>8. MisfireCause => MisfireCause'
  BY <1>1, <1>2 DEF Answer, AfterDispatch, Dispatching, TypeOK, IdsInv, TableInv, MisfireCause
<1>. QED BY <1>3, <1>4, <1>5, <1>6, <1>7, <1>8, <1>9 DEF CallsInv

LEMMA ContractDataClashKeeps ==
    ASSUME CallsInv, NEW id \in Ids, ContractData(id, TRUE)
    PROVE  CallsInv' /\ (MisfireCause => MisfireCause')
<1>. USE NoneNotId, NoneNotKind, IdsNat
<1>1. /\ TypeOK /\ IdsInv /\ TableInv /\ ServerInv /\ Routing /\ NoOneLeftWaiting
      /\ ResultInv /\ ResultMatchesRows
  BY DEF CallsInv
<1>3. TypeOK'
  BY <1>1
     DEF ContractData, Unsettled, Dispatching, TypeOK, IdsInv, ServerInv, States, LoopStates
<1>4. IdsInv' /\ TableInv'
  BY <1>1 DEF ContractData, Unsettled, Dispatching, TypeOK, IdsInv, TableInv
<1>5. ServerInv'
  BY <1>1 DEF ContractData, Unsettled, Dispatching, TypeOK, ServerInv, IdsInv
<1>6. Routing'
  BY <1>1 DEF ContractData, Unsettled, Dispatching, TypeOK, IdsInv, ServerInv, Routing, Replied
<1>9. NoOneLeftWaiting'
  BY <1>1
     DEF ContractData, Unsettled, Dispatching, TypeOK, IdsInv, ServerInv, NoOneLeftWaiting,
         Replied
<1>7. ResultInv' /\ ResultMatchesRows'
  BY <1>1
     DEF ContractData, Unsettled, Dispatching, TypeOK, IdsInv, ServerInv, Routing,
         NoOneLeftWaiting, Replied, ResultInv, ResultMatchesRows
<1>8. MisfireCause => MisfireCause'
  BY <1>1 DEF ContractData, Unsettled, Dispatching, TypeOK, IdsInv, TableInv, MisfireCause
<1>. QED BY <1>3, <1>4, <1>5, <1>6, <1>7, <1>8, <1>9 DEF CallsInv

LEMMA ContractDataKeeps ==
    ASSUME CallsInv, NEW id \in Ids, ContractData(id, FALSE)
    PROVE  CallsInv' /\ (MisfireCause => MisfireCause')
<1>. USE NoneNotId, NoneNotKind, IdsNat
<1>1. /\ TypeOK /\ IdsInv /\ TableInv /\ ServerInv /\ Routing /\ NoOneLeftWaiting
      /\ ResultInv /\ ResultMatchesRows
  BY DEF CallsInv
<1>2. /\ \A g \in Future : IF state[g] = "pending" /\ rid[g] = id
                           THEN state'[g] = "result" /\ value'[g] = 1
                           ELSE state'[g] = state[g] /\ value'[g] = value[g]
      /\ \A i \in Ids : pending_responses'[i] = IF i = id THEN None ELSE pending_responses[i]
      /\ pending_responses' \in [Ids -> Future \cup {None}]
      /\ state' \in [Future -> States] /\ value' \in [Future -> 0..MaxRows]
      /\ callback' \in [Future -> {"none", "registered", "scheduled", "run"}]
  BY <1>1, ResolveEffect DEF ContractData
<1>3. TypeOK'
  BY <1>1, <1>2
     DEF ContractData, AfterDispatch, Dispatching, TypeOK, IdsInv, ServerInv, States,
         LoopStates
<1>4. IdsInv' /\ TableInv'
  BY <1>1, <1>2 DEF ContractData, AfterDispatch, Dispatching, TypeOK, IdsInv, TableInv
<1>5. ServerInv'
  BY <1>1, <1>2 DEF ContractData, AfterDispatch, Dispatching, TypeOK, ServerInv, IdsInv
<1>6. Routing'
  <2>1. /\ \A i \in Ids : Replied(i) => Replied(i)'
        /\ \A i \in errs : i \in errs'
        /\ Replied(id)'
    BY <1>1, <1>2 DEF ContractData, AfterDispatch, Dispatching, TypeOK, Replied
  <2>2. /\ rid' = rid
        /\ \A g \in Future : state[g] # "unused" => rid[g] \in Ids
    BY <1>1, <1>2 DEF ContractData, AfterDispatch, Dispatching, TypeOK, IdsInv
  <2>. QED BY <1>1, <1>2, <2>1, <2>2 DEF Routing, TypeOK, States
<1>9. NoOneLeftWaiting'
  BY <1>1, <1>2
     DEF ContractData, AfterDispatch, Dispatching, TypeOK, IdsInv, ServerInv,
         NoOneLeftWaiting, Replied
<1>7. ResultInv' /\ ResultMatchesRows'
  BY <1>1, <1>2
     DEF ContractData, AfterDispatch, Dispatching, TypeOK, IdsInv, ServerInv, Routing,
         NoOneLeftWaiting, Replied, ResultInv, ResultMatchesRows
<1>8. MisfireCause => MisfireCause'
  BY <1>1, <1>2
     DEF ContractData, AfterDispatch, Dispatching, TypeOK, IdsInv, TableInv, MisfireCause
<1>. QED BY <1>3, <1>4, <1>5, <1>6, <1>7, <1>8, <1>9 DEF CallsInv

LEMMA ExecutionDataKeeps ==
    ASSUME CallsInv, NEW id \in Ids, NEW listed \in BOOLEAN, NEW raises \in BOOLEAN,
           ExecutionData(id, listed, raises)
    PROVE  CallsInv' /\ (MisfireCause => MisfireCause')
<1>. USE NoneNotId, NoneNotKind, IdsNat
<1>1. /\ TypeOK /\ IdsInv /\ TableInv /\ ServerInv /\ Routing /\ NoOneLeftWaiting
      /\ ResultInv /\ ResultMatchesRows
  BY DEF CallsInv
<1>3. TypeOK'
  BY <1>1
     DEF ExecutionData, futures, AfterDispatch, Dispatching, TypeOK, IdsInv, ServerInv,
         States, LoopStates
<1>4. IdsInv' /\ TableInv'
  BY <1>1 DEF ExecutionData, futures, AfterDispatch, Dispatching, TypeOK, IdsInv, TableInv
<1>5. ServerInv'
  BY <1>1 DEF ExecutionData, futures, AfterDispatch, Dispatching, TypeOK, ServerInv, IdsInv
<1>6. Routing'
  BY <1>1
     DEF ExecutionData, futures, AfterDispatch, Dispatching, TypeOK, IdsInv, ServerInv,
         Routing, Replied
<1>9. NoOneLeftWaiting'
  BY <1>1
     DEF ExecutionData, futures, AfterDispatch, Dispatching, TypeOK, IdsInv, ServerInv,
         NoOneLeftWaiting, Replied
<1>7. ResultInv' /\ ResultMatchesRows'
  BY <1>1
     DEF ExecutionData, futures, AfterDispatch, Dispatching, TypeOK, IdsInv, ServerInv,
         Routing, NoOneLeftWaiting, Replied, ResultInv, ResultMatchesRows
<1>8. MisfireCause => MisfireCause'
  BY <1>1
     DEF ExecutionData, futures, AfterDispatch, Dispatching, TypeOK, IdsInv, TableInv,
         MisfireCause
<1>. QED BY <1>3, <1>4, <1>5, <1>6, <1>7, <1>8, <1>9 DEF CallsInv

LEMMA ExecutionDataEndKeeps ==
    ASSUME CallsInv, NEW id \in Ids, ExecutionDataEnd(id)
    PROVE  CallsInv' /\ (MisfireCause => MisfireCause')
<1>. USE NoneNotId, NoneNotKind, IdsNat
<1>1. /\ TypeOK /\ IdsInv /\ TableInv /\ ServerInv /\ Routing /\ NoOneLeftWaiting
      /\ ResultInv /\ ResultMatchesRows
  BY DEF CallsInv
<1>a. Gathered(id) \in 0..MaxRows /\ Gathered(id) = rows[id]
  BY <1>1 DEF Gathered, TypeOK, ServerInv, ExecutionDataEnd, Dispatching
<1>2. /\ \A g \in Future : IF state[g] = "pending" /\ rid[g] = id
                           THEN state'[g] = "result" /\ value'[g] = Gathered(id)
                           ELSE state'[g] = state[g] /\ value'[g] = value[g]
      /\ \A i \in Ids : pending_responses'[i] = IF i = id THEN None ELSE pending_responses[i]
      /\ pending_responses' \in [Ids -> Future \cup {None}]
      /\ state' \in [Future -> States] /\ value' \in [Future -> 0..MaxRows]
      /\ callback' \in [Future -> {"none", "registered", "scheduled", "run"}]
  BY <1>1, <1>a, ResolveEffect DEF ExecutionDataEnd
<1>3. TypeOK'
  BY <1>1, <1>a, <1>2
     DEF ExecutionDataEnd, AfterDispatch, Dispatching, TypeOK, IdsInv, ServerInv, States,
         LoopStates
<1>4. IdsInv' /\ TableInv'
  BY <1>1, <1>a, <1>2
     DEF ExecutionDataEnd, AfterDispatch, Dispatching, TypeOK, IdsInv, TableInv
<1>5. ServerInv'
  BY <1>1, <1>a, <1>2
     DEF ExecutionDataEnd, AfterDispatch, Dispatching, TypeOK, ServerInv, IdsInv
<1>6. Routing'
  <2>1. /\ \A i \in Ids : Replied(i) => Replied(i)'
        /\ \A i \in errs : i \in errs'
        /\ Replied(id)'
    BY <1>1, <1>a, <1>2 DEF ExecutionDataEnd, AfterDispatch, Dispatching, TypeOK, Replied
  <2>2. /\ rid' = rid
        /\ \A g \in Future : state[g] # "unused" => rid[g] \in Ids
    BY <1>1, <1>a, <1>2 DEF ExecutionDataEnd, AfterDispatch, Dispatching, TypeOK, IdsInv
  <2>. QED BY <1>1, <1>a, <1>2, <2>1, <2>2 DEF Routing, TypeOK, States
<1>9. NoOneLeftWaiting'
  BY <1>1, <1>a, <1>2
     DEF ExecutionDataEnd, AfterDispatch, Dispatching, TypeOK, IdsInv, ServerInv,
         NoOneLeftWaiting, Replied
<1>7. ResultInv' /\ ResultMatchesRows'
  BY <1>1, <1>a, <1>2
     DEF ExecutionDataEnd, AfterDispatch, Dispatching, TypeOK, IdsInv, ServerInv, Routing,
         NoOneLeftWaiting, Replied, ResultInv, ResultMatchesRows
<1>8. MisfireCause => MisfireCause'
  BY <1>1, <1>a, <1>2
     DEF ExecutionDataEnd, AfterDispatch, Dispatching, TypeOK, IdsInv, TableInv, MisfireCause
<1>. QED BY <1>3, <1>4, <1>5, <1>6, <1>7, <1>8, <1>9 DEF CallsInv

LEMMA ContractDataEndKeeps ==
    ASSUME CallsInv, NEW id \in Ids, ContractDataEnd(id)
    PROVE  CallsInv' /\ (MisfireCause => MisfireCause')
<1>. USE NoneNotId, NoneNotKind, IdsNat
<1>1. /\ TypeOK /\ IdsInv /\ TableInv /\ ServerInv /\ Routing /\ NoOneLeftWaiting
      /\ ResultInv /\ ResultMatchesRows
  BY DEF CallsInv
<1>2. /\ \A g \in Future : IF state[g] = "pending" /\ rid[g] = id
                           THEN state'[g] = "result" /\ value'[g] = 0
                           ELSE state'[g] = state[g] /\ value'[g] = value[g]
      /\ \A i \in Ids : pending_responses'[i] = IF i = id THEN None ELSE pending_responses[i]
      /\ pending_responses' \in [Ids -> Future \cup {None}]
      /\ state' \in [Future -> States] /\ value' \in [Future -> 0..MaxRows]
      /\ callback' \in [Future -> {"none", "registered", "scheduled", "run"}]
  BY <1>1, ResolveEffect DEF ContractDataEnd
<1>3. TypeOK'
  BY <1>1, <1>2
     DEF ContractDataEnd, AfterDispatch, Dispatching, TypeOK, IdsInv, ServerInv, States,
         LoopStates
<1>4. IdsInv' /\ TableInv'
  BY <1>1, <1>2 DEF ContractDataEnd, AfterDispatch, Dispatching, TypeOK, IdsInv, TableInv
<1>5. ServerInv'
  BY <1>1, <1>2 DEF ContractDataEnd, AfterDispatch, Dispatching, TypeOK, ServerInv, IdsInv
<1>6. Routing'
  <2>1. /\ \A i \in Ids : Replied(i) => Replied(i)'
        /\ \A i \in errs : i \in errs'
        /\ Replied(id)'
    BY <1>1, <1>2 DEF ContractDataEnd, AfterDispatch, Dispatching, TypeOK, Replied
  <2>2. /\ rid' = rid
        /\ \A g \in Future : state[g] # "unused" => rid[g] \in Ids
    BY <1>1, <1>2 DEF ContractDataEnd, AfterDispatch, Dispatching, TypeOK, IdsInv
  <2>. QED BY <1>1, <1>2, <2>1, <2>2 DEF Routing, TypeOK, States
<1>9. NoOneLeftWaiting'
  BY <1>1, <1>2
     DEF ContractDataEnd, AfterDispatch, Dispatching, TypeOK, IdsInv, ServerInv,
         NoOneLeftWaiting, Replied
<1>7. ResultInv' /\ ResultMatchesRows'
  BY <1>1, <1>2
     DEF ContractDataEnd, AfterDispatch, Dispatching, TypeOK, IdsInv, ServerInv, Routing,
         NoOneLeftWaiting, Replied, ResultInv, ResultMatchesRows
<1>8. MisfireCause => MisfireCause'
  BY <1>1, <1>2
     DEF ContractDataEnd, AfterDispatch, Dispatching, TypeOK, IdsInv, TableInv, MisfireCause
<1>. QED BY <1>3, <1>4, <1>5, <1>6, <1>7, <1>8, <1>9 DEF CallsInv

LEMMA ErrMsgKeeps ==
    ASSUME CallsInv, NEW id \in Ids, ErrMsg(id)
    PROVE  CallsInv' /\ (MisfireCause => MisfireCause')
<1>. USE NoneNotId, NoneNotKind, IdsNat
<1>1. /\ TypeOK /\ IdsInv /\ TableInv /\ ServerInv /\ Routing /\ NoOneLeftWaiting
      /\ ResultInv /\ ResultMatchesRows
  BY DEF CallsInv
<1>2. /\ \A g \in Future : IF state[g] = "pending" /\ rid[g] = id
                           THEN state'[g] = "exception" /\ value'[g] = 0
                           ELSE state'[g] = state[g] /\ value'[g] = value[g]
      /\ \A i \in Ids : pending_responses'[i] = IF i = id THEN None ELSE pending_responses[i]
      /\ pending_responses' \in [Ids -> Future \cup {None}]
      /\ state' \in [Future -> States] /\ value' \in [Future -> 0..MaxRows]
      /\ callback' \in [Future -> {"none", "registered", "scheduled", "run"}]
      /\ \/ loop' = AfterDispatch
         \/ loop' = "misfired" /\ \E g \in Future : state[g] = "cancelled" /\ rid[g] = id
  BY <1>1, FailEffect DEF ErrMsg
<1>3. TypeOK'
  BY <1>1, <1>2
     DEF ErrMsg, AfterDispatch, Dispatching, TypeOK, IdsInv, ServerInv, States, LoopStates
<1>4. IdsInv' /\ TableInv'
  BY <1>1, <1>2 DEF ErrMsg, AfterDispatch, Dispatching, TypeOK, IdsInv, TableInv
<1>5. ServerInv'
  BY <1>1, <1>2 DEF ErrMsg, AfterDispatch, Dispatching, TypeOK, ServerInv, IdsInv
<1>6. Routing'
  <2>1. /\ \A i \in Ids : Replied(i) => Replied(i)'
        /\ \A i \in errs : i \in errs'
        /\ id \in errs'
    BY <1>1, <1>2 DEF ErrMsg, AfterDispatch, Dispatching, TypeOK, Replied
  <2>2. /\ rid' = rid
        /\ \A g \in Future : state[g] # "unused" => rid[g] \in Ids
    BY <1>1, <1>2 DEF ErrMsg, AfterDispatch, Dispatching, TypeOK, IdsInv
  <2>. QED BY <1>1, <1>2, <2>1, <2>2 DEF Routing, TypeOK, States
<1>9. NoOneLeftWaiting'
  BY <1>1, <1>2
     DEF ErrMsg, AfterDispatch, Dispatching, TypeOK, IdsInv, ServerInv, NoOneLeftWaiting,
         Replied
<1>7. ResultInv' /\ ResultMatchesRows'
  BY <1>1, <1>2
     DEF ErrMsg, AfterDispatch, Dispatching, TypeOK, IdsInv, ServerInv, Routing,
         NoOneLeftWaiting, Replied, ResultInv, ResultMatchesRows
<1>8. MisfireCause => MisfireCause'
  BY <1>1, <1>2 DEF ErrMsg, AfterDispatch, Dispatching, TypeOK, IdsInv, TableInv, MisfireCause
<1>. QED BY <1>3, <1>4, <1>5, <1>6, <1>7, <1>8, <1>9 DEF CallsInv

-----------------------------------------------------------------------------
\* The theorems.

LEMMA WarningKeeps ==
    ASSUME CallsInv, NEW id \in Ids, WarningMsg(id)
    PROVE  CallsInv' /\ (MisfireCause => MisfireCause')
BY NoneNotId
   DEF WarningMsg, Dispatching, AfterDispatch, futures, server, CallsInv, TypeOK, IdsInv,
   TableInv, ServerInv, Routing, NoOneLeftWaiting, Replied, ResultInv, ResultMatchesRows,
   MisfireCause, LoopStates

LEMMA ConnectionKeeps ==
    ASSUME CallsInv, Disconnect \/ ConnectionLost
    PROVE  CallsInv' /\ (MisfireCause => MisfireCause')
BY DEF Disconnect, ConnectionLost, futures, server, CallsInv, TypeOK, IdsInv,
   TableInv, ServerInv, Routing, NoOneLeftWaiting, Replied, ResultInv, ResultMatchesRows,
   MisfireCause, LoopStates

LEMMA StutterKeeps ==
    ASSUME CallsInv, UNCHANGED vars
    PROVE  CallsInv' /\ (MisfireCause => MisfireCause')
BY DEF vars, futures, server, CallsInv, TypeOK, IdsInv, TableInv, ServerInv, Routing,
   NoOneLeftWaiting, Replied, ResultInv, ResultMatchesRows, MisfireCause

LEMMA CallsKeep ==
    ASSUME CallsInv, [Next]_vars
    PROVE  CallsInv' /\ (MisfireCause => MisfireCause')
<1>. DEFINE Kept == CallsInv' /\ (MisfireCause => MisfireCause')
<1>1. ASSUME NEW f \in Future, Calls(f) PROVE Kept
  BY <1>1, IssueKeeps, RaiseKeeps, CancelKeeps, RunCallbackKeeps DEF Calls
<1>2. ASSUME NEW id \in Ids, Closing(id) PROVE Kept
  BY <1>2, AnswerKeeps, AnswerClashKeeps, ExecutionDataEndKeeps, ContractDataEndKeeps
     DEF Closing
<1>3. ASSUME NEW id \in Ids, Row(id) PROVE Kept
  BY <1>3, ExecutionDataKeeps, ContractDataKeeps, ContractDataClashKeeps DEF Row
<1>4. ASSUME NEW id \in Ids, ErrMsg(id) \/ WarningMsg(id) PROVE Kept
  BY <1>4, ErrMsgKeeps, WarningKeeps
<1>. QED BY <1>1, <1>2, <1>3, <1>4, ConnectionKeeps, StutterKeeps DEF Next

LEMMA NextKeeps == IInv /\ [Next]_vars => IInv'
BY CallsKeep DEF IInv

LEMMA Invariance == Spec => []IInv
BY InitIInv, NextKeeps, PTL DEF Spec

\* Every variable keeps its type: the tables hold futures under drawn ids, and
\* no result holds more rows than the server can send.
THEOREM TypeCorrect == Spec => []TypeOK
<1>1. IInv => TypeOK
  BY DEF IInv, CallsInv
<1>. QED BY <1>1, Invariance, PTL

\* A reply settles the call it was sent for and no other, and a call that is
\* waited on stays registered, whatever was cancelled, failed or raised.
THEOREM RepliesReachTheirCall == Spec => []Routing
<1>1. IInv => Routing
  BY DEF IInv, CallsInv
<1>. QED BY <1>1, Invariance, PTL

\* Once the reply that decides a call has been dispatched, nobody waits for it.
THEOREM DispatchedMeansSettled == Spec => []NoOneLeftWaiting
<1>1. IInv => NoOneLeftWaiting
  BY DEF IInv, CallsInv
<1>. QED BY <1>1, Invariance, PTL

\* get_executions returns the rows the server sent, contract data None only
\* when it sent none.
THEOREM ResultsAreComplete == Spec => []ResultMatchesRows
<1>1. IInv => ResultMatchesRows
  BY DEF IInv, CallsInv
<1>. QED BY <1>1, Invariance, PTL

\* Of all the orders in which replies, errors and cancellations can come, only
\* an error for a cancelled call makes a handler touch a future already done.
THEOREM OnlyCancelledErrorsMisfire == Spec => []MisfireCause
<1>1. IInv => MisfireCause
  BY DEF IInv, CallsInv
<1>. QED BY <1>1, Invariance, PTL
-----------------------------------------------------------------------------
\* Cancellations name requests that were cancelled.

\* While the connection has never failed, _cancel_if_cancelled is registered only
\* where the server has received the history request.
CallbackInv ==
    \A f \in Future : callback[f] # "none" /\ writer = "open" =>
        rid[f] \in Ids /\ request[rid[f]] = "history"

\* What every step but a new call and a callback leaves as it was.
LEMMA MessageKeepsCalls ==
    ASSUME IInv, NEW id \in Ids, Closing(id) \/ Row(id) \/ ErrMsg(id) \/ WarningMsg(id)
    PROVE  /\ rid' = rid /\ request' = request /\ cancels' = cancels /\ writer' = writer
           /\ \A f \in Future : state[f] = "cancelled" => state'[f] = "cancelled"
           /\ \A f \in Future : callback[f] = "none" => callback'[f] = "none"
<1>1. /\ rid' = rid /\ request' = request /\ cancels' = cancels /\ writer' = writer
      /\ \/ \E v : ResolveFuture(id, v)
         \/ FailFuture(id)
         \/ Unsettled
  BY DEF Closing, Row, Answer, ExecutionData, ExecutionDataEnd, ContractData, ContractDataEnd,
         ErrMsg, WarningMsg, Unsettled, futures, server
<1>2. /\ \A f \in Future : state[f] = "cancelled" => state'[f] = "cancelled"
      /\ \A f \in Future : callback[f] = "none" => callback'[f] = "none"
  <2>1. ASSUME NEW v, NEW s, NEW g \in Future, ~Done(g), Settle(g, s, v)
        PROVE  /\ \A f \in Future : state[f] = "cancelled" => state'[f] = "cancelled"
               /\ \A f \in Future : callback[f] = "none" => callback'[f] = "none"
    BY <2>1 DEF Settle, Done, IInv, CallsInv, TypeOK
  <2>2. CASE Unsettled
    BY <2>2 DEF Unsettled
  <2>3. pending_responses[id] \in Future \cup {None}
    BY DEF IInv, CallsInv, TypeOK
  <2>. QED BY <1>1, <2>1, <2>2, <2>3 DEF ResolveFuture, FailFuture
<1>. QED BY <1>1, <1>2

LEMMA CancelsKeep ==
    ASSUME IInv, CallbackInv, CancelJustified, [Next]_vars
    PROVE  CallbackInv' /\ CancelJustified'
<1>. USE NoneNotId, NoneNotKind
<1>1. ASSUME rid' = rid, request' = request, cancels' = cancels,
             writer' = "open" => writer = "open",
             \A f \in Future : state[f] = "cancelled" => state'[f] = "cancelled",
             \A f \in Future : callback[f] = "none" => callback'[f] = "none"
      PROVE  CallbackInv' /\ CancelJustified'
  BY <1>1 DEF CallbackInv, CancelJustified
<1>2. ASSUME NEW f \in Future, NEW k \in Kinds, Issue(f, k)
      PROVE  CallbackInv' /\ CancelJustified'
  <2>1. /\ next_request_id \in Ids /\ rid[f] = None
        /\ request[next_request_id] = None
        /\ \A g \in Future : rid[g] # None => rid[g] # next_request_id
    BY <1>2, FreshId DEF Issue, IInv, CallsInv
  <2>2. /\ cancels' = cancels /\ writer' = writer
        /\ rid' = [rid EXCEPT ![f] = next_request_id]
        /\ \A g \in Future \ {f} : state'[g] = state[g] /\ callback'[g] = callback[g]
        /\ k # "history" => callback' = callback
        /\ writer = "open" => request' = [request EXCEPT ![next_request_id] = k]
        /\ writer # "open" => request' = request
    BY <1>2 DEF Issue, RegistersCallback, MakeFuture, IInv, CallsInv, TypeOK
  <2>3. state[f] # "cancelled"
    BY <1>2 DEF Issue, MakeFuture
  <2>4. CallbackInv'
    <3> SUFFICES ASSUME NEW g \in Future, callback'[g] # "none", writer = "open"
                 PROVE  rid'[g] \in Ids /\ request'[rid'[g]] = "history"
      BY <2>2 DEF CallbackInv
    <3>1. request' = [request EXCEPT ![next_request_id] = k] /\ request \in [Ids -> Kinds \cup {None}]
      BY <2>2 DEF IInv, CallsInv, TypeOK
    <3>2. CASE g = f
      <4>1. callback[f] = "none"
        BY <2>1 DEF CallbackInv
      <4>2. k = "history" /\ rid'[f] = next_request_id
        BY <2>2, <3>2, <4>1 DEF IInv, CallsInv, TypeOK
      <4>. QED BY <2>1, <3>1, <3>2, <4>2
    <3>3. CASE g # f
      <4>1. rid'[g] = rid[g] /\ rid[g] \in Ids /\ request[rid[g]] = "history"
        BY <2>2, <3>3 DEF CallbackInv, IInv, CallsInv, TypeOK
      <4>. QED BY <2>1, <3>1, <4>1
    <3>. QED BY <3>2, <3>3
  <2>5. CancelJustified'
    <3> SUFFICES ASSUME NEW id \in cancels
                 PROVE  /\ request'[id] = "history"
                        /\ \E g \in Future : rid'[g] = id /\ state'[g] = "cancelled"
      BY <2>2 DEF CancelJustified
    <3>1. request[id] = "history" /\ id \in Ids
      BY DEF CancelJustified, IInv, CallsInv, TypeOK
    <3>2. PICK g \in Future : rid[g] = id /\ state[g] = "cancelled"
      BY DEF CancelJustified
    <3>3. g # f /\ id # next_request_id
      BY <2>1, <2>3, <3>1, <3>2
    <3>. QED BY <2>2, <3>1, <3>2, <3>3 DEF IInv, CallsInv, TypeOK
  <2>. QED BY <2>4, <2>5
<1>3. ASSUME NEW f \in Future, NEW k \in Kinds, Raise(f, k)
      PROVE  CallbackInv' /\ CancelJustified'
  <2>1. rid[f] = None /\ state[f] = "unused"
    BY <1>3, FreshId DEF Raise, MakeFuture, IInv, CallsInv
  <2>2. /\ cancels' = cancels /\ writer' = writer /\ request' = request
        /\ callback' = callback
        /\ \A g \in Future \ {f} : rid'[g] = rid[g] /\ state'[g] = state[g]
    BY <1>3 DEF Raise, MakeFuture, server, IInv, CallsInv, TypeOK
  <2>. QED BY <2>1, <2>2 DEF CallbackInv, CancelJustified
<1>4. ASSUME NEW f \in Future, Cancel(f)
      PROVE  CallbackInv' /\ CancelJustified'
  <2>1. /\ \A g \in Future : state[g] = "cancelled" => state'[g] = "cancelled"
        /\ \A g \in Future : callback[g] = "none" => callback'[g] = "none"
    BY <1>4 DEF Cancel, Settle, IInv, CallsInv, TypeOK
  <2>. QED BY <1>1, <1>4, <2>1 DEF Cancel, server
<1>5. ASSUME NEW f \in Future, RunCallback(f)
      PROVE  CallbackInv' /\ CancelJustified'
  <2>1. /\ rid' = rid /\ request' = request /\ writer' = writer /\ state' = state
        /\ \A g \in Future : callback[g] = "none" => callback'[g] = "none"
        /\ callback[f] # "none"
    BY <1>5 DEF RunCallback, IInv, CallsInv, TypeOK
  <2>2. \A id \in cancels' :
            \/ id \in cancels
            \/ id = rid[f] /\ state[f] = "cancelled" /\ writer = "open"
    BY <1>5 DEF RunCallback, WasCancelled
  <2>. QED BY <2>1, <2>2 DEF CallbackInv, CancelJustified
<1>6. ASSUME NEW id \in Ids, Closing(id) \/ Row(id) \/ ErrMsg(id) \/ WarningMsg(id)
      PROVE  CallbackInv' /\ CancelJustified'
  BY <1>1, <1>6, MessageKeepsCalls
<1>7. CASE Disconnect \/ ConnectionLost \/ UNCHANGED vars
  BY <1>1, <1>7 DEF Disconnect, ConnectionLost, vars, futures, server
<1>. QED BY <1>2, <1>3, <1>4, <1>5, <1>6, <1>7 DEF Next, Calls

\* CANCEL_HISTORICAL_DATA goes out only for a history request that the server
\* has received and whose caller has cancelled it.
THEOREM CancelsAreJustified == Spec => []CancelJustified
<1>1. Init => CallbackInv /\ CancelJustified
  BY DEF Init, CallbackInv, CancelJustified
<1>2. IInv /\ CallbackInv /\ CancelJustified /\ [Next]_vars => CallbackInv' /\ CancelJustified'
  BY CancelsKeep
<1>. QED BY <1>1, <1>2, Invariance, PTL DEF Spec

-----------------------------------------------------------------------------
\* Every step is a step of Replies or leaves its variables alone.

Delivering == loop \in {"running", "draining"}

\* A step that says nothing new of any call is a stutter or a loss of delivery.
LEMMA QuietStep ==
    ASSUME Outcome' = Outcome, Decided' = Decided, Delivering' => Delivering
    PROVE  [R!Next]_(R!vars)
<1>1. Delivering' = Delivering \/ Delivering' = FALSE
  BY DEF Delivering
<1>. QED BY <1>1 DEF Delivering, R!Next, R!GoDown, R!vars

\* A message that settles the call waiting for id, if there is one, and is the
\* first word on id.
LEMMA ReplyStep ==
    ASSUME CallsInv, CallsInv', NEW id \in Ids, NEW s \in {"result", "exception"}, Delivering,
           request[id] # None, rid' = rid,
           \A g \in Future : state'[g] = IF state[g] = "pending" /\ rid[g] = id
                                         THEN s ELSE state[g],
           \A i \in Ids : Replied(i)' <=> Replied(i) \/ i = id,
           Delivering' \in BOOLEAN
    PROVE  [R!Next]_(R!vars)
<1>. USE NoneNotId DEF CallsInv
<1>. DEFINE o == IF s = "result" THEN "answered" ELSE "failed"
<1>1. CASE \E f \in Future : rid[f] = id /\ ~Replied(id)
  <2>1. PICK f \in Future : rid[f] = id /\ ~Replied(id)
    BY <1>1
  <2>2. \A g \in Future : rid[g] = id => g = f
    BY <2>1 DEF IdsInv
  <2>3. state[f] \in {"pending", "cancelled"}
    BY <2>1 DEF TypeOK, States, IdsInv, ServerInv, Routing, Replied
  <2>4. Decided' = Decided \cup {f} /\ f \notin Decided
    BY <2>1, <2>2 DEF Decided
  <2>5. Outcome[f] \in {"open", "withdrawn"}
    BY <2>3 DEF Outcome, OutcomeOf
  <2>6. Outcome' = [Outcome EXCEPT ![f] = IF @ = "open" THEN o ELSE @]
    <3>1. OutcomeOf(s) = o /\ OutcomeOf("pending") = "open" /\ OutcomeOf("cancelled") = "withdrawn"
      BY DEF OutcomeOf
    <3>2. \A g \in Future \ {f} : state'[g] = state[g]
      BY <2>2
    <3>3. Outcome'[f] = IF Outcome[f] = "open" THEN o ELSE Outcome[f]
      BY <2>1, <2>3, <3>1 DEF Outcome
    <3>4. \A g \in Future \ {f} : Outcome'[g] = Outcome[g]
      BY <3>2 DEF Outcome
    <3>. QED BY <3>3, <3>4 DEF Outcome
  <2>7. R!Reply(f, o)
    BY <2>4, <2>5, <2>6 DEF R!Reply, Delivering
  <2>. QED BY <2>7 DEF R!Next
<1>2. CASE ~ \E f \in Future : rid[f] = id /\ ~Replied(id)
  <2>1. Decided' = Decided
    BY <1>2 DEF Decided
  <2>2. Outcome' = Outcome
    BY <1>2 DEF Outcome, NoOneLeftWaiting, Delivering
  <2>. QED BY <2>1, <2>2, QuietStep
<1>. QED BY <1>1, <1>2

\* A handler that clashes loses its reply along with the loop.
LEMMA ClashStep ==
    ASSUME CallsInv, NEW id \in Ids, Delivering, ~Delivering', request[id] # None,
           rid' = rid, state' = state,
           \A i \in Ids : Replied(i)' <=> Replied(i) \/ i = id
    PROVE  [R!Next]_(R!vars)
<1>. USE NoneNotId DEF CallsInv
<1>1. Outcome' = Outcome
  BY DEF Outcome
<1>2. CASE \E f \in Future : rid[f] = id /\ ~Replied(id)
  <2>1. PICK f \in Future : rid[f] = id /\ ~Replied(id)
    BY <1>2
  <2>2. \A g \in Future : rid[g] = id => g = f
    BY <2>1 DEF IdsInv
  <2>3. state[f] \in {"pending", "cancelled"}
    BY <2>1 DEF TypeOK, States, IdsInv, ServerInv, Routing, Replied
  <2>4. Decided' = Decided \cup {f}
    BY <2>1, <2>2 DEF Decided
  <2>5. Outcome[f] \in {"open", "withdrawn"}
    BY <2>3 DEF Outcome, OutcomeOf
  <2>6. R!Lose(f)
    BY <1>1, <2>4, <2>5 DEF R!Lose, Delivering
  <2>. QED BY <2>6 DEF R!Next
<1>3. CASE ~ \E f \in Future : rid[f] = id /\ ~Replied(id)
  <2>1. Decided' = Decided
    BY <1>3 DEF Decided
  <2>. QED BY <1>1, <2>1, QuietStep
<1>. QED BY <1>2, <1>3

LEMMA OneOutcome ==
    ASSUME NEW f \in Future, NEW s, state'[f] = s,
           \A g \in Future \ {f} : state'[g] = state[g]
    PROVE  Outcome' = [Outcome EXCEPT ![f] = OutcomeOf(s)]
<1>1. Outcome'[f] = OutcomeOf(s)
  BY DEF Outcome
<1>2. \A g \in Future \ {f} : Outcome'[g] = Outcome[g]
  BY DEF Outcome
<1>. QED BY <1>1, <1>2 DEF Outcome

\* Calls: asking, being refused, withdrawing; a callback says nothing.
LEMMA CallStep ==
    ASSUME CallsInv, NEW f \in Future, Calls(f)
    PROVE  [R!Next]_(R!vars)
<1>. USE NoneNotId, NoneNotKind, IdsNat
<1>0. TypeOK /\ IdsInv /\ ServerInv /\ TableInv
  BY DEF CallsInv
<1>1. ASSUME NEW k \in Kinds, Issue(f, k) PROVE R!Ask(f)
  <2>1. /\ state[f] = "unused" /\ next_request_id \in Ids
        /\ request[next_request_id] = None
        /\ \A g \in Future : rid[g] # None => rid[g] # next_request_id
    BY <1>0, <1>1, FreshId DEF Issue, MakeFuture
  <2>2. \A i \in Ids : i = next_request_id => ~Replied(i)'
    BY <1>0, <1>1, <2>1 DEF Issue, MakeFuture, Replied, TypeOK, ServerInv
  <2>3. \A i \in Ids \ {next_request_id} : Replied(i)' = Replied(i)
    BY <1>0, <1>1 DEF Issue, Replied, TypeOK
  <2>4. Decided' = Decided
    BY <1>0, <1>1, <2>1, <2>2, <2>3 DEF Decided, Issue, MakeFuture, TypeOK, IdsInv
  <2>5. Outcome[f] = "idle" /\ Outcome' = [Outcome EXCEPT ![f] = "open"]
    <3>1. state'[f] = "pending" /\ \A g \in Future \ {f} : state'[g] = state[g]
      BY <1>0, <1>1 DEF Issue, TypeOK
    <3>2. OutcomeOf("pending") = "open"
      BY DEF OutcomeOf
    <3>3. Outcome[f] = "idle"
      BY <1>1, <2>1 DEF Outcome, OutcomeOf, Issue
    <3>. QED BY <3>1, <3>2, <3>3, OneOutcome
  <2>. QED BY <1>1, <2>4, <2>5 DEF R!Ask, Issue
<1>2. ASSUME NEW k \in Kinds, Raise(f, k) PROVE R!Refuse(f)
  <2>1. /\ state[f] = "unused" /\ next_request_id \in Ids
        /\ request[next_request_id] = None
        /\ \A g \in Future : rid[g] # None => rid[g] # next_request_id
    BY <1>0, <1>2, FreshId DEF Raise, MakeFuture
  <2>2. \A i \in Ids : i = next_request_id => ~Replied(i)'
    BY <1>0, <1>2, <2>1 DEF Raise, server, Replied, ServerInv
  <2>3. \A i \in Ids : Replied(i)' = Replied(i)
    BY <1>2 DEF Raise, server, Replied
  <2>4. Decided' = Decided
    BY <1>0, <1>2, <2>1, <2>2, <2>3 DEF Decided, Raise, MakeFuture, TypeOK, IdsInv
  <2>5. Outcome[f] = "idle" /\ Outcome' = [Outcome EXCEPT ![f] = "refused"]
    <3>1. state'[f] = "orphaned" /\ \A g \in Future \ {f} : state'[g] = state[g]
      BY <1>0, <1>2 DEF Raise, TypeOK
    <3>2. OutcomeOf("orphaned") = "refused"
      BY DEF OutcomeOf
    <3>3. Outcome[f] = "idle"
      BY <1>2, <2>1 DEF Outcome, OutcomeOf, Raise
    <3>. QED BY <3>1, <3>2, <3>3, OneOutcome
  <2>. QED BY <1>2, <2>4, <2>5 DEF R!Refuse, Raise
<1>3. ASSUME Cancel(f) PROVE R!Withdraw(f)
  <2>1. Outcome[f] = "open" /\ Outcome' = [Outcome EXCEPT ![f] = "withdrawn"]
    <3>1. state'[f] = "cancelled" /\ \A g \in Future \ {f} : state'[g] = state[g]
      BY <1>0, <1>3 DEF Cancel, Settle, TypeOK
    <3>2. OutcomeOf("cancelled") = "withdrawn"
      BY DEF OutcomeOf
    <3>3. Outcome[f] = "open"
      BY <1>3 DEF Outcome, OutcomeOf, Cancel
    <3>. QED BY <3>1, <3>2, <3>3, OneOutcome
  <2>2. Decided' = Decided
    BY <1>3 DEF Decided, Replied, Cancel, server
  <2>. QED BY <1>3, <2>1, <2>2 DEF R!Withdraw, Cancel
<1>4. ASSUME RunCallback(f) PROVE [R!Next]_(R!vars)
  BY <1>4, QuietStep DEF RunCallback, Outcome, Decided, Replied, Delivering
<1>. QED BY <1>1, <1>2, <1>3, <1>4 DEF Calls, R!Next

\* Messages: a first word on a call settles it or is lost in a clash.
LEMMA MessageStep ==
    ASSUME CallsInv, CallsInv', NEW id \in Ids,
           Closing(id) \/ Row(id) \/ ErrMsg(id) \/ WarningMsg(id)
    PROVE  [R!Next]_(R!vars)
<1>. USE NoneNotId, NoneNotKind, IdsNat
<1>0. TypeOK /\ IdsInv /\ ServerInv /\ TableInv /\ Routing
  BY DEF CallsInv
<1>1. ASSUME Answer(id, TRUE) \/ ContractData(id, TRUE) PROVE [R!Next]_(R!vars)
  <2>1. \A i \in Ids : Replied(i)' <=> Replied(i) \/ i = id
    BY <1>0, <1>1 DEF Answer, ContractData, Replied, TypeOK
  <2>. QED BY <1>1, <2>1, ClashStep
              DEF Answer, ContractData, Unsettled, Dispatching, Delivering
<1>2. ASSUME \/ Answer(id, FALSE) \/ ContractData(id, FALSE)
             \/ ExecutionDataEnd(id) \/ ContractDataEnd(id)
      PROVE  [R!Next]_(R!vars)
  <2>1. \A i \in Ids : Replied(i)' <=> Replied(i) \/ i = id
    BY <1>0, <1>2 DEF Answer, ContractData, ExecutionDataEnd, ContractDataEnd, Replied, TypeOK
  <2>2. PICK v \in 0..MaxRows : ResolveFuture(id, v)
    <3>1. Gathered(id) \in 0..MaxRows
      BY <1>0 DEF Gathered, TypeOK
    <3>. QED BY <1>2, <3>1 DEF Answer, ContractData, ExecutionDataEnd, ContractDataEnd
  <2>3. Delivering /\ request[id] # None /\ rid' = rid
    BY <1>2
       DEF Answer, ContractData, ExecutionDataEnd, ContractDataEnd, Dispatching, Delivering
  <2>4. \A g \in Future : state'[g] = IF state[g] = "pending" /\ rid[g] = id
                                     THEN "result" ELSE state[g]
    BY <1>0, <2>2, <2>3, ResolveEffect
  <2>. QED BY <2>1, <2>3, <2>4, ReplyStep DEF Delivering
<1>3. ASSUME ErrMsg(id) PROVE [R!Next]_(R!vars)
  <2>1. \A i \in Ids : Replied(i)' <=> Replied(i) \/ i = id
    BY <1>0, <1>3 DEF ErrMsg, Replied, TypeOK
  <2>2. Delivering /\ request[id] # None /\ rid' = rid
    BY <1>3 DEF ErrMsg, Dispatching, Delivering
  <2>3. \A g \in Future : state'[g] = IF state[g] = "pending" /\ rid[g] = id
                                     THEN "exception" ELSE state[g]
    BY <1>0, <1>3, <2>2, FailEffect DEF ErrMsg
  <2>. QED BY <2>1, <2>2, <2>3, ReplyStep DEF Delivering
<1>4. ASSUME \/ \E listed, raises \in BOOLEAN : ExecutionData(id, listed, raises)
             \/ WarningMsg(id)
      PROVE  [R!Next]_(R!vars)
  <2>1. \A i \in Ids : Replied(i)' <=> Replied(i)
    BY <1>0, <1>4 DEF ExecutionData, WarningMsg, server, Replied, TypeOK
  <2>. QED BY <1>4, <2>1, QuietStep
       DEF ExecutionData, WarningMsg, futures, Outcome, Decided, Delivering, Dispatching
<1>. QED BY <1>1, <1>2, <1>3, <1>4 DEF Closing, Row

LEMMA InitRefines == Init => R!Init
<1>. SUFFICES ASSUME Init PROVE R!Init
  OBVIOUS
<1>1. Outcome = [f \in Future |-> "idle"]
  BY DEF Init, Outcome, OutcomeOf
<1>2. Decided = {}
  BY NoneNotId DEF Init, Decided
<1>. QED BY <1>1, <1>2 DEF Init, R!Init

LEMMA NextRefines == CallsInv /\ CallsInv' /\ [Next]_vars => [R!Next]_(R!vars)
<1>. SUFFICES ASSUME CallsInv, CallsInv', [Next]_vars PROVE [R!Next]_(R!vars)
  OBVIOUS
<1>1. ASSUME Disconnect \/ ConnectionLost \/ UNCHANGED vars PROVE [R!Next]_(R!vars)
  BY <1>1, QuietStep
     DEF Disconnect, ConnectionLost, vars, futures, server, Outcome, Decided, Replied, Delivering
<1>. QED BY <1>1, CallStep, MessageStep DEF Next

\* The client implements the abstract promise: a call is settled once, by the
\* first reply sent for it, or withdrawn by its caller, and never changes again.
THEOREM RequestsKeepPromise == Spec => KeepsPromise
<1>1. IInv => CallsInv
  BY DEF IInv
<1>. QED BY <1>1, InitRefines, NextRefines, Invariance, PTL DEF Spec, R!Spec, KeepsPromise
=============================================================================
