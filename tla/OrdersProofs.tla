---------------------------- MODULE OrdersProofs -----------------------------
(* Proofs about Orders, for any number of orders, ids and futures, and       *)
(* whatever ids orders and requests share: what decides a future of          *)
(* place_order, who is forgotten or left waiting, what the calls of Requests *)
(* keep beside orders, and what can kill the message loop.                   *)
EXTENDS Orders, RequestsProofs

\* The types that the proofs need.
OrderShape ==
    /\ next_order_id \in OrderIds
    /\ order_id \in [Order -> OrderIds \cup {0}]
    /\ orders \in [OrderIds -> Order \cup {None}]
FutureShape ==
    /\ submitted_future \in [OrderIds -> OFuture \cup {None}]
    /\ ostate \in [OFuture -> States]
    /\ placed \in [OFuture -> Order \cup {None}]
    /\ under \in [OFuture -> OrderIds \cup {0}]
    /\ DOMAIN oresult = OFuture /\ DOMAIN cause = OFuture
    /\ again \subseteq OFuture /\ overtaken \subseteq OFuture
SubjectShape == subject \in (OrderIds \X Order \X {"status", "opened"}) \cup {<<>>}

Shape == OrderShape /\ FutureShape /\ SubjectShape

\* A future that has been made was made for an order, under an id.
Made == \A f \in OFuture : ostate[f] # "unused" => placed[f] \in Order /\ under[f] \in OrderIds

\* A future in the table is there under its id, beside its order, and is done
\* only when its caller gave it up.
Held == \A i \in OrderIds : submitted_future[i] # None =>
            /\ ostate[submitted_future[i]] \in {"pending", "orphaned", "cancelled"}
            /\ under[submitted_future[i]] = i
            /\ placed[submitted_future[i]] = orders[i]

\* The status whose handlers run is about the order that waits under its id,
\* unless one of them has placed another one there.
Own ==
    ~Idle /\ subject[3] = "status" =>
        LET f == submitted_future[subject[1]] IN
        f # None => placed[f] = subject[2] \/ f \in again

AwaitedInv == Made /\ Held /\ Own /\ NoOrderForgotten /\ OrderRouting

LEMMA OrderFacts == /\ None \notin Order /\ None \notin OFuture
                    /\ OrderIds \subseteq Nat \ {0} /\ 1 \in OrderIds /\ GivenIds \subseteq OrderIds
  BY OrderAssumption

LEMMA SubjectFacts ==
  ASSUME Shape, ~Idle
  PROVE  /\ subject[1] \in OrderIds /\ subject[2] \in Order /\ subject[3] \in {"status", "opened"}
         /\ subject = <<subject[1], subject[2], subject[3]>>
  BY DEF Shape, SubjectShape, Idle

LEMMA OrdersInitInv == OrdersInit => Shape /\ AwaitedInv
<1> SUFFICES ASSUME OrdersInit PROVE Shape /\ AwaitedInv
  OBVIOUS
<1> USE OrderFacts
<1>1. Shape
  BY DEF OrdersInit, Shape, OrderShape, FutureShape, SubjectShape, States
<1>2. AwaitedInv
  BY DEF OrdersInit, AwaitedInv, Made, Held, Own, Idle, NoOrderForgotten, OrderRouting
<1> QED BY <1>1, <1>2

-----------------------------------------------------------------------------
\* The shapes, whatever the step.

\* What a step makes of the futures of place_order and of what is known of them.
FinishStep ==
    \E id \in OrderIds, s \in {"result", "exception"}, o \in Order \cup {None}, what \in Causes :
        FinishOrder(id, s, o, what)

LEMMA AwaitedSteps ==
  ASSUME Shape, [OrdersNext]_allVars
  PROVE  \/ \E o \in Order, f \in OFuture : PlaceOrder(o, f) /\ UNCHANGED subject
         \/ (\E f \in OFuture : CancelOrderFuture(f)) /\ UNCHANGED <<tables, handling>>
         \/ FinishStep /\ UNCHANGED <<again, overtaken>>
         \/ UNCHANGED <<awaited, again, overtaken>>
<1>1. CASE HandlersReturn
  <2>1. ~Idle /\ UNCHANGED <<again, overtaken>>
        /\ (UNCHANGED awaited \/ FinishOrder(subject[1], "result", subject[2], "report"))
    BY <1>1 DEF HandlersReturn
  <2>2. UNCHANGED awaited \/ FinishStep
    BY <2>1, SubjectFacts DEF FinishStep, Causes
  <2> QED BY <2>1, <2>2
<1>2. ASSUME NEW id \in OrderIds, NEW o \in Order, NEW unsupported \in BOOLEAN,
             OpenOrder(id, o, unsupported)
      PROVE  (FinishStep \/ UNCHANGED awaited) /\ UNCHANGED <<again, overtaken>>
  BY <1>2 DEF OpenOrder, FinishStep, Causes
<1>3. ASSUME NEW id \in Ids \cup OrderIds, NEW code \in {"error", "warning"},
             NEW about \in {"order", "request"}, HandleErrMsg(id, code, about)
      PROVE  FinishStep \/ UNCHANGED awaited
  <2>1. CASE OrderAwaited(id)
    <3>1. PICK what \in Causes : FinishOrder(id, "exception", None, what)
      BY <1>3, <2>1 DEF HandleErrMsg, Causes
    <3>2. id \in OrderIds
      BY <2>1 DEF OrderAwaited
    <3> QED BY <3>1, <3>2 DEF FinishStep
  <2>2. CASE ~OrderAwaited(id)
    BY <1>3, <2>2 DEF HandleErrMsg
  <2> QED BY <2>1, <2>2
<1>4. CASE Application
  BY <1>4 DEF Application, CancelOrderFuture, AssignId, GetOpenOrders, CancelOpenOrders, handling
<1>5. CASE \/ HandlerRaises \/ AStatus \/ UNCHANGED allVars
           \/ RequestStep /\ UNCHANGED handling
           \/ OpenOrderEnd /\ UNCHANGED handling
           \/ (\E n \in GivenIds : NextValidId(n)) /\ UNCHANGED handling
  BY <1>5 DEF HandlerRaises, AStatus, OrderStatus, RequestStep, OpenOrderEnd, NextValidId, allVars,
              orderVars, handling
<1> QED BY <1>1, <1>2, <1>3, <1>4, <1>5 DEF OrdersNext, AnOpenOrder, AnyErrMsg, handling

LEMMA ShapeStays ==
  ASSUME Shape, [OrdersNext]_allVars
  PROVE  Shape'
<1> USE OrderFacts
<1>1. ASSUME NEW o \in Order, NEW f \in OFuture, PlaceOrder(o, f), UNCHANGED subject
      PROVE  Shape'
  <2>1. PlacedId(o) \in OrderIds
    BY DEF PlacedId, Shape, OrderShape
  <2>2. Awaiting(PlacedId(o)) \subseteq OFuture
    BY DEF Awaiting
  <2>3. OrderShape' /\ SubjectShape'
    BY <1>1, <2>1 DEF PlaceOrder, Shape, OrderShape, SubjectShape
  <2>4. FutureShape'
    BY <1>1, <2>1, <2>2 DEF PlaceOrder, PlaceSent, PlaceRaises, Shape, FutureShape, States
  <2> QED BY <2>3, <2>4 DEF Shape
<1>2. ASSUME NEW f \in OFuture, CancelOrderFuture(f) PROVE FutureShape' \/ ~UNCHANGED handling
  BY <1>2 DEF CancelOrderFuture, Shape, FutureShape, States, handling
<1>3. FinishStep /\ UNCHANGED <<again, overtaken>> => FutureShape'
  BY DEF FinishStep, FinishOrder, Decide, Shape, FutureShape, States
<1>4. UNCHANGED <<awaited, again, overtaken>> => FutureShape'
  BY DEF awaited, Shape, FutureShape
<1>5. ASSUME ~(\E o \in Order, f \in OFuture : PlaceOrder(o, f) /\ UNCHANGED subject)
      PROVE  OrderShape' /\ SubjectShape'
  <2>1. ASSUME NEW o \in Order, NEW id \in GivenIds, AssignId(o, id) PROVE OrderShape'
    BY <2>1 DEF AssignId, Shape, OrderShape
  <2>2. ASSUME NEW id \in OrderIds, NEW o \in Order, NEW unsupported \in BOOLEAN,
               OpenOrder(id, o, unsupported)
        PROVE  OrderShape' /\ SubjectShape'
    <3>1. OrderShape'
      BY <2>2 DEF OpenOrder, KnownOrNew, Shape, OrderShape
    <3>2. subject' \in {subject, <<>>, <<id, o, "opened">>}
      BY <2>2 DEF OpenOrder
    <3> QED BY <3>1, <3>2 DEF Shape, SubjectShape
  <2>3. ASSUME NEW id \in OrderIds, OrderStatus(id) PROVE OrderShape' /\ SubjectShape'
    <3>1. OrderShape' /\ (subject' = subject \/ (orders[id] # None /\ subject' = <<id, orders[id], "status">>))
      BY <2>3 DEF OrderStatus, tables, Shape, OrderShape
    <3>2. orders[id] \in Order \cup {None}
      BY DEF Shape, OrderShape
    <3> QED BY <3>1, <3>2 DEF Shape, SubjectShape
  <2>4. ASSUME NEW n \in GivenIds, NextValidId(n) PROVE OrderShape'
    BY <2>4 DEF NextValidId, Shape, OrderShape
  <2>5. CASE \/ HandlersReturn \/ HandlerRaises \/ UNCHANGED allVars
             \/ UNCHANGED handling /\ (RequestStep \/ OpenOrderEnd \/ AnyErrMsg)
    BY <2>5 DEF HandlersReturn, HandlerRaises, RequestStep, OpenOrderEnd, AnyErrMsg, HandleErrMsg,
                allVars, orderVars, tables, handling, Shape, OrderShape, SubjectShape
  <2>6. CASE Application
    <3>1. subject' = subject
      BY <2>6 DEF Application
    <3>2. OrderShape'
      BY <1>5, <2>1, <2>6, <3>1
         DEF Application, CancelOrderFuture, GetOpenOrders, CancelOpenOrders, tables, Shape, OrderShape
    <3> QED BY <3>1, <3>2 DEF Shape, SubjectShape
  <2>7. subject' = subject => SubjectShape'
    BY DEF Shape, SubjectShape
  <2> QED BY <2>2, <2>3, <2>4, <2>5, <2>6, <2>7 DEF OrdersNext, AStatus, AnOpenOrder, handling
<1> QED BY <1>1, <1>2, <1>3, <1>4, <1>5, AwaitedSteps DEF Shape

-----------------------------------------------------------------------------
\* The futures of place_order.

\* An order is placed: its future takes the place of any that waits there.
LEMMA PlaceOrderKeeps ==
  ASSUME Shape, AwaitedInv, NEW o \in Order, NEW f \in OFuture, PlaceOrder(o, f),
         subject' = subject
  PROVE  AwaitedInv'
<1> USE OrderFacts
<1> DEFINE id == PlacedId(o)
<1>0. id \in OrderIds
  BY DEF PlacedId, Shape, OrderShape
<1> HIDE DEF id
<1>1. /\ ostate[f] = "unused"
      /\ orders' = [orders EXCEPT ![id] = o]
      /\ submitted_future' = [submitted_future EXCEPT ![id] = f]
      /\ placed' = [placed EXCEPT ![f] = o] /\ under' = [under EXCEPT ![f] = id]
      /\ \E s \in {"pending", "orphaned"} : ostate' = [ostate EXCEPT ![f] = s]
      /\ oresult' = oresult /\ cause' = cause
      /\ again' = IF Reporting(id) THEN again \cup {f} ELSE again
      /\ overtaken' = overtaken \cup Awaiting(id)
  BY DEF PlaceOrder, PlaceSent, PlaceRaises, id
<1>2. /\ orders'[id] = o /\ submitted_future'[id] = f
      /\ placed'[f] = o /\ under'[f] = id /\ ostate'[f] \in {"pending", "orphaned"}
      /\ \A i \in OrderIds \ {id} : orders'[i] = orders[i] /\ submitted_future'[i] = submitted_future[i]
      /\ \A g \in OFuture \ {f} : placed'[g] = placed[g] /\ under'[g] = under[g] /\ ostate'[g] = ostate[g]
      /\ again \subseteq again' /\ overtaken \subseteq overtaken'
  BY <1>0, <1>1 DEF Shape, OrderShape, FutureShape
<1>3. \A i \in OrderIds : submitted_future[i] # None => submitted_future[i] \in OFuture \ {f}
  BY <1>1 DEF AwaitedInv, Held, Shape, FutureShape
<1>4. Made'
  BY <1>0, <1>2 DEF AwaitedInv, Made
<1>5. Held'
  BY <1>0, <1>2, <1>3 DEF AwaitedInv, Held
<1>6. Own'
  <2> SUFFICES ASSUME ~Idle, subject[3] = "status", submitted_future'[subject[1]] # None
               PROVE  \/ placed'[submitted_future'[subject[1]]] = subject[2]
                      \/ submitted_future'[subject[1]] \in again'
    BY DEF Own, Idle
  <2>1. subject[1] \in OrderIds
    BY SubjectFacts
  <2>2. CASE subject[1] = id
    BY <1>1, <1>2, <2>2 DEF Reporting, Idle
  <2>3. CASE subject[1] # id
    BY <1>2, <1>3, <2>1, <2>3 DEF AwaitedInv, Own
  <2> QED BY <2>2, <2>3
<1>7. NoOrderForgotten'
  <2> SUFFICES ASSUME NEW g \in OFuture, ostate'[g] = "pending"
               PROVE  submitted_future'[under'[g]] = g \/ g \in overtaken'
    BY DEF NoOrderForgotten
  <2>1. CASE g = f
    BY <1>2, <2>1
  <2>2. CASE g # f /\ under[g] = id
    <3>1. g \in Awaiting(id)
      BY <1>2, <2>2 DEF Awaiting
    <3> QED BY <1>1, <3>1
  <2>3. CASE g # f /\ under[g] # id
    <3>1. ostate[g] = "pending" /\ under'[g] = under[g] /\ under[g] \in OrderIds \ {id}
      BY <1>2, <2>3 DEF AwaitedInv, Made
    <3> QED BY <1>2, <3>1 DEF AwaitedInv, NoOrderForgotten
  <2> QED BY <2>1, <2>2, <2>3
<1>8. OrderRouting'
  BY <1>1, <1>2 DEF AwaitedInv, OrderRouting
<1> QED BY <1>4, <1>5, <1>6, <1>7, <1>8 DEF AwaitedInv

LEMMA CancelFutureKeeps ==
  ASSUME Shape, AwaitedInv, NEW f \in OFuture, CancelOrderFuture(f), UNCHANGED handling
  PROVE  AwaitedInv'
<1> USE OrderFacts
<1>1. /\ ostate[f] = "pending" /\ ostate' = [ostate EXCEPT ![f] = "cancelled"]
      /\ UNCHANGED <<orders, submitted_future, placed, under, oresult, cause, subject, again, overtaken>>
  BY DEF CancelOrderFuture, tables, handling
<1>2. ostate'[f] = "cancelled" /\ \A g \in OFuture \ {f} : ostate'[g] = ostate[g]
  BY <1>1 DEF Shape, FutureShape
<1>3. Made' /\ Held' /\ Own'
  BY <1>1, <1>2 DEF AwaitedInv, Made, Held, Own, Idle, Shape, FutureShape
<1>4. NoOrderForgotten' /\ OrderRouting'
  BY <1>1, <1>2 DEF AwaitedInv, NoOrderForgotten, OrderRouting
<1> QED BY <1>3, <1>4 DEF AwaitedInv

\* A message about an order finishes the future waiting for it, if there is one,
\* with the order and by what the message says.
LEMMA FinishKeeps ==
  ASSUME Shape, AwaitedInv, UNCHANGED <<again, overtaken>>,
         NEW id \in OrderIds, NEW s \in {"result", "exception"}, NEW o, NEW what \in Causes,
         FinishOrder(id, s, o, what),
         \A i \in OrderIds \ {id} : orders'[i] = orders[i],
         s = "result" => /\ what = "report"
                         /\ submitted_future[id] # None =>
                               \/ placed[submitted_future[id]] = o
                               \/ submitted_future[id] \in again,
         s = "exception" => what # "report" /\ (what = "request" => id \in Ids),
         Idle' \/ subject'[3] = "opened"
  PROVE  AwaitedInv'
<1> USE OrderFacts
<1> DEFINE f == submitted_future[id]
<1>1. f # None => f \in OFuture /\ ostate[f] \in {"pending", "orphaned", "cancelled"} /\ under[f] = id
  BY DEF AwaitedInv, Held, Shape, FutureShape
<1>2. /\ submitted_future' = [submitted_future EXCEPT ![id] = None]
      /\ placed' = placed /\ under' = under /\ again' = again /\ overtaken' = overtaken
      /\ \/ /\ f = None \/ ODone(f)
            /\ ostate' = ostate /\ oresult' = oresult /\ cause' = cause
         \/ /\ f # None /\ ~ODone(f) /\ Decide(f, s, o, what, id)
  BY DEF FinishOrder
<1> HIDE DEF f
<1>3. /\ submitted_future'[id] = None
      /\ \A i \in OrderIds \ {id} : submitted_future'[i] = submitted_future[i]
      /\ \A g \in OFuture \ {f} : /\ ostate'[g] = ostate[g]
                                  /\ oresult'[g] = oresult[g] /\ cause'[g] = cause[g]
      /\ \/ f = None
         \/ ostate[f] = "cancelled" /\ ostate'[f] = "cancelled"
         \/ ostate'[f] = s /\ oresult'[f] = o /\ cause'[f] = <<what, id>>
  BY <1>1, <1>2 DEF Shape, FutureShape, Decide, ODone
<1>4. Made'
  BY <1>1, <1>2, <1>3 DEF AwaitedInv, Made
<1>5. Held'
  <2> SUFFICES ASSUME NEW i \in OrderIds, submitted_future'[i] # None
               PROVE  /\ ostate'[submitted_future'[i]] \in {"pending", "orphaned", "cancelled"}
                      /\ under'[submitted_future'[i]] = i
                      /\ placed'[submitted_future'[i]] = orders'[i]
    BY DEF Held
  <2>1. i # id /\ submitted_future'[i] = submitted_future[i] /\ orders'[i] = orders[i]
    BY <1>3
  <2>2. /\ submitted_future[i] \in OFuture /\ under[submitted_future[i]] = i
        /\ ostate[submitted_future[i]] \in {"pending", "orphaned", "cancelled"}
        /\ placed[submitted_future[i]] = orders[i]
    BY <2>1 DEF AwaitedInv, Held, Shape, FutureShape
  <2>3. submitted_future[i] # f
    BY <1>1, <2>1, <2>2
  <2> QED BY <1>2, <1>3, <2>1, <2>2, <2>3
<1>6. Own'
  BY DEF Own, Idle
<1>7. NoOrderForgotten'
  <2> SUFFICES ASSUME NEW g \in OFuture, ostate'[g] = "pending"
               PROVE  submitted_future'[under[g]] = g \/ g \in overtaken
    BY <1>2 DEF NoOrderForgotten
  <2>1. g # f /\ ostate[g] = "pending"
    BY <1>1, <1>3
  <2>2. CASE submitted_future[under[g]] = g
    <3>1. under[g] \in OrderIds /\ under[g] # id
      BY <2>1, <2>2 DEF AwaitedInv, Made, f
    <3> QED BY <1>3, <2>2, <3>1
  <2> QED BY <2>1, <2>2 DEF AwaitedInv, NoOrderForgotten
<1>8. OrderRouting'
  <2> SUFFICES ASSUME NEW g \in OFuture
               PROVE  /\ ostate'[g] = "result" => /\ cause'[g] = <<"report", under[g]>>
                                                  /\ oresult'[g] = placed[g] \/ g \in again
                      /\ ostate'[g] = "exception" =>
                            /\ cause'[g] \in {"error", "warning", "request"} \X {under[g]}
                            /\ cause'[g][1] = "request" => under[g] \in Ids
    BY <1>2 DEF OrderRouting
  <2>1. CASE f # None /\ g = f /\ ostate'[f] = s /\ oresult'[f] = o /\ cause'[f] = <<what, id>>
    BY <1>1, <2>1 DEF f, Causes
  <2>2. CASE ostate'[g] = ostate[g] /\ oresult'[g] = oresult[g] /\ cause'[g] = cause[g]
    BY <2>2 DEF AwaitedInv, OrderRouting
  <2>3. CASE ostate'[g] = "cancelled"
    BY <2>3
  <2> QED BY <1>1, <1>3, <2>1, <2>2, <2>3
<1> QED BY <1>4, <1>5, <1>6, <1>7, <1>8 DEF AwaitedInv

\* Steps that leave the futures and their table alone.
LEMMA AwaitedStay ==
  ASSUME Shape, AwaitedInv, UNCHANGED <<awaited, again, overtaken>>,
         \A i \in OrderIds : submitted_future[i] # None => orders'[i] = orders[i],
         \/ subject' = subject
         \/ Idle'
         \/ \E id \in OrderIds : subject' = <<id, orders[id], "status">>
  PROVE  AwaitedInv'
<1> USE OrderFacts
<1>1. UNCHANGED <<submitted_future, ostate, placed, under, oresult, cause, again, overtaken>>
  BY DEF awaited
<1>2. Made' /\ Held' /\ NoOrderForgotten' /\ OrderRouting'
  BY <1>1 DEF AwaitedInv, Made, Held, NoOrderForgotten, OrderRouting
<1>3. Own'
  <2>1. CASE subject' = subject \/ Idle'
    BY <1>1, <2>1 DEF AwaitedInv, Own, Idle
  <2>2. ASSUME NEW id \in OrderIds, subject' = <<id, orders[id], "status">> PROVE Own'
    <3>1. subject'[1] = id /\ subject'[2] = orders[id]
      BY <2>2
    <3>2. submitted_future[id] # None => placed[submitted_future[id]] = orders[id]
      BY DEF AwaitedInv, Held
    <3> QED BY <1>1, <3>1, <3>2 DEF Own
  <2> QED BY <2>1, <2>2
<1> QED BY <1>2, <1>3 DEF AwaitedInv

LEMMA AwaitedKeep ==
  ASSUME Shape, AwaitedInv, [OrdersNext]_allVars
  PROVE  AwaitedInv'
<1> USE OrderFacts
<1>1. CASE HandlersReturn
  <2>1. /\ ~Idle /\ Idle' /\ orders' = orders /\ UNCHANGED <<again, overtaken>>
        /\ \/ UNCHANGED awaited
           \/ subject[3] # "opened" /\ FinishOrder(subject[1], "result", subject[2], "report")
    BY <1>1 DEF HandlersReturn, tables, Idle
  <2>2. CASE UNCHANGED awaited
    BY <2>1, <2>2, AwaitedStay
  <2>3. CASE subject[3] # "opened" /\ FinishOrder(subject[1], "result", subject[2], "report")
    <3>1. subject[1] \in OrderIds /\ subject[3] = "status"
      BY <2>1, <2>3, SubjectFacts
    <3>2. LET f == submitted_future[subject[1]] IN f # None => placed[f] = subject[2] \/ f \in again
      BY <2>1, <3>1 DEF AwaitedInv, Own
    <3> QED BY <2>1, <2>3, <3>1, <3>2, FinishKeeps DEF Causes
  <2> QED BY <2>1, <2>2, <2>3
<1>2. ASSUME NEW id \in OrderIds, Idle, OrderStatus(id) PROVE AwaitedInv'
  <2>1. /\ UNCHANGED <<awaited, again, overtaken>> /\ orders' = orders
        /\ subject' = subject \/ subject' = <<id, orders[id], "status">>
    BY <1>2 DEF OrderStatus, tables
  <2> QED BY <2>1, AwaitedStay
<1>3. ASSUME NEW id \in OrderIds, NEW o \in Order, NEW unsupported \in BOOLEAN, Idle,
             OpenOrder(id, o, unsupported)
      PROVE  AwaitedInv'
  <2>1. /\ UNCHANGED <<again, overtaken>> /\ orders' = [orders EXCEPT ![id] = o]
        /\ orders[id] # None => o = orders[id]
        /\ \/ UNCHANGED <<awaited, subject>>
           \/ /\ FinishOrder(id, "result", o, "report")
              /\ subject' = <<>> \/ subject' = <<id, o, "opened">>
    BY <1>3 DEF OpenOrder, KnownOrNew
  <2>2. \A i \in OrderIds \ {id} : orders'[i] = orders[i]
    BY <2>1 DEF Shape, OrderShape
  <2>3. submitted_future[id] # None => placed[submitted_future[id]] = o /\ orders'[id] = orders[id]
    <3>1. ASSUME submitted_future[id] # None
          PROVE  submitted_future[id] \in OFuture /\ placed[submitted_future[id]] = orders[id]
                 /\ placed[submitted_future[id]] \in Order
      BY <3>1 DEF AwaitedInv, Held, Made, Shape, FutureShape
    <3> QED BY <2>1, <3>1 DEF Shape, OrderShape
  <2>4. CASE UNCHANGED <<awaited, subject>>
    BY <2>1, <2>2, <2>3, <2>4, AwaitedStay
  <2>5. CASE FinishOrder(id, "result", o, "report") /\ (subject' = <<>> \/ subject' = <<id, o, "opened">>)
    <3>1. Idle' \/ subject'[3] = "opened"
      BY <2>5 DEF Idle
    <3> QED BY <2>1, <2>2, <2>3, <2>5, <3>1, FinishKeeps DEF Causes
  <2> QED BY <2>1, <2>4, <2>5
<1>4. ASSUME NEW id \in Ids \cup OrderIds, NEW code \in {"error", "warning"},
             NEW about \in {"order", "request"}, HandleErrMsg(id, code, about),
             Idle, UNCHANGED handling
      PROVE  AwaitedInv'
  <2>1. /\ orders' = orders /\ UNCHANGED <<subject, again, overtaken>> /\ Idle'
    BY <1>4 DEF HandleErrMsg, handling, tables, Idle
  <2>2. CASE OrderAwaited(id)
    <3>1. PICK what \in {"error", "warning", "request"} :
              /\ FinishOrder(id, "exception", None, what)
              /\ what = "request" => about = "request"
      BY <1>4, <2>2 DEF HandleErrMsg
    <3>2. id \in OrderIds /\ (about = "request" => id \in Ids)
      BY <1>4, <2>2 DEF OrderAwaited, HandleErrMsg
    <3> QED BY <2>1, <3>1, <3>2, FinishKeeps DEF Causes
  <2>3. CASE ~OrderAwaited(id)
    BY <1>4, <2>1, <2>3, AwaitedStay DEF HandleErrMsg
  <2> QED BY <2>2, <2>3
<1>5. CASE Application
  <2>1. ASSUME NEW o \in Order, NEW f \in OFuture, PlaceOrder(o, f), UNCHANGED subject
        PROVE  AwaitedInv'
    BY <2>1, PlaceOrderKeeps
  <2>2. ASSUME NEW f \in OFuture, CancelOrderFuture(f), UNCHANGED <<subject, again, overtaken>>
        PROVE  AwaitedInv'
    BY <2>2, CancelFutureKeeps DEF handling
  <2>3. ASSUME NEW o \in Order, NEW id \in GivenIds, UNCHANGED <<subject, again, overtaken>>,
               AssignId(o, id) \/ GetOpenOrders \/ CancelOpenOrders
        PROVE  AwaitedInv'
    BY <2>3, AwaitedStay DEF AssignId, GetOpenOrders, CancelOpenOrders, tables
  <2>4. ASSUME UNCHANGED <<subject, again, overtaken>>, GetOpenOrders \/ CancelOpenOrders
        PROVE  AwaitedInv'
    BY <2>4, AwaitedStay DEF GetOpenOrders, CancelOpenOrders, tables
  <2> QED BY <1>5, <2>1, <2>2, <2>3, <2>4 DEF Application
<1>6. CASE \/ HandlerRaises \/ UNCHANGED allVars
           \/ UNCHANGED handling /\ (RequestStep \/ OpenOrderEnd \/ \E n \in GivenIds : NextValidId(n))
  <2>1. /\ UNCHANGED <<awaited, again, overtaken>> /\ orders' = orders
        /\ subject' = subject \/ Idle'
    BY <1>6 DEF HandlerRaises, RequestStep, OpenOrderEnd, NextValidId, allVars, orderVars, tables,
                handling, Idle
  <2> QED BY <2>1, AwaitedStay
<1> QED BY <1>1, <1>2, <1>3, <1>4, <1>5, <1>6 DEF OrdersNext, AStatus, AnOpenOrder, AnyErrMsg

LEMMA OrdersInvariance == OrdersSpec => [](Shape /\ AwaitedInv)
<1>1. Shape /\ AwaitedInv /\ [OrdersNext]_allVars => Shape' /\ AwaitedInv'
  BY ShapeStays, AwaitedKeep
<1> QED BY <1>1, OrdersInitInv, PTL DEF OrdersSpec

\* A place_order future that is awaited stays in the table until it is decided,
\* or until an order is placed under its id: whatever else happens to the ids.
THEOREM AwaitedOrdersRemembered == OrdersSpec => []NoOrderForgotten
<1>1. Shape /\ AwaitedInv => NoOrderForgotten
  BY DEF AwaitedInv
<1> QED BY <1>1, OrdersInvariance, PTL

\* It is decided by a message under its own id and resolved with its own order,
\* in whatever order the messages come and whatever orders and requests share
\* the id, except where a handler of a status of that id has just placed it.
THEOREM OrdersReachTheirFuture == OrdersSpec => []OrderRouting
<1>1. Shape /\ AwaitedInv => OrderRouting
  BY DEF AwaitedInv
<1> QED BY <1>1, OrdersInvariance, PTL

-----------------------------------------------------------------------------
\* Who is still waiting.

\* While an order's handlers run the loop is alive, and the only future that may
\* still wait for a report already dispatched is the one of that status.
WaitInv ==
    /\ ~Idle => loop \in {"running", "draining"}
    /\ loop # "raised" =>
           \A f \in OFuture : ostate[f] = "pending" =>
               \/ under[f] \in undecided \/ writer # "open" \/ f \in overtaken
               \/ Reporting(under[f])

\* A step that dispatches nothing about orders.
LEMMA WaitStay ==
  ASSUME WaitInv, UNCHANGED <<awaited, again, overtaken, subject>>,
         undecided \subseteq undecided', writer' = "open" => writer = "open",
         loop = "raised" => loop' = "raised", Idle \/ loop' = loop
  PROVE  WaitInv'
BY DEF WaitInv, awaited, Idle, Reporting

\* A message about the order id finishes its future, so that nobody waits for it
\* but who has been overtaken.
LEMMA FinishServes ==
  ASSUME Shape, AwaitedInv, WaitInv, NEW id \in OrderIds,
         \/ submitted_future[id] = None /\ UNCHANGED awaited
         \/ \E s \in {"result", "exception"} : \E o, what : FinishOrder(id, s, o, what),
         UNCHANGED <<again, overtaken>>,
         undecided \ {id} \subseteq undecided', writer' = writer,
         Idle' \/ loop' \in {"running", "draining"},
         loop # "raised", Idle \/ subject[1] = id
  PROVE  WaitInv'
<1> USE OrderFacts
<1>1. placed' = placed /\ under' = under /\ overtaken' = overtaken
  BY DEF FinishOrder, awaited
<1>2. ASSUME NEW f \in OFuture, ostate'[f] = "pending"
      PROVE  ostate[f] = "pending" /\ (under[f] = id => f \in overtaken)
  <2>1. CASE submitted_future[id] = None /\ UNCHANGED awaited
    BY <1>2, <2>1 DEF awaited, AwaitedInv, NoOrderForgotten
  <2>2. ASSUME NEW s \in {"result", "exception"}, NEW o, NEW what, FinishOrder(id, s, o, what)
        PROVE  ostate[f] = "pending" /\ submitted_future[id] # f
    <3>. DEFINE g == submitted_future[id]
    <3>1. \/ ostate' = ostate /\ (g = None \/ ODone(g))
          \/ ostate' = [ostate EXCEPT ![g] = s] /\ g # None
      BY <2>2 DEF FinishOrder, Decide
    <3>. QED BY <1>2, <3>1 DEF Shape, FutureShape, ODone
  <2>. QED BY <2>1, <2>2 DEF AwaitedInv, NoOrderForgotten
<1>3. ASSUME NEW f \in OFuture, ostate'[f] = "pending"
      PROVE  under[f] \in undecided' \/ writer # "open" \/ f \in overtaken
  <2>1. ostate[f] = "pending" /\ (under[f] = id => f \in overtaken)
    BY <1>2, <1>3
  <2>2. Reporting(under[f]) => under[f] = id
    BY DEF Reporting, Idle
  <2>. QED BY <2>1, <2>2 DEF WaitInv
<1>. QED BY <1>1, <1>3 DEF WaitInv

LEMMA PlaceWaits ==
  ASSUME Shape, AwaitedInv, WaitInv, NEW o \in Order, NEW f \in OFuture,
         PlaceOrder(o, f), UNCHANGED subject
  PROVE  WaitInv'
<1> USE OrderFacts
<1>1. /\ under' = [under EXCEPT ![f] = PlacedId(o)] /\ ostate[f] = "unused"
      /\ writer' = writer /\ loop' = loop /\ undecided \subseteq undecided'
      /\ overtaken \subseteq overtaken'
      /\ \/ ostate' = [ostate EXCEPT ![f] = "orphaned"]
         \/ ostate' = [ostate EXCEPT ![f] = "pending"] /\ (writer = "open" => PlacedId(o) \in undecided')
  BY DEF PlaceOrder, PlaceSent, PlaceRaises, vars
<1>2. ASSUME loop # "raised", NEW g \in OFuture, g # f, ostate'[g] = "pending"
      PROVE  \/ under'[g] \in undecided' \/ writer' # "open" \/ g \in overtaken'
             \/ Reporting(under'[g])
  <2>1. ostate[g] = "pending" /\ under'[g] = under[g]
    BY <1>1, <1>2 DEF Shape, FutureShape
  <2>. QED BY <1>1, <1>2, <2>1 DEF WaitInv
<1>3. ostate'[f] = "pending" => under'[f] \in undecided' \/ writer' # "open"
  BY <1>1 DEF Shape, FutureShape
<1>4. \A i : Reporting(i)' <=> Reporting(i)
  BY DEF Reporting
<1>. QED BY <1>1, <1>2, <1>3, <1>4 DEF WaitInv, Idle

LEMMA StatusWaits ==
  ASSUME Shape, AwaitedInv, WaitInv, Idle, NEW id \in OrderIds, OrderStatus(id)
  PROVE  WaitInv'
<1> USE OrderFacts
<1>1. /\ Dispatching /\ undecided \ {id} \subseteq undecided'
      /\ writer' = writer /\ UNCHANGED <<ostate, under, overtaken>>
      /\ IF orders[id] = None THEN loop' = AfterDispatch /\ subject' = subject
                              ELSE subject' = <<id, orders[id], "status">> /\ loop' = loop
  BY DEF OrderStatus, Report, awaited
<1>2. ASSUME NEW f \in OFuture, ostate[f] = "pending", orders[id] = None, under[f] = id
      PROVE  f \in overtaken
  BY <1>2 DEF AwaitedInv, NoOrderForgotten, Held, Made
<1>3. \A f \in OFuture : ostate[f] = "pending" =>
          \/ under[f] \in undecided \/ writer # "open" \/ f \in overtaken
  BY <1>1 DEF WaitInv, Dispatching, Reporting, Idle
<1>4. CASE orders[id] = None
  BY <1>1, <1>2, <1>3, <1>4 DEF WaitInv, Idle
<1>5. CASE orders[id] # None
  <2>1. subject' # <<>> /\ subject'[1] = id /\ subject'[3] = "status"
    BY <1>1, <1>5
  <2>2. \A f \in OFuture : under[f] = id => Reporting(under[f])'
    BY <1>1, <2>1 DEF Reporting
  <2>. QED BY <1>1, <1>3, <1>5, <2>2 DEF WaitInv, Dispatching
<1>. QED BY <1>4, <1>5

LEMMA WaitKeeps ==
  ASSUME Shape, AwaitedInv, WaitInv, [OrdersNext]_allVars
  PROVE  WaitInv'
<1> USE OrderFacts
<1>1. ASSUME NEW f \in OFuture, CancelOrderFuture(f), UNCHANGED <<subject, again, overtaken>>
      PROVE  WaitInv'
  <2>1. /\ UNCHANGED <<under, overtaken, subject, writer, loop, undecided>>
        /\ ostate' = [ostate EXCEPT ![f] = "cancelled"]
    BY <1>1 DEF CancelOrderFuture, vars, oserver
  <2>2. \A g \in OFuture : ostate'[g] = "pending" => ostate[g] = "pending"
    BY <2>1 DEF Shape, FutureShape
  <2>. QED BY <2>1, <2>2 DEF WaitInv, Idle, Reporting
<1>2. CASE HandlersReturn
  <2>1. /\ ~Idle /\ UNCHANGED <<again, overtaken>>
        /\ undecided' = undecided /\ writer' = writer /\ Idle'
        /\ \/ subject[3] = "opened" /\ UNCHANGED awaited /\ loop' = AfterDispatch
           \/ FinishOrder(subject[1], "result", subject[2], "report")
    BY <1>2 DEF HandlersReturn, oserver, Idle
  <2>2. subject[1] \in OrderIds /\ loop # "raised"
    BY <2>1, SubjectFacts DEF WaitInv
  <2>3. CASE subject[3] = "opened" /\ UNCHANGED awaited /\ loop' = AfterDispatch
    BY <2>1, <2>2, <2>3 DEF WaitInv, Reporting, awaited
  <2>. QED BY <2>1, <2>2, <2>3, FinishServes
<1>3. CASE HandlerRaises
  BY <1>3 DEF HandlerRaises, WaitInv, Idle
<1>4. ASSUME Idle, NEW id \in OrderIds, NEW o \in Order,
             NEW unsupported \in BOOLEAN, OpenOrder(id, o, unsupported)
      PROVE  WaitInv'
  <2>1. /\ Dispatching /\ undecided \ {id} \subseteq undecided' /\ writer' = writer
        /\ UNCHANGED <<again, overtaken>>
        /\ \/ loop' = "raised" /\ subject' = subject
           \/ /\ FinishOrder(id, "result", o, "report")
              /\ subject' = IF loop' = "misfired" THEN <<>> ELSE <<id, o, "opened">>
    BY <1>4 DEF OpenOrder, Report
  <2>2. CASE loop' = "raised" /\ subject' = subject
    BY <1>4, <2>2 DEF WaitInv, Idle
  <2>3. CASE /\ FinishOrder(id, "result", o, "report")
             /\ subject' = IF loop' = "misfired" THEN <<>> ELSE <<id, o, "opened">>
    <3>1. Idle' \/ loop' = loop
      BY <1>4, <2>3 DEF OpenOrder, Finishing, Idle
    <3>2. Idle' \/ loop' \in {"running", "draining"}
      BY <2>1, <3>1 DEF Dispatching
    <3>3. \E s \in {"result", "exception"} : \E x, what : FinishOrder(id, s, x, what)
      BY <2>3
    <3>4. loop # "raised"
      BY <2>1 DEF Dispatching
    <3>. QED BY <1>4, <2>1, <3>2, <3>3, <3>4, FinishServes
  <2>. QED BY <2>1, <2>2, <2>3
<1>5. ASSUME Idle, UNCHANGED handling, NEW id \in Ids \cup OrderIds,
             NEW code \in {"error", "warning"}, NEW about \in {"order", "request"},
             HandleErrMsg(id, code, about)
      PROVE  WaitInv'
  <2>1. /\ Dispatching /\ undecided \ {id} \subseteq undecided' /\ writer' = writer
        /\ UNCHANGED <<subject, again, overtaken>> /\ Idle'
    BY <1>5 DEF HandleErrMsg, handling, Idle
  <2>2. \/ id \in OrderIds /\ \E what : FinishOrder(id, "exception", None, what)
        \/ id \in OrderIds /\ submitted_future[id] = None /\ UNCHANGED awaited
        \/ id \notin OrderIds /\ UNCHANGED awaited
    BY <1>5 DEF HandleErrMsg, OrderAwaited
  <2>3. CASE id \in OrderIds
    <3>1. loop # "raised"
      BY <2>1 DEF Dispatching
    <3>. QED BY <1>5, <2>1, <2>2, <2>3, <3>1, FinishServes
  <2>4. CASE id \notin OrderIds
    <3>1. \A f \in OFuture : ostate[f] = "pending" => under[f] # id
      BY <2>4 DEF AwaitedInv, Made
    <3>2. UNCHANGED <<ostate, under>>
      BY <2>2, <2>4 DEF awaited
    <3>. QED BY <1>5, <2>1, <3>1, <3>2 DEF WaitInv, Dispatching, Reporting
  <2>. QED BY <2>3, <2>4
<1>6. ASSUME UNCHANGED <<subject, again, overtaken>>,
             (\E o \in Order, id \in GivenIds : AssignId(o, id)) \/ GetOpenOrders \/ CancelOpenOrders
      PROVE  WaitInv'
  <2>1. UNCHANGED <<awaited, undecided, writer, loop>>
    BY <1>6 DEF AssignId, GetOpenOrders, CancelOpenOrders, vars, oserver
  <2>. QED BY <1>6, <2>1, WaitStay
<1>7. CASE Idle /\ UNCHANGED handling /\ (OpenOrderEnd \/ \E n \in GivenIds : NextValidId(n))
  <2>1. /\ UNCHANGED awaited /\ undecided' = undecided /\ writer' = writer /\ Dispatching
    BY <1>7 DEF OpenOrderEnd, NextValidId, oserver
  <2>. QED BY <1>7, <2>1, WaitStay DEF Dispatching, handling
<1>8. CASE Idle /\ UNCHANGED handling /\ RequestStep
  <2>1. /\ UNCHANGED awaited /\ undecided' = undecided
        /\ writer' = "open" => writer = "open"
        /\ loop = "raised" => loop' = "raised"
    BY <1>8 DEF RequestStep, orderVars, oserver, Calls, Issue, Raise, Cancel, RunCallback,
                Closing, Row, Answer, ExecutionDataEnd, ContractDataEnd, ExecutionData,
                ContractData, Disconnect, ConnectionLost, Dispatching
  <2>. QED BY <1>8, <2>1, WaitStay DEF handling
<1>9. CASE UNCHANGED allVars
  BY <1>9, WaitStay DEF allVars, vars, orderVars, handling, oserver
<1>10. CASE Application
  <2>1. \/ \E o \in Order, f \in OFuture : PlaceOrder(o, f) /\ UNCHANGED subject
        \/ (\E f \in OFuture : CancelOrderFuture(f)) /\ UNCHANGED <<subject, again, overtaken>>
        \/ /\ UNCHANGED <<subject, again, overtaken>>
           /\ (\E o \in Order, id \in GivenIds : AssignId(o, id)) \/ GetOpenOrders \/ CancelOpenOrders
    BY <1>10 DEF Application
  <2>. QED BY <1>1, <1>6, <2>1, PlaceWaits
<1>11. CASE Idle /\ (AStatus \/ AnOpenOrder)
  BY <1>4, <1>11, StatusWaits DEF AStatus, AnOpenOrder
<1>12. CASE Idle /\ UNCHANGED handling /\ AnyErrMsg
  BY <1>5, <1>12 DEF AnyErrMsg
<1>. QED BY <1>2, <1>3, <1>7, <1>8, <1>9, <1>10, <1>11, <1>12 DEF OrdersNext

\* Once a report or rejection under an order's id has been dispatched, nobody
\* waits for that order, whatever the handlers of its status did, but who was
\* overtaken.
THEOREM ReportedOrdersAreSettled == OrdersSpec => []NoOrderLeftWaiting
<1>. DEFINE IInvO == Shape /\ AwaitedInv /\ WaitInv
<1>1. OrdersInit => IInvO
  BY OrdersInitInv DEF OrdersInit, WaitInv, Idle
<1>2. IInvO /\ [OrdersNext]_allVars => IInvO'
  BY ShapeStays, AwaitedKeep, WaitKeeps
<1>3. IInvO => NoOrderLeftWaiting
  BY DEF WaitInv, NoOrderLeftWaiting, Reporting, Idle
<1>. QED BY <1>1, <1>2, <1>3, PTL DEF OrdersSpec

-----------------------------------------------------------------------------
\* What is left of the types.
RestShape ==
    /\ oresult \in [OFuture -> Order \cup {None}]
    /\ cause \in [OFuture -> (Causes \X OrderIds) \cup {<<>>}]
    /\ open_orders_future \in {"none", "pending", "cancelled"}
    /\ crossed \subseteq Ids \X {"order", "request"}
    /\ undecided \subseteq OrderIds /\ rejected \subseteq Ids
    /\ listings \in 0..MaxListings

LEMMA OutcomeShapeStays ==
  ASSUME Shape, RestShape, [OrdersNext]_allVars
  PROVE  /\ oresult' \in [OFuture -> Order \cup {None}]
         /\ cause' \in [OFuture -> (Causes \X OrderIds) \cup {<<>>}]
<1>1. ASSUME NEW id \in OrderIds, NEW s \in {"result", "exception"}, NEW o \in Order \cup {None},
             NEW what \in Causes, FinishOrder(id, s, o, what)
      PROVE  /\ oresult' \in [OFuture -> Order \cup {None}]
             /\ cause' \in [OFuture -> (Causes \X OrderIds) \cup {<<>>}]
  <2>1. <<what, id>> \in Causes \X OrderIds
    OBVIOUS
  <2>. HIDE DEF Causes
  <2>. QED BY <1>1, <2>1 DEF FinishOrder, Decide, RestShape
<1>. QED BY <1>1, AwaitedSteps DEF FinishStep, PlaceOrder, CancelOrderFuture, awaited, RestShape

\* What an action leaves alone of the rest.
Rest == <<open_orders_future, crossed, undecided, rejected, listings>>

LEMMA RestStays ==
  ASSUME Shape, RestShape, [OrdersNext]_allVars
  PROVE  RestShape'
<1> USE OrderFacts
<1>1. ASSUME NEW o \in Order, NEW f \in OFuture, PlaceOrder(o, f), UNCHANGED crossed
      PROVE  /\ UNCHANGED <<open_orders_future, crossed, rejected, listings>>
             /\ undecided' \subseteq OrderIds
  <2>1. PlacedId(o) \in OrderIds
    BY DEF PlacedId, Shape, OrderShape
  <2>. QED BY <1>1, <2>1 DEF PlaceOrder, PlaceSent, PlaceRaises, RestShape
<1>2. CASE Application
  <2>1. /\ open_orders_future' \in {"none", "pending", "cancelled"}
        /\ UNCHANGED <<crossed, rejected>>
        /\ undecided' \subseteq OrderIds
    BY <1>1, <1>2 DEF Application, CancelOrderFuture, AssignId, GetOpenOrders, CancelOpenOrders,
                      oserver, RestShape
  <2>2. listings' \in 0..MaxListings
    BY <1>1, <1>2, OrderAssumption DEF Application, CancelOrderFuture, AssignId, GetOpenOrders, CancelOpenOrders,
                      oserver, RestShape
  <2>. QED BY <2>1, <2>2, OutcomeShapeStays DEF RestShape
<1>3. CASE AStatus \/ AnOpenOrder
  <2>1. /\ UNCHANGED <<open_orders_future, crossed, rejected, listings>>
        /\ undecided' \subseteq undecided
    BY <1>3 DEF AStatus, OrderStatus, AnOpenOrder, OpenOrder, Report
  <2>. QED BY <2>1, OutcomeShapeStays DEF RestShape
<1>4. CASE OpenOrderEnd
  BY <1>4, OutcomeShapeStays, OrderAssumption DEF OpenOrderEnd, ListingEnded, RestShape
<1>5. CASE AnyErrMsg
  <2>1. PICK id \in Ids \cup OrderIds, code \in {"error", "warning"}, about \in {"order", "request"} :
            HandleErrMsg(id, code, about)
    BY <1>5 DEF AnyErrMsg
  <2>2. UNCHANGED <<open_orders_future, listings>> /\ undecided' \subseteq undecided
    BY <2>1 DEF HandleErrMsg
  <2>3. rejected' \subseteq Ids
    BY <2>1 DEF HandleErrMsg, RestShape
  <2>4. code = "error" /\ Crosses(id, about) => id \in Ids
    BY <2>1 DEF HandleErrMsg, Crosses, Expecting
  <2>5. crossed' \subseteq Ids \X {"order", "request"}
    BY <2>1, <2>4 DEF HandleErrMsg, RestShape
  <2>. QED BY <2>2, <2>3, <2>5, OutcomeShapeStays DEF RestShape
<1>6. CASE \/ HandlersReturn \/ HandlerRaises \/ RequestStep \/ UNCHANGED allVars
           \/ \E n \in GivenIds : NextValidId(n)
  <2>1. UNCHANGED Rest
    BY <1>6 DEF HandlersReturn, HandlerRaises, RequestStep, NextValidId, allVars, orderVars, oserver,
                Rest
  <2>. QED BY <2>1, OutcomeShapeStays DEF Rest, RestShape
<1>. QED BY <1>2, <1>3, <1>4, <1>5, <1>6 DEF OrdersNext

-----------------------------------------------------------------------------
\* Requests beside orders.

\* An order or its listing that was given up.
GivenUp == (\E f \in OFuture : ostate[f] = "cancelled") \/ open_orders_future = "cancelled"

LEMMA GivenUpStays ==
  ASSUME Shape, [OrdersNext]_allVars, GivenUp
  PROVE  GivenUp'
<1>1. open_orders_future = "cancelled" => open_orders_future' = "cancelled"
  BY DEF OrdersNext, PlaceOrder, CancelOrderFuture, HandlersReturn, HandlerRaises, AStatus,
         OrderStatus, RequestStep, Application, AssignId, GetOpenOrders, CancelOpenOrders,
         NextValidId, AnOpenOrder, OpenOrder, OpenOrderEnd, ListingEnded, AnyErrMsg,
         HandleErrMsg, allVars, orderVars
<1>2. ASSUME NEW f \in OFuture, ostate[f] = "cancelled" PROVE ostate'[f] = "cancelled"
  <2>1. ASSUME NEW o \in Order, NEW g \in OFuture, PlaceOrder(o, g) PROVE ostate'[f] = "cancelled"
    <3>1. ostate[g] = "unused" /\ \E s : ostate' = [ostate EXCEPT ![g] = s]
      BY <2>1 DEF PlaceOrder, PlaceSent, PlaceRaises
    <3>. QED BY <1>2, <3>1 DEF Shape, FutureShape
  <2>2. ASSUME NEW g \in OFuture, CancelOrderFuture(g) PROVE ostate'[f] = "cancelled"
    BY <1>2, <2>2 DEF CancelOrderFuture, Shape, FutureShape
  <2>3. FinishStep => ostate'[f] = "cancelled"
    BY <1>2 DEF FinishStep, FinishOrder, Decide, ODone, Shape, FutureShape
  <2>4. UNCHANGED <<awaited, again, overtaken>> => ostate'[f] = "cancelled"
    BY <1>2 DEF awaited
  <2>. QED BY <2>1, <2>2, <2>3, <2>4, AwaitedSteps
<1>. QED BY <1>1, <1>2 DEF GivenUp

\* An order's future that is done when a message finds it was given up.
LEMMA FinishMisfires ==
  ASSUME Shape, AwaitedInv, NEW id \in OrderIds, NEW onwards, Finishing(id, onwards)
  PROVE  loop' = onwards \/ (loop' = "misfired" /\ GivenUp)
<1>. DEFINE f == submitted_future[id]
<1>1. f # None /\ ODone(f) => f \in OFuture /\ ostate[f] = "cancelled"
  BY OrderFacts DEF AwaitedInv, Held, ODone, Shape, FutureShape
<1>. QED BY <1>1 DEF Finishing, GivenUp

\* While messages are dispatched the server has received every request that
\* somebody made: a connection that was lost has ended the loop.
LostInv ==
    /\ writer = "broken" => ~Dispatching
    /\ Dispatching => \A f \in Future : state[f] \in {"pending", "cancelled"} =>
                                           request[rid[f]] # None

\* The entry of a call that raised is dropped: it was nobody's.
Disowned(i) ==
    LET f == pending_responses[i] IN
    /\ f # None /\ state[f] = "orphaned"
    /\ pending_responses' = [pending_responses EXCEPT ![i] = None]
    /\ value' = [value EXCEPT ![f] = 0]
    /\ callback' = [callback EXCEPT ![f] = IF @ = "registered" THEN "scheduled" ELSE @]

\* For the calls of Requests a message is nothing, or the end of the loop.
Aside ==
    /\ UNCHANGED <<next_request_id, rid, state, pending_execs, server, writer>>
    /\ UNCHANGED <<pending_responses, value, callback>> \/ \E i \in Ids : Disowned(i)
    /\ Dispatching
    /\ loop' \in {loop, AfterDispatch, "raised", "misfired"} /\ (loop' = "misfired" => GivenUp)

\* What a message on an order does to requests: nothing.
LEMMA OrderMessageAside ==
  ASSUME UNCHANGED <<futures, pending_execs, server, writer>>, Dispatching,
         \/ loop' \in {loop, AfterDispatch, "raised"}
         \/ loop' = "misfired" /\ GivenUp
  PROVE  Aside
BY DEF Aside, futures, Dispatching, AfterDispatch

\* An error that reaches Protocol is one about the request of that number, as
\* far as Protocol can tell, or finds nobody.
LEMMA ErrorSteps ==
  ASSUME CallsInv, LostInv, Shape, AwaitedInv, NEW id \in Ids \cup OrderIds,
         NEW code \in {"error", "warning"}, NEW about \in {"order", "request"},
         HandleErrMsg(id, code, about)
  PROVE  Next \/ Aside
<1>. USE NoneNotId, NoneNotKind
<1>1. /\ Dispatching
      /\ UNCHANGED <<next_request_id, rid, pending_execs, request, rows, final, cancels, writer>>
  BY DEF HandleErrMsg
<1>2. CASE OrderAwaited(id)
  <2>1. id \in OrderIds /\ Finishing(id, AfterDispatch)
        /\ UNCHANGED <<pending_responses, state, value, callback, errs>>
    BY <1>2 DEF HandleErrMsg, OrderAwaited
  <2>. QED BY <1>1, <2>1, FinishMisfires, OrderMessageAside DEF futures, server
<1>3. CASE ~OrderAwaited(id) /\ ~(code = "error" /\ (about = "request" \/ Expecting(id)))
  <2>1. UNCHANGED <<pending_responses, state, value, callback, errs>> /\ loop' = AfterDispatch
    BY <1>3 DEF HandleErrMsg, SuperErrMsg
  <2>. QED BY <1>1, <2>1, OrderMessageAside DEF futures, server
<1>4. CASE ~OrderAwaited(id) /\ code = "error" /\ (about = "request" \/ Expecting(id))
  <2>1. /\ id \in Ids /\ FailFuture(id)
        /\ about = "request" => request[id] # None
        /\ about = "order" => Expecting(id)
        /\ errs' = IF request[id] # None THEN errs \cup {id} ELSE errs
    BY <1>4 DEF HandleErrMsg, SuperErrMsg, Expecting
  <2>2. CASE request[id] # None
    <3>1. ErrMsg(id)
      BY <1>1, <2>1, <2>2 DEF ErrMsg
    <3>. QED BY <2>1, <3>1 DEF Next
  <2>3. CASE request[id] = None
    <3>. DEFINE f == pending_responses[id]
    <3>1. f \in Future /\ rid[f] = id /\ state[f] \in {"pending", "orphaned", "cancelled"}
      BY <2>1, <2>3 DEF Expecting, CallsInv, TypeOK, TableInv
    <3>2. state[f] = "orphaned"
      BY <1>1, <2>3, <3>1 DEF LostInv
    <3>3. FailFuture(id) /\ ~Done(f)
      BY <2>1, <3>2 DEF Done
    <3>4. /\ pending_responses' = [pending_responses EXCEPT ![id] = None]
          /\ Settle(f, "exception", 0) /\ loop' = AfterDispatch
      BY <3>1, <3>3 DEF FailFuture
    <3>5. state' = state
      BY <3>1, <3>2, <3>4 DEF Settle, CallsInv, TypeOK
    <3>6. Disowned(id)
      BY <3>1, <3>2, <3>4 DEF Disowned, Settle
    <3>. QED BY <1>1, <2>1, <2>3, <3>4, <3>5, <3>6 DEF Aside, server, AfterDispatch, Dispatching
  <2>. QED BY <2>2, <2>3
<1>. QED BY <1>2, <1>3, <1>4

LEMMA EveryStep ==
  ASSUME CallsInv, LostInv, Shape, AwaitedInv, WaitInv, [OrdersNext]_allVars
  PROVE  [Next]_vars \/ Aside
<1>1. CASE Application \/ UNCHANGED allVars
  BY <1>1 DEF PlaceOrder, CancelOrderFuture, Application, AssignId, GetOpenOrders,
              CancelOpenOrders, allVars
<1>2. CASE RequestStep
  BY <1>2 DEF RequestStep, Next
<1>3. CASE HandlersReturn \/ HandlerRaises
  <2>1. /\ ~Idle /\ Dispatching /\ subject[1] \in OrderIds
        /\ UNCHANGED <<futures, pending_execs, server, writer>>
    BY <1>3, SubjectFacts DEF HandlersReturn, HandlerRaises, WaitInv, Dispatching
  <2>2. loop' = "raised" \/ loop' = AfterDispatch \/ Finishing(subject[1], AfterDispatch)
    BY <1>3 DEF HandlersReturn, HandlerRaises
  <2>. QED BY <2>1, <2>2, FinishMisfires, OrderMessageAside
<1>4. ASSUME NEW id \in OrderIds, OrderStatus(id) PROVE Aside
  BY <1>4, OrderMessageAside DEF OrderStatus
<1>5. ASSUME NEW id \in OrderIds, NEW o \in Order, NEW unsupported \in BOOLEAN,
             OpenOrder(id, o, unsupported)
      PROVE  Aside
  <2>1. /\ UNCHANGED <<futures, pending_execs, server, writer>> /\ Dispatching
        /\ loop' = "raised" \/ Finishing(id, loop)
    BY <1>5 DEF OpenOrder
  <2>. QED BY <2>1, FinishMisfires, OrderMessageAside
<1>6. ASSUME NEW n \in GivenIds, NextValidId(n) PROVE Aside
  BY <1>6, OrderMessageAside DEF NextValidId
<1>7. CASE OpenOrderEnd
  BY <1>7, OrderMessageAside DEF OpenOrderEnd, ListingEnded, GivenUp
<1>8. CASE AnyErrMsg
  BY <1>8, ErrorSteps DEF AnyErrMsg
<1>. QED BY <1>1, <1>2, <1>3, <1>4, <1>5, <1>6, <1>7, <1>8
            DEF OrdersNext, AStatus, AnOpenOrder

LEMMA AsideKeeps == ASSUME CallsInv, Aside PROVE CallsInv'
<1>. USE NoneNotId, NoneNotKind, IdsNat
<1>1. /\ pending_responses' \in [Ids -> Future \cup {None}]
      /\ \A i \in Ids : \/ pending_responses'[i] = pending_responses[i]
                        \/ /\ pending_responses'[i] = None /\ pending_responses[i] \in Future
                           /\ state[pending_responses[i]] = "orphaned"
      /\ value' \in [Future -> 0..MaxRows]
      /\ callback' \in [Future -> {"none", "registered", "scheduled", "run"}]
      /\ \A f \in Future : state[f] # "orphaned" => value'[f] = value[f]
  <2>1. CASE UNCHANGED <<pending_responses, value, callback>>
    BY <2>1 DEF CallsInv, TypeOK
  <2>2. ASSUME NEW i \in Ids, Disowned(i)
        PROVE  <1>1!:
    <3>. DEFINE f == pending_responses[i]
    <3>1. /\ f \in Future /\ state[f] = "orphaned"
          /\ pending_responses' = [pending_responses EXCEPT ![i] = None]
          /\ value' = [value EXCEPT ![f] = 0]
          /\ callback' = [callback EXCEPT ![f] = IF @ = "registered" THEN "scheduled" ELSE @]
      BY <2>2 DEF Disowned, CallsInv, TypeOK
    <3>. HIDE DEF f
    <3>2. /\ pending_responses' \in [Ids -> Future \cup {None}]
          /\ \A j \in Ids \ {i} : pending_responses'[j] = pending_responses[j]
          /\ pending_responses'[i] = None
      BY <3>1 DEF CallsInv, TypeOK
    <3>3. /\ value' \in [Future -> 0..MaxRows]
          /\ callback' \in [Future -> {"none", "registered", "scheduled", "run"}]
          /\ \A g \in Future : state[g] # "orphaned" => value'[g] = value[g]
      BY <3>1 DEF CallsInv, TypeOK
    <3>. QED BY <3>1, <3>2, <3>3 DEF f
  <2>. QED BY <2>1, <2>2 DEF Aside
<1>2. UNCHANGED <<next_request_id, rid, state, pending_execs, server, writer>>
      /\ loop # "raised" /\ loop' \in LoopStates
  BY DEF Aside, Dispatching, AfterDispatch, LoopStates
<1>3. TypeOK'
  BY <1>1, <1>2 DEF CallsInv, TypeOK, server
<1>4. IdsInv' /\ TableInv'
  BY <1>1, <1>2 DEF CallsInv, IdsInv, TableInv, server
<1>5. ServerInv'
  BY <1>2 DEF CallsInv, ServerInv, server
<1>6. Routing' /\ NoOneLeftWaiting'
  <2>1. \A f \in Future : state[f] = "pending" => rid[f] \in Ids
    BY DEF CallsInv, TypeOK, IdsInv
  <2>. QED BY <1>1, <1>2, <2>1 DEF CallsInv, Routing, NoOneLeftWaiting, Replied, server
<1>7. ResultInv' /\ ResultMatchesRows'
  BY <1>1, <1>2 DEF CallsInv, ResultInv, ResultMatchesRows, server
<1>. QED BY <1>3, <1>4, <1>5, <1>6, <1>7 DEF CallsInv

LEMMA LostStays ==
  ASSUME CallsInv, LostInv, [Next]_vars \/ Aside
  PROVE  LostInv'
<1>. USE NoneNotId, NoneNotKind, IdsNat DEF LostInv
<1>0. TypeOK /\ IdsInv /\ TableInv /\ ServerInv
  BY DEF CallsInv
<1>1. ASSUME NEW f \in Future, NEW k \in Kinds, Issue(f, k) PROVE LostInv'
  <2>1. /\ next_request_id \in Ids /\ rid' = [rid EXCEPT ![f] = next_request_id]
        /\ state' = [state EXCEPT ![f] = "pending"] /\ writer # "closed"
        /\ request' = IF writer = "open" THEN [request EXCEPT ![next_request_id] = k] ELSE request
        /\ UNCHANGED <<writer, loop>>
    BY <1>0, <1>1 DEF Issue, MakeFuture, MakeRequestId
  <2>2. ASSUME Dispatching PROVE writer = "open"
    BY <1>0, <2>1, <2>2 DEF TypeOK
  <2>3. ASSUME Dispatching, NEW g \in Future, g # f, state[g] \in {"pending", "cancelled"}
        PROVE  rid[g] \in Ids /\ request'[rid[g]] # None
    BY <1>0, <2>1, <2>2, <2>3 DEF TypeOK, IdsInv
  <2>4. Dispatching => request'[next_request_id] # None
    BY <1>0, <2>1, <2>2 DEF TypeOK
  <2>. QED BY <1>0, <2>1, <2>3, <2>4 DEF TypeOK, Dispatching
<1>2. ASSUME NEW f \in Future, NEW k \in Kinds, Raise(f, k) PROVE LostInv'
  BY <1>0, <1>2 DEF Raise, MakeFuture, server, TypeOK, Dispatching
<1>3. ASSUME NEW f \in Future, Cancel(f) PROVE LostInv'
  BY <1>0, <1>3 DEF Cancel, Settle, server, TypeOK, Dispatching
<1>4. ASSUME NEW f \in Future, RunCallback(f) PROVE LostInv'
  BY <1>0, <1>4 DEF RunCallback, Dispatching
<1>5. ASSUME NEW id \in Ids, Closing(id) \/ Row(id) \/ ErrMsg(id) \/ WarningMsg(id) PROVE LostInv'
  <2>1. Dispatching /\ UNCHANGED <<rid, request, writer>>
    BY <1>5 DEF Closing, Row, Answer, ExecutionData, ExecutionDataEnd, ContractData,
                ContractDataEnd, ErrMsg, WarningMsg, futures, server
  <2>2. \A f \in Future : state'[f] \in {"pending", "cancelled"} => state'[f] = state[f]
    BY <1>0, <1>5 DEF Closing, Row, Answer, ExecutionData, ExecutionDataEnd, ContractData,
                      ContractDataEnd, ErrMsg, WarningMsg, ResolveFuture, FailFuture, Settle,
                      Unsettled, futures, TypeOK
  <2>. QED BY <2>1, <2>2
<1>6. CASE Disconnect \/ ConnectionLost \/ UNCHANGED vars \/ Aside
  BY <1>6 DEF Disconnect, ConnectionLost, Aside, futures, server, vars, Dispatching, AfterDispatch
<1>. QED BY <1>1, <1>2, <1>3, <1>4, <1>5, <1>6 DEF Next, Calls

\* What Protocol is handed is an error about a request, or one about an order
\* that crossed over; and an error about a request that it is not handed
\* crossed the other way.
ErrsInv ==
    /\ \A i \in errs : i \in rejected \/ <<i, "order">> \in crossed
    /\ \A i \in rejected : i \in errs \/ <<i, "request">> \in crossed

LEMMA ErrsStay ==
  ASSUME ErrsInv, [OrdersNext]_allVars
  PROVE  ErrsInv'
<1>1. CASE ~(UNCHANGED handling /\ AnyErrMsg)
  <2>1. CASE UNCHANGED handling /\ RequestStep
    <3>1. errs' = errs /\ rejected' = rejected /\ crossed' = crossed
      BY <2>1 DEF RequestStep, orderVars, oserver, Calls, Issue, Raise, Cancel, RunCallback,
                  Closing, Row, Answer, ExecutionDataEnd, ContractDataEnd, ExecutionData,
                  ContractData, Disconnect, ConnectionLost, server
    <3>. QED BY <3>1 DEF ErrsInv
  <2>2. CASE Application
    <3>1. errs' = errs /\ rejected' = rejected /\ crossed' = crossed
      BY <2>2 DEF Application, PlaceOrder, CancelOrderFuture, AssignId, GetOpenOrders,
                  CancelOpenOrders, oserver, vars, server
    <3>. QED BY <3>1 DEF ErrsInv
  <2>3. CASE \/ HandlersReturn \/ HandlerRaises \/ AStatus \/ AnOpenOrder \/ OpenOrderEnd
             \/ (\E n \in GivenIds : NextValidId(n)) \/ UNCHANGED allVars
    <3>1. errs' = errs /\ rejected' = rejected /\ crossed' = crossed
      BY <2>3 DEF HandlersReturn, HandlerRaises, AStatus, OrderStatus, AnOpenOrder, OpenOrder,
                  Report, OpenOrderEnd, NextValidId, allVars, orderVars, oserver, vars, server
    <3>. QED BY <3>1 DEF ErrsInv
  <2>. QED BY <1>1, <2>1, <2>2, <2>3 DEF OrdersNext
<1>2. ASSUME NEW id \in Ids \cup OrderIds, NEW code \in {"error", "warning"},
             NEW about \in {"order", "request"}, HandleErrMsg(id, code, about)
      PROVE  ErrsInv'
  <2>1. /\ about = "request" => request[id] # None
        /\ rejected' = IF about = "request" /\ code = "error" THEN rejected \cup {id} ELSE rejected
        /\ crossed' = IF code = "error" /\ Crosses(id, about)
                      THEN crossed \cup {<<id, about>>} ELSE crossed
    BY <1>2 DEF HandleErrMsg
  <2>2. CASE OrderAwaited(id)
    <3>1. errs' = errs /\ (Crosses(id, about) <=> about = "request")
      BY <1>2, <2>2 DEF HandleErrMsg, Crosses
    <3>. QED BY <2>1, <3>1 DEF ErrsInv
  <2>3. CASE ~OrderAwaited(id)
    <3>1. errs' = IF /\ code = "error" /\ (about = "request" \/ Expecting(id))
                     /\ request[id] # None
                  THEN errs \cup {id} ELSE errs
      BY <1>2, <2>3 DEF HandleErrMsg, SuperErrMsg
    <3>2. Crosses(id, about) <=> about = "order" /\ Expecting(id)
      BY <2>3 DEF Crosses
    <3>. QED BY <2>1, <3>1, <3>2 DEF ErrsInv
  <2>. QED BY <2>2, <2>3
<1>. QED BY <1>1, <1>2 DEF AnyErrMsg

\* What can have killed the loop, in the terms of what Protocol was handed.
LoopCause == MisfireCause \/ (loop = "misfired" /\ GivenUp)

LEMMA CausesStay ==
  ASSUME CallsInv, Shape, LoopCause, [OrdersNext]_allVars, [Next]_vars \/ Aside
  PROVE  LoopCause'
<1>1. CASE Aside
  <2>1. loop' = "misfired" => GivenUp
    BY <1>1 DEF Aside
  <2>. QED BY <2>1, GivenUpStays DEF LoopCause, MisfireCause
<1>2. CASE [Next]_vars
  BY <1>2, CallsKeep, GivenUpStays DEF LoopCause, MisfireCause
<1>. QED BY <1>1, <1>2

BesideInv ==
    /\ Shape /\ AwaitedInv /\ WaitInv /\ RestShape
    /\ CallsInv /\ LostInv /\ ErrsInv /\ LoopCause

LEMMA BesideStays == BesideInv /\ [OrdersNext]_allVars => BesideInv'
<1>. SUFFICES ASSUME BesideInv, [OrdersNext]_allVars PROVE BesideInv'
  OBVIOUS
<1>1. Shape' /\ AwaitedInv' /\ WaitInv' /\ RestShape'
  BY ShapeStays, AwaitedKeep, WaitKeeps, RestStays DEF BesideInv
<1>2. [Next]_vars \/ Aside
  BY EveryStep DEF BesideInv
<1>3. CallsInv' /\ LostInv'
  BY <1>2, CallsKeep, AsideKeeps, LostStays DEF BesideInv
<1>4. ErrsInv' /\ LoopCause'
  BY <1>2, ErrsStay, CausesStay DEF BesideInv
<1>. QED BY <1>1, <1>3, <1>4 DEF BesideInv

LEMMA BesideAlways == OrdersSpec => []BesideInv
<1>1. OrdersInit => BesideInv
  <2>. SUFFICES ASSUME OrdersInit PROVE BesideInv
    OBVIOUS
  <2>1. Shape /\ AwaitedInv
    BY OrdersInitInv
  <2>2. WaitInv /\ ErrsInv /\ LoopCause /\ LostInv
    BY DEF OrdersInit, Init, WaitInv, ErrsInv, LoopCause, MisfireCause, LostInv, Idle
  <2>3. RestShape
    BY OrderAssumption DEF OrdersInit, RestShape
  <2>4. CallsInv
    BY InitIInv DEF OrdersInit, IInv
  <2>. QED BY <2>1, <2>2, <2>3, <2>4 DEF BesideInv
<1>. QED BY <1>1, BesideStays, PTL DEF OrdersSpec

\* Orders and requests side by side keep the types of both, whatever ids they
\* share.
THEOREM OrdersTypeCorrect == OrdersSpec => []OrdersTypeOK
<1>1. BesideInv => OrdersTypeOK
  BY DEF BesideInv, Shape, OrderShape, FutureShape, SubjectShape, RestShape, CallsInv, OrdersTypeOK
<1>. QED BY <1>1, BesideAlways, PTL

\* A future already done kills the loop only where somebody gave up: a request
\* whose number an error then had, an order or the listing of orders.
THEOREM OnlyTheGivenUpMisfire == OrdersSpec => []OrdersMisfireCause
<1>1. BesideInv => OrdersMisfireCause
  <2>. SUFFICES ASSUME BesideInv, loop = "misfired"
                PROVE  \/ \E f \in Future : /\ state[f] = "cancelled"
                                            /\ rid[f] \in rejected \/ <<rid[f], "order">> \in crossed
                       \/ GivenUp
    BY DEF OrdersMisfireCause, GivenUp
  <2>. QED BY DEF BesideInv, LoopCause, MisfireCause, ErrsInv
<1>. QED BY <1>1, BesideAlways, PTL

\* The mixin that takes ERR_MSG first takes from the calls of Requests only the
\* errors that have the number of an order waiting, and hands them only the ones
\* of orders that have the number of a call: none is left waiting otherwise, and
\* results hold the rows that were sent.
THEOREM RequestsBesideOrders == OrdersSpec => [](CallsBesideOrders /\ ResultMatchesRows)
<1>1. BesideInv => CallsBesideOrders
  <2>. SUFFICES ASSUME BesideInv, NEW f \in Future
                PROVE  /\ state[f] = "exception" => rid[f] \in rejected \/ <<rid[f], "order">> \in crossed
                       /\ state[f] = "pending" /\ loop # "raised" =>
                             /\ rid[f] \notin final
                             /\ rid[f] \in rejected => <<rid[f], "request">> \in crossed
    BY DEF CallsBesideOrders
  <2>1. state[f] = "exception" => rid[f] \in errs
    BY DEF BesideInv, CallsInv, Routing
  <2>2. state[f] = "pending" /\ loop # "raised" => rid[f] \notin final \cup errs
    BY DEF BesideInv, CallsInv, NoOneLeftWaiting, Replied
  <2>. QED BY <2>1, <2>2 DEF BesideInv, ErrsInv
<1>2. BesideInv => ResultMatchesRows
  BY DEF BesideInv, CallsInv
<1>. QED BY <1>1, <1>2, BesideAlways, PTL

\* A message on an order is no reply to a call: it changes nothing of one, and
\* may end the loop.
LEMMA AsideRefines == ASSUME Aside PROVE [R!Next]_(R!vars)
<1>1. Outcome' = Outcome /\ Decided' = Decided
  BY DEF Aside, server, Outcome, Decided, Replied
<1>2. Delivering' => Delivering
  BY DEF Aside, Dispatching, Delivering
<1>. QED BY <1>1, <1>2, QuietStep

\* The promise of Replies is kept for calls made beside orders too, though they
\* share the loop, its end and the numbers of ERR_MSG, when a reply is what
\* Protocol is handed: each call is still decided once, for good.
THEOREM PromiseKeptBesideOrders == OrdersSpec => KeepsPromise
<1>1. OrdersInit => R!Init
  BY InitRefines DEF OrdersInit
<1>2. BesideInv /\ BesideInv' /\ [OrdersNext]_allVars => [R!Next]_(R!vars)
  <2>. SUFFICES ASSUME BesideInv, BesideInv', [OrdersNext]_allVars PROVE [R!Next]_(R!vars)
    OBVIOUS
  <2>1. CallsInv /\ CallsInv'
    BY DEF BesideInv
  <2>2. [Next]_vars \/ Aside
    BY EveryStep DEF BesideInv
  <2>. QED BY <2>1, <2>2, NextRefines, AsideRefines
<1>. QED BY <1>1, <1>2, BesideAlways, PTL DEF OrdersSpec, R!Spec, KeepsPromise
=============================================================================
