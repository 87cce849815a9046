------------------------------ MODULE MCOrders -------------------------------
(* Orders for TLC: order objects and futures are interchangeable, and the    *)
(* list of open orders is asked for before the request is, never beside it.  *)
EXTENDS Orders, TLC

Symmetry == Permutations(Future) \cup Permutations(Order) \cup Permutations(OFuture)

ListingApart ==
    \/ listings = 0 /\ open_orders_future = "none"
    \/ \A f \in Future : state[f] = "unused"
=============================================================================
