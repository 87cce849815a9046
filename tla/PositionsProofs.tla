--------------------------- MODULE PositionsProofs ---------------------------
(* What the run of Positions shows on two handlers and two connections, for  *)
(* any handlers, subscriptions and connections: who waits in get_positions,  *)
(* and when positions are requested.  Then the same of CurrentTime, for any  *)
(* calls: which future an answer finds.                                      *)
EXTENDS Positions, CurrentTime, SequenceTheorems, TLAPS

\* An empty list is no list left over, and only the current future can be pending.
HeldOverIsHandlers == held_over => handlers # {}
PendingIsCurrent == \A f \in Future : state[f] = "pending" => f = current

\* While the current future is pending and handlers share its stream, the end of
\* the listing is to come, whether or not a caller waits.
ListingToCome ==
    conn = "up" /\ state[current] = "pending" /\ handlers # {} /\ ~held_over => EndToCome

IInv ==
    /\ TypeOK /\ HeldOverIsHandlers /\ PendingIsCurrent
    /\ StreamMatches /\ DummyPaired /\ ListingToCome

USE DummyAssumption, BoundsAssumption
DEF DummyAssumption, BoundsAssumption, Future

-----------------------------------------------------------------------------
\* The last request sent, and the ends in flight.

LEMMA Sent ==
    ASSUME NEW s \in Seq({"req", "cancel"}), NEW m \in {"req", "cancel"}
    PROVE  /\ s \o <<m>> \in Seq({"req", "cancel"}) /\ Append(s, m) = s \o <<m>>
           /\ s \o <<m>> # <<>> /\ Last(s \o <<m>>) = m
<1>1. <<m>> \in Seq({"req", "cancel"}) /\ Len(<<m>>) = 1
  OBVIOUS
<1>2. s \o <<m>> \in Seq({"req", "cancel"}) /\ Len(s \o <<m>>) = Len(s) + 1
      /\ (s \o <<m>>)[Len(s) + 1] = m
  BY <1>1, ConcatProperties, LenProperties
<1>3. Append(s, m) = s \o <<m>>
  BY AppendIsConcat
<1>4. Len(s \o <<m>>) # 0 /\ Last(s \o <<m>>) = m
  BY <1>2, LenProperties DEF Last
<1>5. s \o <<m>> # <<>>
  BY <1>4, EmptySeq
<1>. QED BY <1>2, <1>3, <1>4, <1>5

LEMMA ReadFirst ==
    ASSUME NEW s \in Seq({"req", "cancel"}), s # <<>>
    PROVE  /\ Head(s) \in {"req", "cancel"} /\ Tail(s) \in Seq({"req", "cancel"})
           /\ Tail(s) = <<>> => Last(s) = Head(s)
           /\ Tail(s) # <<>> => Last(Tail(s)) = Last(s)
<1>1. Head(s) \in {"req", "cancel"} /\ Tail(s) \in Seq({"req", "cancel"})
      /\ Len(Tail(s)) = Len(s) - 1 /\ Len(s) \in Nat \ {0}
  BY HeadTailProperties, LenProperties, EmptySeq
<1>2. Tail(s) = <<>> => Last(s) = Head(s)
  <2>1. Tail(s) = <<>> <=> Len(Tail(s)) = 0
    BY <1>1, EmptySeq
  <2>2. Len(s) = 1 => s[Len(s)] = Head(s)
    BY <1>1, HeadTailProperties
  <2>. QED BY <1>1, <2>1, <2>2 DEF Last
<1>3. Tail(s) # <<>> => Last(Tail(s)) = Last(s)
  <2>. SUFFICES ASSUME Tail(s) # <<>> PROVE Tail(s)[Len(Tail(s))] = s[Len(s)]
    BY DEF Last
  <2>1. Len(Tail(s)) \in 1..Len(Tail(s))
    BY <1>1, EmptySeq, LenProperties
  <2>. QED BY <1>1, <2>1, HeadTailProperties
<1>. QED BY <1>1, <1>2, <1>3

LEMMA Received ==
    ASSUME NEW s \in Seq({"row", "end"}), s # <<>>
    PROVE  /\ Tail(s) \in Seq({"row", "end"})
           /\ Head(s) = "row" => ("end" \in ToSet(s) => "end" \in ToSet(Tail(s)))
<1>1. Tail(s) \in Seq({"row", "end"}) /\ Len(Tail(s)) = Len(s) - 1 /\ Len(s) \in Nat \ {0}
      /\ \A i \in 1..Len(Tail(s)) : Tail(s)[i] = s[i + 1]
  BY HeadTailProperties, LenProperties, EmptySeq
<1>2. ASSUME Head(s) = "row", NEW i \in DOMAIN s, s[i] = "end" PROVE "end" \in ToSet(Tail(s))
  <2>1. i \in 2..Len(s)
    BY <1>1, <1>2, LenProperties
  <2>2. i - 1 \in 1..Len(Tail(s)) /\ Tail(s)[i - 1] = "end"
    BY <1>1, <1>2, <2>1
  <2>. QED BY <1>1, <2>2, LenProperties DEF ToSet
<1>. QED BY <1>1, <1>2 DEF ToSet

LEMMA Added ==
    ASSUME NEW s \in Seq({"row", "end"}), NEW m \in {"row", "end"}
    PROVE  /\ Append(s, m) \in Seq({"row", "end"})
           /\ "end" \in ToSet(s) => "end" \in ToSet(Append(s, m))
           /\ "end" \in ToSet(Append(s, "end"))
<1>1. ASSUME NEW k \in {"row", "end"}
      PROVE  /\ Append(s, k) \in Seq({"row", "end"}) /\ Len(Append(s, k)) = Len(s) + 1
             /\ \A i \in 1..Len(s) : Append(s, k)[i] = s[i]
             /\ Append(s, k)[Len(s) + 1] = k
             /\ DOMAIN Append(s, k) = 1..(Len(s) + 1)
  BY AppendProperties, LenProperties
<1>2. DOMAIN s = 1..Len(s) /\ Len(s) \in Nat
  BY LenProperties
<1>. QED BY <1>1, <1>2 DEF ToSet

-----------------------------------------------------------------------------
\* The list changes, and what is sent goes with it.

\* A purge that leaves the dummy alone, or whose callback has been taken off.
LEMMA PurgeKeeps ==
    ASSUME IInv, NEW rest, rest \subseteq handlers, handlers # {},
           ListIs(rest), gone' \subseteq rest \ {Dummy}, UNCHANGED <<current, state, waited>>,
           removals' \subseteq removals, removals' # {} => Dummy \in rest,
           IF rest = {} /\ CanSend THEN Send(<<"cancel">>) ELSE UNCHANGED link
    PROVE  IInv'
<1>1. TypeOK' /\ HeldOverIsHandlers' /\ PendingIsCurrent'
  BY Sent DEF IInv, TypeOK, HeldOverIsHandlers, PendingIsCurrent, ListIs, Send, link
<1>2. DummyPaired'
  BY DEF IInv, DummyPaired, ListIs
<1>3. CASE rest = {} /\ conn = "up"
  <2>1. toServer' # <<>> /\ Last(toServer') = "cancel"
    BY <1>3, Sent DEF CanSend, Send, IInv, TypeOK
  <2>. QED BY <1>1, <1>2, <1>3, <2>1
           DEF IInv, StreamMatches, ListingToCome, Requested, ListIs
<1>4. CASE rest = {} /\ conn # "up"
  <2>1. conn' # "up"
    BY <1>4 DEF Send, link
  <2>. QED BY <1>1, <1>2, <2>1 DEF IInv, StreamMatches, ListingToCome
<1>5. CASE rest # {}
  <2>1. UNCHANGED link /\ handlers' = rest /\ (held_over' <=> held_over)
    BY <1>5 DEF ListIs, IInv, TypeOK
  <2>. QED BY <1>1, <1>2, <1>5, <2>1
           DEF IInv, StreamMatches, ListingToCome, Requested, EndToCome, link
<1>. QED BY <1>3, <1>4, <1>5

\* A new future, with the first handler of the list.
LEMMA SubscribeKeeps ==
    ASSUME IInv, NewFuture, NEW h \in Handler \cup {Dummy},
           handlers' = {h}, held_over' = FALSE, gone' = {},
           waited' \subseteq waited \cup {current'}, waited \subseteq waited',
           \/ removals' = removals /\ removals = {}
           \/ removals' = {current'} /\ h = Dummy /\ current' \in waited',
           \/ UNCHANGED link /\ ~CanSend
           \/ /\ CanSend
              /\ toServer' = IF conn = "up" THEN toServer \o <<"req">> ELSE toServer
              /\ UNCHANGED <<conn, connects, toClient, serving>>
           \/ /\ CanSend
              /\ toServer' = IF conn = "up" THEN (toServer \o <<"cancel">>) \o <<"req">> ELSE toServer
              /\ UNCHANGED <<conn, connects, toClient, serving>>
    PROVE  IInv'
<1>1. /\ current' = current + 1 /\ current' \in Future
      /\ state' \in [Future -> {"unused", "pending", "result", "cancelled"}]
      /\ \A f \in Future : state'[f] = "pending" <=> f = current'
      /\ \A f \in Future : state'[f] = "unused" <=> f > current'
  BY DEF NewFuture, Ended, IInv, TypeOK, PendingIsCurrent
<1>2. /\ toServer' \in Seq({"req", "cancel"})
      /\ conn' = "up" => toServer' # <<>> /\ Last(toServer') = "req"
  <2>1. toServer \o <<"cancel">> \in Seq({"req", "cancel"})
    BY Sent DEF IInv, TypeOK
  <2>. QED BY <2>1, Sent DEF IInv, TypeOK, CanSend, link
<1>3. UNCHANGED <<conn, connects, toClient, serving>>
  BY DEF link
<1>4. TypeOK'
  <2>1. current \in Nat /\ waited \subseteq 0..current
    BY DEF IInv, TypeOK
  <2>2. waited' \subseteq 0..current'
    BY <1>1, <2>1
  <2>3. removals' \subseteq waited'
    OBVIOUS
  <2>. QED BY <1>1, <1>2, <1>3, <2>2, <2>3 DEF IInv, TypeOK
<1>5. HeldOverIsHandlers' /\ PendingIsCurrent' /\ DummyPaired'
  BY <1>1 DEF IInv, HeldOverIsHandlers, PendingIsCurrent, DummyPaired
<1>6. StreamMatches' /\ ListingToCome'
  BY <1>2 DEF StreamMatches, ListingToCome, Requested, EndToCome
<1>. QED BY <1>4, <1>5, <1>6 DEF IInv

-----------------------------------------------------------------------------
LEMMA InitIInv == Init => IInv
BY EmptySeq DEF Init, IInv, TypeOK, HeldOverIsHandlers, PendingIsCurrent, StreamMatches,
            DummyPaired, ListingToCome

LEMMA AddKeeps == ASSUME IInv, NEW h \in Handler, AddHandler(h) PROVE IInv'
<1>1. CASE handlers = {}
  <2>1. removals = {} /\ held_over' = FALSE /\ handlers' = {h} /\ gone' = {}
    BY <1>1 DEF AddHandler, ListIs, IInv, TypeOK, HeldOverIsHandlers, DummyPaired
  <2>. QED BY <1>1, <2>1, SubscribeKeeps DEF AddHandler, Subscribes, Send
<1>2. CASE handlers # {}
  <2>1. handlers' = handlers \cup {h} /\ (held_over' <=> held_over) /\ UNCHANGED <<gone, futures, link>>
    BY <1>2 DEF AddHandler, Subscribes, ListIs, IInv, TypeOK
  <2>. QED BY <1>2, <2>1
              DEF AddHandler, ListIs, futures, link, IInv, TypeOK, HeldOverIsHandlers,
           PendingIsCurrent, StreamMatches, DummyPaired, ListingToCome, Requested, EndToCome
<1>. QED BY <1>1, <1>2

LEMMA RemoveKeeps == ASSUME IInv, NEW h \in Handler, RemoveHandler(h) PROVE IInv'
<1>. DEFINE rest == handlers \ (gone \cup {h})
<1>1. rest \subseteq handlers /\ handlers # {} /\ (removals # {} => Dummy \in rest)
  BY DEF RemoveHandler, IInv, TypeOK, DummyPaired
<1>. QED BY <1>1, PurgeKeeps DEF RemoveHandler, Purge, Cancels, futures

LEMMA RemovalKeeps == ASSUME IInv, NEW f \in Future, RunRemoval(f) PROVE IInv'
<1>. DEFINE rest == handlers \ (gone \cup {Dummy})
<1>1. rest \subseteq handlers /\ handlers # {} /\ removals' = {}
  BY DEF RunRemoval, IInv, DummyPaired
<1>. QED BY <1>1, PurgeKeeps DEF RunRemoval, Purge, Cancels

LEMMA DropKeeps == ASSUME IInv, NEW h \in Handler, Drop(h) PROVE IInv'
BY DEF Drop, futures, link, IInv, TypeOK, HeldOverIsHandlers, PendingIsCurrent, StreamMatches,
       DummyPaired, ListingToCome, Requested, EndToCome

LEMMA OpenKeeps == ASSUME IInv, OpenPositions PROVE IInv'
<1>1. removals = {}
  BY DEF OpenPositions, IInv, TypeOK, DummyPaired
<1>2. removals' = {current'} /\ waited' = waited \cup {current'}
  BY <1>1 DEF OpenPositions, Watches
<1>3. CASE handlers = {}
  BY <1>2, <1>3, SubscribeKeeps DEF OpenPositions, Send
<1>4. CASE handlers # {}
  <2>1. toServer \o <<"cancel", "req">> = (toServer \o <<"cancel">>) \o <<"req">>
    <3>1. <<"cancel">> \in Seq({"req", "cancel"}) /\ <<"req">> \in Seq({"req", "cancel"})
          /\ <<"cancel", "req">> = <<"cancel">> \o <<"req">>
      OBVIOUS
    <3>. QED BY <3>1, ConcatAssociative DEF IInv, TypeOK
  <2>. QED BY <1>2, <1>4, <2>1, SubscribeKeeps DEF OpenPositions, Send
<1>. QED BY <1>3, <1>4

LEMMA OpenRaisesKeeps == ASSUME IInv, OpenRaises PROVE IInv'
<1>1. removals = {}
  BY DEF OpenRaises, IInv, TypeOK, DummyPaired
<1>2. CASE handlers = {}
  <2>1. held_over' = FALSE /\ handlers' = {Dummy}
    BY <1>2 DEF OpenRaises, ListIs, IInv, TypeOK, HeldOverIsHandlers
  <2>. QED BY <1>1, <1>2, <2>1, SubscribeKeeps DEF OpenRaises
<1>3. CASE handlers # {}
  BY <1>1, <1>3, PurgeKeeps DEF OpenRaises
<1>. QED BY <1>2, <1>3

LEMMA JoinKeeps == ASSUME IInv, JoinPositions PROVE IInv'
<1>1. /\ handlers' = handlers \ gone /\ handlers' # {} /\ gone' = {}
      /\ (held_over' <=> held_over) /\ handlers # {}
      /\ UNCHANGED <<current, state, removals, link>>
  BY DEF JoinPositions, ListIs
<1>2. TypeOK'
  BY <1>1 DEF JoinPositions, ListIs, link, IInv, TypeOK
<1>. QED BY <1>1, <1>2 DEF link, IInv, TypeOK, HeldOverIsHandlers, PendingIsCurrent,
            StreamMatches, DummyPaired, ListingToCome, Requested, EndToCome

LEMMA CancelKeeps == ASSUME IInv, NEW f \in Future, CancelCall(f) PROVE IInv'
BY DEF CancelCall, list, link, IInv, TypeOK, HeldOverIsHandlers, PendingIsCurrent,
       StreamMatches, DummyPaired, ListingToCome, Requested, EndToCome

LEMMA ServerKeeps == ASSUME IInv, ServerReads \/ ServerRow \/ ServerEnds PROVE IInv'
<1>1. CASE ServerReads
  <2>1. TypeOK'
    BY <1>1, ReadFirst DEF ServerReads, list, futures, IInv, TypeOK
  <2>2. (Requested' <=> Requested) /\ (EndToCome => EndToCome')
    BY <1>1, ReadFirst DEF ServerReads, Requested, EndToCome, IInv, TypeOK
  <2>. QED BY <1>1, <2>1, <2>2 DEF ServerReads, list, futures, IInv, HeldOverIsHandlers,
           PendingIsCurrent, StreamMatches, DummyPaired, ListingToCome
<1>2. CASE ServerRow \/ ServerEnds
  <2>1. TypeOK' /\ UNCHANGED <<list, futures, conn, toServer>>
    BY <1>2, Added DEF ServerRow, ServerEnds, list, futures, IInv, TypeOK
  <2>2. (Requested' <=> Requested) /\ (EndToCome => EndToCome')
    BY <1>2, Added DEF ServerRow, ServerEnds, Requested, EndToCome, IInv, TypeOK
  <2>. QED BY <2>1, <2>2 DEF list, futures, IInv, HeldOverIsHandlers, PendingIsCurrent,
           StreamMatches, DummyPaired, ListingToCome
<1>. QED BY <1>1, <1>2

LEMMA DataKeeps == ASSUME IInv, PositionData PROVE IInv'
<1>. DEFINE rest == handlers \ gone
<1>1. /\ toClient' = Tail(toClient) /\ toClient' \in Seq({"row", "end"})
      /\ "end" \in ToSet(toClient) => "end" \in ToSet(toClient')
  BY Received DEF PositionData, Taken, IInv, TypeOK
<1>2. /\ handlers' = rest /\ gone' = {} /\ (held_over' <=> held_over /\ rest # {})
      /\ conn' = (IF conn = "up" THEN "up" ELSE "down")
      /\ toServer' = IF handlers # {} /\ rest = {} /\ conn = "up" THEN toServer \o <<"cancel">> ELSE toServer
      /\ UNCHANGED <<current, state, waited, removals, connects, serving>>
  BY Sent DEF PositionData, Taken, ListIs, Cancels, futures, IInv, TypeOK
<1>3. TypeOK'
  BY <1>1, <1>2, Sent DEF IInv, TypeOK
<1>4. HeldOverIsHandlers' /\ PendingIsCurrent' /\ DummyPaired'
  BY <1>2 DEF IInv, TypeOK, HeldOverIsHandlers, PendingIsCurrent, DummyPaired
<1>5. CASE rest = {}
  <2>1. conn = "up" /\ handlers # {} => toServer' # <<>> /\ Last(toServer') = "cancel"
    BY <1>2, <1>5, Sent DEF IInv, TypeOK
  <2>2. conn = "up" => ~Requested'
    BY <1>2, <2>1 DEF IInv, StreamMatches, Requested
  <2>. QED BY <1>2, <1>3, <1>4, <1>5, <2>2 DEF IInv, StreamMatches, ListingToCome
<1>6. CASE rest # {}
  <2>1. (Requested' <=> Requested) /\ (EndToCome => EndToCome') /\ handlers # {}
    BY <1>1, <1>2, <1>6 DEF Requested, EndToCome
  <2>. QED BY <1>2, <1>3, <1>4, <1>6, <2>1 DEF IInv, StreamMatches, ListingToCome
<1>. QED BY <1>5, <1>6

LEMMA EndKeeps == ASSUME IInv, PositionEnd PROVE IInv'
<1>1. /\ toClient' \in Seq({"row", "end"})
      /\ conn' = (IF conn = "up" THEN "up" ELSE "down")
      /\ UNCHANGED <<list, current, waited, removals, toServer, connects, serving>>
  BY Received DEF PositionEnd, Taken, IInv, TypeOK
<1>2. /\ state' \in [Future -> {"unused", "pending", "result", "cancelled"}]
      /\ state'[current] # "pending"
      /\ \A f \in Future : f # current => state'[f] = state[f]
      /\ \A f \in Future : state'[f] = "unused" <=> state[f] = "unused"
  BY DEF PositionEnd, Ended, IInv, TypeOK
<1>3. TypeOK'
  BY <1>1, <1>2 DEF list, IInv, TypeOK
<1>. QED BY <1>1, <1>2, <1>3 DEF list, IInv, TypeOK, HeldOverIsHandlers, PendingIsCurrent,
            StreamMatches, DummyPaired, ListingToCome, Requested

LEMMA ConnectionKeeps == ASSUME IInv, ConnectionLost \/ Disconnect \/ Connect PROVE IInv'
<1>1. CASE ConnectionLost \/ Disconnect
  <2>1. conn' \in {"lost", "draining", "down"}
        /\ UNCHANGED <<list, futures, connects, toServer, toClient, serving>>
    BY <1>1 DEF ConnectionLost, Disconnect
  <2>2. TypeOK'
    BY <2>1 DEF list, futures, IInv, TypeOK
  <2>. QED BY <2>1, <2>2 DEF list, futures, IInv, HeldOverIsHandlers, PendingIsCurrent,
           StreamMatches, DummyPaired, ListingToCome
<1>2. CASE Connect
  <2>1. TypeOK'
    BY <1>2, EmptySeq DEF Connect, futures, IInv, TypeOK
  <2>. QED BY <1>2, <2>1 DEF Connect, futures, IInv, HeldOverIsHandlers, PendingIsCurrent,
           StreamMatches, DummyPaired, ListingToCome, Requested
<1>. QED BY <1>1, <1>2

LEMMA NextKeeps == IInv /\ [Next]_vars => IInv'
<1>. SUFFICES ASSUME IInv, [Next]_vars PROVE IInv'
  OBVIOUS
<1>1. CASE UNCHANGED vars
  BY <1>1 DEF vars, list, futures, link, IInv, TypeOK, HeldOverIsHandlers, PendingIsCurrent,
              StreamMatches, DummyPaired, ListingToCome, Requested, EndToCome
<1>. QED BY <1>1, AddKeeps, RemoveKeeps, RemovalKeeps, DropKeeps, OpenKeeps, OpenRaisesKeeps,
         JoinKeeps, CancelKeeps, ServerKeeps, DataKeeps, EndKeeps, ConnectionKeeps DEF Next

LEMMA Inductive == FairSpec => []IInv
BY InitIInv, NextKeeps, PTL DEF FairSpec, Spec

-----------------------------------------------------------------------------
\* Every variable keeps its type.
THEOREM TypeCorrect == FairSpec => []TypeOK
BY Inductive, PTL DEF IInv

\* Positions are requested exactly while the event has handlers of this connection.
THEOREM StreamFollowsHandlers == FairSpec => []StreamMatches
BY Inductive, PTL DEF IInv

\* Who waits in get_positions has the current future, and its end is to come.
THEOREM WaitersAreServed == FairSpec => []WaitersServed
<1>1. IInv => WaitersServed
  BY DEF IInv, TypeOK, PendingIsCurrent, ListingToCome, WaitersServed
<1>. QED BY <1>1, Inductive, PTL

\* The callback that removes the dummy finds it, and only one is ever out.
THEOREM DummiesArePaired == FairSpec => []DummyPaired
BY Inductive, PTL DEF IInv
-----------------------------------------------------------------------------
\* Who subscribes finds no handler, or only dead ones: no step but a caller's own
\* takes the wait from those who share a stream that is still listened to.
THEOREM SharersKeepWaiting == FairSpec => SharedFutureKept
<1>. DEFINE Kept(f) == state[f] = "pending" /\ state'[f] = "cancelled"
                       => CancelCall(f) \/ handlers \subseteq gone
<1>1. ASSUME IInv, [Next]_vars, NEW f \in waited, state[f] = "pending", state'[f] = "cancelled",
             ~(handlers \subseteq gone)
      PROVE  CancelCall(f)
  <2>1. f \in Future /\ state \in [Future -> {"unused", "pending", "result", "cancelled"}]
    BY <1>1 DEF IInv, TypeOK
  <2>2. \A g \in Future : CancelCall(g) => g = f
    BY <1>1, <2>1 DEF CancelCall
  <2>3. ~PositionEnd
    BY <1>1, <2>1 DEF PositionEnd, Ended, IInv, TypeOK
  <2>4. ~(OpenPositions \/ OpenRaises) /\ \A h \in Handler : ~(AddHandler(h) /\ handlers = {})
    BY <1>1 DEF OpenPositions, OpenRaises
  <2>5. \A h \in Handler : AddHandler(h) /\ handlers # {} => state' = state
    BY DEF AddHandler, Subscribes, futures
  <2>. QED BY <1>1, <2>2, <2>3, <2>4, <2>5
           DEF Next, RemoveHandler, Drop, JoinPositions, RunRemoval, ServerReads, ServerRow,
               ServerEnds, PositionData, ConnectionLost, Disconnect, Connect, futures, vars
<1>2. IInv /\ [Next]_vars => [\A f \in waited : Kept(f)]_vars
  BY <1>1
<1>. HIDE DEF Kept
<1>3. FairSpec => [][\A f \in waited : Kept(f)]_vars
  BY <1>2, Inductive, PTL DEF FairSpec, Spec
<1>. QED BY <1>3 DEF Kept, SharedFutureKept

-----------------------------------------------------------------------------
(* current_time, whose mixin keeps one future for all its calls as well: the *)
(* future that every answer is given to is the one of the request that is    *)
(* answered, for as long as calls are made one at a time and none is given   *)
(* up.                                                                       *)

\* A call that waits is the last one made.
LastCallWaits == undue \/ \A c \in Call : call_state[c] = "pending" => c = current_time_future

\* The server has the last call to answer, or none.
AskedIsCurrent ==
    undue \/ Len(asked) = 0 \/ /\ Len(asked) = 1 /\ asked[1] = current_time_future
                               /\ current_time_future \in Call /\ call_state[current_time_future] = "pending"

\* The last call, if it waits over a connection that works, has been received.
CurrentIsAsked ==
    undue \/ (current_time_future \in Call /\ call_state[current_time_future] = "pending" /\ writer = "open"
              => Len(asked) = 1 /\ asked[1] = current_time_future)

\* DueCallsRemembered alone says nothing of the order of the requests, nor of
\* which future an answer finds: these parts do.
TimeInv ==
    /\ TimeTypeOK /\ MisfireCause
    /\ LastCallWaits /\ AskedIsCurrent /\ CurrentIsAsked

LEMMA TimeInitKeeps == TimeInit => TimeInv
<1> SUFFICES ASSUME TimeInit PROVE TimeInv
  OBVIOUS
<1> USE CallsAssumption DEF TimeInit, Call, States
<1>1. asked \in Seq(Call) /\ Len(asked) = 0
  OBVIOUS
<1>2. undue \in BOOLEAN
  OBVIOUS
<1>3. \A c \in Call : call_state[c] # "pending"
  OBVIOUS
<1>4. call_state \in [0..MaxCalls -> States]
  OBVIOUS
<1>5. current_time_future \in 0..MaxCalls /\ calls \in 0..MaxCalls
  OBVIOUS
<1>6. TimeTypeOK
  BY <1>1, <1>2, <1>4, <1>5 DEF TimeTypeOK
<1>7. MisfireCause /\ LastCallWaits /\ AskedIsCurrent /\ CurrentIsAsked
  BY <1>1, <1>3 DEF MisfireCause, LastCallWaits, AskedIsCurrent, CurrentIsAsked
<1> QED BY <1>6, <1>7 DEF TimeInv

LEMMA TimeNextKeeps == TimeInv /\ [TimeNext]_time_vars => TimeInv'
<1> SUFFICES ASSUME TimeInv, [TimeNext]_time_vars PROVE TimeInv'
  OBVIOUS
<1> USE CallsAssumption
<1>1. ASSUME NEW c \in Call, CurrentTime(c) PROVE TimeInv'
  <2>1. asked' \in Seq(Call) /\ undue' \in BOOLEAN
    BY <1>1 DEF TimeInv, TimeTypeOK, CurrentTime
  <2>2. TimeTypeOK'
    BY <1>1, <2>1 DEF TimeInv, TimeTypeOK, CurrentTime, Replace, Call, States
  <2>3. ~undue' => /\ ~undue
                   /\ \A d \in Call : call_state[d] # "pending"
                   /\ Len(asked) = 0
    BY <1>1 DEF TimeInv, TimeTypeOK, CurrentTime, AskedIsCurrent
  <2>4. current_time_future' = c /\ MisfireCause' /\ LastCallWaits'
    BY <1>1, <2>3
       DEF TimeInv, TimeTypeOK, CurrentTime, Replace, MisfireCause, LastCallWaits, Call
  <2>5. AskedIsCurrent' /\ CurrentIsAsked'
    <3>1. \/ undue'
          \/ Len(asked') = 0 /\ writer # "open"
          \/ Len(asked') = 1 /\ asked'[1] = c /\ call_state'[c] = "pending"
      BY <1>1, <2>3 DEF TimeInv, TimeTypeOK, CurrentTime, Call
    <3>2. writer' = writer
      BY <1>1 DEF CurrentTime
    <3> QED BY <2>4, <3>1, <3>2 DEF AskedIsCurrent, CurrentIsAsked
  <2> QED BY <2>2, <2>4, <2>5 DEF TimeInv
<1>2. ASSUME NEW c \in Call, Cancel(c) PROVE TimeInv'
  BY <1>2 DEF TimeInv, TimeTypeOK, Cancel, MisfireCause, LastCallWaits, AskedIsCurrent,
              CurrentIsAsked, Call, States
<1>3. CASE HandleCurrentTime
  <2>1. TimeTypeOK'
    BY <1>3 DEF TimeInv, TimeTypeOK, HandleCurrentTime, States
  <2>2. ~undue => /\ current_time_future \in Call /\ call_state[current_time_future] = "pending"
                  /\ Len(asked') = 0
    <3>1. Len(asked) # 0 /\ Len(asked') = Len(asked) - 1
      BY <1>3 DEF TimeInv, TimeTypeOK, HandleCurrentTime
    <3> QED BY <3>1 DEF TimeInv, AskedIsCurrent
  <2>3. MisfireCause'
    BY <1>3, <2>2 DEF TimeInv, MisfireCause, HandleCurrentTime
  <2>4. LastCallWaits' /\ AskedIsCurrent' /\ CurrentIsAsked'
    BY <1>3, <2>2 DEF TimeInv, TimeTypeOK, HandleCurrentTime, LastCallWaits, AskedIsCurrent,
                      CurrentIsAsked, Call
  <2> QED BY <2>1, <2>3, <2>4 DEF TimeInv
<1>4. CASE TimeDisconnect
  BY <1>4 DEF TimeInv, TimeTypeOK, TimeDisconnect, MisfireCause, LastCallWaits, AskedIsCurrent,
              CurrentIsAsked
<1>5. CASE TimeConnectionLost
  BY <1>5
     DEF TimeInv, TimeTypeOK, TimeConnectionLost, MisfireCause, LastCallWaits, AskedIsCurrent,
              CurrentIsAsked
<1>6. CASE UNCHANGED time_vars
  BY <1>6
     DEF TimeInv, TimeTypeOK, MisfireCause, LastCallWaits, AskedIsCurrent, CurrentIsAsked,
         time_vars
<1> QED BY <1>1, <1>2, <1>3, <1>4, <1>5, <1>6 DEF TimeNext

LEMMA TimeInvAlways == TimeSpec => []TimeInv
  BY TimeInitKeeps, TimeNextKeeps, PTL DEF TimeSpec

\* The state of the mixin, its futures and the loop is always of its type.
THEOREM TimeTypeCorrect == TimeSpec => []TimeTypeOK
<1>1. TimeInv => TimeTypeOK
  BY DEF TimeInv
<1> QED BY <1>1, TimeInvAlways, PTL

\* CURRENT_TIME ends the message loop only where a call was given up, or made
\* while another one waited.
THEOREM MisfiresOnlyWhenUndue == TimeSpec => []MisfireCause
<1>1. TimeInv => MisfireCause
  BY DEF TimeInv
<1> QED BY <1>1, TimeInvAlways, PTL

\* Whoever waits for the time has an answer still to come, as long as calls are
\* made one at a time and none is given up.
THEOREM DueCallsAreRemembered == TimeSpec => []DueCallsRemembered
<1>1. TimeInv => DueCallsRemembered
  <2> SUFFICES ASSUME TimeInv, ~undue, NEW c \in Call, call_state[c] = "pending", writer = "open"
               PROVE  \E i \in 1..Len(asked) : asked[i] = c
    BY DEF DueCallsRemembered, NobodyForgotten
  <2>1. Len(asked) = 1 /\ asked[1] = c
    BY DEF TimeInv, LastCallWaits, CurrentIsAsked
  <2> QED BY <2>1
<1> QED BY <1>1, TimeInvAlways, PTL
=============================================================================
