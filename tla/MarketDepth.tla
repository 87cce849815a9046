----------------------------- MODULE MarketDepth -----------------------------
(* One side of the order book of an instrument: handle_market_depth in       *)
(* ib_async/instrument.py, with the subscription of functionality/           *)
(* market_depth.py as far as it decides which messages get there.  The       *)
(* server keeps a book of its own for each subscription and sends what       *)
(* changes in it, starting from an empty one.  Nothing in the client empties *)
(* its lists, so a later subscription starts on what is left in them.        *)
(* SubscriptionsProofs extends this module and Subscriptions: no name is in  *)
(* both.                                                                     *)
EXTENDS Naturals, Sequences, SequencesExt

CONSTANTS
    Entry,     \* MarketDepthEntry
    MaxRows,   \* bound: market_depth_rows, which the server keeps to
    MaxSubs,   \* bound: how often the instrument is subscribed to
    MaxWire    \* bound: messages in flight

ASSUME BoundsAssumption == MaxRows \in Nat /\ MaxSubs \in Nat /\ MaxWire \in Nat

VARIABLES
    rows,          \* market_depth_bid or market_depth_ask
    depth_id,      \* _market_depth_request_id, 0 for None; also the key in the table
    subs,          \* how often it was asked for; a new id is the number of that
    toServer,      \* requests in flight: an id, or 0 for a cancellation
    serving,       \* server: the id it serves, 0 for none
    book,          \* server: its book for that
    wire,          \* messages in flight, oldest first
    message_loop,  \* the task running _message_loop
    left           \* history: what the rows will be when the stream's first message comes

depth_client == <<rows, depth_id, subs, message_loop>>
server == <<serving, book, left>>
depth_vars == <<depth_client, toServer, server, wire>>

\* A message: an operation on the row at a position, counted from 1.
Op == [id : 1..MaxSubs, op : {"insert", "update", "delete"}, at : 1..MaxRows, entry : Entry]

DepthTypeOK ==
    /\ rows \in Seq(Entry) /\ left \in Seq(Entry)
    /\ book \in Seq(Entry) /\ Len(book) <= MaxRows
    /\ depth_id \in 0..subs /\ subs \in 0..MaxSubs /\ serving \in 0..subs
    /\ toServer \in Seq(0..subs)
    /\ wire \in Seq(Op) /\ Len(wire) <= MaxWire
    /\ message_loop \in {"running", "IndexError", "AttributeError"}

DepthInit ==
    /\ rows = <<>> /\ book = <<>> /\ left = <<>>
    /\ depth_id = 0 /\ subs = 0 /\ serving = 0
    /\ toServer = <<>> /\ wire = <<>>
    /\ message_loop = "running"

-----------------------------------------------------------------------------
\* Assigning or deleting a row past the end is an IndexError; inserting is not.
InRange(s, m) == m.op = "insert" \/ m.at <= Len(s)

\* Mutant of Applied: the numbers of two operations are taken for each other.
AppliedSwapped(s, m) ==
    CASE m.op = "insert" -> InsertAt(s, IF m.at > Len(s) THEN Len(s) + 1 ELSE m.at, m.entry)
      [] m.op = "update" -> RemoveAt(s, m.at)
      [] m.op = "delete" -> ReplaceAt(s, m.at, m.entry)

\* Instrument.handle_market_depth; list.insert past the end appends.
Applied(s, m) ==
    CASE m.op = "insert" -> InsertAt(s, IF m.at > Len(s) THEN Len(s) + 1 ELSE m.at, m.entry)
      [] m.op = "update" -> ReplaceAt(s, m.at, m.entry)
      [] m.op = "delete" -> RemoveAt(s, m.at)

AllApplied(s, ms) == FoldLeft(Applied, s, ms)

-----------------------------------------------------------------------------
\* The first handler, and market_depth_rows set while there is one: an open
\* subscription is asked for again under its id.
SubscribeDepth ==
    /\ subs < MaxSubs /\ subs' = subs + 1
    /\ depth_id' = IF depth_id # 0 THEN depth_id ELSE subs'
    /\ toServer' = Append(toServer, depth_id')
    /\ UNCHANGED <<rows, message_loop, server, wire>>

\* The last handler goes.  The rows stay.
UnsubscribeDepth ==
    /\ depth_id # 0
    /\ toServer' = Append(toServer, 0)
    /\ depth_id' = 0
    /\ UNCHANGED <<rows, subs, message_loop, server, wire>>

\* A message of a table entry that is gone finds None, which has no rows.
Dispatch ==
    /\ message_loop = "running" /\ wire # <<>>
    /\ LET m == Head(wire) IN
       IF m.id # depth_id THEN message_loop' = "AttributeError" /\ UNCHANGED rows
       ELSE IF ~InRange(rows, m) THEN message_loop' = "IndexError" /\ UNCHANGED rows
       ELSE rows' = Applied(rows, m) /\ UNCHANGED message_loop
    /\ wire' = Tail(wire)
    /\ UNCHANGED <<depth_id, subs, toServer, server>>

\* disconnect() and connect(): nothing is resubscribed.
Reconnect ==
    /\ message_loop' = "running"
    /\ toServer' = <<>> /\ wire' = <<>> /\ serving' = 0 /\ book' = <<>>
    /\ UNCHANGED <<rows, depth_id, subs, left>>

-----------------------------------------------------------------------------
\* The server starts a subscription, again if it has it, with an empty book, and
\* keeps to the number of rows: it deletes one before it inserts into a full book.
ServerReads ==
    /\ toServer # <<>>
    /\ serving' = Head(toServer) /\ book' = <<>>
    /\ left' = IF Head(toServer) # 0 /\ message_loop = "running"
               THEN AllApplied(rows, wire) ELSE left
    /\ toServer' = Tail(toServer)
    /\ UNCHANGED <<depth_client, wire>>

\* What an operation does to the server's book.
Changed(b, op, at, entry) ==
    CASE op = "insert" -> SubSeq(b, 1, at - 1) \o <<entry>> \o SubSeq(b, at, Len(b))
      [] op = "update" -> [b EXCEPT ![at] = entry]
      [] op = "delete" -> SubSeq(b, 1, at - 1) \o SubSeq(b, at + 1, Len(b))

ServerChanges(op, at, entry) ==
    /\ serving # 0 /\ Len(wire) < MaxWire
    /\ IF op = "insert" THEN at <= Len(book) + 1 /\ Len(book) < MaxRows ELSE at <= Len(book)
    /\ book' = Changed(book, op, at, entry)
    /\ wire' = Append(wire, [id |-> serving, op |-> op, at |-> at, entry |-> entry])
    /\ UNCHANGED <<depth_client, toServer, serving, left>>

DepthNext ==
    \/ SubscribeDepth \/ UnsubscribeDepth \/ Dispatch \/ Reconnect \/ ServerReads
    \/ \E op \in {"insert", "update", "delete"}, at \in 1..MaxRows, e \in Entry :
          ServerChanges(op, at, e)

DepthSpec == DepthInit /\ [][DepthNext]_depth_vars

-----------------------------------------------------------------------------
\* The rows, once the messages in flight have come, are the server's book on top of
\* what earlier subscriptions left: nothing of the book is lost or misplaced, and
\* nothing that was left ever goes away, or moves up into the book.  So a change of
\* a row, or its deletion, always finds it: the loop does not end in an IndexError,
\* however a subscription was changed, ended or lost before.
BookOnTop ==
    /\ message_loop # "IndexError"
    /\ message_loop = "running" /\ serving # 0 => AllApplied(rows, wire) = book \o left
=============================================================================
