------------------------------- MODULE Channel -------------------------------
(* What an event stream promises its consumer: the values published since it *)
(* subscribed, each once and in the order they were published.               *)
EXTENDS Naturals, Sequences

CONSTANT Value

VARIABLES sent,      \* the values published so far
          received   \* the values handed to the consumer so far

vars == <<sent, received>>

Init == sent = <<>> /\ received = <<>>

Send(v) == sent' = Append(sent, v) /\ UNCHANGED received

Receive == /\ Len(received) < Len(sent)
           /\ received' = Append(received, sent[Len(received) + 1])
           /\ UNCHANGED sent

Next == Receive \/ \E v \in Value : Send(v)

Spec == Init /\ [][Next]_vars
=============================================================================
