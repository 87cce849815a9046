------------------------------- MODULE Replies -------------------------------
(* What a request/response client promises its callers, said without request *)
(* identifiers, tables or messages.  Every call is asked once, is then open  *)
(* until it is answered, fails, or is withdrawn by its caller, and its       *)
(* outcome never changes afterwards.  A reply decides the call it is for and *)
(* no other.  A call whose request could not be sent is refused on the spot. *)
EXTENDS Naturals

CONSTANT Call

VARIABLES outcome,   \* the outcome of each call so far
          replied,   \* the calls the server has replied to
          up         \* replies are still being delivered

vars == <<outcome, replied, up>>

Settled == {"answered", "failed", "withdrawn", "refused"}
Outcomes == {"idle", "open"} \cup Settled

Init == /\ outcome = [c \in Call |-> "idle"]
        /\ replied = {}
        /\ up = TRUE

Ask(c) == /\ outcome[c] = "idle"
          /\ outcome' = [outcome EXCEPT ![c] = "open"]
          /\ UNCHANGED <<replied, up>>

Refuse(c) == /\ outcome[c] = "idle"
             /\ outcome' = [outcome EXCEPT ![c] = "refused"]
             /\ UNCHANGED <<replied, up>>

Withdraw(c) == /\ outcome[c] = "open"
               /\ outcome' = [outcome EXCEPT ![c] = "withdrawn"]
               /\ UNCHANGED <<replied, up>>

\* A reply decides an open call; on a withdrawn call it changes nothing.
\* Delivery may go down with the reply, but not before it has been applied.
Reply(c, o) ==
    /\ up
    /\ c \notin replied
    /\ o \in {"answered", "failed"}
    /\ outcome[c] \in {"open", "withdrawn"}
    /\ outcome' = [outcome EXCEPT ![c] = IF @ = "open" THEN o ELSE @]
    /\ replied' = replied \cup {c}
    /\ up' \in BOOLEAN

\* Delivery goes down over a reply, which is then lost.
Lose(c) == /\ up
           /\ outcome[c] \in {"open", "withdrawn"}
           /\ replied' = replied \cup {c}
           /\ up' = FALSE
           /\ UNCHANGED outcome

GoDown == /\ up' = FALSE
          /\ UNCHANGED <<outcome, replied>>

Next == \/ \E c \in Call : \/ Ask(c) \/ Refuse(c) \/ Withdraw(c) \/ Lose(c)
                           \/ \E o \in {"answered", "failed"} : Reply(c, o)
        \/ GoDown

Spec == Init /\ [][Next]_vars
=============================================================================
