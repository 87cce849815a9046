----------------------------- MODULE CurrentTime -----------------------------
(* CurrentTimeMixin: current_time() and the CURRENT_TIME message, which      *)
(* carries no request id.  The mixin keeps one future and sets it, without   *)
(* asking whether it is done, when an answer comes.  The server answers the  *)
(* requests it has received in their order.  Calls are numbered as they are  *)
(* made.                                                                     *)
(* PositionsProofs extends this module and Positions: no name is in both.    *)
EXTENDS Naturals, Sequences

CONSTANT MaxCalls   \* bound: how often current_time is called

ASSUME CallsAssumption == MaxCalls \in Nat

Call == 1..MaxCalls

VARIABLES
    current_time_future,  \* the call that made it, 0 for the one of __init__
    calls,       \* how many calls have been made
    call_state,  \* the asyncio state of each future, by its call
    asked,       \* server: the requests it has yet to answer, oldest first
    writer,      \* Protocol.writer, and whether its transport still works
    loop,        \* the task running _message_loop
    undue        \* history: a call was made while another waited, or was given up

time_vars == <<current_time_future, calls, call_state, asked, writer, loop, undue>>

\* "orphaned": nobody holds it; current_time raised after it had made it.
States == {"unused", "pending", "orphaned", "result", "cancelled"}

TimeTypeOK ==
    /\ current_time_future \in 0..MaxCalls
    /\ calls \in 0..MaxCalls
    /\ call_state \in [0..MaxCalls -> States]
    /\ asked \in Seq(Call)
    /\ writer \in {"open", "broken", "closed"}
    /\ loop \in {"running", "draining", "stopped", "misfired"}
    /\ undue \in BOOLEAN

TimeInit ==
    /\ current_time_future = 0
    /\ calls = 0
    /\ call_state = [c \in 0..MaxCalls |-> IF c = 0 THEN "orphaned" ELSE "unused"]
    /\ asked = <<>>
    /\ writer = "open"
    /\ loop = "running"
    /\ undue = FALSE

\* Mutant: the future is made for the first call only.
ReplaceFirst(c) ==
    current_time_future' = IF current_time_future = 0 THEN c ELSE current_time_future

\* self._current_time_future = asyncio.Future()
Replace(c) == current_time_future' = c

\* current_time(): the new future takes the place of the last one, and is lost
\* to the caller when send raises.
CurrentTime(c) ==
    /\ c = calls + 1
    /\ calls' = c
    /\ Replace(c)
    /\ call_state' = [call_state EXCEPT ![c] = IF writer = "closed" THEN "orphaned" ELSE "pending"]
    /\ asked' = IF writer = "open" THEN Append(asked, c) ELSE asked
    /\ undue' = (undue \/ \E d \in Call : call_state[d] = "pending")
    /\ UNCHANGED <<writer, loop>>

\* The caller gives up, or its wait_for times out.
Cancel(c) ==
    /\ call_state[c] = "pending"
    /\ call_state' = [call_state EXCEPT ![c] = "cancelled"]
    /\ undue' = TRUE
    /\ UNCHANGED <<current_time_future, calls, asked, writer, loop>>

\* Mutant of HandleCurrentTime: every answer after the first one is dropped.
HandleCurrentTimeOnce ==
    /\ loop \in {"running", "draining"}
    /\ asked # <<>>
    /\ asked' = Tail(asked)
    /\ call_state' = IF \A c \in Call : call_state[c] # "result"
                     THEN [call_state EXCEPT ![current_time_future] = "result"]
                     ELSE call_state
    /\ loop' = IF loop = "draining" THEN "stopped" ELSE loop
    /\ UNCHANGED <<current_time_future, calls, writer, undue>>

\* CURRENT_TIME: set_result on the present future, done or not.
HandleCurrentTime ==
    /\ loop \in {"running", "draining"}
    /\ asked # <<>>
    /\ asked' = Tail(asked)
    /\ IF call_state[current_time_future] \in {"pending", "orphaned"}
       THEN /\ call_state' = [call_state EXCEPT ![current_time_future] = "result"]
            /\ loop' = IF loop = "draining" THEN "stopped" ELSE loop
       ELSE /\ loop' = "misfired"
            /\ UNCHANGED call_state
    /\ UNCHANGED <<current_time_future, calls, writer, undue>>

\* disconnect(), as in Requests.
TimeDisconnect ==
    /\ writer # "closed"
    /\ writer' = "closed"
    /\ loop' \in IF loop = "running" THEN {"draining", "stopped"} ELSE {loop}
    /\ UNCHANGED <<current_time_future, calls, call_state, asked, undue>>

TimeConnectionLost ==
    /\ loop = "running" /\ writer = "open"
    /\ writer' = "broken"
    /\ loop' = "stopped"
    /\ UNCHANGED <<current_time_future, calls, call_state, asked, undue>>

TimeNext ==
    \/ \E c \in Call : CurrentTime(c) \/ Cancel(c)
    \/ HandleCurrentTime
    \/ TimeDisconnect
    \/ TimeConnectionLost

TimeSpec == TimeInit /\ [][TimeNext]_time_vars

\* The server answers, and the message loop dispatches what it reads.
TimeFairSpec == TimeSpec /\ WF_time_vars(HandleCurrentTime)

-----------------------------------------------------------------------------
\* Properties.

\* An answer ends the loop only when a call was given up, or made while
\* another was waiting.
MisfireCause == loop = "misfired" => undue

\* "All simple calls are awaitable" (README.md): whoever waits for the time has
\* its answer still to come.
NobodyForgotten ==
    \A c \in Call : call_state[c] = "pending" /\ writer = "open" =>
        \E i \in 1..Len(asked) : asked[i] = c

\* So it is as long as calls are made one at a time and none is given up.
DueCallsRemembered == undue \/ NobodyForgotten

\* Then each call is answered.
EachCallAnswered ==
    \A c \in Call : (call_state[c] = "pending" /\ writer = "open")
                        ~> (call_state[c] # "pending" \/ loop # "running" \/ undue)
=============================================================================
