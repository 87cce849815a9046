----------------------------- MODULE Connection -----------------------------
(* Protocol.connect, _negotiate_version, _message_loop and disconnect in      *)
(* ib_async/protocol.py: one client that connects, loses or closes the       *)
(* connection, and connects again.  Call number c of connect() opens         *)
(* connection c; its coroutine and the task of the _message_loop it starts   *)
(* are task c, for one ends where the other begins.                          *)
(* A message travels as a size and a body, each read by a readexactly() of   *)
(* its own on whatever self.reader is at that moment.                        *)
EXTENDS Integers, SequencesExt

CONSTANTS MaxConnects,  \* bound: calls of connect()
          MaxMessages   \* bound: messages sent in all, without answers to negotiations

ASSUME ConnectionBounds == MaxConnects \in Nat /\ MaxMessages \in Nat

Conn == 1..MaxConnects
Message == Conn \X (1..(MaxMessages + 1))   \* the messages of each connection

\* A message of two fields is taken for the answer to the negotiation.  A
\* "short" one is that without a version the client supports.
Kind == {"version", "short", "message"}

VARIABLES
    reader, writer,  \* Protocol.reader and .writer: the connection they are of, or 0
    version,         \* Protocol.version: the connection it was agreed on, or 0
    pc,              \* where task c is
    on,              \* the connection whose reader task c waits on, or 0
    size,            \* the message whose size task c has read, or <<>>
    delayed,         \* delayed_messages of _negotiate_version
    sent,            \* server: the messages of each connection
    arrived, taken,  \* the halves of messages that have reached each reader, and left it
    eof,             \* the readers that will get no more
    dispatched,      \* the messages of each connection that were dispatched
    wanted           \* connect() was called, and disconnect() has not ended that

attributes == <<reader, writer, version>>
task == <<pc, on, size, delayed>>
wire == <<sent, arrived, eof>>
vars == <<attributes, task, wire, taken, dispatched, wanted>>

Reading == {"negotiating", "looping"}
Active == Reading \cup {"opening", "scheduled"}

TypeOK ==
    /\ {reader, writer, version} \subseteq Conn \cup {0}
    /\ pc \in [Conn -> Active \cup {"idle", "stopped", "failed"}]
    /\ on \in [Conn -> Conn \cup {0}]
    /\ size \in [Conn -> Message \cup {<<>>}]
    /\ \A t \in Conn : delayed[t] \in Seq(Message)
    /\ \A c \in Conn : sent[c] \in Seq(Kind) /\ Len(sent[c]) <= MaxMessages + 1
    /\ \A c \in Conn : arrived[c] \in 0..(2 * Len(sent[c])) /\ taken[c] \in 0..arrived[c]
    /\ eof \subseteq Conn
    /\ \A c \in Conn : dispatched[c] \in Seq(1..(MaxMessages + 1))
    /\ wanted \in BOOLEAN

Init ==
    /\ reader = 0 /\ writer = 0 /\ version = 0
    /\ pc = [t \in Conn |-> "idle"]
    /\ on = [t \in Conn |-> 0]
    /\ size = [t \in Conn |-> <<>>]
    /\ delayed = [t \in Conn |-> <<>>]
    /\ sent = [c \in Conn |-> <<>>]
    /\ arrived = [c \in Conn |-> 0]
    /\ taken = [c \in Conn |-> 0]
    /\ eof = {}
    /\ dispatched = [c \in Conn |-> <<>>]
    /\ wanted = FALSE

-----------------------------------------------------------------------------
\* Reading.

Available(c) == arrived[c] > taken[c]

Leave(t, how) == /\ pc' = [pc EXCEPT ![t] = how]
                 /\ on' = [on EXCEPT ![t] = 0]

\* Task t calls readexactly on self.reader: AttributeError when that is None.
ReadNext(t, state) ==
    IF reader = 0 THEN Leave(t, "failed")
    ELSE /\ pc' = [pc EXCEPT ![t] = state]
         /\ on' = [on EXCEPT ![t] = reader]

\* The loop looks at self.reader before it reads again.
LoopAgain(t) == IF reader = 0 THEN Leave(t, "stopped") ELSE ReadNext(t, "looping")

Take(c) == taken' = [taken EXCEPT ![c] = @ + 1]

\* The message of which a half is next in reader c.
NextMessage(c) == <<c, taken[c] \div 2 + 1>>

\* What the next half is taken for: a size after a whole message, else the body
\* of the message whose size was read.
ReadSize(t) ==
    LET c == on[t] IN
    /\ pc[t] \in Reading /\ size[t] = <<>> /\ Available(c)
    /\ Take(c)
    /\ size' = [size EXCEPT ![t] = NextMessage(c)]
    /\ ReadNext(t, pc[t])
    /\ UNCHANGED <<attributes, delayed, wire, dispatched, wanted>>

\* The reader has no more bytes: IncompleteReadError.
ReadFails(t) ==
    /\ pc[t] \in Reading /\ ~Available(on[t]) /\ on[t] \in eof
    /\ Leave(t, "failed")
    /\ UNCHANGED <<attributes, size, delayed, wire, taken, dispatched, wanted>>

\* Task t has read the body of message m.
Body(t, m) == /\ pc[t] \in Reading /\ size[t] = m
              /\ Available(on[t])
              /\ Take(on[t])
              /\ size' = [size EXCEPT ![t] = <<>>]
              /\ UNCHANGED <<reader, writer, wire, wanted>>

KindOf(m) == sent[m[1]][m[2]]

-----------------------------------------------------------------------------
\* Dispatching.

Log(log, m) == [log EXCEPT ![m[1]] = Append(@, m[2])]

\* Mutant of Postpone: of the early messages only the last is kept.
PostponeOne(early, m) == <<m>>

Postpone(early, m) == Append(early, m)

\* Negotiating: a message that is not of two fields is kept for later.
EarlyMessage(t, m) ==
    /\ Body(t, m) /\ pc[t] = "negotiating" /\ KindOf(m) = "message"
    /\ delayed' = [delayed EXCEPT ![t] = Postpone(@, m)]
    /\ ReadNext(t, "negotiating")
    /\ UNCHANGED <<version, dispatched>>

\* Two fields, and no version the client supports: ValueError or AssertionError.
NotAVersion(t, m) ==
    /\ Body(t, m) /\ pc[t] = "negotiating" /\ KindOf(m) = "short"
    /\ Leave(t, "failed")
    /\ UNCHANGED <<version, delayed, dispatched>>

\* The version: START_API is sent, the early messages are dispatched and the
\* loop is scheduled, all in one go.  Without a writer sending raises; so may
\* the handler of an early message, and those after it are lost.
Negotiated(t, m) ==
    /\ Body(t, m) /\ pc[t] = "negotiating" /\ KindOf(m) = "version"
    /\ version' = m[1]
    /\ IF writer = 0
       THEN Leave(t, "failed") /\ UNCHANGED dispatched
       ELSE \E n \in 0..Len(delayed[t]) :
                /\ dispatched' = FoldLeft(Log, dispatched, SubSeq(delayed[t], 1, n))
                /\ \/ Leave(t, "failed") /\ n > 0
                   \/ Leave(t, "scheduled") /\ n = Len(delayed[t])
    /\ delayed' = [delayed EXCEPT ![t] = <<>>]

\* Mutant of Dispatch: no version is as good as an old one.
DispatchUnversioned(t, m) ==
    /\ Body(t, m) /\ pc[t] = "looping"
    /\ dispatched' = Log(dispatched, m)
    /\ LoopAgain(t) \/ Leave(t, "failed")
    /\ UNCHANGED <<version, delayed>>

\* The loop dispatches a message.  Without a version it cannot be read (None < int
\* is a TypeError), and its handler may raise.
Dispatch(t, m) ==
    /\ Body(t, m) /\ pc[t] = "looping"
    /\ IF version = 0
       THEN Leave(t, "failed") /\ UNCHANGED dispatched
       ELSE /\ dispatched' = Log(dispatched, m)
            /\ LoopAgain(t) \/ Leave(t, "failed")
    /\ UNCHANGED <<version, delayed>>

\* The event loop comes to the scheduled task.
StartLoop(t) ==
    /\ pc[t] = "scheduled"
    /\ UNCHANGED <<attributes, size, delayed, wire, taken, dispatched, wanted>>
    /\ LoopAgain(t)

-----------------------------------------------------------------------------
\* The application.

\* What the code needs of the application and does not check: connect() is not
\* called while another call of it is opening a connection, nor over one that
\* is still read and has not been closed.  Two tasks would read from one reader.
MayConnect == \A u \in Conn : pc[u] # "opening" /\ (pc[u] \in Active => reader = 0)

\* connect() is called: it forgets the version, though a task of an earlier
\* connection may still have a message to dispatch.
Connect(t) ==
    /\ pc[t] = "idle" /\ \A u \in 1..(t - 1) : pc[u] # "idle"
    /\ MayConnect
    /\ version' = 0
    /\ wanted' = TRUE
    /\ pc' = [pc EXCEPT ![t] = "opening"]
    /\ UNCHANGED <<reader, writer, on, size, delayed, wire, taken, dispatched>>

\* The connection opens.  That takes several turns of the event loop, in which
\* tasks that could run before it, have run.
Opened(t) ==
    /\ pc[t] = "opening"
    /\ \A u \in Conn : pc[u] # "scheduled" /\ on[u] \notin eof
    /\ reader' = t /\ writer' = t
    /\ pc' = [pc EXCEPT ![t] = "negotiating"]
    /\ on' = [on EXCEPT ![t] = t]
    /\ UNCHANGED <<version, size, delayed, wire, taken, dispatched, wanted>>

\* The connection is refused, or the caller of connect() gives up waiting: a
\* connection that was open by then stays open, with nobody to read it.
ConnectFails(t) ==
    /\ pc[t] \in {"opening", "negotiating"}
    /\ Leave(t, "failed")
    /\ UNCHANGED <<attributes, size, delayed, wire, taken, dispatched, wanted>>

\* Mutant of Disconnect: the reader is dropped and goes on waiting.
DisconnectSilently ==
    /\ reader' = 0 /\ writer' = 0
    /\ wanted' = \E t \in Conn : pc[t] = "opening"
    /\ UNCHANGED <<version, task, wire, taken, dispatched>>

\* disconnect(): then self.writer.write_eof() raises AttributeError, for
\* self.writer is None by now, and the connection is never closed.  A call of
\* connect() that is still opening its connection is not stopped.
Disconnect ==
    /\ reader' = 0 /\ writer' = 0
    /\ eof' = eof \cup ({reader} \ {0})
    /\ wanted' = \E t \in Conn : pc[t] = "opening"
    /\ UNCHANGED <<version, task, sent, arrived, taken, dispatched>>

-----------------------------------------------------------------------------
\* The network.

IsOpen(c) == pc[c] \notin {"idle", "opening"} /\ c \notin eof

\* The server sends a message.  It answers the negotiation once, and may send
\* others before that; a short one is no different from others after it.
Answered(c) == \E n \in 1..Len(sent[c]) : sent[c][n] = "version"

\* How many messages other than answers have been sent.
Messages == SumFunction([c \in Conn |-> Len(sent[c]) - IF Answered(c) THEN 1 ELSE 0])

Send(c, k) ==
    /\ IsOpen(c) /\ arrived[c] = 2 * Len(sent[c])
    /\ IF k = "version" THEN ~Answered(c) ELSE Messages < MaxMessages
    /\ k = "short" => ~Answered(c)
    /\ sent' = [sent EXCEPT ![c] = Append(@, k)]
    /\ arrived' = [arrived EXCEPT ![c] = @ + 1]
    /\ UNCHANGED <<attributes, task, eof, taken, dispatched, wanted>>

\* The rest of the message arrives.
Complete(c) ==
    /\ IsOpen(c) /\ arrived[c] < 2 * Len(sent[c])
    /\ arrived' = [arrived EXCEPT ![c] = @ + 1]
    /\ UNCHANGED <<attributes, task, sent, eof, taken, dispatched, wanted>>

\* The connection is lost or closed by the server.
Lost(c) ==
    /\ IsOpen(c)
    /\ eof' = eof \cup {c}
    /\ UNCHANGED <<attributes, task, sent, arrived, taken, dispatched, wanted>>

-----------------------------------------------------------------------------
Run(t) == \/ ReadSize(t) \/ ReadFails(t) \/ StartLoop(t)
          \/ \E m \in Message : \/ EarlyMessage(t, m) \/ NotAVersion(t, m)
                                \/ Negotiated(t, m) \/ Dispatch(t, m)

Next == \/ \E t \in Conn : Run(t) \/ Connect(t) \/ Opened(t) \/ ConnectFails(t)
        \/ Disconnect
        \/ \E c \in Conn : \/ \E k \in Kind : Send(c, k)
                           \/ Complete(c) \/ Lost(c)

Spec == Init /\ [][Next]_vars

\* asyncio runs the tasks that can run.
FairSpec == Spec /\ \A t \in Conn : WF_vars(Run(t))

-----------------------------------------------------------------------------
\* Properties.

\* Framing is kept, however a disconnection or a loss falls between the two
\* halves of a message and whatever connects next: each task reads a reader of
\* its own, and what comes next there is what the task takes it for.
Framed ==
    \A t \in Conn : pc[t] \in Reading =>
        /\ \A u \in Conn \ {t} : on[u] # on[t]
        /\ IF size[t] = <<>> THEN taken[on[t]] % 2 = 0
           ELSE taken[on[t]] % 2 = 1 /\ size[t] = NextMessage(on[t])

\* The messages of a connection are dispatched in the order they were sent, the
\* ones that came before the version included, each once and none left out: when
\* one is, it has arrived, and all before it but the version have been.
InOrderOnce ==
    \A c \in Conn : \A i \in 1..Len(dispatched[c]) :
        LET n == dispatched[c][i]
            before == {dispatched[c][j] : j \in 1..(i - 1)}
        IN  /\ n \in 1..(arrived[c] \div 2) /\ sent[c][n] # "version"
            /\ before = {k \in 1..(n - 1) : sent[c][k] # "version"}

\* A message is dispatched under the version that was agreed on its own
\* connection, never an earlier or a later one's.
OwnVersion == [][\A c \in Conn : dispatched'[c] # dispatched[c] => version' = c]_vars

\* After disconnect() every task ends, whatever it was doing, unless connect()
\* is called again, or was still opening a connection.
DisconnectEnds == ~wanted ~> (wanted \/ \A t \in Conn : pc[t] \notin Active)
=============================================================================
