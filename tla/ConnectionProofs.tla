-------------------------- MODULE ConnectionProofs ---------------------------
(* Proofs about Connection: no task reads from the connection of another, or *)
(* takes the body of a message for a size, and what is dispatched is in the  *)
(* order it was sent and under its own version.  Then what the run of Codec  *)
(* shows, for messages of any number of items and any number of versions.    *)
EXTENDS Connection, Codec, SequenceTheorems, TLAPS

\* The types that the proof needs.
Shape ==
    /\ reader \in Conn \cup {0}
    /\ pc \in [Conn -> Active \cup {"idle", "stopped", "failed"}]
    /\ on \in [Conn -> Conn \cup {0}]
    /\ DOMAIN size = Conn
    /\ taken \in [Conn -> Nat]
    /\ eof \subseteq Conn

Begun == Reading \cup {"scheduled"}   \* its connection has been opened

\* A task that reads, reads from the connection that it has opened.
ReadsOwn == \A t \in Conn : on[t] = IF pc[t] \in Reading THEN t ELSE 0

\* While it has not ended, self.reader is the one of its connection or None.
ReaderIsOwn == \A t \in Conn : pc[t] \in Begun => reader \in {0, t}

\* When self.reader has changed under a task that reads, it has been fed EOF.
LeftIsEof == \A t \in Conn : pc[t] \in Reading /\ t \notin eof => reader = t

\* While a connection is opened, the tasks of others are at their end.
OpensAlone ==
    \A u, t \in Conn : pc[u] = "opening" /\ t # u =>
        pc[t] # "opening" /\ (pc[t] \in Begun => reader = 0)

\* The halves that a task has read make up messages, and the one it has begun.
Halves ==
    \A t \in Conn :
        /\ pc[t] \in {"idle", "opening"} => taken[t] = 0 /\ size[t] = <<>>
        /\ pc[t] = "scheduled" => taken[t] % 2 = 0 /\ size[t] = <<>>
        /\ pc[t] \in Reading /\ size[t] = <<>> => taken[t] % 2 = 0
        /\ pc[t] \in Reading /\ size[t] # <<>>
           => taken[t] % 2 = 1 /\ size[t] = NextMessage(t)

\* Framed says nothing of who opens a connection when: the parts in between do.
IInv == Shape /\ ReadsOwn /\ ReaderIsOwn /\ LeftIsEof /\ OpensAlone /\ Halves

LEMMA InitInv == Init => IInv
  BY ConnectionBounds
     DEF Init, IInv, Shape, ReadsOwn, ReaderIsOwn, LeftIsEof, OpensAlone, Halves, Begun,
         Active, Reading, Conn

\* What each step of a task amounts to: it ends, its loop is scheduled, or it
\* reads on from self.reader.
TaskStep(t) ==
    /\ reader' = reader /\ eof' = eof
    /\ pc' \in [Conn -> Active \cup {"idle", "stopped", "failed"}]
    /\ on' \in [Conn -> Conn \cup {0}]
    /\ taken' \in [Conn -> Nat] /\ DOMAIN size' = Conn
    /\ \A u \in Conn \ {t} : /\ pc'[u] = pc[u] /\ on'[u] = on[u]
                             /\ size'[u] = size[u] /\ taken'[u] = taken[u]
    /\ pc[t] \in Begun
    /\ \/ pc'[t] \in {"stopped", "failed"} /\ on'[t] = 0
       \/ /\ pc'[t] = "scheduled" /\ on'[t] = 0
          /\ taken'[t] % 2 = 0 /\ size'[t] = <<>>
       \/ /\ pc'[t] \in Reading /\ on'[t] = reader /\ reader # 0
          /\ size'[t] = <<>> => taken'[t] % 2 = 0
          /\ size'[t] # <<>> => taken'[t] % 2 = 1 /\ size'[t] = NextMessage(t)'

LEMMA TaskStepInv ==
  ASSUME IInv, NEW t \in Conn, TaskStep(t)
  PROVE  IInv'
<1>1. Shape'
  BY DEF IInv, Shape, TaskStep
<1>2. ReadsOwn' /\ ReaderIsOwn' /\ LeftIsEof'
  BY DEF IInv, Shape, TaskStep, ReadsOwn, ReaderIsOwn, LeftIsEof, Begun, Reading
<1>3. OpensAlone'
  BY DEF IInv, Shape, TaskStep, OpensAlone, Begun, Reading
<1>4. \A u \in Conn \ {t} :
          pc'[u] = pc[u] /\ size'[u] = size[u] /\ taken'[u] = taken[u]
              /\ NextMessage(u)' = NextMessage(u)
  BY DEF TaskStep, NextMessage
<1>5. pc'[t] \notin {"idle", "opening"}
  BY DEF TaskStep, Reading
<1>6. Halves'
  <2> SUFFICES ASSUME NEW u \in Conn
               PROVE  (/\ pc[u] \in {"idle", "opening"} => taken[u] = 0 /\ size[u] = <<>>
                       /\ pc[u] = "scheduled" => taken[u] % 2 = 0 /\ size[u] = <<>>
                       /\ pc[u] \in Reading /\ size[u] = <<>> => taken[u] % 2 = 0
                       /\ pc[u] \in Reading /\ size[u] # <<>>
                          => taken[u] % 2 = 1 /\ size[u] = NextMessage(u))'
    BY DEF Halves
  <2>1. CASE u = t
    BY <2>1, <1>5 DEF TaskStep, Reading
  <2>2. CASE u # t
    BY <2>2, <1>4 DEF IInv, Halves
  <2> QED BY <2>1, <2>2
<1> QED BY <1>1, <1>2, <1>3, <1>6 DEF IInv

LEMMA LeaveFacts ==
  ASSUME IInv, NEW t \in Conn, NEW how \in {"stopped", "failed", "scheduled"}, Leave(t, how)
  PROVE  /\ pc' \in [Conn -> Active \cup {"idle", "stopped", "failed"}]
         /\ on' \in [Conn -> Conn \cup {0}]
         /\ pc'[t] = how /\ on'[t] = 0
         /\ \A u \in Conn \ {t} : pc'[u] = pc[u] /\ on'[u] = on[u]
  BY ConnectionBounds DEF IInv, Shape, Leave, Active

LEMMA ReadNextFacts ==
  ASSUME IInv, NEW t \in Conn, NEW state \in Reading, ReadNext(t, state)
  PROVE  /\ pc' \in [Conn -> Active \cup {"idle", "stopped", "failed"}]
         /\ on' \in [Conn -> Conn \cup {0}]
         /\ \A u \in Conn \ {t} : pc'[u] = pc[u] /\ on'[u] = on[u]
         /\ \/ pc'[t] = "failed" /\ on'[t] = 0
            \/ pc'[t] = state /\ on'[t] = reader /\ reader # 0
<1>1. CASE reader = 0
  BY <1>1, LeaveFacts DEF ReadNext
<1>2. CASE reader # 0
  BY <1>2 DEF IInv, Shape, ReadNext, Active
<1> QED BY <1>1, <1>2

LEMMA LoopAgainFacts ==
  ASSUME IInv, NEW t \in Conn, LoopAgain(t)
  PROVE  /\ pc' \in [Conn -> Active \cup {"idle", "stopped", "failed"}]
         /\ on' \in [Conn -> Conn \cup {0}]
         /\ \A u \in Conn \ {t} : pc'[u] = pc[u] /\ on'[u] = on[u]
         /\ \/ pc'[t] \in {"stopped", "failed"} /\ on'[t] = 0
            \/ pc'[t] \in Reading /\ on'[t] = reader /\ reader # 0
<1>1. CASE reader = 0
  BY <1>1, LeaveFacts DEF LoopAgain
<1>2. CASE reader # 0
  BY <1>2, ReadNextFacts DEF LoopAgain, Reading
<1> QED BY <1>1, <1>2

\* The size of a message has been read: its body is next.
LEMMA ReadSizeStep ==
  ASSUME IInv, NEW t \in Conn, ReadSize(t)
  PROVE  TaskStep(t)
<1>1. on[t] = t /\ pc[t] \in Reading /\ size[t] = <<>> /\ taken[t] % 2 = 0
  BY DEF IInv, ReadsOwn, Halves, ReadSize
<1>2. /\ taken' = [taken EXCEPT ![t] = @ + 1]
      /\ size' = [size EXCEPT ![t] = NextMessage(t)]
      /\ ReadNext(t, pc[t])
      /\ reader' = reader /\ eof' = eof
  BY <1>1 DEF ReadSize, Take, attributes, wire
<1>3. /\ taken[t] \in Nat /\ taken' \in [Conn -> Nat] /\ taken'[t] = taken[t] + 1
      /\ DOMAIN size' = Conn /\ size'[t] = NextMessage(t)
      /\ \A u \in Conn \ {t} : size'[u] = size[u] /\ taken'[u] = taken[u]
  BY <1>2 DEF IInv, Shape
<1>4. taken'[t] % 2 = 1 /\ taken'[t] \div 2 = taken[t] \div 2
  BY <1>1, <1>3
<1>5. size'[t] # <<>> /\ size'[t] = NextMessage(t)'
  BY <1>3, <1>4 DEF NextMessage
<1> QED BY <1>1, <1>2, <1>3, <1>4, <1>5, ReadNextFacts DEF TaskStep, Begun

\* The body of a message has been read: a size is next.
LEMMA BodyFacts ==
  ASSUME IInv, NEW t \in Conn, NEW m \in Message, Body(t, m)
  PROVE  /\ pc[t] \in Reading
         /\ reader' = reader /\ eof' = eof
         /\ taken' \in [Conn -> Nat] /\ DOMAIN size' = Conn
         /\ taken'[t] % 2 = 0 /\ size'[t] = <<>>
         /\ \A u \in Conn \ {t} : size'[u] = size[u] /\ taken'[u] = taken[u]
<1>1. size[t] # <<>>
  <2>1. PICK c \in Conn, n \in 1..(MaxMessages + 1) : m = <<c, n>>
    BY DEF Message
  <2> QED BY <2>1 DEF Body
<1>2. on[t] = t /\ pc[t] \in Reading /\ taken[t] % 2 = 1
  BY <1>1 DEF IInv, ReadsOwn, Halves, Body
<1>3. taken' = [taken EXCEPT ![t] = @ + 1] /\ size' = [size EXCEPT ![t] = <<>>]
  BY <1>2 DEF Body, Take
<1>4. taken[t] \in Nat /\ taken'[t] = taken[t] + 1 /\ taken' \in [Conn -> Nat]
  BY <1>3 DEF IInv, Shape
<1>5. taken'[t] % 2 = 0
  BY <1>2, <1>4
<1> QED BY <1>2, <1>3, <1>4, <1>5 DEF IInv, Shape, Body, wire

LEMMA BodyStep ==
  ASSUME IInv, NEW t \in Conn, NEW m \in Message,
         \/ EarlyMessage(t, m) \/ NotAVersion(t, m)
         \/ Negotiated(t, m) \/ Dispatch(t, m)
  PROVE  TaskStep(t)
<1>1. Body(t, m)
  BY DEF EarlyMessage, NotAVersion, Negotiated, Dispatch
<1>2. \/ ReadNext(t, "negotiating") \/ LoopAgain(t)
      \/ Leave(t, "failed") \/ Leave(t, "scheduled")
  BY DEF EarlyMessage, NotAVersion, Negotiated, Dispatch
<1>3. /\ pc' \in [Conn -> Active \cup {"idle", "stopped", "failed"}]
      /\ on' \in [Conn -> Conn \cup {0}]
      /\ \A u \in Conn \ {t} : pc'[u] = pc[u] /\ on'[u] = on[u]
      /\ \/ pc'[t] \in {"stopped", "failed", "scheduled"} /\ on'[t] = 0
         \/ pc'[t] \in Reading /\ on'[t] = reader /\ reader # 0
  <2>1. CASE ReadNext(t, "negotiating")
    BY <2>1, ReadNextFacts DEF Reading
  <2>2. CASE LoopAgain(t)
    BY <2>2, LoopAgainFacts
  <2>3. CASE Leave(t, "failed")
    BY <2>3, LeaveFacts
  <2>4. CASE Leave(t, "scheduled")
    BY <2>4, LeaveFacts
  <2> QED BY <1>2, <2>1, <2>2, <2>3, <2>4
<1> QED BY <1>1, <1>3, BodyFacts DEF TaskStep, Begun

LEMMA RunStep ==
  ASSUME IInv, NEW t \in Conn, Run(t)
  PROVE  IInv'
<1>1. CASE ReadSize(t)
  BY <1>1, ReadSizeStep, TaskStepInv
<1>2. CASE ReadFails(t)
  <2>1. TaskStep(t)
    BY <1>2, LeaveFacts DEF IInv, Shape, TaskStep, ReadFails, Begun, attributes, wire
  <2> QED BY <2>1, TaskStepInv
<1>3. CASE StartLoop(t)
  <2>1. /\ pc[t] = "scheduled" /\ LoopAgain(t)
        /\ reader' = reader /\ eof' = eof /\ size' = size /\ taken' = taken
        /\ taken[t] % 2 = 0 /\ size[t] = <<>>
    BY <1>3 DEF StartLoop, IInv, Halves, attributes, wire
  <2>2. TaskStep(t)
    BY <2>1, LoopAgainFacts DEF IInv, Shape, TaskStep, Begun
  <2> QED BY <2>2, TaskStepInv
<1>4. ASSUME NEW m \in Message,
             \/ EarlyMessage(t, m) \/ NotAVersion(t, m)
             \/ Negotiated(t, m) \/ Dispatch(t, m)
      PROVE  IInv'
  BY <1>4, BodyStep, TaskStepInv
<1> QED BY <1>1, <1>2, <1>3, <1>4 DEF Run

LEMMA ConnectStep ==
  ASSUME IInv, NEW t \in Conn, Connect(t)
  PROVE  IInv'
<1>1. /\ pc[t] = "idle" /\ MayConnect
      /\ pc' = [pc EXCEPT ![t] = "opening"]
      /\ reader' = reader /\ on' = on /\ size' = size /\ taken' = taken /\ eof' = eof
  BY DEF Connect, wire
<1>2. /\ pc'[t] = "opening"
      /\ \A u \in Conn \ {t} : pc'[u] = pc[u]
  BY <1>1 DEF IInv, Shape
<1>3. Shape'
  BY <1>1 DEF IInv, Shape, Active
<1>4. ReadsOwn' /\ ReaderIsOwn' /\ LeftIsEof'
  BY <1>1, <1>2 DEF IInv, ReadsOwn, ReaderIsOwn, LeftIsEof, Begun, Reading
<1>5. OpensAlone'
  BY <1>1, <1>2 DEF IInv, OpensAlone, MayConnect, Active, Begun, Reading
<1>6. Halves'
  BY <1>1, <1>2 DEF IInv, Halves, NextMessage, Reading
<1> QED BY <1>3, <1>4, <1>5, <1>6 DEF IInv

\* When a connection has opened no other task reads: one that still does would
\* wait on a reader that has been fed EOF, and would have run before.
LEMMA OpenedStep ==
  ASSUME IInv, NEW t \in Conn, Opened(t)
  PROVE  IInv'
<1>1. /\ pc[t] = "opening"
      /\ \A u \in Conn : pc[u] # "scheduled" /\ on[u] \notin eof
      /\ reader' = t /\ eof' = eof
      /\ pc' = [pc EXCEPT ![t] = "negotiating"] /\ on' = [on EXCEPT ![t] = t]
      /\ size' = size /\ taken' = taken
  BY DEF Opened, wire
<1>2. /\ pc'[t] = "negotiating" /\ on'[t] = t
      /\ \A u \in Conn \ {t} : pc'[u] = pc[u] /\ on'[u] = on[u]
  BY <1>1 DEF IInv, Shape
<1>3. \A u \in Conn \ {t} : pc[u] \notin Begun /\ pc[u] # "opening"
  <2> SUFFICES ASSUME NEW u \in Conn \ {t}, pc[u] \in Reading
               PROVE  FALSE
    BY <1>1 DEF IInv, OpensAlone, Begun
  <2>1. reader = 0 /\ on[u] = u
    BY <1>1 DEF IInv, OpensAlone, ReadsOwn, Begun
  <2>2. u # 0
    BY ConnectionBounds DEF Conn
  <2> QED BY <1>1, <2>1, <2>2 DEF IInv, LeftIsEof
<1>4. Shape'
  BY <1>1 DEF IInv, Shape, Active, Reading
<1>5. ReadsOwn' /\ ReaderIsOwn' /\ LeftIsEof'
  BY <1>1, <1>2, <1>3 DEF IInv, ReadsOwn, ReaderIsOwn, LeftIsEof, Begun, Reading
<1>6. OpensAlone'
  BY <1>2, <1>3 DEF OpensAlone
<1>7. Halves'
  BY <1>1, <1>2 DEF IInv, Halves, NextMessage, Reading
<1> QED BY <1>4, <1>5, <1>6, <1>7 DEF IInv

LEMMA ConnectFailsStep ==
  ASSUME IInv, NEW t \in Conn, ConnectFails(t)
  PROVE  IInv'
<1>1. /\ pc[t] \in {"opening", "negotiating"} /\ Leave(t, "failed")
      /\ reader' = reader /\ size' = size /\ taken' = taken /\ eof' = eof
  BY DEF ConnectFails, attributes, wire
<1>2. /\ pc' \in [Conn -> Active \cup {"idle", "stopped", "failed"}]
      /\ on' \in [Conn -> Conn \cup {0}]
      /\ pc'[t] = "failed" /\ on'[t] = 0
      /\ \A u \in Conn \ {t} : pc'[u] = pc[u] /\ on'[u] = on[u]
  BY <1>1, LeaveFacts
<1>3. Shape'
  BY <1>1, <1>2 DEF IInv, Shape
<1>4. ReadsOwn' /\ ReaderIsOwn' /\ LeftIsEof' /\ OpensAlone'
  BY <1>1, <1>2 DEF IInv, ReadsOwn, ReaderIsOwn, LeftIsEof, OpensAlone, Begun, Reading
<1>5. Halves'
  BY <1>1, <1>2 DEF IInv, Halves, NextMessage, Reading
<1> QED BY <1>3, <1>4, <1>5 DEF IInv

LEMMA DisconnectStep ==
  ASSUME IInv, Disconnect
  PROVE  IInv'
<1>1. /\ reader' = 0 /\ eof' = eof \cup ({reader} \ {0})
      /\ pc' = pc /\ on' = on /\ size' = size /\ taken' = taken
  BY DEF Disconnect, task
<1>2. Shape' /\ ReadsOwn' /\ ReaderIsOwn' /\ OpensAlone' /\ Halves'
  BY <1>1 DEF IInv, Shape, ReadsOwn, ReaderIsOwn, OpensAlone, Halves, NextMessage
<1>3. LeftIsEof'
  <2> SUFFICES ASSUME NEW t \in Conn, pc[t] \in Reading PROVE t \in eof'
    BY <1>1 DEF LeftIsEof
  <2>1. t # 0
    BY ConnectionBounds DEF Conn
  <2> QED BY <1>1, <2>1 DEF IInv, LeftIsEof
<1> QED BY <1>2, <1>3 DEF IInv

\* The network moves bytes and ends connections, and nothing else.
LEMMA NetworkStep ==
  ASSUME IInv, reader' = reader, pc' = pc, on' = on, size' = size, taken' = taken,
         eof \subseteq eof', eof' \subseteq Conn
  PROVE  IInv'
<1>1. Shape' /\ ReadsOwn' /\ ReaderIsOwn' /\ LeftIsEof' /\ OpensAlone'
  BY DEF IInv, Shape, ReadsOwn, ReaderIsOwn, LeftIsEof, OpensAlone
<1>2. Halves'
  BY DEF IInv, Halves, NextMessage
<1> QED BY <1>1, <1>2 DEF IInv

LEMMA NextInv == IInv /\ [Next]_vars => IInv'
<1> SUFFICES ASSUME IInv, [Next]_vars PROVE IInv'
  OBVIOUS
<1>1. ASSUME NEW t \in Conn, Run(t) PROVE IInv'
  BY <1>1, RunStep
<1>2. ASSUME NEW t \in Conn, Connect(t) \/ Opened(t) \/ ConnectFails(t) PROVE IInv'
  BY <1>2, ConnectStep, OpenedStep, ConnectFailsStep
<1>3. CASE Disconnect
  BY <1>3, DisconnectStep
<1>4. ASSUME NEW c \in Conn, NEW k \in Kind, Send(c, k) PROVE IInv'
  BY <1>4, NetworkStep DEF Send, attributes, task, IInv, Shape
<1>5. ASSUME NEW c \in Conn, Complete(c) PROVE IInv'
  BY <1>5, NetworkStep DEF Complete, attributes, task, IInv, Shape
<1>6. ASSUME NEW c \in Conn, Lost(c) PROVE IInv'
  BY <1>6, NetworkStep DEF Lost, attributes, task, IInv, Shape
<1>7. CASE UNCHANGED vars
  BY <1>7, NetworkStep DEF vars, attributes, task, wire, IInv, Shape
<1> QED BY <1>1, <1>2, <1>3, <1>4, <1>5, <1>6, <1>7 DEF Next

\* Through losses, disconnections and new connections, every task reads from a
\* connection of its own and takes each half of a message for what it is.
THEOREM FramingKept == Spec => []Framed
<1>1. IInv => Framed
  <2> SUFFICES ASSUME IInv, NEW t \in Conn, pc[t] \in Reading
               PROVE  /\ \A u \in Conn \ {t} : on[u] # on[t]
                      /\ IF size[t] = <<>> THEN taken[on[t]] % 2 = 0
                         ELSE taken[on[t]] % 2 = 1 /\ size[t] = NextMessage(on[t])
    BY DEF Framed
  <2>1. on[t] = t /\ t # 0
    BY ConnectionBounds DEF IInv, ReadsOwn, Conn
  <2>2. \A u \in Conn \ {t} : on[u] # t
    BY <2>1 DEF IInv, ReadsOwn
  <2> QED BY <2>1, <2>2 DEF IInv, Halves
<1> QED BY <1>1, InitInv, NextInv, PTL DEF Spec

-----------------------------------------------------------------------------
(* The messages of a connection, from arrival to dispatch.                   *)

L == INSTANCE SequenceLemmas WITH Step <- Log

\* The answer to the negotiation has come, and what has been dispatched is what
\* there was besides it, in order.
Told(c, v) ==
    /\ v \in 1..(taken[c] \div 2) /\ sent[c][v] = "version"
    /\ Len(dispatched[c]) <= taken[c] \div 2 - 1
    /\ pc[c] \in {"scheduled", "looping"} => Len(dispatched[c]) = taken[c] \div 2 - 1
    /\ \A i \in 1..Len(dispatched[c]) : dispatched[c][i] = IF i < v THEN i ELSE i + 1

\* Until then what has been read is kept for later.
KeptForLater(c) ==
    /\ dispatched[c] = <<>> /\ Len(delayed[c]) = taken[c] \div 2
    /\ \A i \in 1..Len(delayed[c]) : delayed[c][i] = <<c, i>> /\ sent[c][i] # "version"

OneAnswer(c) == \A i, j \in 1..Len(sent[c]) :
                    sent[c][i] = "version" /\ sent[c][j] = "version" => i = j

Within(c) == taken[c] <= arrived[c] /\ arrived[c] <= 2 * Len(sent[c])

Ordered(c) ==
    /\ OneAnswer(c) /\ Within(c)
    /\ pc[c] \in {"idle", "opening", "negotiating"} => KeptForLater(c)
    /\ dispatched[c] # <<>> \/ pc[c] \in {"scheduled", "looping"} => \E v \in Nat : Told(c, v)

FlowTypes ==
    /\ sent \in [Conn -> Seq(Kind)] /\ arrived \in [Conn -> Nat]
    /\ delayed \in [Conn -> Seq(Conn \X Nat)] /\ dispatched \in [Conn -> Seq(Nat)]

\* No two tasks have a connection that they have opened.
OneBegun == \A t, u \in Conn : pc[t] \in Begun /\ pc[u] \in Begun => t = u
VersionIsOwn == \A t \in Conn : pc[t] \in {"scheduled", "looping"} => version \in {0, t}

\* InOrderOnce says nothing of the messages that are kept for later, nor OwnVersion
\* of which task may set a version: these parts do.
FlowInv == FlowTypes /\ (\A c \in Conn : Ordered(c)) /\ OneBegun /\ VersionIsOwn

LEMMA FlowStart == Init => FlowInv
<1>. SUFFICES ASSUME Init PROVE FlowInv
  OBVIOUS
<1>1. FlowTypes
  BY EmptySeq DEF Init, FlowTypes
<1>2. \A c \in Conn : /\ pc[c] = "idle" /\ dispatched[c] = <<>> /\ delayed[c] = <<>>
                      /\ taken[c] = 0 /\ arrived[c] = 0 /\ sent[c] = <<>>
  BY DEF Init
<1>3. ASSUME NEW c \in Conn PROVE Ordered(c)
  BY <1>2, EmptySeq DEF Ordered, OneAnswer, Within, KeptForLater
<1>4. OneBegun /\ VersionIsOwn
  BY <1>2 DEF OneBegun, VersionIsOwn, Begun, Reading
<1>. QED BY <1>1, <1>3, <1>4 DEF FlowInv

\* A connection that a step leaves alone stays as it is.
SameAt(c) == /\ pc'[c] = pc[c] /\ sent'[c] = sent[c] /\ arrived'[c] = arrived[c]
             /\ taken'[c] = taken[c] /\ delayed'[c] = delayed[c]
             /\ dispatched'[c] = dispatched[c]

LEMMA SameOrdered == ASSUME NEW c \in Conn, Ordered(c), SameAt(c) PROVE Ordered(c)'
BY DEF Ordered, OneAnswer, Within, KeptForLater, Told, SameAt

\* A step that takes no message leaves in order what it does not start.
LEMMA NoMessageOrdered ==
    ASSUME NEW c \in Conn, Ordered(c),
           sent'[c] = sent[c], arrived'[c] = arrived[c], delayed'[c] = delayed[c],
           dispatched'[c] = dispatched[c],
           taken'[c] \div 2 = taken[c] \div 2, taken'[c] <= arrived[c],
           \/ pc'[c] \in {"stopped", "failed"} \cup {pc[c]}
           \/ pc'[c] = "looping" /\ pc[c] = "scheduled"
           \/ pc'[c] \in {"opening", "negotiating"} /\ pc[c] \in {"idle", "opening"}
    PROVE  Ordered(c)'
<1>1. OneAnswer(c)' /\ Within(c)'
  BY DEF Ordered, OneAnswer, Within
<1>2. pc'[c] \in {"idle", "opening", "negotiating"} => KeptForLater(c)'
  BY DEF Ordered, KeptForLater
<1>3. ASSUME dispatched'[c] # <<>> \/ pc'[c] \in {"scheduled", "looping"}
      PROVE  \E v \in Nat : Told(c, v)'
  <2>1. PICK v \in Nat : Told(c, v)
    BY <1>3 DEF Ordered
  <2>. QED BY <1>3, <2>1 DEF Told, Ordered, KeptForLater
<1>. QED BY <1>1, <1>2, <1>3 DEF Ordered

\* The network brings messages and ends connections; it answers a negotiation once.
LEMMA SendOrdered ==
    ASSUME IInv, FlowInv, NEW c \in Conn, NEW k \in Kind, Send(c, k)
    PROVE  FlowInv'
<1>1. /\ sent' = [sent EXCEPT ![c] = Append(@, k)] /\ arrived' = [arrived EXCEPT ![c] = @ + 1]
      /\ arrived[c] = 2 * Len(sent[c]) /\ (k = "version" => ~Answered(c))
      /\ UNCHANGED <<reader, writer, version, pc, on, size, delayed, taken, dispatched>>
  BY DEF Send, attributes, task
<1>2. /\ sent[c] \in Seq(Kind) /\ Len(sent[c]) \in Nat
      /\ sent'[c] = Append(sent[c], k) /\ Append(sent[c], k) \in Seq(Kind)
      /\ Len(sent'[c]) = Len(sent[c]) + 1 /\ sent'[c][Len(sent[c]) + 1] = k
      /\ \A i \in 1..Len(sent[c]) : sent'[c][i] = sent[c][i]
  BY <1>1, LenProperties, AppendProperties DEF FlowInv, FlowTypes
<1>3. FlowTypes'
  <2>1. sent' \in [Conn -> Seq(Kind)]
    BY <1>1, <1>2 DEF FlowInv, FlowTypes
  <2>. QED BY <1>1, <2>1 DEF FlowInv, FlowTypes
<1>4. arrived'[c] = arrived[c] + 1 /\ arrived[c] \in Nat /\ taken[c] \in Nat
  BY <1>1 DEF FlowInv, FlowTypes, IInv, Shape
<1>5. OneAnswer(c)'
  <2>. SUFFICES ASSUME NEW i \in 1..(Len(sent[c]) + 1), NEW j \in 1..(Len(sent[c]) + 1),
                       sent'[c][i] = "version", sent'[c][j] = "version"
                PROVE  i = j
    BY <1>2 DEF OneAnswer
  <2>1. OneAnswer(c)
    BY DEF FlowInv, Ordered
  <2>2. k = "version" => \A n \in 1..Len(sent[c]) : sent[c][n] # "version"
    BY <1>1 DEF Answered
  <2>3. /\ i \in 1..Len(sent[c]) \/ i = Len(sent[c]) + 1
        /\ j \in 1..Len(sent[c]) \/ j = Len(sent[c]) + 1
    BY <1>2
  <2>. QED BY <1>2, <2>1, <2>2, <2>3 DEF OneAnswer
<1>6. Ordered(c)'
  <2>0. Ordered(c)
    BY DEF FlowInv
  <2>1. Within(c)'
    BY <1>1, <1>2, <1>4, <2>0 DEF Ordered, Within
  <2>2. taken[c] \div 2 <= Len(sent[c])
    BY <1>1, <1>2, <1>4, <2>0 DEF Ordered, Within
  <2>3. \A i \in 1..(taken[c] \div 2) : sent'[c][i] = sent[c][i]
    BY <1>2, <1>4, <2>2
  <2>4. pc'[c] \in {"idle", "opening", "negotiating"} => KeptForLater(c)'
    BY <1>1, <2>0, <2>3 DEF Ordered, KeptForLater
  <2>5. ASSUME dispatched'[c] # <<>> \/ pc'[c] \in {"scheduled", "looping"}
        PROVE  \E v \in Nat : Told(c, v)'
    <3>1. PICK v \in Nat : Told(c, v)
      BY <1>1, <2>0, <2>5 DEF Ordered
    <3>. QED BY <1>1, <2>3, <3>1 DEF Told
  <2>. QED BY <1>5, <2>1, <2>4, <2>5 DEF Ordered
<1>7. ASSUME NEW d \in Conn, d # c PROVE Ordered(d)'
  <2>1. SameAt(d)
    BY <1>1, <1>7 DEF SameAt, FlowInv, FlowTypes
  <2>. QED BY <2>1, SameOrdered DEF FlowInv
<1>8. OneBegun' /\ VersionIsOwn'
  BY <1>1 DEF FlowInv, OneBegun, VersionIsOwn
<1>. QED BY <1>3, <1>6, <1>7, <1>8 DEF FlowInv

LEMMA CompleteOrdered ==
    ASSUME IInv, FlowInv, NEW c \in Conn, Complete(c) \/ Lost(c)
    PROVE  FlowInv'
<1>1. /\ UNCHANGED <<reader, writer, version, pc, on, size, delayed, sent, taken, dispatched>>
      /\ \/ arrived' = arrived
         \/ arrived' = [arrived EXCEPT ![c] = @ + 1] /\ arrived[c] < 2 * Len(sent[c])
  BY DEF Complete, Lost, attributes, task
<1>2. /\ \A d \in Conn : arrived[d] \in Nat /\ Len(sent[d]) \in Nat /\ taken[d] \in Nat
  BY LenProperties DEF FlowInv, FlowTypes, IInv, Shape
<1>3. /\ arrived' \in [Conn -> Nat]
      /\ \A d \in Conn : \/ arrived'[d] = arrived[d]
                         \/ arrived'[d] = arrived[d] + 1 /\ arrived[d] < 2 * Len(sent[d])
  <2>0. arrived \in [Conn -> Nat]
    BY DEF FlowInv, FlowTypes
  <2>1. CASE arrived' = arrived
    BY <2>0, <2>1
  <2>2. CASE arrived' = [arrived EXCEPT ![c] = @ + 1] /\ arrived[c] < 2 * Len(sent[c])
    <3>1. arrived' = [d \in Conn |-> IF d = c THEN arrived[c] + 1 ELSE arrived[d]]
      BY <2>0, <2>2
    <3>2. arrived' \in [Conn -> Nat]
      BY <1>2, <3>1
    <3>3. \A d \in Conn : \/ arrived'[d] = arrived[d]
                          \/ arrived'[d] = arrived[d] + 1 /\ arrived[d] < 2 * Len(sent[d])
      BY <2>2, <3>1
    <3>. QED BY <3>2, <3>3
  <2>. QED BY <1>1, <2>1, <2>2
<1>4. ASSUME NEW d \in Conn PROVE Ordered(d)'
  <2>1. Within(d)'
    BY <1>1, <1>2, <1>3 DEF FlowInv, Ordered, Within
  <2>. QED BY <1>1, <2>1 DEF FlowInv, Ordered, OneAnswer, KeptForLater, Told
<1>. QED BY <1>1, <1>3, <1>4 DEF FlowInv, FlowTypes, OneBegun, VersionIsOwn

-----------------------------------------------------------------------------
\* A step of a task leaves the other connections as they were.
LEMMA TaskFlow ==
    ASSUME IInv, FlowInv, NEW t \in Conn, TaskStep(t), sent' = sent, arrived' = arrived,
           delayed' \in [Conn -> Seq(Conn \X Nat)], dispatched' \in [Conn -> Seq(Nat)],
           \A d \in Conn \ {t} : delayed'[d] = delayed[d] /\ dispatched'[d] = dispatched[d],
           Ordered(t)',
           pc'[t] \in {"scheduled", "looping"} => version' \in {0, t}
    PROVE  FlowInv'
<1>1. FlowTypes'
  BY DEF FlowInv, FlowTypes
<1>2. ASSUME NEW d \in Conn PROVE Ordered(d)'
  <2>1. CASE d # t
    <3>1. SameAt(d)
      BY <2>1 DEF SameAt, TaskStep
    <3>. QED BY <3>1, SameOrdered DEF FlowInv
  <2>. QED BY <2>1
<1>3. pc[t] \in Begun /\ \A u \in Conn \ {t} : pc[u] \notin Begun /\ pc'[u] = pc[u]
  BY DEF FlowInv, OneBegun, TaskStep
<1>4. OneBegun' /\ VersionIsOwn'
  BY <1>3 DEF OneBegun, VersionIsOwn, Begun, Reading
<1>. QED BY <1>1, <1>2, <1>4 DEF FlowInv

LEMMA ReadSizeFlow ==
    ASSUME IInv, FlowInv, NEW t \in Conn, ReadSize(t) PROVE FlowInv'
<1>1. TaskStep(t)
  BY ReadSizeStep
<1>2. /\ on[t] = t /\ pc[t] \in Reading /\ size[t] = <<>> /\ taken[t] % 2 = 0
      /\ taken[t] \in Nat /\ arrived[t] \in Nat
  BY DEF IInv, Shape, ReadsOwn, Halves, ReadSize, FlowInv, FlowTypes
<1>3. /\ taken' = [taken EXCEPT ![t] = @ + 1] /\ arrived[t] > taken[t]
      /\ sent' = sent /\ arrived' = arrived /\ delayed' = delayed
      /\ dispatched' = dispatched /\ version' = version
      /\ ReadNext(t, pc[t])
  BY <1>2 DEF ReadSize, Take, Available, attributes, wire
<1>4. taken'[t] = taken[t] + 1 /\ taken'[t] \div 2 = taken[t] \div 2 /\ taken'[t] <= arrived[t]
  <2>1. taken'[t] = taken[t] + 1
    BY <1>3 DEF IInv, Shape
  <2>. QED BY <1>2, <1>3, <2>1
<1>5. pc'[t] \in {"failed", pc[t]}
  BY <1>2, <1>3, ReadNextFacts
<1>6. Ordered(t)'
  BY <1>3, <1>4, <1>5, NoMessageOrdered DEF FlowInv
<1>7. pc'[t] \in {"scheduled", "looping"} => version' \in {0, t}
  BY <1>3, <1>5 DEF FlowInv, VersionIsOwn
<1>. QED BY <1>1, <1>3, <1>6, <1>7, TaskFlow DEF FlowInv, FlowTypes

LEMMA IdleFlow ==
    ASSUME IInv, FlowInv, NEW t \in Conn, ReadFails(t) \/ StartLoop(t) PROVE FlowInv'
<1>1. /\ sent' = sent /\ arrived' = arrived /\ delayed' = delayed /\ taken' = taken
      /\ dispatched' = dispatched /\ version' = version /\ reader' = reader /\ eof' = eof
      /\ size' = size
  BY DEF ReadFails, StartLoop, attributes, wire
<1>2. TaskStep(t) /\ (\/ pc'[t] \in {"stopped", "failed"}
                      \/ pc'[t] = "looping" /\ pc[t] = "scheduled")
  <2>1. CASE ReadFails(t)
    BY <1>1, <2>1, LeaveFacts DEF IInv, Shape, TaskStep, ReadFails, Begun
  <2>2. CASE StartLoop(t)
    <3>1. pc[t] = "scheduled" /\ LoopAgain(t) /\ taken[t] % 2 = 0 /\ size[t] = <<>>
      BY <2>2 DEF StartLoop, IInv, Halves
    <3>2. TaskStep(t)
      BY <1>1, <3>1, LoopAgainFacts DEF IInv, Shape, TaskStep, Begun
    <3>3. pc'[t] \in {"stopped", "failed", "looping"}
      <4>1. CASE reader = 0
        BY <3>1, <4>1, LeaveFacts DEF LoopAgain
      <4>2. CASE reader # 0
        BY <3>1, <4>2, ReadNextFacts DEF LoopAgain, Reading
      <4>. QED BY <4>1, <4>2
    <3>. QED BY <3>1, <3>2, <3>3
  <2>. QED BY <2>1, <2>2
<1>3. Ordered(t) /\ taken[t] <= arrived[t]
  BY DEF FlowInv, Ordered, Within
<1>4. Ordered(t)'
  BY <1>1, <1>2, <1>3, NoMessageOrdered
<1>5. pc'[t] \in {"scheduled", "looping"} => version' \in {0, t}
  BY <1>1, <1>2 DEF FlowInv, VersionIsOwn
<1>. QED BY <1>1, <1>2, <1>4, <1>5, TaskFlow DEF FlowInv, FlowTypes

\* The message that a task has read is the next of its own connection.
LEMMA BodyIs ==
    ASSUME IInv, FlowInv, NEW t \in Conn, NEW m \in Message, Body(t, m)
    PROVE  /\ m = <<t, taken[t] \div 2 + 1>> /\ m[1] = t /\ m[2] = taken[t] \div 2 + 1
           /\ taken[t] \in Nat /\ taken'[t] = taken[t] + 1
           /\ taken'[t] \div 2 = taken[t] \div 2 + 1
           /\ taken'[t] <= arrived[t] /\ taken'[t] \div 2 <= Len(sent[t])
           /\ KindOf(m) = sent[t][taken[t] \div 2 + 1]
           /\ sent' = sent /\ arrived' = arrived
           /\ OneAnswer(t)' /\ Within(t)'
<1>1. m # <<>>
  BY DEF Message
<1>2. /\ on[t] = t /\ pc[t] \in Reading /\ size[t] = m /\ taken[t] % 2 = 1
      /\ m = NextMessage(t)
  BY <1>1 DEF IInv, ReadsOwn, Halves, Body
<1>3. /\ taken' = [taken EXCEPT ![t] = @ + 1] /\ arrived[t] > taken[t]
      /\ sent' = sent /\ arrived' = arrived
  BY <1>2 DEF Body, Take, Available, wire
<1>4. /\ taken[t] \in Nat /\ arrived[t] \in Nat /\ Len(sent[t]) \in Nat
      /\ taken'[t] = taken[t] + 1
  BY <1>3, LenProperties DEF IInv, Shape, FlowInv, FlowTypes
<1>5. taken'[t] \div 2 = taken[t] \div 2 + 1
  BY <1>2, <1>4
<1>6. arrived[t] <= 2 * Len(sent[t]) /\ OneAnswer(t)
  BY DEF FlowInv, Ordered, Within
<1>7. taken'[t] <= arrived[t] /\ taken'[t] \div 2 <= Len(sent[t])
  BY <1>3, <1>4, <1>6
<1>8. m = <<t, taken[t] \div 2 + 1>> /\ m[1] = t /\ m[2] = taken[t] \div 2 + 1
  BY <1>2 DEF NextMessage
<1>9. KindOf(m) = sent[t][taken[t] \div 2 + 1]
  BY <1>8 DEF KindOf
<1>10. OneAnswer(t)' /\ Within(t)'
  BY <1>3, <1>6, <1>7 DEF OneAnswer, Within
<1>. QED BY <1>3, <1>4, <1>5, <1>7, <1>8, <1>9, <1>10

LEMMA EarlyFlow ==
    ASSUME IInv, FlowInv, NEW t \in Conn, NEW m \in Message, EarlyMessage(t, m)
    PROVE  FlowInv'
<1>1. TaskStep(t)
  BY BodyStep
<1>2. /\ Body(t, m) /\ pc[t] = "negotiating" /\ KindOf(m) = "message"
      /\ delayed' = [delayed EXCEPT ![t] = Append(@, m)]
      /\ ReadNext(t, "negotiating") /\ version' = version /\ dispatched' = dispatched
  BY DEF EarlyMessage, Postpone
<1>3. pc'[t] \in {"failed", "negotiating"}
  BY <1>2, ReadNextFacts DEF Reading
<1>. DEFINE n == taken[t] \div 2
<1>4. /\ n \in Nat /\ m = <<t, n + 1>> /\ taken'[t] \div 2 = n + 1
      /\ sent[t][n + 1] = "message" /\ sent' = sent /\ arrived' = arrived
      /\ OneAnswer(t)' /\ Within(t)'
  BY <1>2, BodyIs
<1>5. KeptForLater(t)
  BY <1>2 DEF FlowInv, Ordered
<1>. HIDE DEF n
<1>6. /\ delayed[t] \in Seq(Conn \X Nat) /\ m \in Conn \X Nat /\ Len(delayed[t]) = n
      /\ Append(delayed[t], m) \in Seq(Conn \X Nat)
      /\ Len(Append(delayed[t], m)) = n + 1 /\ Append(delayed[t], m)[n + 1] = m
      /\ \A i \in 1..n : Append(delayed[t], m)[i] = delayed[t][i]
  BY <1>4, <1>5, AppendProperties DEF FlowInv, FlowTypes, KeptForLater, n
<1>7. /\ delayed' \in [Conn -> Seq(Conn \X Nat)] /\ delayed'[t] = Append(delayed[t], m)
      /\ \A d \in Conn \ {t} : delayed'[d] = delayed[d]
  BY <1>2, <1>6 DEF FlowInv, FlowTypes
<1>8. KeptForLater(t)'
  <2>1. \A i \in 1..n : delayed'[t][i] = <<t, i>> /\ sent'[t][i] # "version"
    BY <1>4, <1>5, <1>6, <1>7 DEF KeptForLater
  <2>2. delayed'[t][n + 1] = <<t, n + 1>> /\ sent'[t][n + 1] # "version"
    BY <1>4, <1>6, <1>7
  <2>3. Len(delayed'[t]) = n + 1 /\ taken'[t] \div 2 = n + 1 /\ dispatched'[t] = <<>>
    BY <1>2, <1>4, <1>5, <1>6, <1>7 DEF KeptForLater
  <2>4. \A i \in 1..(n + 1) : i \in 1..n \/ i = n + 1
    BY <1>4
  <2>. QED BY <2>1, <2>2, <2>3, <2>4 DEF KeptForLater
<1>9. Ordered(t)'
  BY <1>3, <1>4, <1>8 DEF Ordered, KeptForLater
<1>. QED BY <1>1, <1>2, <1>3, <1>4, <1>7, <1>9, TaskFlow DEF FlowInv, FlowTypes

LEMMA NotAVersionFlow ==
    ASSUME IInv, FlowInv, NEW t \in Conn, NEW m \in Message, NotAVersion(t, m)
    PROVE  FlowInv'
<1>1. TaskStep(t)
  BY BodyStep
<1>2. /\ Body(t, m) /\ pc[t] = "negotiating" /\ Leave(t, "failed")
      /\ version' = version /\ dispatched' = dispatched /\ delayed' = delayed
  BY DEF NotAVersion
<1>3. pc'[t] = "failed" /\ sent' = sent /\ arrived' = arrived /\ OneAnswer(t)' /\ Within(t)'
  BY <1>2, LeaveFacts, BodyIs
<1>4. Ordered(t)'
  BY <1>2, <1>3 DEF FlowInv, Ordered, KeptForLater
<1>. QED BY <1>1, <1>2, <1>3, <1>4, TaskFlow DEF FlowInv, FlowTypes

\* Dispatching the first n messages of a connection, from none on.
UpToN(n) == [i \in 1..n |-> i]

LEMMA CountOn == ASSUME NEW n \in Nat
                 PROVE  /\ UpToN(0) = <<>> /\ UpToN(n) \in Seq(Nat) /\ Len(UpToN(n)) = n
                        /\ Append(UpToN(n), n + 1) = UpToN(n + 1)
<1>1. UpToN(0) = <<>>
  BY DEF UpToN
<1>2. UpToN(n) \in Seq(Nat) /\ UpToN(n + 1) \in Seq(Nat)
  BY DEF UpToN
<1>3. Len(UpToN(n)) = n /\ Len(UpToN(n + 1)) = n + 1
  BY DEF UpToN
<1>4. /\ Append(UpToN(n), n + 1) \in Seq(Nat) /\ Len(Append(UpToN(n), n + 1)) = n + 1
      /\ \A i \in 1..n : Append(UpToN(n), n + 1)[i] = UpToN(n)[i]
      /\ Append(UpToN(n), n + 1)[n + 1] = n + 1
  BY <1>2, <1>3, AppendProperties
<1>5. \A i \in 1..(n + 1) : Append(UpToN(n), n + 1)[i] = UpToN(n + 1)[i]
  <2>. SUFFICES ASSUME NEW i \in 1..(n + 1)
                PROVE  Append(UpToN(n), n + 1)[i] = UpToN(n + 1)[i]
    OBVIOUS
  <2>1. CASE i \in 1..n
    <3>1. UpToN(n)[i] = i /\ UpToN(n + 1)[i] = i
      BY <2>1 DEF UpToN
    <3>. QED BY <1>4, <2>1, <3>1
  <2>2. CASE i = n + 1
    <3>1. UpToN(n + 1)[n + 1] = n + 1
      BY DEF UpToN
    <3>. QED BY <1>4, <2>2, <3>1
  <2>3. i \in 1..n \/ i = n + 1
    OBVIOUS
  <2>. QED BY <2>1, <2>2, <2>3
<1>6. Append(UpToN(n), n + 1) = UpToN(n + 1)
  BY <1>2, <1>3, <1>4, <1>5, SeqEqual
<1>. QED BY <1>1, <1>2, <1>3, <1>6

LEMMA EarlyOnesLogged ==
    ASSUME NEW t \in Conn, dispatched \in [Conn -> Seq(Nat)], dispatched[t] = <<>>,
           NEW n \in Nat, NEW ms \in Seq(Conn \X Nat), Len(ms) = n,
           \A i \in 1..n : ms[i] = <<t, i>>
    PROVE  FoldLeft(Log, dispatched, ms) = [dispatched EXCEPT ![t] = UpToN(n)]
<1>. DEFINE At(k) == [dispatched EXCEPT ![t] = UpToN(k)]
            g == [k \in 0..n |-> At(k)]
<1>1. At(0) = dispatched
  <2>1. UpToN(0) = dispatched[t]
    BY CountOn
  <2>. QED BY <2>1
<1>2. ASSUME NEW k \in 1..n PROVE At(k) = Log(At(k - 1), ms[k])
  <2>1. k - 1 \in Nat /\ (k - 1) + 1 = k
    OBVIOUS
  <2>2. Append(UpToN(k - 1), k) = UpToN(k)
    BY <2>1, CountOn
  <2>3. ms[k] = <<t, k>> /\ ms[k][1] = t /\ ms[k][2] = k
    OBVIOUS
  <2>4. At(k - 1)[t] = UpToN(k - 1)
    OBVIOUS
  <2>5. Log(At(k - 1), ms[k]) = [At(k - 1) EXCEPT ![t] = Append(UpToN(k - 1), k)]
    BY <2>3, <2>4 DEF Log
  <2>. QED BY <2>2, <2>5
<1>. HIDE DEF At
<1>3. L!IsPath(g, dispatched, ms)
  <2>1. g[0] = dispatched
    BY <1>1
  <2>2. ASSUME NEW k \in 1..Len(ms) PROVE g[k] = Log(g[k - 1], ms[k])
    <3>1. k \in 1..n /\ k \in 0..n /\ k - 1 \in 0..n
      OBVIOUS
    <3>. QED BY <1>2, <3>1
  <2>. HIDE DEF g
  <2>. QED BY <2>1, <2>2 DEF L!IsPath
<1>4. Len(ms) \in Nat /\ DOMAIN ms = 1..Len(ms)
  BY LenProperties
<1>5. L!FoldLeft(Log, dispatched, ms) = g[Len(ms)]
  <2>. HIDE DEF g
  <2>. QED BY <1>3, <1>4, L!FoldIs
<1>6. FoldLeft(Log, dispatched, ms) = L!FoldLeft(Log, dispatched, ms)
  BY Zenon DEF FoldLeft, MapThenFoldSet, Max, L!FoldLeft, L!MapThenFoldSet, L!Max
<1>7. g[n] = At(n)
  OBVIOUS
<1>. QED BY <1>5, <1>6, <1>7 DEF At

LEMMA NegotiatedFlow ==
    ASSUME IInv, FlowInv, NEW t \in Conn, NEW m \in Message, Negotiated(t, m)
    PROVE  FlowInv' /\ \A d \in Conn \ {t} : dispatched'[d] = dispatched[d]
<1>1. TaskStep(t)
  BY BodyStep
<1>. DEFINE n == taken[t] \div 2
<1>2. /\ Body(t, m) /\ pc[t] = "negotiating" /\ KindOf(m) = "version"
      /\ version' = m[1] /\ delayed' = [delayed EXCEPT ![t] = <<>>]
  BY DEF Negotiated
<1>3. /\ n \in Nat /\ m[1] = t /\ taken'[t] \div 2 = n + 1
      /\ sent[t][n + 1] = "version" /\ sent' = sent /\ arrived' = arrived
      /\ OneAnswer(t)' /\ Within(t)'
  BY <1>2, BodyIs
<1>4. KeptForLater(t)
  BY <1>2 DEF FlowInv, Ordered
<1>5. /\ delayed[t] \in Seq(Conn \X Nat) /\ Len(delayed[t]) = n /\ dispatched[t] = <<>>
      /\ \A i \in 1..n : delayed[t][i] = <<t, i>>
  BY <1>4 DEF FlowInv, FlowTypes, KeptForLater
<1>. HIDE DEF n
<1>6. /\ delayed' \in [Conn -> Seq(Conn \X Nat)]
      /\ \A d \in Conn \ {t} : delayed'[d] = delayed[d]
  <2>1. <<>> \in Seq(Conn \X Nat)
    OBVIOUS
  <2>. QED BY <1>2, <2>1 DEF FlowInv, FlowTypes
<1>7. CASE writer = 0
  <2>1. Leave(t, "failed") /\ dispatched' = dispatched
    BY <1>7 DEF Negotiated
  <2>2. pc'[t] = "failed"
    BY <2>1, LeaveFacts
  <2>3. Ordered(t)'
    BY <1>3, <1>5, <2>1, <2>2 DEF Ordered
  <2>. QED BY <1>1, <1>3, <1>6, <2>1, <2>2, <2>3, TaskFlow DEF FlowInv, FlowTypes
<1>8. CASE writer # 0
  <2>1. PICK k \in 0..n :
            /\ dispatched' = FoldLeft(Log, dispatched, SubSeq(delayed[t], 1, k))
            /\ \/ Leave(t, "failed") /\ k > 0
               \/ Leave(t, "scheduled") /\ k = n
    BY <1>5, <1>8 DEF Negotiated
  <2>. DEFINE ms == SubSeq(delayed[t], 1, k)
  <2>2. /\ ms \in Seq(Conn \X Nat) /\ Len(ms) = k
        /\ \A i \in 1..k : ms[i] = delayed[t][i]
    <3>1. 1 \in Int /\ k \in Nat /\ \A i \in 1..k : delayed[t][i] \in Conn \X Nat
      BY <1>3, <1>5
    <3>2. /\ SubSeq(delayed[t], 1, k) \in Seq(Conn \X Nat)
          /\ Len(SubSeq(delayed[t], 1, k)) = IF 1 <= k THEN k - 1 + 1 ELSE 0
          /\ \A i \in 1..(k - 1 + 1) : SubSeq(delayed[t], 1, k)[i] = delayed[t][1 + i - 1]
      BY <3>1, SubSeqProperties
    <3>. QED BY <3>1, <3>2
  <2>3. \A i \in 1..k : ms[i] = <<t, i>>
    BY <1>3, <1>5, <2>2
  <2>. HIDE DEF ms
  <2>4. dispatched \in [Conn -> Seq(Nat)] /\ k \in Nat
    BY <1>3 DEF FlowInv, FlowTypes
  <2>5. FoldLeft(Log, dispatched, ms) = [dispatched EXCEPT ![t] = UpToN(k)]
    BY <1>5, <2>2, <2>3, <2>4, EarlyOnesLogged
  <2>6. dispatched' = [dispatched EXCEPT ![t] = UpToN(k)]
    BY <2>1, <2>5 DEF ms
  <2>7. /\ UpToN(k) \in Seq(Nat) /\ Len(UpToN(k)) = k
        /\ \A i \in 1..k : UpToN(k)[i] = i
    BY <2>4, CountOn DEF UpToN
  <2>8. /\ dispatched' \in [Conn -> Seq(Nat)] /\ dispatched'[t] = UpToN(k)
        /\ \A d \in Conn \ {t} : dispatched'[d] = dispatched[d]
    BY <2>4, <2>6, <2>7
  <2>9. pc'[t] = "failed" \/ (pc'[t] = "scheduled" /\ k = n)
    BY <2>1, LeaveFacts
  <2>10. PICK v \in Nat : v = n + 1
    BY <1>3
  <2>11. Told(t, v)'
    <3>1. v \in 1..(taken'[t] \div 2) /\ sent'[t][v] = "version"
      BY <1>3, <2>10
    <3>2. Len(dispatched'[t]) = k /\ k <= taken'[t] \div 2 - 1
      BY <1>3, <2>7, <2>8
    <3>3. pc'[t] \in {"scheduled", "looping"} => k = taken'[t] \div 2 - 1
      BY <1>3, <2>9
    <3>4. \A i \in 1..k : i < v /\ dispatched'[t][i] = i
      BY <1>3, <2>7, <2>8, <2>10
    <3>. QED BY <3>1, <3>2, <3>3, <3>4 DEF Told
  <2>12. Ordered(t)'
    BY <1>3, <2>9, <2>11 DEF Ordered
  <2>13. version' = t
    BY <1>2, <1>3
  <2>. QED BY <1>1, <1>3, <1>6, <2>8, <2>12, <2>13, TaskFlow
<1>. QED BY <1>7, <1>8

LEMMA DispatchFlow ==
    ASSUME IInv, FlowInv, NEW t \in Conn, NEW m \in Message, Dispatch(t, m)
    PROVE  /\ FlowInv'
           /\ dispatched' # dispatched => version' = t
           /\ \A d \in Conn \ {t} : dispatched'[d] = dispatched[d]
<1>1. TaskStep(t)
  BY BodyStep
<1>. DEFINE n == taken[t] \div 2
<1>2. /\ Body(t, m) /\ pc[t] = "looping" /\ version' = version /\ delayed' = delayed
  BY DEF Dispatch
<1>3. /\ n \in Nat /\ m[1] = t /\ m[2] = n + 1 /\ taken'[t] \div 2 = n + 1
      /\ sent' = sent /\ arrived' = arrived /\ OneAnswer(t)' /\ Within(t)'
  BY <1>2, BodyIs
<1>4. Ordered(t) /\ dispatched \in [Conn -> Seq(Nat)]
  BY DEF FlowInv, FlowTypes
<1>5. PICK v \in Nat : Told(t, v)
  BY <1>2, <1>4 DEF Ordered
<1>6. /\ v \in 1..n /\ sent[t][v] = "version" /\ Len(dispatched[t]) = n - 1
      /\ \A i \in 1..(n - 1) : dispatched[t][i] = IF i < v THEN i ELSE i + 1
  BY <1>2, <1>5 DEF Told
<1>. HIDE DEF n
<1>7. version \in {0, t}
  BY <1>2 DEF FlowInv, VersionIsOwn
<1>8. CASE version = 0
  <2>1. Leave(t, "failed") /\ dispatched' = dispatched
    BY <1>8 DEF Dispatch
  <2>2. pc'[t] = "failed"
    BY <2>1, LeaveFacts
  <2>3. Told(t, v)'
    BY <1>3, <1>6, <2>1, <2>2 DEF Told
  <2>4. Ordered(t)'
    BY <1>3, <2>2, <2>3 DEF Ordered
  <2>5. FlowInv'
    BY <1>1, <1>2, <1>3, <1>4, <2>1, <2>2, <2>4, TaskFlow DEF FlowInv, FlowTypes
  <2>. QED BY <2>1, <2>5
<1>9. CASE version # 0
  <2>1. /\ dispatched' = [dispatched EXCEPT ![t] = Append(@, n + 1)]
        /\ LoopAgain(t) \/ Leave(t, "failed")
    BY <1>3, <1>9 DEF Dispatch, Log
  <2>2. pc'[t] \in {"stopped", "failed", "looping", "negotiating"}
    <3>1. CASE LoopAgain(t)
      BY <3>1, LoopAgainFacts DEF Reading
    <3>2. CASE Leave(t, "failed")
      BY <3>2, LeaveFacts
    <3>. QED BY <2>1, <3>1, <3>2
  <2>3. pc'[t] # "negotiating"
    <3>1. CASE reader = 0 /\ LoopAgain(t)
      BY <3>1, LeaveFacts DEF LoopAgain
    <3>2. CASE reader # 0 /\ LoopAgain(t)
      BY <3>2, ReadNextFacts DEF LoopAgain, Reading
    <3>3. CASE Leave(t, "failed")
      BY <3>3, LeaveFacts
    <3>. QED BY <2>1, <3>1, <3>2, <3>3
  <2>4. /\ dispatched[t] \in Seq(Nat) /\ n + 1 \in Nat
        /\ Append(dispatched[t], n + 1) \in Seq(Nat)
        /\ Len(Append(dispatched[t], n + 1)) = n
        /\ Append(dispatched[t], n + 1)[n] = n + 1
        /\ \A i \in 1..(n - 1) : Append(dispatched[t], n + 1)[i] = dispatched[t][i]
    <3>1. dispatched[t] \in Seq(Nat) /\ n + 1 \in Nat /\ (n - 1) + 1 = n
      BY <1>3, <1>4
    <3>. QED BY <1>6, <3>1, AppendProperties
  <2>5. /\ dispatched' \in [Conn -> Seq(Nat)]
        /\ dispatched'[t] = Append(dispatched[t], n + 1)
        /\ \A d \in Conn \ {t} : dispatched'[d] = dispatched[d]
    BY <1>4, <2>1, <2>4
  <2>6. Told(t, v)'
    <3>1. /\ v \in 1..(taken'[t] \div 2) /\ sent'[t][v] = "version"
          /\ Len(dispatched'[t]) = taken'[t] \div 2 - 1
      BY <1>3, <1>6, <2>4, <2>5
    <3>2. ASSUME NEW i \in 1..n PROVE dispatched'[t][i] = IF i < v THEN i ELSE i + 1
      <4>1. CASE i = n
        BY <1>3, <1>6, <2>4, <2>5, <4>1
      <4>2. CASE i # n
        <5>1. i \in 1..(n - 1)
          BY <1>3, <4>2
        <5>. QED BY <1>6, <2>4, <2>5, <5>1
      <4>. QED BY <4>1, <4>2
    <3>3. Len(dispatched'[t]) = n
      BY <2>4, <2>5
    <3>. QED BY <3>1, <3>2, <3>3 DEF Told
  <2>7. Ordered(t)'
    BY <1>3, <2>2, <2>3, <2>6 DEF Ordered
  <2>8. FlowInv'
    BY <1>1, <1>2, <1>3, <1>4, <1>7, <2>5, <2>7, TaskFlow DEF FlowInv, FlowTypes
  <2>. QED BY <1>2, <1>7, <1>9, <2>5, <2>8
<1>. QED BY <1>8, <1>9

\* The application closes connections and makes new ones.
LEMMA ConnectFlow ==
    ASSUME IInv, FlowInv, NEW t \in Conn, Connect(t) \/ Opened(t) \/ ConnectFails(t)
    PROVE  FlowInv'
<1>1. /\ sent' = sent /\ arrived' = arrived /\ delayed' = delayed /\ taken' = taken
      /\ dispatched' = dispatched
  BY DEF Connect, Opened, ConnectFails, attributes, wire
<1>2. /\ \A u \in Conn \ {t} : pc'[u] = pc[u]
      /\ \/ pc[t] = "idle" /\ pc'[t] = "opening" /\ version' = 0
         \/ pc[t] = "opening" /\ pc'[t] = "negotiating" /\ version' = version
         \/ pc'[t] = "failed" /\ version' = version
  <2>1. CASE Connect(t)
    BY <2>1 DEF Connect, IInv, Shape
  <2>2. CASE Opened(t)
    BY <2>2 DEF Opened, IInv, Shape
  <2>3. CASE ConnectFails(t)
    BY <2>3, LeaveFacts DEF ConnectFails, attributes
  <2>. QED BY <2>1, <2>2, <2>3
<1>3. ASSUME NEW d \in Conn PROVE Ordered(d)'
  <2>1. Ordered(d) /\ taken[d] <= arrived[d]
    BY DEF FlowInv, Ordered, Within
  <2>. QED BY <1>1, <1>2, <2>1, NoMessageOrdered
<1>4. OneBegun'
  <2>1. CASE Opened(t)
    <3>1. ASSUME NEW u \in Conn \ {t}, pc[u] \in Begun PROVE FALSE
      <4>1. reader = 0 /\ pc[u] \in Reading /\ on[u] = u /\ u # 0 /\ on[u] \notin eof
        BY <2>1, <3>1, ConnectionBounds
           DEF Opened, IInv, OpensAlone, ReadsOwn, Begun, Conn
      <4>. QED BY <4>1 DEF IInv, LeftIsEof
    <3>. QED BY <1>2, <3>1 DEF OneBegun
  <2>2. CASE Connect(t) \/ ConnectFails(t)
    <3>1. pc'[t] \notin Begun
      <4>1. CASE Connect(t)
        BY <4>1 DEF Connect, IInv, Shape, Begun, Reading
      <4>2. CASE ConnectFails(t)
        BY <4>2, LeaveFacts DEF ConnectFails, Begun, Reading
      <4>. QED BY <2>2, <4>1, <4>2
    <3>. QED BY <1>2, <3>1 DEF FlowInv, OneBegun
  <2>. QED BY <2>1, <2>2
<1>5. VersionIsOwn'
  BY <1>2 DEF FlowInv, VersionIsOwn
<1>. QED BY <1>1, <1>3, <1>4, <1>5 DEF FlowInv, FlowTypes

LEMMA RestFlow ==
    ASSUME IInv, FlowInv, Disconnect \/ UNCHANGED vars
    PROVE  FlowInv'
<1>1. /\ sent' = sent /\ arrived' = arrived /\ delayed' = delayed /\ taken' = taken
      /\ dispatched' = dispatched /\ pc' = pc /\ version' = version
  BY DEF Disconnect, vars, attributes, task, wire
<1>2. ASSUME NEW d \in Conn PROVE Ordered(d)'
  BY <1>1, SameOrdered DEF FlowInv, SameAt
<1>. QED BY <1>1, <1>2 DEF FlowInv, FlowTypes, OneBegun, VersionIsOwn

LEMMA NextFlow == IInv /\ FlowInv /\ [Next]_vars => FlowInv'
<1>. SUFFICES ASSUME IInv, FlowInv, [Next]_vars PROVE FlowInv'
  OBVIOUS
<1>1. ASSUME NEW t \in Conn, Run(t) PROVE FlowInv'
  BY <1>1, ReadSizeFlow, IdleFlow, EarlyFlow, NotAVersionFlow, NegotiatedFlow, DispatchFlow
     DEF Run
<1>2. ASSUME NEW t \in Conn, Connect(t) \/ Opened(t) \/ ConnectFails(t) PROVE FlowInv'
  BY <1>2, ConnectFlow
<1>3. ASSUME NEW c \in Conn, NEW k \in Kind, Send(c, k) PROVE FlowInv'
  BY <1>3, SendOrdered
<1>4. ASSUME NEW c \in Conn, Complete(c) \/ Lost(c) PROVE FlowInv'
  BY <1>4, CompleteOrdered
<1>5. CASE Disconnect \/ UNCHANGED vars
  BY <1>5, RestFlow
<1>. QED BY <1>1, <1>2, <1>3, <1>4, <1>5 DEF Next

\* What is dispatched of a connection is what came before and after the answer to
\* the negotiation: each message once, and in the order in which they were sent.
LEMMA ToldInOrder ==
    ASSUME IInv, FlowInv, NEW c \in Conn, NEW i \in 1..Len(dispatched[c])
    PROVE  /\ dispatched[c][i] \in 1..(arrived[c] \div 2)
           /\ sent[c][dispatched[c][i]] # "version"
           /\ {dispatched[c][j] : j \in 1..(i - 1)}
                = {k \in 1..(dispatched[c][i] - 1) : sent[c][k] # "version"}
<1>1. /\ Ordered(c) /\ dispatched[c] \in Seq(Nat) /\ sent[c] \in Seq(Kind)
      /\ taken[c] \in Nat /\ arrived[c] \in Nat
  BY DEF FlowInv, FlowTypes, IInv, Shape
<1>2. /\ Len(dispatched[c]) \in Nat /\ Len(sent[c]) \in Nat /\ dispatched[c] # <<>>
  BY <1>1, LenProperties, EmptySeq
<1>3. PICK v \in Nat : Told(c, v)
  BY <1>1, <1>2 DEF Ordered
<1>. DEFINE T == taken[c] \div 2
            d == dispatched[c]
<1>4. /\ T \in Nat /\ T <= arrived[c] \div 2 /\ arrived[c] \div 2 <= Len(sent[c])
  <2>1. taken[c] <= arrived[c] /\ arrived[c] <= 2 * Len(sent[c])
    BY <1>1 DEF Ordered, Within
  <2>. QED BY <1>1, <1>2, <2>1
<1>5. /\ v \in 1..T /\ sent[c][v] = "version" /\ Len(d) <= T - 1
      /\ \A j \in 1..Len(d) : d[j] = IF j < v THEN j ELSE j + 1
  BY <1>3 DEF Told
<1>6. \A j \in 1..Len(sent[c]) : sent[c][j] = "version" => j = v
  <2>1. OneAnswer(c) /\ v \in 1..Len(sent[c])
    BY <1>1, <1>2, <1>4, <1>5 DEF Ordered
  <2>. QED BY <1>5, <2>1 DEF OneAnswer
<1>. DEFINE n == d[i]
<1>7. n = (IF i < v THEN i ELSE i + 1) /\ i \in Nat /\ i <= T - 1
  BY <1>2, <1>4, <1>5
<1>. HIDE DEF T, n
<1>8. n \in 1..(arrived[c] \div 2) /\ n # v /\ n \in 1..Len(sent[c])
  BY <1>1, <1>2, <1>4, <1>5, <1>7
<1>9. sent[c][n] # "version"
  BY <1>6, <1>8
<1>10. ASSUME NEW j \in 1..(i - 1)
       PROVE  d[j] \in 1..(n - 1) /\ sent[c][d[j]] # "version"
  <2>1. j \in 1..Len(d) /\ d[j] = IF j < v THEN j ELSE j + 1
    BY <1>2, <1>5
  <2>2. d[j] \in 1..(n - 1) /\ d[j] # v
    BY <1>5, <1>7, <2>1
  <2>3. d[j] \in 1..Len(sent[c])
    BY <1>2, <1>8, <2>2
  <2>. QED BY <1>6, <2>2, <2>3
<1>11. ASSUME NEW k \in 1..(n - 1), sent[c][k] # "version"
       PROVE  \E j \in 1..(i - 1) : k = d[j]
  <2>1. k # v /\ k \in Nat
    BY <1>5, <1>11
  <2>2. CASE k < v
    <3>1. k \in 1..(i - 1)
      BY <1>5, <1>7, <2>1, <2>2
    <3>2. k \in 1..Len(d)
      BY <1>2, <3>1
    <3>. QED BY <1>5, <2>2, <3>1, <3>2
  <2>3. CASE k > v
    <3>1. k - 1 \in 1..(i - 1) /\ ~ k - 1 < v
      BY <1>5, <1>7, <2>1, <2>3
    <3>2. k - 1 \in 1..Len(d) /\ (k - 1) + 1 = k
      BY <1>2, <2>1, <3>1
    <3>3. d[k - 1] = k
      BY <1>5, <3>1, <3>2
    <3>. QED BY <3>1, <3>3
  <2>. QED BY <1>5, <2>1, <2>2, <2>3
<1>12. {d[j] : j \in 1..(i - 1)} = {k \in 1..(n - 1) : sent[c][k] # "version"}
  <2>. HIDE DEF d
  <2>. QED BY <1>10, <1>11
<1>. QED BY <1>8, <1>9, <1>12 DEF n

LEMMA FlowIsInv == Spec => [](IInv /\ FlowInv)
<1>1. Init => IInv /\ FlowInv
  BY InitInv, FlowStart
<1>2. IInv /\ FlowInv /\ [Next]_vars => (IInv /\ FlowInv)'
  BY NextInv, NextFlow
<1>. QED BY <1>1, <1>2, PTL DEF Spec

\* Whatever is lost, closed or raised, the messages of each connection that are
\* dispatched are its first ones, in order and once, without the version.
THEOREM MessagesInOrder == Spec => []InOrderOnce
<1>1. IInv /\ FlowInv => InOrderOnce
  BY ToldInOrder DEF InOrderOnce
<1>. QED BY <1>1, FlowIsInv, PTL

\* Under no version but that of its own connection is a message dispatched.
THEOREM VersionsAreOwn == Spec => OwnVersion
<1>1. ASSUME IInv, FlowInv, [Next]_vars
      PROVE  [\A c \in Conn : dispatched'[c] # dispatched[c] => version' = c]_vars
  <2>1. ASSUME NEW t \in Conn, NEW m \in Message, Negotiated(t, m),
               NEW c \in Conn, dispatched'[c] # dispatched[c]
        PROVE  version' = c
    <3>1. version' = t
      BY <1>1, <2>1, BodyIs DEF Negotiated
    <3>2. \A d \in Conn \ {t} : dispatched'[d] = dispatched[d]
      BY <1>1, <2>1, NegotiatedFlow
    <3>. QED BY <2>1, <3>1, <3>2
  <2>2. ASSUME NEW t \in Conn, NEW m \in Message, Dispatch(t, m),
               NEW c \in Conn, dispatched'[c] # dispatched[c]
        PROVE  version' = c
    <3>1. /\ dispatched' # dispatched => version' = t
          /\ \A d \in Conn \ {t} : dispatched'[d] = dispatched[d]
      BY <1>1, <2>2, DispatchFlow
    <3>. QED BY <2>2, <3>1
  <2>3. ASSUME NEW t \in Conn, Run(t), NEW c \in Conn, dispatched'[c] # dispatched[c]
        PROVE  version' = c
    <3>1. PICK m \in Message : Negotiated(t, m) \/ Dispatch(t, m)
      BY <2>3 DEF Run, ReadSize, ReadFails, StartLoop, EarlyMessage, NotAVersion
    <3>. QED BY <2>1, <2>2, <2>3, <3>1
  <2>4. ASSUME ~ \E t \in Conn : Run(t) PROVE dispatched' = dispatched
    BY <1>1, <2>4
       DEF Next, vars, Connect, Opened, ConnectFails, Disconnect, Send, Complete, Lost
  <2>. QED BY <2>3, <2>4
<1>. QED BY <1>1, FlowIsInv, PTL DEF Spec, OwnVersion

-----------------------------------------------------------------------------
(* Items, and what becomes of their values.                                  *)

\* A value comes back as Meaning says, or is one of those that RaisedCause names.
Raises(t, v) == \/ t = "StrEnum" /\ v = "other"
                \/ t = "datetime" /\ v \in {"zoned", "day"}
Texts == {"type", "version", "", "word", "other", "0", "1", "2", "1.0", MaxInt, MaxFloat,
          "moment", "zoned", "day"}
Returns(t, v) == /\ TextOf(v) \in Texts
                 /\ IF Raises(t, v) THEN Parse(t, TextOf(v)) = "error"
                    ELSE Parse(t, TextOf(v)) = Meaning(t, v) /\ Meaning(t, v) # "error"

Types == {"str", "RequestId", "int", "float", "bool", "Enum", "StrEnum", "datetime"}
LEMMA TypesAre == DOMAIN Values = Types
BY DEF Values, Types

LEMMA ValuesReturn == ASSUME NEW t \in DOMAIN Values, NEW v \in Values[t] PROVE Returns(t, v)
<1>1. CASE t = "str"
  <2>1. v \in {"None", "", "word"}
    BY <1>1 DEF Values
  <2>2. /\ Returns("str", "None")
        /\ Returns("str", "")
        /\ Returns("str", "word")
    BY DEF Returns, Raises, Texts, TextOf, Parse, Meaning, MaxInt, MaxFloat
  <2>. QED BY <1>1, <2>1, <2>2
<1>2. CASE t = "RequestId"
  <2>1. v \in {"1"}
    BY <1>2 DEF Values
  <2>2. /\ Returns("RequestId", "1")
    BY DEF Returns, Raises, Texts, TextOf, Parse, Meaning, MaxInt, MaxFloat
  <2>. QED BY <1>2, <2>1, <2>2
<1>3. CASE t = "int"
  <2>1. v \in {"None", "0", "1", MaxInt}
    BY <1>3 DEF Values
  <2>2. /\ Returns("int", "None")
        /\ Returns("int", "0")
        /\ Returns("int", "1")
        /\ Returns("int", MaxInt)
    BY DEF Returns, Raises, Texts, TextOf, Parse, Meaning, MaxInt, MaxFloat
  <2>. QED BY <1>3, <2>1, <2>2
<1>4. CASE t = "float"
  <2>1. v \in {"None", "1.0", MaxFloat}
    BY <1>4 DEF Values
  <2>2. /\ Returns("float", "None")
        /\ Returns("float", "1.0")
        /\ Returns("float", MaxFloat)
    BY DEF Returns, Raises, Texts, TextOf, Parse, Meaning, MaxInt, MaxFloat
  <2>. QED BY <1>4, <2>1, <2>2
<1>5. CASE t = "bool"
  <2>1. v \in {"None", "True", "False"}
    BY <1>5 DEF Values
  <2>2. /\ Returns("bool", "None")
        /\ Returns("bool", "True")
        /\ Returns("bool", "False")
    BY DEF Returns, Raises, Texts, TextOf, Parse, Meaning, MaxInt, MaxFloat
  <2>. QED BY <1>5, <2>1, <2>2
<1>6. CASE t = "Enum"
  <2>1. v \in {"None", "Enum.word", "Enum.1", "other"}
    BY <1>6 DEF Values
  <2>2. /\ Returns("Enum", "None")
        /\ Returns("Enum", "Enum.word")
        /\ Returns("Enum", "Enum.1")
        /\ Returns("Enum", "other")
    BY DEF Returns, Raises, Texts, TextOf, Parse, Meaning, MaxInt, MaxFloat
  <2>. QED BY <1>6, <2>1, <2>2
<1>7. CASE t = "StrEnum"
  <2>1. v \in {"StrEnum.empty", "StrEnum.word", "other"}
    BY <1>7 DEF Values
  <2>2. /\ Returns("StrEnum", "StrEnum.empty")
        /\ Returns("StrEnum", "StrEnum.word")
        /\ Returns("StrEnum", "other")
    BY DEF Returns, Raises, Texts, TextOf, Parse, Meaning, MaxInt, MaxFloat
  <2>. QED BY <1>7, <2>1, <2>2
<1>8. CASE t = "datetime"
  <2>1. v \in {"None", "moment", "zoned", "day"}
    BY <1>8 DEF Values
  <2>2. /\ Returns("datetime", "None")
        /\ Returns("datetime", "moment")
        /\ Returns("datetime", "zoned")
        /\ Returns("datetime", "day")
    BY DEF Returns, Raises, Texts, TextOf, Parse, Meaning, MaxInt, MaxFloat
  <2>. QED BY <1>8, <2>1, <2>2
<1>. QED BY <1>1, <1>2, <1>3, <1>4, <1>5, <1>6, <1>7, <1>8, TypesAre DEF Types

Kinds == {"none", "min", "max", "mmin", "mmax"}

\* An item is one value, or a list or dict of up to two.
IsSingle(item) == /\ item.shape = "one"
             /\ \E t \in DOMAIN Values : \E v \in Values[t] :
                   item.of = <<t>> /\ item.value = <<v>>
IsList(item) == /\ item.shape = "many" /\ item.of = <<"int">>
              /\ item.value \in {<<>>, <<"1">>, <<"0", MaxInt>>}
IsDict(item) == /\ item.shape = "many" /\ item.of = <<"StrEnum", "str">>
              /\ item.value \in {<<>>, <<"StrEnum.word", "1">>,
                                 <<"StrEnum.empty", "", "StrEnum.word", "word">>}

LEMMA Items ==
    ASSUME NEW item \in Item
    PROVE  /\ IsSingle(item) \/ IsList(item) \/ IsDict(item)
           /\ item.limit.kind \in Kinds /\ item.limit.version \in Version
<1>0. 1 \in Version /\ NoLimit.kind = "none" /\ NoLimit.version = 1
  BY BoundsAssumption DEF Version, NoLimit
<1>1. ASSUME NEW t \in DOMAIN Values, NEW v \in Values[t],
             item = Entry("one", <<t>>, <<v>>, NoLimit)
      PROVE  IsSingle(item) /\ item.limit = NoLimit
  BY <1>1 DEF IsSingle, Entry
<1>2. ASSUME NEW l \in Limit, item = Entry("one", <<"str">>, <<"word">>, l)
      PROVE  IsSingle(item) /\ item.limit = l
  <2>1. "str" \in DOMAIN Values /\ "word" \in Values["str"]
    BY DEF Values
  <2>. QED BY <1>2, <2>1 DEF IsSingle, Entry
<1>3. ASSUME NEW s \in {<<>>, <<"1">>, <<"0", MaxInt>>},
             item = Entry("many", <<"int">>, s, NoLimit)
      PROVE  IsList(item) /\ item.limit = NoLimit
  BY <1>3 DEF IsList, Entry
<1>4. ASSUME NEW s \in {<<>>, <<"StrEnum.word", "1">>,
                        <<"StrEnum.empty", "", "StrEnum.word", "word">>},
             item = Entry("many", <<"StrEnum", "str">>, s, NoLimit)
      PROVE  IsDict(item) /\ item.limit = NoLimit
  BY <1>4 DEF IsDict, Entry
<1>5. item \in Single \/ item \in Limited \/ item \in List \/ item \in Dict
  BY DEF Item
<1>6. item \in Single => IsSingle(item) /\ item.limit = NoLimit
  <2>. SUFFICES ASSUME item \in Single PROVE IsSingle(item) /\ item.limit = NoLimit
    OBVIOUS
  <2>1. PICK t \in DOMAIN Values :
           item \in {Entry("one", <<t>>, <<v>>, NoLimit) : v \in Values[t]}
    BY Zenon DEF Single
  <2>2. PICK v \in Values[t] : item = Entry("one", <<t>>, <<v>>, NoLimit)
    BY <2>1, Zenon
  <2>. QED BY <1>1, <2>2
<1>7. item \in Limited => IsSingle(item) /\ \E l \in Limit : item.limit = l
  BY <1>2 DEF Limited
<1>8. item \in List => IsList(item) /\ item.limit = NoLimit
  BY <1>3, Zenon DEF List
<1>9. item \in Dict => IsDict(item) /\ item.limit = NoLimit
  BY <1>4, Zenon DEF Dict
<1>10. \A l \in Limit : l.kind \in Kinds /\ l.version \in Version
  BY DEF Limit, Kinds
<1>11. NoLimit.kind \in Kinds /\ NoLimit.version \in Version
  BY <1>0 DEF Kinds
<1>. QED BY <1>5, <1>6, <1>7, <1>8, <1>9, <1>10, <1>11, Zenon

\* A list or dict has up to two entries, and every value is one that comes back.
LEMMA ValuesOf ==
    ASSUME NEW item \in Item
    PROVE  /\ Len(item.value) \in Nat
           /\ \A i \in 1..Len(item.value) : Returns(TypeOf(item, i), item.value[i])
           /\ item.shape = "one" => Len(item.value) = 1 /\ TypeOf(item, 1) = item.of[1]
           /\ item.shape # "one" =>
                 \E k \in 0..2 : /\ Len(item.value) = Len(item.of) * k
                                 /\ Len(item.value) \div Len(item.of) = k
<1>0. IsSingle(item) \/ IsList(item) \/ IsDict(item)
  BY Items
<1>1. CASE IsSingle(item)
  <2>1. PICK t \in DOMAIN Values : \E v \in Values[t] : item.of = <<t>> /\ item.value = <<v>>
    BY <1>1 DEF IsSingle
  <2>2. PICK v \in Values[t] : item.of = <<t>> /\ item.value = <<v>>
    BY <2>1
  <2>3. Returns(t, v)
    BY ValuesReturn
  <2>4. TypeOf(item, 1) = t /\ item.value[1] = v /\ Len(item.value) = 1 /\ item.of[1] = t
    BY <2>2 DEF TypeOf
  <2>. QED BY <1>1, <2>3, <2>4 DEF IsSingle
<1>2. CASE IsList(item)
  <2>1. \A i \in Nat : i > 0 => TypeOf(item, i) = "int"
    BY <1>2 DEF IsList, TypeOf
  <2>2. Returns("int", "0") /\ Returns("int", "1") /\ Returns("int", MaxInt)
    <3>1. "int" \in DOMAIN Values /\ {"0", "1", MaxInt} \subseteq Values["int"]
      BY DEF Values
    <3>. QED BY <3>1, ValuesReturn
  <2>3. CASE item.value = <<>>
    BY <1>2, <2>3 DEF IsList
  <2>4. CASE item.value = <<"1">>
    BY <1>2, <2>1, <2>2, <2>4 DEF IsList
  <2>5. CASE item.value = <<"0", MaxInt>>
    BY <1>2, <2>1, <2>2, <2>5 DEF IsList
  <2>. QED BY <1>2, <2>3, <2>4, <2>5 DEF IsList
<1>3. CASE IsDict(item)
  <2>1. /\ item.shape = "many" /\ Len(item.of) = 2
        /\ TypeOf(item, 1) = "StrEnum" /\ TypeOf(item, 2) = "str"
        /\ TypeOf(item, 3) = "StrEnum" /\ TypeOf(item, 4) = "str"
    <3>. DEFINE pair == <<"StrEnum", "str">>
    <3>0. Len(pair) = 2 /\ pair[1] = "StrEnum" /\ pair[2] = "str"
      OBVIOUS
    <3>1. Len(item.of) = 2 /\ item.of[1] = "StrEnum" /\ item.of[2] = "str"
      BY <1>3, <3>0, Zenon DEF IsDict
    <3>2. /\ ((1 - 1) % 2) + 1 = 1 /\ ((2 - 1) % 2) + 1 = 2
          /\ ((3 - 1) % 2) + 1 = 1 /\ ((4 - 1) % 2) + 1 = 2
      OBVIOUS
    <3>. QED BY <1>3, <3>1, <3>2 DEF TypeOf, IsDict
  <2>2. /\ Returns("StrEnum", "StrEnum.word") /\ Returns("StrEnum", "StrEnum.empty")
        /\ Returns("str", "") /\ Returns("str", "word")
    <3>1. /\ "StrEnum" \in DOMAIN Values /\ "str" \in DOMAIN Values
          /\ {"StrEnum.word", "StrEnum.empty"} \subseteq Values["StrEnum"]
          /\ {"", "word"} \subseteq Values["str"]
      BY DEF Values
    <3>. QED BY <3>1, ValuesReturn
  <2>3. Returns("str", "1")
    BY DEF Returns, Raises, Texts, TextOf, Parse, Meaning, MaxInt, MaxFloat
  <2>4. CASE item.value = <<>>
    BY <1>3, <2>4 DEF IsDict
  <2>5. CASE item.value = <<"StrEnum.word", "1">>
    <3>. DEFINE pair == <<"StrEnum.word", "1">>
    <3>0. Len(pair) = 2 /\ pair[1] = "StrEnum.word" /\ pair[2] = "1"
      OBVIOUS
    <3>1. Len(item.value) = 2 /\ item.value[1] = "StrEnum.word" /\ item.value[2] = "1"
      BY <2>5, <3>0, Zenon
    <3>2. \A i \in 1..2 : i = 1 \/ i = 2
      OBVIOUS
    <3>3. \A i \in 1..2 : Returns(TypeOf(item, i), item.value[i])
      BY <2>1, <2>2, <2>3, <3>1, <3>2
    <3>. QED BY <2>1, <3>1, <3>3
  <2>6. CASE item.value = <<"StrEnum.empty", "", "StrEnum.word", "word">>
    <3>. DEFINE four == <<"StrEnum.empty", "", "StrEnum.word", "word">>
    <3>0. /\ Len(four) = 4 /\ four[1] = "StrEnum.empty" /\ four[2] = ""
          /\ four[3] = "StrEnum.word" /\ four[4] = "word"
      OBVIOUS
    <3>1. /\ Len(item.value) = 4 /\ item.value[1] = "StrEnum.empty" /\ item.value[2] = ""
          /\ item.value[3] = "StrEnum.word" /\ item.value[4] = "word"
      BY <2>6, <3>0, Zenon
    <3>2. \A i \in 1..4 : i = 1 \/ i = 2 \/ i = 3 \/ i = 4
      OBVIOUS
    <3>3. \A i \in 1..4 : Returns(TypeOf(item, i), item.value[i])
      BY <2>1, <2>2, <3>1, <3>2
    <3>4. 4 \in Nat /\ 4 = 2 * 2 /\ 4 \div 2 = 2 /\ 2 \in 0..2
      OBVIOUS
    <3>5. Len(item.value) = Len(item.of) * 2 /\ Len(item.value) \div Len(item.of) = 2
      BY <2>1, <3>1, <3>4
    <3>. QED BY <2>1, <3>1, <3>3, <3>4, <3>5
  <2>. QED BY <1>3, <2>4, <2>5, <2>6 DEF IsDict
<1>. QED BY <1>0, <1>1, <1>2, <1>3

LEMMA Counts == \A k \in 0..2 : /\ Count(k) \in {"0", "1", "2"}
                                /\ \A j \in 0..2 : Count(j) = Count(k) => j = k
<1>1. Count(0) = "0" /\ Count(1) = "1" /\ Count(2) = "2"
  BY DEF Count
<1>. QED BY <1>1

\* The fields of an item, of which the first counts the entries of a list or dict.
LEMMA Encoded ==
    ASSUME NEW item \in Item
    PROVE  /\ Encode(item) \in Seq(Texts)
           /\ item.shape = "one" =>
                 Len(Encode(item)) = 1 /\ Encode(item)[1] = TextOf(item.value[1])
           /\ item.shape # "one" =>
                 /\ Len(Encode(item)) = Len(item.value) + 1
                 /\ Encode(item)[1] = Count(Len(item.value) \div Len(item.of))
                 /\ \A j \in 1..Len(item.value) : Encode(item)[j + 1] = TextOf(item.value[j])
<1>. DEFINE n == Len(item.value)
            texts == [i \in 1..n |-> TextOf(item.value[i])]
            c == Count(n \div Len(item.of))
<1>1. n \in Nat /\ (item.shape = "one" => n = 1)
  BY ValuesOf
<1>2. \A i \in 1..n : TextOf(item.value[i]) \in Texts
  BY ValuesOf DEF Returns
<1>3. texts \in Seq(Texts) /\ Len(texts) = n /\ \A j \in 1..n : texts[j] = TextOf(item.value[j])
  BY <1>1, <1>2, SeqDef, LenProperties
<1>4. CASE item.shape = "one"
  <2>1. Encode(item) = texts
    BY <1>4 DEF Encode
  <2>. QED BY <1>1, <1>3, <1>4, <2>1
<1>5. CASE item.shape # "one"
  <2>1. c \in Texts
    BY <1>5, ValuesOf, Counts DEF Texts
  <2>2. Encode(item) = <<c>> \o texts
    BY <1>5 DEF Encode
  <2>. HIDE DEF texts, c, n
  <2>3. <<c>> \in Seq(Texts) /\ Len(<<c>>) = 1 /\ <<c>>[1] = c
    BY <2>1
  <2>4. /\ <<c>> \o texts \in Seq(Texts) /\ Len(<<c>> \o texts) = 1 + n
        /\ \A i \in 1..(1 + n) : (<<c>> \o texts)[i] = IF i <= 1 THEN <<c>>[i] ELSE texts[i - 1]
    BY <1>3, <2>3, ConcatProperties
  <2>5. (<<c>> \o texts)[1] = c
    BY <1>1, <2>3, <2>4
  <2>6. ASSUME NEW j \in 1..n PROVE (<<c>> \o texts)[j + 1] = TextOf(item.value[j])
    <3>1. j + 1 \in 1..(1 + n) /\ ~ j + 1 <= 1 /\ (j + 1) - 1 = j
      BY <1>1
    <3>. QED BY <1>3, <2>4, <3>1
  <2>7. Len(<<c>> \o texts) = n + 1
    BY <1>1, <2>4
  <2>. DEFINE whole == <<c>> \o texts
  <2>8. whole \in Seq(Texts) /\ Len(whole) = n + 1 /\ whole[1] = c
        /\ \A j \in 1..n : whole[j + 1] = TextOf(item.value[j])
    BY <2>4, <2>5, <2>6, <2>7
  <2>9. Encode(item) = whole
    BY <2>2
  <2>. HIDE DEF whole
  <2>. QED BY <1>5, <2>8, <2>9 DEF c, n
<1>. QED BY <1>4, <1>5

-----------------------------------------------------------------------------
(* A message, from what is added to what is read.                            *)

\* The fields of an item lie between two places, unless the versions leave it out.
LaidOut(fs, item, from, to) ==
    /\ to <= Len(fs)
    /\ IF Reads(item.limit, protocol_version, MessageVersion)
       THEN /\ to = from + Len(Encode(item))
            /\ \A j \in 1..Len(Encode(item)) : fs[from + j] = Encode(item)[j]
       ELSE to = from

\* What an item comes back as.
Back(item) == [i \in 1..Len(item.value) |-> Meaning(TypeOf(item, i), item.value[i])]
Outcome == {Back(item) : item \in Item} \cup {<<"None">>}

Versions == /\ protocol_version \in Version /\ mversion \in Version
            /\ dropped \in 0..(MaxVersion + 1)

Layout ==
    /\ items \in Seq(Item) /\ Len(items) <= MaxItems
    /\ fields \in Seq(Texts)
    /\ begins \in Seq(Nat) /\ Len(begins) = Len(items) + 1
    /\ begins[1] = Start /\ begins[Len(items) + 1] = Len(fields)
    /\ \A k \in 1..Len(items) : LaidOut(fields, items[k], begins[k], begins[k + 1])

Culprit == \E i \in 1..Len(Item1.value) : Raises(TypeOf(Item1, i), Item1.value[i])

Progress ==
    /\ phase \in {"writing", "reading", "raised", "tick", "asking"}
    /\ results \in Seq(Outcome) /\ Len(results) <= Len(items)
    /\ \A k \in 1..Len(results) :
          results[k] = IF Meant(items[k].limit) THEN Back(items[k]) ELSE <<"None">>
    /\ IF phase \in {"reading", "raised"} THEN idx = begins[Len(results) + 1]
       ELSE results = <<>> /\ idx = 0
    /\ phase = "raised" => Len(results) < Len(items) /\ Culprit

CodecInv == Versions /\ Layout /\ Progress

LEMMA VersionOfMessage == ASSUME Versions PROVE MessageVersion \in Version
BY DEF Versions, MessageVersion

\* The server leaves out what the client does not read, and that is what is not meant.
LEMMA Limits ==
    ASSUME Versions, NEW item \in Item
    PROVE  /\ Reads(item.limit, protocol_version, MessageVersion) \in BOOLEAN
           /\ (/\ Writes(item.limit, protocol_version)
               /\ item.limit.kind \in {"mmin", "mmax"}
                  => Reads(item.limit, protocol_version, MessageVersion))
              <=> Reads(item.limit, protocol_version, MessageVersion)
           /\ Meant(item.limit) <=> Reads(item.limit, protocol_version, MessageVersion)
<1>. DEFINE l == item.limit
<1>1. /\ l.kind \in Kinds /\ l.version \in 1..MaxVersion /\ protocol_version \in 1..MaxVersion
      /\ MessageVersion \in 1..MaxVersion /\ MaxVersion \in Nat
  BY Items, VersionOfMessage, BoundsAssumption DEF Versions, Version
<1>. HIDE DEF l
<1>2. CASE l.kind = "none"
  BY <1>1, <1>2 DEF Reads, Writes, Meant, l
<1>3. CASE l.kind = "min"
  BY <1>1, <1>3 DEF Reads, Writes, Meant, l
<1>4. CASE l.kind = "max"
  BY <1>1, <1>4 DEF Reads, Writes, Meant, l
<1>5. CASE l.kind = "mmin"
  BY <1>1, <1>5 DEF Reads, Writes, Meant, l
<1>6. CASE l.kind = "mmax"
  BY <1>1, <1>6 DEF Reads, Writes, Meant, l
<1>. QED BY <1>1, <1>2, <1>3, <1>4, <1>5, <1>6 DEF Kinds

\* What is read where an item was written is each of its values, or an error.
LEMMA Decoded ==
    ASSUME NEW item \in Item, NEW i \in Nat, fields \in Seq(Texts),
           i + Len(Encode(item)) <= Len(fields),
           \A j \in 1..Len(Encode(item)) : fields[i + j] = Encode(item)[j]
    PROVE  Decode(item, i + 1) =
              [value |-> [j \in 1..Len(item.value) |->
                             Parse(TypeOf(item, j), TextOf(item.value[j]))],
               taken |-> Len(Encode(item))]
<1>. DEFINE n == Len(item.value)
            m == Len(Encode(item))
            parsed == [j \in 1..n |-> Parse(TypeOf(item, j), TextOf(item.value[j]))]
<1>0. Len(fields) \in Nat /\ n \in Nat /\ m \in Nat \ {0}
  <2>1. Len(fields) \in Nat /\ n \in Nat /\ m \in Nat
    BY ValuesOf, Encoded, LenProperties
  <2>2. m = 1 \/ m = n + 1
    BY Encoded
  <2>. HIDE DEF n, m
  <2>. QED BY <2>1, <2>2
<1>1. fields[i + 1] = Encode(item)[1] /\ ~ i + 1 > Len(fields)
  BY <1>0
<1>2. CASE item.shape = "one"
  <2>1. n = 1 /\ m = 1 /\ TypeOf(item, 1) = item.of[1] /\ fields[i + 1] = TextOf(item.value[1])
    BY <1>1, <1>2, ValuesOf, Encoded
  <2>2. Decode(item, i + 1) = [value |-> <<Parse(item.of[1], fields[i + 1])>>, taken |-> 1]
    BY <1>1, <1>2 DEF Decode
  <2>3. parsed = <<Parse(item.of[1], fields[i + 1])>>
    BY <2>1
  <2>. HIDE DEF parsed
  <2>. QED BY <2>1, <2>2, <2>3 DEF parsed
<1>3. CASE item.shape # "one"
  <2>1. PICK k \in 0..2 : n = Len(item.of) * k /\ n \div Len(item.of) = k
    BY <1>3, ValuesOf
  <2>2. m = n + 1 /\ fields[i + 1] = Count(k)
    BY <1>1, <1>3, <2>1, Encoded
  <2>3. \A j \in 1..n : fields[i + 1 + j] = TextOf(item.value[j])
    <3>. SUFFICES ASSUME NEW j \in 1..n PROVE fields[i + 1 + j] = TextOf(item.value[j])
      OBVIOUS
    <3>1. j + 1 \in 1..m /\ i + (j + 1) = i + 1 + j
      BY <1>0, <2>2
    <3>2. Encode(item)[j + 1] = TextOf(item.value[j])
      BY <1>3, Encoded
    <3>3. fields[i + (j + 1)] = Encode(item)[j + 1]
      BY <3>1
    <3>. QED BY <3>1, <3>2, <3>3
  <2>4. fields[i + 1] \in {"0", "1", "2"}
        /\ (CHOOSE c \in 0..2 : Count(c) = fields[i + 1]) = k
    <3>1. \A c \in 0..2 : Count(c) = fields[i + 1] <=> c = k
      BY <2>2, Counts
    <3>2. (CHOOSE c \in 0..2 : Count(c) = fields[i + 1]) = k
      BY <3>1
    <3>. QED BY <2>2, <3>2, Counts
  <2>5. i + m <= Len(fields)
    OBVIOUS
  <2>. HIDE DEF n, m
  <2>6. ~ i + 1 + n > Len(fields)
    BY <1>0, <2>2, <2>5
  <2>7. Decode(item, i + 1) =
           [value |-> [j \in 1..n |-> Parse(TypeOf(item, j), fields[i + 1 + j])], taken |-> n + 1]
    BY <1>1, <1>3, <2>1, <2>4, <2>6 DEF Decode
  <2>8. [j \in 1..n |-> Parse(TypeOf(item, j), fields[i + 1 + j])] = parsed
    BY <2>3
  <2>. HIDE DEF parsed
  <2>. QED BY <2>2, <2>7, <2>8 DEF parsed, n, m
<1>. QED BY <1>2, <1>3

LEMMA CodecInitInv == CodecInit => CodecInv
<1>. SUFFICES ASSUME CodecInit PROVE CodecInv
  OBVIOUS
<1>1. Versions
  BY BoundsAssumption DEF CodecInit, Versions
<1>2. /\ fields \in Seq(Texts) /\ Len(fields) \in Nat
      /\ Len(fields) = Start
  <2>1. "type" \in Texts /\ "version" \in Texts
    BY DEF Texts
  <2>2. <<"type">> \in Seq(Texts) /\ Len(<<"type">>) = 1
    BY <2>1
  <2>3. <<"type", "version">> \in Seq(Texts) /\ Len(<<"type", "version">>) = 2
    BY <2>1
  <2>4. fields = IF Versioned THEN <<"type", "version">> ELSE <<"type">>
    BY DEF CodecInit
  <2>5. CASE Versioned
    <3>1. fields = <<"type", "version">> /\ Start = 2
      BY <2>4, <2>5, Zenon DEF Start
    <3>. QED BY <2>3, <3>1, Zenon
  <2>6. CASE ~Versioned
    <3>1. fields = <<"type">> /\ Start = 1
      BY <2>4, <2>6, Zenon DEF Start
    <3>. QED BY <2>2, <3>1, Zenon
  <2>. QED BY <2>5, <2>6
<1>3. items = <<>> /\ results = <<>> /\ begins = <<Len(fields)>> /\ idx = 0
  BY DEF CodecInit
<1>4. Layout
  BY <1>2, <1>3, BoundsAssumption DEF Layout
<1>5. phase \in {"writing", "tick", "asking"}
  BY DEF CodecInit
<1>6. Progress
  BY <1>3, <1>5 DEF Progress
<1>. QED BY <1>1, <1>4, <1>6 DEF CodecInv

\* What has been written stays where it is.
LEMMA StaysLaidOut ==
    ASSUME NEW item \in Item, NEW from \in Nat, NEW to \in Nat, fields \in Seq(Texts),
           LaidOut(fields, item, from, to), NEW more \in Seq(Texts)
    PROVE  LaidOut(fields \o more, item, from, to)
<1>1. /\ Len(fields) \in Nat /\ Len(more) \in Nat /\ Len(Encode(item)) \in Nat
      /\ Len(fields \o more) = Len(fields) + Len(more)
      /\ \A j \in 1..Len(fields) : (fields \o more)[j] = fields[j]
  BY LenProperties, ConcatProperties, Encoded
<1>2. to <= Len(fields \o more)
  BY <1>1 DEF LaidOut
<1>3. CASE Reads(item.limit, protocol_version, MessageVersion)
  <2>1. to = from + Len(Encode(item)) /\ to <= Len(fields)
        /\ \A j \in 1..Len(Encode(item)) : fields[from + j] = Encode(item)[j]
    BY <1>3 DEF LaidOut
  <2>2. \A j \in 1..Len(Encode(item)) : from + j \in 1..Len(fields)
    BY <1>1, <2>1
  <2>. QED BY <1>1, <1>2, <1>3, <2>1, <2>2 DEF LaidOut
<1>4. CASE ~Reads(item.limit, protocol_version, MessageVersion)
  BY <1>2, <1>4 DEF LaidOut
<1>. QED BY <1>3, <1>4

LEMMA AddKeeps == ASSUME CodecInv, NEW item \in Item, Add(item) PROVE CodecInv'
<1>. DEFINE n == Len(items)
            kept == Reads(item.limit, protocol_version, MessageVersion)
            more == IF kept THEN Encode(item) ELSE <<>>
<1>1. /\ phase = "writing" /\ n < MaxItems /\ items' = Append(items, item)
      /\ begins' = Append(begins, Len(fields'))
      /\ UNCHANGED <<protocol_version, dropped, mversion, phase, idx, results, conversion>>
  BY DEF Add
<1>2. /\ items \in Seq(Item) /\ n \in Nat /\ items' \in Seq(Item) /\ Len(items') = n + 1
      /\ items'[n + 1] = item /\ \A k \in 1..n : items'[k] = items[k] /\ items[k] \in Item
  BY <1>1, LenProperties, AppendProperties, ElementOfSeq DEF CodecInv, Layout
<1>3. fields \in Seq(Texts) /\ Len(fields) \in Nat /\ more \in Seq(Texts) /\ Len(more) \in Nat
  BY Encoded, EmptySeq, LenProperties DEF CodecInv, Layout
<1>4. fields' = fields \o more
  <2>1. fields' = IF kept THEN fields \o Encode(item) ELSE fields
    BY Limits DEF Add, CodecInv
  <2>. QED BY <1>3, <2>1, ConcatEmptySeq
<1>. HIDE DEF more
<1>5. /\ fields' \in Seq(Texts) /\ Len(fields') = Len(fields) + Len(more)
      /\ Len(fields') \in Nat
      /\ \A j \in 1..Len(more) : fields'[Len(fields) + j] = more[j]
  <2>1. /\ fields \o more \in Seq(Texts) /\ Len(fields \o more) = Len(fields) + Len(more)
        /\ \A j \in 1..(Len(fields) + Len(more)) :
              (fields \o more)[j] =
                 IF j <= Len(fields) THEN fields[j] ELSE more[j - Len(fields)]
    BY <1>3, ConcatProperties
  <2>2. ASSUME NEW j \in 1..Len(more) PROVE fields'[Len(fields) + j] = more[j]
    <3>1. /\ Len(fields) + j \in 1..(Len(fields) + Len(more))
          /\ ~ Len(fields) + j <= Len(fields) /\ Len(fields) + j - Len(fields) = j
      BY <1>3
    <3>. QED BY <1>4, <2>1, <3>1
  <2>. QED BY <1>3, <1>4, <2>1, <2>2
<1>6. /\ begins \in Seq(Nat) /\ Len(begins) = n + 1 /\ begins[1] = Start
      /\ begins[n + 1] = Len(fields) /\ begins' \in Seq(Nat) /\ Len(begins') = n + 2
      /\ begins'[n + 2] = Len(fields')
      /\ \A k \in 1..(n + 1) : begins'[k] = begins[k] /\ begins[k] \in Nat
  <2>1. /\ begins \in Seq(Nat) /\ Len(begins) = n + 1
        /\ begins[1] = Start /\ begins[n + 1] = Len(fields)
    BY DEF CodecInv, Layout
  <2>2. /\ begins' \in Seq(Nat) /\ Len(begins') = Len(begins) + 1
        /\ begins'[Len(begins) + 1] = Len(fields')
        /\ \A k \in 1..Len(begins) : begins'[k] = begins[k] /\ begins[k] \in Nat
    BY <1>1, <1>5, <2>1, AppendProperties, ElementOfSeq
  <2>3. Len(begins) + 1 = n + 2
    BY <1>2, <2>1
  <2>. QED BY <2>1, <2>2, <2>3
<1>7. Start' = Start /\ MessageVersion' = MessageVersion /\ Versions' /\ kept' = kept
  BY <1>1 DEF Start, Versioned, MessageVersion, Versions, CodecInv
<1>8. ASSUME NEW k \in 1..n PROVE LaidOut(fields', items[k], begins[k], begins[k + 1])
  <2>1. k \in 1..(n + 1) /\ k + 1 \in 1..(n + 1)
    BY <1>2
  <2>2. LaidOut(fields, items[k], begins[k], begins[k + 1])
    BY DEF CodecInv, Layout
  <2>. QED BY <1>2, <1>3, <1>4, <1>6, <2>1, <2>2, StaysLaidOut
<1>9. LaidOut(fields', item, begins[n + 1], Len(fields'))
  <2>1. CASE kept
    BY <1>3, <1>5, <1>6, <2>1 DEF LaidOut, more
  <2>2. CASE ~kept
    <3>1. Len(more) = 0
      BY <2>2 DEF more
    <3>. QED BY <1>3, <1>5, <1>6, <2>2, <3>1 DEF LaidOut
  <2>. QED BY <2>1, <2>2
<1>10. ASSUME NEW k \in 1..Len(items')
       PROVE  LaidOut(fields', items'[k], begins'[k], begins'[k + 1])
  <2>1. CASE k \in 1..n
    <3>1. k \in 1..(n + 1) /\ k + 1 \in 1..(n + 1)
      BY <1>2, <2>1
    <3>. QED BY <1>2, <1>6, <1>8, <2>1, <3>1
  <2>2. CASE k = n + 1
    <3>1. n + 1 \in 1..(n + 1) /\ (n + 1) + 1 = n + 2
      BY <1>2
    <3>. QED BY <1>2, <1>6, <1>9, <2>2, <3>1
  <2>. QED BY <1>2, <2>1, <2>2
<1>11. Layout'
  <2>1. \A k \in 1..Len(items') : LaidOut(fields, items[k], begins[k], begins[k + 1])'
    BY <1>1, <1>7, <1>10 DEF LaidOut
  <2>2. Len(items') <= MaxItems /\ Len(begins') = Len(items') + 1
        /\ begins'[1] = Start' /\ begins'[Len(items') + 1] = Len(fields')
    BY <1>1, <1>2, <1>6, <1>7, BoundsAssumption
  <2>. QED BY <1>2, <1>5, <1>6, <2>1, <2>2 DEF Layout
<1>12. Progress'
  <2>1. results = <<>> /\ idx = 0
    BY <1>1 DEF CodecInv, Progress
  <2>. QED BY <1>1, <1>2, <2>1 DEF Progress
<1>. QED BY <1>7, <1>11, <1>12 DEF CodecInv

LEMMA ReceiveKeeps == ASSUME CodecInv, Receive PROVE CodecInv'
<1>1. /\ phase = "writing" /\ phase' = "reading" /\ idx' = Start /\ results = <<>>
      /\ UNCHANGED <<protocol_version, dropped, mversion, items, begins, fields, results>>
  BY DEF Receive, CodecInv, Progress
<1>2. Versions' /\ Layout'
  BY <1>1 DEF CodecInv, Versions, Layout, LaidOut, Start, Versioned, MessageVersion
<1>3. begins[1] = Start /\ Len(<<>>) + 1 = 1
  BY EmptySeq DEF CodecInv, Layout
<1>4. Progress'
  BY <1>1, <1>3 DEF CodecInv, Progress
<1>. QED BY <1>2, <1>4 DEF CodecInv

\* The next item, and the place in the fields that is read.
LEMMA NextItem ==
    ASSUME CodecInv, ItemsLeft
    PROVE  LET r == Len(results) IN
           /\ r \in Nat /\ r + 1 \in 1..Len(items) /\ Item1 = items[r + 1] /\ Item1 \in Item
           /\ idx = begins[r + 1] /\ idx \in Nat /\ begins[r + 2] \in Nat
           /\ LaidOut(fields, Item1, idx, begins[r + 2])
<1>. DEFINE r == Len(results)
<1>1. r \in Nat /\ Len(items) \in Nat /\ r < Len(items) /\ phase = "reading"
  BY LenProperties DEF CodecInv, Layout, Progress, ItemsLeft
<1>2. r + 1 \in 1..Len(items) /\ r + 1 \in 1..(Len(items) + 1) /\ r + 2 \in 1..(Len(items) + 1)
      /\ (r + 1) + 1 = r + 2
  BY <1>1
<1>3. Item1 = items[r + 1] /\ items[r + 1] \in Item
  BY <1>2, ElementOfSeq DEF Item1, CodecInv, Layout
<1>4. begins[r + 1] \in Nat /\ begins[r + 2] \in Nat
  BY <1>2, ElementOfSeq DEF CodecInv, Layout
<1>5. LaidOut(fields, items[r + 1], begins[r + 1], begins[r + 2])
  BY <1>2 DEF CodecInv, Layout
<1>6. idx = begins[r + 1]
  BY <1>1 DEF CodecInv, Progress
<1>. QED BY <1>1, <1>2, <1>3, <1>4, <1>5, <1>6

\* A result that is as it should be, with the place after it, keeps the invariant.
LEMMA ResultKeeps ==
    ASSUME CodecInv, ItemsLeft, NEW x \in Outcome,
           x = IF Meant(Item1.limit) THEN Back(Item1) ELSE <<"None">>,
           results' = Append(results, x), idx' = begins[Len(results) + 2],
           UNCHANGED <<protocol_version, dropped, mversion, phase, items, begins, fields>>
    PROVE  CodecInv'
<1>. DEFINE r == Len(results)
<1>1. r \in Nat /\ r + 1 \in 1..Len(items) /\ Item1 = items[r + 1]
  BY NextItem
<1>2. Versions' /\ Layout'
  BY DEF CodecInv, Versions, Layout, LaidOut, Start, Versioned, MessageVersion
<1>3. /\ results' \in Seq(Outcome) /\ Len(results') = r + 1 /\ results'[r + 1] = x
      /\ \A k \in 1..r : results'[k] = results[k]
  BY AppendProperties DEF CodecInv, Progress
<1>4. \A k \in 1..(r + 1) : k = r + 1 \/ k \in 1..r
  BY <1>1
<1>5. \A k \in 1..Len(results') :
         results'[k] = (IF Meant(items[k].limit) THEN Back(items[k]) ELSE <<"None">>)'
  <2>1. \A k \in 1..r :
           results'[k] = IF Meant(items[k].limit) THEN Back(items[k]) ELSE <<"None">>
    BY <1>3 DEF CodecInv, Progress
  <2>2. results'[r + 1] = IF Meant(items[r + 1].limit) THEN Back(items[r + 1]) ELSE <<"None">>
    BY <1>1, <1>3
  <2>3. \A k \in 1..Len(results') :
           results'[k] = IF Meant(items[k].limit) THEN Back(items[k]) ELSE <<"None">>
    BY <1>3, <1>4, <2>1, <2>2
  <2>4. \A k : Meant(items[k].limit)' <=> Meant(items[k].limit)
    BY DEF Meant, MessageVersion, Versioned
  <2>5. items' = items
    OBVIOUS
  <2>6. \A k : Back(items[k])' = Back(items[k])
    BY <2>5, Zenon
  <2>. QED BY <2>3, <2>4, <2>6
<1>6. Progress'
  <2>1. phase = "reading" /\ (r + 1) + 1 = r + 2 /\ r + 1 <= Len(items)
    BY <1>1 DEF ItemsLeft
  <2>. QED BY <1>3, <1>5, <2>1 DEF Progress
<1>. QED BY <1>2, <1>6 DEF CodecInv

LEMMA SkipKeeps == ASSUME CodecInv, Skip PROVE CodecInv'
<1>1. /\ ItemsLeft /\ ~Reads(Item1.limit, protocol_version, MessageVersion)
      /\ results' = Append(results, <<"None">>)
      /\ UNCHANGED <<protocol_version, dropped, mversion, phase, items, begins, fields, idx>>
  BY DEF Skip
<1>2. Item1 \in Item /\ idx = begins[Len(results) + 2]
  BY <1>1, NextItem DEF LaidOut
<1>3. ~Meant(Item1.limit)
  BY <1>1, <1>2, Limits DEF CodecInv
<1>4. <<"None">> \in Outcome
  BY DEF Outcome
<1>. QED BY <1>1, <1>2, <1>3, <1>4, ResultKeeps

LEMMA ReadKeeps == ASSUME CodecInv, Read PROVE CodecInv'
<1>. DEFINE n == Len(Item1.value)
            parsed == [j \in 1..n |-> Parse(TypeOf(Item1, j), TextOf(Item1.value[j]))]
            d == Decode(Item1, idx + 1)
<1>1. /\ ItemsLeft /\ Reads(Item1.limit, protocol_version, MessageVersion)
      /\ UNCHANGED <<protocol_version, dropped, mversion, items, begins, fields>>
      /\ IF "error" \in ToSet(d.value) THEN phase' = "raised" /\ UNCHANGED <<idx, results>>
         ELSE results' = Append(results, d.value) /\ idx' = idx + d.taken /\ UNCHANGED phase
  BY DEF Read
<1>2. /\ Item1 \in Item /\ idx \in Nat /\ fields \in Seq(Texts)
      /\ begins[Len(results) + 2] = idx + Len(Encode(Item1))
      /\ begins[Len(results) + 2] <= Len(fields)
      /\ \A j \in 1..Len(Encode(Item1)) : fields[idx + j] = Encode(Item1)[j]
  BY <1>1, NextItem DEF LaidOut, CodecInv, Layout
<1>3. d = [value |-> parsed, taken |-> Len(Encode(Item1))]
  BY <1>2, Decoded
<1>4. n \in Nat /\ \A i \in 1..n : Returns(TypeOf(Item1, i), Item1.value[i])
  BY <1>2, ValuesOf
<1>5. "error" \in ToSet(parsed) <=> Culprit
  <2>1. DOMAIN parsed = 1..n
    OBVIOUS
  <2>2. "error" \in ToSet(parsed) <=> \E i \in 1..n : parsed[i] = "error"
    BY <2>1 DEF ToSet
  <2>3. \A i \in 1..n : parsed[i] = "error" <=> Raises(TypeOf(Item1, i), Item1.value[i])
    BY <1>4 DEF Returns
  <2>. HIDE DEF parsed
  <2>. QED BY <2>2, <2>3 DEF Culprit
<1>. HIDE DEF parsed, d
<1>6. CASE Culprit
  <2>1. phase' = "raised" /\ UNCHANGED <<idx, results>>
    BY <1>1, <1>3, <1>5, <1>6
  <2>2. Culprit'
    BY <1>1, <1>6, <2>1 DEF Culprit, Item1, Raises, TypeOf
  <2>3. Versions' /\ Layout'
    BY <1>1 DEF CodecInv, Versions, Layout, LaidOut, Start, Versioned, MessageVersion
  <2>4. Progress'
    <3>1. phase = "reading" /\ Len(results) < Len(items)
      BY <1>1 DEF ItemsLeft
    <3>2. \A k : Meant(items[k].limit)' <=> Meant(items[k].limit)
      BY <1>1 DEF Meant, MessageVersion, Versioned
    <3>. QED BY <1>1, <2>1, <2>2, <3>1, <3>2 DEF CodecInv, Progress, Back, TypeOf, Meaning
  <2>. QED BY <2>3, <2>4 DEF CodecInv
<1>7. CASE ~Culprit
  <2>1. /\ results' = Append(results, parsed) /\ idx' = begins[Len(results) + 2]
        /\ UNCHANGED phase
    BY <1>1, <1>2, <1>3, <1>5, <1>7
  <2>2. parsed = Back(Item1)
    <3>1. \A i \in 1..n : Parse(TypeOf(Item1, i), TextOf(Item1.value[i]))
                          = Meaning(TypeOf(Item1, i), Item1.value[i])
      BY <1>4, <1>7 DEF Returns, Culprit
    <3>. QED BY <3>1 DEF parsed, Back
  <2>3. Meant(Item1.limit)
    BY <1>1, <1>2, Limits DEF CodecInv
  <2>4. Back(Item1) \in Outcome
    BY <1>2 DEF Outcome
  <2>. QED BY <1>1, <2>1, <2>2, <2>3, <2>4, ResultKeeps
<1>. QED BY <1>6, <1>7

LEMMA CodecNextInv == CodecInv /\ [CodecNext]_codec_vars => CodecInv'
<1>. SUFFICES ASSUME CodecInv, [CodecNext]_codec_vars PROVE CodecInv'
  OBVIOUS
<1>1. ASSUME NEW item \in Item, Add(item) PROVE CodecInv'
  BY <1>1, AddKeeps
<1>2. CASE Receive
  BY <1>2, ReceiveKeeps
<1>3. CASE Skip
  BY <1>3, SkipKeeps
<1>4. CASE Read
  BY <1>4, ReadKeeps
<1>5. CASE ListFromInt \/ AskHistory \/ UNCHANGED codec_vars
  <2>1. UNCHANGED <<message, phase>>
    BY <1>5 DEF ListFromInt, AskHistory, codec_vars
  <2>2. UNCHANGED <<protocol_version, dropped, mversion, items, begins, fields, idx, results>>
    BY <2>1 DEF message
  <2>3. Versions' /\ Layout'
    BY <2>2 DEF CodecInv, Versions, Layout, LaidOut, Start, Versioned, MessageVersion
  <2>4. Progress'
    <3>1. \A k : Meant(items[k].limit)' <=> Meant(items[k].limit)
      BY <2>2 DEF Meant, MessageVersion, Versioned
    <3>2. Culprit => Culprit'
      BY <2>2 DEF Culprit, Item1, Raises, TypeOf
    <3>. QED BY <2>1, <2>2, <3>1, <3>2 DEF CodecInv, Progress, Back, TypeOf, Meaning
  <2>. QED BY <2>3, <2>4 DEF CodecInv
<1>. QED BY <1>1, <1>2, <1>3, <1>4, <1>5 DEF CodecNext

LEMMA CodecInvAlways == CodecSpec => []CodecInv
BY CodecInitInv, CodecNextInv, PTL DEF CodecSpec

\* Reading stays aligned with writing, and every item reads as what was written, but
\* for the values Meaning names, and as None at the versions it is not meant for.
THEOREM ReadsAsWritten == CodecSpec => []RoundTrip
<1>1. CodecInv => RoundTrip
  BY DEF CodecInv, Progress, RoundTrip, Aligned, Back
<1>. QED BY <1>1, CodecInvAlways, PTL

\* A message of the same versions raises only over an enumeration of texts without its
\* text, and over a datetime in another form.
THEOREM RaisesOnlyOver == CodecSpec => []RaisedCause
<1>1. CodecInv => RaisedCause
  BY DEF CodecInv, Progress, RaisedCause, Culprit, Raises
<1>. QED BY <1>1, CodecInvAlways, PTL

\* No place is past the end of the fields.
LEMMA PlacesWithin ==
    ASSUME CodecInv, NEW k \in 1..(Len(items) + 1)
    PROVE  begins[k] \in Nat /\ begins[k] <= Len(fields)
<1>1. Len(items) \in Nat /\ Len(fields) \in Nat /\ begins[k] \in Nat
  BY LenProperties, ElementOfSeq DEF CodecInv, Layout
<1>2. CASE k = Len(items) + 1
  BY <1>1, <1>2 DEF CodecInv, Layout
<1>3. CASE k # Len(items) + 1
  <2>1. k \in 1..Len(items) /\ k + 1 \in 1..(Len(items) + 1)
    BY <1>1, <1>3
  <2>2. items[k] \in Item /\ begins[k + 1] \in Nat
    BY <2>1, ElementOfSeq DEF CodecInv, Layout
  <2>3. LaidOut(fields, items[k], begins[k], begins[k + 1])
    BY <2>1 DEF CodecInv, Layout
  <2>4. Len(Encode(items[k])) \in Nat
    BY <2>2, Encoded, LenProperties
  <2>5. begins[k] <= begins[k + 1] /\ begins[k + 1] <= Len(fields)
    BY <1>1, <2>2, <2>3, <2>4 DEF LaidOut
  <2>. QED BY <1>1, <2>2, <2>5
<1>. QED BY <1>1, <1>2, <1>3

-----------------------------------------------------------------------------
(* The two conversions.                                                      *)

Conversions ==
    /\ given \in Nat /\ rest \in 0..given
    /\ phase = "tick" => \/ rest = given /\ told = <<>>
                         \/ given % 2 = 1 /\ rest = given - 1 /\ told = <<1>>
    /\ phase = "asking" => given # 0 /\ (told = <<>> \/ told = ToIbDuration(given))

LEMMA ConversionsStart == CodecInit => Conversions
BY DEF CodecInit, Conversions, Seconds

LEMMA ConversionsStep == Conversions /\ [CodecNext]_codec_vars => Conversions'
<1>. SUFFICES ASSUME Conversions, [CodecNext]_codec_vars PROVE Conversions'
  OBVIOUS
<1>1. CASE ListFromInt
  <2>1. CASE rest = given /\ told = <<>>
    <3>1. Append(<<>>, 1) = <<1>>
      OBVIOUS
    <3>. QED BY <1>1, <2>1, <3>1 DEF ListFromInt, AttributeStep, Conversions
  <2>2. CASE given % 2 = 1 /\ rest = given - 1
    <3>1. rest % 2 # 1
      BY <2>2 DEF Conversions
    <3>. QED BY <1>1, <3>1 DEF ListFromInt, AttributeStep, Conversions
  <2>. QED BY <1>1, <2>1, <2>2 DEF ListFromInt, Conversions
<1>2. CASE AskHistory
  BY <1>2 DEF AskHistory, Conversions
<1>3. CASE \/ UNCHANGED <<conversion, phase>>
           \/ UNCHANGED conversion /\ phase' \in {"reading", "raised"}
  BY <1>3 DEF conversion, Conversions
<1>4. ASSUME (\E item \in Item : Add(item)) \/ Receive \/ Skip \/ Read \/ UNCHANGED codec_vars
      PROVE  \/ UNCHANGED <<conversion, phase>>
             \/ UNCHANGED conversion /\ phase' \in {"reading", "raised"}
  BY <1>4 DEF Add, Receive, Skip, Read, codec_vars
<1>. QED BY <1>1, <1>2, <1>3, <1>4 DEF CodecNext

\* What a duration comes to in seconds, and what it must be for s seconds.
Asked(d) == d[1] * (IF d[2] = "D" THEN 86400 ELSE 1)
KeptTo(s, d) == /\ Asked(d) <= s /\ s - Asked(d) < 86400
                /\ Asked(d) = 0 <=> s \in 65536..86399

\* Of any number of seconds, whole days are asked for from the boundary on.
LEMMA DaysKept == ASSUME NEW s \in Nat, s # 0 PROVE KeptTo(s, ToIbDuration(s))
<1>. DEFINE asked == Asked(ToIbDuration(s))
<1>1. CASE s > 65535
  <2>. DEFINE d == s \div 86400
  <2>1. d \in Nat /\ 86400 * d <= s /\ s - 86400 * d < 86400
    OBVIOUS
  <2>2. ToIbDuration(s) = <<d, "D">>
    BY <1>1 DEF ToIbDuration
  <2>. HIDE DEF d
  <2>3. asked = 86400 * d /\ asked \in Nat
    BY <2>1, <2>2 DEF Asked
  <2>. HIDE DEF asked
  <2>4. asked = 0 <=> s \in 65536..86399
    <3>1. s < 86400 => d = 0
      BY <2>1
    <3>2. d = 0 => s < 86400
      BY <2>1
    <3>3. d = 0 <=> asked = 0
      BY <2>1, <2>3
    <3>4. s < 86400 <=> s \in 65536..86399
      BY <1>1
    <3>. QED BY <3>1, <3>2, <3>3, <3>4
  <2>5. asked <= s /\ s - asked < 86400
    BY <2>1, <2>3
  <2>. QED BY <2>4, <2>5 DEF asked, KeptTo
<1>2. CASE s <= 65535
  <2>0. ~ s > 65535
    BY <1>2
  <2>1. ToIbDuration(s) = <<s, "S">>
    BY <2>0 DEF ToIbDuration
  <2>2. asked = s
    BY <2>1 DEF Asked
  <2>. HIDE DEF asked
  <2>3. s <= s /\ s - s < 86400
    OBVIOUS
  <2>4. ASSUME s \in 65536..86399 PROVE FALSE
    BY <1>2, <2>4
  <2>5. asked <= s /\ s - asked < 86400 /\ asked # 0
    BY <2>2, <2>3
  <2>6. ASSUME asked = 0 PROVE s \in 65536..86399
    BY <2>5, <2>6
  <2>. QED BY <2>4, <2>5, <2>6 DEF asked, KeptTo
<1>. QED BY <1>1, <1>2

LEMMA ConversionsAlways == CodecSpec => []Conversions
BY ConversionsStart, ConversionsStep, PTL DEF CodecSpec

\* The attributes of a tick are told exactly when it has none or the first only;
\* over any other the loop never ends.
THEOREM AttributesTold == CodecSpec => []OnlyFirstAttributeTold
<1>1. Conversions => OnlyFirstAttributeTold
  BY DEF Conversions, OnlyFirstAttributeTold
<1>. QED BY <1>1, ConversionsAlways, PTL

\* A history is asked for as the caller said, to the day, but for no time at all
\* between 65536 seconds and a day.
THEOREM HistoryLength == CodecSpec => []DurationKept
<1>1. Conversions => DurationKept
  <2>. SUFFICES ASSUME Conversions, phase = "asking", told # <<>> PROVE DurationKept
    BY DEF DurationKept
  <2>1. told = ToIbDuration(given) /\ given \in Nat /\ given # 0
    BY DEF Conversions
  <2>2. KeptTo(given, told)
    BY <2>1, DaysKept
  <2>. QED BY <2>2 DEF DurationKept, KeptTo, Asked
<1>. QED BY <1>1, ConversionsAlways, PTL

\* Items, fields, the place read and the results keep their types.
THEOREM CodecTypeCorrect == CodecSpec => []CodecTypeOK
<1>1. CodecInv /\ Conversions => CodecTypeOK
  <2>. SUFFICES ASSUME CodecInv, Conversions PROVE CodecTypeOK
    OBVIOUS
  <2>1. Len(items) \in Nat /\ Len(fields) \in Nat /\ Len(results) \in Nat
    BY LenProperties DEF CodecInv, Layout, Progress
  <2>2. Last(begins) = Len(fields)
    BY DEF Last, CodecInv, Layout
  <2>3. ToSet(items) \subseteq Item
    BY ElementOfSeq, LenProperties DEF ToSet, CodecInv, Layout
  <2>4. idx \in 0..Len(fields)
    <3>1. CASE phase \in {"reading", "raised"}
      <4>1. Len(results) + 1 \in 1..(Len(items) + 1)
        BY <2>1 DEF CodecInv, Progress
      <4>. QED BY <2>1, <3>1, <4>1, PlacesWithin DEF CodecInv, Progress
    <3>2. CASE phase \notin {"reading", "raised"}
      BY <2>1, <3>2 DEF CodecInv, Progress
    <3>. QED BY <3>1, <3>2
  <2>. QED BY <2>2, <2>3, <2>4
           DEF CodecTypeOK, CodecInv, Versions, Layout, Progress, Conversions
<1>. QED BY <1>1, CodecInvAlways, ConversionsAlways, PTL
=============================================================================
