-------------------------- MODULE InstrumentsProofs --------------------------
(* What the run of Instruments shows on three instruments and two contract   *)
(* ids, for any sets of them and any number of requests.                     *)
EXTENDS Instruments, TLAPS

\* A request that sent a contract id has an instrument pending, and that has the
\* id still unless it has been meddled with.
AskedById ==
    \A r \in Request :
        asked[r] \in Id =>
            /\ pending[r] # Nobody
            /\ contract_id[pending[r]] = asked[r] \/ pending[r] \in meddled

UnaskedHaveNone == \A r \in Request : asked[r] = "no" => pending[r] = Nobody

\* A contract id is never given up: who was named when the handlers came, is.
StillNamed == \A o \in listening \ unnamed : contract_id[o] # Unknown

IInv ==
    /\ TypeOK /\ RegistryRight /\ StreamsApart /\ StillNamed
    /\ RaisedCause /\ AskedById /\ UnaskedHaveNone

USE InstrumentAssumption, IdAssumption, AskedAssumption, RowsAssumption
DEF InstrumentAssumption, IdAssumption, AskedAssumption, RowsAssumption

-----------------------------------------------------------------------------
\* The ways a contract id is assigned.

\* No instrument has an id that is free in the registry.
LEMMA FreeIdIsNobodys ==
    ASSUME TypeOK, RegistryRight, NEW i \in Id, registry[i] = Nobody
    PROVE  \A o \in alive : contract_id[o] # i
BY DEF TypeOK, RegistryRight

\* The setter, where its assertion does not fail.
LEMMA SetterKeepsRegistry ==
    ASSUME TypeOK, RegistryRight, NEW o \in alive, NEW i \in Id,
           ~Clash(o, i), SetContractId(o, i), UNCHANGED alive
    PROVE  /\ RegistryRight'
           /\ contract_id' = [contract_id EXCEPT ![o] = i]
           /\ contract_id' \in [Instrument -> Id \cup {Unknown}]
           /\ registry' \in [Id -> Instrument \cup {Nobody}]
           /\ \A p \in alive \ {o} : contract_id[p] # i
<1>. o \in Instrument
  BY DEF TypeOK
<1>1. CASE contract_id[o] = i
  <2>1. contract_id' = contract_id /\ registry' = registry /\ alive' = alive
    BY <1>1 DEF SetContractId
  <2>2. contract_id' = [contract_id EXCEPT ![o] = i]
    BY <1>1, <2>1 DEF TypeOK
  <2>3. \A p \in alive \ {o} : contract_id[p] # i
    BY <1>1 DEF RegistryRight, TypeOK
  <2>4. RegistryRight'
    BY <2>1 DEF RegistryRight
  <2>. QED BY <2>1, <2>2, <2>3, <2>4 DEF TypeOK
<1>2. CASE contract_id[o] # i
  <2>1. /\ registry[i] = Nobody
        /\ contract_id' = [contract_id EXCEPT ![o] = i]
        /\ registry' = [j \in Id |-> IF j = i THEN o
                                     ELSE IF j = contract_id[o] THEN Nobody ELSE registry[j]]
        /\ alive' = alive
    BY <1>2 DEF Clash, SetContractId, Register
  <2>2. \A p \in alive : contract_id[p] # i
    BY <2>1, FreeIdIsNobodys
  <2>. QED BY <2>1, <2>2 DEF RegistryRight, TypeOK
<1>. QED BY <1>1, <1>2

\* An instrument made for a message, or found for it.
LEMMA ObtainKeepsRegistry ==
    ASSUME TypeOK, RegistryRight, NEW o \in Instrument, NEW i \in Id,
           GetInstance(o, i), Obtain(o, i)
    PROVE  /\ RegistryRight' /\ o \in alive' /\ contract_id'[o] = i
           /\ alive' = alive \cup {o}
           /\ contract_id' \in [Instrument -> Id \cup {Unknown}]
           /\ registry' \in [Id -> Instrument \cup {Nobody}]
           /\ \A p \in alive : contract_id'[p] = contract_id[p]
<1>1. CASE o \in alive
  <2>1. registry[i] = o
    BY <1>1 DEF GetInstance
  <2>2. contract_id[o] = i
    BY <1>1, <2>1 DEF RegistryRight
  <2>. QED BY <1>1, <2>2 DEF Obtain, RegistryRight, TypeOK
<1>2. CASE o \notin alive
  <2>1. registry[i] = Nobody
    BY <1>2 DEF GetInstance, RegistryRight
  <2>2. \A p \in alive : contract_id[p] # i
    BY <2>1, FreeIdIsNobodys
  <2>3. /\ alive' = alive \cup {o}
        /\ registry' = [registry EXCEPT ![i] = o]
        /\ contract_id' = [contract_id EXCEPT ![o] = i]
    BY <1>2 DEF Obtain
  <2>. QED BY <1>2, <2>1, <2>2, <2>3 DEF RegistryRight, TypeOK
<1>. QED BY <1>1, <1>2

-----------------------------------------------------------------------------
LEMMA InitIInv == Init => IInv
BY DEF Init, IInv, TypeOK, RegistryRight, StreamsApart, StillNamed, RaisedCause, AskedById,
       UnaskedHaveNone

LEMMA ApplicationKeeps ==
    ASSUME IInv, NEW o \in Instrument,
           New(o) \/ Drop(o) \/ Listen(o) \/ Unlisten(o) \/ Free(o)
    PROVE  IInv'
<1>1. CASE New(o)
  BY <1>1 DEF New, calls, streams, IInv, TypeOK, RegistryRight, StreamsApart, StillNamed, RaisedCause,
              AskedById, UnaskedHaveNone
<1>2. CASE Drop(o)
  BY <1>2 DEF Drop, calls, streams, IInv, TypeOK, RegistryRight, StreamsApart, StillNamed, RaisedCause,
              AskedById, UnaskedHaveNone
<1>3. CASE Listen(o) \/ Unlisten(o)
  <2>1. UNCHANGED <<contract_id, alive, held, registry, pending, asked, rows, meddled, loop>>
    BY <1>3 DEF Listen, Unlisten, calls, named
  <2>2. o \in alive /\ ticks \subseteq alive /\ listening \subseteq alive
    BY <1>3 DEF Listen, Unlisten, IInv, TypeOK
  <2>3. \A p \in listening \ unnamed : p \in Equals(o) => p = o
    BY <2>2 DEF Equals, IInv, TypeOK, RegistryRight, StillNamed
  <2>4. StreamsApart'
    <3>1. CASE Listen(o)
      BY <2>1, <2>3, <3>1 DEF Listen, Equals, IInv, StreamsApart
    <3>2. CASE Unlisten(o)
      BY <2>1, <2>3, <3>2 DEF Unlisten, Equals, IInv, StreamsApart
    <3>. QED BY <1>3, <3>1, <3>2
  <2>5. StillNamed'
    BY <1>3, <2>1 DEF Listen, Unlisten, IInv, StillNamed
  <2>6. ticks' \subseteq alive /\ listening' \subseteq alive /\ unnamed' \subseteq listening'
    BY <1>3, <2>2 DEF Listen, Unlisten, Equals, IInv, TypeOK
  <2>. QED BY <2>1, <2>4, <2>5, <2>6 DEF IInv, TypeOK, RegistryRight, RaisedCause,
              AskedById, UnaskedHaveNone
<1>4. CASE Free(o)
  BY <1>4 DEF Free, Kept, calls, streams, IInv, TypeOK, RegistryRight, StreamsApart,
              StillNamed, RaisedCause, AskedById, UnaskedHaveNone
<1>. QED BY <1>1, <1>2, <1>3, <1>4

LEMMA RequestsKeep ==
    ASSUME IInv, NEW r \in Request,
           \/ Lookup(r) \/ Search(r)
           \/ \E o \in Instrument : Refresh(r, o)
    PROVE  IInv'
<1>1. CASE Lookup(r) \/ Search(r)
  BY <1>1 DEF Lookup, Search, named, streams, IInv, TypeOK, RegistryRight, StreamsApart,
              StillNamed, RaisedCause, AskedById, UnaskedHaveNone
<1>2. ASSUME NEW o \in Instrument, Refresh(r, o) PROVE IInv'
  BY <1>2 DEF Refresh, named, streams, IInv, TypeOK, RegistryRight, StreamsApart,
              StillNamed, RaisedCause, AskedById, UnaskedHaveNone
<1>. QED BY <1>1, <1>2

LEMMA NameKeeps == ASSUME IInv, NEW o \in Instrument, NEW i \in Id, Name(o, i) PROVE IInv'
<1>1. /\ RegistryRight' /\ o \in alive
      /\ contract_id' = [contract_id EXCEPT ![o] = i]
      /\ contract_id' \in [Instrument -> Id \cup {Unknown}]
      /\ registry' \in [Id -> Instrument \cup {Nobody}]
      /\ \A p \in alive \ {o} : contract_id[p] # i
  BY SetterKeepsRegistry DEF Name, IInv, TypeOK
<1>2. /\ UNCHANGED <<alive, held, pending, asked, rows, ticks, listening, unnamed, loop>>
      /\ meddled \subseteq meddled' /\ meddled' \subseteq meddled \cup {o}
      /\ contract_id[o] \in {Unknown, i} \/ o \in meddled'
  BY DEF Name, Meddles, calls, streams
<1>3. TypeOK'
  BY <1>1, <1>2 DEF IInv, TypeOK
<1>4. StreamsApart' /\ StillNamed'
  BY <1>1, <1>2 DEF IInv, TypeOK, StreamsApart, StillNamed
<1>5. AskedById' /\ RaisedCause' /\ UnaskedHaveNone'
  BY <1>1, <1>2 DEF IInv, TypeOK, AskedById, RaisedCause, UnaskedHaveNone
<1>. QED BY <1>1, <1>3, <1>4, <1>5 DEF IInv

\* A row that makes an instrument, or leaves the one it finds as it is.
LEMMA ObtainKeeps ==
    ASSUME IInv, NEW o \in Instrument, NEW i \in Id,
           GetInstance(o, i), Obtain(o, i), Kept1(o), UNCHANGED <<asked, streams, meddled, loop>>,
           rows' \in [Request -> 0..MaxRows],
           pending' \in [Request -> Instrument \cup {Nobody}],
           \A r \in Request : pending'[r] # pending[r] =>
               pending[r] = Nobody /\ pending'[r] = o /\ asked[r] \notin Id \cup {"no"}
    PROVE  IInv'
<1>1. /\ RegistryRight' /\ alive' = alive \cup {o} /\ contract_id'[o] = i
      /\ contract_id' \in [Instrument -> Id \cup {Unknown}]
      /\ registry' \in [Id -> Instrument \cup {Nobody}]
      /\ \A p \in alive : contract_id'[p] = contract_id[p]
  BY ObtainKeepsRegistry DEF IInv
<1>2. TypeOK'
  BY <1>1 DEF streams, Kept1, IInv, TypeOK
<1>3. StreamsApart' /\ StillNamed' /\ RaisedCause' /\ UnaskedHaveNone'
  BY <1>1 DEF streams, IInv, TypeOK, StreamsApart, StillNamed, RaisedCause, UnaskedHaveNone
<1>4. AskedById'
  BY <1>1 DEF streams, IInv, TypeOK, AskedById
<1>. QED BY <1>1, <1>2, <1>3, <1>4 DEF IInv

LEMMA RowKeeps == ASSUME IInv, NEW o \in Instrument, NEW i \in Id, Row(o, i) PROVE IInv'
BY ObtainKeeps DEF Row, calls, streams, IInv, TypeOK

\* The row of a contract data request for an instrument that is pending: only one of
\* a request without a contract id can change a known id or raise, or one that comes
\* when the id has been meddled with.
LEMMA PendingRow ==
    ASSUME IInv, NEW r \in Request, NEW o \in Instrument, NEW i \in Id,
           ContractRow(r, o, i), pending[r] # Nobody
    PROVE  /\ IInv' /\ o = pending[r]
           /\ contract_id'[o] # contract_id[o] =>
                  asked[r] = Unknown \/ (asked[r] = contract_id'[o] /\ o \in meddled)
           /\ \A p \in Instrument \ {o} : contract_id'[p] = contract_id[p]
<1>1. o = pending[r] /\ o \in alive /\ pending' = pending
  BY DEF ContractRow, Target, IInv, TypeOK
<1>2. rows' \in [Request -> 0..MaxRows] /\ UNCHANGED <<asked, streams>>
  BY DEF ContractRow, IInv, TypeOK
<1>3. asked[r] \in {Unknown, i} /\ (contract_id[o] # i => asked[r] = Unknown \/ o \in meddled)
  BY <1>1 DEF ContractRow, IInv, AskedById
<1>4. CASE Clash(o, i)
  <2>1. loop' = "raised" /\ UNCHANGED <<named, meddled>>
    BY <1>1, <1>4 DEF ContractRow
  <2>2. asked[r] = Unknown \/ pending[r] \in meddled
    BY <1>1, <1>3, <1>4 DEF Clash
  <2>3. RaisedCause'
    BY <1>1, <1>2, <2>1, <2>2 DEF RaisedCause
  <2>. QED BY <1>1, <1>2, <2>1, <2>3 DEF named, streams, IInv, TypeOK, RegistryRight,
              StreamsApart, StillNamed, AskedById, UnaskedHaveNone
<1>5. CASE ~Clash(o, i)
  <2>1. SetContractId(o, i) /\ UNCHANGED <<alive, loop>> /\ Kept1(o)
    BY <1>1, <1>5 DEF ContractRow
  <2>2. /\ RegistryRight'
        /\ contract_id' = [contract_id EXCEPT ![o] = i]
        /\ contract_id' \in [Instrument -> Id \cup {Unknown}]
        /\ registry' \in [Id -> Instrument \cup {Nobody}]
        /\ \A p \in alive \ {o} : contract_id[p] # i
    BY <1>1, <1>5, <2>1, SetterKeepsRegistry DEF IInv
  <2>3. /\ meddled \subseteq meddled' /\ meddled' \subseteq meddled \cup {o}
        /\ contract_id[o] \in {Unknown, i} \/ o \in meddled'
    BY <1>1, <1>3, <1>5 DEF ContractRow, Meddles
  <2>4. TypeOK'
    BY <1>1, <1>2, <2>1, <2>2, <2>3 DEF streams, Kept1, IInv, TypeOK
  <2>5. StreamsApart' /\ StillNamed' /\ RaisedCause' /\ UnaskedHaveNone'
    BY <1>1, <1>2, <2>1, <2>2, <2>3
       DEF streams, IInv, TypeOK, StreamsApart, StillNamed, RaisedCause, UnaskedHaveNone
  <2>6. AskedById'
    BY <1>1, <1>2, <2>2, <2>3 DEF IInv, TypeOK, AskedById
  <2>. QED BY <1>1, <1>3, <2>2, <2>4, <2>5, <2>6 DEF IInv, TypeOK
<1>. QED BY <1>4, <1>5

\* The first row of one that has none.
LEMMA FirstRow ==
    ASSUME IInv, NEW r \in Request, NEW o \in Instrument, NEW i \in Id,
           ContractRow(r, o, i), pending[r] = Nobody
    PROVE  IInv' /\ \A p \in alive : contract_id'[p] = contract_id[p]
<1>1. /\ GetInstance(o, i) /\ asked[r] = Unknown
      /\ pending' = [pending EXCEPT ![r] = o]
      /\ rows' \in [Request -> 0..MaxRows] /\ UNCHANGED <<asked, streams>>
  BY DEF ContractRow, Target, IInv, TypeOK, AskedById
<1>2. o \in alive => registry[i] = o /\ contract_id[o] = i
  BY <1>1 DEF GetInstance, IInv, RegistryRight
<1>3. ~(o \in alive /\ Clash(o, i))
  BY <1>2 DEF Clash
<1>4. Obtain(o, i) /\ Kept1(o) /\ UNCHANGED <<loop, meddled>>
  BY <1>2, <1>3 DEF ContractRow, SetContractId, Obtain, Meddles
<1>5. /\ pending' \in [Request -> Instrument \cup {Nobody}]
      /\ \A q \in Request : pending'[q] # pending[q] =>
             pending[q] = Nobody /\ pending'[q] = o /\ asked[q] \notin Id \cup {"no"}
  BY <1>1 DEF IInv, TypeOK
<1>6. IInv'
  BY <1>1, <1>4, <1>5, ObtainKeeps
<1>. QED BY <1>1, <1>4, <1>6, ObtainKeepsRegistry DEF IInv

LEMMA SampleKeeps ==
    ASSUME IInv, NEW r \in Request, NEW o \in Instrument, NEW i \in Id, Sample(r, o, i)
    PROVE  IInv'
<1>1. /\ asked[r] = "samples" /\ o \notin alive
      /\ rows' \in [Request -> 0..MaxRows] /\ UNCHANGED <<pending, asked, streams, meddled>>
  BY DEF Sample, IInv, TypeOK
<1>2. CASE registry[i] # Nobody
  BY <1>1, <1>2 DEF Sample, named, streams, IInv, TypeOK, RegistryRight, StreamsApart,
                    StillNamed, RaisedCause, AskedById, UnaskedHaveNone
<1>3. CASE registry[i] = Nobody
  <2>1. GetInstance(o, i) /\ Obtain(o, i) /\ Kept1(o) /\ UNCHANGED loop
    BY <1>1, <1>3 DEF Sample, GetInstance
  <2>. QED BY <1>1, <2>1, ObtainKeeps DEF IInv, TypeOK
<1>. QED BY <1>2, <1>3

LEMMA NextKeeps == IInv /\ [Next]_vars => IInv'
<1>. SUFFICES ASSUME IInv, [Next]_vars PROVE IInv'
  OBVIOUS
<1>1. CASE UNCHANGED vars
  BY <1>1 DEF vars, named, calls, streams, IInv, TypeOK, RegistryRight, StreamsApart,
              StillNamed, RaisedCause, AskedById, UnaskedHaveNone
<1>2. ASSUME NEW r \in Request, NEW o \in Instrument, NEW i \in Id, ContractRow(r, o, i)
      PROVE  IInv'
  BY <1>2, PendingRow, FirstRow
<1>. QED BY <1>1, <1>2, ApplicationKeeps, RequestsKeep, NameKeeps, RowKeeps, SampleKeeps
         DEF Next

LEMMA Inductive == Spec => []IInv
BY InitIInv, NextKeeps, PTL DEF Spec

-----------------------------------------------------------------------------
\* Every variable keeps its type, and nothing refers to a freed instrument.
THEOREM TypeCorrect == Spec => []TypeOK
BY Inductive, PTL DEF IInv

\* The registry has each instrument under its contract id, and no two have one.
THEOREM RegistryIsRight == Spec => []RegistryRight
BY Inductive, PTL DEF IInv

\* Instruments that had a contract id when their tick-by-tick handlers came have
\* streams of their own.
THEOREM StreamsAreApart == Spec => []StreamsApart
BY Inductive, PTL DEF IInv

\* Only searches, requests without a contract id and ids changed under a request can
\* end the loop here.
THEOREM OnlyUnnamedRequestsRaise == Spec => []RaisedCause
BY Inductive, PTL DEF IInv

\* Known contract ids are changed only by the application and by rows of requests made
\* without one; a row of a request made with one can only put that back.
THEOREM KnownIdsStand == Spec => IdsStand
<1>. DEFINE Stands(o) ==
         \/ \E i \in Id : Name(o, i)
         \/ \E r \in Request :
                /\ rows'[r] # rows[r] /\ pending[r] = o
                /\ asked[r] = Unknown \/ (asked[r] = contract_id'[o] /\ o \in meddled)
<1>1. ASSUME IInv, Next, NEW p \in alive, contract_id'[p] # contract_id[p],
             contract_id[p] # Unknown
      PROVE  Stands(p)
  <2>1. ASSUME NEW o \in Instrument,
               New(o) \/ Drop(o) \/ Listen(o) \/ Unlisten(o) \/ Free(o)
        PROVE  FALSE
    BY <1>1, <2>1 DEF New, Drop, Listen, Unlisten, Free, named, IInv, TypeOK
  <2>2. ASSUME NEW r \in Request,
               \/ Lookup(r) \/ Search(r)
               \/ \E o \in Instrument : Refresh(r, o)
        PROVE  FALSE
    BY <1>1, <2>2 DEF Lookup, Search, Refresh, named
  <2>3. ASSUME NEW o \in Instrument, NEW i \in Id, Name(o, i)
        PROVE  Stands(p)
    <3>1. p = o
      BY <1>1, <2>3 DEF Name, SetContractId, IInv, TypeOK
    <3>. QED BY <2>3, <3>1
  <2>4. ASSUME NEW o \in Instrument, NEW i \in Id, Row(o, i)
        PROVE  FALSE
    BY <1>1, <2>4, ObtainKeepsRegistry DEF Row, IInv
  <2>5. ASSUME NEW r \in Request, NEW o \in Instrument, NEW i \in Id, ContractRow(r, o, i)
        PROVE  Stands(p)
    <3>1. pending[r] # Nobody /\ p \in Instrument
      BY <1>1, <2>5, FirstRow DEF IInv, TypeOK
    <3>2. /\ p = o /\ pending[r] = p
          /\ asked[r] = Unknown \/ (asked[r] = contract_id'[p] /\ p \in meddled)
      BY <1>1, <2>5, <3>1, PendingRow
    <3>3. rows'[r] # rows[r]
      BY <1>1, <2>5 DEF ContractRow, IInv, TypeOK
    <3>. QED BY <3>2, <3>3
  <2>6. ASSUME NEW r \in Request, NEW o \in Instrument, NEW i \in Id, Sample(r, o, i)
        PROVE  FALSE
    BY <1>1, <2>6 DEF Sample, Obtain, named, IInv, TypeOK
  <2>. QED BY <1>1, <2>1, <2>2, <2>3, <2>4, <2>5, <2>6 DEF Next
<1>2. IInv /\ [Next]_vars =>
          [\A o \in alive \cap alive' :
              contract_id'[o] # contract_id[o] /\ contract_id[o] # Unknown
              => \/ \E i \in Id : Name(o, i)
                 \/ \E r \in Request :
                        /\ rows'[r] # rows[r] /\ pending[r] = o
                        /\ \/ asked[r] = Unknown
                           \/ asked[r] = contract_id'[o] /\ o \in meddled]_vars
  BY <1>1
<1>. QED BY <1>2, Inductive, PTL DEF Spec, IdsStand
=============================================================================
