----------------------------- MODULE Instruments -----------------------------
(* The instruments of one client and its registry of them by contract id     *)
(* (Instrument.contract_id and get_instance_from in ib_async/instrument.py), *)
(* with all that names an instrument: rows of positions, orders and          *)
(* executions, answers to contract data requests and to symbol searches, and *)
(* the application.  The registry is weak: an instrument that nobody refers  *)
(* to stays in it until it is freed, at once or by a later garbage           *)
(* collection, for an event makes a cycle of it.                             *)
(* The table of tick-by-tick streams finds an instrument by equality, which  *)
(* is that of contract ids, and so depends on the registry.                  *)
EXTENDS Naturals

CONSTANTS
    Instrument,  \* objects, each of which may be used again when freed
    Id,          \* contract ids; a field left blank is one of them, None
    Request,     \* contract data requests and symbol searches
    Nobody,
    Unknown,     \* the contract id 0
    MaxRows      \* bound: rows answered to one request

ASSUME InstrumentAssumption == Nobody \notin Instrument
ASSUME IdAssumption == Unknown \notin Id
ASSUME AskedAssumption == {"no", "samples"} \cap (Id \cup {Unknown}) = {}
ASSUME RowsAssumption == MaxRows \in Nat

VARIABLES
    contract_id,  \* Instrument._contract_id
    alive,        \* the instruments that exist
    held,         \* the instruments the application refers to
    registry,     \* Instrument.__instruments of the client, live entries
    pending,      \* _pending_instrument_updates
    asked,        \* the contract id sent with each request, "samples" for a
                  \* symbol search, "no" before it is made
    rows,         \* server: rows answered to each request
    ticks,        \* instruments in TickByTickMixin.__instruments
    listening,    \* instruments whose tick-by-tick event has handlers
    unnamed,      \* history: those that had no contract id when the handlers came
    meddled,      \* history: instruments whose contract id was known and was changed
                  \* by the application or by a row of a request that sent none
    loop          \* the task running _message_loop

named == <<contract_id, alive, held, registry>>
calls == <<pending, asked, rows>>
streams == <<ticks, listening, unnamed>>
vars == <<named, calls, streams, meddled, loop>>

TypeOK ==
    /\ contract_id \in [Instrument -> Id \cup {Unknown}]
    /\ held \subseteq alive /\ alive \subseteq Instrument
    /\ registry \in [Id -> Instrument \cup {Nobody}]
    /\ pending \in [Request -> Instrument \cup {Nobody}]
    /\ asked \in [Request -> Id \cup {Unknown, "no", "samples"}]
    /\ rows \in [Request -> 0..MaxRows]
    /\ ticks \subseteq alive /\ listening \subseteq alive
    /\ unnamed \subseteq listening /\ meddled \subseteq alive
    /\ \A r \in Request : pending[r] # Nobody => pending[r] \in alive
    /\ loop \in {"running", "raised"}

Init ==
    /\ contract_id = [o \in Instrument |-> Unknown]
    /\ alive = {} /\ held = {}
    /\ registry = [i \in Id |-> Nobody]
    /\ pending = [r \in Request |-> Nobody]
    /\ asked = [r \in Request |-> "no"]
    /\ rows = [r \in Request |-> 0]
    /\ ticks = {} /\ listening = {} /\ unnamed = {} /\ meddled = {}
    /\ loop = "running"

-----------------------------------------------------------------------------
\* Instrument.contract_id.

\* Mutant of Clash: an instrument that is dropped from the registry would not
\* be missed.
ClashUnchecked(o, i) == FALSE

\* Mutant of Clash: it is asserted also when the id stays the same.
ClashWithItself(o, i) == registry[i] # Nobody

\* The assertion of the setter: another instrument has that id, or has it still
\* although nobody refers to it any more.
Clash(o, i) == contract_id[o] # i /\ registry[i] # Nobody

\* Mutant of Register: the old id is not taken out.
RegisterTwice(o, i) == registry' = [registry EXCEPT ![i] = o]

\* The entry of the old id goes, whosever it is; Unknown is never registered.
Register(o, i) ==
    registry' = [j \in Id |-> IF j = i THEN o
                              ELSE IF j = contract_id[o] THEN Nobody ELSE registry[j]]

\* The setter does nothing when the id stays the same.
SetContractId(o, i) ==
    IF contract_id[o] = i THEN UNCHANGED <<contract_id, registry>>
    ELSE Register(o, i) /\ contract_id' = [contract_id EXCEPT ![o] = i]

\* It is noted whose known id changes.
Meddles(o, i) ==
    meddled' = IF contract_id[o] \in {Unknown, i} THEN meddled ELSE meddled \cup {o}

-----------------------------------------------------------------------------
\* The application.

\* Instrument(client).
New(o) ==
    /\ o \notin alive
    /\ alive' = alive \cup {o} /\ held' = held \cup {o}
    /\ contract_id' = [contract_id EXCEPT ![o] = Unknown]
    /\ UNCHANGED <<registry, calls, streams, meddled, loop>>

\* It gives an instrument a contract id, or another one.  It gets an
\* AssertionError when that is taken.
Name(o, i) ==
    /\ o \in held /\ ~Clash(o, i)
    /\ SetContractId(o, i) /\ Meddles(o, i)
    /\ UNCHANGED <<alive, held, calls, streams, loop>>

Drop(o) == /\ o \in held
           /\ held' = held \ {o}
           /\ UNCHANGED <<contract_id, alive, registry, calls, streams, meddled, loop>>

\* refresh_instrument(o): the instrument is kept for the rows, and for good.
Refresh(r, o) ==
    /\ asked[r] = "no" /\ o \in held
    /\ asked' = [asked EXCEPT ![r] = contract_id[o]]
    /\ pending' = [pending EXCEPT ![r] = o]
    /\ UNCHANGED <<named, rows, streams, meddled, loop>>

\* get_instrument_by_id and get_instrument_by_local_symbol.
Lookup(r) ==
    /\ asked[r] = "no"
    /\ asked' = [asked EXCEPT ![r] = Unknown]
    /\ UNCHANGED <<named, pending, rows, streams, meddled, loop>>

\* matching_symbols.
Search(r) ==
    /\ asked[r] = "no"
    /\ asked' = [asked EXCEPT ![r] = "samples"]
    /\ UNCHANGED <<named, pending, rows, streams, meddled, loop>>

\* Mutant of Equals: the request is found by the type of its ticks alone.
EqualsAll(o) == ticks

\* The requests made for an instrument that equals o, found by __get_request_id:
\* equality is that of contract ids, and all instruments without one are equal.
Equals(o) == {p \in ticks : contract_id[p] = contract_id[o]}

\* The first handler for the ticks of o: a request made for an equal instrument
\* is made again, for o.
Listen(o) ==
    /\ o \in held \ listening
    /\ listening' = listening \cup {o}
    /\ unnamed' = IF contract_id[o] = Unknown THEN unnamed \cup {o} ELSE unnamed
    /\ ticks' = (ticks \ Equals(o)) \cup {o}
    /\ UNCHANGED <<named, calls, meddled, loop>>

\* The last one goes.
Unlisten(o) ==
    /\ o \in held \cap listening
    /\ listening' = listening \ {o}
    /\ unnamed' = unnamed \ {o}
    /\ ticks' = ticks \ Equals(o)
    /\ UNCHANGED <<named, calls, meddled, loop>>

\* An instrument that nothing refers to is freed, and its entry and handlers go with it.
Kept == held \cup ticks \cup {pending[r] : r \in Request}

Free(o) ==
    /\ o \in alive \ Kept
    /\ alive' = alive \ {o}
    /\ registry' = [i \in Id |-> IF registry[i] = o THEN Nobody ELSE registry[i]]
    /\ listening' = listening \ {o} /\ unnamed' = unnamed \ {o}
    /\ meddled' = meddled \ {o}
    /\ UNCHANGED <<contract_id, held, calls, ticks, loop>>

-----------------------------------------------------------------------------
\* Messages.  What they yield, the application may keep.

Dispatching == loop = "running"

Kept1(o) == \/ held' = held \cup {o}
            \/ UNCHANGED held

\* get_instance_from gives o for contract id i: the one that is registered, or a
\* new one.
GetInstance(o, i) == IF registry[i] # Nobody THEN o = registry[i] ELSE o \notin alive

\* The new one gets the id.
Obtain(o, i) ==
    IF o \in alive THEN UNCHANGED <<contract_id, alive, registry>>
    ELSE /\ alive' = alive \cup {o}
         /\ registry' = [registry EXCEPT ![i] = o]
         /\ contract_id' = [contract_id EXCEPT ![o] = i]

\* A row of a position, an order or an execution.
Row(o, i) ==
    /\ Dispatching
    /\ GetInstance(o, i) /\ Obtain(o, i) /\ Kept1(o)
    /\ UNCHANGED <<calls, streams, meddled, loop>>

\* Mutant of Target: one instrument is pending for all requests.
TargetShared(r, o, i) ==
    IF \E q \in Request : pending[q] # Nobody THEN \E q \in Request : o = pending[q] /\ o # Nobody
    ELSE GetInstance(o, i)

\* The instrument that a row of request r describes.  The rows of a request
\* that names none, all of them, go to the instrument of the first.
Target(r, o, i) == IF pending[r] # Nobody THEN o = pending[r] ELSE GetInstance(o, i)

\* _handle_contract_data.  The row of a request that sent a contract id has it.
\* The assertion, on an instrument that is there already, ends the loop.
ContractRow(r, o, i) ==
    /\ Dispatching
    /\ asked[r] \in {Unknown, i} /\ rows[r] < MaxRows
    /\ rows' = [rows EXCEPT ![r] = @ + 1]
    /\ Target(r, o, i)
    /\ pending' = [pending EXCEPT ![r] = o]
    /\ IF o \in alive /\ Clash(o, i)
       THEN loop' = "raised" /\ UNCHANGED <<named, meddled>>
       ELSE /\ IF o \in alive
               THEN SetContractId(o, i) /\ UNCHANGED alive
               ELSE Obtain(o, i)
            /\ IF asked[r] = Unknown /\ o \in alive THEN Meddles(o, i) ELSE UNCHANGED meddled
            /\ Kept1(o) /\ UNCHANGED loop
    /\ UNCHANGED <<asked, streams>>

\* One contract of _handle_symbol_samples, which makes an instrument of each.
Sample(r, o, i) ==
    /\ Dispatching
    /\ asked[r] = "samples" /\ rows[r] < MaxRows
    /\ rows' = [rows EXCEPT ![r] = @ + 1]
    /\ o \notin alive
    /\ IF registry[i] # Nobody
       THEN loop' = "raised" /\ UNCHANGED named
       ELSE Obtain(o, i) /\ Kept1(o) /\ UNCHANGED loop
    /\ UNCHANGED <<pending, asked, streams, meddled>>

-----------------------------------------------------------------------------
Next ==
    \/ \E o \in Instrument : New(o) \/ Drop(o) \/ Listen(o) \/ Unlisten(o) \/ Free(o)
    \/ \E r \in Request : Lookup(r) \/ Search(r)
    \/ \E r \in Request, o \in Instrument : Refresh(r, o)
    \/ \E o \in Instrument, i \in Id : Name(o, i) \/ Row(o, i)
    \/ \E r \in Request, o \in Instrument, i \in Id : ContractRow(r, o, i) \/ Sample(r, o, i)

Spec == Init /\ [][Next]_vars

-----------------------------------------------------------------------------
\* Messages about a contract reach the one instrument that has its id: two
\* instruments never have the same, and the registry has each that exists
\* under the id it has now, however it got that.
RegistryRight ==
    \A i \in Id :
        /\ registry[i] \in alive \cup {Nobody}
        /\ \A o \in alive : registry[i] = o <=> contract_id[o] = i

\* An instrument that had its contract id when its tick-by-tick handlers came has a
\* stream of its own for as long as they stay, whatever it is named later: nobody
\* else's handlers take it over or end it (subscribe_tick_by_tick).  Those that had
\* none share one table entry while they have none, and take it from one another.
StreamsApart ==
    /\ ticks \subseteq listening
    /\ listening \ ticks \subseteq unnamed
    /\ \A o, p \in ticks : contract_id[o] = contract_id[p] => o = p

\* The contract id of an instrument, once known, is changed only by the application
\* and by rows of a request for it that was made without one, the several rows of
\* which are written over one instrument.  A row of a request that was made with an
\* id can only put that one back when one of those has changed it.
IdsStand ==
    [][\A o \in alive \cap alive' :
          contract_id'[o] # contract_id[o] /\ contract_id[o] # Unknown
          => \/ \E i \in Id : Name(o, i)
             \/ \E r \in Request :
                    /\ rows'[r] # rows[r] /\ pending[r] = o
                    /\ \/ asked[r] = Unknown
                       \/ asked[r] = contract_id'[o] /\ o \in meddled]_vars

\* A row can only end the message loop when the application searched for symbols,
\* asked for contract data without a contract id, or changed the id of an instrument
\* whose contract data it had asked for: positions, orders and refreshes of
\* instruments that keep their id never do by themselves.
RaisedCause ==
    loop = "raised" =>
        \E r \in Request : asked[r] \in {Unknown, "samples"} \/ pending[r] \in meddled
=============================================================================
