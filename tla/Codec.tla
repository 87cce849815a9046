-------------------------------- MODULE Codec --------------------------------
(* The coding of messages (IncomingMessage and OutgoingMessage in            *)
(* ib_async/protocol.py): typed values become text fields and are read back  *)
(* by type, some of them only for some versions.  A message is written item  *)
(* by item as OutgoingMessage does, which is how the tests make the server's *)
(* messages too (tests/utils.py), and read item by item.  Beside it the two  *)
(* conversions with a boundary: attributes of a tick, and durations.         *)
(* A value is named by a string, as is the text of a field.                  *)
(* ConnectionProofs extends this module and Connection: no name is in both.  *)
EXTENDS Integers, Sequences, FiniteSets, SequencesExt

CONSTANTS
    MaxVersion,  \* protocol versions are 1..MaxVersion; so are message versions
    MaxItems     \* bound: items of a message

ASSUME BoundsAssumption == MaxVersion \in Nat \ {0} /\ MaxItems \in Nat

Version == 1..MaxVersion
MaxInt == "2147483647"
MaxFloat == "1.7976931348623157E308"

\* The values of each type, of both sides: "other" is a text that an enumeration
\* does not have, "zoned" a datetime with a time zone, "day" one without a time.
Values == [
    str |-> {"None", "", "word"}, RequestId |-> {"1"},
    int |-> {"None", "0", "1", MaxInt}, float |-> {"None", "1.0", MaxFloat},
    bool |-> {"None", "True", "False"},
    Enum |-> {"None", "Enum.word", "Enum.1", "other"},
    StrEnum |-> {"StrEnum.empty", "StrEnum.word", "other"},
    datetime |-> {"None", "moment", "zoned", "day"}]

\* What is added or read by one call: the elements of a list, or the keys and
\* values of a dict, or a single value, with the version it is limited to.
NoLimit == [kind |-> "none", version |-> 1]
Limit == [kind : {"min", "max", "mmin", "mmax"}, version : Version]
Entry(shape, of, value, limit) ==
    [shape |-> shape, of |-> of, value |-> value, limit |-> limit]
Single == UNION {{Entry("one", <<t>>, <<v>>, NoLimit) : v \in Values[t]} : t \in DOMAIN Values}
Limited == {Entry("one", <<"str">>, <<"word">>, l) : l \in Limit}
List == {Entry("many", <<"int">>, s, NoLimit) : s \in {<<>>, <<"1">>, <<"0", MaxInt>>}}
Dict == {Entry("many", <<"StrEnum", "str">>, s, NoLimit) :
            s \in {<<>>, <<"StrEnum.word", "1">>,
                   <<"StrEnum.empty", "", "StrEnum.word", "word">>}}
Item == Single \cup Limited \cup List \cup Dict

\* The type of the i-th value of a list or dict.
TypeOf(item, i) == item.of[((i - 1) % Len(item.of)) + 1]

VARIABLES
    protocol_version,  \* ProtocolInterface.version
    dropped,   \* messages_with_version of the type of the message
    mversion,  \* the message's own version, where it has one
    phase,     \* "writing", "reading", "raised"; "tick" and "asking": a conversion
    items,     \* what has been added, in order
    begins,    \* history: the number of fields before each item, and before the end
    fields,    \* the fields
    idx,       \* IncomingMessage.idx; the fields before it have been read
    results,   \* what has been read, by item
    given,     \* the argument of one of the two conversions
    rest,      \* what list_from_int has left of it
    told       \* what the conversion yields

message == <<protocol_version, dropped, mversion, items, begins, fields, idx, results>>
conversion == <<given, rest, told>>
codec_vars == <<message, phase, conversion>>

Seconds == {1, 3600, 65534, 65535, 65536, 86399, 86400, 86401, 172799, 172800}

-----------------------------------------------------------------------------
\* Writing.

\* OutgoingMessage._add_field of one value.
TextOf(v) ==
    CASE v = "None" -> ""
      [] v \in {"Enum.word", "StrEnum.word"} -> "word"
      [] v \in {"Enum.1", "True"} -> "1"
      [] v = "StrEnum.empty" -> ""
      [] v = "False" -> "0"
      [] OTHER -> v

Count(n) == <<"0", "1", "2">>[n + 1]

\* A list or dict is preceded by the number of its entries.
Encode(item) ==
    LET texts == [i \in 1..Len(item.value) |-> TextOf(item.value[i])] IN
    IF item.shape = "one" THEN texts
    ELSE <<Count(Len(item.value) \div Len(item.of))>> \o texts

\* Mutant of Writes: the maximum is still included.
WritesMax(limit, v) ==
    ~ \/ limit.kind = "min" /\ v < limit.version
      \/ limit.kind = "max" /\ v > limit.version

\* OutgoingMessage.add
Writes(limit, v) ==
    ~ \/ limit.kind = "min" /\ v < limit.version
      \/ limit.kind = "max" /\ v >= limit.version

-----------------------------------------------------------------------------
\* Reading.

\* Mutant of Reads: the minimum is left out.
ReadsAboveMin(limit, v, mv) ==
    ~ \/ limit.kind = "min" /\ limit.version >= v
      \/ limit.kind = "max" /\ limit.version <= v
      \/ limit.kind = "mmin" /\ limit.version > mv
      \/ limit.kind = "mmax" /\ limit.version <= mv

\* IncomingMessage.read applies the version restrictions.
Reads(limit, v, mv) ==
    ~ \/ limit.kind = "min" /\ limit.version > v
      \/ limit.kind = "max" /\ limit.version <= v
      \/ limit.kind = "mmin" /\ limit.version > mv
      \/ limit.kind = "mmax" /\ limit.version <= mv

\* _read_inner for one field.  A class derived from str is called with the text,
\* and so raises when it is an enumeration without it; other enumerations yield
\* the text.
Parse(t, text) ==
    IF t \in {"str", "StrEnum", "RequestId"}
    THEN CASE t = "str" -> text
           [] t = "StrEnum" -> (CASE text = "" -> "StrEnum.empty"
                                  [] text = "word" -> "StrEnum.word"
                                  [] OTHER -> "error")
           [] t = "RequestId" -> IF text \in {"0", "1", MaxInt} THEN text ELSE "error"
    ELSE IF text = "" THEN "None"
    ELSE CASE t = "bool" -> IF text = "0" THEN "False" ELSE "True"
           [] t = "Enum" -> (CASE text = "word" -> "Enum.word" [] text = "1" -> "Enum.1"
                               [] OTHER -> text)
           [] t = "datetime" -> IF text = "moment" THEN text ELSE "error"
           [] t = "int" -> (CASE text = MaxInt -> "None" [] text \in {"0", "1", "2"} -> text
                              [] OTHER -> "error")
           [] t = "float" -> IF text = MaxFloat THEN "None" ELSE text

\* What _read_inner returns at position i, as a sequence of values, and the number
\* of fields it takes.  It raises over a count that is none, or past the end.
Decode(item, i) ==
    IF i > Len(fields) THEN [value |-> <<"error">>, taken |-> 0]
    ELSE IF item.shape = "one" THEN [value |-> <<Parse(item.of[1], fields[i])>>, taken |-> 1]
    ELSE LET n == Len(item.of) * CHOOSE k \in 0..2 : Count(k) = fields[i] IN
         IF fields[i] \notin {"0", "1", "2"} \/ i + n > Len(fields)
         THEN [value |-> <<"error">>, taken |-> 0]
         ELSE [value |-> [j \in 1..n |-> Parse(TypeOf(item, j), fields[i + j])], taken |-> n + 1]

\* The message version; without one it is that of the protocol.
Versioned == protocol_version < dropped
MessageVersion == IF Versioned THEN mversion ELSE protocol_version

-----------------------------------------------------------------------------
CodecTypeOK ==
    /\ protocol_version \in Version /\ mversion \in Version /\ dropped \in 0..(MaxVersion + 1)
    /\ phase \in {"writing", "reading", "raised", "tick", "asking"}
    /\ Len(items) <= MaxItems /\ ToSet(items) \subseteq Item
    /\ Len(begins) = Len(items) + 1 /\ Last(begins) = Len(fields)
    /\ idx \in 0..Len(fields)
    /\ Len(results) <= Len(items)
    /\ given \in Nat /\ rest \in 0..given

CodecInit ==
    /\ protocol_version \in Version /\ mversion \in Version
    /\ dropped \in {0, MaxVersion, MaxVersion + 1}
    /\ \/ phase = "writing" /\ given = 0
       \/ phase = "tick" /\ given \in 0..7
       \/ phase = "asking" /\ given \in Seconds
    /\ rest = given /\ told = <<>>
    /\ items = <<>> /\ results = <<>>
    /\ fields = IF Versioned THEN <<"type", "version">> ELSE <<"type">>
    /\ begins = <<Len(fields)>>
    /\ idx = 0

\* The server limits items to message versions; the client only reads such.
Add(item) ==
    /\ phase = "writing" /\ Len(items) < MaxItems
    /\ items' = Append(items, item)
    /\ fields' = IF /\ Writes(item.limit, protocol_version)
                    /\ item.limit.kind \in {"mmin", "mmax"}
                       => Reads(item.limit, protocol_version, MessageVersion)
                 THEN fields \o Encode(item) ELSE fields
    /\ begins' = Append(begins, Len(fields'))
    /\ UNCHANGED <<protocol_version, dropped, mversion, phase, idx, results, conversion>>

\* The type, and the version of a type that has one at this protocol version.
Start == IF Versioned THEN 2 ELSE 1

\* IncomingMessage(...): reset().
Receive ==
    /\ phase = "writing"
    /\ phase' = "reading"
    /\ idx' = Start
    /\ UNCHANGED <<protocol_version, dropped, mversion, items, begins, fields, results, conversion>>

Item1 == items[Len(results) + 1]
ItemsLeft == phase = "reading" /\ Len(results) < Len(items)

\* A read that the versions leave out yields None and takes nothing.
Skip ==
    /\ ItemsLeft /\ ~Reads(Item1.limit, protocol_version, MessageVersion)
    /\ results' = Append(results, <<"None">>)
    /\ UNCHANGED <<protocol_version, dropped, mversion, phase, items, begins, fields, idx, conversion>>

\* A read of one item.  What raises ends the message, and the loop.
Read ==
    /\ ItemsLeft /\ Reads(Item1.limit, protocol_version, MessageVersion)
    /\ LET d == Decode(Item1, idx + 1) IN
       IF "error" \in ToSet(d.value) THEN phase' = "raised" /\ UNCHANGED <<idx, results>>
       ELSE /\ results' = Append(results, d.value)
            /\ idx' = idx + d.taken /\ UNCHANGED phase
    /\ UNCHANGED <<protocol_version, dropped, mversion, items, begins, fields, conversion>>

-----------------------------------------------------------------------------
\* The two conversions.

\* Mutant of AttributeStep: what is taken off is not told.
AttributeStepLost == rest' = (IF rest % 2 = 1 THEN rest - 1 ELSE rest) /\ UNCHANGED told

\* A round of the loop of TickAttributes.list_from_int, whose key stays 1.
AttributeStep ==
    IF rest % 2 = 1 THEN rest' = rest - 1 /\ told' = Append(told, 1) ELSE UNCHANGED <<rest, told>>

ListFromInt == /\ phase = "tick" /\ rest # 0
               /\ AttributeStep
               /\ UNCHANGED <<message, phase, given>>

\* Mutant of ToIbDuration: the boundary itself is sent in days.
ToIbDurationBelow(s) == IF s >= 65535 THEN <<s \div 86400, "D">> ELSE <<s, "S">>

\* utils.to_ib_duration of a number of seconds.
ToIbDuration(s) == IF s > 65535 THEN <<s \div 86400, "D">> ELSE <<s, "S">>

AskHistory == /\ phase = "asking" /\ told = <<>>
              /\ told' = ToIbDuration(given)
              /\ UNCHANGED <<message, phase, given, rest>>

-----------------------------------------------------------------------------
CodecNext == (\E item \in Item : Add(item)) \/ Receive \/ Skip \/ Read \/ ListFromInt \/ AskHistory

CodecSpec == CodecInit /\ [][CodecNext]_codec_vars

-----------------------------------------------------------------------------
\* The values that do not come back as they were: no text is an empty one, and the
\* numbers that stand for none (a time after January 2038 is one of them).
Meaning(t, v) ==
    CASE t = "str" /\ v = "None" -> ""
      [] t = "int" /\ v = MaxInt -> "None"
      [] t = "float" /\ v = MaxFloat -> "None"
      [] OTHER -> v

\* An item with a minimum is for that version and later ones, one with a maximum
\* for earlier ones only.
Meant(limit) ==
    LET v == IF limit.kind \in {"min", "max"} THEN protocol_version ELSE MessageVersion IN
    CASE limit.kind = "none" -> TRUE
      [] limit.kind \in {"min", "mmin"} -> v \in limit.version..MaxVersion
      [] limit.kind \in {"max", "mmax"} -> v \notin limit.version..MaxVersion

\* Every read begins at the field where the item it reads was written, whatever
\* came before it: lists, dicts, absent values and items that the protocol or
\* the message version leaves out.
Aligned == phase = "reading" => idx = begins[Len(results) + 1]

\* Reading stays aligned with writing, and every item reads as what was written,
\* but for the values Meaning names, and as None at the versions it is not meant for.
RoundTrip ==
    /\ Aligned
    /\ \A k \in 1..Len(results) :
          results[k] = IF Meant(items[k].limit)
                       THEN [i \in 1..Len(items[k].value) |->
                                Meaning(TypeOf(items[k], i), items[k].value[i])]
                       ELSE <<"None">>

\* A message that was written by the same versions raises only over an enumeration
\* of texts that lacks its text (SecurityType has no options), and over a datetime
\* in another form, with a time zone or without a time.
RaisedCause ==
    phase = "raised" =>
        \E i \in 1..Len(Item1.value) :
            \/ TypeOf(Item1, i) = "StrEnum" /\ Item1.value[i] = "other"
            \/ TypeOf(Item1, i) = "datetime" /\ Item1.value[i] \in {"zoned", "day"}

\* The attributes of a tick are told exactly when it has none or the first only;
\* over any other the loop never ends, and nothing else runs in the event loop
\* (_handle_tick_price).
OnlyFirstAttributeTold ==
    phase = "tick" => /\ given \notin {0, 1} => rest # 0
                      /\ rest = 0 => told = IF given = 1 THEN <<1>> ELSE <<>>

\* A history is never asked for longer than the caller said, nor for shorter by a
\* day; and it is asked for no time at all exactly between 65536 seconds and a
\* day.
DurationKept ==
    phase = "asking" /\ told # <<>> =>
        LET asked == told[1] * (IF told[2] = "D" THEN 86400 ELSE 1)
        IN  /\ asked <= given /\ given - asked < 86400
            /\ asked = 0 <=> given \in 65536..86399
=============================================================================
