----------------------------- MODULE MessageCodec -----------------------------
(***************************************************************************)
(* A message relayed from holder to holder, each time in the binary format *)
(* of gRPC or in JSON, by this library or by a peer that writes the same   *)
(* message another way: other field order, other key spelling, defaults    *)
(* and nulls written out, fields of a newer protocol, a field given twice. *)
(*                                                                         *)
(* A message maps each field's name to the items it holds; a map's items   *)
(* are a set of <<key, value>>. An item is "zero" (its type's zero value,  *)
(* or an empty message), "some", or a value its type treats apart: a       *)
(* "loose" timestamp (a date, but not as toISOString writes it), an        *)
(* "unknown" enum number, a "null" Value. Nested messages are items: each  *)
(* kind of message is relayed for itself.                                  *)
(***************************************************************************)
EXTENDS WireSchema, Naturals, Sequences

LOCAL INSTANCE SequencesExt

CONSTANTS
    Binary, Json,   \* the fields of each kind of message, by format
    Sample(_)       \* the messages of a kind that are sent

ASSUME SchemaAssumption ==
    \A kind \in DOMAIN Json \cap DOMAIN Binary :
        /\ Len(Json[kind]) = Len(Binary[kind])
        /\ \A i \in DOMAIN Json[kind] :
            \E j \in DOMAIN Binary[kind] :
                /\ Json[kind][i].name = Binary[kind][j].name
                /\ Json[kind][i].rule = Binary[kind][j].rule
                /\ Json[kind][i].group = Binary[kind][j].group

VARIABLES
    kind,       \* the kind of the message
    original,   \* history: the message as it was first sent
    message,    \* the message its present holder has
    via,        \* history: the formats it was relayed in
    refused     \* has writing it thrown, or reading it?

vars == <<kind, original, message, via, refused>>

-----------------------------------------------------------------------------
(* Both formats: which fields are written, and what reading one does. *)

Named(fields, name) == CHOOSE f \in ToSet(fields) : f.name = name
Names(fields) == {f.name : f \in ToSet(fields)}

\* what createBase puts in a field
Unset(f) == CASE f.rule = "implicit" -> <<"zero">> [] f.rule = "map" -> {} [] OTHER -> <<>>

Base(fields) == [name \in Names(fields) |-> Unset(Named(fields, name))]

\* a value is written when it is truthy, as a JavaScript condition has it
Written_Truthy(f, items) == items \notin {Unset(f), <<"zero">>}

Written(f, items) == items # Unset(f)

Alternatives(fields, f) ==
    IF f.rule = "oneof" THEN {g.name : g \in {g \in ToSet(fields) : g.group = f.group}} ELSE {}

\* one field read: the last value counts, and the last alternative of a oneof
Put(fields, m, f, item) ==
    [name \in DOMAIN m |->
        IF name = f.name
        THEN CASE f.rule = "repeated" -> Append(m[name], item)
               [] f.rule = "map" -> {e \in m[name] : e[1] # item[1]} \cup {item}
               [] OTHER -> <<item>>
        ELSE IF name \in Alternatives(fields, f) THEN <<>> ELSE m[name]]

-----------------------------------------------------------------------------
(* The binary format: a sequence of fields with their number and wire type. *)

WireType(type) ==
    IF type \in {"int32", "int64", "bool"} THEN "varint" ELSE IF type = "double" THEN "i64" ELSE "len"

\* toTimestamp, then fromTimestamp: the instant, as toISOString writes it
Instant(type, item) == IF type = "Timestamp" /\ item = "loose" THEN "some" ELSE item

Entry(f, item) == [at |-> f.at, wt |-> WireType(f.type), item |-> Instant(f.type, item)]

Entries(f, items) ==
    LET list == IF f.rule = "map" THEN SetToSeq(items) ELSE items
    IN  [i \in DOMAIN list |-> Entry(f, list[i])]

encode(fields, m) ==
    FlattenSeq([i \in DOMAIN fields |->
        IF Written(fields[i], m[fields[i].name]) THEN Entries(fields[i], m[fields[i].name]) ELSE <<>>])

\* an empty timestamp is no date: its seconds are NaN and the writer throws
Throws(fields, m) ==
    \E f \in ToSet(fields) : f.type = "Timestamp" /\ m[f.name] = <<"zero">>

\* by its number and its wire type; any other is skipped
Known(f, entry) == f.at = entry.at /\ WireType(f.type) = entry.wt

decode(fields, entries) ==
    FoldLeft(LAMBDA m, entry :
        LET known == {f \in ToSet(fields) : Known(f, entry)}
        IN  IF known = {} THEN m ELSE Put(fields, m, CHOOSE f \in known : TRUE, entry.item),
        Base(fields), entries)

-----------------------------------------------------------------------------
(* JSON: a function from keys to values. A key that is null is as good as absent. *)

Value(items) == [set |-> TRUE, items |-> items]
Null == [set |-> FALSE, items |-> <<>>]

\* taskStateToJSON and roleToJSON know no other numbers
Spelled(type, item) == IF type \in {"TaskState", "Role"} /\ item = "unknown" THEN "unrecognized" ELSE item

ToValue(f, items) ==
    IF f.rule = "map" THEN Value(items)
    ELSE IF f.type = "Value" /\ items = <<"null">> THEN Null
    ELSE Value([i \in DOMAIN items |-> Spelled(f.type, items[i])])

toJSON(fields, m) ==
    LET written == {f \in ToSet(fields) : Written(f, m[f.name])}
    IN  [key \in {f.at[1] : f \in written} |->
            LET f == CHOOSE f \in written : f.at[1] = key IN ToValue(f, m[f.name])]

\* isSet, isObject and Array.isArray: the spellings under which a field is there
Given(f, object) == {i \in DOMAIN f.at : f.at[i] \in DOMAIN object /\ object[f.at[i]].set}

Least(S) == CHOOSE i \in S : \A j \in S : i <= j

\* of the alternatives of a oneof, the first that is there
fromJSON(fields, object) ==
    [name \in Names(fields) |->
        LET f == Named(fields, name)
            earlier == {i \in DOMAIN fields : fields[i].name \in Alternatives(fields, f)
                                              /\ Given(fields[i], object) # {}}
        IN  IF Given(f, object) = {} \/ (earlier # {} /\ fields[Least(earlier)].name # name)
            THEN Unset(f)
            ELSE object[f.at[Least(Given(f, object))]].items]

-----------------------------------------------------------------------------
(* The same message as other writers may put it. External: no code of this library. *)

Newer(wt) == [at |-> 99, wt |-> wt, item |-> "some"]

\* fields that may be given before they are given again: for a oneof that is
\* set, any of its alternatives
Repeatable(fields, m) ==
    {f \in ToSet(fields) :
        /\ f.rule \in {"implicit", "optional", "oneof"}
        /\ f.type \in {"string", "bytes", "int32", "int64", "double", "bool"}
        /\ m[f.name] # <<>> \/ \E name \in Alternatives(fields, f) : m[name] # <<>>}

PeerBinary(fields, m) ==
    LET all(f) == Entries(f, m[f.name])
        each(Op(_)) == FlattenSeq([i \in DOMAIN fields |-> Op(fields[i])])
        retyped(f) == <<[Entry(f, "some") EXCEPT !.wt = IF @ = "len" THEN "varint" ELSE "len"]>>
        stale(f) == IF f \in Repeatable(fields, m) THEN <<Entry(f, "some")>> ELSE <<>>
    IN  {FlattenSeq([i \in DOMAIN fields |-> all(fields[Len(fields) + 1 - i])]),
         <<Newer("len")>> \o each(all) \o <<Newer("varint")>>,
         each(stale) \o each(all),
         each(all) \o each(retyped)}

PeerJson(fields, m) ==
    LET own == toJSON(fields, m)
        default(f) == IF f.rule \in {"optional", "oneof"} THEN Null ELSE Value(Unset(f))
        spelled(f) == f.at[Len(f.at)]
        value(f) == IF f.at[1] \in DOMAIN own THEN own[f.at[1]] ELSE default(f)
        keyed(key) == CHOOSE f \in ToSet(fields) : spelled(f) = key
    IN  {[key \in {spelled(f) : f \in ToSet(fields)} |-> value(keyed(key))],
         [key \in DOMAIN own \cup {"newerField"} |->
             IF key = "newerField" THEN Value(<<"some">>) ELSE own[key]]}

-----------------------------------------------------------------------------
Init ==
    /\ kind \in DOMAIN Binary
    /\ original \in Sample(kind)
    /\ message = original
    /\ via = {}
    /\ refused = "no"

\* a gRPC call of this library
SendBinary ==
    /\ refused = "no"
    /\ ~Throws(Binary[kind], message)
    /\ message' = decode(Binary[kind], encode(Binary[kind], message))
    /\ via' = via \cup {"binary"}
    /\ UNCHANGED <<kind, original, refused>>

\* a gRPC call that fails before anything is sent
RefuseBinary ==
    /\ refused = "no"
    /\ Throws(Binary[kind], message)
    /\ refused' = "writer"
    /\ UNCHANGED <<kind, original, message, via>>

\* a gRPC call of another implementation
PeerSendsBinary ==
    /\ refused = "no"
    /\ ~Throws(Binary[kind], message)
    /\ \E entries \in PeerBinary(Binary[kind], message) : message' = decode(Binary[kind], entries)
    /\ via' = via \cup {"binary"}
    /\ UNCHANGED <<kind, original, refused>>

\* an HTTP call of this library
SendJson ==
    /\ refused = "no"
    /\ kind \in DOMAIN Json
    /\ message' = fromJSON(Json[kind], toJSON(Json[kind], message))
    /\ via' = via \cup {"json"}
    /\ UNCHANGED <<kind, original, refused>>

\* an HTTP call of another implementation
PeerSendsJson ==
    /\ refused = "no"
    /\ kind \in DOMAIN Json
    /\ \E object \in PeerJson(Json[kind], message) : message' = fromJSON(Json[kind], object)
    /\ via' = via \cup {"json"}
    /\ UNCHANGED <<kind, original, refused>>

Next == SendBinary \/ RefuseBinary \/ PeerSendsBinary \/ SendJson \/ PeerSendsJson

Spec == Init /\ [][Next]_vars

-----------------------------------------------------------------------------
\* all that a format may change in an item
Settled(f, items) ==
    IF f.rule = "map" THEN items
    ELSE IF "binary" \in via /\ items = <<"loose">> THEN <<"some">>
    ELSE IF "json" \in via /\ items = <<"null">> THEN <<>>
    ELSE IF "json" \in via /\ items = <<"unknown">> THEN <<"unrecognized">>
    ELSE items

(* Whoever wrote it and however often it was relayed, through encode and   *)
(* decode (grpc/pb) or toJSON and fromJSON (types/pb), a message is the one*)
(* that was sent: an unset optional stays unset and a zero one stays zero, *)
(* the last value and the last alternative count, and nothing else is      *)
(* touched by fields this version does not know. The exceptions: gRPC      *)
(* rewrites a timestamp as an ISO string; JSON loses the number of an enum *)
(* without a name, and the null of a Value.                                *)
RoundTrip ==
    via \subseteq {"binary", "json"} =>
        \A f \in ToSet(Binary[kind]) : message[f.name] = Settled(f, original[f.name])
=============================================================================
