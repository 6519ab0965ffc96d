----------------------------- MODULE LegacyRelay -----------------------------
(***************************************************************************)
(* The relay of MessageCodec with parties that speak protocol 0.3: what a  *)
(* party of this library holds is a message of 1.0, which it translates to *)
(* the objects of 0.3 and those, for gRPC and REST, to protobuf messages;  *)
(* the party that receives it translates back.                             *)
(***************************************************************************)
EXTENDS MessageCodec

LOCAL INSTANCE SequencesExt
T == INSTANCE Translation

CONSTANTS
    Crossing,   \* by kind that 0.3 has: its name and four translations
    Carrier,    \* by kind: the message of 0.3 that carries it, where their fields agree
    GrpcOnly    \* kinds that REST writes in its path

-----------------------------------------------------------------------------
compat == T!Translated(Crossing[kind].toCompat, message)

\* on the wire of 0.3, by the codecs of MessageCodec
Carried(format, proto) ==
    IF kind \notin DOMAIN Carrier THEN proto
    ELSE IF format = "binary"
         THEN decode(Binary[Carrier[kind]], encode(Binary[Carrier[kind]], proto))
         ELSE fromJSON(Json[Carrier[kind]], toJSON(Json[Carrier[kind]], proto))

received(format) ==
    T!Translated(Crossing[kind].FromProto, Carried(format, T!Translated(Crossing[kind].ToProto, compat)))

Crosses == refused = "no" /\ kind \in DOMAIN Crossing

Refuse(party) == refused' = party /\ UNCHANGED <<kind, original, message, via>>

Receive(object, format) ==
    /\ ~T!Throws(Crossing[kind].toCore, object)
    /\ message' = T!Translated(Crossing[kind].toCore, object)
    /\ via' = via \cup {format}
    /\ UNCHANGED <<kind, original, refused>>

\* JSON-RPC 0.3
SendLegacyJson ==
    /\ Crosses
    /\ ~T!Throws(Crossing[kind].toCompat, message)
    /\ Receive(compat, "0.3 json")

RefuseToReadJson ==
    /\ Crosses
    /\ ~T!Throws(Crossing[kind].toCompat, message)
    /\ T!Throws(Crossing[kind].toCore, compat)
    /\ Refuse("reader")

RefuseToWrite ==
    /\ Crosses
    /\ \/ T!Throws(Crossing[kind].toCompat, message)
       \/ T!Throws(Crossing[kind].ToProto, compat)
    /\ Refuse("writer")

\* gRPC 0.3 and the bodies of REST 0.3
WritesProto(format) ==
    /\ Crosses
    /\ ~T!Throws(Crossing[kind].toCompat, message)
    /\ ~T!Throws(Crossing[kind].ToProto, compat)
    /\ format = "json" => kind \notin GrpcOnly

SendLegacyProto(format) ==
    /\ WritesProto(format)
    /\ ~T!Throws(Crossing[kind].FromProto, Carried(format, T!Translated(Crossing[kind].ToProto, compat)))
    /\ Receive(received(format), "0.3 proto " \o format)

RefuseToReadProto(format) ==
    /\ WritesProto(format)
    /\ \/ T!Throws(Crossing[kind].FromProto, Carried(format, T!Translated(Crossing[kind].ToProto, compat)))
       \/ T!Throws(Crossing[kind].toCore, received(format))
    /\ Refuse("reader")

RelayNext ==
    \/ Next
    \/ SendLegacyJson \/ RefuseToWrite \/ RefuseToReadJson
    \/ \E format \in {"binary", "json"} : SendLegacyProto(format) \/ RefuseToReadProto(format)

RelaySpec == Init /\ [][RelayNext]_vars

-----------------------------------------------------------------------------
Protos == {"0.3 proto binary", "0.3 proto json"}
Crossed == via \cap (Protos \cup {"0.3 json"}) # {}
CrossedInProto == via \cap Protos # {}

Of(name) == kind \in DOMAIN Crossing /\ Crossing[kind].name = name

\* 1.0 fields that 0.3 has no place for
NoPlace == {"tenant", "pageSize", "pageToken", "nextPageToken", "pkceRequired", "deviceCode"}

\* 0.3 fields that ToProto or FromProto leaves out
LeftOut ==
    {"referenceTaskIds", "append", "iconUrl"}
    \cup (IF Of("Part") THEN {"metadata", "filename"} ELSE {})
    \cup (IF Of("Artifact") THEN {"extensions"} ELSE {})
    \cup (IF Of("SendMessageConfiguration") THEN {"historyLength"} ELSE {})
    \cup (IF Of("CancelTaskRequest") THEN {"metadata"} ELSE {})

\* optional fields that come back as their default where they were left out
Defaulted ==
    {"capabilities"}
    \cup (IF Of("Task") \/ Of("TaskStatusUpdateEvent") THEN {"status"} ELSE {})
    \cup (IF CrossedInProto THEN {"streaming", "pushNotifications", "extendedAgentCard"} ELSE {})
    \cup (IF CrossedInProto /\ Of("GetTaskRequest") THEN {"historyLength"} ELSE {})

\* optional fields that come back left out where they were empty
Emptied == {"timestamp", "documentationUrl", "iconUrl"}

\* 0.3 has fewer values
Narrowed(f, items) ==
    CASE f.name = "state" /\ items # <<"some">> -> <<"zero">>
      [] f.name = "role" /\ items # <<"some">> -> <<"agent">>
      [] f.name = "location" /\ items # <<"some">> -> <<"header">>
      [] f.name = "protocolVersion" -> <<"0.3">>
      [] f.name = "supportedInterfaces" -> T!Legacy(items)
      [] OTHER -> items

\* 0.3 parts that are no file have no name and no media type; a flag that
\* leaves an empty metadata takes it along
NoPlaceInPart ==
    IF ~Of("Part") THEN {}
    ELSE (IF T!IsFile(original) THEN {} ELSE {"filename", "mediaType"})
         \cup (IF T!Wraps(original) /\ original["metadata"] = <<"zero">> THEN {"metadata"} ELSE {})

Expected(f, items) ==
    IF f.name \in NoPlaceInPart THEN Unset(f)
    ELSE IF f.name = "data" /\ CrossedInProto /\ T!Wraps(original)
         THEN <<"wrapped " \o original["data"][1]>>      \* and its flag is lost
    ELSE IF f.name \in NoPlace \/ (CrossedInProto /\ f.name \in LeftOut) THEN Unset(f)
    ELSE IF f.rule = "map" THEN items
    ELSE IF items = <<>> /\ f.name \in Defaulted THEN <<"zero">>
    ELSE IF items = <<"zero">> /\ f.name \in Emptied THEN <<>>
    ELSE IF "0.3 proto binary" \in via /\ items = <<"loose">> THEN <<"some">>
    ELSE Narrowed(f, items)

(* What a message still says once a party of protocol 0.3 has been on its *)
(* way (compat/v0_3), however many more relays it takes: all it said, but *)
(* for the fields and values that 0.3 has not, listed above. *)
CrossingKeeps ==
    Crossed =>
        \A f \in ToSet(Binary[kind]) :
            message[f.name] = Expected(f, Settled(f, original[f.name]))

(* A format that a message was already relayed in does it no more harm: *)
(* nothing grows, flips or fades with each call of a long conversation. *)
OnceIsEnough == [][via' = via => message' = message]_vars

(* As types.ts says of append: the content is to be appended to the *)
(* artifact sent before, in 0.3 too. *)
AppendKept == Of("TaskArtifactUpdateEvent") => message["append"] = original["append"]

\* ids without which a message is invalid
Ids ==
    CASE Of("Message") -> {"messageId"}
      [] Of("TaskPushNotificationConfig") -> {"taskId"}
      [] kind \in GrpcOnly -> DOMAIN message \cap {"id", "taskId"}
      [] OTHER -> {}

(* What the 0.3 side of this library writes, its 0.3 side reads: the one *)
(* does not send what the other refuses, unless an id is empty, or of the *)
(* flows of OAuth there is none that 0.3 has. *)
WrittenIsReadable ==
    refused = "reader" =>
        \/ \E name \in Ids : message[name] = <<"zero">>
        \/ Of("OAuthFlows") /\ \A name \in DOMAIN message : name # "deviceCode" => message[name] = <<>>
=============================================================================
