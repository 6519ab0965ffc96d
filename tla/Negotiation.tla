------------------------------ MODULE Negotiation ------------------------------
(***************************************************************************)
(* How a client and a server come to speak one version of the protocol:    *)
(* ClientFactory picks an interface of the agent's card, the transport's   *)
(* factory picks one again by its URL, and the server admits the versions  *)
(* its card declares. A card is the sequence of its interfaces; a version  *)
(* is <<major, minor>>, or empty; a URL and a binding are names.           *)
(***************************************************************************)
EXTENDS Integers, Sequences, FiniteSetsExt

V1 == <<1, 0>>
V03 == <<0, 3>>
NoVersion == <<>>

Interface(binding, url, version) == [url |-> url, version |-> version, binding |-> binding]
NoInterface == Interface("", "", NoVersion)
AgentInterface == [url : STRING, version : Seq(Nat), binding : STRING]

compareVersions(a, b) == IF a[1] # b[1] THEN a[1] - b[1] ELSE a[2] - b[2]

\* no version is the legacy one for a client
isLegacyVersion(version) ==
    \/ version = NoVersion
    \/ compareVersions(version, V03) >= 0 /\ compareVersions(version, V1) < 0

\* the places of a card where the loops look
Named(card, binding) == {k \in DOMAIN card : card[k].binding = binding}
Current(card, places) == {k \in places : card[k].version = V1}
Earliest(card, places) == IF places = {} THEN NoInterface ELSE card[Min(places)]
Latest(card, places) == IF places = {} THEN NoInterface ELSE card[Max(places)]

\* the first interface of each binding, until one at 1.0 replaces it
bestInterfacePerProtocol(card, binding) ==
    LET named == Named(card, binding)
        current == Current(card, named)
    IN IF current # {} THEN Latest(card, current) ELSE Earliest(card, named)

\* the order of the preference first, then that of the card
selectInterface(card, transports, preferredTransports) ==
    LET names == preferredTransports \o [k \in DOMAIN card |-> card[k].binding]
        usable == {k \in DOMAIN names : names[k] \in transports /\ Named(card, names[k]) # {}}
    IN IF usable = {} THEN NoInterface ELSE bestInterfacePerProtocol(card, names[Min(usable)])

\* the first that matches, whatever its version
pickMatchingInterface_First(card, binding, url) ==
    Earliest(card, {k \in Named(card, binding) : card[k].url = url})

\* of the binding, and of the URL if there is one: the first at 1.0, or else the first
pickMatchingInterface(card, binding, url) ==
    LET candidates == Named(card, binding)
        byUrl == {k \in candidates : card[k].url = url}
        pool == IF byUrl # {} THEN byUrl ELSE candidates
        current == Current(card, pool)
    IN Earliest(card, IF current # {} THEN current ELSE pool)

\* the version of the transport that create(url, card) makes
createTransport(card, binding, url, legacyCompat) ==
    LET iface == pickMatchingInterface(card, binding, url)
    IN IF legacyCompat /\ iface # NoInterface /\ isLegacyVersion(iface.version) THEN V03 ELSE V1

\* what the server's card declares for a binding, and nothing by default
getSupportedVersions(card, binding) ==
    {card[k].version : k \in Named(card, binding)} \ {NoVersion}

validateVersion(requestedVersion, card, binding) ==
    requestedVersion \in getSupportedVersions(card, binding)
=============================================================================
