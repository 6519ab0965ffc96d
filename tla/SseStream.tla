------------------------------- MODULE SseStream -------------------------------
(***************************************************************************)
(* A stream of events from the request handler's generator to the client's *)
(* for-await loop: the Express handlers peek the first event, write each   *)
(* as an SSE frame and end the response; the network cuts the text into    *)
(* chunks, and may close early; parseSseStream puts lines and events       *)
(* together again, within a size limit; the transport parses their data.   *)
(*                                                                         *)
(* The text is a sequence of symbols: field names, line ends, and pieces of*)
(* payload <<event, piece>>. Sizes are numbers of symbols.                 *)
(***************************************************************************)
EXTENDS Naturals, SequencesExt

CONSTANTS
    Scripts,        \* what the generator does: events, then "return" or "throw"
    Styles,         \* how frames are written: "own", and as other servers may
    MaxEventSize,   \* maxEventSizeBytes, in symbols
    MaxChunk        \* bound: symbols in a chunk

\* a JSON text is not empty
ASSUME StreamAssumption ==
    /\ MaxEventSize \in Nat /\ MaxChunk \in Nat \ {0}
    /\ Styles \subseteq {"own", "crlf", "pretty"}
    /\ Scripts \subseteq [events : Seq([size : Nat \ {0}, fit : BOOLEAN]), ends : {"return", "throw"}]

\* an event: the number of its pieces, and whether JSON.stringify takes it
Event(size, fit) == [size |-> size, fit |-> fit]

Symbol(c, v) == [c |-> c, v |-> v]
LF == Symbol("LF", <<0, 0>>)
CR == Symbol("CR", <<0, 0>>)
DataField == Symbol("data", <<0, 0>>)
EventError == Symbol("error", <<0, 0>>)
CommentLine == Symbol("comment", <<0, 0>>)
Piece(event, k) == Symbol("piece", <<event, k>>)

VARIABLES
    script,     \* of the generator
    style,      \* of the writer
    generator,  \* "suspended", or how it finished: "returned", "threw", or "closed" by return()
    pulled,     \* events it has yielded
    server,     \* "peek", "first", "loop", "failing", or "ended"
    answer,     \* "none", "sse", or "error": a plain error response
    wire,       \* text written and not yet read
    open,       \* the connection: nobody has closed it
    cut,        \* history: the network has
    client,     \* "waiting", "reading", "ended", "threw", "toolarge", "left"
    buffer, eventType, eventData,   \* of parseSseStream
    received    \* the events the application has: their numbers

vars == <<script, style, generator, pulled, server, answer, wire, open, cut,
          client, buffer, eventType, eventData, received>>
serverVars == <<generator, pulled, server, answer>>
clientVars == <<client, buffer, eventType, eventData, received>>

-----------------------------------------------------------------------------
(* The server: sendStreamResponse, and the same in the JSON-RPC handler. *)

Payload(event, size) == [k \in 1..size |-> Piece(event, k)]
EOL == IF style = "crlf" THEN <<CR, LF>> ELSE <<LF>>

\* one data line; a pretty-printing server has one for each piece
DataLines(payload) ==
    IF style = "pretty"
    THEN [j \in 1..(3 * Len(payload)) |-> <<LF, DataField, payload[(j + 2) \div 3]>>[(j % 3) + 1]]
    ELSE <<DataField>> \o payload \o EOL

formatSSEEvent(event, size) ==
    (IF style = "pretty" THEN <<CommentLine>> \o EOL ELSE <<>>) \o DataLines(Payload(event, size)) \o EOL

\* event 0 stands for the error
formatSSEErrorEvent == <<EventError>> \o EOL \o DataLines(Payload(0, 1)) \o EOL

\* a client that left is not noticed: what is written is dropped
Write(text) == wire' = IF open THEN wire \o text ELSE wire

More == pulled < Len(script.events)

\* the first event is pulled before anything is sent
Peek ==
    /\ server = "peek"
    /\ IF More
       THEN /\ pulled' = 1
            /\ server' = "first"
            /\ answer' = "sse"
            /\ UNCHANGED generator
       ELSE /\ generator' = IF script.ends = "throw" THEN "threw" ELSE "returned"
            /\ answer' = IF script.ends = "throw" THEN "error" ELSE "sse"
            /\ server' = IF script.ends = "throw" THEN "ended" ELSE "loop"
            /\ UNCHANGED pulled
    /\ UNCHANGED <<script, style, wire, open, cut, clientVars>>

\* the event that was peeked is forgotten
WriteFirst_Lost ==
    /\ server = "first"
    /\ server' = "loop"
    /\ UNCHANGED <<script, style, generator, pulled, answer, wire, open, cut, clientVars>>

\* the first event is written outside of delegateAsyncIterator
WriteFirst ==
    /\ server = "first"
    /\ IF script.events[1].fit
       THEN Write(formatSSEEvent(1, script.events[1].size)) /\ server' = "loop"
       ELSE server' = "failing" /\ UNCHANGED wire
    /\ UNCHANGED <<script, style, generator, pulled, answer, open, cut, clientVars>>

\* a failure to write an event leaves the loop, and return() is dropped
PullNext_NoReturn ==
    /\ server = "loop"
    /\ More
    /\ pulled' = pulled + 1
    /\ IF script.events[pulled + 1].fit
       THEN Write(formatSSEEvent(pulled + 1, script.events[pulled + 1].size)) /\ UNCHANGED server
       ELSE server' = "failing" /\ UNCHANGED wire
    /\ UNCHANGED <<script, style, generator, answer, open, cut, clientVars>>

\* next() of delegateAsyncIterator: the event is written before the next is pulled
PullNext ==
    /\ server = "loop"
    /\ More
    /\ pulled' = pulled + 1
    /\ IF script.events[pulled + 1].fit
       THEN /\ Write(formatSSEEvent(pulled + 1, script.events[pulled + 1].size))
            /\ UNCHANGED <<generator, server>>
       ELSE /\ generator' = "closed"     \* the loop is left by an exception: return() is called
            /\ server' = "failing"
            /\ UNCHANGED wire
    /\ UNCHANGED <<script, style, answer, open, cut, clientVars>>

\* the generator is at its end: it returns, throws, or is asked a second time
PullLast ==
    /\ server = "loop"
    /\ ~More
    /\ LET throws == generator = "suspended" /\ script.ends = "throw"
       IN  /\ server' = IF throws THEN "failing" ELSE "ended"
           /\ generator' = IF generator # "suspended" THEN generator
                           ELSE IF throws THEN "threw" ELSE "returned"
    /\ UNCHANGED <<script, style, pulled, answer, wire, open, cut, clientVars>>

\* the catch clause only logs
WriteError_Silent ==
    /\ server = "failing"
    /\ server' = "ended"
    /\ UNCHANGED <<script, style, generator, pulled, answer, wire, open, cut, clientVars>>

\* the catch clause, then finally
WriteError ==
    /\ server = "failing"
    /\ Write(formatSSEErrorEvent)
    /\ server' = "ended"
    /\ UNCHANGED <<script, style, generator, pulled, answer, open, cut, clientVars>>

-----------------------------------------------------------------------------
(* The network. External. *)

\* the connection closes: some of what was written arrives, the rest does not
Cut ==
    /\ open
    /\ answer = "sse"
    /\ \E n \in 0..Len(wire) : wire' = SubSeq(wire, 1, n)
    /\ open' = FALSE
    /\ cut' = TRUE
    /\ UNCHANGED <<script, style, serverVars, clientVars>>

-----------------------------------------------------------------------------
(* The client: parseSseStream, and the loop of the transport around it. *)

LineEnds == {i \in DOMAIN buffer : buffer[i] = LF}

\* a response that is no stream is an error
Connect ==
    /\ client = "waiting"
    /\ answer # "none"
    /\ client' = IF answer = "sse" THEN "reading" ELSE "threw"
    /\ UNCHANGED <<script, style, cut, serverVars, wire, open, buffer, eventType, eventData, received>>

\* a chunk, once no complete line is left
ReadChunk(n) ==
    /\ client = "reading"
    /\ LineEnds = {}
    /\ Len(buffer) <= MaxEventSize
    /\ n \in 1..Len(wire)
    /\ buffer' = buffer \o SubSeq(wire, 1, n)
    /\ wire' = SubSeq(wire, n + 1, Len(wire))
    /\ UNCHANGED <<script, style, cut, serverVars, open, client, eventType, eventData, received>>

\* a line that never ends
RefuseBuffer ==
    /\ client = "reading"
    /\ LineEnds = {}
    /\ Len(buffer) > MaxEventSize
    /\ client' = "toolarge"
    /\ open' = FALSE
    /\ UNCHANGED <<script, style, cut, serverVars, wire, buffer, eventType, eventData, received>>

\* what the transport makes of an event: an error throws, and so does data
\* that is no JSON text
Whole(data) == \E event \in 1..pulled : data = Payload(event, script.events[event].size)

Consume(type, data) ==
    IF type = "error" \/ ~Whole(data)
    THEN client' = "threw" /\ UNCHANGED received
    ELSE received' = Append(received, data[1].v[1]) /\ UNCHANGED client

\* several data lines are one text
Extended(data, more) == data \o more

FirstLine == SubSeq(buffer, 1, (CHOOSE i \in LineEnds : \A j \in LineEnds : i <= j) - 1)

Stripped(line) == IF line # <<>> /\ Last(line) = CR THEN Front(line) ELSE line

ParseLine ==
    /\ client = "reading"
    /\ LineEnds # {}
    /\ Len(FirstLine) <= MaxEventSize
    /\ buffer' = SubSeq(buffer, Len(FirstLine) + 2, Len(buffer))
    /\ LET line == Stripped(FirstLine) IN
        \/ /\ line = <<>>
           /\ eventData # <<>>
           /\ Consume(eventType, eventData)
           /\ eventData' = <<>>
           /\ eventType' = "message"
        \/ /\ line = <<>>
           /\ eventData = <<>>
           /\ UNCHANGED <<client, received, eventData, eventType>>
        \/ /\ line # <<>>
           /\ line[1] = CommentLine
           /\ UNCHANGED <<client, received, eventData, eventType>>
        \/ /\ line # <<>>
           /\ line[1] = EventError
           /\ eventType' = "error"
           /\ UNCHANGED <<client, received, eventData>>
        \/ /\ line # <<>>
           /\ line[1] = DataField
           /\ eventData' = Extended(eventData, Tail(line))
           /\ client' = IF Len(eventData') > MaxEventSize THEN "toolarge" ELSE client
           /\ UNCHANGED <<received, eventType>>
    /\ open' = (open /\ client' = "reading")
    /\ UNCHANGED <<script, style, cut, serverVars, wire>>

RefuseLine ==
    /\ client = "reading"
    /\ LineEnds # {}
    /\ Len(FirstLine) > MaxEventSize
    /\ client' = "toolarge"
    /\ open' = FALSE
    /\ UNCHANGED <<script, style, cut, serverVars, wire, buffer, eventType, eventData, received>>

\* an unfinished line is waited for
EndOfStream_Complete ==
    /\ client = "reading"
    /\ buffer = <<>> /\ wire = <<>>
    /\ ~open \/ server = "ended"
    /\ client' = IF eventData = <<>> THEN "ended" ELSE "threw"
    /\ UNCHANGED <<script, style, cut, serverVars, wire, open, buffer, eventType, eventData, received>>

\* the stream is at its end: a pending event is yielded, an unfinished line is not
EndOfStream ==
    /\ client = "reading"
    /\ LineEnds = {}
    /\ Len(buffer) <= MaxEventSize
    /\ wire = <<>>
    /\ ~open \/ server = "ended"
    /\ IF eventData # <<>> /\ (eventType = "error" \/ ~Whole(eventData))
       THEN client' = "threw" /\ UNCHANGED received
       ELSE /\ client' = "ended"
            /\ received' = IF eventData = <<>> THEN received ELSE Append(received, eventData[1].v[1])
    /\ UNCHANGED <<script, style, cut, serverVars, wire, open, buffer, eventType, eventData>>

\* the application leaves its loop: the body is cancelled
Leave ==
    /\ client = "reading"
    /\ received # <<>>
    /\ client' = "left"
    /\ open' = FALSE
    /\ wire' = <<>>
    /\ UNCHANGED <<script, style, cut, serverVars, buffer, eventType, eventData, received>>

-----------------------------------------------------------------------------
Init ==
    /\ script \in Scripts
    /\ style \in Styles
    /\ generator = "suspended" /\ pulled = 0
    /\ server = "peek" /\ answer = "none"
    /\ wire = <<>> /\ open = TRUE /\ cut = FALSE
    /\ client = "waiting" /\ buffer = <<>> /\ eventType = "message" /\ eventData = <<>>
    /\ received = <<>>

ServerStep == Peek \/ WriteFirst \/ PullNext \/ PullLast \/ WriteError
ClientStep ==
    \/ Connect \/ RefuseBuffer \/ ParseLine \/ RefuseLine \/ EndOfStream
    \/ \E n \in 1..MaxChunk : ReadChunk(n)

Next == ServerStep \/ ClientStep \/ Cut \/ Leave

Spec == Init /\ [][Next]_vars /\ WF_vars(ServerStep) /\ WF_vars(ClientStep)

-----------------------------------------------------------------------------
\* an event that the parser must refuse: a line of it, or all its data
TooLarge(size) ==
    LET line == IF style = "pretty" THEN 2 ELSE size + 1
        end == IF style = "crlf" THEN 1 ELSE 0
    IN  line + end > MaxEventSize \/ size > MaxEventSize

(* Wherever the text is cut into chunks or cut off, the application sees   *)
(* the events of the handler, whole, in order and without a gap.           *)
EventsInOrder == received = [i \in 1..Len(received) |-> i] /\ Len(received) <= pulled

EndsAgree ==
    client \in {"ended", "threw", "toolarge"} /\ (~cut \/ client = "toolarge") =>
        LET refused == {i \in 1..pulled : script.events[i].fit /\ TooLarge(script.events[i].size)}
        IN  /\ client = "toolarge" => Len(received) + 1 \in refused
            /\ client = "ended" => generator = "returned" /\ Len(received) = pulled
            /\ client = "threw" => generator # "returned" /\ server = "ended"

WithinLimit == \A i \in DOMAIN received : ~TooLarge(script.events[received[i]].size)

EarlyErrorIsPlain == client = "reading" => script.events # <<>> \/ script.ends # "throw"

(* Where the network held, both ends agree: if the application's loop ends,*)
(* the generator returned and the application has all its events; if it    *)
(* throws, the generator threw or an event could not be written. Wherever  *)
(* the network cut, it is refused only for an event that exceeds           *)
(* maxEventSizeBytes, and it has none that does, however they came in      *)
(* chunks. A call that fails before its first event is answered by an      *)
(* error, never by a stream (the handlers' "peek the first event").        *)
OutcomeAgrees == EndsAgree /\ WithinLimit /\ EarlyErrorIsPlain

(* When the response is ended the handler's generator is finished, so that *)
(* its queue has left the bus (delegateAsyncIterator), whoever ended it.   *)
GeneratorReleased == server = "ended" => generator # "suspended"

(* A stream ends at both ends, also when the connection is cut and also    *)
(* when the client left: the server goes on to the generator's end.        *)
BothEnd == <>(server = "ended" /\ client \in {"ended", "threw", "toolarge", "left"})
================================================================================
