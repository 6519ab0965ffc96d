\* Streams of up to three events that end either way, from a server of this
\* library and from two that write frames another way; chunks of up to five
\* symbols; a limit that the larger events just fit.
CONSTANTS
    Scripts <- MCScripts
    Styles = {"own", "crlf", "pretty"}
    MaxEventSize = 3
    MaxChunk = 5
SPECIFICATION Spec
INVARIANTS
    EventsInOrder
    OutcomeAgrees
    GeneratorReleased
PROPERTIES
    BothEnd
\* both ends are done
CHECK_DEADLOCK FALSE
