\* A stream of up to two events beside another call, two interceptors, and
\* credentials that change once; legacyCompat enabled or not. A caller's own
\* credentials are those that the agent accepts at the start.
CONSTANTS
    c1 = c1
    c2 = c2
    Calls = {c1, c2}
    Methods <- MCMethods
    OwnHeader = {c2}
    OwnCredential = 0
    NInterceptors = 2
    AgentCards <- MCAgentCards
    Transports = {"JSONRPC", "HTTP+JSON"}
    Preferred <- MCPreferred
    MaxEvents = 2
    MaxRotations = 1
SPECIFICATION Spec
INVARIANTS
    AfterMirrorsBefore
    StreamReleased
    RetriedOnceIfRefused
    Negotiated
PROPERTIES
    EveryCallEnds
\* all calls have ended
CHECK_DEADLOCK FALSE
