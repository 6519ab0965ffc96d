\* A send, and a cancel at any time; cancelTask may throw and a store operation reject.
CONSTANTS
    first = first other = other
    Request = {first, other}
    Consumer = {first, other}
    Msg = {first, other}
    NoMsg = NoMsg
    TaskId = {NoTid}
    NoTid = NoTid
    ArtId = {}
    Part = {}
    Absent = Absent
    NoTask = NoTask
    Bus = {b1}
    NoBus = NoBus
    NoEvent = NoEvent
    Payload <- MCPayload
    Methods <- Cancelled
    FollowUp = {}
    Script <- CanceledScript
    Disconnecting = {}
    CancelBy = {"publish", "signal", "throw"}
    After <- InAnyOrder
    Patience = "over"
    keepBusAliveStates = {"INPUT_REQUIRED", "AUTH_REQUIRED"}
    MaxFailures = 1
SPECIFICATION FairSpec
INVARIANT QueueReleased
PROPERTY EveryCallAnswered
CHECK_DEADLOCK FALSE
