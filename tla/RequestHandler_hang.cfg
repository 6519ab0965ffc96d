\* A blocking send whose task asks for input in a task event.
CONSTANTS
    first = first other = other
    Request = {first, other}
    Consumer = {first, other}
    Msg = {first, other}
    NoMsg = NoMsg
    TaskId = {NoTid}
    NoTid = NoTid
    ArtId = {}
    Part = {}
    Absent = Absent
    NoTask = NoTask
    Bus = {b1}
    NoBus = NoBus
    NoEvent = NoEvent
    Payload <- MCPayload
    Methods <- WaitedFor
    FollowUp = {}
    Script <- SnapshotScript
    Disconnecting = {}
    CancelBy = {}
    After <- InAnyOrder
    Patience = "over"
    keepBusAliveStates = {"INPUT_REQUIRED", "AUTH_REQUIRED"}
    MaxFailures = 0
SPECIFICATION FairSpec
PROPERTY EveryCallAnswered
CHECK_DEADLOCK FALSE
