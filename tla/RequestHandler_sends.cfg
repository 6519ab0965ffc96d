\* A send of any mode beside a resubscription, or before a follow-up; two store operations may reject.
CONSTANTS
    first = first other = other
    Request = {first, other}
    Consumer = {first, other}
    Msg = {first, other}
    NoMsg = NoMsg
    TaskId = {NoTid}
    NoTid = NoTid
    ArtId = {}
    Part = {}
    Absent = Absent
    NoTask = NoTask
    Bus = {b1, b2}
    NoBus = NoBus
    NoEvent = NoEvent
    Payload <- MCPayload
    Methods <- Followed
    FollowUp = {other}
    Script <- SendScript
    Disconnecting = {other}
    CancelBy = {}
    After <- InTurn
    Patience = "over"
    keepBusAliveStates = {"INPUT_REQUIRED", "AUTH_REQUIRED"}
    MaxFailures = 2
SPECIFICATION FairSpec
INVARIANTS TypeOK AnswerWasStored SendAnswerIsFinal BusLifetime OutcomePersisted FollowUpKept
PROPERTIES TerminalIsFinal CallsAndDrainsEnd
CHECK_DEADLOCK FALSE
