\* As MessageCodec.cfg: the messages are the same.
CONSTANTS
    Binary <- MCBinary
    Json <- MCJson
    Sample <- MCSample
    Crossing <- MCCrossing
    Carrier <- MCCarrier
    GrpcOnly <- MCGrpcOnly
SPECIFICATION RelaySpec
INVARIANT
    AppendKept
CHECK_DEADLOCK FALSE
