\* Every message of both protocol versions and of Google's libraries, with at
\* most two of its fields set; the relays are not bounded.
CONSTANTS
    Binary <- MCBinary
    Json <- MCJson
    Sample <- MCSample
    Crossing <- MCCrossing
    Carrier <- MCCarrier
    GrpcOnly <- MCGrpcOnly
SPECIFICATION RelaySpec
INVARIANTS
    RoundTrip
    CrossingKeeps
    WrittenIsReadable
PROPERTY
    OnceIsEnough
\* a message that cannot be written is not sent on
CHECK_DEADLOCK FALSE
