\* Two executions and two consumers share the buses of one task.
CONSTANTS
    d1 = d1
    Payload <- MCPayload
    Published <- MCPublished
    Consumer = {c1, c2}
    Bus = {b1, b2}
    Execution = {p1, p2}
    NoBus = NoBus
    NoEvent = NoEvent
    MaxPublished = 2
SPECIFICATION Spec
SYMMETRY Symmetric
INVARIANTS TypeOK InOrder NoLostWakeup NothingAfterFinal
CHECK_DEADLOCK FALSE
