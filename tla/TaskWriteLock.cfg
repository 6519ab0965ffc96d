\* Four calls over two keys.
CONSTANTS
    Call = {w1, w2, w3, w4}
    Key = {k1, k2}
    NoCall = NoCall
    NoKey = NoKey
SPECIFICATION FairLockSpec
INVARIANTS MutualExclusion MapDrains
PROPERTIES EveryCallServed ImplementsTicketLock
CHECK_DEADLOCK FALSE
