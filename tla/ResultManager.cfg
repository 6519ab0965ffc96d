\* Two managers of one user: three locked events between them, and messages and events without a task id among them.
CONSTANTS
    r1 = r1 r2 = r2 t1 = t1 m1 = m1 m2 = m2 u1 = u1 u2 = u2 a1 = a1 p1 = p1 p2 = p2
    alice = alice bob = bob
    RM = {r1, r2}
    TaskId = {t1, NoTid}
    NoTid = NoTid
    Msg = {m1, m2, u1}
    NoMsg = NoMsg
    ArtId = {a1}
    Part = {p1, p2}
    Absent = Absent
    NoTask = NoTask
    NoCall = NoCall
    NoKey = NoKey
    Tenant = {""}
    User = {alice}
    Owner = {alice}
    TenantOf <- MCTenantOf
    UserOf <- MCUserOf
    OwnerResolver <- MCResolver
    Latest <- MCLatest
    Event <- AnyEvent
    Payload <- MCPayload
    Call <- MCCall
    Key <- MCKey
    MaxEvents <- TwoAndOne
SPECIFICATION Spec
INVARIANTS TypeOK MergeIsFresh UpdatesKept
PROPERTY ImplementsTaskRows
CHECK_DEADLOCK FALSE
