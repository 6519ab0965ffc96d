\* Three notifications of one task, the last in another scope, and one without
\* a task, beside two creations or deletions of a configuration with an id
\* and of some without one, over a known and an unknown wire version.
CONSTANTS
    t = t
    u = u
    alice = alice
    bob = bob
    n1 = n1
    n2 = n2
    n3 = n3
    n4 = n4
    TaskId = {t}
    Scope = {alice, bob}
    ConfigId = {"c"}
    Version = {"0.3", "9"}
    Serializers = {"0.3"}
    Notification = {n1, n2, n3, n4}
    For <- MCFor
    MaxWrites = 2
SPECIFICATION Spec
INVARIANTS
    PostedToRegistered
    SequentialPerTask
PROPERTIES
    EverySendSettles
\* everything was sent
CHECK_DEADLOCK FALSE
