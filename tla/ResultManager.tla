----------------------------- MODULE ResultManager -----------------------------
(***************************************************************************)
(* The result managers of one process, each draining the events of one     *)
(* request into the task store under the per-task write lock.              *)
(*                                                                         *)
(* A store row is what InMemoryTaskStore scopes by: the tenant, the owner  *)
(* its OwnerResolver computes, and the task id. The lock key is made of    *)
(* the tenant, the user name and the task id. Call <<r, n>> is the n-th    *)
(* locked event of manager r; a manager awaits one before it takes the     *)
(* next. Enter reads the row and the call's last step writes it: the store *)
(* is asynchronous, and this is the widest the two can be apart.           *)
(***************************************************************************)
EXTENDS TaskMerge, TaskWriteLock, FiniteSets

CONSTANTS
    RM,                 \* result managers
    Tenant, User, Owner,
    TenantOf, UserOf,   \* the call context of each manager
    OwnerResolver,      \* the store's OwnerResolver, by user
    Latest,             \* Latest[r]: setContext's message, NoMsg if not called
    Event,              \* the events managers may be given
    MaxEvents           \* bound: MaxEvents[r], the locked events of manager r

Row == Tenant \X Owner \X TaskId

RowOf(r, tid) == <<TenantOf[r], OwnerResolver[UserOf[r]], tid>>

lockKey(r, tid) == <<TenantOf[r], UserOf[r], tid>>

ASSUME ContextAssumption ==
    /\ TenantOf \in [RM -> Tenant] /\ UserOf \in [RM -> User]
    /\ OwnerResolver \in [User -> Owner]
    /\ Latest \in [RM -> Msg \cup {NoMsg}]
ASSUME CallAssumption ==
    MaxEvents \in [RM -> Nat] /\ Call = UNION {{r} \X (1..MaxEvents[r]) : r \in RM}
ASSUME KeyAssumption == \A r \in RM, t \in TaskId \ {NoTid} : lockKey(r, t) \in Key
ASSUME EventAssumption == \A e \in Event : e.kind = "message" \/ e \in TaskEventOf
ASSUME AbsentAssumption ==
    NoTask \notin Task /\ Absent \notin Seq(Part) /\ NoMsg \notin Msg /\ NoTid \in TaskId

(***************************************************************************)
(* What the comment on taskWriteLocks claims of lockKey: callers that      *)
(* reach the same row take the same lock.                                  *)
(***************************************************************************)
LockMirrorsStore ==
    \A r, s \in RM, t \in TaskId \ {NoTid} :
        RowOf(r, t) = RowOf(s, t) => lockKey(r, t) = lockKey(s, t)

VARIABLES
    rows,       \* the task store
    current,    \* current[r]: currentTask
    final,      \* final[r]: whether finalMessageResult is set
    event,      \* event[c]: the event of a call
    loaded,     \* loaded[c]: the task its fn loaded
    outcome     \* history: how a call's fn ended

rmVars == <<rows, current, final, event, loaded, outcome>>
vars == <<lockVars, rmVars>>

NoEventYet == [kind |-> "none"]
Outcome == {"none", "saved", "ignored", "failed"}

TypeOK ==
    /\ LockTypeOK
    /\ rows \in [Row -> Task \cup {NoTask}]
    /\ current \in [RM -> Task \cup {NoTask}]
    /\ final \in [RM -> BOOLEAN]
    /\ event \in [Call -> Event \cup {NoEventYet}]
    /\ loaded \in [Call -> Task \cup {NoTask}]
    /\ outcome \in [Call -> Outcome]

Init ==
    /\ LockInit
    /\ rows = [k \in Row |-> NoTask]
    /\ current = [r \in RM |-> NoTask]
    /\ final = [r \in RM |-> FALSE]
    /\ event = [c \in Call |-> NoEventYet]
    /\ loaded = [c \in Call |-> NoTask]
    /\ outcome = [c \in Call |-> "none"]

-----------------------------------------------------------------------------
ManagerOf(c) == c[1]
RowOfCall(c) == RowOf(ManagerOf(c), event[c].data.tid)
Merged(c)    == Apply(loaded[c], event[c], Latest[ManagerOf(c)])

\* a status or artifact update whose task is not in the store
Unknown(c) == event[c].kind # "task" /\ loaded[c] = NoTask

\* processEvent is awaited: one at a time per manager
Idle(r) == \A n \in 1..MaxEvents[r] : stage[<<r, n>>] \in {"idle", "evicted"}

Ended(c, how) == outcome' = [outcome EXCEPT ![c] = how]
Holds(r, t)   == current' = [current EXCEPT ![r] = t]

\* a message event: no lock, no store
ProcessMessage(r, e) ==
    /\ Idle(r)
    /\ e.kind = "message"
    /\ final' = [final EXCEPT ![r] = TRUE]
    /\ UNCHANGED <<lockVars, rows, current, event, loaded, outcome>>

\* every event is taken for one without a task id
ProcessWithoutId_AnyId(r, e) ==
    /\ Idle(r)
    /\ e.kind # "message"
    /\ IF e.kind = "task"
       THEN LET t == Apply(NoTask, e, Latest[r]) IN
            /\ rows' = [rows EXCEPT ![RowOf(r, e.data.tid)] = t]
            /\ Holds(r, t)
       ELSE Holds(r, NoTask) /\ UNCHANGED rows
    /\ UNCHANGED <<lockVars, final, event, loaded, outcome>>

\* an event without a task id: a task is saved under the empty id without
\* lock or load, an update clears currentTask and stores nothing
ProcessWithoutId(r, e) ==
    /\ Idle(r)
    /\ e.kind # "message" /\ e.data.tid = NoTid
    /\ IF e.kind = "task"
       THEN LET t == Apply(NoTask, e, Latest[r]) IN
            /\ rows' = [rows EXCEPT ![RowOf(r, NoTid)] = t]
            /\ Holds(r, t)
       ELSE Holds(r, NoTask) /\ UNCHANGED rows
    /\ UNCHANGED <<lockVars, final, event, loaded, outcome>>

\* processEvent reaches serializeByScope
ProcessEvent(r, n, e) ==
    /\ Idle(r)
    /\ e.kind # "message" /\ e.data.tid # NoTid
    /\ \A m \in 1..(n - 1) : stage[<<r, m>>] = "evicted"
    /\ Serialize(<<r, n>>, lockKey(r, e.data.tid))
    /\ event' = [event EXCEPT ![<<r, n>>] = e]
    /\ UNCHANGED <<rows, current, final, loaded, outcome>>

\* the load of the faulty variant returns the manager's cached task
Load_Cached(c) ==
    /\ Enter(c)
    /\ loaded' = [loaded EXCEPT ![c] =
                    IF current[ManagerOf(c)] # NoTask THEN current[ManagerOf(c)]
                    ELSE rows[RowOfCall(c)]]
    /\ UNCHANGED <<rows, current, final, event, outcome>>

\* fn starts and loads the row
Load(c) ==
    /\ Enter(c)
    /\ loaded' = [loaded EXCEPT ![c] = rows[RowOfCall(c)]]
    /\ UNCHANGED <<rows, current, final, event, outcome>>

\* the load rejects
LoadFails(c) ==
    /\ Release(c)
    /\ Ended(c, "failed")
    /\ UNCHANGED <<rows, current, final, event, loaded>>

\* nothing to update
Ignore(c) ==
    /\ Unknown(c)
    /\ Release(c)
    /\ Holds(ManagerOf(c), NoTask)
    /\ Ended(c, "ignored")
    /\ UNCHANGED <<rows, final, event, loaded>>

\* the merged task becomes currentTask and is saved
Save(c) ==
    /\ ~Unknown(c)
    /\ Release(c)
    /\ Holds(ManagerOf(c), Merged(c))
    /\ rows' = [rows EXCEPT ![RowOfCall(c)] = Merged(c)]
    /\ Ended(c, "saved")
    /\ UNCHANGED <<final, event, loaded>>

\* the save rejects, before or after the row was written; currentTask is set
SaveFails(c) ==
    /\ ~Unknown(c)
    /\ Release(c)
    /\ Holds(ManagerOf(c), Merged(c))
    /\ \/ rows' = [rows EXCEPT ![RowOfCall(c)] = Merged(c)]
       \/ UNCHANGED rows
    /\ Ended(c, "failed")
    /\ UNCHANGED <<final, event, loaded>>

Clean(c) == Evict(c) /\ UNCHANGED rmVars

Next ==
    \/ \E r \in RM, e \in Event :
        \/ ProcessMessage(r, e)
        \/ ProcessWithoutId(r, e)
        \/ \E n \in 1..MaxEvents[r] : ProcessEvent(r, n, e)
    \/ \E c \in Call :
        Load(c) \/ LoadFails(c) \/ Ignore(c) \/ Save(c) \/ SaveFails(c) \/ Clean(c)

Spec == Init /\ [][Next]_vars

-----------------------------------------------------------------------------
(***************************************************************************)
(* Between its load and its save no other manager writes the row: the task *)
(* a running call merges against is the one in the store.                  *)
(***************************************************************************)
MergeIsFresh ==
    \A c \in Call : stage[c] = "running" => loaded[c] = rows[RowOfCall(c)]

\* the rows a task id can name
RealRow == {k \in Row : k[3] # NoTid}

OnRow(k) == {c \in Call : stage[c] # "idle" /\ RowOfCall(c) = k}

\* a status update's artifacts are not looked at
Touches(c, a) == event[c].kind # "statusUpdate" /\ event[c].data.artifacts[a] # Absent

Positions(p, parts) == {i \in DOMAIN parts : parts[i] = p}

\* where saved calls carried the part p for the artifact a of k
Carried(k, a, p) ==
    UNION {{c} \X Positions(p, event[c].data.artifacts[a]) :
              c \in {d \in OnRow(k) : Touches(d, a) /\ outcome[d] = "saved"}}

MessagesKept ==
    \A k \in Row : \A c \in OnRow(k) :
        /\ outcome[c] = "saved" /\ event[c].kind = "statusUpdate" /\ event[c].data.msg # NoMsg
        /\ \A d \in OnRow(k) : event[d].kind = "task" => event[d].data.history = <<>>
        => Mentions(rows[k].history, event[c].data.msg)

PartsKept ==
    \A k \in RealRow, a \in ArtId, p \in Part :
        /\ rows[k] # NoTask
        /\ \A c \in OnRow(k) : Touches(c, a) =>
            event[c].kind = "artifactUpdate" /\ event[c].data.append /\ outcome[c] # "failed"
        => Cardinality(Carried(k, a, p))
             = IF rows[k].artifacts[a] = Absent THEN 0 ELSE Cardinality(Positions(p, rows[k].artifacts[a]))

(***************************************************************************)
(* No manager's update is lost to a sibling's write. The message of a      *)
(* status update that was saved stays in the row, unless a task event came *)
(* that brings a history of its own; and when every event that touches an  *)
(* artifact appends to it and none of their saves failed, the row holds    *)
(* each part exactly as often as calls appended it.                        *)
(***************************************************************************)
UpdatesKept == MessagesKept /\ PartsKept

(***************************************************************************)
(* The managers together implement the atomic store, on every row a task   *)
(* id can name.                                                            *)
(***************************************************************************)
Atomic == INSTANCE TaskRows WITH Row <- RealRow, rows <- [k \in RealRow |-> rows[k]]

ImplementsTaskRows == Atomic!Spec
=============================================================================
