------------------------------- MODULE TaskList -------------------------------
(***************************************************************************)
(* A client that lists its tasks page by page while they are being saved:  *)
(* InMemoryTaskStore.list behind DefaultRequestHandler.listTasks, and the  *)
(* buckets per scope (tenant and owner) it reads.                          *)
(*                                                                         *)
(* A task is its position in the order of ids, its status timestamp (0: it *)
(* has none), and whether the client's filter (context, state) accepts it. *)
(* A timestamp is the clock at the save, or an older one the agent kept.   *)
(***************************************************************************)
EXTENDS Integers, Sequences, FiniteSets

CONSTANTS
    TaskId,         \* a set of naturals, in the order of localeCompare
    Scope,          \* the scopes of the store
    Mine,           \* the scope of the client
    PageSize,       \* the page sizes the client asks for
    Start,          \* the clock at the start, and the latest timestamp there is
    MaxSaves        \* bound: saves beside the listing, each a tick of the clock

ASSUME ListAssumption ==
    /\ TaskId \subseteq Nat /\ IsFiniteSet(TaskId)
    /\ Mine \in Scope
    /\ PageSize \subseteq Int
    /\ Start \in Nat
    /\ MaxSaves \in Nat

DEFAULT_MAX == 100      \* the page sizes listTasks accepts
NoToken == <<>>

VARIABLES
    bucket,         \* the tasks of each scope: a function on the ids saved there
    clock,
    phase,          \* "idle", "listing", "ended", or "refused"
    filtered,       \* does the client filter by context or state?
    after,          \* statusTimestampAfter, or 0
    pageToken,      \* the token of the next page: <<timestamp, id>>
    listed,         \* the tasks received, as they were then
    total,          \* the totalSize of the last page
    touched,        \* history: the client's tasks saved since the first page
    lostCursor      \* history: did a page find its cursor gone?

vars == <<bucket, clock, phase, filtered, after, pageToken, listed, total, touched, lostCursor>>

-----------------------------------------------------------------------------
getBucket(scope) == bucket[scope]

\* newest first, then by id downwards
Before(a, b) == a.time > b.time \/ (a.time = b.time /\ a.id > b.id)

Accepted(task) == (filtered => task.match) /\ (after # 0 => task.time > after)

Matching == {t \in {getBucket(Mine)[id] : id \in DOMAIN getBucket(Mine)} : Accepted(t)}

\* no two tasks of a bucket are equal in this order: each has its place
Sorted ==
    [k \in 1..Cardinality(Matching) |->
        CHOOSE t \in Matching : Cardinality({u \in Matching : Before(u, t)}) = k - 1]

\* a cursor that is the timestamp alone
Following_ByTime(tasks, token) == SelectSeq(tasks, LAMBDA t : t.time < token[1])

\* after the cursor, which is the task with its timestamp and its id
Following(tasks, token) ==
    LET at == {i \in DOMAIN tasks : tasks[i].time = token[1] /\ tasks[i].id = token[2]}
    IN  IF at = {} THEN <<>> ELSE SubSeq(tasks, (CHOOSE i \in at : TRUE) + 1, Len(tasks))

Remaining(token) == IF token = NoToken THEN Sorted ELSE Following(Sorted, token)

CursorGone(token) ==
    token # NoToken /\ \A i \in DOMAIN Sorted : <<Sorted[i].time, Sorted[i].id>> # token

\* the token is that of the last task of the page, if there are more
NextToken(tasks, size) ==
    IF Len(tasks) > size THEN <<tasks[size].time, tasks[size].id>> ELSE NoToken

-----------------------------------------------------------------------------
Row(id, time, match) == [id |-> id, time |-> time, match |-> match]

Init ==
    /\ clock = Start
    /\ phase = "idle"
    /\ filtered \in BOOLEAN
    /\ after \in {0, 1}
    /\ \E ids \in SUBSET TaskId :
        \E time \in [ids -> 0..Start], match \in [ids -> IF filtered THEN BOOLEAN ELSE {TRUE}] :
            bucket = [s \in Scope |->
                IF s = Mine THEN [id \in ids |-> Row(id, time[id], match[id])]
                ELSE [id \in TaskId |-> Row(id, Start, TRUE)]]
    /\ pageToken = NoToken
    /\ listed = <<>>
    /\ total = 0
    /\ touched = {}
    /\ lostCursor = FALSE

\* save replaces the row of its scope
save(scope, task) ==
    bucket' = [bucket EXCEPT ![scope] =
        [id \in DOMAIN @ \cup {task.id} |-> IF id = task.id THEN task ELSE @[id]]]

\* an agent's update: the timestamp is now, or the one the task had, or none
Save(scope, id) ==
    /\ clock < Start + MaxSaves
    /\ phase = "listing"      \* bound: what was saved before is in Init, and later saves change no page
    /\ clock' = clock + 1
    /\ \E match \in IF filtered THEN BOOLEAN ELSE {TRUE} :
        \E time \in {clock + 1} \cup (IF id \in DOMAIN bucket[scope] THEN {bucket[scope][id].time} ELSE {0}) :
            save(scope, Row(id, time, match))
    /\ touched' = IF scope = Mine THEN touched \cup {id} ELSE touched
    /\ UNCHANGED <<phase, filtered, after, pageToken, listed, total, lostCursor>>

\* a cursor that is gone is given back, to be tried again
ListPage_RetryLost(size) ==
    /\ phase \in {"idle", "listing"}
    /\ size \in 1..DEFAULT_MAX
    /\ LET tasks == Remaining(pageToken)
           token == IF CursorGone(pageToken) THEN pageToken ELSE NextToken(tasks, size)
       IN  /\ listed' = listed \o SubSeq(tasks, 1, IF size < Len(tasks) THEN size ELSE Len(tasks))
           /\ pageToken' = token
           /\ phase' = IF token = NoToken THEN "ended" ELSE "listing"
    /\ total' = Len(Sorted)
    /\ lostCursor' = CursorGone(pageToken)
    /\ UNCHANGED <<bucket, clock, filtered, after, touched>>

\* one call of listTasks; the client goes on until there is no token
ListPage(size) ==
    /\ phase \in {"idle", "listing"}
    /\ size \in 1..DEFAULT_MAX
    /\ LET tasks == Remaining(pageToken)
           token == NextToken(tasks, size)
       IN  /\ listed' = listed \o SubSeq(tasks, 1, IF size < Len(tasks) THEN size ELSE Len(tasks))
           /\ pageToken' = token
           /\ phase' = IF token = NoToken THEN "ended" ELSE "listing"
    /\ total' = Len(Sorted)
    /\ lostCursor' = CursorGone(pageToken)
    /\ UNCHANGED <<bucket, clock, filtered, after, touched>>

\* a page size out of range
RefusePage(size) ==
    /\ phase \in {"idle", "listing"}
    /\ size \notin 1..DEFAULT_MAX
    /\ phase' = "refused"
    /\ UNCHANGED <<bucket, clock, filtered, after, pageToken, listed, total, touched, lostCursor>>

Next ==
    \/ \E scope \in Scope, id \in TaskId : Save(scope, id)
    \/ \E size \in PageSize : ListPage(size) \/ RefusePage(size)

Spec == Init /\ [][Next]_vars /\ WF_vars(\E size \in PageSize : ListPage(size))

-----------------------------------------------------------------------------
PagesDescend ==
    \A i, j \in DOMAIN listed : i < j => Before(listed[i], listed[j])

NothingSkipped ==
    phase = "ended" /\ ~lostCursor =>
        \A id \in DOMAIN bucket[Mine] \ touched :
            Accepted(bucket[Mine][id]) => \E i \in DOMAIN listed : listed[i] = bucket[Mine][id]

OnlyMine ==
    \A i \in DOMAIN listed :
        /\ Accepted(listed[i])
        /\ listed[i].id \in DOMAIN bucket[Mine]
        /\ listed[i].id \notin touched => listed[i] = bucket[Mine][listed[i].id]

TotalAgrees == phase = "ended" /\ touched = {} => Len(listed) = total

(* The pages together are the client's tasks, whatever is saved between    *)
(* two of them. They go down in the order of list(), so no task comes      *)
(* twice as it was; no task is left out that matched all along and that    *)
(* nobody saved meanwhile, unless the task of a cursor was saved: then the *)
(* code ends the listing (store.ts, cursor of list()); and what is listed  *)
(* is the client's own, whatever ids the tasks of other scopes have        *)
(* (ScopedStore). If nobody saved, there are as many as totalSize says.    *)
ExactPages == PagesDescend /\ NothingSkipped /\ OnlyMine /\ TotalAgrees

(* The client gets to the end: a listing of any number of pages ends when  *)
(* the saves do.                                                           *)
ListingEnds == phase = "listing" ~> phase \in {"ended", "refused"}
===============================================================================
