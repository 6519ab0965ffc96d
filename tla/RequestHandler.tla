---------------------------- MODULE RequestHandler ----------------------------
(***************************************************************************)
(* DefaultRequestHandler on one task: sends that run an executor, cancels  *)
(* and resubscriptions, over the task's store row, its event bus and the   *)
(* per-task write lock.                                                    *)
(*                                                                         *)
(* A request is its own queue's consumer and its own user message. What    *)
(* happens between two awaits is one step; every store operation and every *)
(* resumption is a step of its own. The write lock is the condition that   *)
(* one request at a time is "folding" (ResultManager shows it is one); the *)
(* handler's own reads and writes of the row do not take it.               *)
(*                                                                         *)
(* A definition whose name ends in a mark such as _NotSaved is a faulty    *)
(* variant of the one after it; nothing uses it.                           *)
(***************************************************************************)
EXTENDS EventBus, TaskMerge

LOCAL INSTANCE SequencesExt

CONSTANTS
    Request,
    Methods,            \* the assignments of methods to requests considered
    FollowUp,           \* the requests whose message, when they send one, names the task
    Script,             \* Script[r]: what r's executor may do: events, then return or throw
    Disconnecting,      \* the streams whose consumer may leave early
    CancelBy,           \* what the executor's cancelTask may do
    After, Patience,    \* a send r is made when the requests After[r] are that far
    keepBusAliveStates,
    MaxFailures         \* bound: store operations that reject

SendMethod == {"blocking", "nonblocking", "stream"}

ASSUME MethodAssumption ==
    /\ Methods \subseteq [Request -> SendMethod \cup {"cancel", "resubscribe"}]
    /\ \A m \in Methods :
        \A r, s \in Request \ FollowUp : m[r] \in SendMethod /\ m[s] \in SendMethod => r = s
ASSUME RequestAssumption ==
    /\ Consumer = Request /\ Msg = Request /\ NoMsg \notin Request /\ FollowUp \subseteq Request
    /\ After \in [Request -> SUBSET Request] /\ Patience \in {"answered", "over"}
ASSUME TaskAssumption == Payload \subseteq TaskPayload /\ NoTask \notin Task
ASSUME ExecutorAssumption ==
    /\ \A r \in Request :
        Script[r] \subseteq [events : Seq(AgentExecutionEvent), ends : {"return", "throw"}]
    /\ CancelBy \subseteq {"publish", "signal", "throw"}
    /\ keepBusAliveStates \subseteq TaskState /\ MaxFailures \in Nat

VARIABLES
    Method,     \* Method[r]: the handler's method, and a send's mode
    row,        \* the task in the store
    held,       \* history: every state the row was written with
    pc,         \* pc[r]: where r's handler is
    seen,       \* seen[r]: the task r loaded last
    current,    \* current[r]: its result manager's currentTask
    final,      \* final[r]: whether its finalMessageResult is set
    answer,     \* answer[r]: what its caller's promise or stream settled with
    sent,       \* sent[r]: firstResultSent
    pattern,    \* pattern[r]: a stream's StreamPattern
    context,    \* context[r]: requestContext.task's history
    exec,       \* exec[r]: how far its executor is
    script,     \* script[r]: what its executor has left to do
    tracker,    \* tracker[r]: the listener that tracks the latest state
    failures    \* store operations that rejected

storeVars == <<row, held>>
callVars  == <<pc, answer, sent, pattern, context>>
rmVars    == <<seen, current, final>>
execVars  == <<exec, script, tracker>>
vars == <<Method, busVars, storeVars, callVars, rmVars, execVars, failures>>

PC == {"idle", "loaded", "ready", "attached", "draining", "pulled", "folding", "folded",
       "failing", "repairing", "drained", "cancelling", "marking", "verifying", "joined", "done"}

Answer == [kind : {"none", "task", "message", "closed", "error"}, state : TaskState \cup {NoState}]
Tracker == [on : BOOLEAN, state : TaskState \cup {NoState}, task : BOOLEAN]

NoAnswer == [kind |-> "none", state |-> NoState]
NoScript == [events |-> <<>>, ends |-> "none"]
NoTracker == [on |-> FALSE, state |-> NoState, task |-> FALSE]

Send == {r \in Request : Method[r] \in SendMethod}
Continuing == FollowUp \cap Send

TypeOK ==
    /\ BusTypeOK
    /\ Method \in Methods
    /\ row \in Task \cup {NoTask}
    /\ held \subseteq TaskState
    /\ pc \in [Request -> PC]
    /\ seen \in [Request -> Task \cup {NoTask}]
    /\ current \in [Request -> Task \cup {NoTask}]
    /\ final \in [Request -> BOOLEAN]
    /\ answer \in [Request -> Answer]
    /\ sent \in [Request -> BOOLEAN]
    /\ pattern \in [Request -> {"undetermined", "message-only", "task-lifecycle"}]
    /\ context \in [Request -> Seq(Msg)]
    /\ exec \in [Request -> {"none", "running", "returned", "settled"}]
    /\ \A r \in Request : exec[r] = "running" => script[r].ends # "none"
    /\ tracker \in [Request -> Tracker]
    /\ failures \in 0..MaxFailures

Init ==
    /\ BusInit
    /\ Method \in Methods
    /\ row = NoTask
    /\ held = {}
    /\ pc = [r \in Request |-> "idle"]
    /\ seen = [r \in Request |-> NoTask]
    /\ current = [r \in Request |-> NoTask]
    /\ final = [r \in Request |-> FALSE]
    /\ answer = [r \in Request |-> NoAnswer]
    /\ sent = [r \in Request |-> FALSE]
    /\ pattern = [r \in Request |-> "undetermined"]
    /\ context = [r \in Request |-> <<>>]
    /\ exec = [r \in Request |-> "none"]
    /\ script = [r \in Request |-> NoScript]
    /\ tracker = [r \in Request |-> NoTracker]
    /\ failures = 0

-----------------------------------------------------------------------------
(* Shared pieces. *)

Terminal(t) == t # NoTask /\ t.state \in TERMINAL_STATE_LIST

\* what the event r holds is, and its result manager's latestUserMessage
Held(r)   == queue[r].last
Latest(r) == IF r \in Send THEN r ELSE NoMsg

At(r, p)   == pc[r] = p
Goto(r, p) == pc' = [pc EXCEPT ![r] = p]

\* a promise settles once
Settled(r, kind, state) ==
    answer' = IF answer[r].kind = "none"
              THEN [answer EXCEPT ![r] = [kind |-> kind, state |-> state]] ELSE answer

Write(t) == row' = t /\ held' = held \cup {t.state}

\* a client sends r once the requests it waits for are answered, or over
MayStart(r) ==
    /\ At(r, "idle")
    /\ \A s \in After[r] : r \in Send =>
        /\ answer[s].kind # "none"
        /\ Patience = "over" => At(s, "done") /\ exec[s] \in {"none", "settled"}

Refuse(r) ==
    /\ Goto(r, "done")
    /\ Settled(r, "error", NoState)

\* an event's data when it carries a history, and when it carries none
Carry(history) ==
    [tid |-> NoTid, history |-> history, artifacts |-> [a \in ArtId |-> Absent],
     msg |-> NoMsg, append |-> FALSE]

Failed == StatusUpdate("FAILED", Carry(<<>>))
Canceled == StatusUpdate("CANCELED", Carry(<<>>))

\* the state of the last event that reports one
LastState(events) ==
    LET last == SelectLastInSeq(events, LAMBDA e : e.state # NoState)
    IN  IF last = 0 THEN NoState ELSE events[last].state

Noted(t, es) ==
    [t EXCEPT !.state = IF LastState(es) # NoState THEN LastState(es) ELSE @,
              !.task = @ \/ \E i \in DOMAIN es : es[i].kind = "task"]

\* every tracker listening on b sees es
Track(trackers, b, es) ==
    [r \in Request |->
        IF trackers[r].on /\ queue[r].bus = b THEN Noted(trackers[r], es) ELSE trackers[r]]

-----------------------------------------------------------------------------
(* _createRequestContext *)

LoadContext_NoTerminalCheck(r) ==
    /\ r \in Continuing /\ MayStart(r)
    /\ IF row = NoTask
       THEN Refuse(r) /\ UNCHANGED seen
       ELSE /\ seen' = [seen EXCEPT ![r] = row]
            /\ Goto(r, "loaded")
            /\ UNCHANGED answer
    /\ UNCHANGED <<busVars, storeVars, sent, pattern, context, current, final, execVars, failures>>

\* a message that names the task: load, not found, terminal
LoadContext(r) ==
    /\ r \in Continuing /\ MayStart(r)
    /\ IF row = NoTask \/ Terminal(row)
       THEN Refuse(r) /\ UNCHANGED seen
       ELSE /\ seen' = [seen EXCEPT ![r] = row]
            /\ Goto(r, "loaded")
            /\ UNCHANGED answer
    /\ UNCHANGED <<busVars, storeVars, sent, pattern, context, current, final, execVars, failures>>

\* the message is appended to the loaded task, which is saved
Extended(r) == [seen[r] EXCEPT !.history = Append(@, r)]

SaveContext(r) ==
    /\ At(r, "loaded") /\ r \in Continuing
    /\ Write(Extended(r))
    /\ context' = [context EXCEPT ![r] = Extended(r).history]
    /\ Goto(r, "ready")
    /\ UNCHANGED <<busVars, answer, sent, pattern, rmVars, execVars, failures>>

-----------------------------------------------------------------------------
(* Running the executor. *)

Launched(r) ==
    /\ exec' = [exec EXCEPT ![r] = "running"]
    /\ \E s \in Script[r] : script' = [script EXCEPT ![r] = s]
    /\ tracker' = [tracker EXCEPT ![r] = [NoTracker EXCEPT !.on = TRUE]]

\* the bus is created or found, the queue attached, and execute() called:
\* at once, or for a stream after the push configuration is saved
Open(r) ==
    /\ r \in Send
    /\ At(r, "ready") \/ (r \notin FollowUp /\ MayStart(r))
    /\ \E b \in Bus : OpenBus(r, b)
    /\ IF Method[r] = "stream"
       THEN Goto(r, "attached") /\ UNCHANGED execVars
       ELSE Goto(r, "draining") /\ Launched(r)
    /\ UNCHANGED <<storeVars, answer, sent, pattern, context, rmVars, failures>>

Launch(r) ==
    /\ At(r, "attached")
    /\ Goto(r, "draining")
    /\ Launched(r)
    /\ UNCHANGED <<busVars, storeVars, answer, sent, pattern, context, rmVars, failures>>

Publish(r) ==
    /\ exec[r] = "running" /\ script[r].events # <<>>
    /\ LET e == Head(script[r].events) IN
        /\ PublishOn(queue[r].bus, <<e>>)
        /\ tracker' = Track(tracker, queue[r].bus, <<e>>)
    /\ script' = [script EXCEPT ![r].events = Tail(@)]
    /\ UNCHANGED <<storeVars, callVars, rmVars, exec, failures>>

Return(r) ==
    /\ exec[r] = "running" /\ script[r].events = <<>> /\ script[r].ends = "return"
    /\ exec' = [exec EXCEPT ![r] = "returned"]
    /\ UNCHANGED <<busVars, storeVars, callVars, rmVars, script, tracker, failures>>

ErrorEvents_NoContext(r) ==
    IF Method[r] = "stream" /\ tracker[r].task
    THEN <<Failed>> ELSE <<TaskEvent("FAILED", Carry(<<r>>)), Failed>>

\* a failed task, with the history of requestContext.task and the user
\* message, and a failed status; to a stream that carried a task, the status
ErrorEvents(r) ==
    LET history == IF Mentions(context[r], r) THEN context[r] ELSE Append(context[r], r)
    IN  IF Method[r] = "stream" /\ tracker[r].task
        THEN <<Failed>> ELSE <<TaskEvent("FAILED", Carry(history)), Failed>>

\* .catch; a stream reads its tracker there, which detaches it
Throw(r) ==
    /\ exec[r] = "running" /\ script[r].events = <<>> /\ script[r].ends = "throw"
    /\ PublishOn(queue[r].bus, ErrorEvents(r))
    /\ tracker' = Track([tracker EXCEPT ![r].on = @ /\ Method[r] # "stream"],
                        queue[r].bus, ErrorEvents(r))
    /\ exec' = [exec EXCEPT ![r] = "returned"]
    /\ UNCHANGED <<storeVars, callVars, rmVars, script, failures>>

\* emptying the bus in the table takes the trackers on it as well
Untracked(r) ==
    [s \in Request |-> IF s = r \/ queue[s].bus = registered
                       THEN [tracker[s] EXCEPT !.on = FALSE] ELSE tracker[s]]

Settle_Early(r) ==
    /\ \/ exec[r] = "returned"
       \/ exec[r] = "running" /\ tracker[r].on /\ tracker[r].state \in TERMINAL_STATE_LIST
    /\ IF tracker[r].state \in keepBusAliveStates
       THEN tracker' = [tracker EXCEPT ![r].on = FALSE] /\ UNCHANGED busVars
       ELSE SettleBus(queue[r].bus) /\ tracker' = Untracked(r)
    /\ exec' = [exec EXCEPT ![r] = IF @ = "returned" THEN "settled" ELSE @]
    /\ UNCHANGED <<storeVars, callVars, rmVars, script, failures>>

\* .finally: the tracker is detached, and the bus settled or kept alive
Settle(r) ==
    /\ exec[r] = "returned"
    /\ IF tracker[r].state \in keepBusAliveStates
       THEN tracker' = [tracker EXCEPT ![r].on = FALSE] /\ UNCHANGED busVars
       ELSE SettleBus(queue[r].bus) /\ tracker' = Untracked(r)
    /\ exec' = [exec EXCEPT ![r] = "settled"]
    /\ UNCHANGED <<storeVars, callVars, rmVars, script, failures>>

-----------------------------------------------------------------------------
(* Draining the queue: _processEvents and the loop of sendMessageStream. *)

\* the loop asks for the next event, is given one, or ends
Await(r) ==
    /\ At(r, "draining")
    /\ Pull(r)
    /\ pc' = [pc EXCEPT ![r] = CASE queue'[r].loop = "holding" -> "pulled"
                                 [] queue'[r].loop = "done" -> "drained"
                                 [] OTHER -> "draining"]
    /\ UNCHANGED <<storeVars, answer, sent, pattern, context, rmVars, execVars, failures>>

\* _advanceStreamPattern throws
Violates(r) ==
    /\ Method[r] = "stream"
    /\ CASE pattern[r] = "undetermined" -> Held(r).kind \notin {"message", "task"}
         [] pattern[r] = "message-only" -> TRUE
         [] pattern[r] = "task-lifecycle" -> Held(r).kind \notin {"statusUpdate", "artifactUpdate"}

BreakStream(r) ==
    /\ At(r, "pulled") /\ Violates(r)
    /\ StopQueue(r)
    /\ Refuse(r)
    /\ UNCHANGED <<storeVars, sent, pattern, context, rmVars, execVars, failures>>

Advanced(r) ==
    pattern' = IF Method[r] = "stream" /\ pattern[r] = "undetermined"
               THEN [pattern EXCEPT ![r] = IF Held(r).kind = "message"
                                           THEN "message-only" ELSE "task-lifecycle"]
               ELSE pattern

\* processEvent of a message
FoldMessage(r) ==
    /\ At(r, "pulled") /\ Method[r] # "resubscribe" /\ ~Violates(r)
    /\ Held(r).kind = "message"
    /\ Advanced(r)
    /\ final' = [final EXCEPT ![r] = TRUE]
    /\ Goto(r, "folded")
    /\ UNCHANGED <<busVars, storeVars, answer, sent, context, seen, current, execVars, failures>>

LockFree == \A s \in Request : pc[s] \notin {"folding", "repairing"}

\* processEvent of any other event: the lock is taken and the row loaded
FoldLoad(r) ==
    /\ At(r, "pulled") /\ Method[r] # "resubscribe" /\ ~Violates(r)
    /\ Held(r).kind # "message"
    /\ LockFree
    /\ Advanced(r)
    /\ seen' = [seen EXCEPT ![r] = row]
    /\ Goto(r, "folding")
    /\ UNCHANGED <<busVars, storeVars, answer, sent, context, current, final, execVars, failures>>

Fold_NotSaved(r, e) ==
    /\ current' = [current EXCEPT ![r] = Apply(seen[r], e, Latest(r))]
    /\ UNCHANGED storeVars

\* e is merged into the task r loaded, which is saved; an update for an
\* unknown task clears currentTask
Fold(r, e) ==
    LET t == Apply(seen[r], e, Latest(r)) IN
    /\ current' = [current EXCEPT ![r] = t]
    /\ IF t # NoTask THEN Write(t) ELSE UNCHANGED storeVars

FoldSave(r) ==
    /\ At(r, "folding")
    /\ Fold(r, Held(r))
    /\ Goto(r, "folded")
    /\ UNCHANGED <<busVars, answer, sent, pattern, context, seen, final, execVars, failures>>

TaskAnswer(t) == [kind |-> "task", state |-> t.state]

\* getFinalResult
FinalResult(r) ==
    IF final[r] THEN [kind |-> "message", state |-> NoState]
    ELSE IF current[r] # NoTask THEN TaskAnswer(current[r]) ELSE NoAnswer

Result_AnyState(r) ==
    IF sent[r] THEN NoAnswer
    ELSE IF Method[r] = "nonblocking"
         THEN IF Held(r).kind = "task" THEN TaskAnswer(Held(r)) ELSE FinalResult(r)
    ELSE IF Method[r] = "blocking" /\ current[r] # NoTask
         THEN TaskAnswer(current[r])
    ELSE NoAnswer

\* what an event brings a send: its first result, or the AUTH_REQUIRED snapshot
Result(r) ==
    IF sent[r] THEN NoAnswer
    ELSE IF Method[r] = "nonblocking"
         THEN IF Held(r).kind = "task" THEN TaskAnswer(Held(r)) ELSE FinalResult(r)
    ELSE IF /\ Method[r] = "blocking"
            /\ Held(r).kind = "statusUpdate" /\ Held(r).state \in AUTH_REQUIRED_STATE_LIST
            /\ current[r] # NoTask
         THEN TaskAnswer(current[r])
    ELSE NoAnswer

Deliver_ThenStops(r) ==
    /\ At(r, "folded")
    /\ IF Result(r) = NoAnswer
       THEN Goto(r, "draining") /\ UNCHANGED <<busVars, answer, sent>>
       ELSE /\ Settled(r, Result(r).kind, Result(r).state)
            /\ sent' = [sent EXCEPT ![r] = TRUE]
            /\ StopQueue(r) /\ Goto(r, "done")
    /\ UNCHANGED <<storeVars, pattern, context, rmVars, execVars, failures>>

Deliver(r) ==
    /\ At(r, "folded")
    /\ IF Result(r) = NoAnswer
       THEN UNCHANGED <<answer, sent>>
       ELSE /\ Settled(r, Result(r).kind, Result(r).state)
            /\ sent' = [sent EXCEPT ![r] = TRUE]
    /\ Goto(r, "draining")
    /\ UNCHANGED <<busVars, storeVars, pattern, context, rmVars, execVars, failures>>

\* the loop has ended: a send's promise settles with the final result, if it
\* has not; cancelTask goes on to check the task
Finish(r) ==
    /\ At(r, "drained")
    /\ CASE Method[r] = "cancel" -> Goto(r, "verifying") /\ UNCHANGED answer
         [] Method[r] \in {"stream", "resubscribe"} -> Goto(r, "done") /\ Settled(r, "closed", NoState)
         [] Method[r] = "blocking" /\ FinalResult(r) # NoAnswer ->
                Goto(r, "done") /\ Settled(r, FinalResult(r).kind, FinalResult(r).state)
         [] OTHER -> Refuse(r)
    /\ UNCHANGED <<busVars, storeVars, sent, pattern, context, rmVars, execVars, failures>>

\* a stream's consumer leaves: its generator is returned at a yield, or, for
\* a resubscription, at the yield of the snapshot
Disconnect(r) ==
    /\ r \in Disconnecting
    /\ \/ Method[r] = "stream" /\ At(r, "folded")
       \/ Method[r] = "resubscribe" /\ At(r, "pulled")
       \/ Method[r] = "resubscribe" /\ At(r, "draining") /\ queue[r].loop = "attached"
    /\ StopQueue(r)
    /\ Goto(r, "done")
    /\ Settled(r, "closed", NoState)
    /\ UNCHANGED <<storeVars, sent, pattern, context, rmVars, execVars, failures>>

-----------------------------------------------------------------------------
(* _handleProcessingError *)

LoopFails_Swallowed(r) ==
    IF Method[r] \in {"blocking", "nonblocking"} /\ current'[r] # NoTask
    THEN Goto(r, "failing") /\ UNCHANGED <<busVars, answer>>
    ELSE StopQueue(r) /\ Refuse(r)

\* a send that has answered repairs the row, if it has a task; any other
\* request ends with the error
LoopFails(r) ==
    IF Method[r] \in {"blocking", "nonblocking"} /\ sent[r] /\ current'[r] # NoTask
    THEN Goto(r, "failing") /\ UNCHANGED <<busVars, answer>>
    ELSE StopQueue(r) /\ Refuse(r)

\* the load rejects, or the save does, before or after the row was written
FoldFails(r) ==
    /\ At(r, "folding")
    /\ failures < MaxFailures /\ failures' = failures + 1
    /\ \/ UNCHANGED <<storeVars, current>>
       \/ Fold(r, Held(r))
       \/ current' = [current EXCEPT ![r] = Apply(seen[r], Held(r), Latest(r))] /\ UNCHANGED storeVars
    /\ LoopFails(r)
    /\ UNCHANGED <<sent, pattern, context, seen, final, execVars>>

RepairLoad(r) ==
    /\ At(r, "failing")
    /\ LockFree
    /\ seen' = [seen EXCEPT ![r] = row]
    /\ Goto(r, "repairing")
    /\ UNCHANGED <<busVars, storeVars, answer, sent, pattern, context, current, final, execVars, failures>>

\* a failed status is folded in; if that rejects it is only logged
RepairSave(r) ==
    /\ At(r, "repairing")
    /\ \/ Fold(r, Failed) /\ UNCHANGED failures
       \/ /\ failures < MaxFailures /\ failures' = failures + 1
          /\ UNCHANGED <<storeVars, current>>
    /\ StopQueue(r)
    /\ Goto(r, "done")
    /\ UNCHANGED <<answer, sent, pattern, context, seen, final, execVars>>

-----------------------------------------------------------------------------
(* cancelTask *)

CancelLoad(c) ==
    /\ Method[c] = "cancel" /\ MayStart(c)
    /\ IF row = NoTask \/ (Terminal(row) /\ row.state # "CANCELED")
       THEN Refuse(c) /\ UNCHANGED seen
       ELSE IF row.state = "CANCELED"
       THEN Goto(c, "done") /\ Settled(c, "task", "CANCELED") /\ UNCHANGED seen
       ELSE /\ seen' = [seen EXCEPT ![c] = row]
            /\ Goto(c, "loaded")
            /\ UNCHANGED answer
    /\ UNCHANGED <<busVars, storeVars, sent, pattern, context, current, final, execVars, failures>>

\* through the bus when there is one, else by marking the loaded task
CancelFork(c) ==
    /\ Method[c] = "cancel" /\ At(c, "loaded")
    /\ IF registered # NoBus
       THEN JoinBus(c) /\ Goto(c, "cancelling")
       ELSE UNCHANGED busVars /\ Goto(c, "marking")
    /\ UNCHANGED <<storeVars, answer, sent, pattern, context, rmVars, execVars, failures>>

\* the executor's cancelTask: it publishes, or tells execute() to, or throws
AgentCancel(c) ==
    /\ At(c, "cancelling")
    /\ \/ /\ "publish" \in CancelBy
          /\ PublishOn(queue[c].bus, <<Canceled>>)
          /\ tracker' = Track(tracker, queue[c].bus, <<Canceled>>)
          /\ Goto(c, "draining")
          /\ UNCHANGED <<answer, script>>
       \/ /\ "signal" \in CancelBy
          /\ script' = [r \in Request |->
               IF exec[r] = "running" THEN [events |-> <<Canceled>>, ends |-> "return"] ELSE script[r]]
          /\ Goto(c, "draining")
          /\ UNCHANGED <<busVars, answer, tracker>>
       \/ /\ "throw" \in CancelBy
          /\ Refuse(c)
          /\ UNCHANGED <<busVars, script, tracker>>
    /\ UNCHANGED <<storeVars, sent, pattern, context, rmVars, exec, failures>>

Marked(c) == [seen[c] EXCEPT !.state = "CANCELED", !.history = Append(@, c)]

Mark(c) ==
    /\ At(c, "marking")
    /\ Write(Marked(c))
    /\ Goto(c, "verifying")
    /\ UNCHANGED <<busVars, answer, sent, pattern, context, rmVars, execVars, failures>>

Verify(c) ==
    /\ At(c, "verifying")
    /\ IF row # NoTask /\ row.state = "CANCELED"
       THEN Goto(c, "done") /\ Settled(c, "task", "CANCELED")
       ELSE Refuse(c)
    /\ UNCHANGED <<busVars, storeVars, sent, pattern, context, rmVars, execVars, failures>>

-----------------------------------------------------------------------------
(* resubscribe *)

Subscribe(c) ==
    /\ Method[c] = "resubscribe" /\ MayStart(c)
    /\ IF registered # NoBus THEN JoinBus(c) ELSE UNCHANGED busVars
    /\ Goto(c, "joined")
    /\ UNCHANGED <<storeVars, answer, sent, pattern, context, rmVars, execVars, failures>>

HasQueue(c) == queue[c].loop # "none"

StopIfAny(c) == IF HasQueue(c) THEN StopQueue(c) ELSE UNCHANGED busVars

\* the snapshot is yielded; without a bus the stream ends there
Snapshot(c) ==
    /\ At(c, "joined")
    /\ IF row = NoTask \/ Terminal(row)
       THEN StopIfAny(c) /\ Refuse(c) /\ UNCHANGED seen
       ELSE /\ seen' = [seen EXCEPT ![c] = row]
            /\ IF HasQueue(c)
               THEN Goto(c, "draining") /\ UNCHANGED answer
               ELSE Goto(c, "done") /\ Settled(c, "closed", NoState)
            /\ UNCHANGED busVars
    /\ UNCHANGED <<storeVars, sent, pattern, context, current, final, execVars, failures>>

Forward(c) ==
    /\ Method[c] = "resubscribe" /\ At(c, "pulled")
    /\ Goto(c, "draining")
    /\ UNCHANGED <<busVars, storeVars, answer, sent, pattern, context, rmVars, execVars, failures>>

-----------------------------------------------------------------------------
\* any other store operation rejects: a load of the task or of a referenced
\* one, a save of the row or of the push configuration; a row's save may have
\* been done
StoreFails(r) ==
    /\ failures < MaxFailures /\ failures' = failures + 1
    /\ \/ /\ \/ MayStart(r) /\ Method[r] # "resubscribe"
             \/ pc[r] \in {"ready", "attached", "verifying", "marking"}
             \/ At(r, "loaded") /\ r \in Continuing
          /\ UNCHANGED <<busVars, storeVars>>
       \/ At(r, "loaded") /\ r \in Continuing /\ Write(Extended(r)) /\ UNCHANGED busVars
       \/ At(r, "marking") /\ Write(Marked(r)) /\ UNCHANGED busVars
       \/ At(r, "joined") /\ StopIfAny(r) /\ UNCHANGED storeVars
    /\ Refuse(r)
    /\ UNCHANGED <<sent, pattern, context, rmVars, execVars>>

Handle(r) ==
    \/ LoadContext(r) \/ SaveContext(r) \/ Open(r) \/ Launch(r)
    \/ Await(r) \/ BreakStream(r) \/ FoldMessage(r) \/ FoldLoad(r) \/ FoldSave(r)
    \/ Deliver(r) \/ Finish(r) \/ RepairLoad(r) \/ RepairSave(r)
    \/ CancelLoad(r) \/ CancelFork(r) \/ AgentCancel(r) \/ Mark(r) \/ Verify(r)
    \/ Subscribe(r) \/ Snapshot(r) \/ Forward(r)

Execute(r) == Publish(r) \/ Return(r) \/ Throw(r) \/ Settle(r)

Next ==
    /\ \E r \in Request :
        Handle(r) \/ Execute(r) \/ Disconnect(r) \/ FoldFails(r) \/ StoreFails(r)
    /\ UNCHANGED Method

Spec == Init /\ [][Next]_vars

-----------------------------------------------------------------------------
(***************************************************************************)
(* The event loop resumes what can be resumed, the store answers, and      *)
(* executors go on until they return or throw.                             *)
(***************************************************************************)
FairSpec ==
    Spec /\ \A r \in Request :
                    /\ WF_vars(~At(r, "idle") /\ Handle(r) /\ UNCHANGED Method)
                    /\ WF_vars(Execute(r) /\ UNCHANGED Method)

(***************************************************************************)
(* A task a caller is answered with was stored in that state before: no    *)
(* answer runs ahead of the save, whatever the store rejects.              *)
(***************************************************************************)
AnswerWasStored ==
    \A r \in Request : answer[r].kind = "task" => answer[r].state \in held

\* buses kept alive over many turns do not gather listeners
NoTrackerLeak == \A r \in Request : tracker[r].on => exec[r] \in {"running", "returned"}

BusHeld == \A r \in Request : exec[r] = "running" => queue[r].bus = registered

OnlyInterruptedKept ==
    /\ registered # NoBus
    /\ \A r \in Request : ~At(r, "attached") /\ exec[r] \in {"none", "settled"}
    /\ \E r \in Request : exec[r] = "settled" /\ queue[r].bus = registered
    => LastState(log[registered]) \in keepBusAliveStates

(***************************************************************************)
(* A bus lives as long as it is needed and no longer, over the turns of a  *)
(* task. While a send's executor publishes, its bus is the one resubscribe *)
(* and cancelTask find, and so is that of a queue which was not stopped;   *)
(* stopped queues and settled executors leave no listener; and once every  *)
(* executor is settled, a bus one of them had is left in the table only    *)
(* when the last state published on it is one to keep it for.              *)
(***************************************************************************)
BusLifetime == BusHeld /\ NoOrphan /\ NoListenerLeak /\ NoTrackerLeak /\ OnlyInterruptedKept

(***************************************************************************)
(* A request that has ended holds no queue on any bus, whatever rejects    *)
(* while it drains: one it never pulled, because the executor's cancelTask *)
(* threw or the push configuration was not saved, is the exception.        *)
(***************************************************************************)
QueueReleased ==
    \A r \in Request, b \in Bus :
        At(r, "done") /\ queue[r].loop # "attached" => r \notin listeners[b]

(***************************************************************************)
(* A task that reached a terminal state stays in it, as long as the store  *)
(* rejects nothing: a save that was done and rejects all the same is       *)
(* repaired by a failed status on top of it.                               *)
(***************************************************************************)
TerminalIsFinal ==
    [][Terminal(row) /\ failures = 0 => row' # NoTask /\ row'.state = row.state]_vars

(***************************************************************************)
(* What a follow-up saved stays: the history its context was given, with   *)
(* its own message at the end, remains the beginning of the stored one,    *)
(* also when its executor fails and a task made of that context is folded. *)
(***************************************************************************)
FollowUpKept ==
    \A r \in FollowUp :
        context[r] # <<>> => row # NoTask /\ IsPrefix(context[r], row.history)

BlockingAnswerIsFinal ==
    \A r \in Request :
        /\ Method[r] = "blocking" /\ answer[r].kind = "task" /\ failures = 0
        /\ answer[r].state \notin TERMINAL_STATE_LIST \cup INTERRUPTED_STATE_LIST
        => exec[r] = "settled" /\ answer[r].state = LastState(log[queue[r].bus])

OpensWell(r) ==
    LET events == SubSeq(log[queue[r].bus], queue[r].from + 1, Len(log[queue[r].bus]))
    IN  \A i \in DOMAIN events : (i = 1) <=> (events[i].kind \in {"task", "message"})

NoErrorOnceRun ==
    \A r \in Send :
        /\ failures = 0 /\ exec[r] # "none"
        /\ Method[r] = "stream" => OpensWell(r)
        => answer[r].kind # "error"

(***************************************************************************)
(* With no store failure, a send whose executor ran is not answered with   *)
(* an error: an executor's failure reaches the caller as a failed task (a  *)
(* stream's executor has to open with a task or a message, and publish one *)
(* of them once). And a blocking send is not answered with an intermediate *)
(* state: it is terminal or interrupted, or the one its executor left when *)
(* it returned.                                                            *)
(***************************************************************************)
SendAnswerIsFinal == NoErrorOnceRun /\ BlockingAnswerIsFinal

(***************************************************************************)
(* Every send, cancel and resubscribe that was made is answered, or ends;  *)
(* only a stream may stay open, on a bus kept alive for a follow-up.       *)
(***************************************************************************)
Paused(b) ==
    /\ b # NoBus /\ b = registered /\ LastState(log[b]) \in keepBusAliveStates
    /\ \A r \in Request : exec[r] \in {"none", "settled"}

EveryCallAnswered ==
    \A r \in Request :
        ~At(r, "idle") ~>
            \/ answer[r].kind # "none"
            \/ Method[r] \in {"stream", "resubscribe"} /\ Paused(queue[r].bus)

(***************************************************************************)
(* And nobody drains for ever: every event that is published while a queue *)
(* listens is yielded, and once a bus has left the manager's table every   *)
(* loop on it ends, a background drain's too.                              *)
(***************************************************************************)
CallsAndDrainsEnd == EveryCallAnswered /\ BufferDrains /\ ClosedBusDrains

(***************************************************************************)
(* What an executor reported last is in the store once everything is over: *)
(* with nothing running and no store failure, when the last state published *)
(* on a bus is a terminal one, the row is in it. A stream whose consumer    *)
(* may leave, or whose executor broke the stream's order, is the exception. *)
(***************************************************************************)
OutcomePersisted ==
    \A b \in created :
        /\ \A r \in Request : Method[r] = "stream" /\ exec[r] # "none"
              => r \notin Disconnecting /\ answer[r].kind # "error"
        /\ \A r \in Request : pc[r] \in {"idle", "done"} /\ exec[r] \in {"none", "settled"}
        /\ failures = 0
        /\ LastState(log[b]) \in TERMINAL_STATE_LIST
        => row # NoTask /\ row.state = LastState(log[b])
=============================================================================
