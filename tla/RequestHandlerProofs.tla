------------------------- MODULE RequestHandlerProofs -------------------------
(***************************************************************************)
(* DefaultRequestHandler for any number of requests on a task, buses and   *)
(* store failures: what a caller is told was stored, an ended request      *)
(* listens nowhere, and, as long as clients take turns, the task's bus is  *)
(* in the manager's table exactly while somebody needs it.  When nobody    *)
(* cancels either, a terminal state stays, so does what a follow-up saved, *)
(* and what an executor reported last is stored.                           *)
(***************************************************************************)
EXTENDS RequestHandler, EventBusProofs

LOCAL INSTANCE SequencesExt

-----------------------------------------------------------------------------
(* Folding an event into a well-formed task, or into no task, leaves one,   *)
(* or none: the operators are those of TaskMerge.                           *)

LEMMA WithLatestType ==
    ASSUME NEW history \in Seq(Msg), NEW l \in Msg \cup {NoMsg}
    PROVE  WithLatest(history, l) \in Seq(Msg)
<1>1. CASE l = NoMsg \/ Mentions(history, l)
    BY <1>1 DEF WithLatest
<1>2. CASE ~(l = NoMsg \/ Mentions(history, l))
    <2>1. l \in Msg
        BY <1>2
    <2>2. <<l>> \in Seq(Msg)
        BY <2>1
    <2>3. <<l>> \o history \in Seq(Msg)
        BY <2>2
    <2> QED
        BY <1>2, <2>3 DEF WithLatest
<1> QED
    BY <1>1, <1>2

LEMMA WithUpdateType ==
    ASSUME NEW history \in Seq(Msg), NEW m \in Msg \cup {NoMsg}
    PROVE  WithUpdate(history, m) \in Seq(Msg)
<1>1. CASE m = NoMsg \/ Mentions(history, m)
    BY <1>1 DEF WithUpdate
<1>2. CASE ~(m = NoMsg \/ Mentions(history, m))
    BY <1>2 DEF WithUpdate
<1> QED
    BY <1>1, <1>2

LEMMA PutArtifactsType ==
    ASSUME NEW p \in Artifacts, NEW i \in Artifacts, NEW append \in BOOLEAN
    PROVE  PutArtifacts(p, i, append) \in Artifacts
<1>1. ASSUME NEW a \in ArtId, p[a] # Absent, i[a] # Absent
      PROVE  p[a] \o i[a] \in Seq(Part)
    <2>1. p[a] \in Seq(Part) /\ i[a] \in Seq(Part)
        BY <1>1 DEF Artifacts
    <2> QED
        BY <2>1
<1>2. \A a \in ArtId : p[a] \in Seq(Part) \cup {Absent} /\ i[a] \in Seq(Part) \cup {Absent}
    BY DEF Artifacts
<1>3. ASSUME NEW a \in ArtId
      PROVE  PutArtifacts(p, i, append)[a] \in Seq(Part) \cup {Absent}
    <2>1. CASE i[a] = Absent
        BY <1>2, <2>1 DEF PutArtifacts
    <2>2. CASE i[a] # Absent /\ append /\ p[a] # Absent
        <3>1. PutArtifacts(p, i, append)[a] = p[a] \o i[a]
            BY <2>2 DEF PutArtifacts
        <3> QED
            BY <1>1, <2>2, <3>1
    <2>3. CASE i[a] # Absent /\ ~(append /\ p[a] # Absent)
        <3>1. PutArtifacts(p, i, append)[a] = i[a]
            BY <2>3 DEF PutArtifacts
        <3> QED
            BY <1>2, <3>1
    <2> QED
        BY <2>1, <2>2, <2>3
<1> QED
    BY <1>3 DEF PutArtifacts, Artifacts

LEMMA ApplyType ==
    ASSUME NEW t \in Task \cup {NoTask}, NEW e \in TaskEventOf, NEW l \in Msg \cup {NoMsg}
    PROVE  /\ Apply(t, e, l) \in Task \cup {NoTask}
           /\ e.kind = "task" \/ t # NoTask => Apply(t, e, l) \in Task
<1>1. /\ e.kind \in {"task", "statusUpdate", "artifactUpdate"}
      /\ e.kind \in {"task", "statusUpdate"} => e.state \in TaskState
      /\ e.data.history \in Seq(Msg) /\ e.data.artifacts \in Artifacts
      /\ e.data.msg \in Msg \cup {NoMsg} /\ e.data.append \in BOOLEAN
    BY DEF TaskEventOf, AgentExecutionEvent, TaskPayload
<1>2. t # NoTask => /\ t \in Task
                    /\ t.history \in Seq(Msg) /\ t.artifacts \in Artifacts /\ t.state \in TaskState
    BY DEF Task
<1>3. CASE e.kind = "task"
    <2>1. MergeArtifacts(t.artifacts, e.data.artifacts) \in Artifacts \/ t = NoTask
        BY <1>1, <1>2 DEF MergeArtifacts, Artifacts
    <2>2. ApplyTaskEvent(t, e, l) \in Task
        BY <1>1, <1>2, <1>3, <2>1, WithLatestType DEF ApplyTaskEvent, Task
    <2> QED
        BY <1>3, <2>2 DEF Apply
<1>4. CASE e.kind = "statusUpdate" /\ t # NoTask
    <2>1. ApplyStatusUpdate(t, e) \in Task
        BY <1>1, <1>2, <1>4, WithUpdateType DEF ApplyStatusUpdate, Task
    <2> QED
        BY <1>4, <2>1 DEF Apply
<1>5. CASE e.kind = "artifactUpdate" /\ t # NoTask
    <2>1. ApplyArtifactUpdate(t, e) \in Task
        BY <1>1, <1>2, <1>5, PutArtifactsType DEF ApplyArtifactUpdate, Task
    <2> QED
        BY <1>5, <2>1 DEF Apply
<1>6. CASE e.kind # "task" /\ t = NoTask
    BY <1>6 DEF Apply
<1> QED
    BY <1>1, <1>3, <1>4, <1>5, <1>6

-----------------------------------------------------------------------------
(* The last state of a sequence of events. *)

LEMMA LastStateIs ==
    ASSUME NEW s \in Seq(AgentExecutionEvent)
    PROVE  \/ LastState(s) = NoState /\ \A i \in DOMAIN s : s[i].state = NoState
           \/ \E i \in DOMAIN s : /\ LastState(s) = s[i].state /\ s[i].state # NoState
                                  /\ \A j \in DOMAIN s : j > i => s[j].state = NoState
<1> DEFINE I == {i \in 1..Len(s) : s[i].state # NoState}
           last == IF I # {} THEN Max(I) ELSE 0
<1>1. DOMAIN s = 1..Len(s) /\ Len(s) \in Nat
    OBVIOUS
<1>2. LastState(s) = IF last = 0 THEN NoState ELSE s[last].state
    BY DEF LastState, SelectLastInSeq
<1>3. CASE I = {}
    BY <1>1, <1>2, <1>3
<1>4. CASE I # {}
    <2>1. Max(I) \in I /\ \A i \in I : Max(I) >= i
        <3>1. \E m \in I : \A i \in I : m >= i
            BY <1>1, <1>4, LastIndex
        <3> QED
            BY <3>1 DEF Max
    <2>2. LastState(s) = s[Max(I)].state
        BY <1>1, <1>2, <1>4, <2>1
    <2>3. \A j \in DOMAIN s : j > Max(I) => s[j].state = NoState
        BY <1>1, <2>1
    <2> QED
        BY <1>1, <2>1, <2>2, <2>3
<1> QED
    BY <1>3, <1>4

LEMMA EventState == \A e \in AgentExecutionEvent : e.state \in TaskState \cup {NoState}
BY DEF AgentExecutionEvent

LEMMA LastStateType ==
    ASSUME NEW s \in Seq(AgentExecutionEvent)
    PROVE  LastState(s) \in TaskState \cup {NoState}
BY LastStateIs, EventState

LEMMA TrackType ==
    ASSUME NEW t \in [Request -> Tracker], NEW b, NEW es \in Seq(AgentExecutionEvent)
    PROVE  /\ Track(t, b, es) \in [Request -> Tracker]
           /\ \A r \in Request : Track(t, b, es)[r].on = t[r].on
<1>1. ASSUME NEW r \in Request PROVE Noted(t[r], es) \in Tracker /\ Noted(t[r], es).on = t[r].on
    BY LastStateType DEF Noted, Tracker
<1> QED
    BY <1>1 DEF Track, Tracker

-----------------------------------------------------------------------------
(* The inductive invariant that needs no assumption on the clients. *)

\* where a queue's generator can be while its request is at p
Fits(p, loop) ==
    \/ p \in {"idle", "loaded", "ready", "marking", "verifying", "joined", "done"} /\ loop = "none"
    \/ p \in {"joined", "attached", "cancelling", "draining", "done"} /\ loop = "attached"
    \/ p = "draining" /\ loop \in {"parked", "ready"}
    \/ p \in {"draining", "pulled", "folding", "folded", "failing", "repairing"} /\ loop = "holding"
    \/ p \in {"drained", "verifying", "done"} /\ loop = "done"

Code == [events : Seq(AgentExecutionEvent), ends : {"none", "return", "throw"}]

\* a request's parts agree on how far it is
StageInv ==
    /\ script \in [Request -> Code]
    /\ \A r \in Request : Fits(pc[r], queue[r].loop)
    /\ \A r \in Request : queue[r].loop # "none" => queue[r].bus \in Bus
    /\ \A r \in Request : exec[r] # "none" => queue[r].loop # "none"
    /\ \A r \in Request : pc[r] \in {"loaded", "marking"} => seen[r] # NoTask

\* what can become an answer was stored; a task whose save failed cannot
AnswerInv ==
    /\ row # NoTask => row.state \in held
    /\ \A r \in Request : current[r] # NoTask /\ pc[r] \notin {"failing", "repairing", "done"}
            => current[r].state \in held
    /\ \A r \in Request : pc[r] = "folded" /\ Held(r).kind = "task" => Held(r).state \in held
    /\ AnswerWasStored

HandlerInv == TypeOK /\ BusInv /\ StageInv /\ AnswerInv /\ NoTrackerLeak

\* whatever history a failed task has, an event can carry it
PayloadCarries == \A history \in Seq(Msg) : Carry(history) \in Payload

StepOf(r) == Handle(r) \/ Execute(r) \/ Disconnect(r) \/ FoldFails(r) \/ StoreFails(r)

-----------------------------------------------------------------------------
(* What an operation on the bus does to the queues. *)

\* another's operation can at most wake a queue
Kept(c) ==
    /\ queue'[c].bus = queue[c].bus /\ queue'[c].last = queue[c].last
    /\ queue'[c].loop = queue[c].loop \/ (queue[c].loop = "parked" /\ queue'[c].loop = "ready")

LEMMA AttachEffect ==
    ASSUME BusTypeOK, NEW r \in Request, NEW b \in Bus, Attach(r, b)
    PROVE  /\ queue[r].loop = "none"
           /\ queue'[r].bus = b /\ queue'[r].loop = "attached" /\ ~queue'[r].stopped
           /\ \A c \in Request \ {r} : queue'[c] = queue[c]
BY RequestAssumption DEF BusTypeOK, Attach, NewQueue

LEMMA PublishEffect ==
    ASSUME BusTypeOK, NEW b \in Bus, NEW es, PublishOn(b, es)
    PROVE  \A c \in Request : Kept(c) /\ queue'[c].stopped = queue[c].stopped
<1>1. ASSUME NEW c \in Request PROVE Kept(c) /\ queue'[c].stopped = queue[c].stopped
    <2>1. queue[c] \in Queue /\ queue'[c] \in {queue[c], Enqueue(queue[c], es)}
        BY RequestAssumption DEF BusTypeOK, PublishOn
    <2> QED
        BY <2>1 DEF Kept, Enqueue, Resolved, Queue
<1> QED
    BY <1>1

LEMMA SettleEffect ==
    ASSUME BusTypeOK, NEW b \in Bus, SettleBus(b)
    PROVE  \A c \in Request : Kept(c) /\ (queue'[c].stopped <=> queue[c].stopped \/ c \in listeners[b])
<1>1. ASSUME NEW c \in Request
      PROVE  Kept(c) /\ (queue'[c].stopped <=> queue[c].stopped \/ c \in listeners[b])
    <2>1. queue[c] \in Queue /\ queue'[c] = IF c \in listeners[b] THEN Stop(queue[c]) ELSE queue[c]
        BY RequestAssumption DEF BusTypeOK, SettleBus
    <2> QED
        BY <2>1 DEF Kept, Stop, Resolved, Queue
<1> QED
    BY <1>1

LEMMA PullEffect ==
    ASSUME BusTypeOK, NEW r \in Request, Pull(r)
    PROVE  /\ queue'[r].bus = queue[r].bus /\ queue'[r].loop \in {"holding", "parked", "done"}
           /\ queue[r].stopped => queue'[r].stopped
           /\ queue'[r].loop = "done" => queue'[r].stopped
           /\ \A c \in Request \ {r} : queue'[c] = queue[c]
<1>1. /\ queue[r] \in Queue /\ queue'[r] \in {Leave(queue[r]), Advance(queue[r])}
      /\ \A c \in Request \ {r} : queue'[c] = queue[c]
    BY RequestAssumption DEF BusTypeOK, Pull
<1> QED
    BY <1>1 DEF Leave, Advance, Stop, Resolved, Queue

LEMMA StopEffect ==
    ASSUME BusTypeOK, NEW r \in Request, StopQueue(r)
    PROVE  /\ queue[r].loop \in {"attached", "holding"}
           /\ queue'[r].bus = queue[r].bus /\ queue'[r].loop = "done" /\ queue'[r].stopped
           /\ \A c \in Request \ {r} : queue'[c] = queue[c]
<1>1. /\ queue[r] \in Queue /\ queue'[r] = Leave(queue[r]) /\ queue[r].loop \in {"attached", "holding"}
      /\ \A c \in Request \ {r} : queue'[c] = queue[c]
    BY RequestAssumption DEF BusTypeOK, StopQueue
<1> QED
    BY <1>1 DEF Leave, Stop, Resolved, Queue

-----------------------------------------------------------------------------
(* The bus. *)

LEMMA ExecutorsBus ==
    ASSUME HandlerInv, NEW r \in Request, exec[r] # "none" \/ pc[r] = "cancelling"
    PROVE  queue[r].bus \in Bus
BY DEF HandlerInv, StageInv, Fits

LEMMA EventsToPublish ==
    ASSUME HandlerInv, PayloadCarries, NEW r \in Request
    PROVE  /\ script[r].events # <<>> => <<Head(script[r].events)>> \in Seq(AgentExecutionEvent)
           /\ ErrorEvents(r) \in Seq(AgentExecutionEvent)
           /\ <<Canceled>> \in Seq(AgentExecutionEvent)
           /\ Failed \in AgentExecutionEvent
<1>1. script[r].events # <<>> => Head(script[r].events) \in AgentExecutionEvent
    <2>1. script[r].events \in Seq(AgentExecutionEvent)
        BY DEF HandlerInv, StageInv, Code
    <2> QED
        BY <2>1
<1>2. Failed \in AgentExecutionEvent /\ Canceled \in AgentExecutionEvent
    <2>1. Carry(<<>>) \in Payload
        <3>1. <<>> \in Seq(Msg)
            OBVIOUS
        <3> QED
            BY <3>1 DEF PayloadCarries
    <2> QED
        BY <2>1, EventsAreEvents DEF Failed, Canceled, TaskState
<1>3. ErrorEvents(r) \in Seq(AgentExecutionEvent)
    <2> DEFINE history == IF Mentions(context[r], r) THEN context[r] ELSE Append(context[r], r)
    <2>1. history \in Seq(Msg)
        BY RequestAssumption DEF HandlerInv, TypeOK
    <2> HIDE DEF history
    <2>2. TaskEvent("FAILED", Carry(history)) \in AgentExecutionEvent
        BY <2>1, EventsAreEvents DEF PayloadCarries, TaskState
    <2>3. ErrorEvents(r) \in {<<Failed>>, <<TaskEvent("FAILED", Carry(history)), Failed>>}
        BY DEF ErrorEvents, history
    <2> DEFINE e == TaskEvent("FAILED", Carry(history))
    <2> HIDE DEF e
    <2>4. <<Failed>> \in Seq(AgentExecutionEvent) /\ <<e, Failed>> \in Seq(AgentExecutionEvent)
        BY <1>2, <2>2 DEF e
    <2> QED
        BY <2>3, <2>4 DEF e
<1> QED
    BY <1>1, <1>2, <1>3

\* The operation on the bus, if any, that a step of r makes.
LEMMA BusOperation ==
    ASSUME HandlerInv, PayloadCarries, NEW r \in Request, StepOf(r)
    PROVE  \/ UNCHANGED busVars
           \/ Open(r) /\ \E b \in Bus : OpenBus(r, b)
           \/ JoinBus(r)
           \/ Pull(r)
           \/ StopQueue(r)
           \/ /\ Publish(r) \/ Throw(r) \/ AgentCancel(r)
              /\ queue[r].bus \in Bus /\ \E es \in Seq(AgentExecutionEvent) : PublishOn(queue[r].bus, es)
           \/ Settle(r) /\ queue[r].bus \in Bus /\ SettleBus(queue[r].bus)
<1> DEFINE Op == \/ UNCHANGED busVars
                 \/ Open(r) /\ \E b \in Bus : OpenBus(r, b)
                 \/ JoinBus(r)
                 \/ Pull(r)
                 \/ StopQueue(r)
                 \/ /\ Publish(r) \/ Throw(r) \/ AgentCancel(r)
                    /\ queue[r].bus \in Bus /\ \E es \in Seq(AgentExecutionEvent) : PublishOn(queue[r].bus, es)
                 \/ Settle(r) /\ queue[r].bus \in Bus /\ SettleBus(queue[r].bus)
<1>1. ASSUME LoadContext(r) \/ SaveContext(r) \/ Launch(r) \/ Mark(r) \/ Verify(r) \/ Forward(r) PROVE Op
    BY <1>1 DEF LoadContext, SaveContext, Launch, Mark, Verify, Forward
<1>2. ASSUME Open(r) \/ Await(r) \/ BreakStream(r) \/ Disconnect(r) PROVE Op
    <2>1. Open(r) => \E b \in Bus : OpenBus(r, b)
        BY DEF Open
    <2> QED
        BY <1>2, <2>1 DEF Await, BreakStream, Disconnect
<1>3. ASSUME FoldMessage(r) \/ FoldLoad(r) \/ FoldSave(r) \/ Deliver(r) \/ Finish(r) \/ RepairLoad(r) PROVE Op
    BY <1>3 DEF FoldMessage, FoldLoad, FoldSave, Deliver, Finish, RepairLoad
<1>4. ASSUME RepairSave(r) \/ FoldFails(r) PROVE Op
    BY <1>4 DEF RepairSave, FoldFails, LoopFails
<1>5. ASSUME CancelLoad(r) \/ CancelFork(r) \/ Subscribe(r) PROVE Op
    BY <1>5 DEF CancelLoad, CancelFork, Subscribe
<1>6. ASSUME Snapshot(r) \/ StoreFails(r) PROVE Op
    BY <1>6 DEF Snapshot, StoreFails, StopIfAny
<1>7. ASSUME AgentCancel(r) PROVE Op
    <2>1. queue[r].bus \in Bus
        BY <1>7, ExecutorsBus DEF AgentCancel, At
    <2>2. UNCHANGED busVars \/ PublishOn(queue[r].bus, <<Canceled>>)
        BY <1>7 DEF AgentCancel
    <2> QED
        BY <1>7, <2>1, <2>2, EventsToPublish
<1>8. ASSUME Publish(r) \/ Throw(r) PROVE Op
    <2>1. queue[r].bus \in Bus
        BY <1>8, ExecutorsBus DEF Publish, Throw
    <2>2. \E es \in Seq(AgentExecutionEvent) : PublishOn(queue[r].bus, es)
        BY <1>8, EventsToPublish DEF Publish, Throw
    <2> QED
        BY <1>8, <2>1, <2>2
<1>9. ASSUME Return(r) \/ Settle(r) PROVE Op
    <2>1. queue[r].bus \in Bus
        BY <1>9, ExecutorsBus DEF Return, Settle
    <2> QED
        <3>1. Settle(r) => UNCHANGED busVars \/ SettleBus(queue[r].bus)
            BY DEF Settle
        <3> QED
            BY <1>9, <2>1, <3>1 DEF Return
<1> QED
    BY <1>1, <1>2, <1>3, <1>4, <1>5, <1>6, <1>7, <1>8, <1>9 DEF StepOf, Handle, Execute

LEMMA BusStep ==
    ASSUME HandlerInv, PayloadCarries, NEW r \in Request, StepOf(r)
    PROVE  BusInv'
<1>1. BusInv /\ r \in Consumer
    BY RequestAssumption DEF HandlerInv
<1>2. ASSUME NEW b \in Bus, OpenBus(r, b) PROVE BusInv'
    BY <1>1, <1>2, OpenBusInv
<1>3. ASSUME NEW es \in Seq(AgentExecutionEvent), queue[r].bus \in Bus, PublishOn(queue[r].bus, es) PROVE BusInv'
    BY <1>1, <1>3, PublishOnInv
<1>4. ASSUME queue[r].bus \in Bus, SettleBus(queue[r].bus) PROVE BusInv'
    BY <1>1, <1>4, SettleBusInv
<1>5. ASSUME UNCHANGED busVars \/ JoinBus(r) \/ Pull(r) \/ StopQueue(r) PROVE BusInv'
    BY <1>1, <1>5, BusUnchanged, JoinBusInv, PullInv, StopQueueInv
<1> QED
    BY <1>2, <1>3, <1>4, <1>5, BusOperation

-----------------------------------------------------------------------------
(* Where requests are. *)

\* r moves to a place that fits its queue, and the others' queues are at most woken
Move(r) ==
    /\ \E p \in PC : pc' = [pc EXCEPT ![r] = p] /\ Fits(p, queue'[r].loop)
    /\ queue'[r].loop # "none" => queue'[r].bus \in Bus
    /\ queue[r].loop # "none" => queue'[r].loop # "none"
    /\ \A c \in Request \ {r} : Kept(c)

LEMMA MoveWithoutBus ==
    ASSUME HandlerInv, NEW r \in Request, NEW p \in PC, pc' = [pc EXCEPT ![r] = p],
           Fits(p, queue[r].loop), UNCHANGED busVars
    PROVE  Move(r)
BY DEF HandlerInv, StageInv, Move, Kept, busVars

LEMMA MoveStep ==
    ASSUME HandlerInv, PayloadCarries, NEW r \in Request, StepOf(r)
    PROVE  Move(r)
<1>1. BusTypeOK /\ Fits(pc[r], queue[r].loop) /\ (queue[r].loop # "none" => queue[r].bus \in Bus)
      /\ pc \in [Request -> PC] /\ NoBus \notin Bus /\ registered \in Bus \cup {NoBus}
    BY NoBusAssumption DEF HandlerInv, BusInv, StageInv, TypeOK, BusTypeOK
<1>2. ASSUME NEW p \in PC, pc' = [pc EXCEPT ![r] = p], Fits(p, queue[r].loop), UNCHANGED busVars
      PROVE  Move(r)
    BY <1>2, MoveWithoutBus
<1>3. ASSUME NEW p \in PC, pc' = [pc EXCEPT ![r] = p], StopQueue(r), Fits(p, "done")
      PROVE  Move(r)
    BY <1>1, <1>3, StopEffect DEF Move, Kept
<1>4. ASSUME NEW p \in PC, pc' = [pc EXCEPT ![r] = p], NEW b \in Bus, Attach(r, b), Fits(p, "attached")
      PROVE  Move(r)
    BY <1>1, <1>4, AttachEffect DEF Move, Kept
<1>5. ASSUME pc' = pc, \A c \in Request : Kept(c)
      PROVE  Move(r)
    <2>1. pc' = [pc EXCEPT ![r] = pc[r]] /\ pc[r] \in PC
        BY <1>1, <1>5
    <2>2. Kept(r) /\ Fits(pc[r], queue'[r].loop)
        BY <1>1, <1>5 DEF Kept, Fits
    <2> QED
        BY <1>1, <1>5, <2>1, <2>2 DEF Move, Kept
<1>6. CASE LoadContext(r) \/ SaveContext(r) \/ Launch(r) \/ Mark(r) \/ Verify(r) \/ Forward(r) \/ CancelLoad(r)
    BY <1>1, <1>2, <1>6 DEF LoadContext, SaveContext, Launch, Mark, Verify, Forward, CancelLoad,
                             MayStart, At, Goto, Refuse, Fits, PC
<1>7. CASE FoldMessage(r) \/ FoldLoad(r) \/ FoldSave(r) \/ Deliver(r) \/ Finish(r) \/ RepairLoad(r)
    BY <1>1, <1>2, <1>7 DEF FoldMessage, FoldLoad, FoldSave, Deliver, Finish, RepairLoad,
                             At, Goto, Refuse, Fits, PC
<1>8. CASE BreakStream(r) \/ Disconnect(r) \/ RepairSave(r)
    BY <1>1, <1>3, <1>8 DEF BreakStream, Disconnect, RepairSave, Goto, Refuse, Fits, PC
<1>9. CASE FoldFails(r)
    BY <1>1, <1>2, <1>3, <1>9 DEF FoldFails, LoopFails, At, Goto, Refuse, Fits, PC
<1>10. CASE Open(r)
    BY <1>1, <1>4, <1>10 DEF Open, OpenBus, Goto, Fits, PC
<1>11. CASE CancelFork(r) \/ Subscribe(r)
    BY <1>1, <1>2, <1>4, <1>11 DEF CancelFork, Subscribe, JoinBus, MayStart, At, Goto, Fits, PC
<1>12. CASE Snapshot(r) \/ StoreFails(r)
    BY <1>1, <1>2, <1>3, <1>12 DEF Snapshot, StoreFails, StopIfAny, HasQueue, MayStart, At, Goto, Refuse, Fits, PC
<1>13. CASE Await(r)
    <2>1. /\ pc' = [pc EXCEPT ![r] = CASE queue'[r].loop = "holding" -> "pulled"
                                        [] queue'[r].loop = "done" -> "drained"
                                        [] OTHER -> "draining"]
          /\ Pull(r)
        BY <1>13 DEF Await
    <2>2. /\ queue'[r].bus = queue[r].bus /\ queue'[r].loop \in {"holding", "parked", "done"}
          /\ \A c \in Request \ {r} : queue'[c] = queue[c]
          /\ queue[r].loop # "none"
        BY <1>1, <2>1, PullEffect DEF Pull
    <2> QED
        BY <1>1, <2>1, <2>2 DEF Move, Kept, Fits, PC
<1>14. CASE AgentCancel(r)
    <2>1. pc[r] = "cancelling" /\ queue[r].bus \in Bus /\ queue[r].loop = "attached"
        BY <1>1, <1>14 DEF AgentCancel, At, Fits
    <2>2. CASE UNCHANGED busVars
        BY <1>2, <1>14, <2>1, <2>2 DEF AgentCancel, Goto, Refuse, Fits, PC
    <2>3. CASE PublishOn(queue[r].bus, <<Canceled>>) /\ Goto(r, "draining")
        BY <1>1, <2>1, <2>3, PublishEffect DEF Move, Kept, Goto, Fits, PC
    <2> QED
        BY <1>14, <2>2, <2>3 DEF AgentCancel
<1>15. CASE Execute(r)
    <2>1. pc' = pc /\ queue[r].bus \in Bus
        BY <1>15, ExecutorsBus DEF Execute, Publish, Return, Throw, Settle, callVars
    <2>2. CASE UNCHANGED busVars
        BY <1>5, <2>1, <2>2 DEF Kept, busVars
    <2>3. CASE \E es : PublishOn(queue[r].bus, es)
        BY <1>1, <1>5, <2>1, <2>3, PublishEffect
    <2>4. CASE SettleBus(queue[r].bus)
        BY <1>1, <1>5, <2>1, <2>4, SettleEffect
    <2> QED
        BY <1>15, <2>2, <2>3, <2>4 DEF Execute, Publish, Return, Throw, Settle
<1> QED
    BY <1>6, <1>7, <1>8, <1>9, <1>10, <1>11, <1>12, <1>13, <1>14, <1>15 DEF StepOf, Handle

\* What a step of r does to the executors: those of others are told at most to stop.
ExecStep(r) ==
    /\ exec' \in [Request -> {"none", "running", "returned", "settled"}]
    /\ \A c \in Request : exec'[c] = exec[c] \/ (c = r /\ pc'[r] = "draining") \/ (c = r /\ exec[r] # "none")
    /\ script' \in [Request -> Code]
    /\ \A c \in Request : exec'[c] = "running" => script'[c].ends # "none"
    /\ tracker' \in [Request -> Tracker]
    /\ \A c \in Request : tracker'[c].on => exec'[c] \in {"running", "returned"}

LEMMA ExecSteps ==
    ASSUME HandlerInv, PayloadCarries, NEW r \in Request, StepOf(r)
    PROVE  ExecStep(r)
<1>1. /\ exec \in [Request -> {"none", "running", "returned", "settled"}]
      /\ pc \in [Request -> PC]
      /\ script \in [Request -> Code] /\ tracker \in [Request -> Tracker]
      /\ \A c \in Request : exec[c] = "running" => script[c].ends # "none"
      /\ \A c \in Request : tracker[c].on => exec[c] \in {"running", "returned"}
    BY DEF HandlerInv, TypeOK, StageInv, NoTrackerLeak
<1>2. ASSUME UNCHANGED execVars PROVE ExecStep(r)
    BY <1>1, <1>2 DEF ExecStep, execVars
<1>3. ASSUME Launched(r), pc' = [pc EXCEPT ![r] = "draining"] PROVE ExecStep(r)
    <2>1. \A s \in Script[r] : s \in Code /\ s.ends # "none"
        BY ExecutorAssumption DEF Code
    <2>2. [NoTracker EXCEPT !.on = TRUE] \in Tracker
        BY DEF NoTracker, Tracker
    <2> QED
        BY <1>1, <1>3, <2>1, <2>2 DEF Launched, ExecStep
<1>4. CASE Open(r) \/ Launch(r)
    BY <1>2, <1>3, <1>4 DEF Open, Launch, Goto
<1>5. CASE Publish(r)
    <2>1. /\ exec[r] = "running" /\ exec' = exec
          /\ script' = [script EXCEPT ![r].events = Tail(@)]
          /\ tracker' = Track(tracker, queue[r].bus, <<Head(script[r].events)>>)
          /\ script[r].events # <<>>
        BY <1>5 DEF Publish
    <2>2. Tail(script[r].events) \in Seq(AgentExecutionEvent)
        BY <1>1, <2>1 DEF Code
    <2>3. script' \in [Request -> Code] /\ \A c \in Request : script'[c].ends = script[c].ends
        BY <1>1, <2>1, <2>2 DEF Code
    <2>4. tracker' \in [Request -> Tracker] /\ \A c \in Request : tracker'[c].on = tracker[c].on
        <3> DEFINE es == <<Head(script[r].events)>>
        <3>1. es \in Seq(AgentExecutionEvent) /\ tracker' = Track(tracker, queue[r].bus, es)
            BY <2>1, EventsToPublish
        <3> HIDE DEF es
        <3> QED
            BY <1>1, <3>1, TrackType
    <2> QED
        BY <1>1, <2>1, <2>3, <2>4 DEF ExecStep
<1>6. CASE Return(r)
    BY <1>1, <1>6 DEF Return, ExecStep
<1>7. CASE Throw(r)
    <2> DEFINE t == [tracker EXCEPT ![r].on = @ /\ Method[r] # "stream"]
    <2>1. exec[r] = "running" /\ exec' = [exec EXCEPT ![r] = "returned"] /\ script' = script
          /\ tracker' = Track(t, queue[r].bus, ErrorEvents(r))
        BY <1>7 DEF Throw
    <2>2. t \in [Request -> Tracker] /\ \A c \in Request : t[c].on => tracker[c].on
        BY <1>1 DEF Tracker
    <2> HIDE DEF t
    <2>3. tracker' \in [Request -> Tracker] /\ \A c \in Request : tracker'[c].on = t[c].on
        BY <2>1, <2>2, EventsToPublish, TrackType
    <2> QED
        BY <1>1, <2>1, <2>2, <2>3 DEF ExecStep
<1>8. CASE Settle(r)
    <2>1. exec[r] = "returned" /\ exec' = [exec EXCEPT ![r] = "settled"] /\ script' = script
          /\ tracker' \in {[tracker EXCEPT ![r].on = FALSE], Untracked(r)}
        BY <1>8 DEF Settle
    <2>2. /\ tracker' \in [Request -> Tracker]
          /\ \A c \in Request : tracker'[c].on => tracker[c].on /\ c # r
        <3> DEFINE off(c) == [tracker[c] EXCEPT !.on = FALSE]
        <3>1. \A c \in Request : off(c) \in Tracker /\ ~off(c).on
            BY <1>1 DEF Tracker
        <3>2. CASE tracker' = [tracker EXCEPT ![r].on = FALSE]
            <4>1. tracker' = [tracker EXCEPT ![r] = off(r)]
                BY <3>2
            <4> HIDE DEF off
            <4> QED
                BY <1>1, <3>1, <4>1
        <3>3. CASE tracker' = Untracked(r)
            <4>1. tracker' = [c \in Request |-> IF c = r \/ queue[c].bus = registered
                                                THEN off(c) ELSE tracker[c]]
                BY <3>3 DEF Untracked
            <4> HIDE DEF off
            <4> QED
                BY <1>1, <3>1, <4>1
        <3> QED
            BY <2>1, <3>2, <3>3
    <2> QED
        BY <1>1, <2>1, <2>2 DEF ExecStep
<1>9. CASE AgentCancel(r)
    <2>1. exec' = exec
        BY <1>9 DEF AgentCancel
    <2>2. CASE script' = script /\ tracker' = Track(tracker, queue[r].bus, <<Canceled>>)
        <3> DEFINE es == <<Canceled>>
        <3>1. es \in Seq(AgentExecutionEvent) /\ tracker' = Track(tracker, queue[r].bus, es)
            BY <2>2, EventsToPublish
        <3> HIDE DEF es
        <3>2. tracker' \in [Request -> Tracker] /\ \A c \in Request : tracker'[c].on = tracker[c].on
            BY <1>1, <3>1, TrackType
        <3> QED
            BY <1>1, <2>1, <2>2, <3>2 DEF ExecStep
    <2>3. CASE /\ tracker' = tracker
               /\ script' = [c \in Request |->
                    IF exec[c] = "running" THEN [events |-> <<Canceled>>, ends |-> "return"] ELSE script[c]]
        <3>1. [events |-> <<Canceled>>, ends |-> "return"] \in Code
            BY EventsToPublish DEF Code
        <3> QED
            BY <1>1, <2>1, <2>3, <3>1 DEF ExecStep
    <2>4. CASE script' = script /\ tracker' = tracker
        BY <1>2, <2>1, <2>4 DEF execVars
    <2> QED
        BY <1>9, <2>2, <2>3, <2>4 DEF AgentCancel
<1>10. CASE \/ LoadContext(r) \/ SaveContext(r) \/ Await(r) \/ BreakStream(r) \/ FoldMessage(r)
            \/ FoldLoad(r) \/ FoldSave(r) \/ Deliver(r) \/ Finish(r) \/ RepairLoad(r) \/ RepairSave(r)
    BY <1>2, <1>10 DEF LoadContext, SaveContext, Await, BreakStream, FoldMessage, FoldLoad, FoldSave,
                        Deliver, Finish, RepairLoad, RepairSave
<1>11. CASE \/ CancelLoad(r) \/ CancelFork(r) \/ Mark(r) \/ Verify(r) \/ Subscribe(r) \/ Snapshot(r)
            \/ Forward(r) \/ Disconnect(r) \/ FoldFails(r) \/ StoreFails(r)
    BY <1>2, <1>11 DEF CancelLoad, CancelFork, Mark, Verify, Subscribe, Snapshot, Forward,
                        Disconnect, FoldFails, StoreFails
<1> QED
    BY <1>4, <1>5, <1>6, <1>7, <1>8, <1>9, <1>10, <1>11 DEF StepOf, Handle, Execute

-----------------------------------------------------------------------------
(* What was loaded, folded and saved. *)

\* The event a request holds is one of its bus's log.
LEMMA HeldEvent ==
    ASSUME BusInv, NEW c \in Consumer, queue[c].bus \in Bus, queue[c].loop = "holding"
    PROVE  queue[c].last \in AgentExecutionEvent
<1> DEFINE q == queue[c]
           lg == log[queue[c].bus]
<1>1. q \in Queue /\ lg \in Seq(AgentExecutionEvent) /\ Follows(q, lg)
    BY NoBusAssumption, Fields DEF BusInv, InOrder
<1>2. q.from \in Nat /\ q.got \in Nat /\ Len(q.buf) \in Nat /\ Len(lg) \in Nat
    BY <1>1 DEF Queue
<1>3. q.from + q.got + Len(q.buf) <= Len(lg) /\ q.got > 0 /\ q.last = lg[q.from + q.got]
    BY <1>1 DEF Follows
<1>4. q.from + q.got \in 1..Len(lg)
    BY <1>2, <1>3
<1> QED
    BY <1>1, <1>3, <1>4

LEMMA TasksTyped ==
    ASSUME HandlerInv, NEW r \in Request
    PROVE  /\ Latest(r) \in Msg \cup {NoMsg}
           /\ row # NoTask => row \in Task
           /\ seen[r] # NoTask => Extended(r) \in Task /\ Marked(r) \in Task
           /\ seen[r] # NoTask => Extended(r).history \in Seq(Msg)
<1>1. row \in Task \cup {NoTask} /\ seen[r] \in Task \cup {NoTask} /\ Latest(r) \in Msg \cup {NoMsg}
    BY RequestAssumption DEF HandlerInv, TypeOK, Latest
<1>2. ASSUME seen[r] # NoTask
      PROVE  Extended(r) \in Task /\ Marked(r) \in Task /\ Extended(r).history \in Seq(Msg)
    <2>1. seen[r] \in Task /\ Append(seen[r].history, r) \in Seq(Msg)
        BY <1>1, <1>2, RequestAssumption DEF Task
    <2> QED
        BY <2>1 DEF Extended, Marked, Task, TaskState
<1> QED
    BY <1>1, <1>2

\* Whatever is folded leaves a task or none, and what it leaves is saved.
LEMMA FoldEffect ==
    ASSUME HandlerInv, NEW r \in Request, NEW e \in AgentExecutionEvent
    PROVE  /\ Apply(seen[r], e, Latest(r)) \in Task \cup {NoTask}
           /\ e.kind = "task" => /\ Apply(seen[r], e, Latest(r)) # NoTask
                                 /\ Apply(seen[r], e, Latest(r)).state = e.state
<1>1. seen[r] \in Task \cup {NoTask}
    BY DEF HandlerInv, TypeOK
<1>2. CASE e.kind = "message"
    BY <1>1, <1>2 DEF Apply
<1>3. CASE e.kind # "message"
    <2>1. e \in TaskEventOf
        BY <1>3, TaskAssumption DEF TaskEventOf, AgentExecutionEvent
    <2>2. Apply(seen[r], e, Latest(r)) \in Task \cup {NoTask}
        BY <1>1, <2>1, TasksTyped, ApplyType
    <2>3. ASSUME e.kind = "task"
          PROVE  /\ Apply(seen[r], e, Latest(r)) # NoTask
                 /\ Apply(seen[r], e, Latest(r)).state = e.state
        <3>1. Apply(seen[r], e, Latest(r)) \in Task
            BY <1>1, <2>1, <2>3, TasksTyped, ApplyType
        <3>2. Apply(seen[r], e, Latest(r)) = ApplyTaskEvent(seen[r], e, Latest(r))
            BY <2>3 DEF Apply
        <3> QED
            BY <3>1, <3>2, TaskAssumption DEF ApplyTaskEvent
    <2> QED
        BY <2>2, <2>3
<1> QED
    BY <1>2, <1>3

\* What a step of r saves and loads.
Loads(r) ==
    /\ seen' \in [Request -> Task \cup {NoTask}]
    /\ \A c \in Request \ {r} : seen'[c] = seen[c]
    /\ pc'[r] \in {"loaded", "marking"} => seen'[r] # NoTask

Saves(r) ==
    /\ UNCHANGED storeVars \/ \E t \in Task : Write(t)
    /\ current' \in [Request -> Task \cup {NoTask}]
    /\ \A c \in Request \ {r} : current'[c] = current[c]
    /\ current'[r] # NoTask /\ pc'[r] \notin {"failing", "repairing", "done"} => current'[r].state \in held'
    /\ pc'[r] = "folded" /\ queue'[r].last.kind = "task" => queue'[r].last.state \in held'

LEMMA LoadSteps ==
    ASSUME HandlerInv, NEW r \in Request, StepOf(r)
    PROVE  Loads(r)
<1>1. /\ seen \in [Request -> Task \cup {NoTask}] /\ row \in Task \cup {NoTask}
      /\ pc \in [Request -> PC] /\ (pc[r] \in {"loaded", "marking"} => seen[r] # NoTask)
    BY DEF HandlerInv, TypeOK, StageInv
<1>2. ASSUME seen' = seen, pc'[r] \notin {"loaded", "marking"} \/ pc[r] \in {"loaded", "marking"}
      PROVE  Loads(r)
    BY <1>1, <1>2 DEF Loads
<1>3. ASSUME seen' = [seen EXCEPT ![r] = row], pc'[r] \notin {"loaded", "marking"} \/ row # NoTask
      PROVE  Loads(r)
    BY <1>1, <1>3 DEF Loads
<1>4. CASE LoadContext(r) \/ CancelLoad(r) \/ Snapshot(r)
    BY <1>1, <1>2, <1>3, <1>4 DEF LoadContext, CancelLoad, Snapshot, Refuse, Goto
<1>5. CASE FoldLoad(r) \/ RepairLoad(r)
    BY <1>1, <1>3, <1>5 DEF FoldLoad, RepairLoad, Goto
<1>6. CASE \/ SaveContext(r) \/ Open(r) \/ Launch(r) \/ BreakStream(r) \/ FoldMessage(r) \/ FoldSave(r)
           \/ Deliver(r) \/ Finish(r) \/ RepairSave(r) \/ Disconnect(r)
    BY <1>1, <1>2, <1>6 DEF SaveContext, Open, Launch, BreakStream, FoldMessage, FoldSave, Deliver,
                             Finish, RepairSave, Disconnect, Refuse, Goto, rmVars
<1>7. CASE Await(r) \/ CancelFork(r) \/ AgentCancel(r) \/ Mark(r) \/ Verify(r) \/ Subscribe(r) \/ Forward(r)
    BY <1>1, <1>2, <1>7 DEF Await, CancelFork, AgentCancel, Mark, Verify, Subscribe, Forward,
                             At, Refuse, Goto, rmVars
<1>8. CASE FoldFails(r) \/ StoreFails(r)
    BY <1>1, <1>2, <1>8 DEF FoldFails, LoopFails, StoreFails, Refuse, Goto, rmVars
<1>9. CASE Execute(r)
    BY <1>2, <1>9 DEF Execute, Publish, Return, Throw, Settle, callVars, rmVars
<1> QED
    BY <1>4, <1>5, <1>6, <1>7, <1>8, <1>9 DEF StepOf, Handle

\* Folding what r holds while it has the row loaded.
LEMMA HeldFold ==
    ASSUME HandlerInv, NEW r \in Request, pc[r] \in {"folding", "folded", "repairing"}
    PROVE  Held(r) \in AgentExecutionEvent
<1>1. queue[r].loop = "holding"
    BY DEF HandlerInv, StageInv, Fits
<1>2. queue[r].bus \in Bus
    BY <1>1 DEF HandlerInv, StageInv
<1> QED
    BY <1>1, <1>2, HeldEvent, RequestAssumption DEF HandlerInv, Held

LEMMA SaveSteps ==
    ASSUME HandlerInv, PayloadCarries, NEW r \in Request, StepOf(r)
    PROVE  Saves(r)
<1>1. /\ current \in [Request -> Task \cup {NoTask}] /\ pc \in [Request -> PC]
      /\ current[r] # NoTask /\ pc[r] \notin {"failing", "repairing", "done"} => current[r].state \in held
      /\ pc[r] \in {"loaded", "marking"} => seen[r] # NoTask
    BY DEF HandlerInv, TypeOK, StageInv, AnswerInv
<1>2. ASSUME current' = current, UNCHANGED storeVars \/ \E t \in Task : Write(t),
             pc'[r] # "folded",
             pc[r] \in {"failing", "repairing", "done"} => pc'[r] \in {"failing", "repairing", "done"}
      PROVE  Saves(r)
    <2>1. held \subseteq held'
        BY <1>2 DEF storeVars, Write
    <2> QED
        BY <1>1, <1>2, <2>1 DEF Saves
<1>3. CASE \/ LoadContext(r) \/ Open(r) \/ Launch(r) \/ Await(r) \/ BreakStream(r)
           \/ FoldLoad(r) \/ Deliver(r) \/ Finish(r) \/ RepairLoad(r)
    BY <1>1, <1>2, <1>3 DEF LoadContext, Open, Launch, Await, BreakStream, FoldLoad, Deliver,
                             Finish, RepairLoad, MayStart, At, Goto, Refuse, rmVars
<1>4. CASE SaveContext(r) \/ Mark(r)
    <2>1. \E t \in Task : Write(t)
        BY <1>1, <1>4, TasksTyped DEF SaveContext, Mark, At
    <2> QED
        BY <1>1, <1>2, <1>4, <2>1 DEF SaveContext, Mark, At, Goto, rmVars
<1>5. CASE FoldMessage(r)
    <2>1. /\ current' = current /\ UNCHANGED storeVars /\ held' = held
          /\ queue' = queue /\ queue[r].last.kind = "message" /\ pc[r] = "pulled"
        BY <1>5 DEF FoldMessage, At, storeVars, busVars, Held
    <2> QED
        BY <1>1, <2>1 DEF Saves
<1>6. CASE FoldSave(r)
    <2> DEFINE t == Apply(seen[r], Held(r), Latest(r))
    <2>1. /\ t \in Task \cup {NoTask}
          /\ Held(r).kind = "task" => t # NoTask /\ t.state = Held(r).state
        BY <1>6, HeldFold, FoldEffect DEF FoldSave, At
    <2>2. /\ current' = [current EXCEPT ![r] = t]
          /\ IF t # NoTask THEN Write(t) ELSE UNCHANGED storeVars
          /\ queue'[r].last = Held(r)
        BY <1>6 DEF FoldSave, Fold, busVars, Held
    <2> HIDE DEF t
    <2> QED
        BY <1>1, <2>1, <2>2 DEF Saves, Write
<1>7. CASE RepairSave(r)
    <2> DEFINE t == Apply(seen[r], Failed, Latest(r))
    <2>1. t \in Task \cup {NoTask}
        BY EventsToPublish, FoldEffect
    <2>2. /\ pc' = [pc EXCEPT ![r] = "done"]
          /\ \/ /\ current' = [current EXCEPT ![r] = t]
                /\ IF t # NoTask THEN Write(t) ELSE UNCHANGED storeVars
             \/ current' = current /\ UNCHANGED storeVars
        BY <1>7 DEF RepairSave, Fold, Goto
    <2> HIDE DEF t
    <2> QED
        BY <1>1, <2>1, <2>2 DEF Saves
<1>8. CASE FoldFails(r)
    <2> DEFINE t == Apply(seen[r], Held(r), Latest(r))
    <2>1. t \in Task \cup {NoTask}
        BY <1>8, HeldFold, FoldEffect DEF FoldFails, At
    <2>2. \/ current' = current /\ UNCHANGED storeVars
          \/ /\ current' = [current EXCEPT ![r] = t]
             /\ IF t # NoTask THEN Write(t) ELSE UNCHANGED storeVars
          \/ current' = [current EXCEPT ![r] = t] /\ UNCHANGED storeVars
        BY <1>8 DEF FoldFails, Fold
    <2>3. pc' = [pc EXCEPT ![r] = "failing"] \/ pc' = [pc EXCEPT ![r] = "done"]
        BY <1>8 DEF FoldFails, LoopFails, Goto, Refuse
    <2> HIDE DEF t
    <2> QED
        BY <1>1, <2>1, <2>2, <2>3 DEF Saves
<1>9. CASE \/ CancelLoad(r) \/ CancelFork(r) \/ AgentCancel(r) \/ Verify(r)
           \/ Subscribe(r) \/ Snapshot(r) \/ Forward(r) \/ Disconnect(r)
    BY <1>1, <1>2, <1>9 DEF CancelLoad, CancelFork, AgentCancel, Verify, Subscribe, Snapshot, Forward,
                             Disconnect, MayStart, At, Goto, Refuse, rmVars
<1>10. CASE StoreFails(r)
    <2>1. UNCHANGED storeVars \/ \E t \in Task : Write(t)
        BY <1>1, <1>10, TasksTyped DEF StoreFails, At
    <2> QED
        BY <1>1, <1>2, <1>10, <2>1 DEF StoreFails, Refuse, Goto, rmVars
<1>11. CASE Execute(r)
    <2>1. current' = current /\ UNCHANGED storeVars /\ pc' = pc /\ held' = held
        BY <1>11 DEF Execute, Publish, Return, Throw, Settle, callVars, rmVars, storeVars
    <2>2. queue'[r].last = queue[r].last
        <3>1. BusTypeOK /\ queue[r].bus \in Bus
            BY <1>11, ExecutorsBus DEF Execute, Publish, Return, Throw, Settle, HandlerInv, TypeOK
        <3>2. \/ queue' = queue
              \/ \E es : PublishOn(queue[r].bus, es)
              \/ SettleBus(queue[r].bus)
            BY <1>11 DEF Execute, Publish, Return, Throw, Settle, busVars
        <3> QED
            BY <3>1, <3>2, PublishEffect, SettleEffect DEF Kept
    <2>3. pc[r] = "folded" /\ queue[r].last.kind = "task" => queue[r].last.state \in held
        BY DEF HandlerInv, AnswerInv, Held
    <2> QED
        BY <1>1, <2>1, <2>2, <2>3 DEF Saves
<1> QED
    BY <1>3, <1>4, <1>5, <1>6, <1>7, <1>8, <1>9, <1>10, <1>11 DEF StepOf, Handle

-----------------------------------------------------------------------------
(* What a caller is told. *)

Answers(r) ==
    /\ answer' \in [Request -> Answer]
    /\ \A c \in Request \ {r} : answer'[c] = answer[c]
    /\ answer'[r].kind = "task" => answer'[r].state \in held'

LEMMA AnswerSteps ==
    ASSUME HandlerInv, PayloadCarries, NEW r \in Request, StepOf(r)
    PROVE  Answers(r)
<1>1. /\ answer \in [Request -> Answer] /\ answer[r] \in Answer
      /\ answer[r].kind = "task" => answer[r].state \in held
      /\ held \subseteq held'
    <2>1. held \subseteq held'
        BY SaveSteps DEF Saves, Write, storeVars
    <2> QED
        BY <2>1 DEF HandlerInv, TypeOK, AnswerInv, AnswerWasStored
<1>2. ASSUME answer' = answer PROVE Answers(r)
    BY <1>1, <1>2 DEF Answers
<1>3. ASSUME NEW k \in {"none", "task", "message", "closed", "error"}, NEW st \in TaskState \cup {NoState},
             Settled(r, k, st), k = "task" => st \in held'
      PROVE  Answers(r)
    <2> DEFINE a == [kind |-> k, state |-> st]
    <2>1. a \in Answer /\ a.kind = k /\ a.state = st
        BY DEF Answer
    <2>2. answer' = IF answer[r].kind = "none" THEN [answer EXCEPT ![r] = a] ELSE answer
        BY <1>3 DEF Settled
    <2> HIDE DEF a
    <2> QED
        BY <1>1, <1>3, <2>1, <2>2 DEF Answers
<1>4. ASSUME Refuse(r) PROVE Answers(r)
    BY <1>3, <1>4 DEF Refuse
<1>5. ASSUME Settled(r, "closed", NoState) PROVE Answers(r)
    BY <1>3, <1>5
<1>6. ASSUME NEW t \in Task, t.state \in held, Settled(r, TaskAnswer(t).kind, TaskAnswer(t).state)
      PROVE  Answers(r)
    <2>1. t.state \in TaskState /\ TaskAnswer(t).kind = "task" /\ TaskAnswer(t).state = t.state
        BY DEF Task, TaskAnswer
    <2> QED
        BY <1>1, <1>3, <1>6, <2>1
<1>7. current[r] # NoTask /\ pc[r] \notin {"failing", "repairing", "done"} =>
        current[r] \in Task /\ current[r].state \in held
    BY DEF HandlerInv, TypeOK, AnswerInv
<1>8. CASE Deliver(r)
    <2>1. pc[r] = "folded" /\ (answer' = answer \/ Settled(r, Result(r).kind, Result(r).state))
        BY <1>8 DEF Deliver, At
    <2>2. CASE Result(r) = NoAnswer
        BY <1>2, <1>8, <2>2 DEF Deliver
    <2>3. CASE Result(r) = [kind |-> "message", state |-> NoState]
        BY <1>2, <1>3, <2>1, <2>3
    <2>4. CASE current[r] # NoTask /\ Result(r) = TaskAnswer(current[r])
        BY <1>2, <1>6, <1>7, <2>1, <2>4
    <2>5. CASE Held(r).kind = "task" /\ Result(r) = TaskAnswer(Held(r))
        <3>1. Held(r).state \in held /\ Held(r).state \in TaskState
            BY <2>1, <2>5, HeldFold DEF HandlerInv, AnswerInv, AgentExecutionEvent
        <3>2. Result(r).kind = "task" /\ Result(r).state = Held(r).state
            BY <2>5 DEF TaskAnswer
        <3> QED
            BY <1>1, <1>2, <1>3, <2>1, <3>1, <3>2
    <2> QED
        BY <2>2, <2>3, <2>4, <2>5 DEF Result, FinalResult
<1>9. CASE Finish(r)
    <2>1. pc[r] = "drained" /\ \/ answer' = answer
                               \/ Settled(r, "closed", NoState)
                               \/ Refuse(r)
                               \/ FinalResult(r) # NoAnswer /\ Settled(r, FinalResult(r).kind, FinalResult(r).state)
        BY <1>9 DEF Finish, At
    <2>2. CASE FinalResult(r) # NoAnswer /\ Settled(r, FinalResult(r).kind, FinalResult(r).state)
        <3>1. CASE FinalResult(r) = [kind |-> "message", state |-> NoState]
            BY <1>3, <2>2, <3>1
        <3>2. CASE current[r] # NoTask /\ FinalResult(r) = TaskAnswer(current[r])
            BY <1>6, <1>7, <2>1, <2>2, <3>2
        <3> QED
            BY <2>2, <3>1, <3>2 DEF FinalResult
    <2> QED
        BY <1>2, <1>4, <1>5, <2>1, <2>2
<1>10. CASE CancelLoad(r)
    <2>1. \/ answer' = answer \/ Refuse(r)
          \/ row # NoTask /\ row.state = "CANCELED" /\ Settled(r, "task", "CANCELED")
        BY <1>10 DEF CancelLoad
    <2>2. row # NoTask => row.state \in held
        BY DEF HandlerInv, AnswerInv
    <2> QED
        BY <1>1, <1>2, <1>3, <1>4, <2>1, <2>2 DEF TaskState
<1>11. CASE Verify(r)
    <2>1. \/ Refuse(r)
          \/ row # NoTask /\ row.state = "CANCELED" /\ Settled(r, "task", "CANCELED")
        BY <1>11 DEF Verify
    <2>2. row # NoTask => row.state \in held
        BY DEF HandlerInv, AnswerInv
    <2> QED
        BY <1>1, <1>3, <1>4, <2>1, <2>2 DEF TaskState
<1>12. CASE \/ LoadContext(r) \/ SaveContext(r) \/ Open(r) \/ Launch(r) \/ Await(r) \/ BreakStream(r)
            \/ FoldMessage(r) \/ FoldLoad(r) \/ FoldSave(r) \/ RepairLoad(r) \/ RepairSave(r)
    BY <1>2, <1>4, <1>12 DEF LoadContext, SaveContext, Open, Launch, Await, BreakStream, FoldMessage,
                              FoldLoad, FoldSave, RepairLoad, RepairSave
<1>13. CASE CancelFork(r) \/ AgentCancel(r) \/ Mark(r) \/ Subscribe(r) \/ Snapshot(r) \/ Forward(r)
    BY <1>2, <1>4, <1>5, <1>13 DEF CancelFork, AgentCancel, Mark, Subscribe, Snapshot, Forward
<1>14. CASE Disconnect(r) \/ FoldFails(r) \/ StoreFails(r)
    BY <1>2, <1>4, <1>5, <1>14 DEF Disconnect, FoldFails, LoopFails, StoreFails
<1>15. CASE Execute(r)
    BY <1>2, <1>15 DEF Execute, Publish, Return, Throw, Settle, callVars
<1> QED
    BY <1>8, <1>9, <1>10, <1>11, <1>12, <1>13, <1>14, <1>15 DEF StepOf, Handle

\* What else a request keeps.
Keeps ==
    /\ final' \in [Request -> BOOLEAN]
    /\ sent' \in [Request -> BOOLEAN]
    /\ pattern' \in [Request -> {"undetermined", "message-only", "task-lifecycle"}]
    /\ context' \in [Request -> Seq(Msg)]
    /\ failures' \in 0..MaxFailures

LEMMA KeepSteps ==
    ASSUME HandlerInv, NEW r \in Request, StepOf(r)
    PROVE  Keeps
<1>1. /\ final \in [Request -> BOOLEAN] /\ sent \in [Request -> BOOLEAN]
      /\ pattern \in [Request -> {"undetermined", "message-only", "task-lifecycle"}]
      /\ context \in [Request -> Seq(Msg)] /\ failures \in 0..MaxFailures
      /\ MaxFailures \in Nat
    BY ExecutorAssumption DEF HandlerInv, TypeOK
<1>2. ASSUME UNCHANGED <<sent, pattern, context, final>>,
             failures' = failures \/ (failures < MaxFailures /\ failures' = failures + 1)
      PROVE  Keeps
    BY <1>1, <1>2 DEF Keeps
<1>3. CASE \/ LoadContext(r) \/ Open(r) \/ Launch(r) \/ Await(r) \/ BreakStream(r)
           \/ FoldSave(r) \/ Finish(r) \/ RepairLoad(r) \/ RepairSave(r)
    BY <1>2, <1>3 DEF LoadContext, Open, Launch, Await, BreakStream, FoldSave, Finish,
                       RepairLoad, RepairSave, rmVars
<1>4. CASE SaveContext(r)
    <2>1. /\ context' = [context EXCEPT ![r] = Extended(r).history]
          /\ UNCHANGED <<sent, pattern, final, failures>> /\ seen[r] # NoTask
        BY <1>4 DEF SaveContext, At, rmVars, HandlerInv, StageInv
    <2> QED
        BY <1>1, <2>1, TasksTyped DEF Keeps
<1>5. CASE FoldMessage(r) \/ FoldLoad(r)
    BY <1>1, <1>5 DEF FoldMessage, FoldLoad, Advanced, Keeps
<1>6. CASE Deliver(r)
    BY <1>1, <1>6 DEF Deliver, rmVars, Keeps
<1>7. CASE \/ CancelLoad(r) \/ CancelFork(r) \/ AgentCancel(r) \/ Mark(r) \/ Verify(r)
           \/ Subscribe(r) \/ Snapshot(r) \/ Forward(r)
    BY <1>2, <1>7 DEF CancelLoad, CancelFork, AgentCancel, Mark, Verify, Subscribe, Snapshot, Forward, rmVars
<1>8. CASE Disconnect(r) \/ FoldFails(r) \/ StoreFails(r)
    BY <1>2, <1>8 DEF Disconnect, FoldFails, StoreFails, rmVars
<1>9. CASE Execute(r)
    BY <1>2, <1>9 DEF Execute, Publish, Return, Throw, Settle, callVars, rmVars
<1> QED
    BY <1>3, <1>4, <1>5, <1>6, <1>7, <1>8, <1>9 DEF StepOf, Handle

-----------------------------------------------------------------------------
(* The invariant is inductive. *)

LEMMA InitInv == Init => HandlerInv
<1> SUFFICES ASSUME Init PROVE HandlerInv
    OBVIOUS
<1>1. BusInv
    BY BusInitInv DEF Init
<1>2. TypeOK
    <2>1. NoAnswer \in Answer /\ NoTracker \in Tracker
        BY DEF NoAnswer, Answer, NoTracker, Tracker
    <2>2. MaxFailures \in Nat /\ BusTypeOK
        BY <1>1, ExecutorAssumption DEF BusInv
    <2> QED
        BY <2>1, <2>2 DEF Init, TypeOK, PC
<1>3. StageInv
    <2>1. NoScript \in Code
        BY DEF NoScript, Code
    <2>2. \A r \in Request : queue[r].loop = "none"
        BY RequestAssumption DEF Init, BusInit, NoQueue
    <2> QED
        BY <2>1, <2>2 DEF Init, StageInv, Fits
<1>4. AnswerInv /\ NoTrackerLeak
    BY DEF Init, AnswerInv, AnswerWasStored, NoTrackerLeak, NoAnswer, NoTracker
<1> QED
    BY <1>1, <1>2, <1>3, <1>4 DEF HandlerInv

LEMMA StepInv ==
    ASSUME HandlerInv, PayloadCarries, NEW r \in Request, StepOf(r), Method' = Method
    PROVE  HandlerInv'
<1>1. BusInv' /\ Move(r) /\ ExecStep(r) /\ Loads(r) /\ Saves(r) /\ Answers(r) /\ Keeps
    BY BusStep, MoveStep, ExecSteps, LoadSteps, SaveSteps, AnswerSteps, KeepSteps
<1>2. TypeOK /\ StageInv /\ AnswerInv /\ NoTrackerLeak
    BY DEF HandlerInv
<1>3. PICK p \in PC : pc' = [pc EXCEPT ![r] = p] /\ Fits(p, queue'[r].loop)
    BY <1>1 DEF Move
<1>4. /\ pc' \in [Request -> PC] /\ pc'[r] = p
      /\ \A c \in Request \ {r} : pc'[c] = pc[c] /\ Kept(c)
    BY <1>1, <1>2, <1>3 DEF TypeOK, Move
<1>5. held \subseteq held'
    BY <1>1 DEF Saves, Write, storeVars
<1>6. TypeOK'
    <2>1. row' \in Task \cup {NoTask} /\ held' \subseteq TaskState
        BY <1>1, <1>2 DEF Saves, Write, storeVars, TypeOK, Task
    <2>2. BusTypeOK'
        BY <1>1 DEF BusInv
    <2> QED
        BY <1>1, <1>2, <1>4, <2>1, <2>2 DEF TypeOK, ExecStep, Loads, Saves, Answers, Keeps
<1>7. StageInv'
    <2>1. \A c \in Request : Fits(pc'[c], queue'[c].loop)
        BY <1>2, <1>3, <1>4 DEF StageInv, Kept, Fits
    <2>2. \A c \in Request : queue'[c].loop # "none" => queue'[c].bus \in Bus
        BY <1>1, <1>2, <1>4 DEF StageInv, Kept, Move
    <2>3. \A c \in Request : exec'[c] # "none" => queue'[c].loop # "none"
        <3>1. pc'[r] = "draining" => queue'[r].loop # "none"
            BY <2>1 DEF Fits
        <3>2. \A c \in Request : queue[c].loop # "none" => queue'[c].loop # "none"
            BY <1>1, <1>4 DEF Move, Kept
        <3> QED
            BY <1>1, <1>2, <3>1, <3>2 DEF StageInv, ExecStep
    <2>4. \A c \in Request : pc'[c] \in {"loaded", "marking"} => seen'[c] # NoTask
        BY <1>1, <1>2, <1>4 DEF StageInv, Loads
    <2> QED
        BY <1>1, <2>1, <2>2, <2>3, <2>4 DEF StageInv, ExecStep
<1>8. AnswerInv'
    <2>1. row' # NoTask => row'.state \in held'
        BY <1>1, <1>2 DEF AnswerInv, Saves, Write, storeVars
    <2>2. \A c \in Request : current'[c] # NoTask /\ pc'[c] \notin {"failing", "repairing", "done"}
                => current'[c].state \in held'
        BY <1>1, <1>2, <1>4, <1>5 DEF AnswerInv, Saves
    <2>3. \A c \in Request : pc'[c] = "folded" /\ queue'[c].last.kind = "task" => queue'[c].last.state \in held'
        <3>1. \A c \in Request \ {r} : queue'[c].last = queue[c].last
            BY <1>4 DEF Kept
        <3> QED
            BY <1>1, <1>2, <1>4, <1>5, <3>1 DEF AnswerInv, Saves, Held
    <2>4. AnswerWasStored'
        BY <1>1, <1>2, <1>5 DEF AnswerInv, AnswerWasStored, Answers
    <2> QED
        BY <2>1, <2>2, <2>3, <2>4 DEF AnswerInv, Held
<1>9. NoTrackerLeak'
    BY <1>1 DEF NoTrackerLeak, ExecStep
<1> QED
    BY <1>1, <1>6, <1>7, <1>8, <1>9 DEF HandlerInv

LEMMA InvUnchanged == HandlerInv /\ UNCHANGED vars => HandlerInv'
<1> SUFFICES ASSUME HandlerInv, UNCHANGED vars PROVE HandlerInv'
    OBVIOUS
<1>1. BusInv'
    BY BusUnchanged DEF HandlerInv, vars
<1>2. TypeOK'
    <2>1. BusTypeOK'
        BY <1>1 DEF BusInv
    <2> QED
        BY <2>1 DEF HandlerInv, TypeOK, vars, storeVars, callVars, rmVars, execVars
<1>3. StageInv' /\ AnswerInv' /\ NoTrackerLeak'
    BY DEF HandlerInv, StageInv, AnswerInv, AnswerWasStored, NoTrackerLeak, Held,
           vars, busVars, storeVars, callVars, rmVars, execVars
<1> QED
    BY <1>1, <1>2, <1>3 DEF HandlerInv

LEMMA Invariance == PayloadCarries /\ Spec => []HandlerInv
<1> SUFFICES ASSUME PayloadCarries PROVE Spec => []HandlerInv
    OBVIOUS
<1>1. HandlerInv /\ [Next]_vars => HandlerInv'
    <2> SUFFICES ASSUME HandlerInv, [Next]_vars PROVE HandlerInv'
        OBVIOUS
    <2>1. ASSUME Next PROVE HandlerInv'
        BY <2>1, StepInv DEF Next, StepOf
    <2> QED
        BY <2>1, InvUnchanged
<1> QED
    BY <1>1, InitInv, PTL DEF Spec

(***************************************************************************)
(* The handler's state stays well-formed through every request, executor   *)
(* and rejected store operation: what is folded, repaired or marked is a   *)
(* task, and what is published an event.                                   *)
(***************************************************************************)
THEOREM TypeCorrect == PayloadCarries /\ Spec => []TypeOK
<1>1. HandlerInv => TypeOK
    BY DEF HandlerInv
<1> QED
    BY <1>1, Invariance, PTL

(***************************************************************************)
(* No task a caller is answered with runs ahead of the save that stored    *)
(* it, for any number of requests of any methods, executors and failures.  *)
(***************************************************************************)
THEOREM AnswersWereStored == PayloadCarries /\ Spec => []AnswerWasStored
<1>1. HandlerInv => AnswerWasStored
    BY DEF HandlerInv, AnswerInv
<1> QED
    BY <1>1, Invariance, PTL

(***************************************************************************)
(* A request that has ended has no queue on any bus, except one it never   *)
(* pulled: whatever place it ends at, its generator had returned before or *)
(* its finally stops it.                                                   *)
(***************************************************************************)
THEOREM QueuesReleased == PayloadCarries /\ Spec => []QueueReleased
<1>1. HandlerInv => QueueReleased
    BY RequestAssumption DEF HandlerInv, StageInv, Fits, BusInv, NoListenerLeak, QueueReleased, At
<1> QED
    BY <1>1, Invariance, PTL

(***************************************************************************)
(* Stopped queues and settled executors leave no listener on any bus.      *)
(***************************************************************************)
THEOREM NoListenerLeft == PayloadCarries /\ Spec => [](NoListenerLeak /\ NoTrackerLeak)
<1>1. HandlerInv => NoListenerLeak /\ NoTrackerLeak
    BY DEF HandlerInv, BusInv
<1> QED
    BY <1>1, Invariance, PTL

-----------------------------------------------------------------------------
(* The bus of a task whose clients take turns. *)

\* a send is made when those before it are over; cancels and resubscriptions at any time
TakesTurns ==
    /\ Patience = "over"
    /\ \A m \in Methods : \A r, s \in Request :
        r # s /\ m[r] \in SendMethod /\ m[s] \in SendMethod => s \in After[r] \/ r \in After[s]

Over(r) == pc[r] = "done" /\ exec[r] \in {"none", "settled"}

\* r's bus has its executor, or will have
Engaged(r) == exec[r] \in {"running", "returned"} \/ pc[r] = "attached"

\* one executor at a time; its bus is the one in the table, and so is that of a queue not stopped
TurnInv ==
    /\ \A r \in Send : pc[r] # "idle" => \A s \in After[r] : Over(s)
    /\ \A r \in Request : exec[r] # "none" \/ pc[r] \in {"ready", "attached"} => r \in Send
    /\ \A r \in Request : pc[r] \in {"idle", "loaded", "ready", "attached"} => exec[r] = "none"
    /\ registered \in created \cup {NoBus}
    /\ \A r \in Request : Engaged(r) => queue[r].bus = registered
    /\ \A r \in Request : queue[r].bus # NoBus =>
        /\ queue[r].bus \in created
        /\ queue[r].stopped \/ (queue[r].bus = registered /\ r \in listeners[registered])

\* an executor that asked for something returns, and nobody else publishes on its bus
AsksAndReturns ==
    /\ "publish" \notin CancelBy
    /\ \A r \in Request : \A s \in Script[r] : s.ends = "throw" =>
        \A i \in DOMAIN s.events : s.events[i].state \notin keepBusAliveStates

\* what a tracker knows of its bus when it decides
KeptInv ==
    /\ \A r \in Request : exec[r] = "running" => tracker[r].on
    /\ \A r \in Request : tracker[r].on => tracker[r].state \in {NoState, LastState(log[queue[r].bus])}
    /\ \A r \in Request : exec[r] = "returned" /\ ~tracker[r].on => tracker[r].state \notin keepBusAliveStates
    /\ \A r \in Request : exec[r] = "running" /\ script[r].ends = "throw" =>
        /\ tracker[r].state \notin keepBusAliveStates
        /\ \A i \in DOMAIN script[r].events : script[r].events[i].state \notin keepBusAliveStates
    /\ /\ registered # NoBus
       /\ \A r \in Request : exec[r] \in {"none", "settled"}
       /\ \E r \in Request : exec[r] = "settled" /\ queue[r].bus = registered
       => LastState(log[registered]) \in keepBusAliveStates

LEMMA OneEngaged ==
    ASSUME TakesTurns, HandlerInv, TurnInv, NEW r \in Request, NEW c \in Request, r # c,
           Engaged(r), Engaged(c)
    PROVE  FALSE
<1>1. r \in Send /\ c \in Send /\ pc[r] # "idle" /\ pc[c] # "idle"
    BY DEF TurnInv, Engaged
<1>2. Over(r) \/ Over(c)
    <2>1. Method \in Methods /\ Method[r] \in SendMethod /\ Method[c] \in SendMethod
        BY <1>1 DEF HandlerInv, TypeOK, Send
    <2>2. c \in After[r] \/ r \in After[c]
        BY <2>1 DEF TakesTurns
    <2> QED
        BY <1>1, <2>2 DEF TurnInv
<1> QED
    BY <1>2 DEF Over, Engaged

\* Nothing is left to do for a request that is over, and nobody else does it.
LEMMA OverStays ==
    ASSUME NEW r \in Request, StepOf(r)
    PROVE  ~Over(r)
<1> SUFFICES ASSUME Over(r) PROVE FALSE
    OBVIOUS
<1>1. ~Execute(r)
    BY DEF Over, Execute, Publish, Return, Throw, Settle
<1>2. /\ ~LoadContext(r) /\ ~SaveContext(r) /\ ~Open(r) /\ ~Launch(r) /\ ~Await(r)
      /\ ~BreakStream(r) /\ ~FoldMessage(r) /\ ~FoldLoad(r) /\ ~FoldSave(r) /\ ~Deliver(r) /\ ~Finish(r)
    BY DEF Over, LoadContext, SaveContext, Open, Launch, Await, BreakStream, FoldMessage, FoldLoad,
           FoldSave, Deliver, Finish, MayStart, At
<1>3. /\ ~RepairLoad(r) /\ ~RepairSave(r) /\ ~CancelLoad(r) /\ ~CancelFork(r) /\ ~AgentCancel(r)
      /\ ~Mark(r) /\ ~Verify(r) /\ ~Subscribe(r) /\ ~Snapshot(r) /\ ~Forward(r)
    BY DEF Over, RepairLoad, RepairSave, CancelLoad, CancelFork, AgentCancel, Mark, Verify, Subscribe,
           Snapshot, Forward, MayStart, At
<1>4. ~Disconnect(r) /\ ~FoldFails(r) /\ ~StoreFails(r)
    BY DEF Over, Disconnect, FoldFails, StoreFails, MayStart, At
<1> QED
    BY <1>1, <1>2, <1>3, <1>4 DEF StepOf, Handle

\* How a step of r takes it through its turn.
Turn(r) ==
    /\ pc[r] = "idle" /\ pc'[r] # "idle" => MayStart(r)
    /\ exec'[r] # "none" \/ pc'[r] \in {"ready", "attached"} => r \in Send
    /\ pc'[r] \in {"idle", "loaded", "ready", "attached"} => exec'[r] = "none"
    /\ exec'[r] \in {"running", "returned"} \/ pc'[r] = "attached" => Engaged(r) \/ Open(r)

LEMMA TurnSteps ==
    ASSUME HandlerInv, TurnInv, NEW r \in Request, StepOf(r)
    PROVE  Turn(r)
<1>1. /\ pc \in [Request -> PC]
      /\ exec \in [Request -> {"none", "running", "returned", "settled"}]
      /\ exec[r] # "none" \/ pc[r] \in {"ready", "attached"} => r \in Send
      /\ pc[r] \in {"idle", "loaded", "ready", "attached"} => exec[r] = "none"
    BY DEF HandlerInv, TypeOK, TurnInv
<1>2. ASSUME exec' = exec, pc'[r] \notin {"idle", "ready", "attached"}, pc[r] = "idle" => MayStart(r),
             pc'[r] = "loaded" => pc[r] = "idle"
      PROVE  Turn(r)
    BY <1>1, <1>2 DEF Turn, Engaged
<1>3. CASE LoadContext(r) \/ CancelLoad(r) \/ Subscribe(r)
    BY <1>1, <1>2, <1>3 DEF LoadContext, CancelLoad, Subscribe, MayStart, At, Goto, Refuse, execVars
<1>4. CASE SaveContext(r)
    BY <1>1, <1>4 DEF SaveContext, At, Goto, execVars, Turn, Engaged, Continuing
<1>5. CASE Open(r)
    BY <1>1, <1>5 DEF Open, Launched, MayStart, At, Goto, execVars, Turn
<1>6. CASE Launch(r)
    BY <1>1, <1>6 DEF Launch, Launched, At, Goto, Turn, Engaged
<1>7. CASE Await(r) \/ BreakStream(r) \/ FoldMessage(r) \/ FoldLoad(r) \/ FoldSave(r) \/ Deliver(r) \/ Finish(r)
    BY <1>1, <1>2, <1>7 DEF Await, BreakStream, FoldMessage, FoldLoad, FoldSave, Deliver, Finish,
                             At, Goto, Refuse, execVars
<1>8. CASE RepairLoad(r) \/ RepairSave(r) \/ CancelFork(r) \/ AgentCancel(r) \/ Mark(r) \/ Verify(r)
    BY <1>1, <1>2, <1>8 DEF RepairLoad, RepairSave, CancelFork, AgentCancel, Mark, Verify,
                             At, Goto, Refuse, execVars
<1>9. CASE Snapshot(r) \/ Forward(r) \/ Disconnect(r) \/ FoldFails(r) \/ StoreFails(r)
    BY <1>1, <1>2, <1>9 DEF Snapshot, Forward, Disconnect, FoldFails, LoopFails, StoreFails,
                             At, Goto, Refuse, execVars
<1>10. CASE Execute(r)
    BY <1>1, <1>10 DEF Execute, Publish, Return, Throw, Settle, callVars, Turn, Engaged
<1> QED
    BY <1>3, <1>4, <1>5, <1>6, <1>7, <1>8, <1>9, <1>10 DEF StepOf, Handle

\* An operation that makes no bus and settles none.
Calm ==
    /\ registered' = registered /\ created' = created
    /\ \A c \in Request :
        /\ queue'[c].bus = queue[c].bus
        /\ queue[c].stopped => queue'[c].stopped
        /\ registered \in Bus /\ c \in listeners[registered] => queue'[c].stopped \/ c \in listeners'[registered]

LEMMA CalmOps ==
    ASSUME BusTypeOK, NEW r \in Request,
           \/ UNCHANGED busVars \/ Pull(r) \/ StopQueue(r)
           \/ queue[r].bus \in Bus /\ \E es : PublishOn(queue[r].bus, es)
    PROVE  Calm
<1>1. CASE UNCHANGED busVars
    BY <1>1 DEF busVars, Calm
<1>2. CASE Pull(r) \/ StopQueue(r)
    <2>1. /\ registered' = registered /\ created' = created
          /\ queue'[r].bus = queue[r].bus /\ (queue[r].stopped => queue'[r].stopped)
          /\ \A c \in Request \ {r} : queue'[c] = queue[c]
        BY <1>2, PullEffect, StopEffect DEF Pull, StopQueue
    <2>2. listeners' = listeners \/ (queue' = [queue EXCEPT ![r] = Leave(@)] /\ listeners' = Detach(r))
        BY <1>2 DEF Pull, StopQueue
    <2>3. CASE listeners' = listeners
        BY <2>1, <2>3 DEF Calm
    <2>4. CASE queue' = [queue EXCEPT ![r] = Leave(@)] /\ listeners' = Detach(r)
        <3>1. queue'[r].stopped
            BY <2>4, RequestAssumption DEF BusTypeOK, Leave, Stop, Queue
        <3>2. \A c \in Request \ {r} : c \in listeners[registered] /\ registered \in Bus => c \in listeners'[registered]
            BY <2>4 DEF Detach
        <3> QED
            BY <2>1, <3>1, <3>2 DEF Calm
    <2> QED
        BY <2>2, <2>3, <2>4
<1>3. CASE queue[r].bus \in Bus /\ \E es : PublishOn(queue[r].bus, es)
    <2>1. \A c \in Request : Kept(c) /\ queue'[c].stopped = queue[c].stopped
        BY <1>3, PublishEffect
    <2> QED
        BY <1>3, <2>1 DEF PublishOn, Calm, Kept
<1> QED
    BY <1>1, <1>2, <1>3

LEMMA BusUse ==
    ASSUME HandlerInv, PayloadCarries, NEW r \in Request, StepOf(r)
    PROVE  \/ Calm /\ ~Open(r)
           \/ Open(r) /\ \E b \in Bus : OpenBus(r, b)
           \/ JoinBus(r)
           \/ exec[r] = "returned" /\ exec'[r] = "settled" /\ pc' = pc /\ SettleBus(queue[r].bus)
<1>1. BusTypeOK /\ exec \in [Request -> {"none", "running", "returned", "settled"}]
    BY DEF HandlerInv, TypeOK
<1>2. Settle(r) => exec[r] = "returned" /\ exec'[r] = "settled" /\ pc' = pc
    BY <1>1 DEF Settle, callVars
<1>3. Open(r) => \E b \in Bus : OpenBus(r, b)
    BY DEF Open
<1> QED
    BY <1>1, <1>2, <1>3, BusOperation, CalmOps

LEMMA EngagedBus ==
    ASSUME HandlerInv, NEW r \in Request, Engaged(r)
    PROVE  queue[r].loop # "none" /\ queue[r].bus \in Bus
BY DEF HandlerInv, StageInv, Engaged, Fits

\* Where the buses of the engaged and of the queues not stopped are.
BusesInTable ==
    /\ registered \in created \cup {NoBus}
    /\ \A r \in Request : Engaged(r) => queue[r].bus = registered
    /\ \A r \in Request : queue[r].bus # NoBus =>
        /\ queue[r].bus \in created
        /\ queue[r].stopped \/ (queue[r].bus = registered /\ r \in listeners[registered])

LEMMA BusesStep ==
    ASSUME TakesTurns, PayloadCarries, HandlerInv, TurnInv, NEW r \in Request, StepOf(r), Method' = Method
    PROVE  BusesInTable'
<1>1. /\ BusTypeOK /\ NoBus \notin Bus /\ registered \in Bus \cup {NoBus}
      /\ pc' \in [Request -> PC]
      /\ Turn(r) /\ Move(r)
    BY NoBusAssumption, TurnSteps, MoveStep DEF HandlerInv, TypeOK, BusTypeOK, Move
<1>2. BusesInTable
    BY DEF TurnInv, BusesInTable
<1>3. /\ \A c \in Request \ {r} : pc'[c] = pc[c] /\ exec'[c] = exec[c]
      /\ exec'[r] \in {"running", "returned"} \/ pc'[r] = "attached" => Engaged(r) \/ Open(r)
    BY <1>1, ExecSteps DEF HandlerInv, TypeOK, Move, ExecStep, Turn
<1>4. ASSUME Calm, ~Open(r) PROVE BusesInTable'
    <2>1. ASSUME NEW c \in Request, exec'[c] \in {"running", "returned"} \/ pc'[c] = "attached"
          PROVE  queue'[c].bus = registered'
        BY <1>2, <1>3, <1>4, <2>1 DEF BusesInTable, Calm, Engaged
    <2>2. ASSUME NEW c \in Request, queue'[c].bus # NoBus
          PROVE  /\ queue'[c].bus \in created'
                 /\ queue'[c].stopped \/ (queue'[c].bus = registered' /\ c \in listeners'[registered'])
        BY <1>1, <1>2, <1>4, <2>2 DEF BusesInTable, Calm
    <2>3. registered' \in created' \cup {NoBus}
        BY <1>2, <1>4 DEF BusesInTable, Calm
    <2> QED
        BY <2>1, <2>2, <2>3 DEF BusesInTable, Engaged
<1>5. ASSUME NEW b \in Bus, Attach(r, b), registered' = b, b \in created', created \subseteq created',
             registered \in {b, NoBus}
      PROVE  BusesInTable'
    <2>1. /\ queue'[r].bus = b /\ ~queue'[r].stopped /\ r \in listeners'[b]
          /\ \A c \in Request \ {r} : queue'[c] = queue[c]
          /\ \A c \in Request : c \in listeners[b] => c \in listeners'[b]
        BY <1>1, <1>5, AttachEffect, RequestAssumption DEF Attach, BusTypeOK
    <2>2. ASSUME NEW c \in Request \ {r}
          PROVE  /\ Engaged(c) => queue[c].bus = b
                 /\ queue[c].bus # NoBus =>
                      queue[c].bus \in created /\ (queue[c].stopped \/ (queue[c].bus = b /\ c \in listeners[b]))
        BY <1>1, <1>2, <1>5, EngagedBus DEF BusesInTable
    <2>3. ASSUME NEW c \in Request
          PROVE  /\ exec'[c] \in {"running", "returned"} \/ pc'[c] = "attached" => queue'[c].bus = b
                 /\ queue'[c].bus # NoBus =>
                      queue'[c].bus \in created' /\ (queue'[c].stopped \/ (queue'[c].bus = b /\ c \in listeners'[b]))
        BY <1>3, <1>5, <2>1, <2>2 DEF Engaged
    <2> QED
        BY <1>5, <2>3 DEF BusesInTable, Engaged
<1>6. ASSUME NEW b \in Bus, OpenBus(r, b) PROVE BusesInTable'
    <2>1. b \in created' /\ created \subseteq created' /\ registered' = b /\ registered \in {b, NoBus}
        BY <1>1, <1>2, <1>6 DEF OpenBus, BusesInTable
    <2> QED
        BY <1>5, <1>6, <2>1 DEF OpenBus
<1>7. ASSUME JoinBus(r) PROVE BusesInTable'
    <2>1. registered \in Bus /\ registered \in created
        BY <1>1, <1>2, <1>7 DEF JoinBus, BusesInTable
    <2> QED
        BY <1>5, <1>7, <2>1 DEF JoinBus
<1>8. ASSUME exec[r] = "returned", exec'[r] = "settled", pc' = pc, SettleBus(queue[r].bus) PROVE BusesInTable'
    <2>1. Engaged(r) /\ queue[r].bus = registered /\ registered \in Bus /\ pc[r] # "attached"
        BY <1>2, <1>8, EngagedBus DEF Engaged, BusesInTable, TurnInv
    <2>2. \A c \in Request \ {r} : ~Engaged(c)
        BY <2>1, OneEngaged
    <2>3. /\ registered' = NoBus /\ created' = created
          /\ \A c \in Request : /\ queue'[c].bus = queue[c].bus
                                /\ queue'[c].stopped <=> queue[c].stopped \/ c \in listeners[registered]
        BY <1>1, <1>8, <2>1, SettleEffect DEF SettleBus, Kept
    <2>4. \A c \in Request : ~(exec'[c] \in {"running", "returned"} \/ pc'[c] = "attached")
        BY <1>3, <1>8, <2>1, <2>2 DEF Engaged
    <2>5. \A c \in Request : queue'[c].bus # NoBus => queue'[c].bus \in created' /\ queue'[c].stopped
        BY <1>2, <2>3 DEF BusesInTable
    <2> QED
        BY <2>3, <2>4, <2>5 DEF BusesInTable, Engaged
<1> QED
    BY <1>4, <1>6, <1>7, <1>8, BusUse

LEMMA TurnStep ==
    ASSUME TakesTurns, PayloadCarries, HandlerInv, TurnInv, NEW r \in Request, StepOf(r), Method' = Method
    PROVE  TurnInv'
<1>1. /\ Turn(r) /\ BusesInTable'
      /\ \A c \in Request \ {r} : pc'[c] = pc[c] /\ exec'[c] = exec[c]
    <2>1. pc \in [Request -> PC] /\ exec \in [Request -> {"none", "running", "returned", "settled"}]
        BY DEF HandlerInv, TypeOK
    <2> QED
        BY <2>1, TurnSteps, BusesStep, MoveStep, ExecSteps DEF Move, ExecStep
<1>2. Send' = Send
    BY DEF Send
<1>3. ASSUME NEW c \in Send, pc'[c] # "idle", NEW s \in After[c]
      PROVE  pc'[s] = "done" /\ exec'[s] \in {"none", "settled"}
    <2>1. s \in Request /\ c \in Request
        BY RequestAssumption DEF Send
    <2>2. Over(s)
        <3>1. CASE pc[c] # "idle"
            BY <3>1 DEF TurnInv
        <3>2. CASE pc[c] = "idle"
            <4>1. MayStart(c)
                BY <1>1, <1>3, <2>1, <3>2 DEF Turn
            <4> QED
                BY <4>1 DEF MayStart, TakesTurns, At, Over
        <3> QED
            BY <3>1, <3>2
    <2>3. s # r
        BY <2>2, OverStays
    <2> QED
        BY <1>1, <2>1, <2>2, <2>3 DEF Over
<1>4. \A c \in Request : exec'[c] # "none" \/ pc'[c] \in {"ready", "attached"} => c \in Send
    BY <1>1 DEF Turn, TurnInv
<1>5. \A c \in Request : pc'[c] \in {"idle", "loaded", "ready", "attached"} => exec'[c] = "none"
    BY <1>1 DEF Turn, TurnInv
<1>6. \A c \in Send' : pc'[c] # "idle" => \A s \in After[c] : Over(s)'
    BY <1>2, <1>3 DEF Over
<1> QED
    BY <1>1, <1>2, <1>4, <1>5, <1>6 DEF TurnInv, BusesInTable

LEMMA TurnInit == Init => TurnInv
<1> SUFFICES ASSUME Init PROVE TurnInv
    OBVIOUS
<1>1. \A r \in Request : queue[r].bus = NoBus /\ pc[r] = "idle" /\ exec[r] = "none"
    BY RequestAssumption DEF Init, BusInit, NoQueue
<1> QED
    BY <1>1 DEF Init, BusInit, TurnInv, Engaged, Send

LEMMA TurnUnchanged == TurnInv /\ UNCHANGED vars => TurnInv'
BY DEF TurnInv, Send, Over, Engaged, vars, busVars, callVars, execVars

LEMMA TurnInvariance == TakesTurns /\ PayloadCarries /\ Spec => [](HandlerInv /\ TurnInv)
<1> SUFFICES ASSUME TakesTurns, PayloadCarries PROVE Spec => [](HandlerInv /\ TurnInv)
    OBVIOUS
<1>1. HandlerInv /\ TurnInv /\ [Next]_vars => TurnInv'
    <2> SUFFICES ASSUME HandlerInv, TurnInv, [Next]_vars PROVE TurnInv'
        OBVIOUS
    <2>1. ASSUME Next PROVE TurnInv'
        BY <2>1, TurnStep DEF Next, StepOf
    <2> QED
        BY <2>1, TurnUnchanged
<1> QED
    BY <1>1, TurnInit, Invariance, PTL DEF Spec

(***************************************************************************)
(* As long as clients take turns, one executor at a time has the bus: the  *)
(* bus it publishes on is the one resubscribe and cancelTask find, and a   *)
(* queue that was not stopped is still on it.                              *)
(***************************************************************************)
THEOREM BusFound == TakesTurns /\ PayloadCarries /\ Spec => [](BusHeld /\ NoOrphan)
<1>1. HandlerInv /\ TurnInv => BusHeld /\ NoOrphan
    BY RequestAssumption DEF TurnInv, BusHeld, NoOrphan, Engaged
<1> QED
    BY <1>1, TurnInvariance, PTL

-----------------------------------------------------------------------------
(* What is left in the table when every executor is settled. *)

LEMMA LastStateAt ==
    ASSUME NEW s \in Seq(AgentExecutionEvent)
    PROVE  /\ (\A i \in DOMAIN s : s[i].state = NoState) => LastState(s) = NoState
           /\ \A m \in DOMAIN s :
                s[m].state # NoState /\ (\A j \in DOMAIN s : j > m => s[j].state = NoState)
                => LastState(s) = s[m].state
<1>1. DOMAIN s \subseteq Nat
    OBVIOUS
<1> QED
    BY <1>1, LastStateIs

LEMMA LastStateOfMore ==
    ASSUME NEW a \in Seq(AgentExecutionEvent), NEW b \in Seq(AgentExecutionEvent)
    PROVE  LastState(a \o b) = IF LastState(b) # NoState THEN LastState(b) ELSE LastState(a)
<1> DEFINE c == a \o b
<1>1. /\ c \in Seq(AgentExecutionEvent) /\ Len(a) \in Nat /\ Len(b) \in Nat
      /\ DOMAIN a = 1..Len(a) /\ DOMAIN b = 1..Len(b) /\ DOMAIN c = 1..(Len(a) + Len(b))
      /\ \A i \in 1..Len(a) : c[i] = a[i]
      /\ \A i \in 1..Len(b) : c[Len(a) + i] = b[i]
    OBVIOUS
<1> HIDE DEF c
<1>2. \A j \in DOMAIN c : j \in 1..Len(a) \/ (j - Len(a) \in 1..Len(b) /\ j = Len(a) + (j - Len(a)))
    BY <1>1
<1>3. CASE \E i \in DOMAIN b : /\ LastState(b) = b[i].state /\ b[i].state # NoState
                               /\ \A j \in DOMAIN b : j > i => b[j].state = NoState
    <2>1. PICK i \in DOMAIN b : /\ LastState(b) = b[i].state /\ b[i].state # NoState
                                /\ \A j \in DOMAIN b : j > i => b[j].state = NoState
        BY <1>3
    <2>2. Len(a) + i \in DOMAIN c /\ c[Len(a) + i] = b[i]
        BY <1>1
    <2>3. ASSUME NEW j \in DOMAIN c, j > Len(a) + i PROVE c[j].state = NoState
        <3>1. j - Len(a) \in DOMAIN b /\ j = Len(a) + (j - Len(a)) /\ j - Len(a) > i
            BY <1>1, <1>2, <2>3
        <3> QED
            BY <1>1, <2>1, <3>1
    <2>4. LastState(c) = c[Len(a) + i].state
        BY <1>1, <2>1, <2>2, <2>3, LastStateAt
    <2> QED
        BY <2>1, <2>2, <2>4 DEF c
<1>4. CASE LastState(b) = NoState /\ \A i \in DOMAIN b : b[i].state = NoState
    <2>1. \A j \in DOMAIN c : j \notin DOMAIN a => c[j].state = NoState
        BY <1>1, <1>2, <1>4
    <2>2. CASE \A i \in DOMAIN a : a[i].state = NoState
        <3>1. \A j \in DOMAIN c : c[j].state = NoState
            BY <1>1, <2>1, <2>2
        <3> QED
            BY <1>1, <1>4, <2>2, <3>1, LastStateAt DEF c
    <2>3. CASE \E i \in DOMAIN a : /\ LastState(a) = a[i].state /\ a[i].state # NoState
                                   /\ \A j \in DOMAIN a : j > i => a[j].state = NoState
        <3>1. PICK i \in DOMAIN a : /\ LastState(a) = a[i].state /\ a[i].state # NoState
                                    /\ \A j \in DOMAIN a : j > i => a[j].state = NoState
            BY <2>3
        <3>2. i \in DOMAIN c /\ c[i] = a[i]
            BY <1>1
        <3>3. \A j \in DOMAIN c : j > i => c[j].state = NoState
            BY <1>1, <2>1, <3>1
        <3>4. LastState(c) = c[i].state
            BY <1>1, <3>1, <3>2, <3>3, LastStateAt
        <3> QED
            BY <1>4, <3>1, <3>2, <3>4 DEF c
    <2> QED
        BY <2>2, <2>3, LastStateIs
<1> QED
    BY <1>3, <1>4, LastStateIs

\* A step that publishes nothing and leaves the executors as they are.
LEMMA QuietStep ==
    ASSUME HandlerInv, TurnInv, KeptInv, PayloadCarries, NEW r \in Request, StepOf(r),
           exec' = exec, tracker' = tracker, log' = log,
           \A c \in Request : exec[c] = "running" => script'[c] = script[c] \/ script'[c].ends = "return"
    PROVE  KeptInv'
<1>1. /\ BusTypeOK
      /\ \A c \in Request : exec[c] # "none" => queue[c].loop # "none" /\ queue[c].bus \in Bus
      /\ \A c \in Request : tracker[c].on => exec[c] # "none"
      /\ NoBus \notin Bus
    BY NoBusAssumption DEF HandlerInv, TypeOK, StageInv, NoTrackerLeak
<1>2. /\ \A c \in Request : exec[c] # "none" => queue'[c].bus = queue[c].bus
      /\ \A c \in Request : exec[c] = "settled" /\ registered' # NoBus /\ queue'[c].bus = registered'
            => registered = registered'
    <2>1. CASE Calm
        BY <2>1 DEF Calm
    <2>2. CASE JoinBus(r)
        <3>1. registered \in Bus
            BY <1>1, <2>2 DEF JoinBus, BusTypeOK
        <3> QED
            BY <1>1, <2>2, <3>1, AttachEffect DEF JoinBus
    <2>3. ASSUME NEW b \in Bus, OpenBus(r, b)
          PROVE  /\ \A c \in Request : exec[c] # "none" => queue'[c].bus = queue[c].bus
                 /\ \A c \in Request : exec[c] = "settled" /\ registered' # NoBus /\ queue'[c].bus = registered'
                       => registered = registered'
        <3>1. /\ \A c \in Request : exec[c] # "none" => queue'[c].bus = queue[c].bus
            BY <1>1, <2>3, AttachEffect DEF OpenBus
        <3>2. \A c \in Request : exec[c] # "none" => queue[c].bus \in created
            BY <1>1 DEF TurnInv
        <3>3. registered = registered' \/ registered' \notin created
            BY <2>3 DEF OpenBus
        <3> QED
            BY <3>1, <3>2, <3>3
    <2> QED
        BY <2>1, <2>2, <2>3, BusUse
<1>3. /\ \A c \in Request : exec'[c] = "running" => tracker'[c].on
      /\ \A c \in Request : tracker'[c].on => tracker'[c].state \in {NoState, LastState(log'[queue'[c].bus])}
      /\ \A c \in Request : exec'[c] = "returned" /\ ~tracker'[c].on => tracker'[c].state \notin keepBusAliveStates
    BY <1>1, <1>2 DEF KeptInv
<1>4. \A c \in Request : exec'[c] = "running" /\ script'[c].ends = "throw" =>
        /\ tracker'[c].state \notin keepBusAliveStates
        /\ \A i \in DOMAIN script'[c].events : script'[c].events[i].state \notin keepBusAliveStates
    BY DEF KeptInv
<1>5. ASSUME registered' # NoBus, \A c \in Request : exec'[c] \in {"none", "settled"},
             NEW c \in Request, exec'[c] = "settled", queue'[c].bus = registered'
      PROVE  LastState(log'[registered']) \in keepBusAliveStates
    BY <1>2, <1>5 DEF KeptInv
<1> QED
    BY <1>3, <1>4, <1>5 DEF KeptInv

\* A tracker that listens on b and knows its log's last state, knows it after es as well.
Knows(t, c, lg) == t[c].on => queue[c].bus \in Bus /\ t[c].state \in {NoState, LastState(lg[queue[c].bus])}

LEMMA TrackStep ==
    ASSUME NEW b \in Bus, NEW es \in Seq(AgentExecutionEvent), NEW t \in [Request -> Tracker],
           NEW lg \in [Bus -> Seq(AgentExecutionEvent)], NEW c \in Request, Knows(t, c, lg)
    PROVE  /\ Knows(Track(t, b, es), c, [lg EXCEPT ![b] = @ \o es])
           /\ ~t[c].on => Track(t, b, es)[c] = t[c]
           /\ Track(t, b, es)[c].state \in {t[c].state, LastState(es)}
<1> DEFINE new == [lg EXCEPT ![b] = @ \o es]
<1>1. new[b] = lg[b] \o es /\ \A x \in Bus \ {b} : new[x] = lg[x]
    OBVIOUS
<1>2. /\ Noted(t[c], es).state = IF LastState(es) # NoState THEN LastState(es) ELSE t[c].state
      /\ Noted(t[c], es).on = t[c].on
    BY DEF Noted, Tracker
<1>3. Track(t, b, es)[c] = IF t[c].on /\ queue[c].bus = b THEN Noted(t[c], es) ELSE t[c]
    BY DEF Track
<1>4. LastState(lg[b] \o es) = IF LastState(es) # NoState THEN LastState(es) ELSE LastState(lg[b])
    <2>1. lg[b] \in Seq(AgentExecutionEvent)
        OBVIOUS
    <2> QED
        BY <2>1, LastStateOfMore
<1> HIDE DEF new
<1>5. Knows(Track(t, b, es), c, new)
    BY <1>1, <1>2, <1>3, <1>4 DEF Knows
<1>6. (~t[c].on => Track(t, b, es)[c] = t[c]) /\ Track(t, b, es)[c].state \in {t[c].state, LastState(es)}
    BY <1>2, <1>3
<1> QED
    BY <1>5, <1>6 DEF new

LEMMA TrackersKnow ==
    ASSUME HandlerInv, KeptInv
    PROVE  /\ log \in [Bus -> Seq(AgentExecutionEvent)]
           /\ \A c \in Request : Knows(tracker, c, log)
BY DEF HandlerInv, TypeOK, BusTypeOK, NoTrackerLeak, StageInv, KeptInv, Knows

\* While r is engaged, nobody else's executor is.
LEMMA OthersSettled ==
    ASSUME TakesTurns, HandlerInv, TurnInv, NEW r \in Request, Engaged(r)
    PROVE  \A c \in Request \ {r} : exec[c] \in {"none", "settled"} /\ ~tracker[c].on
BY OneEngaged DEF HandlerInv, TypeOK, NoTrackerLeak, Engaged

LEMMA KeptPublish ==
    ASSUME TakesTurns, PayloadCarries, HandlerInv, TurnInv, KeptInv, NEW r \in Request, Publish(r)
    PROVE  KeptInv'
<1> DEFINE e == Head(script[r].events)
           es == <<e>>
           b == queue[r].bus
<1>1. /\ exec[r] = "running" /\ exec' = exec /\ script[r].events # <<>>
      /\ tracker' = Track(tracker, b, es) /\ PublishOn(b, es)
      /\ script' = [script EXCEPT ![r].events = Tail(@)]
    BY DEF Publish
<1>2. /\ b \in Bus /\ es \in Seq(AgentExecutionEvent) /\ e \in AgentExecutionEvent
      /\ tracker \in [Request -> Tracker] /\ script \in [Request -> Code] /\ BusTypeOK
      /\ \A c \in Request \ {r} : exec[c] \in {"none", "settled"} /\ ~tracker[c].on
    <2>1. script[r].events \in Seq(AgentExecutionEvent)
        BY DEF HandlerInv, StageInv, Code
    <2>2. e \in AgentExecutionEvent
        BY <1>1, <2>1
    <2> QED
        BY <1>1, <2>2, ExecutorsBus, OthersSettled, EventsToPublish DEF Engaged, HandlerInv, TypeOK, StageInv
<1>3. log' = [log EXCEPT ![b] = @ \o es] /\ \A c \in Request : queue'[c].bus = queue[c].bus
    BY <1>1, <1>2, PublishEffect DEF PublishOn, Kept
<1>4. LastState(es) \in {NoState, e.state}
    <2>1. DOMAIN es = {1} /\ es[1] = e /\ es \in Seq(AgentExecutionEvent)
        BY <1>2
    <2> HIDE DEF es, e
    <2> QED
        BY <2>1, LastStateIs
<1>5. ASSUME NEW c \in Request
      PROVE  /\ tracker'[c].on = tracker[c].on
             /\ Knows(tracker', c, log')
             /\ ~tracker[c].on => tracker'[c] = tracker[c]
             /\ tracker'[c].state \in {tracker[c].state, LastState(es)}
    <2> HIDE DEF es, b
    <2>1. Track(tracker, b, es)[c].on = tracker[c].on
        BY <1>2, TrackType
    <2>2. /\ Knows(Track(tracker, b, es), c, [log EXCEPT ![b] = @ \o es])
          /\ ~tracker[c].on => Track(tracker, b, es)[c] = tracker[c]
          /\ Track(tracker, b, es)[c].state \in {tracker[c].state, LastState(es)}
        BY <1>2, TrackStep, TrackersKnow
    <2> QED
        BY <1>1, <1>3, <2>1, <2>2
<1>6. NoState \notin keepBusAliveStates
    BY ExecutorAssumption DEF NoState, TaskState
<1>7. ASSUME script[r].ends = "throw"
      PROVE  /\ tracker'[r].state \notin keepBusAliveStates
             /\ \A i \in DOMAIN script'[r].events : script'[r].events[i].state \notin keepBusAliveStates
    <2>1. /\ tracker[r].state \notin keepBusAliveStates
          /\ \A i \in DOMAIN script[r].events : script[r].events[i].state \notin keepBusAliveStates
        BY <1>1, <1>7 DEF KeptInv
    <2>2. script[r].events \in Seq(AgentExecutionEvent) /\ script'[r].events = Tail(script[r].events)
        BY <1>1, <1>2 DEF Code
    <2>3. e.state \notin keepBusAliveStates
        <3>1. 1 \in DOMAIN script[r].events /\ e = script[r].events[1]
            BY <1>1, <2>2
        <3> HIDE DEF e
        <3> QED
            BY <2>1, <3>1
    <2>4. \A i \in DOMAIN Tail(script[r].events) :
            /\ i + 1 \in DOMAIN script[r].events
            /\ Tail(script[r].events)[i] = script[r].events[i + 1]
        BY <1>1, <2>2
    <2> HIDE DEF e, es
    <2> QED
        BY <1>4, <1>5, <1>6, <2>1, <2>2, <2>3, <2>4
<1> HIDE DEF e, es, b
<1>8. \A c \in Request : script'[c].ends = script[c].ends
    BY <1>1, <1>2 DEF Code
<1> QED
    BY <1>1, <1>2, <1>3, <1>5, <1>7, <1>8 DEF KeptInv, Knows

LEMMA KeptThrow ==
    ASSUME TakesTurns, PayloadCarries, HandlerInv, TurnInv, KeptInv, NEW r \in Request, Throw(r)
    PROVE  KeptInv'
<1> DEFINE es == ErrorEvents(r)
           b == queue[r].bus
           t == [tracker EXCEPT ![r].on = @ /\ Method[r] # "stream"]
<1>1. /\ exec[r] = "running" /\ exec' = [exec EXCEPT ![r] = "returned"] /\ script[r].ends = "throw"
      /\ tracker' = Track(t, b, es) /\ PublishOn(b, es)
    BY DEF Throw
<1>2. /\ b \in Bus /\ es \in Seq(AgentExecutionEvent) /\ BusTypeOK
      /\ tracker \in [Request -> Tracker] /\ exec \in [Request -> {"none", "running", "returned", "settled"}]
      /\ \A c \in Request \ {r} : exec[c] \in {"none", "settled"} /\ ~tracker[c].on
    BY <1>1, ExecutorsBus, OthersSettled, EventsToPublish DEF Engaged, HandlerInv, TypeOK
<1>3. log' = [log EXCEPT ![b] = @ \o es] /\ \A c \in Request : queue'[c].bus = queue[c].bus
    BY <1>1, <1>2, PublishEffect DEF PublishOn, Kept
<1>4. t \in [Request -> Tracker] /\ \A c \in Request : (t[c].on => tracker[c].on) /\ t[c].state = tracker[c].state
    BY <1>2 DEF Tracker
<1> HIDE DEF es, b, t
<1>5. ASSUME NEW c \in Request
      PROVE  /\ tracker'[c].on = t[c].on
             /\ Knows(tracker', c, log')
             /\ ~t[c].on => tracker'[c] = t[c]
    <2>1. Track(t, b, es)[c].on = t[c].on
        BY <1>2, <1>4, TrackType
    <2>2. Knows(t, c, log)
        BY <1>4, TrackersKnow DEF Knows
    <2>3. /\ Knows(Track(t, b, es), c, [log EXCEPT ![b] = @ \o es])
          /\ ~t[c].on => Track(t, b, es)[c] = t[c]
        <3>1. /\ b \in Bus /\ es \in Seq(AgentExecutionEvent) /\ t \in [Request -> Tracker]
              /\ log \in [Bus -> Seq(AgentExecutionEvent)]
            BY <1>2, <1>4, TrackersKnow
        <3> QED
            BY <2>2, <3>1, TrackStep
    <2> QED
        BY <1>1, <1>3, <2>1, <2>3
<1>6. tracker[r].state \notin keepBusAliveStates
    BY <1>1 DEF KeptInv
<1> QED
    BY <1>1, <1>2, <1>3, <1>4, <1>5, <1>6 DEF KeptInv, Knows

\* The decision: a bus is left in the table for what its tracker saw last.
LEMMA KeptSettle ==
    ASSUME TakesTurns, PayloadCarries, HandlerInv, TurnInv, KeptInv, NEW r \in Request, Settle(r)
    PROVE  KeptInv'
<1>1. exec[r] = "returned" /\ exec' = [exec EXCEPT ![r] = "settled"] /\ queue[r].bus \in Bus
    BY ExecutorsBus DEF Settle
<1>2. /\ \A c \in Request \ {r} : exec[c] \in {"none", "settled"} /\ ~tracker[c].on
      /\ exec \in [Request -> {"none", "running", "returned", "settled"}]
      /\ tracker \in [Request -> Tracker] /\ BusTypeOK
      /\ queue[r].bus = registered
    BY <1>1, OthersSettled DEF Engaged, HandlerInv, TypeOK, TurnInv
<1>3. \A c \in Request : exec'[c] \notin {"running", "returned"} /\ ~tracker'[c].on
    BY <1>1, <1>2 DEF Settle, Untracked, Tracker
<1>4. CASE tracker[r].state \in keepBusAliveStates
    <2>1. log' = log /\ registered' = registered
        BY <1>4 DEF Settle, busVars
    <2>2. tracker[r].state = LastState(log[registered])
        <3>1. tracker[r].on /\ tracker[r].state # NoState
            BY <1>1, <1>4, ExecutorAssumption DEF KeptInv, NoState, TaskState
        <3> QED
            BY <1>2, <3>1 DEF KeptInv
    <2> QED
        BY <1>3, <1>4, <2>1, <2>2 DEF KeptInv
<1>5. CASE tracker[r].state \notin keepBusAliveStates
    <2>1. registered' = NoBus
        BY <1>5 DEF Settle, SettleBus
    <2> QED
        BY <1>3, <2>1 DEF KeptInv
<1> QED
    BY <1>4, <1>5

LEMMA KeptLaunch ==
    ASSUME AsksAndReturns, TakesTurns, PayloadCarries, HandlerInv, TurnInv, KeptInv, NEW r \in Request,
           Launched(r), Engaged(r) \/ Open(r), log' = log,
           \A c \in Request \ {r} : queue'[c].bus = queue[c].bus
    PROVE  KeptInv'
<1>1. /\ exec' = [exec EXCEPT ![r] = "running"]
      /\ tracker' = [tracker EXCEPT ![r] = [NoTracker EXCEPT !.on = TRUE]]
      /\ tracker \in [Request -> Tracker] /\ script \in [Request -> Code]
      /\ exec \in [Request -> {"none", "running", "returned", "settled"}]
    BY DEF Launched, HandlerInv, TypeOK, StageInv
<1>2. PICK s \in Script[r] : script' = [script EXCEPT ![r] = s]
    BY DEF Launched
<1>3. exec'[r] = "running" /\ tracker'[r].on /\ tracker'[r].state = NoState /\ script'[r] = s
    BY <1>1, <1>2 DEF NoTracker
<1>4. NoState \notin keepBusAliveStates
    BY ExecutorAssumption DEF NoState, TaskState
<1>5. s.ends = "throw" => \A i \in DOMAIN s.events : s.events[i].state \notin keepBusAliveStates
    BY DEF AsksAndReturns
<1>6. \A c \in Request \ {r} : exec'[c] = exec[c] /\ tracker'[c] = tracker[c] /\ script'[c] = script[c]
    BY <1>1, <1>2
<1>7. \A c \in Request \ {r} :
        /\ exec[c] = "running" => tracker[c].on
        /\ tracker[c].on => tracker[c].state \in {NoState, LastState(log[queue[c].bus])}
        /\ exec[c] = "returned" /\ ~tracker[c].on => tracker[c].state \notin keepBusAliveStates
        /\ exec[c] = "running" /\ script[c].ends = "throw" =>
            /\ tracker[c].state \notin keepBusAliveStates
            /\ \A i \in DOMAIN script[c].events : script[c].events[i].state \notin keepBusAliveStates
    BY DEF KeptInv
<1>8. ASSUME NEW c \in Request
      PROVE  /\ exec'[c] = "running" => tracker'[c].on
             /\ tracker'[c].on => tracker'[c].state \in {NoState, LastState(log'[queue'[c].bus])}
             /\ exec'[c] = "returned" /\ ~tracker'[c].on => tracker'[c].state \notin keepBusAliveStates
             /\ exec'[c] = "running" /\ script'[c].ends = "throw" =>
                 /\ tracker'[c].state \notin keepBusAliveStates
                 /\ \A i \in DOMAIN script'[c].events : script'[c].events[i].state \notin keepBusAliveStates
    BY <1>3, <1>4, <1>5, <1>6, <1>7
<1>9. ~\A c \in Request : exec'[c] \in {"none", "settled"}
    BY <1>3
<1> QED
    BY <1>8, <1>9 DEF KeptInv

LEMMA KeptStep ==
    ASSUME TakesTurns, AsksAndReturns, PayloadCarries, HandlerInv, TurnInv, KeptInv,
           NEW r \in Request, StepOf(r)
    PROVE  KeptInv'
<1>1. ASSUME UNCHANGED execVars, log' = log PROVE KeptInv'
    BY <1>1, QuietStep DEF execVars
<1>2. CASE Publish(r) \/ Throw(r) \/ Settle(r)
    BY <1>2, KeptPublish, KeptThrow, KeptSettle
<1>3. CASE Open(r)
    <2>1. PICK b \in Bus : OpenBus(r, b)
        BY <1>3 DEF Open
    <2>2. log' = log /\ \A c \in Request \ {r} : queue'[c].bus = queue[c].bus
        BY <2>1, AttachEffect DEF OpenBus, Attach, HandlerInv, TypeOK
    <2>3. UNCHANGED execVars \/ Launched(r)
        BY <1>3 DEF Open
    <2> QED
        BY <1>1, <1>3, <2>2, <2>3, KeptLaunch
<1>4. CASE Launch(r)
    <2>1. Engaged(r) /\ Launched(r) /\ UNCHANGED busVars
        BY <1>4 DEF Launch, Engaged, At
    <2> QED
        BY <2>1, KeptLaunch DEF busVars
<1>5. CASE Return(r)
    <2>1. /\ exec[r] = "running" /\ exec' = [exec EXCEPT ![r] = "returned"]
          /\ UNCHANGED <<log, queue, registered, script, tracker>>
          /\ exec \in [Request -> {"none", "running", "returned", "settled"}]
        BY <1>5 DEF Return, busVars, HandlerInv, TypeOK
    <2> QED
        BY <2>1 DEF KeptInv
<1>6. CASE AgentCancel(r)
    <2>1. /\ exec' = exec /\ tracker' = tracker /\ UNCHANGED busVars
          /\ \A c \in Request : exec[c] = "running" => script'[c] = script[c] \/ script'[c].ends = "return"
        BY <1>6 DEF AgentCancel, AsksAndReturns
    <2> QED
        BY <2>1, QuietStep DEF busVars
<1>7. CASE \/ LoadContext(r) \/ SaveContext(r) \/ Await(r) \/ BreakStream(r) \/ FoldMessage(r)
           \/ FoldLoad(r) \/ FoldSave(r) \/ Deliver(r) \/ Finish(r) \/ RepairLoad(r) \/ RepairSave(r)
    <2>1. UNCHANGED execVars
        BY <1>7 DEF LoadContext, SaveContext, Await, BreakStream, FoldMessage, FoldLoad, FoldSave,
                     Deliver, Finish, RepairLoad, RepairSave
    <2>2. log' = log
        BY <1>7 DEF LoadContext, SaveContext, Await, BreakStream, FoldMessage, FoldLoad, FoldSave,
                     Deliver, Finish, RepairLoad, RepairSave, Pull, StopQueue, busVars
    <2> QED
        BY <1>1, <2>1, <2>2
<1>8. CASE \/ CancelLoad(r) \/ CancelFork(r) \/ Mark(r) \/ Verify(r) \/ Subscribe(r) \/ Snapshot(r)
           \/ Forward(r) \/ Disconnect(r) \/ FoldFails(r) \/ StoreFails(r)
    <2>1. UNCHANGED execVars
        BY <1>8 DEF CancelLoad, CancelFork, Mark, Verify, Subscribe, Snapshot, Forward,
                     Disconnect, FoldFails, StoreFails
    <2>2. log' = log
        BY <1>8 DEF CancelLoad, CancelFork, Mark, Verify, Subscribe, Snapshot, Forward,
                     Disconnect, FoldFails, LoopFails, StoreFails, StopIfAny, JoinBus, Attach, StopQueue, busVars
    <2> QED
        BY <1>1, <2>1, <2>2
<1> QED
    BY <1>2, <1>3, <1>4, <1>5, <1>6, <1>7, <1>8 DEF StepOf, Handle, Execute

LEMMA KeptInit == Init => KeptInv
<1> SUFFICES ASSUME Init PROVE KeptInv
    OBVIOUS
<1>1. \A r \in Request : exec[r] = "none" /\ ~tracker[r].on
    BY DEF Init, NoTracker
<1> QED
    BY <1>1 DEF KeptInv

LEMMA KeptUnchanged == KeptInv /\ UNCHANGED vars => KeptInv'
BY DEF KeptInv, vars, busVars, execVars

(***************************************************************************)
(* BusLifetime, as long as clients take turns, cancelTask tells its        *)
(* executor to publish rather than publishing itself, and an executor that *)
(* asked for input or authentication returns: a bus is in the table while  *)
(* its executor publishes or a queue listens, nothing is left behind on    *)
(* it, and after its executor it stays only for the state it is kept for.  *)
(***************************************************************************)
THEOREM LifetimeOfBus ==
    TakesTurns /\ AsksAndReturns /\ PayloadCarries /\ Spec => []BusLifetime
<1> SUFFICES ASSUME TakesTurns, AsksAndReturns, PayloadCarries PROVE Spec => []BusLifetime
    OBVIOUS
<1>1. HandlerInv /\ TurnInv /\ KeptInv /\ [Next]_vars => KeptInv'
    <2> SUFFICES ASSUME HandlerInv, TurnInv, KeptInv, [Next]_vars PROVE KeptInv'
        OBVIOUS
    <2>1. ASSUME Next PROVE KeptInv'
        BY <2>1, KeptStep DEF Next, StepOf
    <2> QED
        BY <2>1, KeptUnchanged
<1>2. HandlerInv /\ TurnInv /\ KeptInv => BusLifetime
    <2> SUFFICES ASSUME HandlerInv, TurnInv, KeptInv PROVE BusLifetime
        OBVIOUS
    <2>1. BusHeld /\ NoOrphan
        BY RequestAssumption DEF TurnInv, BusHeld, NoOrphan, Engaged
    <2>2. NoListenerLeak /\ NoTrackerLeak
        BY DEF HandlerInv, BusInv
    <2>3. OnlyInterruptedKept
        BY DEF KeptInv, OnlyInterruptedKept
    <2> QED
        BY <2>1, <2>2, <2>3 DEF BusLifetime
<1>3. TakesTurns /\ PayloadCarries
    OBVIOUS
<1> QED
    BY <1>1, <1>2, <1>3, KeptInit, TurnInvariance, PTL DEF Spec

-----------------------------------------------------------------------------
(* The row of a task whose clients take turns and do not cancel. *)

NoCancel == \A m \in Methods : \A r \in Request : m[r] # "cancel"

\* what a send loaded is what is there, and it is not terminal when it begins
WriterOf(r) ==
    /\ pc[r] \notin {"joined", "cancelling", "marking", "verifying"}
    /\ pc[r] \in {"loaded", "folding", "repairing"} => seen[r] = row
    /\ pc[r] \in {"loaded", "ready", "attached"} => ~Terminal(row)
    /\ pc[r] \in {"loaded", "ready"} => r \in FollowUp
    /\ r \in FollowUp /\ pc[r] \notin {"idle", "done"} => row # NoTask
    /\ r \notin FollowUp /\ pc[r] = "idle" => row = NoTask

\* and resubscriptions write nothing
WriterInv ==
    /\ \A r \in Request \ Send : pc[r] \in {"idle", "joined", "draining", "pulled", "drained", "done"}
    /\ \A r \in Send : WriterOf(r)

LEMMA FoldState ==
    ASSUME NEW t \in Task \cup {NoTask}, NEW e \in AgentExecutionEvent, NEW l \in Msg \cup {NoMsg}
    PROVE  /\ t # NoTask => Apply(t, e, l) # NoTask
           /\ Apply(t, e, l) # NoTask =>
                IF e.state = NoState THEN t # NoTask /\ Apply(t, e, l).state = t.state
                ELSE Apply(t, e, l).state = e.state
<1>1. \/ e.kind \in {"message", "artifactUpdate"} /\ e.state = NoState
      \/ e.kind \in {"task", "statusUpdate"} /\ e.state # NoState
    BY DEF AgentExecutionEvent, TaskState, NoState
<1>2. e.kind # "message" /\ t # NoTask => Apply(t, e, l) # NoTask
    <2>1. e.kind # "message" => e \in TaskEventOf
        BY TaskAssumption DEF TaskEventOf, AgentExecutionEvent
    <2> QED
        BY <2>1, ApplyType, TaskAssumption
<1> QED
    BY <1>1, <1>2 DEF Apply, ApplyTaskEvent, ApplyStatusUpdate, ApplyArtifactUpdate

\* A send that has not begun begins with its step, and every other is in rest then.
LEMMA OthersRest ==
    ASSUME TakesTurns, HandlerInv, TurnInv, NEW r \in Send, StepOf(r), NEW c \in Send, c # r
    PROVE  pc[c] = "idle" \/ Over(c)
<1>1. r \in Request /\ c \in Request /\ Method \in Methods /\ Method[r] \in SendMethod /\ Method[c] \in SendMethod
    BY DEF Send, HandlerInv, TypeOK
<1>2. c \in After[r] \/ r \in After[c]
    BY <1>1 DEF TakesTurns
<1>3. ~Over(r)
    BY <1>1, OverStays
<1>4. CASE pc[r] # "idle"
    BY <1>1, <1>2, <1>3, <1>4 DEF TurnInv
<1>5. CASE pc[r] = "idle"
    <2>1. exec[r] = "none"
        BY <1>1, <1>5 DEF TurnInv
    <2>2. MayStart(r)
        <3>1. ~Execute(r) /\ ~Disconnect(r) /\ ~FoldFails(r)
            BY <1>5, <2>1 DEF Execute, Publish, Return, Throw, Settle, Disconnect, FoldFails, At
        <3>2. CASE \/ LoadContext(r) \/ SaveContext(r) \/ Open(r) \/ Launch(r) \/ Await(r) \/ BreakStream(r)
                   \/ FoldMessage(r) \/ FoldLoad(r) \/ FoldSave(r) \/ Deliver(r) \/ Finish(r)
            BY <1>5, <3>2 DEF LoadContext, SaveContext, Open, Launch, Await, BreakStream, FoldMessage,
                              FoldLoad, FoldSave, Deliver, Finish, At
        <3>3. CASE \/ RepairLoad(r) \/ RepairSave(r) \/ CancelLoad(r) \/ CancelFork(r) \/ AgentCancel(r)
                   \/ Mark(r) \/ Verify(r) \/ Subscribe(r) \/ Snapshot(r) \/ Forward(r) \/ StoreFails(r)
            BY <1>5, <3>3 DEF RepairLoad, RepairSave, CancelLoad, CancelFork, AgentCancel, Mark, Verify,
                              Subscribe, Snapshot, Forward, StoreFails, At
        <3> QED
            BY <3>1, <3>2, <3>3 DEF StepOf, Handle
    <2>3. r \notin After[c] \/ pc[c] = "idle"
        BY <1>3, <1>5, <2>1 DEF TurnInv, Over
    <2> QED
        BY <1>1, <1>2, <2>2, <2>3 DEF MayStart, TakesTurns, At, Over
<1> QED
    BY <1>4, <1>5

\* What a resubscription's step leaves alone.
LEMMA WatchStep ==
    ASSUME NoCancel, HandlerInv, PayloadCarries, TurnInv, WriterInv, NEW r \in Request \ Send, StepOf(r)
    PROVE  /\ row' = row /\ exec' = exec /\ script' = script /\ tracker' = tracker /\ log' = log
           /\ \A c \in Request \ {r} : queue'[c] = queue[c] /\ pc'[c] = pc[c] /\ seen'[c] = seen[c]
           /\ pc'[r] \in {"idle", "joined", "draining", "pulled", "drained", "done"}
           /\ failures' \in {failures, failures + 1}
<1>1. /\ Method \in Methods /\ Method \in [Request -> SendMethod \cup {"cancel", "resubscribe"}]
      /\ pc \in [Request -> PC] /\ BusTypeOK /\ registered \in Bus \cup {NoBus}
    BY MethodAssumption DEF HandlerInv, TypeOK, BusTypeOK
<1>2. Method[r] = "resubscribe"
    BY <1>1 DEF NoCancel, Send
<1>3. /\ pc[r] \in {"idle", "joined", "draining", "pulled", "drained", "done"} /\ exec[r] = "none"
      /\ r \notin Continuing
    BY DEF WriterInv, TurnInv, Continuing
<1>4. ~Execute(r)
    BY <1>3 DEF Execute, Publish, Return, Throw, Settle
<1>5. /\ ~LoadContext(r) /\ ~SaveContext(r) /\ ~Open(r) /\ ~Launch(r) /\ ~BreakStream(r) /\ ~FoldMessage(r)
      /\ ~FoldLoad(r) /\ ~FoldSave(r) /\ ~Deliver(r) /\ ~RepairLoad(r) /\ ~RepairSave(r) /\ ~CancelLoad(r)
      /\ ~CancelFork(r) /\ ~AgentCancel(r) /\ ~Mark(r) /\ ~Verify(r) /\ ~FoldFails(r)
    BY <1>2, <1>3 DEF LoadContext, SaveContext, Open, Launch, BreakStream, FoldMessage, FoldLoad, FoldSave,
        Deliver, RepairLoad, RepairSave, CancelLoad, CancelFork, AgentCancel, Mark, Verify, FoldFails, Violates, At
<1>6. CASE Await(r) \/ Finish(r) \/ Subscribe(r) \/ Snapshot(r) \/ Forward(r) \/ Disconnect(r) \/ StoreFails(r)
    <2>1. log' = log /\ \A c \in Request \ {r} : queue'[c] = queue[c]
        <3>1. UNCHANGED busVars \/ Pull(r) \/ StopQueue(r) \/ JoinBus(r)
            BY <1>6, <1>3 DEF Await, Finish, Subscribe, Snapshot, Forward, Disconnect, StoreFails, StopIfAny, At
        <3>2. JoinBus(r) => registered \in Bus
            BY <1>1 DEF JoinBus
        <3>3. log' = log
            BY <3>1 DEF busVars, Pull, StopQueue, JoinBus, Attach
        <3> QED
            BY <1>1, <3>1, <3>2, <3>3, PullEffect, StopEffect, AttachEffect DEF busVars, JoinBus
    <2>2. /\ row' = row /\ exec' = exec /\ script' = script /\ tracker' = tracker
          /\ failures' \in {failures, failures + 1}
        BY <1>3, <1>6 DEF Await, Finish, Subscribe, Snapshot, Forward, Disconnect, StoreFails, At, storeVars, execVars
    <2>3. seen' = seen \/ seen' = [seen EXCEPT ![r] = row]
        BY <1>6 DEF Await, Finish, Subscribe, Snapshot, Forward, Disconnect, StoreFails, rmVars
    <2>4. \E p \in {"idle", "joined", "draining", "pulled", "drained", "done"} : pc' = [pc EXCEPT ![r] = p]
        BY <1>2, <1>6 DEF Await, Finish, Subscribe, Snapshot, Forward, Disconnect, StoreFails, Goto, Refuse
    <2>5. seen \in [Request -> Task \cup {NoTask}]
        BY DEF HandlerInv, TypeOK
    <2> QED
        BY <1>1, <2>1, <2>2, <2>3, <2>4, <2>5
<1> QED
    BY <1>4, <1>5, <1>6 DEF StepOf, Handle

\* How a send's step writes the row.
RowOf(r) ==
    \/ row' = row
    \/ pc[r] = "loaded" /\ r \in FollowUp /\ row' = Extended(r)
    \/ pc[r] = "folding" /\ row' = Apply(seen[r], Held(r), Latest(r)) /\ row' # NoTask
       /\ pc'[r] \in {"folded", "failing", "done"} /\ (failures' = 0 => pc'[r] = "folded")
    \/ pc[r] = "repairing" /\ row' = Apply(seen[r], Failed, Latest(r)) /\ row' # NoTask /\ pc'[r] = "done"

LEMMA RowSteps ==
    ASSUME HandlerInv, NEW r \in Send, WriterOf(r), StepOf(r)
    PROVE  RowOf(r)
<1>1. r \in Request /\ pc \in [Request -> PC] /\ failures \in Nat /\ pc[r] \notin {"joined", "cancelling", "marking"}
    BY ExecutorAssumption DEF HandlerInv, TypeOK, Send, WriterOf
<1>2. CASE UNCHANGED storeVars
    BY <1>2 DEF storeVars, RowOf
<1>3. CASE SaveContext(r) \/ StoreFails(r)
    <2>1. UNCHANGED storeVars \/ (pc[r] = "loaded" /\ r \in FollowUp /\ Write(Extended(r)))
        BY <1>1, <1>3 DEF SaveContext, StoreFails, Continuing, At
    <2> QED
        BY <2>1 DEF RowOf, Write, storeVars
<1>4. CASE FoldSave(r) \/ FoldFails(r)
    <2>1. \/ UNCHANGED storeVars
          \/ Apply(seen[r], Held(r), Latest(r)) # NoTask /\ row' = Apply(seen[r], Held(r), Latest(r))
        BY <1>4 DEF FoldSave, FoldFails, Fold, Write
    <2>2. pc[r] = "folding" /\ pc'[r] \in {"folded", "failing", "done"} /\ (failures' = 0 => pc'[r] = "folded")
        BY <1>1, <1>4 DEF FoldSave, FoldFails, LoopFails, Refuse, Goto, At
    <2> QED
        BY <2>1, <2>2 DEF RowOf, storeVars
<1>5. CASE RepairSave(r)
    BY <1>1, <1>5 DEF RepairSave, Fold, Write, RowOf, At, Goto, storeVars
<1>6. CASE \/ LoadContext(r) \/ Open(r) \/ Launch(r) \/ Await(r) \/ BreakStream(r) \/ FoldMessage(r)
           \/ FoldLoad(r) \/ Deliver(r) \/ Finish(r) \/ RepairLoad(r)
    BY <1>2, <1>6 DEF LoadContext, Open, Launch, Await, BreakStream, FoldMessage, FoldLoad, Deliver,
                      Finish, RepairLoad, storeVars
<1>7. CASE \/ CancelLoad(r) \/ CancelFork(r) \/ AgentCancel(r) \/ Verify(r) \/ Subscribe(r) \/ Snapshot(r)
           \/ Forward(r) \/ Disconnect(r) \/ Execute(r)
    BY <1>2, <1>7 DEF CancelLoad, CancelFork, AgentCancel, Verify, Subscribe, Snapshot, Forward, Disconnect,
                      Execute, Publish, Return, Throw, Settle, storeVars
<1>8. ~Mark(r)
    BY <1>1 DEF Mark, At
<1> QED
    BY <1>3, <1>4, <1>5, <1>6, <1>7, <1>8 DEF StepOf, Handle

\* Where a send's step takes it, and what it has loaded then.
LEMMA WriterSteps ==
    ASSUME PayloadCarries, HandlerInv, TurnInv, NEW r \in Send, WriterOf(r), StepOf(r), Send' = Send
    PROVE  WriterOf(r)'
<1>1. /\ r \in Request /\ pc \in [Request -> PC] /\ seen \in [Request -> Task \cup {NoTask}] /\ Method[r] \in SendMethod
      /\ pc[r] \in {"idle", "loaded", "ready", "attached"} => exec[r] = "none"
      /\ pc[r] \in {"loaded", "marking"} => seen[r] # NoTask
    BY DEF HandlerInv, TypeOK, StageInv, TurnInv, Send
<1>2. CASE LoadContext(r)
    BY <1>1, <1>2 DEF LoadContext, Refuse, Goto, MayStart, At, Continuing, storeVars, WriterOf, Terminal
<1>3. CASE SaveContext(r)
    <2>1. Extended(r) \in Task /\ seen[r] = row /\ Extended(r).state = row.state /\ row # NoTask
        BY <1>1, <1>3, TasksTyped DEF SaveContext, At, WriterOf, Extended, HandlerInv, TypeOK, Task
    <2> QED
        BY <1>1, <1>3, <2>1, TaskAssumption DEF SaveContext, Goto, At, Continuing, Write, WriterOf, Terminal
<1>4. CASE Open(r)
    <2>1. pc'[r] \in {"attached", "draining"} /\ row' = row /\ (pc[r] = "ready" \/ (pc[r] = "idle" /\ r \notin FollowUp))
        BY <1>1, <1>4 DEF Open, MayStart, Goto, At, storeVars
    <2> QED
        BY <2>1 DEF WriterOf, Terminal
<1>5. CASE Launch(r) \/ Await(r) \/ BreakStream(r) \/ FoldMessage(r) \/ Deliver(r) \/ Finish(r) \/ Disconnect(r)
    <2>1. /\ pc'[r] \in {"draining", "pulled", "drained", "folded", "done"} /\ pc[r] \notin {"idle", "done"} /\ row' = row
          /\ seen' = seen
        BY <1>1, <1>5 DEF Launch, Await, BreakStream, FoldMessage, Deliver, Finish, Disconnect, SendMethod,
                          Goto, Refuse, At, storeVars, rmVars
    <2> QED
        BY <1>1, <2>1 DEF WriterOf
<1>6. CASE FoldLoad(r) \/ RepairLoad(r)
    <2>1. /\ pc'[r] \in {"folding", "repairing"} /\ pc[r] \notin {"idle", "done"} /\ row' = row
          /\ seen'[r] = row
        BY <1>1, <1>6 DEF FoldLoad, RepairLoad, Goto, At, storeVars
    <2> QED
        BY <2>1 DEF WriterOf
<1>7. CASE FoldSave(r) \/ FoldFails(r) \/ RepairSave(r)
    <2>1. /\ pc[r] \in {"folding", "repairing"} /\ pc'[r] \in {"folded", "failing", "done"}
          /\ row' # row => row' # NoTask
        BY <1>1, <1>7, RowSteps DEF FoldSave, FoldFails, LoopFails, RepairSave, Goto, Refuse, At, RowOf
    <2> QED
        BY <2>1 DEF WriterOf
<1>8. CASE StoreFails(r)
    <2>1. pc'[r] = "done" /\ seen' = seen
        BY <1>1, <1>8 DEF StoreFails, Refuse, Goto, rmVars
    <2> QED
        BY <1>1, <2>1 DEF WriterOf
<1>9. CASE Execute(r)
    <2>1. pc' = pc /\ row' = row /\ seen' = seen
        BY <1>9 DEF Execute, Publish, Return, Throw, Settle, callVars, storeVars, rmVars
    <2> QED
        BY <2>1 DEF WriterOf, Terminal
<1>10. /\ ~CancelLoad(r) /\ ~CancelFork(r) /\ ~AgentCancel(r) /\ ~Mark(r) /\ ~Verify(r) /\ ~Subscribe(r)
       /\ ~Snapshot(r) /\ ~Forward(r)
    BY <1>1 DEF CancelLoad, CancelFork, AgentCancel, Mark, Verify, Subscribe, Snapshot, Forward, WriterOf, At, SendMethod
<1> QED
    BY <1>2, <1>3, <1>4, <1>5, <1>6, <1>7, <1>8, <1>9, <1>10 DEF StepOf, Handle

LEMMA WriterStep ==
    ASSUME TakesTurns, NoCancel, PayloadCarries, HandlerInv, TurnInv, WriterInv,
           NEW r \in Request, StepOf(r), Method' = Method
    PROVE  WriterInv'
<1>1. /\ Send' = Send /\ Send \subseteq Request /\ Method \in Methods
      /\ pc \in [Request -> PC] /\ \A c \in Request \ {r} : pc'[c] = pc[c]
    BY MoveStep DEF HandlerInv, TypeOK, Send, Move
<1>2. CASE r \in Send
    <2>1. WriterOf(r) /\ RowOf(r) /\ WriterOf(r)'
        BY <1>1, <1>2, RowSteps, WriterSteps DEF WriterInv
    <2>2. ASSUME NEW c \in Send, c # r PROVE WriterOf(c)'
        <3>1. pc'[c] = pc[c] /\ pc[c] \in {"idle", "done"} /\ WriterOf(c)
            BY <1>1, <1>2, <2>2, OthersRest DEF Over, WriterInv
        <3>2. c \notin FollowUp => r \in FollowUp
            BY <1>1, <1>2, <2>2, MethodAssumption DEF Send
        <3>3. row = NoTask /\ r \in FollowUp => row' = NoTask
            BY <2>1 DEF WriterOf, RowOf
        <3> QED
            BY <3>1, <3>2, <3>3 DEF WriterOf
    <2>3. \A c \in Request \ Send : pc'[c] = pc[c]
        BY <1>1, <1>2
    <2> QED
        BY <1>1, <1>2, <2>1, <2>2, <2>3 DEF WriterInv
<1>3. CASE r \notin Send
    <2>1. /\ row' = row /\ \A c \in Send : pc'[c] = pc[c] /\ seen'[c] = seen[c]
          /\ pc'[r] \in {"idle", "joined", "draining", "pulled", "drained", "done"}
        BY <1>1, <1>3, WatchStep
    <2>2. ASSUME NEW c \in Send PROVE WriterOf(c)'
        <3>1. WriterOf(c)
            BY DEF WriterInv
        <3> QED
            BY <2>1, <3>1 DEF WriterOf, Terminal
    <2>3. \A c \in Request \ Send : pc'[c] \in {"idle", "joined", "draining", "pulled", "drained", "done"}
        BY <1>1, <2>1 DEF WriterInv
    <2> QED
        BY <1>1, <2>2, <2>3 DEF WriterInv
<1> QED
    BY <1>2, <1>3

LEMMA WriterInvariance ==
    TakesTurns /\ NoCancel /\ PayloadCarries /\ Spec => [](HandlerInv /\ TurnInv /\ WriterInv)
<1> SUFFICES ASSUME TakesTurns, NoCancel, PayloadCarries PROVE Spec => [](HandlerInv /\ TurnInv /\ WriterInv)
    OBVIOUS
<1>1. Init => WriterInv
    BY DEF Init, WriterInv, WriterOf, Send
<1>2. HandlerInv /\ TurnInv /\ WriterInv /\ [Next]_vars => WriterInv'
    <2> SUFFICES ASSUME HandlerInv, TurnInv, WriterInv, [Next]_vars PROVE WriterInv'
        OBVIOUS
    <2>1. ASSUME Next PROVE WriterInv'
        BY <2>1, WriterStep DEF Next, StepOf
    <2>2. ASSUME UNCHANGED vars PROVE WriterInv'
        BY <2>2 DEF WriterInv, WriterOf, Terminal, Send, vars, storeVars, callVars, rmVars
    <2> QED
        BY <2>1, <2>2
<1> QED
    BY <1>1, <1>2, TurnInvariance, PTL DEF Spec

-----------------------------------------------------------------------------
(* A terminal state is final. *)

\* a task event in a terminal state, which the queue does not end with
Closing(e) == e.kind = "task" /\ e.state \in TERMINAL_STATE_LIST

Quiet(events, s) == \A i \in DOMAIN events : events[i].state \in {NoState, s}

\* after a task in a terminal state only that state is reported
Orderly(events) ==
    \A i, j \in DOMAIN events :
        i < j /\ Closing(events[i]) => events[j].state \in {NoState, events[i].state}

\* and nothing is thrown
Concludes(s) ==
    /\ Orderly(s.events)
    /\ s.ends = "throw" => \A i \in DOMAIN s.events : ~Closing(s.events[i])

\* an executor that published its task in a terminal state sticks to it
FinishesOnce == \A r \in Request : \A s \in Script[r] : Concludes(s)

Draining(r) == pc[r] \in {"draining", "pulled", "folding", "folded"}

\* what r may still be brought reports no state but s
OnlyReports(r, s) ==
    /\ Quiet(queue[r].buf, s)
    /\ exec[r] = "running" => Quiet(script[r].events, s) /\ script[r].ends = "return"

\* what a send drains keeps to a terminal state, once a task event brought one
OrderOf(r) ==
    /\ pc[r] = "attached" => queue[r].buf = <<>>
    /\ Draining(r) =>
        /\ Orderly(queue[r].buf)
        /\ exec[r] = "running" => Concludes(script[r])
        /\ \A i \in DOMAIN queue[r].buf : Closing(queue[r].buf[i]) /\ exec[r] = "running" =>
                Quiet(script[r].events, queue[r].buf[i].state) /\ script[r].ends = "return"
        /\ pc[r] \in {"pulled", "folding"} /\ Closing(Held(r)) => OnlyReports(r, Held(r).state)

\* nothing is left that could change the state
Closed(r, s) ==
    \/ pc[r] \in {"idle", "drained", "done"}
    \/ pc[r] \in {"folded", "draining"} /\ queue[r].loop = "holding" /\ EndsQueue(Held(r))
    \/ /\ Draining(r) /\ OnlyReports(r, s)
       /\ pc[r] \in {"pulled", "folding"} => Held(r).state \in {NoState, s}

FinalOf(r) ==
    failures = 0 => /\ pc[r] \notin {"failing", "repairing"}
                    /\ Terminal(row) => Closed(r, row.state)

FinalInv == \A r \in Send : OrderOf(r) /\ FinalOf(r)

LEMMA OrderlyJoin ==
    ASSUME NEW a \in Seq(AgentExecutionEvent), NEW b \in Seq(AgentExecutionEvent)
    PROVE  /\ Orderly(a) /\ Orderly(b) /\ (\A i \in DOMAIN a : Closing(a[i]) => Quiet(b, a[i].state))
              => Orderly(a \o b)
           /\ \A s : Quiet(a, s) /\ Quiet(b, s) => Quiet(a \o b, s)
           /\ \A i \in DOMAIN (a \o b) : (\E j \in DOMAIN a : (a \o b)[i] = a[j]) \/ (\E j \in DOMAIN b : (a \o b)[i] = b[j])
<1> DEFINE c == a \o b
<1>1. /\ Len(a) \in Nat /\ Len(b) \in Nat
      /\ DOMAIN a = 1..Len(a) /\ DOMAIN b = 1..Len(b) /\ DOMAIN c = 1..(Len(a) + Len(b))
      /\ \A i \in 1..Len(a) : c[i] = a[i]
      /\ \A i \in 1..Len(b) : c[Len(a) + i] = b[i]
    OBVIOUS
<1> HIDE DEF c
<1>2. \A j \in DOMAIN c : \/ j \in DOMAIN a /\ c[j] = a[j]
                          \/ j > Len(a) /\ j - Len(a) \in DOMAIN b /\ c[j] = b[j - Len(a)]
    <2> TAKE j \in DOMAIN c
    <2>1. j \in 1..Len(a) \/ (j - Len(a) \in 1..Len(b) /\ j = Len(a) + (j - Len(a)))
        BY <1>1
    <2> QED
        BY <1>1, <2>1
<1>3. ASSUME Orderly(a), Orderly(b), \A i \in DOMAIN a : Closing(a[i]) => Quiet(b, a[i].state),
             NEW i \in DOMAIN c, NEW j \in DOMAIN c, i < j, Closing(c[i])
      PROVE  c[j].state \in {NoState, c[i].state}
    <2>1. CASE j \in DOMAIN a /\ c[j] = a[j]
        <3>1. i \in DOMAIN a /\ c[i] = a[i]
            BY <1>1, <1>3, <2>1
        <3> QED
            BY <1>3, <2>1, <3>1 DEF Orderly
    <2>2. CASE j > Len(a) /\ j - Len(a) \in DOMAIN b /\ c[j] = b[j - Len(a)]
        <3>1. CASE i \in DOMAIN a /\ c[i] = a[i]
            BY <1>3, <2>2, <3>1 DEF Quiet
        <3>2. CASE i > Len(a) /\ i - Len(a) \in DOMAIN b /\ c[i] = b[i - Len(a)]
            <4>1. i - Len(a) < j - Len(a)
                BY <1>1, <1>3
            <4> QED
                BY <1>3, <2>2, <3>2, <4>1 DEF Orderly
        <3> QED
            BY <1>2, <3>1, <3>2
    <2> QED
        BY <1>2, <2>1, <2>2
<1>4. \A s : Quiet(a, s) /\ Quiet(b, s) => Quiet(c, s)
    BY <1>2 DEF Quiet
<1>5. Orderly(a) /\ Orderly(b) /\ (\A i \in DOMAIN a : Closing(a[i]) => Quiet(b, a[i].state)) => Orderly(c)
    BY <1>3 DEF Orderly
<1> QED
    BY <1>2, <1>4, <1>5 DEF c

LEMMA OrderlyTail ==
    ASSUME NEW a \in Seq(AgentExecutionEvent), a # <<>>
    PROVE  /\ Tail(a) \in Seq(AgentExecutionEvent) /\ Head(a) \in AgentExecutionEvent
           /\ \A i \in DOMAIN Tail(a) : \E j \in DOMAIN a : Tail(a)[i] = a[j]
           /\ 1 \in DOMAIN a /\ Head(a) = a[1]
           /\ Orderly(a) => Orderly(Tail(a)) /\ (Closing(Head(a)) => Quiet(Tail(a), Head(a).state))
           /\ \A s : Quiet(a, s) => Quiet(Tail(a), s) /\ Head(a).state \in {NoState, s}
<1>1. /\ Tail(a) \in Seq(AgentExecutionEvent) /\ Head(a) \in AgentExecutionEvent
      /\ Len(a) \in Nat \ {0} /\ DOMAIN a = 1..Len(a) /\ DOMAIN Tail(a) = 1..(Len(a) - 1)
      /\ \A i \in DOMAIN Tail(a) : Tail(a)[i] = a[i + 1]
      /\ 1 \in DOMAIN a /\ Head(a) = a[1]
    OBVIOUS
<1>2. \A i \in DOMAIN Tail(a) : i \in Nat /\ i + 1 \in DOMAIN a /\ 1 < i + 1
    BY <1>1
<1>3. \A i, j \in DOMAIN Tail(a) : i < j => i + 1 < j + 1
    BY <1>2
<1>4. Orderly(a) => Orderly(Tail(a))
    BY <1>1, <1>2, <1>3 DEF Orderly
<1>5. Orderly(a) => (Closing(Head(a)) => Quiet(Tail(a), Head(a).state))
    BY <1>1, <1>2 DEF Orderly, Quiet
<1>6. \A s : Quiet(a, s) => Quiet(Tail(a), s) /\ Head(a).state \in {NoState, s}
    BY <1>1, <1>2 DEF Quiet
<1> QED
    BY <1>1, <1>2, <1>4, <1>5, <1>6

\* What a pull brings.
LEMMA PullBrings ==
    ASSUME BusTypeOK, NEW r \in Request, Pull(r)
    PROVE  \/ queue[r].loop = "holding" /\ EndsQueue(queue[r].last) /\ queue'[r].loop = "done"
           \/ /\ ~(queue[r].loop = "holding" /\ EndsQueue(queue[r].last))
              /\ queue[r].buf # <<>> /\ queue'[r].buf = Tail(queue[r].buf)
              /\ queue'[r].last = Head(queue[r].buf) /\ queue'[r].loop = "holding"
           \/ /\ ~(queue[r].loop = "holding" /\ EndsQueue(queue[r].last))
              /\ queue[r].buf = <<>> /\ queue'[r].buf = <<>> /\ queue'[r].loop \in {"done", "parked"}
<1>1. queue[r] \in Queue
    BY RequestAssumption DEF BusTypeOK
<1>2. queue'[r] = IF queue[r].loop = "holding" /\ EndsQueue(queue[r].last)
                  THEN Leave(queue[r]) ELSE Advance(queue[r])
    BY RequestAssumption DEF BusTypeOK, Pull
<1> QED
    BY <1>1, <1>2 DEF Leave, Stop, Resolved, Advance, Queue

LEMMA PublishBrings ==
    ASSUME BusTypeOK, NEW r \in Request, NEW b \in Bus, NEW es \in Seq(AgentExecutionEvent), PublishOn(b, es)
    PROVE  /\ queue'[r].buf \in {queue[r].buf, queue[r].buf \o es}
           /\ queue'[r].last = queue[r].last /\ (queue[r].loop = "holding" => queue'[r].loop = "holding")
<1>1. queue[r] \in Queue /\ queue'[r] \in {queue[r], Enqueue(queue[r], es)}
    BY RequestAssumption DEF BusTypeOK, PublishOn
<1> QED
    BY <1>1 DEF Enqueue, Resolved, Queue

LEMMA SettleBrings ==
    ASSUME BusTypeOK, NEW r \in Request, NEW b \in Bus, SettleBus(b)
    PROVE  /\ queue'[r].buf = queue[r].buf
           /\ queue'[r].last = queue[r].last /\ (queue[r].loop = "holding" => queue'[r].loop = "holding")
<1>1. queue[r] \in Queue /\ queue'[r] \in {queue[r], Stop(queue[r])}
    BY RequestAssumption DEF BusTypeOK, SettleBus
<1> QED
    BY <1>1 DEF Stop, Resolved, Queue

\* What a send's own step leaves to be drained.
LEMMA OrderSteps ==
    ASSUME FinishesOnce, PayloadCarries, HandlerInv, TurnInv, NEW r \in Send, WriterOf(r), OrderOf(r), StepOf(r)
    PROVE  OrderOf(r)'
<1>1. /\ r \in Request /\ pc \in [Request -> PC] /\ BusTypeOK /\ queue[r].buf \in Seq(AgentExecutionEvent)
      /\ script \in [Request -> Code] /\ script[r].events \in Seq(AgentExecutionEvent)
      /\ script[r].ends \in {"none", "return", "throw"}
      /\ exec \in [Request -> {"none", "running", "returned", "settled"}]
      /\ exec[r] = "running" => script[r].ends # "none"
      /\ pc[r] \in {"idle", "loaded", "ready", "attached"} => exec[r] = "none"
    BY RequestAssumption DEF HandlerInv, TypeOK, StageInv, TurnInv, Send, Code, BusTypeOK, Queue
<1>2. ASSUME pc'[r] # "attached", pc'[r] \notin {"draining", "pulled", "folding", "folded"} PROVE OrderOf(r)'
    BY <1>2 DEF OrderOf, Draining
<1>3. ASSUME queue'[r].buf = queue[r].buf, queue'[r].last = queue[r].last, script' = script,
             exec'[r] = "running" => exec[r] = "running",
             pc'[r] = "attached" => pc[r] = "attached",
             pc'[r] \in {"draining", "pulled", "folding", "folded"} => Draining(r),
             pc'[r] \in {"pulled", "folding"} => pc[r] \in {"pulled", "folding"}
      PROVE  OrderOf(r)'
    BY <1>3 DEF OrderOf, Draining, OnlyReports, Held
<1>4. CASE \/ LoadContext(r) \/ SaveContext(r) \/ BreakStream(r) \/ Finish(r) \/ RepairLoad(r) \/ RepairSave(r)
           \/ FoldFails(r) \/ StoreFails(r) \/ Disconnect(r)
    BY <1>1, <1>2, <1>4 DEF LoadContext, SaveContext, BreakStream, Finish, RepairLoad, RepairSave, FoldFails,
                            LoopFails, StoreFails, Disconnect, Goto, Refuse
<1>5. CASE FoldMessage(r) \/ FoldLoad(r) \/ FoldSave(r) \/ Deliver(r)
    BY <1>1, <1>3, <1>5 DEF FoldMessage, FoldLoad, FoldSave, Deliver, Goto, At, busVars, execVars, Draining
<1>6. CASE Return(r) \/ Settle(r)
    <2>1. queue[r].bus \in Bus
        BY <1>1, <1>6, ExecutorsBus DEF Return, Settle
    <2>2. queue'[r].buf = queue[r].buf /\ queue'[r].last = queue[r].last
        BY <1>1, <1>6, <2>1, SettleBrings DEF Return, Settle, busVars
    <2> QED
        BY <1>1, <1>3, <1>6, <2>2 DEF Return, Settle, callVars, Draining
<1>7. CASE Open(r)
    <2>1. /\ pc'[r] \in {"attached", "draining"}
          /\ pc'[r] = "draining" => script'[r] \in Script[r]
        BY <1>1, <1>7 DEF Open, Launched, Goto, MayStart, At
    <2>2. queue'[r].buf = <<>>
        BY <1>1, <1>7, RequestAssumption DEF Open, OpenBus, Attach, NewQueue, BusTypeOK
    <2> QED
        BY <1>1, <2>1, <2>2 DEF OrderOf, Draining, FinishesOnce, Orderly
<1>8. CASE Launch(r)
    <2>1. pc'[r] = "draining" /\ script'[r] \in Script[r] /\ queue'[r].buf = <<>>
        BY <1>1, <1>8 DEF Launch, Launched, Goto, At, busVars, OrderOf
    <2> QED
        BY <1>1, <2>1 DEF OrderOf, Draining, FinishesOnce, Orderly
<1>9. CASE Await(r)
    <2>1. /\ pc[r] = "draining" /\ Pull(r) /\ script' = script /\ exec' = exec
          /\ pc'[r] = CASE queue'[r].loop = "holding" -> "pulled"
                        [] queue'[r].loop = "done" -> "drained"
                        [] OTHER -> "draining"
        BY <1>1, <1>9 DEF Await, At, execVars
    <2>2. CASE queue[r].loop = "holding" /\ EndsQueue(queue[r].last) /\ queue'[r].loop = "done"
        BY <1>2, <2>1, <2>2
    <2>3. CASE /\ queue[r].buf # <<>> /\ queue'[r].buf = Tail(queue[r].buf)
               /\ queue'[r].last = Head(queue[r].buf) /\ queue'[r].loop = "holding"
        <3>1. pc'[r] = "pulled"
            BY <2>1, <2>3
        <3>2. Orderly(queue'[r].buf) /\ (exec'[r] = "running" => Concludes(script'[r]))
            BY <1>1, <2>1, <2>3, OrderlyTail DEF OrderOf, Draining
        <3>3. \A i \in DOMAIN queue'[r].buf : \E j \in DOMAIN queue[r].buf : queue'[r].buf[i] = queue[r].buf[j]
            BY <1>1, <2>3, OrderlyTail
        <3>4. 1 \in DOMAIN queue[r].buf /\ queue'[r].last = queue[r].buf[1]
              /\ (Closing(queue'[r].last) => Quiet(queue'[r].buf, queue'[r].last.state))
            BY <1>1, <2>1, <2>3, OrderlyTail DEF OrderOf, Draining
        <3> QED
            BY <1>1, <2>1, <3>1, <3>2, <3>3, <3>4 DEF OrderOf, Draining, OnlyReports, Held
    <2>4. CASE queue[r].buf = <<>> /\ queue'[r].buf = <<>> /\ queue'[r].loop \in {"done", "parked"}
        BY <2>1, <2>4 DEF OrderOf, Draining, Orderly
    <2> QED
        BY <1>1, <2>1, <2>2, <2>3, <2>4, PullBrings
<1>10. CASE Publish(r)
    <2> DEFINE e == Head(script[r].events)
    <2>1. /\ exec[r] = "running" /\ script[r].events # <<>> /\ pc' = pc /\ exec' = exec
          /\ PublishOn(queue[r].bus, <<e>>) /\ queue[r].bus \in Bus
          /\ script'[r].events = Tail(script[r].events) /\ script'[r].ends = script[r].ends
        BY <1>1, <1>10, ExecutorsBus DEF Publish, callVars, Code
    <2>2. CASE ~Draining(r)
        BY <1>1, <2>1, <2>2 DEF OrderOf, Draining
    <2>3. CASE Draining(r)
        <3>1. /\ e \in AgentExecutionEvent /\ <<e>> \in Seq(AgentExecutionEvent)
              /\ 1 \in DOMAIN script[r].events /\ e = script[r].events[1]
              /\ Orderly(Tail(script[r].events)) /\ (Closing(e) => Quiet(Tail(script[r].events), e.state))
              /\ \A i \in DOMAIN Tail(script[r].events) :
                    \E j \in DOMAIN script[r].events : Tail(script[r].events)[i] = script[r].events[j]
              /\ \A s : Quiet(script[r].events, s) => Quiet(Tail(script[r].events), s) /\ Quiet(<<e>>, s)
            <4>1. Orderly(script[r].events)
                BY <2>1, <2>3 DEF OrderOf, Concludes
            <4>2. \A s : e.state \in {NoState, s} => Quiet(<<e>>, s)
                BY DEF Quiet
            <4>3. e \in AgentExecutionEvent => <<e>> \in Seq(AgentExecutionEvent)
                OBVIOUS
            <4> HIDE DEF e
            <4>4. e = Head(script[r].events)
                BY DEF e
            <4> QED
                BY <1>1, <2>1, <4>1, <4>2, <4>3, <4>4, OrderlyTail
        <3>2. queue'[r].buf \in {queue[r].buf, queue[r].buf \o <<e>>} /\ queue'[r].last = queue[r].last
            BY <1>1, <2>1, <3>1, PublishBrings
        <3>3. Concludes(script'[r])
            BY <2>1, <2>3, <3>1 DEF OrderOf, Concludes
        <3>4. Closing(e) => script[r].ends = "return"
            BY <1>1, <2>1, <2>3, <3>1 DEF OrderOf, Concludes
        <3>5. Orderly(queue'[r].buf)
            <4>1. Orderly(queue[r].buf) /\ Orderly(<<e>>)
                BY <2>3 DEF OrderOf, Orderly
            <4>2. \A i \in DOMAIN queue[r].buf : Closing(queue[r].buf[i]) => Quiet(<<e>>, queue[r].buf[i].state)
                BY <2>1, <2>3, <3>1 DEF OrderOf
            <4> QED
                BY <1>1, <3>1, <3>2, <4>1, <4>2, OrderlyJoin
        <3>6. \A i \in DOMAIN queue'[r].buf : Closing(queue'[r].buf[i]) =>
                Quiet(script'[r].events, queue'[r].buf[i].state) /\ script'[r].ends = "return"
            <4> TAKE i \in DOMAIN queue'[r].buf
            <4>1. (\E j \in DOMAIN queue[r].buf : queue'[r].buf[i] = queue[r].buf[j]) \/ queue'[r].buf[i] = e
                <5>1. \A j \in DOMAIN <<e>> : <<e>>[j] = e
                    OBVIOUS
                <5>2. CASE queue'[r].buf = queue[r].buf
                    BY <5>2
                <5>3. CASE queue'[r].buf = queue[r].buf \o <<e>>
                    <6> HIDE DEF e
                    <6>1. (\E j \in DOMAIN queue[r].buf : queue'[r].buf[i] = queue[r].buf[j])
                             \/ \E j \in DOMAIN <<e>> : queue'[r].buf[i] = <<e>>[j]
                        BY <1>1, <3>1, <5>3, OrderlyJoin
                    <6> QED
                        BY <5>1, <6>1
                <5> QED
                    BY <3>2, <5>2, <5>3
            <4> QED
                BY <2>1, <2>3, <3>1, <3>4, <4>1 DEF OrderOf
        <3>7. pc[r] \in {"pulled", "folding"} /\ Closing(Held(r)) =>
                Quiet(queue'[r].buf, Held(r).state) /\ Quiet(script'[r].events, Held(r).state) /\ script'[r].ends = "return"
            BY <1>1, <2>1, <2>3, <3>1, <3>2, OrderlyJoin DEF OrderOf, OnlyReports
        <3> QED
            BY <1>1, <2>1, <2>3, <3>2, <3>3, <3>5, <3>6, <3>7 DEF OrderOf, Draining, OnlyReports, Held
    <2> QED
        BY <2>2, <2>3
<1>11. CASE Throw(r)
    <2>1. /\ exec[r] = "running" /\ script[r].ends = "throw" /\ pc' = pc /\ exec'[r] = "returned"
          /\ PublishOn(queue[r].bus, ErrorEvents(r)) /\ queue[r].bus \in Bus
        BY <1>1, <1>11, ExecutorsBus DEF Throw, callVars
    <2>2. CASE ~Draining(r)
        BY <1>1, <2>1, <2>2 DEF OrderOf, Draining
    <2>3. CASE Draining(r)
        <3>1. ErrorEvents(r) \in Seq(AgentExecutionEvent)
            BY <1>1, EventsToPublish
        <3>2. Orderly(ErrorEvents(r))
            BY DEF ErrorEvents, Orderly, Failed, StatusUpdate, TaskEvent
        <3>3. \A i \in DOMAIN queue[r].buf : ~Closing(queue[r].buf[i])
            BY <2>1, <2>3 DEF OrderOf
        <3>4. Orderly(queue'[r].buf) /\ queue'[r].last = queue[r].last
            BY <1>1, <2>1, <2>3, <3>1, <3>2, <3>3, PublishBrings, OrderlyJoin DEF OrderOf
        <3>5. pc[r] \in {"pulled", "folding"} => ~Closing(Held(r))
            BY <2>1, <2>3 DEF OrderOf, OnlyReports
        <3> QED
            BY <2>1, <2>3, <3>4, <3>5 DEF OrderOf, Draining, OnlyReports, Held
    <2> QED
        BY <2>2, <2>3
<1>12. /\ ~CancelLoad(r) /\ ~CancelFork(r) /\ ~AgentCancel(r) /\ ~Mark(r) /\ ~Verify(r) /\ ~Subscribe(r)
       /\ ~Snapshot(r) /\ ~Forward(r)
    BY <1>1 DEF CancelLoad, CancelFork, AgentCancel, Mark, Verify, Subscribe, Snapshot, Forward, WriterOf, At,
                Send, SendMethod
<1> QED
    BY <1>4, <1>5, <1>6, <1>7, <1>8, <1>9, <1>10, <1>11, <1>12 DEF StepOf, Handle, Execute

\* What a send folds after its task is in a terminal state leaves it there.
LEMMA FoldKeeps ==
    ASSUME HandlerInv, NEW r \in Send, WriterOf(r), FinalOf(r), failures = 0, Terminal(row), RowOf(r)
    PROVE  row' # NoTask /\ row'.state = row.state
<1>1. /\ pc[r] \notin {"loaded", "repairing"} /\ Closed(r, row.state)
      /\ r \in Request /\ row \in Task /\ NoState \notin TERMINAL_STATE_LIST
    BY DEF WriterOf, FinalOf, Terminal, HandlerInv, TypeOK, Send, NoState, TERMINAL_STATE_LIST
<1>2. CASE row' = row
    BY <1>1, <1>2 DEF Terminal
<1>3. CASE pc[r] = "folding" /\ row' = Apply(seen[r], Held(r), Latest(r)) /\ row' # NoTask
    <2>1. seen[r] = row /\ Held(r).state \in {NoState, row.state}
        BY <1>1, <1>3 DEF WriterOf, Closed
    <2>2. Held(r) \in AgentExecutionEvent /\ Latest(r) \in Msg \cup {NoMsg}
        BY <1>1, <1>3, HeldFold, TasksTyped
    <2> QED
        BY <1>1, <1>3, <2>1, <2>2, FoldState
<1> QED
    BY <1>1, <1>2, <1>3 DEF RowOf

\* A step that saves nothing leaves a send with nothing to change.
LEMMA ClosedSteps ==
    ASSUME PayloadCarries, HandlerInv, TurnInv, NEW r \in Send, WriterOf(r), FinalOf(r), StepOf(r),
           failures = 0, failures' = 0, Terminal(row), row'.state = row.state
    PROVE  Closed(r, row.state)'
<1> DEFINE s == row.state
<1>1. /\ r \in Request /\ pc \in [Request -> PC] /\ BusTypeOK /\ queue[r].buf \in Seq(AgentExecutionEvent)
      /\ script \in [Request -> Code] /\ script[r].events \in Seq(AgentExecutionEvent)
      /\ exec \in [Request -> {"none", "running", "returned", "settled"}]
      /\ pc[r] \in {"idle", "loaded", "ready", "attached"} => exec[r] = "none"
      /\ failures \in Nat
    BY RequestAssumption, ExecutorAssumption
    DEF HandlerInv, TypeOK, StageInv, TurnInv, Send, Code, BusTypeOK, Queue
<1>2. Closed(r, s) /\ pc[r] \notin {"loaded", "ready", "attached", "failing", "repairing"} /\ (pc[r] = "idle" => r \in FollowUp)
    BY DEF FinalOf, WriterOf, Terminal
<1>3. ASSUME queue'[r].buf = queue[r].buf, queue'[r].last = queue[r].last,
             queue[r].loop = "holding" => queue'[r].loop = "holding",
             script'[r] = script[r], exec'[r] = "running" => exec[r] = "running",
             \/ pc'[r] = pc[r] \/ pc'[r] \in {"drained", "done"}
             \/ pc[r] = "pulled" /\ pc'[r] \in {"folding", "folded"}
             \/ pc[r] = "folding" /\ pc'[r] = "folded"
             \/ pc[r] = "folded" /\ pc'[r] = "draining"
      PROVE  Closed(r, row.state)'
    BY <1>2, <1>3 DEF Closed, Draining, OnlyReports, Held
<1>4. CASE \/ LoadContext(r) \/ BreakStream(r) \/ Finish(r) \/ Disconnect(r)
    <2>1. pc'[r] = "done"
        BY <1>1, <1>2, <1>4 DEF LoadContext, BreakStream, Finish, Disconnect, Goto, Refuse, Send, SendMethod
    <2> QED
        BY <2>1 DEF Closed
<1>5. CASE FoldMessage(r) \/ FoldLoad(r) \/ FoldSave(r) \/ Deliver(r)
    BY <1>1, <1>3, <1>5 DEF FoldMessage, FoldLoad, FoldSave, Deliver, Goto, At, busVars, execVars
<1>6. CASE Return(r) \/ Settle(r)
    <2>1. queue[r].bus \in Bus
        BY <1>1, <1>6, ExecutorsBus DEF Return, Settle
    <2>2. /\ queue'[r].buf = queue[r].buf /\ queue'[r].last = queue[r].last
          /\ queue[r].loop = "holding" => queue'[r].loop = "holding"
        BY <1>1, <1>6, <2>1, SettleBrings DEF Return, Settle, busVars
    <2> QED
        BY <1>1, <1>3, <1>6, <2>2 DEF Return, Settle, callVars
<1>7. CASE Await(r)
    <2>1. /\ pc[r] = "draining" /\ Pull(r) /\ script' = script /\ exec' = exec
          /\ pc'[r] = CASE queue'[r].loop = "holding" -> "pulled"
                        [] queue'[r].loop = "done" -> "drained"
                        [] OTHER -> "draining"
        BY <1>1, <1>7 DEF Await, At, execVars
    <2>2. CASE queue'[r].loop = "done"
        BY <2>1, <2>2 DEF Closed
    <2>3. ASSUME ~(queue[r].loop = "holding" /\ EndsQueue(queue[r].last)) PROVE OnlyReports(r, s)
        BY <1>2, <2>1, <2>3 DEF Closed, Held
    <2>4. CASE /\ ~(queue[r].loop = "holding" /\ EndsQueue(queue[r].last))
               /\ queue[r].buf # <<>> /\ queue'[r].buf = Tail(queue[r].buf)
               /\ queue'[r].last = Head(queue[r].buf) /\ queue'[r].loop = "holding"
        BY <1>1, <2>1, <2>3, <2>4, OrderlyTail DEF Closed, Draining, OnlyReports, Held
    <2>5. CASE /\ ~(queue[r].loop = "holding" /\ EndsQueue(queue[r].last))
               /\ queue[r].buf = <<>> /\ queue'[r].buf = <<>> /\ queue'[r].loop \in {"done", "parked"}
        BY <2>1, <2>3, <2>5 DEF Closed, Draining, OnlyReports
    <2> QED
        BY <1>1, <2>1, <2>2, <2>4, <2>5, PullBrings
<1>8. CASE Publish(r)
    <2> DEFINE e == Head(script[r].events)
    <2>1. /\ exec[r] = "running" /\ script[r].events # <<>> /\ pc' = pc /\ exec' = exec
          /\ PublishOn(queue[r].bus, <<e>>) /\ queue[r].bus \in Bus
          /\ script'[r].events = Tail(script[r].events) /\ script'[r].ends = script[r].ends
        BY <1>1, <1>8, ExecutorsBus DEF Publish, callVars, Code
    <2>2. /\ <<e>> \in Seq(AgentExecutionEvent)
          /\ \A x : Quiet(script[r].events, x) => Quiet(Tail(script[r].events), x) /\ Quiet(<<e>>, x)
        <3>1. \A x : e.state \in {NoState, x} => Quiet(<<e>>, x)
            BY DEF Quiet
        <3>2. e \in AgentExecutionEvent => <<e>> \in Seq(AgentExecutionEvent)
            OBVIOUS
        <3> HIDE DEF e
        <3>3. e = Head(script[r].events)
            BY DEF e
        <3> QED
            BY <1>1, <2>1, <3>1, <3>2, <3>3, OrderlyTail
    <2> HIDE DEF e
    <2>3. /\ queue'[r].buf \in {queue[r].buf, queue[r].buf \o <<e>>} /\ queue'[r].last = queue[r].last
          /\ queue[r].loop = "holding" => queue'[r].loop = "holding"
        BY <1>1, <2>1, <2>2, PublishBrings
    <2>4. OnlyReports(r, s) => OnlyReports(r, s)'
        BY <1>1, <2>1, <2>2, <2>3, OrderlyJoin DEF OnlyReports
    <2> QED
        BY <1>2, <2>1, <2>3, <2>4 DEF Closed, Draining, Held
<1>9. CASE Throw(r)
    <2>1. /\ exec[r] = "running" /\ script[r].ends = "throw" /\ pc' = pc
          /\ PublishOn(queue[r].bus, ErrorEvents(r)) /\ queue[r].bus \in Bus
        BY <1>1, <1>9, ExecutorsBus DEF Throw, callVars
    <2>2. queue'[r].last = queue[r].last /\ (queue[r].loop = "holding" => queue'[r].loop = "holding")
        BY <1>1, <2>1, EventsToPublish, PublishBrings
    <2> QED
        BY <1>2, <2>1, <2>2 DEF Closed, OnlyReports, Held
<1>10. /\ ~CancelLoad(r) /\ ~CancelFork(r) /\ ~AgentCancel(r) /\ ~Mark(r) /\ ~Verify(r) /\ ~Subscribe(r)
       /\ ~Snapshot(r) /\ ~Forward(r) /\ ~SaveContext(r) /\ ~Launch(r) /\ ~RepairLoad(r) /\ ~RepairSave(r)
       /\ ~FoldFails(r) /\ ~StoreFails(r) /\ ~Open(r)
    <2>1. /\ ~FoldFails(r) /\ ~StoreFails(r)
        BY DEF FoldFails, StoreFails
    <2> QED
        BY <1>1, <1>2, <2>1 DEF CancelLoad, CancelFork, AgentCancel, Mark, Verify, Subscribe, Snapshot, Forward,
            SaveContext, Launch, RepairLoad, RepairSave, Open, MayStart, WriterOf, At, Send, SendMethod
<1> QED
    BY <1>4, <1>5, <1>6, <1>7, <1>8, <1>9, <1>10 DEF StepOf, Handle, Execute

LEMMA FinalSteps ==
    ASSUME PayloadCarries, HandlerInv, TurnInv, NEW r \in Send, WriterOf(r), OrderOf(r), FinalOf(r), StepOf(r)
    PROVE  FinalOf(r)'
<1> SUFFICES ASSUME failures' = 0
             PROVE  pc'[r] \notin {"failing", "repairing"} /\ (Terminal(row') => Closed(r, row.state)')
    BY DEF FinalOf, Terminal
<1>1. /\ r \in Request /\ pc \in [Request -> PC] /\ failures \in Nat /\ RowOf(r)
      /\ row \in Task \cup {NoTask} /\ NoState \notin TERMINAL_STATE_LIST
    BY RowSteps, ExecutorAssumption DEF HandlerInv, TypeOK, Send, NoState, TERMINAL_STATE_LIST
<1>2. failures = 0 /\ ~FoldFails(r) /\ ~StoreFails(r)
    <2>1. failures' # failures => failures' = failures + 1
        BY DEF StepOf, Handle, Execute, LoadContext, SaveContext, Open, Launch, Await, BreakStream, FoldMessage,
            FoldLoad, FoldSave, Deliver, Finish, RepairLoad, RepairSave, CancelLoad, CancelFork, AgentCancel,
            Mark, Verify, Subscribe, Snapshot, Forward, Publish, Return, Throw, Settle, Disconnect, FoldFails, StoreFails
    <2> QED
        BY <1>1, <2>1 DEF FoldFails, StoreFails
<1>3. pc[r] \notin {"failing", "repairing"}
    BY <1>2 DEF FinalOf
<1>4. pc'[r] \notin {"failing", "repairing"}
    <2>1. pc' = pc \/ \E p \in PC \ {"failing", "repairing"} : pc' = [pc EXCEPT ![r] = p]
        BY <1>1, <1>2, <1>3 DEF StepOf, Handle, Execute, LoadContext, SaveContext, Open, Launch, Await, BreakStream,
            FoldMessage, FoldLoad, FoldSave, Deliver, Finish, RepairLoad, RepairSave, CancelLoad, CancelFork,
            AgentCancel, Mark, Verify, Subscribe, Snapshot, Forward, Publish, Return, Throw, Settle, Disconnect,
            Goto, Refuse, At, PC, callVars
    <2> QED
        BY <1>1, <1>3, <2>1
<1>5. ASSUME Terminal(row') PROVE Closed(r, row.state)'
    <2>1. CASE Terminal(row)
        BY <1>1, <1>2, <2>1, FoldKeeps, ClosedSteps
    <2>2. CASE ~Terminal(row)
        <3>1. row' # row
            BY <1>5, <2>2
        <3>2. pc[r] # "loaded"
            <4> SUFFICES ASSUME pc[r] = "loaded" PROVE FALSE
                OBVIOUS
            <4>1. row \in Task /\ seen[r] = row
                BY <1>1 DEF HandlerInv, StageInv, WriterOf
            <4>2. row' = Extended(r)
                BY <1>1, <3>1 DEF RowOf
            <4>3. row'.state = row.state
                BY <4>1, <4>2 DEF Extended, Task
            <4> QED
                BY <1>5, <2>2, <4>1, <4>3, TaskAssumption DEF Terminal
        <3>3. /\ pc[r] = "folding" /\ pc'[r] = "folded" /\ seen[r] = row
              /\ row' = Apply(row, Held(r), Latest(r)) /\ row' # NoTask
            <4>1. /\ pc[r] = "folding" /\ pc'[r] = "folded"
                  /\ row' = Apply(seen[r], Held(r), Latest(r)) /\ row' # NoTask
                BY <1>1, <1>3, <3>1, <3>2 DEF RowOf
            <4>2. seen[r] = row
                BY <4>1 DEF WriterOf
            <4> QED
                BY <4>1, <4>2
        <3>4. FoldSave(r) \/ Execute(r)
            BY <1>2, <3>3 DEF StepOf, Handle, LoadContext, SaveContext, Open, Launch, Await, BreakStream, FoldMessage,
                FoldLoad, Deliver, Finish, RepairLoad, RepairSave, CancelLoad, CancelFork, AgentCancel, Mark, Verify,
                Subscribe, Snapshot, Forward, Disconnect, MayStart, At
        <3>5. queue' = queue /\ exec' = exec /\ script' = script
            BY <3>3, <3>4 DEF FoldSave, Execute, Publish, Return, Throw, Settle, callVars, busVars, execVars
        <3>6. Held(r) \in AgentExecutionEvent /\ Latest(r) \in Msg \cup {NoMsg} /\ queue[r].loop = "holding"
            BY <1>1, <3>3, HeldFold, TasksTyped DEF HandlerInv, StageInv, Fits
        <3>7. Held(r).state # NoState /\ row'.state = Held(r).state /\ Held(r).state \in TERMINAL_STATE_LIST
            BY <1>1, <1>5, <2>2, <3>3, <3>6, FoldState DEF Terminal
        <3>8. Held(r).kind \in {"task", "statusUpdate"}
            BY <3>6, <3>7 DEF AgentExecutionEvent
        <3>9. CASE Held(r).kind = "statusUpdate"
            BY <3>3, <3>5, <3>6, <3>7, <3>9 DEF Closed, EndsQueue, Held
        <3>10. CASE Held(r).kind = "task"
            <4>1. OnlyReports(r, Held(r).state)
                BY <3>3, <3>7, <3>10 DEF OrderOf, Draining, Closing
            <4> QED
                BY <3>3, <3>5, <3>7, <4>1 DEF Closed, Draining, OnlyReports
        <3> QED
            BY <3>8, <3>9, <3>10
    <2> QED
        BY <2>1, <2>2
<1> QED
    BY <1>4, <1>5

LEMMA FinalStep ==
    ASSUME TakesTurns, NoCancel, FinishesOnce, PayloadCarries, HandlerInv, TurnInv, WriterInv, FinalInv,
           NEW r \in Request, StepOf(r), Method' = Method
    PROVE  FinalInv' /\ (Terminal(row) /\ failures = 0 => row' # NoTask /\ row'.state = row.state)
<1>1. /\ Send' = Send /\ Send \subseteq Request /\ failures \in Nat
      /\ pc \in [Request -> PC] /\ \A c \in Request \ {r} : pc'[c] = pc[c]
    BY MoveStep, ExecutorAssumption DEF HandlerInv, TypeOK, Send, Move
<1>2. CASE r \in Send
    <2>1. WriterOf(r) /\ OrderOf(r) /\ FinalOf(r) /\ RowOf(r)
        BY <1>2, RowSteps DEF WriterInv, FinalInv
    <2>2. OrderOf(r)' /\ FinalOf(r)'
        BY <1>1, <1>2, <2>1, OrderSteps, FinalSteps
    <2>3. ASSUME NEW c \in Send, c # r PROVE OrderOf(c)' /\ FinalOf(c)'
        <3>1. pc'[c] = pc[c] /\ pc[c] \in {"idle", "done"}
            BY <1>1, <1>2, <2>3, OthersRest DEF Over
        <3> QED
            BY <3>1 DEF OrderOf, FinalOf, Draining, Closed
    <2>4. Terminal(row) /\ failures = 0 => row' # NoTask /\ row'.state = row.state
        BY <1>2, <2>1, FoldKeeps
    <2> QED
        BY <1>1, <2>2, <2>3, <2>4 DEF FinalInv
<1>3. CASE r \notin Send
    <2>1. /\ row' = row /\ exec' = exec /\ script' = script
          /\ \A c \in Send : queue'[c] = queue[c] /\ pc'[c] = pc[c]
          /\ failures' = 0 => failures = 0
        BY <1>1, <1>3, WatchStep
    <2>2. ASSUME NEW c \in Send PROVE OrderOf(c)' /\ FinalOf(c)'
        <3>1. OrderOf(c) /\ FinalOf(c)
            BY DEF FinalInv
        <3> QED
            BY <2>1, <3>1 DEF OrderOf, FinalOf, Draining, Closed, OnlyReports, Held, Terminal
    <2> QED
        BY <1>1, <2>1, <2>2 DEF FinalInv, Terminal
<1> QED
    BY <1>2, <1>3

LEMMA FinalInit == Init => FinalInv
BY DEF Init, FinalInv, OrderOf, FinalOf, Draining, Terminal, Send

(***************************************************************************)
(* For any number of sends, resubscriptions and buses, as long as the      *)
(* store rejects nothing: a task that reached a terminal state stays in    *)
(* it, when clients take turns, nobody cancels, and an executor that       *)
(* published its task in a terminal state reports no other afterwards and  *)
(* does not throw. What it publishes after a terminal status update does   *)
(* not matter.                                                             *)
(***************************************************************************)
THEOREM TerminalStays ==
    TakesTurns /\ NoCancel /\ FinishesOnce /\ PayloadCarries /\ Spec => TerminalIsFinal
<1> SUFFICES ASSUME TakesTurns, NoCancel, FinishesOnce, PayloadCarries PROVE Spec => TerminalIsFinal
    OBVIOUS
<1>1. HandlerInv /\ TurnInv /\ WriterInv /\ FinalInv /\ [Next]_vars => FinalInv'
    <2> SUFFICES ASSUME HandlerInv, TurnInv, WriterInv, FinalInv, [Next]_vars PROVE FinalInv'
        OBVIOUS
    <2>1. ASSUME Next PROVE FinalInv'
        BY <2>1, FinalStep DEF Next, StepOf
    <2>2. ASSUME UNCHANGED vars PROVE FinalInv'
        BY <2>2 DEF FinalInv, OrderOf, FinalOf, Draining, Closed, OnlyReports, Held, Terminal, Send,
                    vars, busVars, storeVars, callVars, rmVars, execVars
    <2> QED
        BY <2>1, <2>2
<1>2. HandlerInv /\ TurnInv /\ WriterInv /\ FinalInv /\ [Next]_vars
        => [Terminal(row) /\ failures = 0 => row' # NoTask /\ row'.state = row.state]_vars
    BY FinalStep DEF Next, StepOf
<1> QED
    BY <1>1, <1>2, FinalInit, WriterInvariance, PTL DEF Spec, TerminalIsFinal

-----------------------------------------------------------------------------
(* What a follow-up saved stays. *)

\* the executor of a follow-up leaves the task's history to the store
HistoryLeft ==
    \A r \in FollowUp : \A s \in Script[r] : \A i \in DOMAIN s.events :
        s.events[i].kind = "task" => s.events[i].data.history = <<>>

\* a task event that reaches a follow-up has no history, or that of its context
Carries(r, e) == e.kind = "task" => e.data.history \in {<<>>, context[r]}

Saved(r) == pc[r] \notin {"idle", "loaded", "done"}

\* a follow-up that saved its message knows those that did before
ContextOf(r) ==
    /\ Saved(r) =>
        /\ context[r] # <<>> /\ Mentions(context[r], r)
        /\ \A c \in Request : context[c] # <<>> => IsPrefix(context[c], context[r])
    /\ pc[r] = "attached" => queue[r].buf = <<>>
    /\ Draining(r) =>
        /\ exec[r] = "running" => \A i \in DOMAIN script[r].events :
                script[r].events[i].kind = "task" => script[r].events[i].data.history = <<>>
        /\ \A i \in DOMAIN queue[r].buf : Carries(r, queue[r].buf[i])
        /\ pc[r] \in {"pulled", "folding"} => Carries(r, Held(r))

Remembered(c) == context[c] # <<>> => c \in Continuing /\ row # NoTask /\ IsPrefix(context[c], row.history)

\* no message was saved before the send that begins the task is over
ContextInv ==
    /\ \A c \in Request : Remembered(c)
    /\ \A r \in Send \ FollowUp : pc[r] # "done" => \A c \in Request : context[c] = <<>>
    /\ \A r \in Continuing : ContextOf(r)

LEMMA PrefixFacts ==
    ASSUME NEW a \in Seq(Msg), NEW b \in Seq(Msg)
    PROVE  /\ IsPrefix(a, a)
           /\ \A m \in Msg : IsPrefix(a, b) => IsPrefix(a, Append(b, m))
           /\ \A m : IsPrefix(a, b) /\ Mentions(a, m) => Mentions(b, m)
<1>1. Len(a) \in Nat /\ Len(b) \in Nat
    OBVIOUS
<1>2. IsPrefix(a, a)
    BY <1>1 DEF IsPrefix
<1>3. IsPrefix(a, b) => Len(a) <= Len(b) /\ \A i \in 1..Len(a) : a[i] = b[i]
    <2> SUFFICES ASSUME IsPrefix(a, b), NEW i \in 1..Len(a) PROVE Len(a) <= Len(b) /\ a[i] = b[i]
        BY DEF IsPrefix
    <2>1. SubSeq(a, 1, Len(a))[i] = a[i] /\ (Len(a) <= Len(b) => SubSeq(b, 1, Len(a))[i] = b[i])
        BY <1>1
    <2> QED
        BY <2>1 DEF IsPrefix
<1>4. \A m \in Msg : IsPrefix(a, b) => IsPrefix(a, Append(b, m))
    <2> SUFFICES ASSUME NEW m \in Msg, IsPrefix(a, b) PROVE IsPrefix(a, Append(b, m))
        OBVIOUS
    <2>1. Len(Append(b, m)) = Len(b) + 1 /\ \A i \in 1..Len(b) : Append(b, m)[i] = b[i]
        OBVIOUS
    <2>2. SubSeq(Append(b, m), 1, Len(a)) = SubSeq(b, 1, Len(a))
        <3>1. Len(a) <= Len(b) /\ \A i \in 1..Len(a) : Append(b, m)[i] = b[i]
            BY <1>1, <1>3, <2>1
        <3> QED
            BY <1>1, <2>1, <3>1
    <2> QED
        BY <1>1, <1>3, <2>1, <2>2 DEF IsPrefix
<1>5. \A m : IsPrefix(a, b) /\ Mentions(a, m) => Mentions(b, m)
    BY <1>1, <1>3 DEF Mentions
<1> HIDE DEF IsPrefix
<1> QED
    BY <1>2, <1>4, <1>5

\* What folding leaves of a history that mentions the latest user message.
LEMMA FoldHistory ==
    ASSUME NEW t \in Task, NEW e \in AgentExecutionEvent, NEW l, Mentions(t.history, l), NEW h, Mentions(h, l),
           e.kind = "task" => e.data.history \in {<<>>, h}
    PROVE  \/ Apply(t, e, l).history \in {t.history, h}
           \/ \E m \in Msg : Apply(t, e, l).history = Append(t.history, m)
<1>1. e.kind \in {"message", "artifactUpdate", "task", "statusUpdate"} /\ t # NoTask
    BY TaskAssumption DEF AgentExecutionEvent
<1>2. CASE e.kind = "task"
    BY <1>1, <1>2 DEF Apply, ApplyTaskEvent, WithLatest
<1>3. CASE e.kind = "statusUpdate"
    <2>1. e.data.msg \in Msg \cup {NoMsg}
        BY <1>3, TaskAssumption DEF AgentExecutionEvent, TaskPayload
    <2> QED
        BY <1>1, <1>3, <2>1 DEF Apply, ApplyStatusUpdate, WithUpdate
<1>4. CASE e.kind \in {"message", "artifactUpdate"}
    BY <1>1, <1>4 DEF Apply, ApplyArtifactUpdate
<1> QED
    BY <1>1, <1>2, <1>3, <1>4

\* A request that is done stays so.
LEMMA DoneStays ==
    ASSUME HandlerInv, PayloadCarries, NEW r \in Request, StepOf(r), pc[r] = "done"
    PROVE  pc'[r] = "done" /\ row' = row /\ context' = context
<1>1. /\ ~LoadContext(r) /\ ~SaveContext(r) /\ ~Open(r) /\ ~Launch(r) /\ ~Await(r)
      /\ ~BreakStream(r) /\ ~FoldMessage(r) /\ ~FoldLoad(r) /\ ~FoldSave(r) /\ ~Deliver(r) /\ ~Finish(r)
    BY DEF LoadContext, SaveContext, Open, Launch, Await, BreakStream, FoldMessage, FoldLoad,
           FoldSave, Deliver, Finish, MayStart, At
<1>2. /\ ~RepairLoad(r) /\ ~RepairSave(r) /\ ~CancelLoad(r) /\ ~CancelFork(r) /\ ~AgentCancel(r)
      /\ ~Mark(r) /\ ~Verify(r) /\ ~Subscribe(r) /\ ~Snapshot(r) /\ ~Forward(r)
    BY DEF RepairLoad, RepairSave, CancelLoad, CancelFork, AgentCancel, Mark, Verify, Subscribe,
           Snapshot, Forward, MayStart, At
<1>3. ~Disconnect(r) /\ ~FoldFails(r) /\ ~StoreFails(r)
    BY DEF Disconnect, FoldFails, StoreFails, MayStart, At
<1>4. Execute(r) => pc' = pc /\ row' = row /\ context' = context
    BY DEF Execute, Publish, Return, Throw, Settle, callVars, storeVars
<1> QED
    BY <1>1, <1>2, <1>3, <1>4 DEF StepOf, Handle

\* How a step writes contexts.
LEMMA ContextSteps ==
    ASSUME HandlerInv, NEW r \in Request, StepOf(r)
    PROVE  \/ context' = context
           \/ SaveContext(r)
<1>1. CASE \/ LoadContext(r) \/ Open(r) \/ Launch(r) \/ Await(r) \/ BreakStream(r) \/ FoldMessage(r)
           \/ FoldLoad(r) \/ FoldSave(r) \/ Deliver(r) \/ Finish(r) \/ RepairLoad(r) \/ RepairSave(r)
    BY <1>1 DEF LoadContext, Open, Launch, Await, BreakStream, FoldMessage, FoldLoad, FoldSave, Deliver,
                Finish, RepairLoad, RepairSave
<1>2. CASE \/ CancelLoad(r) \/ CancelFork(r) \/ AgentCancel(r) \/ Mark(r) \/ Verify(r) \/ Subscribe(r)
           \/ Snapshot(r) \/ Forward(r) \/ Disconnect(r) \/ FoldFails(r) \/ StoreFails(r) \/ Execute(r)
    BY <1>2 DEF CancelLoad, CancelFork, AgentCancel, Mark, Verify, Subscribe, Snapshot, Forward, Disconnect,
                FoldFails, StoreFails, Execute, Publish, Return, Throw, Settle, callVars
<1> QED
    BY <1>1, <1>2 DEF StepOf, Handle

\* A message is saved on the row that was loaded.
LEMMA SaveOf ==
    ASSUME HandlerInv, NEW r \in Send, WriterOf(r), SaveContext(r)
    PROVE  /\ r \in Continuing /\ pc[r] = "loaded" /\ pc'[r] = "ready" /\ row \in Task
           /\ row' = Extended(r) /\ row' \in Task /\ row'.history = Append(row.history, r)
           /\ context' = [context EXCEPT ![r] = row'.history]
<1>1. /\ r \in Continuing /\ pc[r] = "loaded" /\ pc'[r] = "ready" /\ seen[r] = row /\ row' = Extended(r)
      /\ context' = [context EXCEPT ![r] = Extended(r).history]
    BY DEF SaveContext, At, Goto, Write, WriterOf, HandlerInv, TypeOK, Send
<1>2. row \in Task /\ r \in Request
    BY <1>1 DEF HandlerInv, TypeOK, StageInv, Send
<1>3. Extended(r) \in Task /\ Extended(r).history = Append(row.history, r)
    BY <1>1, <1>2, TasksTyped, TaskAssumption DEF Extended, Task
<1> QED
    BY <1>1, <1>2, <1>3

\* Whatever a send writes begins with what was saved before.
LEMMA RowRemembers ==
    ASSUME PayloadCarries, HandlerInv, NEW r \in Send, WriterOf(r), RowOf(r), ContextInv,
           NEW c \in Request, context[c] # <<>>
    PROVE  row' # NoTask /\ IsPrefix(context[c], row'.history)
<1>1. /\ row \in Task /\ row # NoTask /\ IsPrefix(context[c], row.history)
      /\ r \in Request /\ context[c] \in Seq(Msg) /\ context[r] \in Seq(Msg) /\ row.history \in Seq(Msg)
      /\ r \in Msg /\ Latest(r) = r
    BY RequestAssumption DEF ContextInv, Remembered, HandlerInv, TypeOK, Send, Task, Latest
<1>2. CASE row' = row
    BY <1>1, <1>2
<1>3. CASE pc[r] = "loaded" /\ row' = Extended(r)
    <2>1. row' \in Task /\ row'.history = Append(row.history, r)
        BY <1>1, <1>3, TasksTyped DEF Extended, Task, WriterOf
    <2> QED
        BY <1>1, <2>1, PrefixFacts, TaskAssumption
<1>4. ASSUME NEW e \in AgentExecutionEvent, Carries(r, e), pc[r] \in {"folding", "repairing"},
             row' = Apply(seen[r], e, Latest(r)), row' # NoTask
      PROVE  row' # NoTask /\ IsPrefix(context[c], row'.history)
    <2>1. r \in Continuing
        BY <1>4 DEF ContextInv, Continuing
    <2>2. /\ context[r] # <<>> /\ Mentions(context[r], r) /\ IsPrefix(context[c], context[r])
          /\ IsPrefix(context[r], row.history) /\ seen[r] = row
        BY <1>1, <1>4, <2>1 DEF ContextInv, ContextOf, Saved, Remembered, WriterOf
    <2>3. Mentions(row.history, r)
        BY <1>1, <2>2, PrefixFacts
    <2>4. \/ row'.history \in {row.history, context[r]}
          \/ \E m \in Msg : row'.history = Append(row.history, m)
        BY <1>1, <1>4, <2>2, <2>3, FoldHistory DEF Carries
    <2>5. \A m \in Msg : IsPrefix(context[c], Append(row.history, m))
        BY <1>1, PrefixFacts
    <2> HIDE DEF IsPrefix
    <2> QED
        BY <1>1, <1>4, <2>2, <2>4, <2>5
<1>5. CASE pc[r] = "folding" /\ row' = Apply(seen[r], Held(r), Latest(r)) /\ row' # NoTask
    <2>1. r \in Continuing
        BY <1>5 DEF ContextInv, Continuing
    <2>2. Held(r) \in AgentExecutionEvent /\ Carries(r, Held(r))
        BY <1>1, <1>5, <2>1, HeldFold DEF ContextInv, ContextOf, Draining
    <2> QED
        BY <1>4, <1>5, <2>2
<1>6. CASE pc[r] = "repairing" /\ row' = Apply(seen[r], Failed, Latest(r)) /\ row' # NoTask
    <2>1. Failed \in AgentExecutionEvent /\ Carries(r, Failed)
        BY <1>1, EventsToPublish DEF Carries, Failed, StatusUpdate
    <2> QED
        BY <1>4, <1>6, <2>1
<1> QED
    BY <1>2, <1>3, <1>5, <1>6 DEF RowOf

\* What reaches a follow-up has no other history than its context's.
LEMMA ContextOfStep ==
    ASSUME HistoryLeft, PayloadCarries, HandlerInv, TurnInv, NEW r \in Continuing, WriterOf(r), ContextInv, StepOf(r)
    PROVE  ContextOf(r)'
<1>1. /\ r \in Request /\ r \in Send /\ r \in FollowUp /\ pc \in [Request -> PC] /\ BusTypeOK
      /\ queue[r].buf \in Seq(AgentExecutionEvent)
      /\ script \in [Request -> Code] /\ script[r].events \in Seq(AgentExecutionEvent)
      /\ context \in [Request -> Seq(Msg)]
      /\ pc[r] \in {"idle", "loaded", "ready", "attached"} => exec[r] = "none"
      /\ exec \in [Request -> {"none", "running", "returned", "settled"}]
      /\ r \in Msg
    BY RequestAssumption DEF HandlerInv, TypeOK, StageInv, TurnInv, Continuing, Send, Code, BusTypeOK, Queue
<1>2. ContextOf(r)
    BY DEF ContextInv
<1>3. CASE SaveContext(r)
    <2>1. /\ pc'[r] = "ready" /\ row' \in Task /\ row'.history = Append(row.history, r) /\ row \in Task
          /\ context' = [context EXCEPT ![r] = row'.history]
        BY <1>1, <1>3, SaveOf
    <2>2. row.history \in Seq(Msg) /\ row'.history \in Seq(Msg)
        BY <2>1 DEF Task
    <2>3. context'[r] # <<>> /\ Mentions(context'[r], r)
        <3>1. context'[r] = Append(row.history, r)
            BY <1>1, <2>1
        <3>2. /\ Append(row.history, r)[Len(row.history) + 1] = r /\ Append(row.history, r) # <<>>
              /\ Len(row.history) + 1 \in 1..Len(Append(row.history, r))
            <4> DEFINE h == row.history
            <4>1. h \in Seq(Msg) /\ Len(h) \in Nat
                BY <2>2
            <4> HIDE DEF h
            <4>2. Len(Append(h, r)) = Len(h) + 1 /\ Append(h, r)[Len(h) + 1] = r /\ Len(h) + 1 \in 1..(Len(h) + 1)
                BY <1>1, <4>1
            <4>3. Append(h, r) # <<>>
                BY <4>1, <4>2
            <4> QED
                BY <4>2, <4>3 DEF h
        <3> QED
            BY <3>1, <3>2 DEF Mentions
    <2>4. ASSUME NEW c \in Request, context'[c] # <<>> PROVE IsPrefix(context'[c], context'[r])
        <3>1. CASE c = r
            BY <1>1, <2>1, <2>2, <3>1, PrefixFacts
        <3>2. CASE c # r
            <4>1. context'[c] = context[c] /\ IsPrefix(context[c], row.history)
                BY <1>1, <2>1, <2>4, <3>2 DEF ContextInv, Remembered
            <4>2. context'[r] = Append(row.history, r) /\ context[c] \in Seq(Msg)
                BY <1>1, <2>1
            <4>3. IsPrefix(context[c], Append(row.history, r))
                BY <1>1, <2>2, <4>1, <4>2, PrefixFacts
            <4> HIDE DEF IsPrefix
            <4> QED
                BY <4>1, <4>2, <4>3
        <3> QED
            BY <3>1, <3>2
    <2> QED
        BY <2>1, <2>3, <2>4 DEF ContextOf, Draining
<1>4. ASSUME ~SaveContext(r), pc'[r] \in {"idle", "loaded", "done"} PROVE ContextOf(r)'
    BY <1>4 DEF ContextOf, Saved, Draining
<1>5. ASSUME context' = context, Saved(r), pc'[r] # "attached", pc'[r] \notin {"draining", "pulled", "folding", "folded"}
      PROVE  ContextOf(r)'
    BY <1>2, <1>5 DEF ContextOf, Saved, Draining
<1>6. ASSUME context' = context, queue'[r].buf = queue[r].buf, queue'[r].last = queue[r].last, script' = script,
             exec'[r] = "running" => exec[r] = "running",
             Saved(r) \/ pc'[r] = pc[r],
             pc'[r] = "attached" => pc[r] = "attached",
             pc'[r] \in {"draining", "pulled", "folding", "folded"} => Draining(r),
             pc'[r] \in {"pulled", "folding"} => pc[r] \in {"pulled", "folding"}
      PROVE  ContextOf(r)'
    BY <1>2, <1>6 DEF ContextOf, Saved, Draining, Held, Carries
<1>7. ~SaveContext(r) => context' = context
    BY <1>1, ContextSteps
<1>8. CASE \/ LoadContext(r) \/ BreakStream(r) \/ Finish(r) \/ RepairSave(r) \/ StoreFails(r) \/ Disconnect(r)
           \/ FoldFails(r) \/ RepairLoad(r)
    <2>1. ~SaveContext(r)
        BY <1>1, <1>8 DEF LoadContext, BreakStream, Finish, RepairSave, StoreFails, Disconnect, FoldFails,
                          RepairLoad, SaveContext, LoopFails, MayStart, Goto, Refuse, At, Continuing, Send, SendMethod
    <2>2. \/ pc'[r] \in {"loaded", "done"}
          \/ pc'[r] \in {"failing", "repairing"} /\ Saved(r)
        BY <1>1, <1>8 DEF LoadContext, BreakStream, Finish, RepairSave, StoreFails, Disconnect, FoldFails,
                          RepairLoad, LoopFails, Goto, Refuse, At, Send, SendMethod, Saved
    <2> QED
        BY <1>4, <1>5, <1>7, <2>1, <2>2
<1>9. CASE FoldMessage(r) \/ FoldLoad(r) \/ FoldSave(r) \/ Deliver(r)
    BY <1>1, <1>6, <1>9 DEF FoldMessage, FoldLoad, FoldSave, Deliver, Goto, At, busVars, execVars, Draining, Saved
<1>10. CASE Return(r) \/ Settle(r)
    <2>1. queue[r].bus \in Bus
        BY <1>1, <1>10, ExecutorsBus DEF Return, Settle
    <2>2. queue'[r].buf = queue[r].buf /\ queue'[r].last = queue[r].last
        BY <1>1, <1>10, <2>1, SettleBrings DEF Return, Settle, busVars
    <2> QED
        BY <1>1, <1>6, <1>10, <2>2 DEF Return, Settle, callVars, Draining
<1>11. CASE Open(r)
    <2>1. /\ pc'[r] \in {"attached", "draining"} /\ Saved(r) /\ context' = context
          /\ pc'[r] = "draining" => script'[r] \in Script[r]
        BY <1>1, <1>11 DEF Open, Launched, Goto, MayStart, At, Saved
    <2>2. queue'[r].buf = <<>>
        BY <1>1, <1>11, RequestAssumption DEF Open, OpenBus, Attach, NewQueue, BusTypeOK
    <2> QED
        BY <1>1, <1>2, <2>1, <2>2 DEF ContextOf, Saved, Draining, HistoryLeft
<1>12. CASE Launch(r)
    <2>1. /\ pc'[r] = "draining" /\ script'[r] \in Script[r] /\ queue'[r].buf = <<>>
          /\ Saved(r) /\ context' = context
        BY <1>1, <1>2, <1>12 DEF Launch, Launched, Goto, At, busVars, ContextOf, Saved
    <2> QED
        BY <1>1, <1>2, <2>1 DEF ContextOf, Saved, Draining, HistoryLeft
<1>13. CASE Await(r)
    <2>1. /\ pc[r] = "draining" /\ Pull(r) /\ script' = script /\ exec' = exec /\ context' = context
          /\ pc'[r] = CASE queue'[r].loop = "holding" -> "pulled"
                        [] queue'[r].loop = "done" -> "drained"
                        [] OTHER -> "draining"
        BY <1>1, <1>13 DEF Await, At, execVars
    <2>2. CASE queue'[r].loop = "done"
        BY <1>5, <2>1, <2>2 DEF Saved
    <2>3. CASE /\ queue[r].buf # <<>> /\ queue'[r].buf = Tail(queue[r].buf)
               /\ queue'[r].last = Head(queue[r].buf) /\ queue'[r].loop = "holding"
        <3>1. /\ \A i \in DOMAIN queue'[r].buf : \E j \in DOMAIN queue[r].buf : queue'[r].buf[i] = queue[r].buf[j]
              /\ 1 \in DOMAIN queue[r].buf /\ queue'[r].last = queue[r].buf[1]
            BY <1>1, <2>3, OrderlyTail
        <3> QED
            BY <1>2, <2>1, <2>3, <3>1 DEF ContextOf, Saved, Draining, Carries, Held
    <2>4. CASE queue[r].buf = <<>> /\ queue'[r].buf = <<>> /\ queue'[r].loop \in {"done", "parked"}
        BY <1>2, <2>1, <2>4 DEF ContextOf, Saved, Draining
    <2> QED
        BY <1>1, <2>1, <2>2, <2>3, <2>4, PullBrings
<1>14. ASSUME NEW es \in Seq(AgentExecutionEvent), exec[r] = "running", queue[r].bus \in Bus,
              PublishOn(queue[r].bus, es), \A i \in DOMAIN es : Draining(r) => Carries(r, es[i]),
              pc' = pc, context' = context,
              exec'[r] = "running" =>
                \A i \in DOMAIN script'[r].events : \E j \in DOMAIN script[r].events : script'[r].events[i] = script[r].events[j]
       PROVE  ContextOf(r)'
    <2>1. queue'[r].buf \in {queue[r].buf, queue[r].buf \o es} /\ queue'[r].last = queue[r].last
        BY <1>1, <1>14, PublishBrings
    <2>2. CASE ~Draining(r)
        BY <1>1, <1>2, <1>14, <2>2 DEF ContextOf, Saved, Draining
    <2>3. CASE Draining(r)
        <3>1. ASSUME NEW i \in DOMAIN queue'[r].buf PROVE Carries(r, queue'[r].buf[i])
            <4>1. \/ \E j \in DOMAIN queue[r].buf : queue'[r].buf[i] = queue[r].buf[j]
                  \/ \E j \in DOMAIN es : queue'[r].buf[i] = es[j]
                <5>1. CASE queue'[r].buf = queue[r].buf
                    BY <5>1
                <5>2. CASE queue'[r].buf = queue[r].buf \o es
                    <6> DEFINE a == queue[r].buf  c == queue'[r].buf
                    <6>1. a \in Seq(AgentExecutionEvent)
                        BY <1>1
                    <6>2. \A k \in DOMAIN (a \o es) :
                            (\E j \in DOMAIN a : (a \o es)[k] = a[j]) \/ (\E j \in DOMAIN es : (a \o es)[k] = es[j])
                        <7> HIDE DEF a
                        <7> QED
                            BY <1>14, <6>1, OrderlyJoin
                    <6>3. c = a \o es /\ i \in DOMAIN c
                        BY <5>2
                    <6> HIDE DEF a, c
                    <6>4. (\E j \in DOMAIN a : c[i] = a[j]) \/ (\E j \in DOMAIN es : c[i] = es[j])
                        BY <6>2, <6>3
                    <6> QED
                        BY <6>4 DEF a, c
                <5> QED
                    BY <2>1, <5>1, <5>2
            <4>2. /\ \A j \in DOMAIN queue[r].buf : Carries(r, queue[r].buf[j])
                  /\ \A j \in DOMAIN es : Carries(r, es[j])
                BY <1>2, <1>14, <2>3 DEF ContextOf
            <4>3. ASSUME NEW e, Carries(r, e), queue'[r].buf[i] = e PROVE Carries(r, queue'[r].buf[i])
                BY <4>3
            <4> QED
                BY <4>1, <4>2, <4>3
        <3>2. exec'[r] = "running" => \A i \in DOMAIN script'[r].events :
                script'[r].events[i].kind = "task" => script'[r].events[i].data.history = <<>>
            BY <1>2, <1>14, <2>3 DEF ContextOf
        <3> QED
            BY <1>2, <1>14, <2>1, <2>3, <3>1, <3>2 DEF ContextOf, Saved, Draining, Held, Carries
    <2> QED
        BY <2>2, <2>3
<1>15. CASE Publish(r)
    <2> DEFINE e == Head(script[r].events)
    <2>1. /\ exec[r] = "running" /\ script[r].events # <<>> /\ pc' = pc /\ context' = context
          /\ PublishOn(queue[r].bus, <<e>>) /\ queue[r].bus \in Bus
          /\ script'[r].events = Tail(script[r].events)
        BY <1>1, <1>15, ExecutorsBus DEF Publish, callVars, Code
    <2>2. /\ e \in AgentExecutionEvent /\ 1 \in DOMAIN script[r].events /\ e = script[r].events[1]
          /\ \A i \in DOMAIN script'[r].events : \E j \in DOMAIN script[r].events : script'[r].events[i] = script[r].events[j]
        BY <1>1, <2>1, OrderlyTail
    <2>3. Draining(r) => Carries(r, e)
        BY <1>2, <2>1, <2>2 DEF ContextOf, Carries
    <2>4. <<e>> \in Seq(AgentExecutionEvent) /\ \A i \in DOMAIN <<e>> : <<e>>[i] = e
        BY <2>2
    <2> HIDE DEF e
    <2> QED
        BY <1>14, <2>1, <2>2, <2>3, <2>4
<1>16. CASE Throw(r)
    <2>1. /\ exec[r] = "running" /\ pc' = pc /\ exec'[r] = "returned" /\ context' = context
          /\ PublishOn(queue[r].bus, ErrorEvents(r)) /\ queue[r].bus \in Bus
        BY <1>1, <1>16, ExecutorsBus DEF Throw, callVars
    <2>2. Draining(r) => Mentions(context[r], r)
        BY <1>2 DEF ContextOf, Draining, Saved
    <2>3. Draining(r) => \A i \in DOMAIN ErrorEvents(r) : Carries(r, ErrorEvents(r)[i])
        BY <2>2 DEF ErrorEvents, Carries, Failed, StatusUpdate, TaskEvent, Carry
    <2>4. ErrorEvents(r) \in Seq(AgentExecutionEvent)
        BY <1>1, EventsToPublish
    <2> QED
        BY <1>14, <2>1, <2>3, <2>4
<1>17. /\ ~CancelLoad(r) /\ ~CancelFork(r) /\ ~AgentCancel(r) /\ ~Mark(r) /\ ~Verify(r) /\ ~Subscribe(r)
       /\ ~Snapshot(r) /\ ~Forward(r)
    BY <1>1 DEF CancelLoad, CancelFork, AgentCancel, Mark, Verify, Subscribe, Snapshot, Forward, WriterOf, At,
                Send, SendMethod
<1> QED
    BY <1>3, <1>8, <1>9, <1>10, <1>11, <1>12, <1>13, <1>15, <1>16, <1>17 DEF StepOf, Handle, Execute

LEMMA ContextStep ==
    ASSUME TakesTurns, NoCancel, HistoryLeft, PayloadCarries, HandlerInv, TurnInv, WriterInv, ContextInv,
           NEW r \in Request, StepOf(r), Method' = Method
    PROVE  ContextInv'
<1>1. /\ Send' = Send /\ Send \subseteq Request /\ Continuing' = Continuing /\ Continuing \subseteq Send
      /\ pc \in [Request -> PC] /\ \A c \in Request \ {r} : pc'[c] = pc[c]
      /\ context \in [Request -> Seq(Msg)]
    BY MoveStep DEF HandlerInv, TypeOK, Send, Continuing, Move
<1>2. CASE r \in Send
    <2>1. WriterOf(r) /\ RowOf(r)
        BY <1>2, RowSteps DEF WriterInv
    <2>2. ASSUME NEW c \in Request, context'[c] # <<>>
          PROVE  c \in Continuing /\ row' # NoTask /\ IsPrefix(context'[c], row'.history)
        <3>1. CASE context'[c] = context[c]
            BY <1>2, <2>1, <2>2, <3>1, RowRemembers DEF ContextInv, Remembered
        <3>2. CASE context'[c] # context[c]
            <4>1. SaveContext(r) /\ c = r
                BY <1>1, <1>2, <2>1, <3>2, ContextSteps, SaveOf
            <4>2. /\ r \in Continuing /\ row' \in Task /\ context'[c] = row'.history
                BY <1>1, <1>2, <2>1, <4>1, SaveOf
            <4>3. row'.history \in Seq(Msg)
                BY <4>2 DEF Task
            <4> QED
                BY <4>1, <4>2, <4>3, PrefixFacts, TaskAssumption
        <3> QED
            BY <3>1, <3>2
    <2>3. ASSUME NEW c \in Send \ FollowUp, pc'[c] # "done" PROVE context' = context
        <3>1. CASE SaveContext(r)
            <4>1. r \in FollowUp /\ pc[r] = "loaded" /\ row # NoTask
                BY <1>2, <2>1, <3>1, SaveOf, TaskAssumption DEF Continuing
            <4>2. pc[c] = "idle"
                BY <1>1, <1>2, <2>3, <4>1, OthersRest DEF Over
            <4> QED
                BY <4>1, <4>2 DEF WriterInv, WriterOf
        <3> QED
            BY <1>1, <1>2, <3>1, ContextSteps
    <2>4. ASSUME NEW c \in Send \ FollowUp, pc'[c] # "done" PROVE pc[c] # "done"
        BY <1>1, <2>4, DoneStays
    <2>5. ASSUME NEW c \in Continuing PROVE ContextOf(c)'
        <3>1. CASE c = r
            BY <2>1, <3>1, ContextOfStep
        <3>2. CASE c # r
            <4>1. pc'[c] \in {"idle", "done"}
                BY <1>1, <1>2, <3>2, OthersRest DEF Over
            <4> QED
                BY <4>1 DEF ContextOf, Saved, Draining
        <3> QED
            BY <3>1, <3>2
    <2>6. \A c \in Send \ FollowUp : pc'[c] # "done" => \A x \in Request : context'[x] = <<>>
        BY <2>3, <2>4 DEF ContextInv
    <2> QED
        BY <1>1, <2>2, <2>5, <2>6 DEF ContextInv, Remembered
<1>3. CASE r \notin Send
    <2>1. /\ row' = row /\ exec' = exec /\ script' = script
          /\ \A c \in Send : queue'[c] = queue[c] /\ pc'[c] = pc[c]
        BY <1>1, <1>3, WatchStep
    <2>2. context' = context
        BY <1>1, <1>3, ContextSteps DEF SaveContext
    <2>3. ASSUME NEW c \in Continuing PROVE ContextOf(c)'
        <3>1. ContextOf(c)
            BY DEF ContextInv
        <3> QED
            BY <1>1, <2>1, <2>2, <3>1 DEF ContextOf, Saved, Draining, Held, Carries
    <2> QED
        BY <1>1, <2>1, <2>2, <2>3 DEF ContextInv, Remembered
<1> QED
    BY <1>2, <1>3

(***************************************************************************)
(* For any number of follow-ups that take turns, executors that fail and   *)
(* store operations that reject: once a follow-up's message is saved, the  *)
(* history it was saved with remains the beginning of the stored one, when *)
(* nobody cancels and no follow-up's executor publishes a task with a      *)
(* history of its own.                                                     *)
(***************************************************************************)
THEOREM HistoryIsKept ==
    TakesTurns /\ NoCancel /\ HistoryLeft /\ PayloadCarries /\ Spec => []FollowUpKept
<1> SUFFICES ASSUME TakesTurns, NoCancel, HistoryLeft, PayloadCarries PROVE Spec => []FollowUpKept
    OBVIOUS
<1>1. Init => ContextInv
    BY DEF Init, ContextInv, Remembered, ContextOf, Saved, Draining, Continuing, Send
<1>2. HandlerInv /\ TurnInv /\ WriterInv /\ ContextInv /\ [Next]_vars => ContextInv'
    <2> SUFFICES ASSUME HandlerInv, TurnInv, WriterInv, ContextInv, [Next]_vars PROVE ContextInv'
        OBVIOUS
    <2>1. ASSUME Next PROVE ContextInv'
        BY <2>1, ContextStep DEF Next, StepOf
    <2>2. ASSUME UNCHANGED vars PROVE ContextInv'
        BY <2>2 DEF ContextInv, Remembered, ContextOf, Saved, Draining, Carries, Held, Continuing, Send,
                    vars, busVars, storeVars, callVars, execVars
    <2> QED
        BY <2>1, <2>2
<1>3. HandlerInv /\ ContextInv => FollowUpKept
    BY RequestAssumption DEF ContextInv, Remembered, FollowUpKept
<1> QED
    BY <1>1, <1>2, <1>3, WriterInvariance, PTL DEF Spec

-----------------------------------------------------------------------------
(* What an executor reported last is stored. *)

\* once an event of s ends its queue, s reports no other terminal state and does not throw
Agreed(s) ==
    \A i \in DOMAIN s.events : EndsQueue(s.events[i]) =>
        /\ s.ends = "return"
        /\ \A j \in DOMAIN s.events :
            j > i /\ s.events[j].state \in TERMINAL_STATE_LIST => s.events[j].state = s.events[i].state

Opens(events) == events # <<>> => events[1].kind \in {"task", "message"}

\* executors say nothing that matters after their queue has ended
HeardOut == \A r \in Request : \A s \in Script[r] : Agreed(s)

\* and begin a task with it or with a message
OpensTask == \A r \in Request \ FollowUp : \A s \in Script[r] : Opens(s.events)

\* of the first n events the last that reports a state reports s
LastIs(events, n, s) ==
    \E i \in 1..n : events[i].state = s /\ \A j \in (i + 1)..n : events[j].state = NoState

Concluded(events, n) ==
    \A s \in TERMINAL_STATE_LIST : LastIs(events, n, s) => row # NoTask /\ row.state = s

Unconcluded(events) == \A s \in TERMINAL_STATE_LIST : ~LastIs(events, Len(events), s)

\* OutcomePersisted is about what comes of this
Clean ==
    /\ failures = 0
    /\ \A r \in Request : Method[r] = "stream" /\ exec[r] # "none"
          => r \notin Disconnecting /\ answer[r].kind # "error"

Active(r) == pc[r] # "idle" /\ ~Over(r)

Events(r) == log[queue[r].bus]

\* how much of the log r has folded, or found there
Folded(r) == queue[r].from + queue[r].got - (IF pc[r] \in {"pulled", "folding"} THEN 1 ELSE 0)

\* r's loop ends at an event, whatever else its executor publishes
Broke(r) ==
    /\ pc[r] \in {"folded", "draining", "drained", "done"}
    /\ Folded(r) > queue[r].from /\ EndsQueue(Events(r)[Folded(r)])

\* otherwise nothing that was published gets lost
ReachOf(r) ==
    /\ pc[r] \in {"attached", "draining", "pulled", "folding", "folded", "drained", "done"}
    /\ exec[r] = "none" => pc[r] = "attached"
    /\ pc[r] = "attached" => Len(Events(r)) = queue[r].from /\ queue[r].got = 0
    /\ pc[r] = "folding" => Held(r).kind # "message"
    /\ ~Broke(r) =>
        /\ CaughtUp(queue[r], Events(r))
        /\ exec[r] # "settled" => ~queue[r].stopped
        /\ pc[r] \in {"drained", "done"} => queue[r].buf = <<>> /\ exec[r] = "settled"

Alike(s, t) == s \in TERMINAL_STATE_LIST => s = t

\* and what is published after such an event adds nothing
AgreeOf(r) ==
    /\ exec[r] = "running" => Agreed(script[r])
    /\ \A i \in (queue[r].from + 1)..Len(Events(r)) : EndsQueue(Events(r)[i]) =>
        /\ \A j \in (i + 1)..Len(Events(r)) : Alike(Events(r)[j].state, Events(r)[i].state)
        /\ exec[r] = "running" =>
             /\ script[r].ends = "return"
             /\ \A j \in DOMAIN script[r].events : Alike(script[r].events[j].state, Events(r)[i].state)

\* a new task's first event is not an update, which would be dropped
BeginOf(r) ==
    r \notin FollowUp =>
        /\ row = NoTask /\ ~Broke(r) => Folded(r) = queue[r].from
        /\ Len(Events(r)) > queue[r].from => Events(r)[queue[r].from + 1].kind \in {"task", "message"}
        /\ exec[r] = "running" /\ Len(Events(r)) = queue[r].from => ~tracker[r].task /\ Opens(script[r].events)

HearOf(r) == ReachOf(r) /\ BeginOf(r)

DrainOf(r) == Concluded(Events(r), Folded(r)) /\ HearOf(r) /\ AgreeOf(r)

OutcomeOf(r) ==
    /\ \A b \in Bus : ~HasQueue(r) \/ b # queue[r].bus => Unconcluded(log[b])
    /\ HasQueue(r) => DrainOf(r)

Stored == \A b \in Bus : Concluded(log[b], Len(log[b]))

\* a send that has ended, with its queue, has heard what there was to hear
Ended == \E r \in Send : pc[r] = "done" /\ HasQueue(r) /\ OutcomeOf(r)

OutcomeInv ==
    /\ \A r \in Send : Method[r] = "stream" /\ pc[r] # "done" => answer[r].kind = "none"
    /\ Clean =>
        /\ (\A r \in Send : ~Active(r)) => Stored \/ Ended
        /\ \A r \in Send : Active(r) => OutcomeOf(r)

LEMMA LastIsFacts ==
    ASSUME NEW a, NEW n \in Nat, NEW s \in TERMINAL_STATE_LIST
    PROVE  /\ LastIs(a, n + 1, s) => a[n + 1].state = s \/ (a[n + 1].state = NoState /\ LastIs(a, n, s))
           /\ n > 0 /\ a[n].state = s => LastIs(a, n, s)
           /\ \A m \in Nat : m <= n /\ LastIs(a, n, s) /\ (\A j \in (m + 1)..n : a[j].state # s) => LastIs(a, m, s)
           /\ \A b : (\A i \in 1..n : a[i] = b[i]) /\ LastIs(a, n, s) => LastIs(b, n, s)
<1>1. ASSUME LastIs(a, n + 1, s), a[n + 1].state # s PROVE a[n + 1].state = NoState /\ LastIs(a, n, s)
    <2>1. PICK i \in 1..(n + 1) : a[i].state = s /\ \A j \in (i + 1)..(n + 1) : a[j].state = NoState
        BY <1>1 DEF LastIs
    <2>2. i \in 1..n /\ n + 1 \in (i + 1)..(n + 1) /\ \A j \in (i + 1)..n : j \in (i + 1)..(n + 1)
        BY <1>1, <2>1
    <2> QED
        BY <2>1, <2>2 DEF LastIs
<1>2. ASSUME n > 0, a[n].state = s PROVE LastIs(a, n, s)
    <2>1. n \in 1..n /\ (n + 1)..n = {}
        BY <1>2
    <2> QED
        BY <1>2, <2>1 DEF LastIs
<1>3. ASSUME NEW m \in Nat, m <= n, LastIs(a, n, s), \A j \in (m + 1)..n : a[j].state # s PROVE LastIs(a, m, s)
    <2>1. PICK i \in 1..n : a[i].state = s /\ \A j \in (i + 1)..n : a[j].state = NoState
        BY <1>3 DEF LastIs
    <2>2. i \in 1..m /\ \A j \in (i + 1)..m : j \in (i + 1)..n
        BY <1>3, <2>1
    <2> QED
        BY <2>1, <2>2 DEF LastIs
<1>4. ASSUME NEW b, \A i \in 1..n : a[i] = b[i], LastIs(a, n, s) PROVE LastIs(b, n, s)
    <2>1. PICK i \in 1..n : a[i].state = s /\ \A j \in (i + 1)..n : a[j].state = NoState
        BY <1>4 DEF LastIs
    <2>2. \A j \in (i + 1)..n : j \in 1..n
        OBVIOUS
    <2> QED
        BY <1>4, <2>1, <2>2 DEF LastIs
<1> QED
    BY <1>1, <1>2, <1>3, <1>4

\* What is known of the queue of a send, and of the log of its bus.
LEMMA QueueFacts ==
    ASSUME HandlerInv, NEW r \in Request, HasQueue(r)
    PROVE  /\ queue[r] \in Queue /\ queue[r].bus \in Bus /\ Events(r) \in Seq(AgentExecutionEvent)
           /\ queue[r].from \in Nat /\ queue[r].got \in Nat /\ queue[r].buf \in Seq(AgentExecutionEvent)
           /\ Follows(queue[r], Events(r)) /\ EndsOnce(queue[r], Events(r))
           /\ r \in listeners[queue[r].bus] => CaughtUp(queue[r], Events(r))
<1>1. queue[r] \in Queue /\ queue[r].bus \in Bus /\ NoBus \notin Bus /\ r \in Consumer
    BY RequestAssumption, NoBusAssumption DEF HandlerInv, TypeOK, BusTypeOK, StageInv, HasQueue
<1> QED
    BY <1>1 DEF HandlerInv, BusInv, BusTypeOK, InOrder, NothingAfterFinal, Events, Queue

\* When a send is over, what it has not heard of changes nothing.
LEMMA AllHeard ==
    ASSUME HandlerInv, NEW r \in Request, HasQueue(r), OutcomeOf(r), pc[r] = "done"
    PROVE  Stored
<1>1. /\ queue[r] \in Queue /\ queue[r].bus \in Bus /\ Events(r) \in Seq(AgentExecutionEvent)
      /\ queue[r].from \in Nat /\ queue[r].got \in Nat /\ queue[r].buf \in Seq(AgentExecutionEvent)
      /\ Follows(queue[r], Events(r))
    BY QueueFacts
<1>2. Concluded(Events(r), Folded(r)) /\ ReachOf(r) /\ AgreeOf(r)
    BY DEF OutcomeOf, DrainOf, HearOf
<1> DEFINE n == Len(Events(r))
           m == queue[r].from + queue[r].got
<1>3. n \in Nat /\ m \in Nat /\ Folded(r) = m /\ m <= n
    BY <1>1 DEF Folded, Follows
<1>4. ASSUME NEW s \in TERMINAL_STATE_LIST, LastIs(Events(r), n, s) PROVE row # NoTask /\ row.state = s
    <2>1. CASE Broke(r)
        <3>1. /\ m > queue[r].from /\ EndsQueue(Events(r)[m])
              /\ m \in (queue[r].from + 1)..n
            BY <1>1, <1>3, <2>1 DEF Broke
        <3>2. \A j \in (m + 1)..n : Alike(Events(r)[j].state, Events(r)[m].state)
            BY <3>1, <1>2 DEF AgreeOf
        <3>3. CASE Events(r)[m].state = s
            <4>1. m > 0
                BY <1>1, <1>3, <3>1
            <4>2. LastIs(Events(r), m, s)
                BY <1>3, <3>3, <4>1, LastIsFacts
            <4> QED
                BY <1>2, <1>3, <4>2 DEF Concluded
        <3>4. CASE Events(r)[m].state # s
            <4>1. \A j \in (m + 1)..n : Events(r)[j].state # s
                BY <3>2, <3>4 DEF Alike
            <4>2. LastIs(Events(r), m, s)
                BY <1>3, <1>4, <4>1, LastIsFacts
            <4> QED
                BY <1>2, <1>3, <4>2 DEF Concluded
        <3> QED
            BY <3>3, <3>4
    <2>2. CASE ~Broke(r)
        <3>1. queue[r].buf = <<>> /\ m + Len(queue[r].buf) = n
            BY <1>2, <2>2 DEF ReachOf, CaughtUp
        <3>2. m = n
            BY <1>3, <3>1
        <3> QED
            BY <1>2, <1>3, <1>4, <3>2 DEF Concluded
    <2> QED
        BY <2>1, <2>2
<1>5. \A b \in Bus : b # queue[r].bus => Unconcluded(log[b])
    BY DEF OutcomeOf
<1> QED
    BY <1>1, <1>4, <1>5 DEF Stored, Concluded, Unconcluded, Events

\* A promise settles once, and a stream's when it ends.
LEMMA AnswersOnce ==
    ASSUME HandlerInv, NEW r \in Request, StepOf(r)
    PROVE  \/ answer' = answer
           \/ /\ \E k, s : Settled(r, k, s)
              /\ Method[r] = "stream" => pc'[r] = "done"
<1>1. pc \in [Request -> PC]
    BY DEF HandlerInv, TypeOK
<1>2. CASE LoadContext(r) \/ BreakStream(r) \/ Finish(r) \/ Disconnect(r) \/ StoreFails(r)
    BY <1>1, <1>2 DEF LoadContext, BreakStream, Finish, Disconnect, StoreFails, Refuse, Goto
<1>3. CASE Deliver(r)
    BY <1>3 DEF Deliver, Result
<1>4. CASE FoldFails(r)
    BY <1>1, <1>4 DEF FoldFails, LoopFails, Refuse, Goto
<1>5. CASE \/ SaveContext(r) \/ Open(r) \/ Launch(r) \/ Await(r) \/ FoldMessage(r) \/ FoldLoad(r) \/ FoldSave(r)
           \/ RepairLoad(r) \/ RepairSave(r) \/ Execute(r)
    BY <1>5 DEF SaveContext, Open, Launch, Await, FoldMessage, FoldLoad, FoldSave, RepairLoad, RepairSave,
                Execute, Publish, Return, Throw, Settle, callVars
<1>6. CASE \/ CancelLoad(r) \/ CancelFork(r) \/ AgentCancel(r) \/ Mark(r) \/ Verify(r) \/ Subscribe(r)
           \/ Snapshot(r) \/ Forward(r)
    BY <1>1, <1>6 DEF CancelLoad, CancelFork, AgentCancel, Mark, Verify, Subscribe, Snapshot, Forward, Refuse, Goto
<1> QED
    BY <1>2, <1>3, <1>4, <1>5, <1>6 DEF StepOf, Handle

\* What spoils the outcome stays.
LEMMA CleanStep ==
    ASSUME PayloadCarries, HandlerInv, NEW r \in Request, StepOf(r), Method' = Method, Clean'
    PROVE  Clean /\ ~FoldFails(r) /\ ~StoreFails(r)
<1>1. failures \in Nat /\ answer \in [Request -> Answer] /\ failures' = 0
    BY ExecutorAssumption DEF HandlerInv, TypeOK, Clean
<1>2. ~FoldFails(r) /\ ~StoreFails(r)
    BY <1>1 DEF FoldFails, StoreFails
<1>3. failures = 0
    <2>1. failures' # failures => failures' = failures + 1
        BY DEF StepOf, Handle, Execute, LoadContext, SaveContext, Open, Launch, Await, BreakStream, FoldMessage,
            FoldLoad, FoldSave, Deliver, Finish, RepairLoad, RepairSave, CancelLoad, CancelFork, AgentCancel,
            Mark, Verify, Subscribe, Snapshot, Forward, Publish, Return, Throw, Settle, Disconnect, FoldFails, StoreFails
    <2> QED
        BY <1>1, <2>1
<1>4. ASSUME NEW c \in Request, exec[c] # "none" PROVE exec'[c] # "none"
    <2>1. \A x \in Request : x # c => [exec EXCEPT ![x] = "running"][c] = exec[c]
        BY DEF HandlerInv, TypeOK
    <2>2. exec \in [Request -> {"none", "running", "returned", "settled"}]
        BY DEF HandlerInv, TypeOK
    <2>3. CASE UNCHANGED execVars \/ Launched(r)
        BY <1>4, <2>2, <2>3 DEF execVars, Launched
    <2>4. CASE Execute(r)
        BY <1>4, <2>2, <2>4 DEF Execute, Publish, Return, Throw, Settle
    <2>5. UNCHANGED execVars \/ Launched(r) \/ Execute(r) \/ AgentCancel(r)
        BY DEF StepOf, Handle, LoadContext, SaveContext, Open, Launch, Await, BreakStream, FoldMessage,
            FoldLoad, FoldSave, Deliver, Finish, RepairLoad, RepairSave, CancelLoad, CancelFork,
            Mark, Verify, Subscribe, Snapshot, Forward, Disconnect, FoldFails, StoreFails
    <2>6. AgentCancel(r) => exec' = exec
        BY DEF AgentCancel
    <2> QED
        BY <1>4, <2>3, <2>4, <2>5, <2>6
<1>5. ASSUME NEW c \in Request, answer[c].kind = "error" PROVE answer'[c].kind = "error"
    <2>1. answer' = answer \/ \E k, s : Settled(r, k, s)
        BY AnswersOnce
    <2> QED
        BY <1>1, <1>5, <2>1 DEF Settled
<1> QED
    BY <1>2, <1>3, <1>4, <1>5 DEF Clean

\* What a pull does to the queue's place in the log.
LEMMA PullMoves ==
    ASSUME BusTypeOK, NEW r \in Request, Pull(r)
    PROVE  /\ queue'[r].bus = queue[r].bus /\ queue'[r].from = queue[r].from /\ log' = log
           /\ \/ /\ queue[r].loop = "holding" /\ EndsQueue(queue[r].last)
                 /\ queue'[r].loop = "done" /\ queue'[r].got = queue[r].got
              \/ /\ ~(queue[r].loop = "holding" /\ EndsQueue(queue[r].last))
                 /\ queue[r].buf # <<>> /\ queue'[r].loop = "holding" /\ queue'[r].stopped = queue[r].stopped
                 /\ queue'[r].got = queue[r].got + 1 /\ queue'[r].buf = Tail(queue[r].buf)
              \/ /\ ~(queue[r].loop = "holding" /\ EndsQueue(queue[r].last))
                 /\ queue[r].buf = <<>> /\ queue'[r].buf = <<>> /\ queue'[r].stopped = queue[r].stopped
                 /\ queue'[r].got = queue[r].got
                 /\ queue'[r].loop = IF queue[r].stopped THEN "done" ELSE "parked"
<1>1. queue[r] \in Queue
    BY RequestAssumption DEF BusTypeOK
<1>2. queue'[r] = (IF queue[r].loop = "holding" /\ EndsQueue(queue[r].last)
                   THEN Leave(queue[r]) ELSE Advance(queue[r])) /\ log' = log
    BY RequestAssumption DEF BusTypeOK, Pull
<1> QED
    BY <1>1, <1>2 DEF Leave, Stop, Resolved, Advance, Queue

LEMMA CaughtUpAfterTail ==
    ASSUME NEW q, NEW p, NEW events, q.from \in Nat, q.got \in Nat, q.buf \in Seq(AgentExecutionEvent),
           CaughtUp(q, events), q.buf # <<>>, p.from = q.from, p.got = q.got + 1, p.buf = Tail(q.buf)
    PROVE  CaughtUp(p, events)
<1>1. Len(p.buf) = Len(q.buf) - 1 /\ Len(q.buf) \in Nat
    OBVIOUS
<1> QED
    BY <1>1 DEF CaughtUp

LEMMA CaughtUpAfterMore ==
    ASSUME NEW q, NEW p, NEW events \in Seq(AgentExecutionEvent), NEW es \in Seq(AgentExecutionEvent),
           q.from \in Nat, q.got \in Nat, q.buf \in Seq(AgentExecutionEvent),
           CaughtUp(q, events), p.from = q.from, p.got = q.got, p.buf = q.buf \o es
    PROVE  CaughtUp(p, events \o es)
<1>1. Len(p.buf) = Len(q.buf) + Len(es) /\ Len(q.buf) \in Nat /\ Len(es) \in Nat
      /\ Len(events \o es) = Len(events) + Len(es)
    OBVIOUS
<1>2. q.from + q.got + Len(q.buf) = Len(events)
    BY DEF CaughtUp
<1>3. \A a, b, c, d \in Nat : a + b + (c + d) = (a + b + c) + d
    OBVIOUS
<1>4. p.from + p.got + Len(p.buf) = Len(events \o es)
    <2>1. p.from + p.got + Len(p.buf) = q.from + q.got + (Len(q.buf) + Len(es))
        BY <1>1
    <2>2. q.from + q.got + (Len(q.buf) + Len(es)) = (q.from + q.got + Len(q.buf)) + Len(es)
        BY <1>1, <1>3
    <2> QED
        BY <1>1, <1>2, <2>1, <2>2
<1> QED
    BY <1>4 DEF CaughtUp

\* A step that neither publishes nor runs anything leaves what the events agree on.
LEMMA AgreeSame ==
    ASSUME NEW r, AgreeOf(r), log' = log, queue'[r].bus = queue[r].bus, queue'[r].from = queue[r].from,
           exec'[r] = "running" => exec[r] = "running" /\ script'[r] = script[r]
    PROVE  AgreeOf(r)'
BY DEF AgreeOf, Events, Agreed

\* A pull moves the loop on, and what it is to hear stays.
LEMMA PullHears ==
    ASSUME HandlerInv, TurnInv, NEW r \in Send, HearOf(r), Await(r)
    PROVE  /\ HasQueue(r)' /\ HearOf(r)' /\ Folded(r)' = Folded(r) /\ Events(r)' = Events(r) /\ log' = log
           /\ queue'[r].bus = queue[r].bus /\ queue'[r].from = queue[r].from
<1>1. /\ r \in Request /\ BusTypeOK /\ pc \in [Request -> PC] /\ HasQueue(r)
      /\ pc[r] = "draining" /\ Pull(r)
      /\ row' = row /\ exec' = exec /\ script' = script /\ tracker' = tracker
      /\ pc'[r] = CASE queue'[r].loop = "holding" -> "pulled"
                    [] queue'[r].loop = "done" -> "drained"
                    [] OTHER -> "draining"
    BY DEF HandlerInv, TypeOK, Send, Await, At, Pull, HasQueue, storeVars, execVars
<1>2. /\ queue[r] \in Queue /\ queue[r].bus \in Bus /\ Events(r) \in Seq(AgentExecutionEvent)
      /\ queue[r].from \in Nat /\ queue[r].got \in Nat /\ queue[r].buf \in Seq(AgentExecutionEvent)
      /\ Follows(queue[r], Events(r)) /\ EndsOnce(queue[r], Events(r))
    BY <1>1, QueueFacts
<1>3. ReachOf(r) /\ BeginOf(r)
    BY DEF HearOf
<1>4. queue'[r].bus = queue[r].bus /\ queue'[r].from = queue[r].from /\ log' = log
    BY <1>1, PullMoves
<1>5. Events(r)' = Events(r) /\ HasQueue(r)'
    BY <1>1, <1>4, PullMoves DEF HasQueue, Events
<1>6. Folded(r) = queue[r].from + queue[r].got
    BY <1>1, <1>2 DEF Folded
<1>7. /\ ~Broke(r) => CaughtUp(queue[r], Events(r)) /\ (exec[r] # "settled" => ~queue[r].stopped)
      /\ exec[r] # "none"
    BY <1>1, <1>3 DEF ReachOf
<1>8. ASSUME ~(queue[r].loop = "holding" /\ EndsQueue(queue[r].last)) PROVE ~Broke(r)
    <2> SUFFICES ASSUME Broke(r) PROVE FALSE
        OBVIOUS
    <2>1. queue[r].got \in 1..queue[r].got /\ EndsQueue(Events(r)[queue[r].from + queue[r].got])
        BY <1>2, <1>6 DEF Broke
    <2>2. queue[r].loop \in {"holding", "done"}
        BY <1>2, <2>1 DEF EndsOnce
    <2>3. queue[r].loop = "holding"
        BY <1>1, <2>2 DEF Pull
    <2> QED
        BY <1>2, <1>8, <2>1, <2>3 DEF Follows
<1>9. CASE /\ queue[r].loop = "holding" /\ EndsQueue(queue[r].last)
           /\ queue'[r].loop = "done" /\ queue'[r].got = queue[r].got
    <2>1. pc'[r] = "drained" /\ Folded(r)' = Folded(r)
        BY <1>1, <1>2, <1>4, <1>6, <1>9 DEF Folded
    <2>2. Broke(r)'
        <3>1. queue[r].got > 0 /\ queue[r].last = Events(r)[queue[r].from + queue[r].got]
            BY <1>2, <1>9 DEF Follows
        <3> QED
            BY <1>2, <1>4, <1>5, <1>6, <1>9, <2>1, <3>1 DEF Broke
    <2>3. ReachOf(r)' /\ BeginOf(r)'
        BY <1>1, <1>3, <1>4, <1>5, <1>7, <2>1, <2>2 DEF ReachOf, BeginOf
    <2> QED
        BY <1>4, <1>5, <2>1, <2>3 DEF HearOf
<1>10. CASE /\ ~(queue[r].loop = "holding" /\ EndsQueue(queue[r].last))
            /\ queue[r].buf # <<>> /\ queue'[r].loop = "holding" /\ queue'[r].stopped = queue[r].stopped
            /\ queue'[r].got = queue[r].got + 1 /\ queue'[r].buf = Tail(queue[r].buf)
    <2>1. pc'[r] = "pulled" /\ Folded(r)' = Folded(r) /\ ~Broke(r)' /\ ~Broke(r)
        BY <1>1, <1>2, <1>4, <1>6, <1>8, <1>10 DEF Folded, Broke
    <2>2. CaughtUp(queue[r], Events(r))'
        <3>1. CaughtUp(queue[r], Events(r))
            BY <1>7, <2>1
        <3> QED
            BY <1>2, <1>4, <1>5, <1>10, <3>1, CaughtUpAfterTail
    <2>3. ReachOf(r)' /\ BeginOf(r)'
        BY <1>1, <1>3, <1>4, <1>5, <1>7, <1>10, <2>1, <2>2 DEF ReachOf, BeginOf
    <2> QED
        BY <1>4, <1>5, <2>1, <2>3 DEF HearOf
<1>11. CASE /\ ~(queue[r].loop = "holding" /\ EndsQueue(queue[r].last))
            /\ queue[r].buf = <<>> /\ queue'[r].buf = <<>> /\ queue'[r].stopped = queue[r].stopped
            /\ queue'[r].got = queue[r].got
            /\ queue'[r].loop = IF queue[r].stopped THEN "done" ELSE "parked"
    <2>1. pc'[r] = (IF queue[r].stopped THEN "drained" ELSE "draining") /\ Folded(r)' = Folded(r) /\ ~Broke(r)
        BY <1>1, <1>2, <1>4, <1>6, <1>8, <1>11 DEF Folded
    <2>2. CaughtUp(queue[r], Events(r))'
        BY <1>2, <1>4, <1>5, <1>7, <1>11, <2>1 DEF CaughtUp
    <2>3. pc'[r] = "drained" => exec[r] = "settled"
        BY <1>7, <2>1
    <2>4. ReachOf(r)' /\ BeginOf(r)'
        BY <1>1, <1>3, <1>4, <1>5, <1>7, <1>11, <2>1, <2>2, <2>3 DEF ReachOf, BeginOf
    <2> QED
        BY <1>4, <1>5, <2>1, <2>4 DEF HearOf
<1> QED
    BY <1>1, <1>9, <1>10, <1>11, PullMoves

LEMMA PassHears ==
    ASSUME HandlerInv, NEW r \in Send, HasQueue(r), HearOf(r), FoldLoad(r) \/ Deliver(r) \/ Finish(r)
    PROVE  /\ HasQueue(r)' /\ HearOf(r)' /\ Folded(r)' = Folded(r) /\ Events(r)' = Events(r)
           /\ queue' = queue /\ log' = log
<1>1. /\ r \in Request /\ pc \in [Request -> PC] /\ Method[r] \in SendMethod
      /\ row' = row /\ exec' = exec /\ script' = script /\ tracker' = tracker /\ queue' = queue /\ log' = log
      /\ \/ pc[r] = "pulled" /\ pc'[r] = "folding"
         \/ pc[r] = "folded" /\ pc'[r] = "draining"
         \/ pc[r] = "drained" /\ pc'[r] = "done"
      /\ pc'[r] = "folding" => Held(r).kind # "message"
    BY DEF HandlerInv, TypeOK, Send, SendMethod, FoldLoad, Deliver, Finish, At, Goto, Refuse,
           busVars, storeVars, execVars
<1>2. HasQueue(r)' /\ Events(r)' = Events(r) /\ Held(r)' = Held(r)
    BY <1>1 DEF HasQueue, Events, Held
<1>3. Folded(r)' = Folded(r) /\ (Broke(r)' <=> Broke(r))
    <2>1. Folded(r)' = Folded(r)
        BY <1>1 DEF Folded
    <2> QED
        BY <1>1, <1>2, <2>1 DEF Broke
<1>4. ReachOf(r)' /\ BeginOf(r)'
    BY <1>1, <1>2, <1>3 DEF HearOf, ReachOf, BeginOf, CaughtUp
<1> QED
    BY <1>1, <1>2, <1>3, <1>4 DEF HearOf

\* The event a send holds is the next of its log to be folded.
LEMMA HeldIsNext ==
    ASSUME HandlerInv, NEW r \in Send, HasQueue(r), HearOf(r), pc[r] \in {"pulled", "folding"}
    PROVE  /\ Folded(r) \in Nat /\ Folded(r) >= queue[r].from /\ queue[r].from \in Nat
           /\ queue[r].from + queue[r].got = Folded(r) + 1
           /\ Folded(r) + 1 <= Len(Events(r))
           /\ Held(r) = Events(r)[Folded(r) + 1] /\ Held(r) \in AgentExecutionEvent
           /\ ~Broke(r) /\ CaughtUp(queue[r], Events(r))
<1>1. r \in Request /\ queue[r].loop = "holding"
    BY DEF Send, HandlerInv, StageInv, Fits
<1>2. /\ queue[r].bus \in Bus /\ Events(r) \in Seq(AgentExecutionEvent)
      /\ queue[r].from \in Nat /\ queue[r].got \in Nat /\ queue[r].buf \in Seq(AgentExecutionEvent)
      /\ Follows(queue[r], Events(r))
    BY <1>1, QueueFacts
<1>3. /\ queue[r].got > 0 /\ Held(r) = Events(r)[queue[r].from + queue[r].got]
      /\ queue[r].from + queue[r].got <= Len(Events(r))
    BY <1>1, <1>2 DEF Follows, Held
<1>4. Folded(r) = queue[r].from + queue[r].got - 1
    BY DEF Folded
<1>5. ~Broke(r) /\ ReachOf(r)
    BY DEF Broke, HearOf
<1>6. Held(r) \in AgentExecutionEvent
    BY <1>1, <1>2, HeldEvent, RequestAssumption DEF HandlerInv, Held
<1>7. Folded(r) \in Nat /\ Folded(r) >= queue[r].from /\ queue[r].from + queue[r].got = Folded(r) + 1
    BY <1>2, <1>3, <1>4
<1> QED
    BY <1>2, <1>3, <1>5, <1>6, <1>7 DEF ReachOf

\* What is folded is the next event, and it leaves a task unless it is a message.
LEMMA FoldHears ==
    ASSUME HandlerInv, NEW r \in Send, WriterOf(r), HasQueue(r), HearOf(r), FoldMessage(r) \/ FoldSave(r)
    PROVE  /\ HasQueue(r)' /\ HearOf(r)' /\ Folded(r)' = Folded(r) + 1 /\ Events(r)' = Events(r)
           /\ queue' = queue /\ log' = log /\ exec' = exec /\ script' = script
           /\ \/ /\ Held(r).kind = "message" /\ Held(r).state = NoState /\ row' = row
                 /\ current' = current /\ final'[r]
              \/ /\ Held(r).kind # "message" /\ row' = Apply(row, Held(r), Latest(r))
                 /\ row' # NoTask /\ current'[r] = row' /\ final' = final
<1> DEFINE e == Held(r)
           n == Folded(r)
<1>1. /\ r \in Request /\ pc \in [Request -> PC]
      /\ final \in [Request -> BOOLEAN] /\ current \in [Request -> Task \cup {NoTask}]
      /\ exec' = exec /\ script' = script /\ tracker' = tracker /\ queue' = queue /\ log' = log
      /\ pc[r] \in {"pulled", "folding"} /\ pc'[r] = "folded"
      /\ row \in Task \cup {NoTask} /\ Latest(r) \in Msg \cup {NoMsg}
    BY TasksTyped DEF HandlerInv, TypeOK, Send, FoldMessage, FoldSave, At, Goto, busVars, execVars
<1>2. HasQueue(r)' /\ Events(r)' = Events(r) /\ ReachOf(r) /\ BeginOf(r)
    BY <1>1 DEF HearOf, HasQueue, Events
<1>3. /\ n \in Nat /\ n >= queue[r].from /\ queue[r].from \in Nat /\ queue[r].from + queue[r].got = n + 1
      /\ n + 1 <= Len(Events(r)) /\ e = Events(r)[n + 1] /\ e \in AgentExecutionEvent
      /\ ~Broke(r) /\ CaughtUp(queue[r], Events(r))
    BY <1>1, HeldIsNext
<1>4. Folded(r)' = n + 1
    <2>1. Folded(r)' = queue[r].from + queue[r].got - 0
        BY <1>1 DEF Folded
    <2>2. queue[r].from \in Nat /\ queue[r].got \in Nat
        BY <1>1, QueueFacts
    <2>3. queue[r].from + queue[r].got - 0 = queue[r].from + queue[r].got
        BY <2>2
    <2> QED
        BY <1>3, <2>1, <2>3
<1>5. Broke(r)' <=> EndsQueue(e)
    <2>1. n + 1 > queue[r].from
        BY <1>3
    <2> QED
        BY <1>1, <1>2, <1>3, <1>4, <2>1 DEF Broke
<1>6. ReachOf(r)'
    BY <1>1, <1>2, <1>3, <1>5 DEF ReachOf, CaughtUp
<1>7. \/ e.kind = "message" /\ e.state = NoState /\ row' = row /\ current' = current /\ final'[r]
      \/ /\ e.kind # "message" /\ row' = Apply(row, e, Latest(r))
         /\ row' # NoTask /\ current'[r] = row' /\ final' = final
    <2>1. CASE FoldMessage(r)
        <3>1. e.kind = "message" => e.state = NoState
            BY <1>3 DEF AgentExecutionEvent
        <3> QED
            BY <1>1, <2>1, <3>1 DEF FoldMessage, storeVars
    <2>2. CASE FoldSave(r)
        <3> DEFINE t == Apply(row, e, Latest(r))
        <3>1. /\ seen[r] = row /\ row' = (IF t # NoTask THEN t ELSE row) /\ current'[r] = t /\ final' = final
            BY <1>1, <2>2 DEF FoldSave, Fold, Write, At, storeVars, WriterOf
        <3>2. pc[r] = "folding" /\ e.kind # "message"
            BY <1>2, <2>2 DEF FoldSave, At, ReachOf
        <3>3. t # NoTask
            <4>1. CASE row # NoTask
                BY <1>1, <1>3, <4>1, FoldState
            <4>2. CASE row = NoTask
                <5>1. r \notin FollowUp /\ n = queue[r].from
                    BY <1>1, <1>2, <1>3, <4>2 DEF WriterOf, BeginOf
                <5>2. Len(Events(r)) > queue[r].from
                    BY <1>1, <1>3, <5>1, QueueFacts
                <5>3. e.kind \in {"task", "message"}
                    BY <1>2, <1>3, <5>1, <5>2 DEF BeginOf
                <5> QED
                    BY <1>1, <1>3, <3>1, <3>2, <5>3, FoldEffect
            <4> QED
                BY <4>1, <4>2
        <3> QED
            BY <3>1, <3>2, <3>3
    <2> QED
        BY <2>1, <2>2
<1>8. BeginOf(r)'
    <2>1. row' = NoTask => EndsQueue(e)
        BY <1>7 DEF EndsQueue
    <2> QED
        BY <1>1, <1>2, <1>5, <2>1 DEF BeginOf
<1> QED
    BY <1>1, <1>2, <1>4, <1>6, <1>7, <1>8 DEF HearOf

LEMMA RanHears ==
    ASSUME HandlerInv, TurnInv, NEW r \in Send, HasQueue(r), HearOf(r), Return(r) \/ Settle(r)
    PROVE  /\ HasQueue(r)' /\ HearOf(r)' /\ Folded(r)' = Folded(r) /\ Events(r)' = Events(r) /\ log' = log
           /\ queue'[r].bus = queue[r].bus /\ queue'[r].from = queue[r].from
           /\ pc' = pc /\ row' = row /\ script' = script /\ exec[r] \in {"running", "returned"}
           /\ exec'[r] \in {"returned", "settled"}
<1>1. /\ r \in Request /\ BusTypeOK /\ queue[r].bus \in Bus /\ queue[r] \in Queue
      /\ exec \in [Request -> {"none", "running", "returned", "settled"}]
    BY QueueFacts DEF HandlerInv, TypeOK, Send
<1>2. /\ log' = log /\ queue'[r].bus = queue[r].bus /\ queue'[r].from = queue[r].from
      /\ queue'[r].got = queue[r].got /\ queue'[r].buf = queue[r].buf /\ HasQueue(r)'
      /\ Held(r)' = Held(r)
      /\ Settle(r) \/ queue'[r].stopped = queue[r].stopped
    <2>1. CASE UNCHANGED busVars
        BY <2>1 DEF busVars, HasQueue, Held
    <2>2. CASE SettleBus(queue[r].bus) /\ Settle(r)
        <3>1. queue'[r] \in {queue[r], Stop(queue[r])} /\ log' = log
            BY <1>1, <2>2, RequestAssumption DEF SettleBus
        <3> QED
            BY <1>1, <2>2, <3>1 DEF Stop, Resolved, Queue, HasQueue, Held
    <2> QED
        BY <2>1, <2>2 DEF Return, Settle
<1>3. /\ pc' = pc /\ row' = row /\ script' = script /\ exec[r] \in {"running", "returned"}
      /\ exec'[r] \in {"returned", "settled"} /\ (Settle(r) => exec'[r] = "settled")
      /\ Return(r) => exec[r] = "running"
    BY <1>1 DEF Return, Settle, callVars, storeVars
<1>4. Events(r)' = Events(r)
    BY <1>2 DEF Events
<1>5. Folded(r)' = Folded(r) /\ (Broke(r)' <=> Broke(r))
    <2>1. Folded(r)' = Folded(r)
        BY <1>2, <1>3 DEF Folded
    <2> QED
        BY <1>2, <1>3, <1>4, <2>1 DEF Broke
<1>6. CaughtUp(queue[r], Events(r))' <=> CaughtUp(queue[r], Events(r))
    BY <1>2, <1>4 DEF CaughtUp
<1>7. ReachOf(r)' /\ BeginOf(r)'
    BY <1>2, <1>3, <1>4, <1>5, <1>6 DEF HearOf, ReachOf, BeginOf
<1> QED
    BY <1>2, <1>3, <1>4, <1>5, <1>7 DEF HearOf

\* What is published is brought to the send, unless its loop ends before.
LEMMA GrowReaches ==
    ASSUME HandlerInv, TurnInv, NEW r \in Send, HasQueue(r), ReachOf(r), exec[r] = "running",
           NEW es \in Seq(AgentExecutionEvent), PublishOn(queue[r].bus, es), pc' = pc, row' = row,
           exec'[r] \in {"running", "returned"}
    PROVE  /\ HasQueue(r)' /\ queue'[r].bus = queue[r].bus /\ queue'[r].from = queue[r].from
           /\ Events(r)' = Events(r) \o es
           /\ Folded(r)' = Folded(r) /\ (Broke(r)' <=> Broke(r))
           /\ ReachOf(r)' /\ Folded(r) \in Int /\ Folded(r) <= Len(Events(r))
           /\ \A b \in Bus : b # queue[r].bus => log'[b] = log[b]
<1>1. /\ r \in Request /\ BusTypeOK /\ pc[r] # "attached"
    BY DEF HandlerInv, TypeOK, Send, TurnInv
<1>2. /\ queue[r] \in Queue /\ queue[r].bus \in Bus /\ Events(r) \in Seq(AgentExecutionEvent)
      /\ queue[r].from \in Nat /\ queue[r].got \in Nat /\ queue[r].buf \in Seq(AgentExecutionEvent)
      /\ Follows(queue[r], Events(r)) /\ NoBus \notin Bus
    BY <1>1, QueueFacts, NoBusAssumption
<1>3. /\ queue'[r] = IF r \in listeners[queue[r].bus] THEN Enqueue(queue[r], es) ELSE queue[r]
      /\ log' = [log EXCEPT ![queue[r].bus] = @ \o es]
    BY <1>1, RequestAssumption DEF PublishOn
<1>4. /\ queue'[r].bus = queue[r].bus /\ queue'[r].from = queue[r].from /\ queue'[r].got = queue[r].got
      /\ queue'[r].stopped = queue[r].stopped /\ HasQueue(r)' /\ Held(r)' = Held(r)
      /\ r \in listeners[queue[r].bus] /\ ~queue[r].stopped => queue'[r].buf = queue[r].buf \o es
    BY <1>2, <1>3 DEF Enqueue, Resolved, Queue, HasQueue, Held
<1>5. Events(r)' = Events(r) \o es /\ \A b \in Bus : b # queue[r].bus => log'[b] = log[b]
    BY <1>1, <1>2, <1>3, <1>4 DEF Events, BusTypeOK
<1>6. Folded(r)' = Folded(r) /\ Folded(r) \in Int /\ Folded(r) <= Len(Events(r))
    <2>1. Folded(r)' = Folded(r)
        BY <1>4 DEF Folded
    <2>2. queue[r].from + queue[r].got + Len(queue[r].buf) <= Len(Events(r)) /\ Len(queue[r].buf) \in Nat
          /\ Len(Events(r)) \in Nat
        BY <1>2 DEF Follows
    <2>3. Folded(r) = queue[r].from + queue[r].got - 0 \/ Folded(r) = queue[r].from + queue[r].got - 1
        BY DEF Folded
    <2> QED
        BY <1>2, <2>1, <2>2, <2>3
<1>7. \A i \in 1..Folded(r) : (Events(r) \o es)[i] = Events(r)[i]
    <2>1. Len(Events(r)) \in Nat /\ \A i \in 1..Len(Events(r)) : (Events(r) \o es)[i] = Events(r)[i]
        BY <1>2
    <2> QED
        BY <1>6, <2>1
<1>8. Broke(r)' <=> Broke(r)
    <2>1. Folded(r) > queue[r].from => Folded(r) \in 1..Folded(r)
        BY <1>2, <1>6
    <2>2. Folded(r) > queue[r].from => Events(r)'[Folded(r)] = Events(r)[Folded(r)]
        BY <1>5, <1>7, <2>1
    <2> QED
        BY <1>4, <1>6, <2>2 DEF Broke
<1>9. ~Broke(r) => CaughtUp(queue[r], Events(r))'
    <2> SUFFICES ASSUME ~Broke(r) PROVE CaughtUp(queue[r], Events(r))'
        OBVIOUS
    <2>1. CaughtUp(queue[r], Events(r)) /\ ~queue[r].stopped
        BY <1>1 DEF ReachOf
    <2>2. r \in listeners[queue[r].bus]
        BY <1>1, <1>2, <2>1 DEF TurnInv
    <2>3. queue'[r].buf = queue[r].buf \o es
        BY <1>4, <2>1, <2>2
    <2> QED
        BY <1>2, <1>4, <1>5, <2>1, <2>3, CaughtUpAfterMore
<1>10. ReachOf(r)'
    BY <1>1, <1>4, <1>8, <1>9 DEF ReachOf
<1> QED
    BY <1>2, <1>4, <1>5, <1>6, <1>8, <1>10

\* What is published next is the first of the executor's script.
LEMMA PublishHears ==
    ASSUME HandlerInv, TurnInv, NEW r \in Send, HasQueue(r), HearOf(r), Publish(r),
           NEW e, e = Head(script[r].events)
    PROVE  /\ HasQueue(r)' /\ HearOf(r)' /\ queue'[r].bus = queue[r].bus /\ queue'[r].from = queue[r].from
           /\ Folded(r)' = Folded(r) /\ Folded(r) \in Int /\ Folded(r) <= Len(Events(r))
           /\ Events(r)' = Events(r) \o <<e>> /\ e \in AgentExecutionEvent
           /\ Len(Events(r)') = Len(Events(r)) + 1 /\ Events(r)'[Len(Events(r)) + 1] = e
           /\ \A i \in 1..Len(Events(r)) : Events(r)'[i] = Events(r)[i]
           /\ \A b \in Bus : b # queue[r].bus => log'[b] = log[b]
           /\ exec[r] = "running" /\ exec' = exec /\ pc' = pc /\ row' = row
           /\ script'[r].events = Tail(script[r].events) /\ script'[r].ends = script[r].ends
           /\ 1 \in DOMAIN script[r].events /\ e = script[r].events[1]
           /\ \A j \in DOMAIN Tail(script[r].events) :
                /\ j \in Nat /\ j + 1 \in DOMAIN script[r].events
                /\ Tail(script[r].events)[j] = script[r].events[j + 1]
<1> DEFINE lg == Events(r)
           n == Len(lg)
<1>1. /\ r \in Request /\ exec[r] = "running" /\ script[r].events # <<>>
      /\ pc' = pc /\ row' = row /\ exec' = exec /\ PublishOn(queue[r].bus, <<e>>)
      /\ tracker' = Track(tracker, queue[r].bus, <<e>>)
      /\ script'[r].events = Tail(script[r].events) /\ script'[r].ends = script[r].ends
      /\ script[r].events \in Seq(AgentExecutionEvent)
    BY DEF Publish, callVars, storeVars, HandlerInv, TypeOK, StageInv, Code, Send
<1>2. /\ e \in AgentExecutionEvent /\ <<e>> \in Seq(AgentExecutionEvent)
      /\ 1 \in DOMAIN script[r].events /\ e = script[r].events[1]
      /\ \A j \in DOMAIN Tail(script[r].events) :
            /\ j \in Nat /\ j + 1 \in DOMAIN script[r].events
            /\ Tail(script[r].events)[j] = script[r].events[j + 1]
    BY <1>1
<1>3. /\ HasQueue(r)' /\ queue'[r].bus = queue[r].bus /\ queue'[r].from = queue[r].from
      /\ Events(r)' = lg \o <<e>>
      /\ Folded(r)' = Folded(r) /\ (Broke(r)' <=> Broke(r)) /\ Folded(r) \in Int /\ Folded(r) <= Len(Events(r))
      /\ ReachOf(r)'
      /\ \A b \in Bus : b # queue[r].bus => log'[b] = log[b]
    BY <1>1, <1>2, GrowReaches DEF HearOf
<1>4. lg \in Seq(AgentExecutionEvent) /\ queue[r].from \in Nat /\ BeginOf(r)
    BY <1>1, QueueFacts DEF HearOf
<1>5. /\ n \in Nat /\ Len(lg \o <<e>>) = n + 1 /\ (lg \o <<e>>)[n + 1] = e
      /\ \A i \in 1..n : (lg \o <<e>>)[i] = lg[i]
    BY <1>2, <1>4
<1> HIDE DEF lg, n
<1>6. BeginOf(r)'
    <2> SUFFICES ASSUME r \notin FollowUp PROVE BeginOf(r)'
        BY DEF BeginOf
    <2>1. Len(Events(r)') = n + 1 /\ n >= queue[r].from
        <3>1. queue[r].from + queue[r].got + Len(queue[r].buf) <= n /\ queue[r].got \in Nat /\ Len(queue[r].buf) \in Nat
            BY <1>1, QueueFacts DEF Follows, n, lg
        <3> QED
            BY <1>3, <1>4, <1>5, <3>1
    <2>2. Events(r)'[queue[r].from + 1].kind \in {"task", "message"}
        <3>1. CASE n > queue[r].from
            <4>1. queue[r].from + 1 \in 1..n
                BY <1>4, <1>5, <3>1
            <4> QED
                BY <1>3, <1>4, <1>5, <3>1, <4>1 DEF BeginOf, lg, n
        <3>2. CASE n = queue[r].from
            <4>1. e.kind \in {"task", "message"}
                BY <1>1, <1>2, <1>4, <3>2 DEF BeginOf, Opens, lg, n
            <4> QED
                BY <1>3, <1>5, <3>2, <4>1
        <3> QED
            BY <1>4, <1>5, <2>1, <3>1, <3>2
    <2>3. Len(Events(r)') # queue'[r].from
        BY <1>3, <1>4, <1>5, <2>1
    <2>4. row' = NoTask /\ ~Broke(r)' => Folded(r)' = queue'[r].from
        BY <1>1, <1>3, <1>4 DEF BeginOf
    <2> QED
        BY <1>3, <2>2, <2>3, <2>4 DEF BeginOf
<1> QED
    BY <1>1, <1>2, <1>3, <1>5, <1>6 DEF HearOf, lg, n

\* What is published when the executor throws is a failure, and begins with it when nothing came before.
LEMMA ThrowHears ==
    ASSUME PayloadCarries, HandlerInv, TurnInv, NEW r \in Send, HasQueue(r), HearOf(r), Throw(r),
           NEW es, es = ErrorEvents(r)
    PROVE  /\ HasQueue(r)' /\ HearOf(r)' /\ queue'[r].bus = queue[r].bus /\ queue'[r].from = queue[r].from
           /\ Folded(r)' = Folded(r) /\ Folded(r) \in Int /\ Folded(r) <= Len(Events(r))
           /\ Len(es) \in Nat \ {0} /\ Len(Events(r)') = Len(Events(r)) + Len(es)
           /\ \A i \in 1..Len(Events(r)) : Events(r)'[i] = Events(r)[i]
           /\ \A i \in (Len(Events(r)) + 1)..(Len(Events(r)) + Len(es)) : Events(r)'[i].state = "FAILED"
           /\ \A b \in Bus : b # queue[r].bus => log'[b] = log[b]
           /\ exec[r] = "running" /\ exec'[r] = "returned" /\ script[r].ends = "throw" /\ pc' = pc /\ row' = row
<1> DEFINE lg == Events(r)
           n == Len(lg)
<1>1. /\ r \in Request /\ exec[r] = "running" /\ script[r].ends = "throw"
      /\ pc' = pc /\ row' = row /\ exec'[r] = "returned" /\ PublishOn(queue[r].bus, es)
      /\ es \in Seq(AgentExecutionEvent)
    BY EventsToPublish DEF Throw, callVars, storeVars, HandlerInv, TypeOK, Send
<1>2. /\ \A i \in 1..Len(es) : es[i].state = "FAILED"
      /\ Len(es) \in Nat \ {0}
      /\ es[1].kind = "task" \/ (Method[r] = "stream" /\ tracker[r].task)
    BY DEF ErrorEvents, Failed, TaskEvent, StatusUpdate
<1>3. /\ HasQueue(r)' /\ queue'[r].bus = queue[r].bus /\ queue'[r].from = queue[r].from
      /\ Events(r)' = lg \o es
      /\ Folded(r)' = Folded(r) /\ (Broke(r)' <=> Broke(r)) /\ Folded(r) \in Int /\ Folded(r) <= Len(Events(r))
      /\ ReachOf(r)'
      /\ \A b \in Bus : b # queue[r].bus => log'[b] = log[b]
    BY <1>1, GrowReaches DEF HearOf
<1>4. lg \in Seq(AgentExecutionEvent) /\ queue[r].from \in Nat /\ BeginOf(r)
    BY <1>1, QueueFacts DEF HearOf
<1>5. /\ n \in Nat /\ Len(lg \o es) = n + Len(es)
      /\ \A i \in 1..n : (lg \o es)[i] = lg[i]
      /\ \A i \in 1..Len(es) : (lg \o es)[n + i] = es[i]
    BY <1>1, <1>4
<1> HIDE DEF lg, n
<1>6. \A i \in (n + 1)..(n + Len(es)) : Events(r)'[i].state = "FAILED"
    <2> TAKE i \in (n + 1)..(n + Len(es))
    <2>1. i - n \in 1..Len(es) /\ i = n + (i - n)
        BY <1>2, <1>5
    <2> QED
        BY <1>2, <1>3, <1>5, <2>1
<1>7. BeginOf(r)'
    <2> SUFFICES ASSUME r \notin FollowUp PROVE BeginOf(r)'
        BY DEF BeginOf
    <2>1. n >= queue[r].from
        <3>1. queue[r].from + queue[r].got + Len(queue[r].buf) <= n /\ queue[r].got \in Nat /\ Len(queue[r].buf) \in Nat
            BY <1>1, QueueFacts DEF Follows, n, lg
        <3> QED
            BY <1>4, <1>5, <3>1
    <2>2. Events(r)'[queue[r].from + 1].kind \in {"task", "message"}
        <3>1. CASE n > queue[r].from
            <4>1. queue[r].from + 1 \in 1..n
                BY <1>4, <1>5, <3>1
            <4> QED
                BY <1>3, <1>4, <1>5, <3>1, <4>1 DEF BeginOf, lg, n
        <3>2. CASE n = queue[r].from
            <4>1. ~tracker[r].task
                BY <1>1, <1>4, <3>2 DEF BeginOf, lg, n
            <4>2. es[1].kind = "task" /\ (lg \o es)[n + 1] = es[1]
                BY <1>2, <1>5, <4>1
            <4> QED
                BY <1>3, <1>5, <3>2, <4>2
        <3> QED
            BY <1>4, <1>5, <2>1, <3>1, <3>2
    <2>3. row' = NoTask /\ ~Broke(r)' => Folded(r)' = queue'[r].from
        BY <1>1, <1>3, <1>4 DEF BeginOf
    <2> QED
        BY <1>1, <1>3, <2>2, <2>3 DEF BeginOf
<1> QED
    BY <1>1, <1>2, <1>3, <1>5, <1>6, <1>7 DEF HearOf, lg, n

\* A queue that is opened has nothing behind it.
LEMMA OpenHears ==
    ASSUME OpensTask, HandlerInv, TurnInv, NEW r \in Send, Open(r)
    PROVE  /\ ~HasQueue(r) /\ HasQueue(r)' /\ HearOf(r)' /\ log' = log /\ row' = row
           /\ Folded(r)' = Len(Events(r)') /\ queue'[r].from = Len(Events(r)') /\ queue'[r].from \in Nat
           /\ queue'[r].got = 0 /\ queue'[r].bus \in Bus /\ exec[r] = "none"
           /\ IF Method[r] = "stream" THEN pc'[r] = "attached" /\ exec'[r] = "none"
              ELSE pc'[r] = "draining" /\ exec'[r] = "running" /\ script'[r] \in Script[r]
<1>1. /\ r \in Request /\ pc \in [Request -> PC] /\ BusTypeOK /\ NoBus \notin Bus
      /\ exec[r] = "none" /\ exec \in [Request -> {"none", "running", "returned", "settled"}]
      /\ script \in [Request -> Code] /\ tracker \in [Request -> Tracker] /\ row' = row
    BY NoBusAssumption DEF HandlerInv, TypeOK, StageInv, Send, TurnInv, Open, At, MayStart, storeVars
<1>2. PICK b \in Bus : OpenBus(r, b)
    BY DEF Open
<1>3. ~HasQueue(r) /\ queue'[r] = NewQueue(b) /\ log' = log
    BY <1>1, <1>2, RequestAssumption DEF OpenBus, Attach, HasQueue, BusTypeOK
<1>4. /\ queue'[r].bus = b /\ queue'[r].from = Len(log[b]) /\ queue'[r].got = 0 /\ queue'[r].buf = <<>>
      /\ ~queue'[r].stopped /\ HasQueue(r)' /\ Events(r)' = log[b] /\ Len(log[b]) \in Nat
    BY <1>1, <1>2, <1>3 DEF NewQueue, HasQueue, Events, BusTypeOK
<1>5. IF Method[r] = "stream" THEN pc'[r] = "attached" /\ exec'[r] = "none"
      ELSE pc'[r] = "draining" /\ exec'[r] = "running" /\ script'[r] \in Script[r] /\ ~tracker'[r].task
    BY <1>1 DEF Open, Launched, NoTracker, Goto, execVars
<1>6. Folded(r)' = Len(log[b]) /\ ~Broke(r)'
    <2>1. Folded(r)' = Len(log[b]) + 0 - 0
        BY <1>4, <1>5 DEF Folded
    <2>2. Folded(r)' = Len(log[b]) /\ ~(Folded(r)' > queue'[r].from)
        BY <1>4, <2>1
    <2> QED
        BY <2>2 DEF Broke
<1>7. ReachOf(r)'
    BY <1>4, <1>5, <1>6 DEF ReachOf, CaughtUp
<1>8. BeginOf(r)'
    BY <1>1, <1>4, <1>5, <1>6 DEF BeginOf, OpensTask
<1> QED
    BY <1>1, <1>2, <1>3, <1>4, <1>5, <1>6, <1>7, <1>8 DEF HearOf

LEMMA LaunchHears ==
    ASSUME OpensTask, HandlerInv, TurnInv, NEW r \in Send, HasQueue(r), HearOf(r), Launch(r)
    PROVE  /\ HasQueue(r)' /\ HearOf(r)' /\ log' = log /\ queue' = queue /\ row' = row /\ Events(r)' = Events(r)
           /\ Folded(r)' = Folded(r) /\ Folded(r) = queue[r].from /\ queue[r].from = Len(Events(r))
           /\ pc'[r] = "draining" /\ exec'[r] = "running" /\ script'[r] \in Script[r]
<1>1. /\ r \in Request /\ pc \in [Request -> PC] /\ exec[r] = "none"
      /\ exec \in [Request -> {"none", "running", "returned", "settled"}]
      /\ script \in [Request -> Code] /\ tracker \in [Request -> Tracker]
      /\ row' = row /\ queue' = queue /\ log' = log /\ pc[r] = "attached"
    BY DEF HandlerInv, TypeOK, StageInv, Send, TurnInv, Launch, At, storeVars, busVars
<1>2. /\ pc'[r] = "draining" /\ exec'[r] = "running" /\ script'[r] \in Script[r] /\ ~tracker'[r].task
    BY <1>1 DEF Launch, Launched, Goto, NoTracker
<1>3. /\ queue[r].from \in Nat /\ ReachOf(r) /\ BeginOf(r) /\ HasQueue(r)' /\ Events(r)' = Events(r)
      /\ Len(Events(r)) = queue[r].from /\ queue[r].got = 0
    BY <1>1, QueueFacts DEF HearOf, ReachOf, HasQueue, Events
<1>4. Folded(r)' = Folded(r) /\ Folded(r) = queue[r].from /\ ~Broke(r)' /\ ~Broke(r)
    BY <1>1, <1>2, <1>3 DEF Folded, Broke
<1>5. ReachOf(r)'
    BY <1>1, <1>2, <1>3, <1>4 DEF ReachOf, CaughtUp
<1>6. BeginOf(r)'
    BY <1>1, <1>2, <1>3, <1>4 DEF BeginOf, OpensTask
<1> QED
    BY <1>1, <1>2, <1>3, <1>4, <1>5, <1>6 DEF HearOf

\* The steps of a send that leave the log alone: what it folds, the row says.
LEMMA StillOutcome ==
    ASSUME HandlerInv, TurnInv, NEW r \in Send, WriterOf(r), HasQueue(r), OutcomeOf(r),
           \/ Await(r) \/ FoldLoad(r) \/ FoldMessage(r) \/ FoldSave(r) \/ Deliver(r) \/ Finish(r)
           \/ Return(r) \/ Settle(r)
    PROVE  OutcomeOf(r)'
<1> DEFINE e == Held(r)
           n == Folded(r)
<1>1. /\ r \in Request /\ HearOf(r) /\ AgreeOf(r) /\ Concluded(Events(r), n)
      /\ row \in Task \cup {NoTask} /\ Latest(r) \in Msg \cup {NoMsg}
      /\ exec \in [Request -> {"none", "running", "returned", "settled"}]
    BY TasksTyped DEF OutcomeOf, DrainOf, Send, HandlerInv, TypeOK
<1>2. ASSUME log' = log, queue'[r].bus = queue[r].bus, queue'[r].from = queue[r].from,
             HasQueue(r)', HearOf(r)', Events(r)' = Events(r), Concluded(Events(r), Folded(r))',
             exec'[r] = "running" => exec[r] = "running" /\ script'[r] = script[r]
      PROVE  OutcomeOf(r)'
    <2>1. AgreeOf(r)'
        BY <1>1, <1>2, AgreeSame
    <2> QED
        BY <1>2, <2>1 DEF OutcomeOf, DrainOf, Unconcluded
<1>3. CASE Await(r)
    <2>1. /\ HasQueue(r)' /\ HearOf(r)' /\ Folded(r)' = Folded(r) /\ Events(r)' = Events(r) /\ log' = log
          /\ queue'[r].bus = queue[r].bus /\ queue'[r].from = queue[r].from
        BY <1>1, <1>3, PullHears
    <2>2. row' = row /\ exec' = exec /\ script' = script
        BY <1>3 DEF Await, storeVars, execVars
    <2> QED
        BY <1>1, <1>2, <2>1, <2>2 DEF Concluded
<1>4. CASE FoldLoad(r) \/ Deliver(r) \/ Finish(r)
    <2>1. /\ HasQueue(r)' /\ HearOf(r)' /\ Folded(r)' = Folded(r) /\ Events(r)' = Events(r)
          /\ queue' = queue /\ log' = log
        BY <1>1, <1>4, PassHears
    <2>2. row' = row /\ exec' = exec /\ script' = script
        BY <1>4 DEF FoldLoad, Deliver, Finish, storeVars, execVars
    <2> QED
        BY <1>1, <1>2, <2>1, <2>2 DEF Concluded
<1>5. CASE Return(r) \/ Settle(r)
    <2>1. /\ HasQueue(r)' /\ HearOf(r)' /\ Folded(r)' = Folded(r) /\ Events(r)' = Events(r) /\ log' = log
          /\ queue'[r].bus = queue[r].bus /\ queue'[r].from = queue[r].from
          /\ row' = row /\ exec'[r] \in {"returned", "settled"}
        BY <1>1, <1>5, RanHears
    <2> QED
        BY <1>1, <1>2, <2>1 DEF Concluded
<1>6. CASE FoldMessage(r) \/ FoldSave(r)
    <2>1. /\ HasQueue(r)' /\ HearOf(r)' /\ Folded(r)' = n + 1 /\ Events(r)' = Events(r)
          /\ queue' = queue /\ log' = log /\ exec' = exec /\ script' = script
          /\ \/ e.kind = "message" /\ e.state = NoState /\ row' = row
             \/ e.kind # "message" /\ row' = Apply(row, e, Latest(r)) /\ row' # NoTask
        BY <1>1, <1>6, FoldHears
    <2>2. n \in Nat /\ e = Events(r)[n + 1] /\ e \in AgentExecutionEvent
        BY <1>1, <1>6, HeldIsNext DEF FoldMessage, FoldSave, At
    <2>3. ASSUME NEW s \in TERMINAL_STATE_LIST, LastIs(Events(r), n + 1, s) PROVE row' # NoTask /\ row'.state = s
        <3>1. e.state = s \/ (e.state = NoState /\ LastIs(Events(r), n, s))
            BY <2>2, <2>3, LastIsFacts
        <3>2. LastIs(Events(r), n, s) => row # NoTask /\ row.state = s
            BY <1>1 DEF Concluded
        <3>3. s # NoState
            BY DEF TERMINAL_STATE_LIST, NoState
        <3>4. CASE e.kind = "message"
            BY <2>1, <3>1, <3>2, <3>3, <3>4
        <3>5. CASE e.kind # "message"
            <4>1. row' = Apply(row, e, Latest(r)) /\ row' # NoTask
                BY <2>1, <3>5
            <4>2. IF e.state = NoState THEN row # NoTask /\ row'.state = row.state ELSE row'.state = e.state
                BY <1>1, <2>2, <4>1, FoldState
            <4> QED
                BY <3>1, <3>2, <3>3, <4>1, <4>2
        <3> QED
            BY <3>4, <3>5
    <2>4. Concluded(Events(r), Folded(r))'
        BY <2>1, <2>3 DEF Concluded
    <2> QED
        BY <1>2, <2>1, <2>4
<1> QED
    BY <1>3, <1>4, <1>5, <1>6

\* What is published later says nothing of what is folded.
LEMMA GrowOutcome ==
    ASSUME NEW r \in Send, HasQueue(r), OutcomeOf(r), row' = row,
           HasQueue(r)', HearOf(r)', AgreeOf(r)', queue'[r].bus = queue[r].bus,
           Folded(r)' = Folded(r), Folded(r) \in Int, Folded(r) <= Len(Events(r)), Len(Events(r)) \in Nat,
           \A i \in 1..Len(Events(r)) : Events(r)'[i] = Events(r)[i],
           \A b \in Bus : b # queue[r].bus => log'[b] = log[b]
    PROVE  OutcomeOf(r)'
<1>1. Concluded(Events(r), Folded(r))'
    <2> SUFFICES ASSUME NEW s \in TERMINAL_STATE_LIST, LastIs(Events(r)', Folded(r), s)
                 PROVE  row # NoTask /\ row.state = s
        BY DEF Concluded
    <2>1. Folded(r) \in Nat
        <3>1. PICK i \in 1..Folded(r) : TRUE
            BY DEF LastIs
        <3> QED
            BY <3>1
    <2>2. \A i \in 1..Folded(r) : i \in 1..Len(Events(r))
        BY <2>1
    <2>3. LastIs(Events(r), Folded(r), s)
        BY <2>1, <2>2, LastIsFacts
    <2> QED
        BY <2>3 DEF OutcomeOf, DrainOf, Concluded
<1> QED
    BY <1>1 DEF OutcomeOf, DrainOf, Unconcluded

LEMMA PublishOutcome ==
    ASSUME HandlerInv, TurnInv, NEW r \in Send, HasQueue(r), OutcomeOf(r), Publish(r)
    PROVE  OutcomeOf(r)'
<1> DEFINE lg == Events(r)
           n == Len(lg)
<1>0. PICK e : e = Head(script[r].events)
    OBVIOUS
<1>1. /\ HearOf(r) /\ AgreeOf(r) /\ lg \in Seq(AgentExecutionEvent) /\ queue[r].from \in Nat
    BY QueueFacts DEF OutcomeOf, DrainOf, Send
<1>2. /\ HasQueue(r)' /\ HearOf(r)' /\ queue'[r].bus = queue[r].bus /\ queue'[r].from = queue[r].from
      /\ Folded(r)' = Folded(r) /\ Folded(r) \in Int /\ Folded(r) <= n
      /\ e \in AgentExecutionEvent
      /\ Len(Events(r)') = n + 1 /\ Events(r)'[n + 1] = e
      /\ \A i \in 1..n : Events(r)'[i] = lg[i]
      /\ \A b \in Bus : b # queue[r].bus => log'[b] = log[b]
      /\ exec[r] = "running" /\ exec' = exec /\ pc' = pc /\ row' = row
      /\ script'[r].events = Tail(script[r].events) /\ script'[r].ends = script[r].ends
      /\ 1 \in DOMAIN script[r].events /\ e = script[r].events[1]
      /\ \A j \in DOMAIN Tail(script[r].events) :
           /\ j \in Nat /\ j + 1 \in DOMAIN script[r].events
           /\ Tail(script[r].events)[j] = script[r].events[j + 1]
    BY <1>0, <1>1, PublishHears
<1>3. n \in Nat
    BY <1>1
<1> HIDE DEF lg, n
<1>4. ASSUME NEW i \in DOMAIN script'[r].events, EndsQueue(script'[r].events[i])
      PROVE  /\ script'[r].ends = "return"
             /\ \A j \in DOMAIN script'[r].events :
                  j > i => Alike(script'[r].events[j].state, script'[r].events[i].state)
    <2>1. Agreed(script[r])
        BY <1>2, <1>1 DEF AgreeOf
    <2>2. /\ i + 1 \in DOMAIN script[r].events /\ script'[r].events[i] = script[r].events[i + 1]
          /\ \A j \in DOMAIN script'[r].events : j > i =>
                /\ j + 1 > i + 1 /\ j + 1 \in DOMAIN script[r].events
                /\ script'[r].events[j] = script[r].events[j + 1]
        BY <1>2
    <2> QED
        BY <1>2, <1>4, <2>1, <2>2 DEF Agreed, Alike
<1>5. ASSUME NEW i \in (queue[r].from + 1)..(n + 1), EndsQueue(Events(r)'[i])
      PROVE  /\ \A j \in (i + 1)..(n + 1) : Alike(Events(r)'[j].state, Events(r)'[i].state)
             /\ script'[r].ends = "return"
             /\ \A j \in DOMAIN script'[r].events : Alike(script'[r].events[j].state, Events(r)'[i].state)
    <2>1. CASE i \in (queue[r].from + 1)..n
        <3>1. Events(r)'[i] = lg[i] /\ EndsQueue(lg[i])
            <4>1. i \in 1..n
                BY <1>1, <1>3, <2>1
            <4> QED
                BY <1>2, <1>3, <1>5, <4>1
        <3>2. /\ \A j \in (i + 1)..n : Alike(lg[j].state, lg[i].state)
              /\ script[r].ends = "return"
              /\ \A j \in DOMAIN script[r].events : Alike(script[r].events[j].state, lg[i].state)
            BY <1>2, <1>1, <2>1, <3>1 DEF AgreeOf, lg, n
        <3>3. ASSUME NEW j \in (i + 1)..(n + 1) PROVE Alike(Events(r)'[j].state, Events(r)'[i].state)
            <4>1. (j \in (i + 1)..n /\ j \in 1..n) \/ j = n + 1
                BY <1>1, <1>3, <2>1
            <4> QED
                BY <1>2, <1>3, <3>1, <3>2, <4>1
        <3> QED
            BY <1>2, <3>1, <3>2, <3>3
    <2>2. CASE i = n + 1
        <3>1. Events(r)'[i] = e /\ (i + 1)..(n + 1) = {}
            BY <1>2, <1>3, <2>2
        <3>2. /\ script[r].ends = "return"
              /\ \A j \in DOMAIN script[r].events : j > 1 => Alike(script[r].events[j].state, e.state)
            BY <1>2, <1>1, <1>5, <3>1 DEF AgreeOf, Agreed, Alike
        <3>3. ASSUME NEW j \in DOMAIN script'[r].events PROVE Alike(script'[r].events[j].state, e.state)
            <4>1. j + 1 \in DOMAIN script[r].events /\ script'[r].events[j] = script[r].events[j + 1] /\ j + 1 > 1
                <5>1. j \in 1..Len(Tail(script[r].events))
                    BY <1>2
                <5> QED
                    BY <1>2, <5>1
            <4> QED
                BY <3>2, <4>1
        <3> QED
            BY <1>2, <3>1, <3>2, <3>3
    <2> QED
        BY <1>1, <1>3, <2>1, <2>2
<1>6. AgreeOf(r)'
    <2>1. Agreed(script[r])'
        BY <1>4 DEF Agreed, Alike
    <2>2. Len(Events(r)') = n + 1
        BY <1>2, <1>3
    <2> QED
        BY <1>2, <1>5, <2>1, <2>2 DEF AgreeOf
<1>7. row' = row /\ n = Len(Events(r))
    BY <1>2 DEF n, lg
<1> QED
    BY <1>2, <1>3, <1>6, <1>7, GrowOutcome DEF lg

LEMMA ThrowOutcome ==
    ASSUME PayloadCarries, HandlerInv, TurnInv, NEW r \in Send, HasQueue(r), OutcomeOf(r), Throw(r)
    PROVE  OutcomeOf(r)'
<1> DEFINE lg == Events(r)
           n == Len(lg)
<1>0. PICK es : es = ErrorEvents(r)
    OBVIOUS
<1>1. /\ HearOf(r) /\ AgreeOf(r) /\ lg \in Seq(AgentExecutionEvent) /\ queue[r].from \in Nat
    BY QueueFacts DEF OutcomeOf, DrainOf, Send
<1>2. /\ HasQueue(r)' /\ HearOf(r)' /\ queue'[r].bus = queue[r].bus /\ queue'[r].from = queue[r].from
      /\ Folded(r)' = Folded(r) /\ Folded(r) \in Int /\ Folded(r) <= n
      /\ Len(es) \in Nat \ {0} /\ Len(Events(r)') = n + Len(es)
      /\ \A i \in 1..n : Events(r)'[i] = lg[i]
      /\ \A i \in (n + 1)..(n + Len(es)) : Events(r)'[i].state = "FAILED"
      /\ \A b \in Bus : b # queue[r].bus => log'[b] = log[b]
      /\ exec[r] = "running" /\ exec'[r] = "returned" /\ script[r].ends = "throw" /\ row' = row
    BY <1>0, <1>1, ThrowHears
<1>3. n \in Nat
    BY <1>1
<1> HIDE DEF lg, n
<1>4. \A i \in (queue[r].from + 1)..n : ~EndsQueue(lg[i])
    <2>1. script[r].ends # "return"
        BY <1>2
    <2> QED
        BY <1>2, <1>1, <2>1 DEF AgreeOf, lg, n
<1>5. AgreeOf(r)'
    <2>1. ASSUME NEW i \in (queue[r].from + 1)..(n + Len(es)), EndsQueue(Events(r)'[i]),
                 NEW j \in (i + 1)..(n + Len(es))
          PROVE  Alike(Events(r)'[j].state, Events(r)'[i].state)
        <3>1. i \notin 1..n
            BY <1>2, <1>1, <1>3, <1>4, <2>1
        <3>2. i \in (n + 1)..(n + Len(es)) /\ j \in (n + 1)..(n + Len(es))
            BY <1>2, <1>1, <1>3, <3>1
        <3> QED
            BY <1>2, <3>2 DEF Alike
    <2>2. Len(Events(r)') = n + Len(es)
        BY <1>2, <1>3
    <2> QED
        BY <1>2, <2>1, <2>2 DEF AgreeOf
<1>6. n = Len(Events(r))
    BY DEF n, lg
<1> QED
    BY <1>2, <1>3, <1>5, <1>6, GrowOutcome DEF lg

LEMMA OpenOutcome ==
    ASSUME OpensTask, HeardOut, HandlerInv, TurnInv, NEW r \in Send, WriterOf(r), Open(r),
           IF pc[r] = "idle" THEN Stored ELSE OutcomeOf(r)
    PROVE  OutcomeOf(r)'
<1>1. /\ r \in Request /\ ~HasQueue(r) /\ HasQueue(r)' /\ HearOf(r)' /\ log' = log /\ row' = row
      /\ Folded(r)' = Len(Events(r)') /\ queue'[r].from = Len(Events(r)') /\ queue'[r].from \in Nat
      /\ queue'[r].bus \in Bus
      /\ exec'[r] = "running" => script'[r] \in Script[r]
    BY OpenHears DEF Send
<1>2. \A x \in Bus : Unconcluded(log[x])
    <2>1. CASE pc[r] = "idle"
        <3>1. row = NoTask
            BY <2>1 DEF WriterOf, Open, At, MayStart
        <3> QED
            BY <2>1, <3>1 DEF Stored, Concluded, Unconcluded
    <2>2. CASE pc[r] # "idle"
        BY <1>1, <2>2 DEF OutcomeOf
    <2> QED
        BY <2>1, <2>2
<1>3. AgreeOf(r)'
    BY <1>1 DEF AgreeOf, HeardOut
<1>4. Concluded(Events(r), Folded(r))'
    BY <1>1, <1>2 DEF Concluded, Unconcluded, Events
<1> QED
    BY <1>1, <1>2, <1>3, <1>4 DEF OutcomeOf, DrainOf, Unconcluded

LEMMA LaunchOutcome ==
    ASSUME OpensTask, HeardOut, HandlerInv, TurnInv, NEW r \in Send, HasQueue(r), OutcomeOf(r), Launch(r)
    PROVE  OutcomeOf(r)'
<1>1. r \in Request /\ HearOf(r) /\ queue[r].from \in Nat
    BY QueueFacts DEF OutcomeOf, DrainOf, Send
<1>2. /\ HasQueue(r)' /\ HearOf(r)' /\ log' = log /\ queue' = queue /\ row' = row /\ Events(r)' = Events(r)
      /\ Folded(r)' = Folded(r) /\ queue[r].from = Len(Events(r)) /\ script'[r] \in Script[r]
    BY <1>1, LaunchHears
<1>3. AgreeOf(r)'
    BY <1>1, <1>2 DEF AgreeOf, HeardOut
<1>4. Concluded(Events(r), Folded(r))'
    BY <1>2 DEF OutcomeOf, DrainOf, Concluded
<1> QED
    BY <1>2, <1>3, <1>4 DEF OutcomeOf, DrainOf, Unconcluded

\* A send's own step leaves it with an outcome to come, or refuses it when there is one.
LEMMA OutcomeSteps ==
    ASSUME OpensTask, HeardOut, PayloadCarries, HandlerInv, TurnInv, NEW r \in Send, WriterOf(r), StepOf(r), Method' = Method,
           Clean, Clean', IF pc[r] = "idle" THEN Stored ELSE OutcomeOf(r),
           Method[r] = "stream" /\ pc[r] # "done" => answer[r].kind = "none"
    PROVE  OutcomeOf(r)' \/ (Stored' /\ pc'[r] = "done" /\ exec'[r] = "none")
<1>1. /\ r \in Request /\ pc \in [Request -> PC] /\ Method[r] \in SendMethod /\ answer \in [Request -> Answer]
      /\ pc[r] \in {"idle", "loaded", "ready", "attached"} => exec[r] = "none"
      /\ Fits(pc[r], queue[r].loop) /\ ~FoldFails(r) /\ ~StoreFails(r)
    BY CleanStep DEF HandlerInv, TypeOK, StageInv, Send, TurnInv
<1>2. pc[r] \in {"pulled", "folding", "folded", "drained", "attached", "failing", "repairing"} => HasQueue(r)
    BY <1>1 DEF Fits, HasQueue
<1>3. HasQueue(r) => pc[r] # "idle"
    BY <1>1 DEF Fits, HasQueue
<1>4. CASE LoadContext(r)
    <2>1. pc[r] = "idle" /\ Stored /\ row' = row /\ log' = log /\ queue' = queue /\ exec'[r] = "none" /\ ~HasQueue(r)
        BY <1>1, <1>3, <1>4 DEF LoadContext, MayStart, At, storeVars, busVars, execVars
    <2>2. CASE row = NoTask \/ Terminal(row)
        BY <1>1, <1>4, <2>1, <2>2 DEF LoadContext, Refuse, Goto, Stored, Concluded
    <2>3. CASE ~(row = NoTask \/ Terminal(row))
        <3>1. \A b \in Bus : Unconcluded(log[b])
            BY <2>1, <2>3 DEF Stored, Concluded, Unconcluded, Terminal
        <3> QED
            BY <2>1, <3>1 DEF OutcomeOf, Unconcluded, HasQueue
    <2> QED
        BY <2>2, <2>3
<1>5. CASE SaveContext(r)
    <2>1. ~HasQueue(r) /\ OutcomeOf(r) /\ log' = log /\ queue' = queue
        BY <1>1, <1>5 DEF SaveContext, At, busVars, Fits, HasQueue
    <2> QED
        BY <2>1 DEF OutcomeOf, Unconcluded, HasQueue
<1>6. CASE Open(r)
    BY <1>6, OpenOutcome
<1>7. CASE Launch(r)
    BY <1>2, <1>7, LaunchOutcome DEF Launch, At
<1>8. CASE Await(r) \/ FoldLoad(r) \/ Deliver(r) \/ Finish(r) \/ FoldMessage(r) \/ FoldSave(r)
    <2>1. HasQueue(r)
        BY <1>2, <1>8 DEF Await, Pull, HasQueue, FoldLoad, Deliver, Finish, FoldMessage, FoldSave, At
    <2> QED
        BY <1>3, <1>8, <2>1, StillOutcome
<1>11. CASE Execute(r)
    <2>1. exec[r] # "none" /\ HasQueue(r)
        BY <1>1, <1>11 DEF Execute, Publish, Return, Throw, Settle, HandlerInv, StageInv, HasQueue
    <2>2. OutcomeOf(r)
        BY <1>3, <2>1
    <2> QED
        BY <1>11, <2>1, <2>2, PublishOutcome, ThrowOutcome, StillOutcome DEF Execute
<1>12. ~BreakStream(r) /\ ~Disconnect(r)
    <2>1. ASSUME BreakStream(r) PROVE FALSE
        <3>1. pc[r] = "pulled" /\ Method[r] = "stream" /\ Refuse(r) /\ exec' = exec
            BY <2>1 DEF BreakStream, Violates, At, execVars
        <3>2. exec[r] # "none"
            BY <1>2, <3>1 DEF OutcomeOf, DrainOf, HearOf, ReachOf
        <3>3. answer'[r].kind = "error"
            BY <1>1, <3>1 DEF Refuse, Settled
        <3> QED
            BY <1>1, <3>1, <3>2, <3>3 DEF Clean
    <2>2. ASSUME Disconnect(r) PROVE FALSE
        <3>1. r \in Disconnecting /\ Method[r] = "stream" /\ pc[r] = "folded"
            BY <1>1, <2>2 DEF Disconnect, At, SendMethod
        <3>2. exec[r] # "none"
            BY <1>2, <3>1 DEF OutcomeOf, DrainOf, HearOf, ReachOf
        <3> QED
            BY <1>1, <3>1, <3>2 DEF Clean
    <2> QED
        BY <2>1, <2>2
<1>13. ~RepairLoad(r) /\ ~RepairSave(r)
    <2>1. pc[r] \notin {"failing", "repairing"}
        BY <1>2, <1>3 DEF OutcomeOf, DrainOf, HearOf, ReachOf
    <2> QED
        BY <2>1 DEF RepairLoad, RepairSave, At
<1>14. /\ ~CancelLoad(r) /\ ~CancelFork(r) /\ ~AgentCancel(r) /\ ~Mark(r) /\ ~Verify(r) /\ ~Subscribe(r)
       /\ ~Snapshot(r) /\ ~Forward(r)
    BY <1>1 DEF CancelLoad, CancelFork, AgentCancel, Mark, Verify, Subscribe, Snapshot, Forward, WriterOf, At, SendMethod
<1> QED
    BY <1>1, <1>4, <1>5, <1>6, <1>7, <1>8, <1>11, <1>12, <1>13, <1>14 DEF StepOf, Handle

LEMMA OutcomeStep ==
    ASSUME TakesTurns, NoCancel, OpensTask, HeardOut, PayloadCarries, HandlerInv, TurnInv, WriterInv, OutcomeInv,
           NEW r \in Request, StepOf(r), Method' = Method
    PROVE  OutcomeInv'
<1>1. /\ Send' = Send /\ Send \subseteq Request /\ pc \in [Request -> PC]
      /\ \A c \in Request \ {r} : pc'[c] = pc[c] /\ exec'[c] = exec[c] /\ answer'[c] = answer[c]
    BY MoveStep, ExecSteps, AnswerSteps DEF HandlerInv, TypeOK, Send, Move, ExecStep, Answers
<1>2. ASSUME NEW c \in Send, Method'[c] = "stream", pc'[c] # "done" PROVE answer'[c].kind = "none"
    <2>1. pc[c] # "done"
        BY <1>1, <1>2, DoneStays
    <2>2. answer'[c] = answer[c]
        BY <1>1, <1>2, AnswersOnce
    <2> QED
        BY <1>2, <2>1, <2>2 DEF OutcomeInv
<1>3. ASSUME Clean', r \in Send
      PROVE  /\ (\A c \in Send : ~Active(c)') => Stored' \/ Ended'
             /\ \A c \in Send : Active(c)' => OutcomeOf(c)'
    <2>1. \A c \in Send : c # r => ~Active(c) /\ ~Active(c)'
        BY <1>1, <1>3, OthersRest DEF Active, Over
    <2>2. Clean /\ WriterOf(r) /\ ~Over(r)
        BY <1>3, CleanStep, OverStays DEF WriterInv
    <2>3. IF pc[r] = "idle" THEN Stored ELSE OutcomeOf(r)
        <3>1. CASE pc[r] = "idle"
            <4>1. \A c \in Send : ~Active(c)
                BY <2>1, <3>1 DEF Active
            <4>2. Ended => Stored
                BY <1>1, AllHeard DEF Ended
            <4> QED
                BY <2>2, <3>1, <4>1, <4>2 DEF OutcomeInv
        <3>2. CASE pc[r] # "idle"
            BY <1>3, <2>2, <3>2 DEF OutcomeInv, Active
        <3> QED
            BY <3>1, <3>2
    <2>4. OutcomeOf(r)' \/ (Stored' /\ pc'[r] = "done" /\ exec'[r] = "none")
        BY <1>3, <2>2, <2>3, OutcomeSteps DEF OutcomeInv
    <2>5. CASE Stored' /\ pc'[r] = "done" /\ exec'[r] = "none"
        <3>1. ~Active(r)'
            BY <2>5 DEF Active, Over
        <3> QED
            BY <2>1, <2>5, <3>1
    <2>6. CASE OutcomeOf(r)'
        <3>1. ~HasQueue(r)' => Stored'
            BY <2>6 DEF OutcomeOf, Stored, Concluded, Unconcluded
        <3>2. HasQueue(r)' /\ ~Active(r)' => Ended'
            <4>1. HasQueue(r)' => pc'[r] # "idle"
                BY <2>6 DEF OutcomeOf, DrainOf, HearOf, ReachOf
            <4> QED
                BY <1>1, <1>3, <2>6, <4>1 DEF Active, Over, Ended
        <3> QED
            BY <1>3, <2>1, <2>6, <3>1, <3>2
    <2> QED
        BY <2>4, <2>5, <2>6
<1>4. ASSUME Clean', r \notin Send
      PROVE  /\ (\A c \in Send : ~Active(c)') => Stored' \/ Ended'
             /\ \A c \in Send : Active(c)' => OutcomeOf(c)'
    <2>1. /\ row' = row /\ exec' = exec /\ script' = script /\ tracker' = tracker /\ log' = log
          /\ \A c \in Send : queue'[c] = queue[c] /\ pc'[c] = pc[c]
        BY <1>1, <1>4, WatchStep
    <2>2. Clean
        BY <1>4, CleanStep
    <2>3. \A c \in Send : (Active(c)' <=> Active(c)) /\ (HasQueue(c)' <=> HasQueue(c))
        BY <2>1 DEF Active, Over, HasQueue
    <2>4. ASSUME NEW c \in Send, OutcomeOf(c) PROVE OutcomeOf(c)'
        <3>1. Events(c)' = Events(c) /\ Folded(c)' = Folded(c)
            BY <2>1 DEF Events, Folded
        <3>2. Broke(c)' <=> Broke(c)
            BY <2>1, <3>1 DEF Broke
        <3>3. HasQueue(c) => Concluded(Events(c), Folded(c))' /\ ReachOf(c)'
            BY <2>1, <2>4, <3>1, <3>2 DEF OutcomeOf, DrainOf, HearOf, Concluded, ReachOf, CaughtUp, Held
        <3>4. HasQueue(c) => AgreeOf(c)' /\ BeginOf(c)'
            BY <2>1, <2>4, <3>1, <3>2 DEF OutcomeOf, DrainOf, HearOf, AgreeOf, Agreed, BeginOf
        <3> QED
            BY <2>1, <2>3, <2>4, <3>3, <3>4 DEF OutcomeOf, DrainOf, HearOf, Unconcluded
    <2>5. (Stored => Stored') /\ (Ended => Ended')
        BY <1>1, <2>1, <2>3, <2>4 DEF Stored, Concluded, Ended
    <2> QED
        BY <2>2, <2>3, <2>4, <2>5 DEF OutcomeInv
<1> QED
    BY <1>1, <1>2, <1>3, <1>4 DEF OutcomeInv

LEMMA OutcomeInit == Init => OutcomeInv
<1> SUFFICES ASSUME Init PROVE OutcomeInv
    OBVIOUS
<1>1. \A r \in Send : ~Active(r) /\ answer[r].kind = "none"
    BY DEF Init, Active, Send, NoAnswer
<1>2. \A b \in Bus : log[b] = <<>>
    BY DEF Init, BusInit
<1>3. Stored
    BY <1>2 DEF Stored, Concluded, LastIs
<1> QED
    BY <1>1, <1>3 DEF OutcomeInv

LEMMA OutcomeUnchanged == OutcomeInv /\ UNCHANGED vars => OutcomeInv'
BY DEF OutcomeInv, Clean, Active, Over, Send, Stored, Ended, OutcomeOf, DrainOf, HearOf, Held, Concluded, Unconcluded, ReachOf,
       AgreeOf, Agreed, BeginOf, CaughtUp, Broke, Folded, Events, HasQueue,
       vars, busVars, storeVars, callVars, rmVars, execVars

(***************************************************************************)
(* What an executor reported last is in the store once everything is over, *)
(* for any number of sends, resubscriptions and buses: when clients take   *)
(* turns, nobody cancels, the executor of a new task begins with the task  *)
(* or a message, and an executor reports no other terminal state, and does *)
(* not throw, after an event its queue ends with. What reaches the row is  *)
(* the whole of a bus's log, or all of it that matters.                    *)
(***************************************************************************)
THEOREM OutcomeIsStored ==
    TakesTurns /\ NoCancel /\ OpensTask /\ HeardOut /\ PayloadCarries /\ Spec => []OutcomePersisted
<1> SUFFICES ASSUME TakesTurns, NoCancel, OpensTask, HeardOut, PayloadCarries PROVE Spec => []OutcomePersisted
    OBVIOUS
<1>1. HandlerInv /\ TurnInv /\ WriterInv /\ OutcomeInv /\ [Next]_vars => OutcomeInv'
    <2> SUFFICES ASSUME HandlerInv, TurnInv, WriterInv, OutcomeInv, [Next]_vars PROVE OutcomeInv'
        OBVIOUS
    <2>1. ASSUME Next PROVE OutcomeInv'
        BY <2>1, OutcomeStep DEF Next, StepOf
    <2> QED
        BY <2>1, OutcomeUnchanged
<1>2. HandlerInv /\ OutcomeInv => OutcomePersisted
    <2> SUFFICES ASSUME HandlerInv, OutcomeInv, NEW b \in created, Clean,
                        \A r \in Request : pc[r] \in {"idle", "done"} /\ exec[r] \in {"none", "settled"},
                        LastState(log[b]) \in TERMINAL_STATE_LIST
                 PROVE  row # NoTask /\ row.state = LastState(log[b])
        BY DEF OutcomePersisted, Clean
    <2>1. b \in Bus /\ log[b] \in Seq(AgentExecutionEvent) /\ Send \subseteq Request
        BY DEF HandlerInv, TypeOK, BusTypeOK, Send
    <2>2. Stored
        <3>1. \A r \in Send : ~Active(r)
            BY <2>1 DEF Active, Over
        <3>2. Ended => Stored
            BY <2>1, AllHeard DEF Ended
        <3> QED
            BY <3>1, <3>2 DEF OutcomeInv
    <2>3. LastIs(log[b], Len(log[b]), LastState(log[b]))
        <3>1. LastState(log[b]) # NoState
            BY DEF TERMINAL_STATE_LIST, NoState
        <3>2. PICK i \in DOMAIN log[b] : /\ LastState(log[b]) = log[b][i].state
                                         /\ \A j \in DOMAIN log[b] : j > i => log[b][j].state = NoState
            BY <2>1, <3>1, LastStateIs
        <3>3. i \in 1..Len(log[b]) /\ \A j \in (i + 1)..Len(log[b]) : j \in DOMAIN log[b] /\ j > i
            BY <2>1
        <3> QED
            BY <3>2, <3>3 DEF LastIs
    <2> QED
        BY <2>1, <2>2, <2>3 DEF Stored, Concluded
<1> QED
    BY <1>1, <1>2, OutcomeInit, WriterInvariance, PTL DEF Spec

-----------------------------------------------------------------------------
(* What a send is answered with. *)

\* an event that a caller can be answered for
Telling(e) == e.kind = "message" \/ e.state # NoState

\* an executor that returns has replied or reported a state, and a bus is kept for a question only
Reports ==
    /\ \A r \in Request : \A s \in Script[r] :
        s.ends = "return" => \E i \in DOMAIN s.events : Telling(s.events[i])
    /\ keepBusAliveStates \subseteq INTERRUPTED_STATE_LIST

Told(r) == \E i \in (queue[r].from + 1)..Len(Events(r)) : Telling(Events(r)[i])

\* of the events after the first m, up to the n-th, the last that reports a state reports s
LastSince(events, m, n, s) ==
    \E i \in (m + 1)..n : events[i].state = s /\ \A j \in (i + 1)..n : events[j].state = NoState

\* there will be something to answer with
ToldOf(r) ==
    /\ exec[r] = "running" =>
        script[r].ends = "throw" \/ Told(r) \/ \E i \in DOMAIN script[r].events : Telling(script[r].events[i])
    /\ exec[r] \in {"returned", "settled"} => Told(r)

\* and what was folded can be
KnowsOf(r) ==
    /\ current[r] # NoTask => row = current[r]
    /\ Folded(r) > queue[r].from =>
        /\ final[r] \/ current[r] # NoTask
        /\ Events(r)[Folded(r)].kind = "message" => final[r]
        /\ Method[r] = "nonblocking" /\ pc[r] # "folded" => answer[r].kind # "none"
    /\ \A s \in TaskState : LastSince(Events(r), queue[r].from, Folded(r), s) =>
        current[r] # NoTask /\ current[r].state = s

\* the executor left it there, and nobody publishes on its bus any more
Left(r, s) ==
    /\ pc[r] = "done" /\ exec[r] = "settled" /\ HasQueue(r) /\ queue[r].bus # registered
    /\ s = LastState(Events(r))

ReplyOf(r) ==
    /\ pc[r] # "done" =>
        /\ pc[r] # "attached"
        /\ ~HasQueue(r) => current[r] = NoTask
        /\ HasQueue(r) => HearOf(r) /\ ToldOf(r) /\ KnowsOf(r)
    /\ Method[r] = "blocking" /\ answer[r].kind = "task" =>
        answer[r].state \in TERMINAL_STATE_LIST \cup INTERRUPTED_STATE_LIST \/ Left(r, answer[r].state)

\* how many events the pattern of a stream has been advanced by
Passed(r) == queue[r].got - (IF pc[r] = "pulled" THEN 1 ELSE 0)

Misopens(r) ==
    \E i \in (queue[r].from + 1)..Len(Events(r)) :
        ~((i = queue[r].from + 1) <=> (Events(r)[i].kind \in {"task", "message"}))

StreamOf(r) ==
    /\ pc[r] # "done" /\ ~HasQueue(r) => pattern[r] = "undetermined"
    /\ pc[r] # "done" /\ HasQueue(r) =>
        /\ pattern[r] = "undetermined" <=> Passed(r) = 0
        /\ pattern[r] = "message-only" => Events(r)[queue[r].from + 1].kind = "message"
    /\ answer[r].kind = "error" /\ exec[r] # "none" => HasQueue(r) /\ Misopens(r)

RepliesTo(r) ==
    /\ answer[r].kind = "error" => pc[r] = "done"
    /\ sent[r] => answer[r].kind # "none"
    /\ IF Method[r] = "stream" THEN StreamOf(r)
       ELSE ReplyOf(r) /\ (answer[r].kind = "error" => exec[r] = "none")

RepliesInv == failures = 0 => \A r \in Send : RepliesTo(r)

LEMMA LastSinceFacts ==
    ASSUME NEW a, NEW m \in Nat, NEW n \in Nat, NEW s, m <= n
    PROVE  /\ LastSince(a, m, n + 1, s) =>
                a[n + 1].state = s \/ (a[n + 1].state = NoState /\ LastSince(a, m, n, s))
           /\ m < n /\ a[n].state = s => LastSince(a, m, n, s)
           /\ \A b : (\A i \in 1..n : a[i] = b[i]) /\ LastSince(b, m, n, s) => LastSince(a, m, n, s)
           /\ ~LastSince(a, m, m, s)
<1>1. ASSUME LastSince(a, m, n + 1, s), a[n + 1].state # s PROVE a[n + 1].state = NoState /\ LastSince(a, m, n, s)
    <2>1. PICK i \in (m + 1)..(n + 1) : a[i].state = s /\ \A j \in (i + 1)..(n + 1) : a[j].state = NoState
        BY <1>1 DEF LastSince
    <2>2. i \in (m + 1)..n /\ n + 1 \in (i + 1)..(n + 1) /\ \A j \in (i + 1)..n : j \in (i + 1)..(n + 1)
        BY <1>1, <2>1
    <2> QED
        BY <2>1, <2>2 DEF LastSince
<1>2. ASSUME m < n, a[n].state = s PROVE LastSince(a, m, n, s)
    <2>1. n \in (m + 1)..n /\ (n + 1)..n = {}
        BY <1>2
    <2> QED
        BY <1>2, <2>1 DEF LastSince
<1>3. ASSUME NEW b, \A i \in 1..n : a[i] = b[i], LastSince(b, m, n, s) PROVE LastSince(a, m, n, s)
    <2>1. PICK i \in (m + 1)..n : b[i].state = s /\ \A j \in (i + 1)..n : b[j].state = NoState
        BY <1>3 DEF LastSince
    <2>2. i \in 1..n /\ \A j \in (i + 1)..n : j \in 1..n
        OBVIOUS
    <2> QED
        BY <1>3, <2>1, <2>2 DEF LastSince
<1>4. ~LastSince(a, m, m, s)
    <2>1. (m + 1)..m = {}
        OBVIOUS
    <2> QED
        BY <2>1 DEF LastSince
<1> QED
    BY <1>1, <1>2, <1>3, <1>4

LEMMA FoldedPlace ==
    ASSUME HandlerInv, NEW r \in Request, HasQueue(r)
    PROVE  /\ Folded(r) \in Nat /\ queue[r].from \in Nat /\ Len(Events(r)) \in Nat
           /\ queue[r].from <= Folded(r) /\ Folded(r) <= Len(Events(r))
<1>1. /\ Events(r) \in Seq(AgentExecutionEvent) /\ queue[r].from \in Nat /\ queue[r].got \in Nat
      /\ queue[r].buf \in Seq(AgentExecutionEvent) /\ Follows(queue[r], Events(r))
    BY QueueFacts
<1>2. queue[r].from + queue[r].got + Len(queue[r].buf) <= Len(Events(r)) /\ Len(queue[r].buf) \in Nat
      /\ Len(Events(r)) \in Nat
    BY <1>1 DEF Follows
<1>3. CASE pc[r] \in {"pulled", "folding"}
    <2>1. queue[r].loop = "holding"
        BY <1>3 DEF HandlerInv, StageInv, Fits
    <2>2. queue[r].got > 0 /\ Folded(r) = queue[r].from + queue[r].got - 1
        BY <1>1, <1>3, <2>1 DEF Follows, Folded
    <2> QED
        BY <1>1, <1>2, <2>2
<1>4. CASE pc[r] \notin {"pulled", "folding"}
    <2>1. Folded(r) = queue[r].from + queue[r].got - 0
        BY <1>4 DEF Folded
    <2> QED
        BY <1>1, <1>2, <2>1
<1> QED
    BY <1>3, <1>4

\* What was folded is known, also when more is published.
LEMMA KnowsStill ==
    ASSUME NEW r, KnowsOf(r), row' = row, current'[r] = current[r], final'[r] = final[r], Method' = Method,
           Folded(r)' = Folded(r), queue'[r].from = queue[r].from,
           Folded(r) \in Nat, queue[r].from \in Nat, queue[r].from <= Folded(r),
           \A i \in 1..Folded(r) : Events(r)'[i] = Events(r)[i],
           Method[r] = "nonblocking" /\ Folded(r) > queue[r].from /\ pc'[r] # "folded" => answer'[r].kind # "none"
    PROVE  KnowsOf(r)'
<1>1. Folded(r) > queue[r].from => Events(r)'[Folded(r)] = Events(r)[Folded(r)]
    <2>1. Folded(r) > queue[r].from => Folded(r) \in 1..Folded(r)
        OBVIOUS
    <2> QED
        BY <2>1
<1>2. ASSUME NEW s \in TaskState, LastSince(Events(r)', queue[r].from, Folded(r), s)
      PROVE  current[r] # NoTask /\ current[r].state = s
    <2>1. LastSince(Events(r), queue[r].from, Folded(r), s)
        BY <1>2, LastSinceFacts
    <2> QED
        BY <2>1 DEF KnowsOf
<1> QED
    BY <1>1, <1>2 DEF KnowsOf

LEMMA ToldStays ==
    ASSUME NEW r, Told(r), queue'[r].from = queue[r].from, queue[r].from \in Nat,
           Len(Events(r)) \in Nat, Len(Events(r)') \in Nat, Len(Events(r)) <= Len(Events(r)'),
           \A i \in 1..Len(Events(r)) : Events(r)'[i] = Events(r)[i]
    PROVE  Told(r)'
<1>1. PICK i \in (queue[r].from + 1)..Len(Events(r)) : Telling(Events(r)[i])
    BY DEF Told
<1>2. i \in (queue[r].from + 1)..Len(Events(r)') /\ i \in 1..Len(Events(r))
    OBVIOUS
<1> QED
    BY <1>1, <1>2 DEF Told, Telling

\* A step that answers nobody leaves a send that still drains to its reply.
LEMMA ReplyKept ==
    ASSUME NEW r, Method[r] # "stream", Method' = Method, RepliesTo(r), pc[r] # "done",
           answer'[r] = answer[r], sent'[r] = sent[r], pc'[r] # "attached",
           HasQueue(r)', HearOf(r)', ToldOf(r)', KnowsOf(r)'
    PROVE  RepliesTo(r)'
BY DEF RepliesTo, ReplyOf, Left

\* A request's step leaves what the others' handlers and executors keep.
LEMMA OthersKeep ==
    ASSUME HandlerInv, PayloadCarries, NEW r \in Request, StepOf(r), NEW c \in Request, c # r
    PROVE  /\ pc'[c] = pc[c] /\ exec'[c] = exec[c] /\ answer'[c] = answer[c] /\ current'[c] = current[c]
           /\ final'[c] = final[c] /\ sent'[c] = sent[c] /\ pattern'[c] = pattern[c]
           /\ (HasQueue(c)' <=> HasQueue(c)) /\ queue'[c].bus = queue[c].bus
<1>1. /\ pc'[c] = pc[c] /\ exec'[c] = exec[c] /\ answer'[c] = answer[c] /\ current'[c] = current[c]
      /\ (HasQueue(c)' <=> HasQueue(c)) /\ queue'[c].bus = queue[c].bus
    <2>1. Kept(c) /\ pc'[c] = pc[c]
        BY MoveStep DEF HandlerInv, TypeOK, Move
    <2>2. exec'[c] = exec[c] /\ answer'[c] = answer[c] /\ current'[c] = current[c]
        BY ExecSteps, AnswerSteps, SaveSteps DEF ExecStep, Answers, Saves
    <2> QED
        BY <2>1, <2>2 DEF Kept, HasQueue
<1>2. /\ final \in [Request -> BOOLEAN] /\ sent \in [Request -> BOOLEAN]
      /\ pattern \in [Request -> {"undetermined", "message-only", "task-lifecycle"}]
    BY DEF HandlerInv, TypeOK
<1>3. CASE final' = final /\ sent' = sent /\ pattern' = pattern
    BY <1>1, <1>3
<1>4. CASE FoldMessage(r) \/ FoldLoad(r) \/ Deliver(r)
    BY <1>1, <1>2, <1>4 DEF FoldMessage, FoldLoad, Deliver, Advanced, rmVars
<1>5. CASE \/ LoadContext(r) \/ SaveContext(r) \/ Open(r) \/ Launch(r) \/ Await(r) \/ BreakStream(r) \/ FoldSave(r)
           \/ Finish(r) \/ RepairLoad(r) \/ RepairSave(r)
    BY <1>3, <1>5 DEF LoadContext, SaveContext, Open, Launch, Await, BreakStream, FoldSave, Finish,
                      RepairLoad, RepairSave, rmVars
<1>6. CASE \/ CancelLoad(r) \/ CancelFork(r) \/ AgentCancel(r) \/ Mark(r) \/ Verify(r)
           \/ Subscribe(r) \/ Snapshot(r) \/ Forward(r)
    BY <1>3, <1>6 DEF CancelLoad, CancelFork, AgentCancel, Mark, Verify, Subscribe, Snapshot, Forward, rmVars
<1>7. CASE Execute(r) \/ Disconnect(r) \/ FoldFails(r) \/ StoreFails(r)
    BY <1>3, <1>7 DEF Execute, Publish, Return, Throw, Settle, Disconnect, FoldFails, StoreFails, callVars, rmVars
<1> QED
    BY <1>4, <1>5, <1>6, <1>7 DEF StepOf, Handle

\* What the store rejected stays rejected.
LEMMA StoreHeld ==
    ASSUME HandlerInv, NEW r \in Request, StepOf(r), failures' = 0
    PROVE  failures = 0 /\ ~FoldFails(r) /\ ~StoreFails(r)
<1>1. failures \in Nat
    BY ExecutorAssumption DEF HandlerInv, TypeOK
<1>2. failures' # failures => failures' = failures + 1
    BY DEF StepOf, Handle, Execute, LoadContext, SaveContext, Open, Launch, Await, BreakStream, FoldMessage,
        FoldLoad, FoldSave, Deliver, Finish, RepairLoad, RepairSave, CancelLoad, CancelFork, AgentCancel,
        Mark, Verify, Subscribe, Snapshot, Forward, Publish, Return, Throw, Settle, Disconnect, FoldFails, StoreFails
<1> QED
    BY <1>1, <1>2 DEF FoldFails, StoreFails

\* Logs only grow, and a bus the manager's table has lost gets no more events.
LEMMA LogsGrow ==
    ASSUME HandlerInv, PayloadCarries, TurnInv, NEW r \in Request, StepOf(r), ~AgentCancel(r), NEW b \in Bus
    PROVE  /\ Len(log[b]) \in Nat /\ Len(log'[b]) \in Nat /\ Len(log[b]) <= Len(log'[b])
           /\ \A i \in 1..Len(log[b]) : log'[b][i] = log[b][i]
           /\ b \in created /\ b # registered => log'[b] = log[b] /\ b # registered'
<1>1. BusTypeOK /\ log[b] \in Seq(AgentExecutionEvent) /\ NoBus \notin Bus
    BY NoBusAssumption DEF HandlerInv, TypeOK, BusTypeOK
<1>2. Len(log[b]) \in Nat
    BY <1>1
<1>3. ASSUME log' = log, registered' \in {registered, NoBus} \/ registered' \notin created
      PROVE  /\ Len(log'[b]) = Len(log[b]) /\ \A i \in 1..Len(log[b]) : log'[b][i] = log[b][i]
             /\ b \in created /\ b # registered => log'[b] = log[b] /\ b # registered'
    BY <1>1, <1>3
<1>4. CASE UNCHANGED busVars \/ Pull(r) \/ StopQueue(r) \/ JoinBus(r) \/ SettleBus(queue[r].bus)
    <2>1. log' = log /\ registered' \in {registered, NoBus}
        BY <1>4 DEF busVars, Pull, StopQueue, JoinBus, Attach, SettleBus
    <2> QED
        BY <1>2, <1>3, <2>1
<1>5. CASE \E x \in Bus : OpenBus(r, x)
    <2>1. log' = log /\ (registered' = registered \/ registered' \notin created)
        BY <1>5 DEF OpenBus, Attach
    <2> QED
        BY <1>2, <1>3, <2>1
<1>6. CASE /\ Publish(r) \/ Throw(r)
           /\ queue[r].bus \in Bus /\ \E es \in Seq(AgentExecutionEvent) : PublishOn(queue[r].bus, es)
    <2>1. PICK es \in Seq(AgentExecutionEvent) : PublishOn(queue[r].bus, es)
        BY <1>6
    <2>2. queue[r].bus = registered
        BY <1>6 DEF Publish, Throw, TurnInv, Engaged
    <2>3. log'[b] = (IF b = queue[r].bus THEN log[b] \o es ELSE log[b]) /\ registered' = registered
        BY <1>1, <1>6, <2>1 DEF PublishOn, BusTypeOK
    <2>4. /\ Len(log[b] \o es) = Len(log[b]) + Len(es) /\ Len(es) \in Nat
          /\ \A i \in 1..Len(log[b]) : (log[b] \o es)[i] = log[b][i]
        BY <1>1
    <2> QED
        BY <1>2, <2>2, <2>3, <2>4
<1> QED
    BY <1>4, <1>5, <1>6, BusOperation

\* What is wrong with the order of a stream's events stays so.
LEMMA MisopensStays ==
    ASSUME NEW r, Misopens(r), queue'[r].from = queue[r].from, queue[r].from \in Nat,
           Len(Events(r)) \in Nat, Len(Events(r)') \in Nat, Len(Events(r)) <= Len(Events(r)'),
           \A i \in 1..Len(Events(r)) : Events(r)'[i] = Events(r)[i]
    PROVE  Misopens(r)'
<1>1. PICK i \in (queue[r].from + 1)..Len(Events(r)) :
        ~((i = queue[r].from + 1) <=> (Events(r)[i].kind \in {"task", "message"}))
    BY DEF Misopens
<1>2. i \in (queue[r].from + 1)..Len(Events(r)') /\ i \in 1..Len(Events(r))
    OBVIOUS
<1> QED
    BY <1>1, <1>2 DEF Misopens

LEMMA WellOpened ==
    ASSUME HandlerInv, NEW r \in Request, HasQueue(r), OpensWell(r)
    PROVE  ~Misopens(r)
<1> DEFINE s == Events(r)
           n == queue[r].from
           sub == SubSeq(s, n + 1, Len(s))
<1>1. s \in Seq(AgentExecutionEvent) /\ n \in Nat /\ Len(s) \in Nat
    BY QueueFacts
<1>2. \A i \in DOMAIN sub : (i = 1) <=> (sub[i].kind \in {"task", "message"})
    BY DEF OpensWell, Events
<1>3. ASSUME NEW i \in (n + 1)..Len(s)
      PROVE  (i = n + 1) <=> (s[i].kind \in {"task", "message"})
    <2>1. i - n \in 1..(Len(s) - n) /\ i - n \in DOMAIN sub /\ (i - n = 1 <=> i = n + 1)
        BY <1>1, <1>3
    <2>2. sub[i - n] = s[i]
        BY <1>1, <1>3, <2>1
    <2> QED
        BY <1>2, <2>1, <2>2
<1> QED
    BY <1>3 DEF Misopens

\* A queue is moved by its own consumer only.
LEMMA PlaceKept ==
    ASSUME HandlerInv, PayloadCarries, NEW r \in Request, StepOf(r), NEW c \in Request, c # r \/ Execute(r)
    PROVE  queue'[c].from = queue[c].from /\ queue'[c].got = queue[c].got
<1>1. queue \in [Request -> Queue] /\ queue[c] \in Queue /\ BusTypeOK /\ registered \in Bus \cup {NoBus}
    BY RequestAssumption DEF HandlerInv, TypeOK, BusTypeOK
<1>2. ASSUME queue'[c] = queue[c] \/ (\E es : queue'[c] = Enqueue(queue[c], es)) \/ queue'[c] = Stop(queue[c])
      PROVE  queue'[c].from = queue[c].from /\ queue'[c].got = queue[c].got
    BY <1>1, <1>2 DEF Enqueue, Stop, Queue
<1>3. CASE UNCHANGED busVars
    BY <1>2, <1>3 DEF busVars
<1>4. CASE \E es : PublishOn(queue[r].bus, es)
    BY <1>2, <1>4, RequestAssumption DEF PublishOn
<1>5. CASE SettleBus(queue[r].bus)
    BY <1>2, <1>5, RequestAssumption DEF SettleBus
<1>6. CASE Execute(r)
    BY <1>3, <1>4, <1>5, <1>6 DEF Execute, Publish, Return, Throw, Settle
<1>7. CASE c # r
    <2>1. (\E b \in Bus : Attach(r, b)) \/ Pull(r) \/ StopQueue(r) => queue'[c] = queue[c]
        BY <1>1, <1>7, AttachEffect, PullEffect, StopEffect
    <2>2. JoinBus(r) \/ (\E b \in Bus : OpenBus(r, b)) => \E b \in Bus : Attach(r, b)
        BY <1>1 DEF JoinBus, OpenBus
    <2> QED
        BY <1>2, <1>3, <1>4, <1>5, <2>1, <2>2, BusOperation
<1> QED
    BY <1>6, <1>7

\* A send in rest stays answered as it is.
LEMMA RestingReply ==
    ASSUME HandlerInv, PayloadCarries, TurnInv, NEW r \in Request, StepOf(r), ~AgentCancel(r), Method' = Method,
           NEW c \in Send, c # r, pc[c] = "idle" \/ Over(c), RepliesTo(c)
    PROVE  RepliesTo(c)'
<1>1. c \in Request /\ Send' = Send /\ Fits(pc[c], queue[c].loop) /\ NoBus \notin Bus
    BY NoBusAssumption DEF Send, HandlerInv, StageInv
<1>2. /\ pc'[c] = pc[c] /\ exec'[c] = exec[c] /\ answer'[c] = answer[c] /\ current'[c] = current[c]
      /\ final'[c] = final[c] /\ sent'[c] = sent[c] /\ pattern'[c] = pattern[c]
      /\ (HasQueue(c)' <=> HasQueue(c)) /\ queue'[c].bus = queue[c].bus
    BY <1>1, OthersKeep
<1>3. pc[c] = "idle" => ~HasQueue(c)
    BY <1>1 DEF Fits, HasQueue
<1>4. ASSUME HasQueue(c)
      PROVE  /\ Misopens(c) => Misopens(c)'
             /\ queue[c].bus # registered =>
                  queue'[c].bus # registered' /\ LastState(Events(c))' = LastState(Events(c))
    <2>1. /\ queue[c].bus \in Bus /\ queue[c].bus \in created /\ queue[c].from \in Nat
          /\ queue'[c].from = queue[c].from
        BY <1>1, <1>4, QueueFacts, PlaceKept DEF TurnInv
    <2>2. /\ Len(Events(c)) \in Nat /\ Len(Events(c)') \in Nat /\ Len(Events(c)) <= Len(Events(c)')
          /\ \A i \in 1..Len(Events(c)) : Events(c)'[i] = Events(c)[i]
          /\ queue[c].bus # registered => Events(c)' = Events(c) /\ queue[c].bus # registered'
        BY <1>2, <2>1, LogsGrow DEF Events
    <2>3. queue[c].bus # registered => LastState(Events(c))' = LastState(Events(c))
        BY <2>2
    <2> QED
        BY <1>2, <2>1, <2>2, <2>3, MisopensStays
<1>5. CASE Method[c] = "stream"
    BY <1>2, <1>3, <1>4, <1>5 DEF RepliesTo, StreamOf, Over
<1>6. CASE Method[c] # "stream"
    <2>1. ASSUME NEW s, Left(c, s) PROVE Left(c, s)'
        BY <1>2, <1>4, <2>1 DEF Left
    <2>2. answer'[c].state = answer[c].state
        BY <1>2
    <2> QED
        BY <1>2, <1>3, <1>6, <2>1, <2>2 DEF RepliesTo, ReplyOf, Over
<1> QED
    BY <1>5, <1>6

\* A resubscription disturbs no send.
LEMMA WatchedReply ==
    ASSUME NoCancel, HandlerInv, PayloadCarries, TurnInv, WriterInv, NEW r \in Request \ Send, StepOf(r),
           Method' = Method, NEW c \in Send, RepliesTo(c)
    PROVE  RepliesTo(c)'
<1>1. c \in Request /\ c # r /\ r \in Request /\ pc[r] # "cancelling"
    BY DEF Send, WriterInv
<1>2. /\ pc'[c] = pc[c] /\ exec'[c] = exec[c] /\ answer'[c] = answer[c] /\ current'[c] = current[c]
      /\ final'[c] = final[c] /\ sent'[c] = sent[c] /\ pattern'[c] = pattern[c]
    BY <1>1, OthersKeep
<1>3. row' = row /\ script' = script /\ tracker' = tracker /\ log' = log /\ queue'[c] = queue[c]
    BY <1>1, WatchStep
<1>5. Events(c)' = Events(c) /\ Folded(c)' = Folded(c) /\ (HasQueue(c)' <=> HasQueue(c))
    BY <1>2, <1>3 DEF Events, Folded, HasQueue
<1>6. Broke(c)' <=> Broke(c)
    BY <1>2, <1>3, <1>5 DEF Broke
<1>7. registered' = registered
    <2>1. exec[r] = "none" /\ ~Open(r)
        BY <1>1 DEF TurnInv, Open
    <2>2. Calm \/ JoinBus(r)
        BY <1>1, <2>1, BusUse
    <2> QED
        BY <2>2 DEF Calm, JoinBus
<1>8. /\ HearOf(c) => HearOf(c)'
      /\ ToldOf(c) => ToldOf(c)'
    BY <1>2, <1>3, <1>5, <1>6 DEF HearOf, ReachOf, BeginOf, Opens, CaughtUp, Held, ToldOf, Told, Telling
<1>9. KnowsOf(c) => KnowsOf(c)'
    BY <1>2, <1>3, <1>5 DEF KnowsOf, LastSince
<1>10. /\ \A s : Left(c, s) => Left(c, s)'
       /\ Misopens(c) => Misopens(c)'
       /\ Passed(c)' = Passed(c)
    BY <1>2, <1>3, <1>5, <1>7 DEF Left, Misopens, Passed, Events, HasQueue
<1>11. CASE Method[c] = "stream"
    BY <1>2, <1>3, <1>5, <1>10, <1>11 DEF RepliesTo, StreamOf
<1>12. CASE Method[c] # "stream"
    <2>1. answer'[c].state = answer[c].state
        BY <1>2
    <2> QED
        BY <1>2, <1>5, <1>8, <1>9, <1>10, <1>12, <2>1 DEF RepliesTo, ReplyOf
<1> QED
    BY <1>11, <1>12

\* Where a send that has not ended is, for the steps below.
LEMMA ReplyAt ==
    ASSUME HandlerInv, NEW r \in Send, Method[r] # "stream", RepliesTo(r), pc[r] # "done", HasQueue(r)
    PROVE  /\ r \in Request /\ pc \in [Request -> PC] /\ Method[r] \in {"blocking", "nonblocking"}
           /\ answer \in [Request -> Answer] /\ sent \in [Request -> BOOLEAN]
           /\ current \in [Request -> Task \cup {NoTask}]
           /\ HearOf(r) /\ ToldOf(r) /\ KnowsOf(r) /\ answer[r].kind # "error"
           /\ sent[r] => answer[r].kind # "none"
           /\ Folded(r) \in Nat /\ queue[r].from \in Nat /\ Len(Events(r)) \in Nat
           /\ queue[r].from <= Folded(r) /\ Folded(r) <= Len(Events(r))
<1>1. r \in Request /\ Method[r] \in {"blocking", "nonblocking"}
    BY DEF Send, SendMethod
<1> QED
    BY <1>1, FoldedPlace DEF HandlerInv, TypeOK, RepliesTo, ReplyOf

LEMMA BeginReply ==
    ASSUME OpensTask, Reports, HandlerInv, TurnInv, NEW r \in Send, Method[r] # "stream", Method' = Method, RepliesTo(r),
           LoadContext(r) \/ SaveContext(r) \/ Open(r)
    PROVE  RepliesTo(r)'
<1>1. /\ r \in Request /\ pc \in [Request -> PC] /\ Fits(pc[r], queue[r].loop)
      /\ pc[r] \in {"idle", "loaded", "ready"} /\ answer \in [Request -> Answer]
    BY DEF HandlerInv, TypeOK, StageInv, Send, LoadContext, SaveContext, Open, MayStart, At
<1>2. ~HasQueue(r) /\ exec[r] = "none" /\ current[r] = NoTask /\ answer[r].kind # "error" /\ Method[r] \in SendMethod
    BY <1>1 DEF Fits, HasQueue, TurnInv, RepliesTo, ReplyOf, Send
<1>3. CASE LoadContext(r) \/ SaveContext(r)
    <2>1. /\ sent' = sent /\ current' = current /\ exec' = exec /\ queue' = queue
          /\ pc'[r] \in {"loaded", "ready", "done"}
          /\ \/ answer' = answer
             \/ pc'[r] = "done" /\ Settled(r, "error", NoState)
        BY <1>1, <1>3 DEF LoadContext, SaveContext, Refuse, Goto, rmVars, execVars, busVars
    <2>2. answer'[r] = answer[r] \/ (pc'[r] = "done" /\ answer'[r].kind = "error")
        BY <1>1, <2>1 DEF Settled
    <2>3. pc[r] # "done" /\ ~HasQueue(r)'
        BY <1>1, <1>2, <2>1 DEF HasQueue
    <2> QED
        BY <1>1, <1>2, <2>1, <2>2, <2>3 DEF RepliesTo, ReplyOf, Left
<1>4. CASE Open(r)
    <2>1. /\ HasQueue(r)' /\ HearOf(r)' /\ log' = log /\ row' = row
          /\ Folded(r)' = Len(Events(r)') /\ queue'[r].from = Len(Events(r)') /\ queue'[r].from \in Nat
          /\ pc'[r] = "draining" /\ exec'[r] = "running" /\ script'[r] \in Script[r]
        BY <1>4, OpenHears
    <2>2. answer' = answer /\ sent' = sent /\ current' = current
        BY <1>4 DEF Open, rmVars
    <2>3. ToldOf(r)'
        <3>1. script'[r].ends \in {"return", "throw"}
            BY <1>1, <2>1, ExecutorAssumption
        <3>2. script'[r].ends = "return" => \E i \in DOMAIN script'[r].events : Telling(script'[r].events[i])
            BY <1>1, <2>1 DEF Reports
        <3> QED
            BY <2>1, <3>1, <3>2 DEF ToldOf, Telling
    <2>4. KnowsOf(r)'
        <3>1. Folded(r)' = queue'[r].from /\ ~(Folded(r)' > queue'[r].from)
            BY <2>1
        <3>2. \A s \in TaskState : ~LastSince(Events(r)', queue'[r].from, Folded(r)', s)
            BY <2>1, <3>1, LastSinceFacts
        <3> QED
            BY <1>2, <2>2, <3>1, <3>2 DEF KnowsOf
    <2> QED
        BY <1>1, <2>1, <2>2, <2>3, <2>4, ReplyKept
<1> QED
    BY <1>3, <1>4

LEMMA PassReply ==
    ASSUME HandlerInv, TurnInv, NEW r \in Send, Method[r] # "stream", Method' = Method, RepliesTo(r),
           Await(r) \/ FoldLoad(r)
    PROVE  RepliesTo(r)'
<1>1. /\ r \in Request /\ pc \in [Request -> PC] /\ pc[r] \in {"draining", "pulled"} /\ HasQueue(r)
    BY DEF HandlerInv, TypeOK, StageInv, Fits, Send, Await, FoldLoad, At, Pull, HasQueue
<1>2. /\ HearOf(r) /\ ToldOf(r) /\ KnowsOf(r) /\ answer[r].kind # "error"
      /\ Folded(r) \in Nat /\ queue[r].from \in Nat /\ Len(Events(r)) \in Nat
      /\ queue[r].from <= Folded(r) /\ Folded(r) <= Len(Events(r))
    BY <1>1, ReplyAt
<1>3. /\ HasQueue(r)' /\ HearOf(r)' /\ Folded(r)' = Folded(r) /\ Events(r)' = Events(r)
      /\ queue'[r].from = queue[r].from
    BY <1>1, <1>2, PullHears, PassHears
<1>4. /\ row' = row /\ current' = current /\ final' = final /\ answer' = answer /\ sent' = sent /\ exec' = exec
      /\ script' = script /\ pc'[r] \notin {"attached"}
    BY <1>1 DEF Await, FoldLoad, Goto, storeVars, rmVars, execVars
<1>5. ToldOf(r)'
    BY <1>2, <1>3, <1>4 DEF ToldOf, Told
<1>6. KnowsOf(r)'
    <2>1. Method[r] = "nonblocking" /\ Folded(r) > queue[r].from => answer'[r].kind # "none"
        BY <1>1, <1>2, <1>4 DEF KnowsOf
    <2> QED
        BY <1>2, <1>3, <1>4, <2>1, KnowsStill
<1> QED
    BY <1>1, <1>3, <1>4, <1>5, <1>6, ReplyKept

LEMMA FoldReply ==
    ASSUME HandlerInv, TurnInv, NEW r \in Send, Method[r] # "stream", Method' = Method, RepliesTo(r), WriterOf(r),
           FoldMessage(r) \/ FoldSave(r)
    PROVE  RepliesTo(r)'
<1> DEFINE e == Held(r)
           n == Folded(r)
           m == queue[r].from
<1>1. /\ r \in Request /\ pc \in [Request -> PC] /\ pc[r] \in {"pulled", "folding"} /\ HasQueue(r)
    BY DEF HandlerInv, TypeOK, StageInv, Fits, Send, FoldMessage, FoldSave, At, HasQueue
<1>2. /\ HearOf(r) /\ ToldOf(r) /\ KnowsOf(r) /\ n \in Nat /\ m \in Nat /\ m <= n
      /\ current \in [Request -> Task \cup {NoTask}]
    BY <1>1, ReplyAt
<1>3. /\ HasQueue(r)' /\ HearOf(r)' /\ Folded(r)' = n + 1 /\ Events(r)' = Events(r)
      /\ queue' = queue /\ log' = log /\ exec' = exec /\ script' = script
      /\ \/ e.kind = "message" /\ e.state = NoState /\ row' = row /\ current' = current /\ final'[r]
         \/ /\ e.kind # "message" /\ row' = Apply(row, e, Latest(r))
            /\ row' # NoTask /\ current'[r] = row' /\ final' = final
    BY <1>1, <1>2, FoldHears
<1>4. e = Events(r)[n + 1] /\ e \in AgentExecutionEvent
    BY <1>1, <1>2, HeldIsNext
<1>5. answer' = answer /\ sent' = sent /\ pc'[r] = "folded"
    BY <1>1 DEF FoldMessage, FoldSave, Goto
<1>6. ToldOf(r)'
    BY <1>2, <1>3 DEF ToldOf, Told
<1>7. ASSUME NEW s \in TaskState, LastSince(Events(r), m, n + 1, s)
      PROVE  current'[r] # NoTask /\ current'[r].state = s
    <2>1. e.state = s \/ (e.state = NoState /\ LastSince(Events(r), m, n, s))
        BY <1>2, <1>4, <1>7, LastSinceFacts
    <2>2. s # NoState
        BY DEF TaskState, NoState
    <2>3. LastSince(Events(r), m, n, s) => current[r] # NoTask /\ current[r].state = s /\ row = current[r]
        BY <1>2 DEF KnowsOf
    <2>4. CASE e.kind = "message"
        BY <1>3, <2>1, <2>2, <2>3, <2>4
    <2>5. CASE e.kind # "message"
        <3>1. row \in Task \cup {NoTask} /\ Latest(r) \in Msg \cup {NoMsg}
            BY <1>1, TasksTyped DEF HandlerInv, TypeOK
        <3>2. row' = Apply(row, e, Latest(r)) /\ row' # NoTask /\ current'[r] = row'
            BY <1>3, <2>5
        <3>3. IF e.state = NoState THEN row # NoTask /\ row'.state = row.state ELSE row'.state = e.state
            BY <1>4, <3>1, <3>2, FoldState
        <3> QED
            BY <2>1, <2>2, <2>3, <3>2, <3>3
    <2> QED
        BY <2>4, <2>5
<1>8. KnowsOf(r)'
    <2>1. current'[r] # NoTask => row' = current'[r]
        BY <1>2, <1>3 DEF KnowsOf
    <2>2. final'[r] \/ current'[r] # NoTask
        BY <1>3
    <2>3. Events(r)'[Folded(r)'].kind = "message" => final'[r]
        BY <1>3, <1>4
    <2>4. queue'[r].from = m
        BY <1>3
    <2> HIDE DEF m, n, e
    <2> QED
        BY <1>3, <1>5, <1>7, <2>1, <2>2, <2>3, <2>4 DEF KnowsOf
<1> QED
    BY <1>1, <1>3, <1>5, <1>6, <1>8, ReplyKept

LEMMA DeliverReply ==
    ASSUME HandlerInv, TurnInv, NEW r \in Send, Method[r] # "stream", Method' = Method, RepliesTo(r), Deliver(r)
    PROVE  RepliesTo(r)'
<1>1. /\ r \in Request /\ pc \in [Request -> PC] /\ pc[r] = "folded" /\ HasQueue(r) /\ queue[r].loop = "holding"
    BY DEF HandlerInv, TypeOK, StageInv, Fits, Send, Deliver, At, HasQueue
<1>2. /\ HearOf(r) /\ ToldOf(r) /\ KnowsOf(r) /\ answer[r].kind # "error" /\ (sent[r] => answer[r].kind # "none")
      /\ Folded(r) \in Nat /\ queue[r].from \in Nat
      /\ queue[r].from <= Folded(r) /\ Method[r] \in {"blocking", "nonblocking"}
      /\ answer \in [Request -> Answer] /\ sent \in [Request -> BOOLEAN]
    BY <1>1, ReplyAt
<1>3. /\ HasQueue(r)' /\ HearOf(r)' /\ Folded(r)' = Folded(r) /\ Events(r)' = Events(r)
      /\ queue' = queue
    BY <1>1, <1>2, PassHears
<1>4. /\ row' = row /\ current' = current /\ final' = final /\ exec' = exec
      /\ script' = script /\ pc'[r] = "draining"
    BY <1>1 DEF Deliver, Goto, storeVars, rmVars, execVars
<1>5. ToldOf(r)'
    BY <1>2, <1>3, <1>4 DEF ToldOf, Told
<1>6. /\ answer'[r] = answer[r] \/ (answer[r].kind = "none" /\ Result(r) # NoAnswer /\ answer'[r] = Result(r))
      /\ sent'[r] => sent[r] \/ Result(r) # NoAnswer
      /\ Result(r) # NoAnswer => answer'[r].kind # "none"
    <2>1. Result(r) \in {NoAnswer, [kind |-> "message", state |-> NoState], TaskAnswer(Held(r)), TaskAnswer(current[r])}
        BY DEF Result, FinalResult
    <2>2. /\ Result(r) # NoAnswer => Result(r).kind \in {"task", "message"}
          /\ Result(r) = [kind |-> Result(r).kind, state |-> Result(r).state]
        BY <2>1 DEF TaskAnswer, NoAnswer
    <2>3. CASE Result(r) = NoAnswer
        BY <1>2, <2>3 DEF Deliver
    <2>4. CASE Result(r) # NoAnswer
        <3>1. Settled(r, Result(r).kind, Result(r).state) /\ sent' = [sent EXCEPT ![r] = TRUE]
            BY <2>4 DEF Deliver
        <3>2. sent'[r] = TRUE /\ (answer[r].kind # "none" => answer'[r] = answer[r])
            BY <1>1, <1>2, <3>1 DEF Settled
        <3>3. answer[r].kind = "none" => answer'[r] = Result(r)
            BY <1>1, <1>2, <2>2, <3>1 DEF Settled
        <3> QED
            BY <1>2, <2>2, <2>4, <3>2, <3>3
    <2> QED
        BY <2>3, <2>4
<1>7. KnowsOf(r)'
    <2>1. ASSUME Method[r] = "nonblocking", Folded(r) > queue[r].from PROVE answer'[r].kind # "none"
        <3>1. CASE sent[r]
            BY <1>2, <1>6, <3>1
        <3>2. CASE ~sent[r]
            <4>1. FinalResult(r) # NoAnswer
                BY <1>2, <2>1 DEF KnowsOf, FinalResult, NoAnswer, TaskAnswer
            <4>2. Result(r) # NoAnswer
                BY <2>1, <3>2, <4>1 DEF Result, TaskAnswer, NoAnswer
            <4> QED
                BY <1>6, <4>2
        <3> QED
            BY <3>1, <3>2
    <2> QED
        BY <1>2, <1>3, <1>4, <2>1, KnowsStill
<1>8. ASSUME Method[r] = "blocking", answer'[r].kind = "task", answer'[r] # answer[r]
      PROVE  answer'[r].state \in INTERRUPTED_STATE_LIST
    <2>1. /\ Held(r).state \in AUTH_REQUIRED_STATE_LIST /\ current[r] # NoTask
          /\ Result(r) = TaskAnswer(current[r]) /\ answer'[r] = Result(r)
        BY <1>6, <1>8 DEF Result
    <2>2. /\ queue[r].got \in Nat /\ queue[r].got > 0 /\ Folded(r) = queue[r].from + queue[r].got
          /\ Held(r) = Events(r)[Folded(r)]
        <3>1. queue[r].got \in Nat /\ Follows(queue[r], Events(r))
            BY <1>1, QueueFacts
        <3>2. Folded(r) = queue[r].from + queue[r].got
            BY <1>1, <1>2, <3>1 DEF Folded
        <3> QED
            BY <1>1, <3>1, <3>2 DEF Follows, Held
    <2>3. queue[r].from < Folded(r)
        BY <1>2, <2>2
    <2>4. Held(r).state \in TaskState
        BY <2>1 DEF AUTH_REQUIRED_STATE_LIST, TaskState
    <2>5. LastSince(Events(r), queue[r].from, Folded(r), Held(r).state)
        BY <1>2, <2>2, <2>3, LastSinceFacts
    <2>6. current[r].state = Held(r).state
        BY <1>2, <2>4, <2>5 DEF KnowsOf
    <2> QED
        BY <2>1, <2>6 DEF TaskAnswer, INTERRUPTED_STATE_LIST
<1>9. answer'[r].kind # "error" /\ (sent'[r] => answer'[r].kind # "none")
    <2>1. Result(r) # NoAnswer => Result(r).kind # "error"
        BY DEF Result, FinalResult, TaskAnswer, NoAnswer
    <2> QED
        BY <1>2, <1>6, <2>1
<1>10. ~(\E s : Left(r, s))
    BY <1>1 DEF Left
<1>11. Method[r] = "blocking" /\ answer[r].kind = "task" =>
        answer[r].state \in TERMINAL_STATE_LIST \cup INTERRUPTED_STATE_LIST
    BY <1>1, <1>10 DEF RepliesTo, ReplyOf
<1>12. Method'[r] = "blocking" /\ answer'[r].kind = "task" =>
        answer'[r].state \in TERMINAL_STATE_LIST \cup INTERRUPTED_STATE_LIST
    BY <1>8, <1>11
<1> QED
    BY <1>3, <1>4, <1>5, <1>7, <1>9, <1>12 DEF RepliesTo, ReplyOf

\* A blocking send's last words: the queue ended with them, or nothing came after.
LEMMA LastHeard ==
    ASSUME Reports, TakesTurns, HandlerInv, TurnInv, KeptInv, NEW r \in Send, StepOf(r),
           Method[r] # "stream", RepliesTo(r), pc[r] = "drained"
    PROVE  /\ HasQueue(r) /\ Folded(r) > queue[r].from
           /\ current[r] # NoTask /\ ~final[r] =>
                \/ current[r].state \in TERMINAL_STATE_LIST \cup INTERRUPTED_STATE_LIST
                \/ /\ exec[r] = "settled" /\ queue[r].bus # registered
                   /\ current[r].state = LastState(Events(r))
<1> DEFINE n == Folded(r)
           m == queue[r].from
           s == Events(r)
<1>1. r \in Request /\ HasQueue(r)
    BY DEF HandlerInv, StageInv, Fits, Send, HasQueue
<1>2. /\ HearOf(r) /\ ToldOf(r) /\ KnowsOf(r) /\ n \in Nat /\ m \in Nat /\ m <= n /\ n <= Len(s) /\ Len(s) \in Nat
    BY <1>1, ReplyAt
<1>3. /\ queue[r] \in Queue /\ queue[r].bus \in Bus /\ s \in Seq(AgentExecutionEvent)
      /\ queue[r].got \in Nat /\ queue[r].buf \in Seq(AgentExecutionEvent) /\ EndsOnce(queue[r], s)
    BY <1>1, QueueFacts
<1>4. n = m + queue[r].got
    BY <1>2, <1>3 DEF Folded
<1>5. CASE Broke(r)
    <2>1. n > m /\ EndsQueue(s[n])
        BY <1>5 DEF Broke
    <2>2. s[n].kind = "message" => final[r]
        BY <1>2, <2>1 DEF KnowsOf
    <2>3. ASSUME ~final[r] PROVE current[r].state \in TERMINAL_STATE_LIST \cup INTERRUPTED_STATE_LIST
        <3>1. s[n].state \in TERMINAL_STATE_LIST \cup INPUT_REQUIRED_STATE_LIST
            BY <2>1, <2>2, <2>3 DEF EndsQueue
        <3>2. s[n].state \in TaskState
            BY <3>1 DEF TERMINAL_STATE_LIST, INPUT_REQUIRED_STATE_LIST, TaskState
        <3>3. LastSince(s, m, n, s[n].state)
            BY <1>2, <2>1, LastSinceFacts
        <3>4. current[r].state = s[n].state
            BY <1>2, <3>2, <3>3 DEF KnowsOf
        <3> QED
            BY <3>1, <3>4 DEF INTERRUPTED_STATE_LIST
    <2> QED
        BY <1>1, <2>1, <2>3
<1>6. CASE ~Broke(r)
    <2>1. queue[r].buf = <<>> /\ exec[r] = "settled" /\ CaughtUp(queue[r], s)
        BY <1>2, <1>6 DEF HearOf, ReachOf
    <2>2. n = Len(s)
        BY <1>2, <1>3, <1>4, <2>1 DEF CaughtUp
    <2>3. PICK i \in (m + 1)..n : Telling(s[i])
        BY <1>2, <2>1, <2>2 DEF ToldOf, Told
    <2>4. n > m /\ i \in DOMAIN s /\ i \in Nat /\ i > m
        BY <1>2, <1>3, <2>2
    <2>5. s[i].state # NoState
        <3> SUFFICES ASSUME s[i].kind = "message" PROVE FALSE
            BY <2>3 DEF Telling
        <3>1. EndsQueue(s[i])
            BY DEF EndsQueue
        <3>2. i - m \in 1..queue[r].got /\ m + (i - m) = i
            BY <1>2, <1>3, <1>4
        <3>3. i - m = queue[r].got
            <4>1. EndsQueue(s[m + (i - m)])
                BY <3>1, <3>2
            <4> HIDE DEF s
            <4> QED
                BY <1>3, <3>2, <4>1 DEF EndsOnce
        <3>4. i = n
            BY <1>2, <1>3, <1>4, <3>3
        <3> QED
            BY <1>6, <2>4, <3>1, <3>4 DEF Broke
    <2>6. PICK k \in DOMAIN s : /\ LastState(s) = s[k].state /\ s[k].state # NoState
                                /\ \A j \in DOMAIN s : j > k => s[j].state = NoState
        BY <1>3, <2>4, <2>5, LastStateIs
    <2>7. k \in (m + 1)..n
        <3>1. k \in 1..n /\ ~(i > k)
            BY <1>3, <2>2, <2>4, <2>5, <2>6
        <3> QED
            BY <1>2, <2>4, <3>1
    <2>8. LastSince(s, m, n, LastState(s))
        <3>1. \A j \in (k + 1)..n : j \in DOMAIN s /\ j > k
            BY <1>2, <1>3, <2>2, <2>7
        <3> QED
            BY <2>6, <2>7, <3>1 DEF LastSince
    <2>9. LastState(s) \in TaskState
        <3>1. s[k] \in AgentExecutionEvent
            BY <1>3
        <3> QED
            BY <2>6, <3>1, EventState
    <2>10. current[r].state = LastState(s)
        BY <1>2, <2>8, <2>9 DEF KnowsOf
    <2>11. ASSUME queue[r].bus = registered PROVE LastState(s) \in INTERRUPTED_STATE_LIST
        <3>1. \A c \in Request : exec[c] \in {"none", "settled"}
            <4>1. ASSUME NEW c \in Send, c # r PROVE exec[c] \in {"none", "settled"}
                <5>1. c \in Request /\ (pc[c] = "idle" \/ Over(c))
                    BY <4>1, OthersRest DEF Send
                <5> QED
                    BY <5>1 DEF Over, TurnInv
            <4>2. \A c \in Request \ Send : exec[c] = "none"
                BY DEF TurnInv
            <4> QED
                BY <2>1, <4>1, <4>2
        <3>2. registered # NoBus
            BY <1>3, <2>11, NoBusAssumption
        <3>3. LastState(log[registered]) \in keepBusAliveStates
            BY <1>1, <2>1, <2>11, <3>1, <3>2 DEF KeptInv
        <3> QED
            BY <2>11, <3>3 DEF Reports, Events
    <2> QED
        BY <1>1, <2>1, <2>4, <2>10, <2>11
<1> QED
    BY <1>5, <1>6

LEMMA FinishReply ==
    ASSUME Reports, TakesTurns, HandlerInv, TurnInv, KeptInv, NEW r \in Send, StepOf(r),
           Method[r] # "stream", Method' = Method, RepliesTo(r), Finish(r)
    PROVE  RepliesTo(r)'
<1>1. r \in Request /\ pc \in [Request -> PC] /\ pc[r] = "drained"
    BY DEF HandlerInv, TypeOK, Send, Finish, At
<1>2. /\ HasQueue(r) /\ Folded(r) > queue[r].from
      /\ current[r] # NoTask /\ ~final[r] =>
            \/ current[r].state \in TERMINAL_STATE_LIST \cup INTERRUPTED_STATE_LIST
            \/ /\ exec[r] = "settled" /\ queue[r].bus # registered
               /\ current[r].state = LastState(Events(r))
    BY <1>1, LastHeard
<1>3. /\ KnowsOf(r) /\ Method[r] \in {"blocking", "nonblocking"} /\ answer[r].kind # "error"
      /\ answer \in [Request -> Answer]
    BY <1>1, <1>2, ReplyAt
<1>4. /\ final[r] \/ current[r] # NoTask
      /\ Method[r] = "nonblocking" => answer[r].kind # "none"
    BY <1>1, <1>2, <1>3 DEF KnowsOf
<1>5. /\ queue' = queue /\ log' = log /\ registered' = registered /\ exec' = exec /\ sent' = sent
    BY DEF Finish, busVars, execVars
<1>6. FinalResult(r) # NoAnswer
    BY <1>4 DEF FinalResult, TaskAnswer, NoAnswer
<1>7. /\ pc'[r] = "done"
      /\ answer'[r] = answer[r] \/ (answer[r].kind = "none" /\ Method[r] = "blocking" /\ answer'[r] = FinalResult(r))
    <2>1. CASE Method[r] = "blocking"
        <3>1. Goto(r, "done") /\ Settled(r, FinalResult(r).kind, FinalResult(r).state)
            BY <1>6, <2>1 DEF Finish
        <3>2. FinalResult(r) = [kind |-> FinalResult(r).kind, state |-> FinalResult(r).state]
            BY <1>6 DEF FinalResult, TaskAnswer
        <3> QED
            BY <1>1, <1>3, <2>1, <3>1, <3>2 DEF Goto, Settled
    <2>2. CASE Method[r] = "nonblocking"
        <3>1. Goto(r, "done") /\ Settled(r, "error", NoState)
            BY <2>2 DEF Finish, Refuse
        <3> QED
            BY <1>1, <1>3, <1>4, <2>2, <3>1 DEF Goto, Settled
    <2> QED
        BY <1>3, <2>1, <2>2
<1>8. FinalResult(r).kind \in {"task", "message"}
    BY <1>6 DEF FinalResult, TaskAnswer
<1>9. ~(\E s : Left(r, s))
    BY <1>1 DEF Left
<1>10. ASSUME Method[r] = "blocking", answer'[r].kind = "task"
       PROVE  answer'[r].state \in TERMINAL_STATE_LIST \cup INTERRUPTED_STATE_LIST \/ Left(r, answer[r].state)'
    <2>1. CASE answer'[r] = answer[r]
        BY <1>1, <1>9, <1>10, <2>1 DEF RepliesTo, ReplyOf
    <2>2. CASE answer'[r] = FinalResult(r)
        <3>1. ~final[r] /\ current[r] # NoTask /\ answer'[r].state = current[r].state
            BY <1>6, <1>10, <2>2 DEF FinalResult, TaskAnswer
        <3>2. CASE current[r].state \in TERMINAL_STATE_LIST \cup INTERRUPTED_STATE_LIST
            BY <3>1, <3>2
        <3>3. CASE /\ exec[r] = "settled" /\ queue[r].bus # registered
                   /\ current[r].state = LastState(Events(r))
            <4>1. LastState(Events(r)') = LastState(Events(r)) /\ HasQueue(r)'
                BY <1>2, <1>5 DEF Events, HasQueue
            <4> QED
                BY <1>5, <1>7, <3>1, <3>3, <4>1 DEF Left
        <3> QED
            BY <1>2, <3>1, <3>2, <3>3
    <2> QED
        BY <1>7, <2>1, <2>2
<1> QED
    BY <1>3, <1>5, <1>7, <1>8, <1>10, <1>1 DEF RepliesTo, ReplyOf

\* An executor's step answers nobody; what it publishes can be told.
LEMMA RunReply ==
    ASSUME PayloadCarries, HandlerInv, TurnInv, NEW r \in Send, Method[r] # "stream", Method' = Method, RepliesTo(r),
           Execute(r)
    PROVE  RepliesTo(r)'
<1>1. /\ r \in Request /\ exec[r] # "none" /\ exec[r] # "settled" /\ exec'[r] # "none" /\ HasQueue(r)
      /\ exec \in [Request -> {"none", "running", "returned", "settled"}]
    <2>1. r \in Request /\ exec \in [Request -> {"none", "running", "returned", "settled"}]
        BY DEF HandlerInv, TypeOK, Send
    <2>2. exec[r] # "none" /\ exec[r] # "settled" /\ exec'[r] # "none"
        BY <2>1 DEF Execute, Publish, Return, Throw, Settle
    <2> QED
        BY <2>1, <2>2 DEF HandlerInv, StageInv, HasQueue
<1>2. /\ pc' = pc /\ answer' = answer /\ sent' = sent /\ row' = row /\ current' = current /\ final' = final
    BY DEF Execute, Publish, Return, Throw, Settle, callVars, storeVars, rmVars
<1>3. answer[r].kind # "error"
    BY <1>1 DEF RepliesTo
<1>4. CASE pc[r] = "done"
    <2>1. Method[r] = "blocking" /\ answer[r].kind = "task" =>
            answer[r].state \in TERMINAL_STATE_LIST \cup INTERRUPTED_STATE_LIST
        BY <1>1 DEF RepliesTo, ReplyOf, Left
    <2> QED
        BY <1>2, <1>3, <1>4, <2>1 DEF RepliesTo, ReplyOf
<1>5. CASE pc[r] # "done"
    <2>1. /\ HearOf(r) /\ ToldOf(r) /\ KnowsOf(r)
          /\ Folded(r) \in Nat /\ queue[r].from \in Nat /\ Len(Events(r)) \in Nat
          /\ queue[r].from <= Folded(r) /\ Folded(r) <= Len(Events(r))
        BY <1>1, <1>5, ReplyAt
    <2>2. pc[r] # "attached"
        BY <1>5 DEF RepliesTo, ReplyOf
    <2>3. ASSUME HasQueue(r)', HearOf(r)', ToldOf(r)', Folded(r)' = Folded(r), queue'[r].from = queue[r].from,
                 \A i \in 1..Len(Events(r)) : Events(r)'[i] = Events(r)[i]
          PROVE  RepliesTo(r)'
        <3>1. \A i \in 1..Folded(r) : Events(r)'[i] = Events(r)[i]
            BY <2>1, <2>3
        <3>2. Method[r] = "nonblocking" /\ Folded(r) > queue[r].from /\ pc'[r] # "folded" => answer'[r].kind # "none"
            BY <1>2, <2>1 DEF KnowsOf
        <3>3. KnowsOf(r)'
            BY <1>2, <2>1, <2>3, <3>1, <3>2, KnowsStill
        <3> QED
            BY <1>2, <1>5, <2>2, <2>3, <3>3, ReplyKept
    <2>4. CASE Publish(r)
        <3>1. PICK e : e = Head(script[r].events)
            OBVIOUS
        <3>2. /\ HasQueue(r)' /\ HearOf(r)' /\ queue'[r].from = queue[r].from /\ Folded(r)' = Folded(r)
              /\ Len(Events(r)') = Len(Events(r)) + 1 /\ Events(r)'[Len(Events(r)) + 1] = e
              /\ \A i \in 1..Len(Events(r)) : Events(r)'[i] = Events(r)[i]
              /\ exec[r] = "running" /\ exec' = exec
              /\ script'[r].events = Tail(script[r].events) /\ script'[r].ends = script[r].ends
              /\ 1 \in DOMAIN script[r].events /\ e = script[r].events[1]
            BY <1>1, <2>1, <2>4, <3>1, PublishHears
        <3>3. script[r].events \in Seq(AgentExecutionEvent)
            BY <1>1 DEF HandlerInv, StageInv, Code
        <3>4. Telling(e) => Told(r)'
            <4>1. Len(Events(r)) + 1 \in (queue[r].from + 1)..Len(Events(r)')
                BY <2>1, <3>2
            <4> QED
                BY <3>2, <4>1 DEF Told
        <3>5. Told(r) => Told(r)'
            <4>1. Len(Events(r)') \in Nat /\ Len(Events(r)) <= Len(Events(r)')
                BY <2>1, <3>2
            <4> QED
                BY <2>1, <3>2, <4>1, ToldStays
        <3>6. ASSUME NEW i \in DOMAIN script[r].events, Telling(script[r].events[i]), i # 1
              PROVE  \E j \in DOMAIN Tail(script[r].events) : Telling(Tail(script[r].events)[j])
            <4>1. i - 1 \in DOMAIN Tail(script[r].events) /\ Tail(script[r].events)[i - 1] = script[r].events[i]
                BY <3>2, <3>3, <3>6
            <4> QED
                BY <3>6, <4>1
        <3>7. script[r].ends = "throw" \/ Told(r) \/ \E i \in DOMAIN script[r].events : Telling(script[r].events[i])
            BY <2>1, <3>2 DEF ToldOf
        <3>8. \/ script'[r].ends = "throw" \/ Told(r)'
              \/ \E j \in DOMAIN script'[r].events : Telling(script'[r].events[j])
            BY <3>2, <3>4, <3>5, <3>6, <3>7
        <3>9. ToldOf(r)'
            BY <3>2, <3>8 DEF ToldOf, Telling
        <3> QED
            BY <2>3, <3>2, <3>9
    <2>5. CASE Throw(r)
        <3>1. PICK es : es = ErrorEvents(r)
            OBVIOUS
        <3>2. /\ HasQueue(r)' /\ HearOf(r)' /\ queue'[r].from = queue[r].from /\ Folded(r)' = Folded(r)
              /\ Len(es) \in Nat \ {0} /\ Len(Events(r)') = Len(Events(r)) + Len(es)
              /\ \A i \in 1..Len(Events(r)) : Events(r)'[i] = Events(r)[i]
              /\ \A i \in (Len(Events(r)) + 1)..(Len(Events(r)) + Len(es)) : Events(r)'[i].state = "FAILED"
              /\ exec'[r] = "returned"
            BY <1>1, <2>1, <2>5, <3>1, ThrowHears
        <3>3. Told(r)'
            <4>1. /\ Len(Events(r)) + 1 \in (queue[r].from + 1)..Len(Events(r)')
                  /\ Len(Events(r)) + 1 \in (Len(Events(r)) + 1)..(Len(Events(r)) + Len(es))
                BY <2>1, <3>2
            <4>2. Events(r)'[Len(Events(r)) + 1].state # NoState
                BY <3>2, <4>1 DEF NoState
            <4> QED
                BY <3>2, <4>1, <4>2 DEF Told, Telling
        <3>4. ToldOf(r)'
            BY <3>2, <3>3 DEF ToldOf
        <3> QED
            BY <2>3, <3>2, <3>4
    <2>6. CASE Return(r) \/ Settle(r)
        <3>1. /\ HasQueue(r)' /\ HearOf(r)' /\ Folded(r)' = Folded(r) /\ Events(r)' = Events(r)
              /\ queue'[r].from = queue[r].from /\ exec'[r] \in {"returned", "settled"}
            BY <1>1, <2>1, <2>6, RanHears
        <3>2. Told(r)
            <4>1. CASE Return(r)
                BY <2>1, <4>1 DEF Return, ToldOf
            <4>2. CASE Settle(r)
                BY <2>1, <4>2 DEF Settle, ToldOf
            <4> QED
                BY <2>6, <4>1, <4>2
        <3>3. ToldOf(r)'
            BY <3>1, <3>2 DEF ToldOf, Told
        <3> QED
            BY <2>3, <3>1, <3>3
    <2> QED
        BY <2>4, <2>5, <2>6 DEF Execute
<1> QED
    BY <1>4, <1>5

LEMMA ReplySteps ==
    ASSUME OpensTask, Reports, TakesTurns, PayloadCarries, HandlerInv, TurnInv, KeptInv, NEW r \in Send, WriterOf(r),
           StepOf(r), Method' = Method, Method[r] # "stream", RepliesTo(r), failures' = 0
    PROVE  RepliesTo(r)'
<1>1. r \in Request /\ Method[r] \in {"blocking", "nonblocking"} /\ ~FoldFails(r) /\ ~StoreFails(r)
    BY StoreHeld DEF Send, SendMethod
<1>2. CASE LoadContext(r) \/ SaveContext(r) \/ Open(r) \/ Await(r) \/ FoldLoad(r) \/ FoldMessage(r) \/ FoldSave(r)
           \/ Deliver(r) \/ Finish(r) \/ Execute(r)
    BY <1>2, BeginReply, PassReply, FoldReply, DeliverReply, FinishReply, RunReply
<1>3. ~Launch(r) /\ ~RepairLoad(r) /\ ~RepairSave(r)
    <2>1. pc[r] # "attached"
        BY DEF RepliesTo, ReplyOf
    <2>2. pc[r] \notin {"failing", "repairing"}
        <3> SUFFICES ASSUME pc[r] \in {"failing", "repairing"} PROVE FALSE
            OBVIOUS
        <3>1. HasQueue(r) /\ pc[r] # "done"
            BY <1>1 DEF HandlerInv, StageInv, Fits, HasQueue
        <3>2. ReachOf(r)
            BY <3>1 DEF RepliesTo, ReplyOf, HearOf
        <3> QED
            BY <3>2 DEF ReachOf
    <2> QED
        BY <2>1, <2>2 DEF Launch, RepairLoad, RepairSave, At
<1>4. ~BreakStream(r) /\ ~Disconnect(r) /\ ~CancelLoad(r) /\ ~CancelFork(r) /\ ~Subscribe(r) /\ ~Forward(r)
    BY <1>1 DEF BreakStream, Violates, Disconnect, CancelLoad, CancelFork, Subscribe, Forward
<1>5. ~AgentCancel(r) /\ ~Mark(r) /\ ~Verify(r) /\ ~Snapshot(r)
    BY DEF WriterOf, AgentCancel, Mark, Verify, Snapshot, At
<1> QED
    BY <1>1, <1>2, <1>3, <1>4, <1>5 DEF StepOf, Handle

-----------------------------------------------------------------------------
(* A stream's own steps. *)

\* The event a stream holds, and how far its pattern is.
LEMMA StreamAt ==
    ASSUME HandlerInv, NEW r \in Send, pc[r] \in {"pulled", "folding", "folded"}
    PROVE  /\ HasQueue(r) /\ queue[r].loop = "holding" /\ queue[r].got \in Nat /\ queue[r].from \in Nat /\ queue[r].got > 0
           /\ Held(r) = Events(r)[queue[r].from + queue[r].got] /\ Held(r) \in AgentExecutionEvent
           /\ queue[r].from + queue[r].got <= Len(Events(r)) /\ Len(Events(r)) \in Nat
           /\ Passed(r) = (IF pc[r] = "pulled" THEN queue[r].got - 1 ELSE queue[r].got)
           /\ queue[r].got > 1 => Events(r)[queue[r].from + 1].kind # "message"
<1>1. r \in Request /\ HasQueue(r) /\ queue[r].loop = "holding"
    BY DEF HandlerInv, StageInv, Fits, Send, HasQueue
<1>2. /\ queue[r].bus \in Bus /\ queue[r].got \in Nat /\ queue[r].from \in Nat /\ Events(r) \in Seq(AgentExecutionEvent)
      /\ queue[r].buf \in Seq(AgentExecutionEvent)
      /\ Follows(queue[r], Events(r)) /\ EndsOnce(queue[r], Events(r))
    BY <1>1, QueueFacts
<1>3. /\ queue[r].from + queue[r].got + Len(queue[r].buf) <= Len(Events(r)) /\ queue[r].got > 0
      /\ Held(r) = Events(r)[queue[r].from + queue[r].got]
    BY <1>1, <1>2 DEF Follows, Held
<1>4. queue[r].from + queue[r].got <= Len(Events(r)) /\ Len(Events(r)) \in Nat
    BY <1>2, <1>3
<1>5. Held(r) \in AgentExecutionEvent
    BY <1>1, <1>2, HeldEvent, RequestAssumption DEF HandlerInv, Held
<1>6. queue[r].got > 1 => Events(r)[queue[r].from + 1].kind # "message"
    <2> SUFFICES ASSUME queue[r].got > 1, Events(r)[queue[r].from + 1].kind = "message" PROVE FALSE
        OBVIOUS
    <2>1. 1 \in 1..queue[r].got /\ EndsQueue(Events(r)[queue[r].from + 1])
        BY <1>2 DEF EndsQueue
    <2>2. 1 = queue[r].got
        BY <1>2, <2>1 DEF EndsOnce
    <2> QED
        BY <1>2, <2>2
<1>7. Passed(r) = (IF pc[r] = "pulled" THEN queue[r].got - 1 ELSE queue[r].got)
    BY <1>2 DEF Passed
<1> QED
    BY <1>1, <1>2, <1>3, <1>4, <1>5, <1>6, <1>7

LEMMA BeginStream ==
    ASSUME OpensTask, HandlerInv, TurnInv, NEW r \in Send, Method[r] = "stream", Method' = Method, RepliesTo(r),
           LoadContext(r) \/ SaveContext(r) \/ Open(r)
    PROVE  RepliesTo(r)'
<1>1. /\ r \in Request /\ pc \in [Request -> PC] /\ Fits(pc[r], queue[r].loop)
      /\ pc[r] \in {"idle", "loaded", "ready"} /\ answer \in [Request -> Answer]
    BY DEF HandlerInv, TypeOK, StageInv, Send, LoadContext, SaveContext, Open, MayStart, At
<1>2. ~HasQueue(r) /\ exec[r] = "none" /\ pattern[r] = "undetermined" /\ answer[r].kind # "error"
    BY <1>1 DEF Fits, HasQueue, TurnInv, RepliesTo, StreamOf
<1>3. CASE LoadContext(r) \/ SaveContext(r)
    <2>1. /\ sent' = sent /\ pattern' = pattern /\ exec' = exec /\ queue' = queue
          /\ pc'[r] \in {"loaded", "ready", "done"}
          /\ \/ answer' = answer
             \/ pc'[r] = "done" /\ Settled(r, "error", NoState)
        BY <1>1, <1>3 DEF LoadContext, SaveContext, Refuse, Goto, execVars, busVars
    <2>2. answer'[r] = answer[r] \/ (pc'[r] = "done" /\ answer'[r].kind = "error")
        BY <1>1, <2>1 DEF Settled
    <2>3. ~HasQueue(r)'
        BY <1>2, <2>1 DEF HasQueue
    <2> QED
        BY <1>1, <1>2, <2>1, <2>2, <2>3 DEF RepliesTo, StreamOf
<1>4. CASE Open(r)
    <2>1. HasQueue(r)' /\ queue'[r].got = 0 /\ pc'[r] = "attached"
        BY <1>4, OpenHears
    <2>2. answer' = answer /\ sent' = sent /\ pattern' = pattern
        BY <1>4 DEF Open
    <2>3. Passed(r)' = 0
        BY <2>1 DEF Passed
    <2> QED
        BY <1>2, <2>1, <2>2, <2>3 DEF RepliesTo, StreamOf
<1> QED
    BY <1>3, <1>4

\* A stream ends with an error when the order of its events is broken.
LEMMA BreakReply ==
    ASSUME HandlerInv, NEW r \in Send, Method[r] = "stream", Method' = Method, RepliesTo(r), BreakStream(r)
    PROVE  RepliesTo(r)'
<1> DEFINE m == queue[r].from
           got == queue[r].got
<1>1. /\ r \in Request /\ pc \in [Request -> PC] /\ answer \in [Request -> Answer] /\ BusTypeOK /\ pc[r] = "pulled"
      /\ pattern \in [Request -> {"undetermined", "message-only", "task-lifecycle"}]
    BY DEF HandlerInv, TypeOK, Send, BreakStream, At
<1>2. /\ HasQueue(r) /\ got \in Nat /\ m \in Nat /\ got > 0
      /\ Held(r) = Events(r)[m + got] /\ Held(r) \in AgentExecutionEvent
      /\ m + got <= Len(Events(r)) /\ Len(Events(r)) \in Nat /\ Passed(r) = got - 1
      /\ got > 1 => Events(r)[m + 1].kind # "message"
    BY <1>1, StreamAt
<1>3. /\ pattern[r] = "undetermined" <=> got = 1
      /\ pattern[r] = "message-only" => Events(r)[m + 1].kind = "message"
    <2>1. Passed(r) = 0 <=> got = 1
        BY <1>2
    <2> QED
        BY <1>1, <1>2, <2>1 DEF RepliesTo, StreamOf
<1>4. Misopens(r)
    <2>1. m + got \in (m + 1)..Len(Events(r)) /\ (m + got = m + 1 <=> got = 1)
        BY <1>2
    <2>2. Violates(r)
        BY DEF BreakStream
    <2>3. pattern[r] # "message-only"
        <3>1. got # 1 => got > 1
            BY <1>2
        <3> QED
            BY <1>2, <1>3, <3>1
    <2>4. Held(r).kind \in {"message", "task", "statusUpdate", "artifactUpdate"}
        BY <1>2 DEF AgentExecutionEvent
    <2>5. ~((got = 1) <=> (Held(r).kind \in {"task", "message"}))
        BY <1>1, <1>3, <2>2, <2>3, <2>4 DEF Violates
    <2>6. ~((m + got = m + 1) <=> (Events(r)[m + got].kind \in {"task", "message"}))
        BY <1>2, <2>1, <2>5
    <2> QED
        BY <2>1, <2>6 DEF Misopens
<1>5. /\ queue'[r].bus = queue[r].bus /\ queue'[r].from = queue[r].from /\ HasQueue(r)' /\ log' = log
    <2>1. queue[r] \in Queue /\ queue'[r] = Leave(queue[r]) /\ log' = log
        BY <1>1, RequestAssumption DEF BreakStream, StopQueue, BusTypeOK
    <2> QED
        BY <2>1 DEF Leave, Stop, Resolved, Queue, HasQueue
<1>6. Misopens(r)'
    BY <1>4, <1>5 DEF Misopens, Events
<1>7. pc'[r] = "done" /\ (answer'[r] = answer[r] \/ answer'[r].kind = "error") /\ sent' = sent
    BY <1>1 DEF BreakStream, Refuse, Goto, Settled
<1> QED
    BY <1>5, <1>6, <1>7 DEF RepliesTo, StreamOf

LEMMA AdvanceReply ==
    ASSUME HandlerInv, NEW r \in Send, Method[r] = "stream", Method' = Method, RepliesTo(r),
           FoldMessage(r) \/ FoldLoad(r)
    PROVE  RepliesTo(r)'
<1> DEFINE m == queue[r].from
           got == queue[r].got
<1>1. /\ r \in Request /\ pc \in [Request -> PC] /\ pc[r] = "pulled" /\ pc'[r] \in {"folded", "folding"}
      /\ pattern \in [Request -> {"undetermined", "message-only", "task-lifecycle"}]
      /\ answer' = answer /\ sent' = sent /\ queue' = queue /\ log' = log /\ Advanced(r)
    BY DEF HandlerInv, TypeOK, Send, FoldMessage, FoldLoad, At, Goto, busVars
<1>2. /\ HasQueue(r) /\ got \in Nat /\ m \in Nat /\ got > 0
      /\ Held(r) = Events(r)[m + got] /\ Passed(r) = got - 1
    BY <1>1, StreamAt
<1>3. /\ pattern[r] = "undetermined" <=> got = 1
      /\ pattern[r] = "message-only" => Events(r)[m + 1].kind = "message"
      /\ answer[r].kind # "error" /\ (sent[r] => answer[r].kind # "none")
    <2>1. Passed(r) = 0 <=> got = 1
        BY <1>2
    <2> QED
        BY <1>1, <1>2, <2>1 DEF RepliesTo, StreamOf
<1>4. HasQueue(r)' /\ Events(r)' = Events(r) /\ queue'[r].from = m
    BY <1>1, <1>2 DEF HasQueue, Events
<1>5. Passed(r)' # 0
    <2>1. Passed(r)' = got - 0
        BY <1>1 DEF Passed
    <2> QED
        BY <1>2, <2>1
<1>6. /\ pattern'[r] # "undetermined"
      /\ pattern'[r] = "message-only" => Events(r)[m + 1].kind = "message"
    <2>1. CASE pattern[r] = "undetermined"
        <3>1. pattern'[r] = IF Held(r).kind = "message" THEN "message-only" ELSE "task-lifecycle"
            BY <1>1, <2>1 DEF Advanced
        <3>2. Held(r) = Events(r)[m + 1]
            BY <1>2, <1>3, <2>1
        <3> QED
            BY <3>1, <3>2
    <2>2. CASE pattern[r] # "undetermined"
        BY <1>1, <1>3, <2>2 DEF Advanced
    <2> QED
        BY <2>1, <2>2
<1> QED
    BY <1>1, <1>3, <1>4, <1>5, <1>6 DEF RepliesTo, StreamOf

LEMMA DrainStream ==
    ASSUME HandlerInv, NEW r \in Send, Method[r] = "stream", Method' = Method, RepliesTo(r),
           Launch(r) \/ Await(r) \/ FoldSave(r) \/ Deliver(r) \/ Finish(r) \/ Disconnect(r)
    PROVE  RepliesTo(r)'
<1>1. /\ r \in Request /\ pc \in [Request -> PC] /\ answer \in [Request -> Answer] /\ BusTypeOK
      /\ pc[r] \in {"attached", "draining", "folding", "folded", "drained"}
      /\ sent \in [Request -> BOOLEAN] /\ HasQueue(r)
    BY DEF HandlerInv, TypeOK, StageInv, Fits, Send, Launch, Await, FoldSave, Deliver, Finish, Disconnect, At, HasQueue
<1>2. queue[r].got \in Nat /\ queue[r].from \in Nat /\ answer[r].kind # "error"
    BY <1>1, QueueFacts DEF RepliesTo
<1>3. /\ pattern[r] = "undetermined" <=> Passed(r) = 0
      /\ pattern[r] = "message-only" => Events(r)[queue[r].from + 1].kind = "message"
    BY <1>1 DEF RepliesTo, StreamOf
<1>4. /\ sent'[r] = sent[r] /\ pattern' = pattern
      /\ answer'[r].kind # "error" /\ (answer[r].kind # "none" => answer'[r].kind # "none")
    <2>1. CASE Launch(r) \/ Await(r) \/ FoldSave(r)
        BY <1>2, <2>1 DEF Launch, Await, FoldSave
    <2>2. CASE Deliver(r)
        <3>1. Result(r) = NoAnswer
            BY DEF Result
        <3> QED
            BY <1>2, <2>2, <3>1 DEF Deliver
    <2>3. CASE Finish(r) \/ Disconnect(r)
        <3>1. Settled(r, "closed", NoState) /\ sent' = sent /\ pattern' = pattern
            BY <2>3 DEF Finish, Disconnect
        <3> QED
            BY <1>1, <1>2, <3>1 DEF Settled
    <2> QED
        BY <2>1, <2>2, <2>3
<1>5. /\ HasQueue(r)' /\ Events(r)' = Events(r) /\ queue'[r].from = queue[r].from
      /\ pc'[r] # "done" => Passed(r)' = Passed(r)
    <2>1. CASE Await(r)
        <3>1. /\ Pull(r) /\ pc[r] = "draining"
              /\ pc'[r] = CASE queue'[r].loop = "holding" -> "pulled"
                            [] queue'[r].loop = "done" -> "drained"
                            [] OTHER -> "draining"
            BY <1>1, <2>1 DEF Await, At
        <3>2. /\ queue'[r].bus = queue[r].bus /\ queue'[r].from = queue[r].from /\ log' = log
              /\ queue'[r].loop \in {"done", "holding", "parked"}
              /\ queue'[r].got = queue[r].got \/ (queue'[r].got = queue[r].got + 1 /\ queue'[r].loop = "holding")
              /\ queue'[r].loop = "holding" => queue'[r].got = queue[r].got + 1
            BY <1>1, <3>1, PullMoves
        <3>3. Passed(r) = queue[r].got
            BY <1>2, <3>1 DEF Passed
        <3>4. Passed(r)' = queue[r].got
            <4>1. CASE queue'[r].loop = "holding"
                <5>1. pc'[r] = "pulled" /\ queue'[r].got = queue[r].got + 1
                    BY <3>1, <3>2, <4>1
                <5>2. Passed(r)' = queue'[r].got - 1
                    BY <5>1 DEF Passed
                <5> QED
                    BY <1>2, <5>1, <5>2
            <4>2. CASE queue'[r].loop # "holding"
                <5>1. Passed(r)' = queue[r].got - 0
                    BY <3>1, <3>2, <4>2 DEF Passed
                <5> QED
                    BY <1>2, <5>1
            <4> QED
                BY <4>1, <4>2
        <3> QED
            BY <3>2, <3>3, <3>4 DEF HasQueue, Events
    <2>2. CASE Launch(r) \/ FoldSave(r) \/ Deliver(r) \/ Finish(r)
        <3>1. queue' = queue /\ log' = log /\ pc[r] # "pulled" /\ pc'[r] # "pulled"
            BY <1>1, <2>2 DEF Launch, FoldSave, Deliver, Finish, Goto, Refuse, busVars
        <3> QED
            BY <1>1, <3>1 DEF HasQueue, Events, Passed
    <2>3. CASE Disconnect(r)
        <3>1. queue[r] \in Queue /\ queue'[r] = Leave(queue[r]) /\ log' = log /\ pc'[r] = "done"
            BY <1>1, <2>3, RequestAssumption DEF Disconnect, StopQueue, BusTypeOK, Goto
        <3> QED
            BY <3>1 DEF Leave, Stop, Resolved, Queue, HasQueue, Events
    <2> QED
        BY <2>1, <2>2, <2>3
<1> QED
    BY <1>1, <1>2, <1>3, <1>4, <1>5 DEF RepliesTo, StreamOf

LEMMA RunStream ==
    ASSUME PayloadCarries, HandlerInv, TurnInv, NEW r \in Send, WriterOf(r), StepOf(r),
           Method[r] = "stream", Method' = Method, RepliesTo(r), Execute(r)
    PROVE  RepliesTo(r)'
<1>1. r \in Request /\ ~AgentCancel(r) /\ exec[r] # "none" /\ HasQueue(r)
    BY DEF Send, WriterOf, AgentCancel, At, HandlerInv, StageInv, HasQueue,
           Execute, Publish, Return, Throw, Settle
<1>2. /\ pc' = pc /\ answer' = answer /\ sent' = sent /\ pattern' = pattern
    BY DEF Execute, Publish, Return, Throw, Settle, callVars
<1>3. queue'[r].from = queue[r].from /\ queue'[r].got = queue[r].got
    BY <1>1, PlaceKept
<1>4. queue'[r].bus = queue[r].bus /\ HasQueue(r)'
    <2>1. Move(r)
        BY <1>1, MoveStep
    <2>2. BusTypeOK /\ queue[r].bus \in Bus
        BY <1>1, QueueFacts DEF HandlerInv, TypeOK
    <2>3. UNCHANGED busVars \/ (\E es : PublishOn(queue[r].bus, es)) \/ SettleBus(queue[r].bus)
        BY DEF Execute, Publish, Return, Throw, Settle
    <2>4. queue'[r].bus = queue[r].bus
        BY <1>1, <2>2, <2>3, PublishEffect, SettleEffect DEF Kept, busVars
    <2> QED
        BY <1>1, <2>1, <2>4 DEF Move, HasQueue
<1>5. /\ Len(Events(r)) \in Nat /\ Len(Events(r)') \in Nat /\ Len(Events(r)) <= Len(Events(r)')
      /\ \A i \in 1..Len(Events(r)) : Events(r)'[i] = Events(r)[i]
      /\ queue[r].from \in Nat /\ queue[r].got \in Nat /\ queue[r].buf \in Seq(AgentExecutionEvent)
      /\ Follows(queue[r], Events(r))
    <2>1. queue[r].bus \in Bus
        BY <1>1, QueueFacts
    <2> QED
        BY <1>1, <1>4, <2>1, LogsGrow, QueueFacts DEF Events
<1>6. Misopens(r) => Misopens(r)'
    BY <1>3, <1>5, MisopensStays
<1>7. Passed(r)' = Passed(r)
    BY <1>2, <1>3 DEF Passed
<1>8. ASSUME pc[r] # "done", pattern[r] = "message-only"
      PROVE  Events(r)'[queue'[r].from + 1].kind = "message"
    <2>1. Events(r)[queue[r].from + 1].kind = "message" /\ Passed(r) # 0
        BY <1>1, <1>8 DEF RepliesTo, StreamOf
    <2>2. queue[r].got > 0
        <3>1. CASE pc[r] = "pulled"
            BY <3>1, StreamAt
        <3>2. CASE pc[r] # "pulled"
            <4>1. Passed(r) = queue[r].got - 0
                BY <3>2 DEF Passed
            <4> QED
                BY <1>5, <2>1, <4>1
        <3> QED
            BY <3>1, <3>2
    <2>3. queue[r].from + 1 \in 1..Len(Events(r))
        <3>1. queue[r].from + queue[r].got + Len(queue[r].buf) <= Len(Events(r)) /\ Len(queue[r].buf) \in Nat
            BY <1>5 DEF Follows
        <3>2. \A f, g, l, n \in Nat : f + g + l <= n /\ g > 0 => f + 1 \in 1..n
            OBVIOUS
        <3> QED
            BY <1>5, <2>2, <3>1, <3>2
    <2> QED
        BY <1>3, <1>5, <2>1, <2>3
<1> QED
    BY <1>1, <1>2, <1>4, <1>6, <1>7, <1>8 DEF RepliesTo, StreamOf

LEMMA StreamSteps ==
    ASSUME OpensTask, PayloadCarries, HandlerInv, TurnInv, NEW r \in Send, WriterOf(r),
           StepOf(r), Method' = Method, Method[r] = "stream", RepliesTo(r), failures' = 0
    PROVE  RepliesTo(r)'
<1>1. ~FoldFails(r) /\ ~StoreFails(r)
    BY StoreHeld DEF Send
<1>2. CASE LoadContext(r) \/ SaveContext(r) \/ Open(r) \/ BreakStream(r) \/ FoldMessage(r) \/ FoldLoad(r) \/ Launch(r)
           \/ Await(r) \/ FoldSave(r) \/ Deliver(r) \/ Finish(r) \/ Disconnect(r) \/ Execute(r)
    BY <1>2, BeginStream, BreakReply, AdvanceReply, DrainStream, RunStream
<1>3. CASE RepairLoad(r) \/ RepairSave(r)
    <2>1. /\ answer' = answer /\ sent' = sent /\ pattern' = pattern /\ pc[r] \in {"failing", "repairing"}
        BY <1>3 DEF RepairLoad, RepairSave, At
    <2>2. RepairLoad(r) => pc'[r] = "repairing" /\ queue' = queue /\ log' = log
        BY DEF RepairLoad, Goto, busVars, Send, HandlerInv, TypeOK
    <2>3. RepairSave(r) => pc'[r] = "done"
        BY DEF RepairSave, Goto, Send, HandlerInv, TypeOK
    <2>4. answer[r].kind # "error"
        BY <2>1 DEF RepliesTo
    <2>5. RepairLoad(r) => (HasQueue(r)' <=> HasQueue(r)) /\ Passed(r)' = Passed(r) /\ Events(r)' = Events(r)
        BY <2>1, <2>2 DEF HasQueue, Passed, Events
    <2> QED
        BY <1>3, <2>1, <2>2, <2>3, <2>4, <2>5 DEF RepliesTo, StreamOf
<1>4. ~CancelLoad(r) /\ ~CancelFork(r) /\ ~Subscribe(r) /\ ~Forward(r)
    BY DEF CancelLoad, CancelFork, Subscribe, Forward
<1>5. ~AgentCancel(r) /\ ~Mark(r) /\ ~Verify(r) /\ ~Snapshot(r)
    BY DEF WriterOf, AgentCancel, Mark, Verify, Snapshot, At
<1> QED
    BY <1>1, <1>2, <1>3, <1>4, <1>5 DEF StepOf, Handle

LEMMA RepliesStep ==
    ASSUME TakesTurns, NoCancel, OpensTask, Reports, PayloadCarries, HandlerInv, TurnInv, WriterInv, KeptInv, RepliesInv,
           NEW r \in Request, StepOf(r), Method' = Method
    PROVE  RepliesInv'
<1> SUFFICES ASSUME failures' = 0, NEW c \in Send PROVE RepliesTo(c)'
    BY DEF RepliesInv, Send
<1>1. RepliesTo(c) /\ c \in Request
    BY StoreHeld DEF RepliesInv, Send
<1>2. CASE r \notin Send
    BY <1>1, <1>2, WatchedReply
<1>3. CASE r \in Send /\ c # r
    <2>1. pc[c] = "idle" \/ Over(c)
        BY <1>3, OthersRest
    <2>2. ~AgentCancel(r)
        BY <1>3 DEF WriterInv, WriterOf, AgentCancel, At
    <2> QED
        BY <1>1, <1>3, <2>1, <2>2, RestingReply
<1>4. CASE r = c
    <2>1. WriterOf(c)
        BY DEF WriterInv
    <2> QED
        BY <1>1, <1>4, <2>1, ReplySteps, StreamSteps
<1> QED
    BY <1>2, <1>3, <1>4

LEMMA RepliesInit == Init => RepliesInv
<1> SUFFICES ASSUME Init, NEW r \in Send PROVE RepliesTo(r)
    BY DEF RepliesInv
<1>1. r \in Request /\ r \in Consumer
    BY RequestAssumption DEF Send
<1>2. /\ pc[r] = "idle" /\ answer[r] = NoAnswer /\ ~sent[r] /\ queue[r] = NoQueue /\ current[r] = NoTask
      /\ pattern[r] = "undetermined"
    BY <1>1 DEF Init, BusInit
<1>3. ~HasQueue(r) /\ answer[r].kind = "none"
    BY <1>2 DEF HasQueue, NoQueue, NoAnswer
<1> QED
    BY <1>2, <1>3 DEF RepliesTo, ReplyOf, StreamOf

LEMMA RepliesUnchanged == RepliesInv /\ UNCHANGED vars => RepliesInv'
<1> SUFFICES ASSUME RepliesInv, UNCHANGED vars, failures' = 0, NEW r \in Send PROVE RepliesTo(r)'
    BY DEF RepliesInv, Send, vars
<1>1. /\ UNCHANGED <<Method, registered, created, listeners, queue, log, row, pc, answer, sent, pattern, current, final,
                     exec, script, tracker, failures>>
    BY DEF vars, busVars, storeVars, callVars, rmVars, execVars
<1>2. RepliesTo(r)
    BY <1>1 DEF RepliesInv
<1>3. /\ Events(r)' = Events(r) /\ Folded(r)' = Folded(r) /\ (HasQueue(r)' <=> HasQueue(r)) /\ Passed(r)' = Passed(r)
    BY <1>1 DEF Events, Folded, HasQueue, Passed
<1>4. /\ HearOf(r) => HearOf(r)'
      /\ ToldOf(r) => ToldOf(r)'
      /\ KnowsOf(r) => KnowsOf(r)'
      /\ Misopens(r) => Misopens(r)'
    <2>1. Broke(r)' <=> Broke(r)
        BY <1>1, <1>3 DEF Broke
    <2> QED
        BY <1>1, <1>3, <2>1 DEF HearOf, ReachOf, BeginOf, Opens, CaughtUp, Held, ToldOf, Told, Telling,
                                    KnowsOf, LastSince, Misopens
<1>5. \A s : Left(r, s) => Left(r, s)'
    BY <1>1, <1>3 DEF Left
<1>6. CASE Method[r] = "stream"
    BY <1>1, <1>2, <1>3, <1>4, <1>6 DEF RepliesTo, StreamOf
<1>7. CASE Method[r] # "stream"
    BY <1>1, <1>2, <1>3, <1>4, <1>5, <1>7 DEF RepliesTo, ReplyOf
<1> QED
    BY <1>6, <1>7

(***************************************************************************)
(* What a send is answered with, for any number of sends, resubscriptions  *)
(* and buses: when clients take turns, nobody cancels, an executor that    *)
(* asked for something returns, the executor of a new task begins with the *)
(* task or a message, one that returns has replied or reported a state,    *)
(* and a bus is kept for an interrupted task only. A send whose executor   *)
(* ran is not answered with an error, a stream's unless the order of its   *)
(* events was broken, and a blocking send's task is in a final state, an   *)
(* interrupted one, or the one its executor left.                          *)
(***************************************************************************)
THEOREM SendIsAnswered ==
    TakesTurns /\ NoCancel /\ AsksAndReturns /\ OpensTask /\ Reports /\ PayloadCarries /\ Spec => []SendAnswerIsFinal
<1> SUFFICES ASSUME TakesTurns, NoCancel, AsksAndReturns, OpensTask, Reports, PayloadCarries
             PROVE  Spec => []SendAnswerIsFinal
    OBVIOUS
<1>1. HandlerInv /\ TurnInv /\ WriterInv /\ KeptInv /\ RepliesInv /\ [Next]_vars => KeptInv' /\ RepliesInv'
    <2> SUFFICES ASSUME HandlerInv, TurnInv, WriterInv, KeptInv, RepliesInv, [Next]_vars PROVE KeptInv' /\ RepliesInv'
        OBVIOUS
    <2>1. ASSUME Next PROVE KeptInv' /\ RepliesInv'
        BY <2>1, KeptStep, RepliesStep DEF Next, StepOf
    <2>2. ASSUME UNCHANGED vars PROVE KeptInv' /\ RepliesInv'
        BY <2>2, KeptUnchanged, RepliesUnchanged
    <2> QED
        BY <2>1, <2>2
<1>2. HandlerInv /\ TurnInv /\ RepliesInv => SendAnswerIsFinal
    <2> SUFFICES ASSUME HandlerInv, TurnInv, RepliesInv PROVE SendAnswerIsFinal
        OBVIOUS
    <2>1. ASSUME failures = 0, NEW r \in Send, exec[r] # "none", Method[r] = "stream" => OpensWell(r)
          PROVE  answer[r].kind # "error"
        <3>1. r \in Request /\ HasQueue(r) /\ RepliesTo(r)
            BY <2>1 DEF Send, HandlerInv, StageInv, HasQueue, RepliesInv
        <3>2. CASE Method[r] = "stream"
            BY <2>1, <3>1, <3>2, WellOpened DEF RepliesTo, StreamOf
        <3>3. CASE Method[r] # "stream"
            BY <2>1, <3>1, <3>3 DEF RepliesTo
        <3> QED
            BY <3>2, <3>3
    <2>2. ASSUME NEW r \in Request, Method[r] = "blocking", answer[r].kind = "task", failures = 0,
                 answer[r].state \notin TERMINAL_STATE_LIST \cup INTERRUPTED_STATE_LIST
          PROVE  exec[r] = "settled" /\ answer[r].state = LastState(log[queue[r].bus])
        <3>1. r \in Send
            BY <2>2 DEF Send, SendMethod
        <3>2. Left(r, answer[r].state)
            BY <2>2, <3>1 DEF RepliesInv, RepliesTo, ReplyOf
        <3> QED
            BY <3>2 DEF Left, Events
    <2> QED
        BY <2>1, <2>2 DEF SendAnswerIsFinal, NoErrorOnceRun, BlockingAnswerIsFinal
<1>3. TakesTurns /\ NoCancel /\ PayloadCarries
    OBVIOUS
<1> QED
    BY <1>1, <1>2, <1>3, KeptInit, RepliesInit, WriterInvariance, PTL DEF Spec
=============================================================================
