------------------------------ MODULE TaskMerge -------------------------------
(***************************************************************************)
(* How the result manager folds an event into a stored task. Messages are  *)
(* their messageId. An artifact list is a function from artifact ids to    *)
(* the parts held under each, Absent when there is none; the order of the  *)
(* artifacts and their names and metadata are left out. NoTid is the empty *)
(* task id of a malformed event.                                           *)
(***************************************************************************)
EXTENDS A2AEvents, Sequences

CONSTANTS TaskId, NoTid, Msg, NoMsg, ArtId, Part, Absent, NoTask

Artifacts == [ArtId -> Seq(Part) \cup {Absent}]

Task == [state : TaskState, history : Seq(Msg), artifacts : Artifacts]

(***************************************************************************)
(* What the events of a task carry: the task's id; for a task event its    *)
(* history and artifacts; for a status update its message, if any; for an  *)
(* artifact update one artifact and whether its parts are to be appended.  *)
(***************************************************************************)
TaskPayload == [tid : TaskId, history : Seq(Msg), artifacts : Artifacts,
                msg : Msg \cup {NoMsg}, append : BOOLEAN]

TaskEventOf == {e \in AgentExecutionEvent : e.kind # "message" /\ e.data \in TaskPayload}

Mentions(history, m) == \E i \in DOMAIN history : history[i] = m

\* incoming artifacts replace persisted ones of the same id; the others stay
MergeArtifacts(persisted, incoming) ==
    [a \in ArtId |-> IF incoming[a] # Absent THEN incoming[a] ELSE persisted[a]]

\* parts are appended to an artifact that exists, and replace it otherwise
PutArtifacts(persisted, incoming, append) ==
    [a \in ArtId |->
        IF incoming[a] = Absent THEN persisted[a]
        ELSE IF append /\ persisted[a] # Absent THEN persisted[a] \o incoming[a]
        ELSE incoming[a]]

WithLatest_NoCheck(history, latest) ==
    IF Mentions(history, latest) THEN history ELSE <<latest>> \o history

\* the latest user message, when there is one, is put first unless it is there
WithLatest(history, latest) ==
    IF latest = NoMsg \/ Mentions(history, latest) THEN history ELSE <<latest>> \o history

WithUpdate_NoCheck(history, m) == IF Mentions(history, m) THEN history ELSE Append(history, m)

\* a status message is added at the end unless it is there
WithUpdate(history, m) ==
    IF m = NoMsg \/ Mentions(history, m) THEN history ELSE Append(history, m)

\* a task event without a history wipes the persisted one
ApplyTaskEvent_NoBackfill(persisted, e, latest) ==
    [state     |-> e.state,
     history   |-> WithLatest(e.data.history, latest),
     artifacts |-> IF persisted = NoTask THEN e.data.artifacts
                   ELSE MergeArtifacts(persisted.artifacts, e.data.artifacts)]

ApplyTaskEvent(persisted, e, latest) ==
    LET history == IF persisted # NoTask /\ e.data.history = <<>>
                   THEN persisted.history ELSE e.data.history
    IN  [state     |-> e.state,
         history   |-> WithLatest(history, latest),
         artifacts |-> IF persisted = NoTask THEN e.data.artifacts
                       ELSE MergeArtifacts(persisted.artifacts, e.data.artifacts)]

ApplyStatusUpdate(task, e) ==
    [state     |-> e.state,
     history   |-> WithUpdate(task.history, e.data.msg),
     artifacts |-> task.artifacts]

ApplyArtifactUpdate(task, e) ==
    [state     |-> task.state,
     history   |-> task.history,
     artifacts |-> PutArtifacts(task.artifacts, e.data.artifacts, e.data.append)]

\* the stored task after e; an update for an unknown task stores nothing
Apply(task, e, latest) ==
    IF e.kind = "task" THEN ApplyTaskEvent(task, e, latest)
    ELSE IF task = NoTask \/ e.kind = "message" THEN task
    ELSE IF e.kind = "statusUpdate" THEN ApplyStatusUpdate(task, e)
    ELSE ApplyArtifactUpdate(task, e)
=============================================================================
