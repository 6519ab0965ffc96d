------------------------------ MODULE A2AEvents ------------------------------
(***************************************************************************)
(* The events an agent executor publishes and the task states they carry,  *)
(* shared by the event bus, the result manager and the request handler.    *)
(* An event keeps its kind, the task state it reports (NoState when it     *)
(* reports none) and a payload drawn from Payload, which stands for        *)
(* everything the server only forwards.                                    *)
(***************************************************************************)
CONSTANT Payload

TaskState == {"SUBMITTED", "WORKING", "INPUT_REQUIRED", "AUTH_REQUIRED",
              "COMPLETED", "FAILED", "CANCELED", "REJECTED"}

NoState == "NONE"

TERMINAL_STATE_LIST == {"COMPLETED", "FAILED", "CANCELED", "REJECTED"}

INPUT_REQUIRED_STATE_LIST == {"INPUT_REQUIRED"}

AUTH_REQUIRED_STATE_LIST == {"AUTH_REQUIRED"}

INTERRUPTED_STATE_LIST == INPUT_REQUIRED_STATE_LIST \cup AUTH_REQUIRED_STATE_LIST

AgentExecutionEvent ==
         [kind : {"message", "artifactUpdate"}, state : {NoState}, data : Payload]
    \cup [kind : {"task", "statusUpdate"}, state : TaskState, data : Payload]

Message(d)         == [kind |-> "message", state |-> NoState, data |-> d]
TaskEvent(s, d)    == [kind |-> "task", state |-> s, data |-> d]
StatusUpdate(s, d) == [kind |-> "statusUpdate", state |-> s, data |-> d]
ArtifactUpdate(d)  == [kind |-> "artifactUpdate", state |-> NoState, data |-> d]

(***************************************************************************)
(* The queue's stop set: a Message, or a status update with a terminal or  *)
(* input-required state. A Task event is not in it, whatever its state,    *)
(* and neither is AUTH_REQUIRED.                                           *)
(***************************************************************************)
EndsQueue(e) ==
    \/ e.kind = "message"
    \/ /\ e.kind = "statusUpdate"
       /\ e.state \in TERMINAL_STATE_LIST \cup INPUT_REQUIRED_STATE_LIST
=============================================================================
