---------------------------- MODULE EventDelivery -----------------------------
(***************************************************************************)
(* Executions publishing on the bus of one task while consumers drain it:  *)
(* the bus of EventBus driven as sendMessage, sendMessageStream,           *)
(* cancelTask and resubscribe drive it, with the handlers' own state left  *)
(* out. Whether a bus outlives its execution (keepBusAliveStates) is a     *)
(* free choice here; RequestHandler makes it the way the code does.        *)
(***************************************************************************)
EXTENDS EventBus

CONSTANTS
    Execution,      \* the sends that run an executor, each once
    Published,      \* the events executors publish here
    MaxPublished    \* bound: events published on one bus

ASSUME PublishedAssumption == Published \subseteq AgentExecutionEvent
ASSUME MaxPublishedAssumption == MaxPublished \in Nat

VARIABLES
    phase,      \* phase[p]: how far the send's execution is
    target      \* target[p]: the bus it was handed, kept across its awaits

vars == <<busVars, phase, target>>

Phase == {"idle", "opened", "running", "settling", "settled"}

TypeOK ==
    /\ BusTypeOK
    /\ phase \in [Execution -> Phase]
    /\ target \in [Execution -> Bus \cup {NoBus}]
    /\ \A p \in Execution : phase[p] # "idle" => target[p] \in Bus

Init ==
    /\ BusInit
    /\ phase = [p \in Execution |-> "idle"]
    /\ target = [p \in Execution |-> NoBus]

Open_BusDropped(p, c) ==
    /\ phase[p] = "idle"
    /\ \E b \in Bus : OpenBus(c, b)
    /\ phase' = [phase EXCEPT ![p] = "opened"]
    /\ UNCHANGED target

\* the bus is created or found and the send's queue attached to it
Open(p, c) ==
    /\ phase[p] = "idle"
    /\ \E b \in Bus :
        /\ OpenBus(c, b)
        /\ target' = [target EXCEPT ![p] = b]
    /\ phase' = [phase EXCEPT ![p] = "opened"]

\* execute() is called: at once by sendMessage, after the push configuration
\* is saved by sendMessageStream
Launch(p) ==
    /\ phase[p] = "opened"
    /\ phase' = [phase EXCEPT ![p] = "running"]
    /\ UNCHANGED <<busVars, target>>

\* resubscribe, or cancelTask, finds the bus and attaches a queue of its own
Join(c) ==
    /\ JoinBus(c)
    /\ UNCHANGED <<phase, target>>

Publish(p) ==
    /\ phase[p] = "running"
    /\ Len(log[target[p]]) < MaxPublished
    /\ \E e \in Published : PublishOn(target[p], <<e>>)
    /\ UNCHANGED <<phase, target>>

\* execute() resolved
Return(p) ==
    /\ phase[p] = "running"
    /\ phase' = [phase EXCEPT ![p] = "settling"]
    /\ UNCHANGED <<busVars, target>>

\* execute() rejected: its .catch publishes a failed task and a failed status,
\* or the status alone when a stream already carried a task
Throw(p) ==
    /\ phase[p] = "running"
    /\ \E d \in Payload :
        \/ PublishOn(target[p], <<TaskEvent("FAILED", d), StatusUpdate("FAILED", d)>>)
        \/ PublishOn(target[p], <<StatusUpdate("FAILED", d)>>)
    /\ phase' = [phase EXCEPT ![p] = "settling"]
    /\ UNCHANGED target

\* .finally: the bus is kept for a follow-up, or settled
KeepAlive(p) ==
    /\ phase[p] = "settling"
    /\ phase' = [phase EXCEPT ![p] = "settled"]
    /\ UNCHANGED <<busVars, target>>

Settle(p) ==
    /\ phase[p] = "settling"
    /\ SettleBus(target[p])
    /\ phase' = [phase EXCEPT ![p] = "settled"]
    /\ UNCHANGED target

Consume(c) == Pull(c) /\ UNCHANGED <<phase, target>>

Close(c) == StopQueue(c) /\ UNCHANGED <<phase, target>>

Next ==
    \/ \E p \in Execution :
        \/ \E c \in Consumer : Open(p, c)
        \/ Launch(p) \/ Publish(p) \/ Return(p) \/ Throw(p) \/ KeepAlive(p) \/ Settle(p)
    \/ \E c \in Consumer : Join(c) \/ Consume(c) \/ Close(c)

Spec == Init /\ [][Next]_vars
=============================================================================
