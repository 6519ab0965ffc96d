-------------------------- MODULE EventDeliveryProofs -------------------------
(***************************************************************************)
(* EventDelivery keeps BusInv for any number of executions, consumers and  *)
(* buses: typing and the delivery guarantees follow.                       *)
(***************************************************************************)
EXTENDS EventDelivery, EventBusProofs

\* Inductive: delivery needs the four bus invariants together, and that an
\* execution past its opening publishes on a bus (in TypeOK).
IInv == TypeOK /\ BusInv

LEMMA InitIInv == Init => IInv
BY BusInitInv DEF Init, IInv, TypeOK, Phase, BusInv

LEMMA NextIInv == IInv /\ [Next]_vars => IInv'
<1> SUFFICES ASSUME IInv, [Next]_vars PROVE IInv'
    OBVIOUS
<1> DEFINE Execs == /\ phase \in [Execution -> Phase]
                    /\ target \in [Execution -> Bus \cup {NoBus}]
                    /\ \A p \in Execution : phase[p] # "idle" => target[p] \in Bus
<1>1. BusInv /\ Execs
    BY DEF IInv, TypeOK
<1>2. BusInv' /\ Execs' => IInv'
    BY DEF IInv, TypeOK, BusInv
<1>3. ASSUME NEW p \in Execution, NEW c \in Consumer, Open(p, c) PROVE IInv'
    <2>1. PICK b \in Bus : OpenBus(c, b) /\ target' = [target EXCEPT ![p] = b]
        BY <1>3 DEF Open
    <2>2. BusInv'
        BY <1>1, <2>1, OpenBusInv
    <2>3. Execs'
        BY <1>1, <1>3, <2>1 DEF Open, Phase
    <2> QED
        BY <1>2, <2>2, <2>3
<1>4. ASSUME NEW p \in Execution, Launch(p) \/ Return(p) \/ KeepAlive(p) PROVE IInv'
    <2>1. BusInv'
        BY <1>1, <1>4, BusUnchanged DEF Launch, Return, KeepAlive
    <2>2. Execs'
        BY <1>1, <1>4 DEF Launch, Return, KeepAlive, Phase
    <2> QED
        BY <1>2, <2>1, <2>2
<1>5. ASSUME NEW p \in Execution, Publish(p) PROVE IInv'
    <2>1. PICK e \in Published : PublishOn(target[p], <<e>>)
        BY <1>5 DEF Publish
    <2>2. target[p] \in Bus /\ <<e>> \in Seq(AgentExecutionEvent)
        BY <1>1, <1>5, PublishedAssumption DEF Publish
    <2>3. BusInv'
        BY <1>1, <2>1, <2>2, PublishOnInv
    <2>4. Execs'
        BY <1>1, <1>5 DEF Publish
    <2> QED
        BY <1>2, <2>3, <2>4
<1>6. ASSUME NEW p \in Execution, Throw(p) PROVE IInv'
    <2>1. "FAILED" \in TaskState
        BY DEF TaskState
    <2>2. PICK es \in Seq(AgentExecutionEvent) : PublishOn(target[p], es)
        <3>1. PICK d \in Payload :
                \/ PublishOn(target[p], <<TaskEvent("FAILED", d), StatusUpdate("FAILED", d)>>)
                \/ PublishOn(target[p], <<StatusUpdate("FAILED", d)>>)
            BY <1>6 DEF Throw
        <3>2. /\ <<TaskEvent("FAILED", d), StatusUpdate("FAILED", d)>> \in Seq(AgentExecutionEvent)
              /\ <<StatusUpdate("FAILED", d)>> \in Seq(AgentExecutionEvent)
            BY <2>1, EventsAreEvents
        <3> QED
            BY <3>1, <3>2
    <2>3. target[p] \in Bus
        BY <1>1, <1>6 DEF Throw
    <2>4. BusInv'
        BY <1>1, <2>2, <2>3, PublishOnInv
    <2>5. Execs'
        BY <1>1, <1>6 DEF Throw, Phase
    <2> QED
        BY <1>2, <2>4, <2>5
<1>7. ASSUME NEW p \in Execution, Settle(p) PROVE IInv'
    <2>1. target[p] \in Bus
        BY <1>1, <1>7 DEF Settle
    <2>2. BusInv'
        BY <1>1, <1>7, <2>1, SettleBusInv DEF Settle
    <2>3. Execs'
        BY <1>1, <1>7 DEF Settle, Phase
    <2> QED
        BY <1>2, <2>2, <2>3
<1>8. ASSUME NEW c \in Consumer, Join(c) \/ Consume(c) \/ Close(c) PROVE IInv'
    <2>1. BusInv'
        BY <1>1, <1>8, JoinBusInv, PullInv, StopQueueInv DEF Join, Consume, Close
    <2>2. Execs'
        BY <1>1, <1>8 DEF Join, Consume, Close
    <2> QED
        BY <1>2, <2>1, <2>2
<1>9. CASE UNCHANGED vars
    BY <1>1, <1>2, <1>9, BusUnchanged DEF vars
<1> QED
    BY <1>3, <1>4, <1>5, <1>6, <1>7, <1>8, <1>9 DEF Next

LEMMA Invariance == Spec => []IInv
BY InitIInv, NextIInv, PTL DEF Spec

(***************************************************************************)
(* Every variable keeps its type: in particular a queue's buffer only ever *)
(* holds events, and only buses that were constructed are referred to.     *)
(***************************************************************************)
THEOREM TypeCorrect == Spec => []TypeOK
<1>1. IInv => TypeOK
    BY DEF IInv
<1> QED
    BY <1>1, Invariance, PTL

(***************************************************************************)
(* ExecutionEventQueue delivers what its bus published since it attached,  *)
(* in order, without loss or repetition, however publishes, settles,       *)
(* cleanups and other consumers interleave with its generator.             *)
(***************************************************************************)
THEOREM DeliveryInOrder == Spec => []InOrder
<1>1. IInv => InOrder
    BY DEF IInv, BusInv
<1> QED
    BY <1>1, Invariance, PTL

(***************************************************************************)
(* No generator of ExecutionEventQueue.events sleeps on resolvePromise     *)
(* with an event in its buffer or after its queue was stopped.             *)
(***************************************************************************)
THEOREM WakeupsAreKept == Spec => []NoLostWakeup
<1>1. IInv => NoLostWakeup
    BY DEF IInv, BusInv
<1> QED
    BY <1>1, Invariance, PTL

(***************************************************************************)
(* A queue that ended on a final event yields nothing further, and a       *)
(* stopped queue is attached to no bus.                                    *)
(***************************************************************************)
THEOREM EndsCleanly == Spec => [](NothingAfterFinal /\ NoListenerLeak)
<1>1. IInv => NothingAfterFinal /\ NoListenerLeak
    BY DEF IInv, BusInv
<1> QED
    BY <1>1, Invariance, PTL
=============================================================================
