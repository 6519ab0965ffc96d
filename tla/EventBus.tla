------------------------------ MODULE EventBus -------------------------------
(***************************************************************************)
(* The event bus of one task, the manager's table entry that leads to it,  *)
(* and the queues its consumers drain.                                     *)
(*                                                                         *)
(* `registered' is taskIdToBus.get(taskId). A queue is the state of one    *)
(* ExecutionEventQueue with its generator: "attached" until events() is    *)
(* first pulled, "parked" while it awaits resolvePromise, "ready" once     *)
(* that promise is resolved, "holding" while it is suspended at the yield  *)
(* of `last', "done" when it has returned. `from' and `got' are history:   *)
(* the length of the bus's log when the queue attached, and how many       *)
(* events it has yielded.                                                  *)
(***************************************************************************)
EXTENDS A2AEvents, Naturals, Sequences

CONSTANTS Consumer, Bus, NoBus, NoEvent

ASSUME NoBusAssumption == NoBus \notin Bus
ASSUME NoEventAssumption == NoEvent \notin AgentExecutionEvent

VARIABLES
    registered,     \* the bus in the manager's table, or NoBus
    created,        \* every bus constructed so far
    listeners,      \* listeners[b]: consumers whose queue listens on b
    queue,          \* queue[c]: the queue of consumer c
    log             \* log[b]: every event published on b (history)

busVars == <<registered, created, listeners, queue, log>>

Loop == {"none", "attached", "parked", "ready", "holding", "done"}

Queue == [bus : Bus \cup {NoBus}, buf : Seq(AgentExecutionEvent), stopped : BOOLEAN,
          loop : Loop, last : AgentExecutionEvent \cup {NoEvent},
          from : Nat, got : Nat]

NoQueue == [bus |-> NoBus, buf |-> <<>>, stopped |-> FALSE, loop |-> "none",
            last |-> NoEvent, from |-> 0, got |-> 0]

BusTypeOK ==
    /\ registered \in Bus \cup {NoBus}
    /\ created \in SUBSET Bus
    /\ listeners \in [Bus -> SUBSET Consumer]
    /\ queue \in [Consumer -> Queue]
    /\ log \in [Bus -> Seq(AgentExecutionEvent)]

BusInit ==
    /\ registered = NoBus
    /\ created = {}
    /\ listeners = [b \in Bus |-> {}]
    /\ queue = [c \in Consumer |-> NoQueue]
    /\ log = [b \in Bus |-> <<>>]

-----------------------------------------------------------------------------
(* What the code does to one queue. A definition whose name ends in a mark    *)
(* such as _Unshift is the faulty variant of the one after it; nothing uses    *)
(* it, and PROJECT.json says which property it breaks.                         *)

Resolved(loop) == IF loop = "parked" THEN "ready" ELSE loop

Enqueue_Unshift(q, es) ==
    IF q.stopped THEN q
    ELSE [q EXCEPT !.buf = es \o @, !.loop = Resolved(@)]

\* handleEvent, once per event of es
Enqueue(q, es) ==
    IF q.stopped THEN q
    ELSE [q EXCEPT !.buf = @ \o es, !.loop = Resolved(@)]

Stop_NoResolve(q) == [q EXCEPT !.stopped = TRUE]

\* stop
Stop(q) == [q EXCEPT !.stopped = TRUE, !.loop = Resolved(@)]

NewQueue(b) == [bus |-> b, buf |-> <<>>, stopped |-> FALSE, loop |-> "attached",
                last |-> NoEvent, from |-> Len(log[b]), got |-> 0]

\* one run of the while loop of events(), from its condition to the next suspension
Advance(q) ==
    IF q.buf # <<>>
    THEN [q EXCEPT !.buf = Tail(@), !.loop = "holding", !.last = Head(q.buf), !.got = @ + 1]
    ELSE [q EXCEPT !.loop = IF q.stopped THEN "done" ELSE "parked", !.last = NoEvent]

\* stop followed by leaving the loop (break, or the consumer's finally)
Leave(q) == [Stop(q) EXCEPT !.loop = "done"]

Detach_Forgotten(c) == listeners

\* both listeners of c's queue are taken off
Detach(c) == [b \in Bus |-> listeners[b] \ {c}]

-----------------------------------------------------------------------------
(* The operations the handlers call. *)

\* new ExecutionEventQueue(b)
Attach(c, b) ==
    /\ queue[c].loop = "none"
    /\ queue' = [queue EXCEPT ![c] = NewQueue(b)]
    /\ listeners' = [listeners EXCEPT ![b] = @ \cup {c}]
    /\ UNCHANGED log

\* createOrGetByTaskId, then a queue on the bus it returns
OpenBus(c, b) ==
    /\ IF registered = NoBus
       THEN /\ b \in Bus \ created
            /\ created' = created \cup {b}
            /\ registered' = b
       ELSE /\ b = registered
            /\ UNCHANGED <<created, registered>>
    /\ Attach(c, b)

\* getByTaskId, then a queue when there is a bus
JoinBus(c) ==
    /\ registered # NoBus
    /\ Attach(c, registered)
    /\ UNCHANGED <<created, registered>>

\* consecutive publish calls of one synchronous block
PublishOn(b, es) ==
    /\ log' = [log EXCEPT ![b] = @ \o es]
    /\ queue' = [c \in Consumer |->
                    IF c \in listeners[b] THEN Enqueue(queue[c], es) ELSE queue[c]]
    /\ UNCHANGED <<registered, created, listeners>>

\* eventBus.finished() on b, then cleanupByTaskId, which empties whatever
\* bus the table holds now, b or another
SettleBus(b) ==
    /\ queue' = [c \in Consumer |->
                    IF c \in listeners[b] THEN Stop(queue[c]) ELSE queue[c]]
    /\ listeners' = [x \in Bus |-> IF x \in {b, registered} THEN {} ELSE listeners[x]]
    /\ registered' = NoBus
    /\ UNCHANGED <<created, log>>

Pull_NoBreak(c) ==
    /\ queue[c].loop \in {"attached", "ready", "holding"}
    /\ queue' = [queue EXCEPT ![c] = Advance(@)]
    /\ UNCHANGED <<listeners, registered, created, log>>

\* the consumer asks for the next event, or its awaited promise resolved
Pull(c) ==
    /\ queue[c].loop \in {"attached", "ready", "holding"}
    /\ IF queue[c].loop = "holding" /\ EndsQueue(queue[c].last)
       THEN /\ queue' = [queue EXCEPT ![c] = Leave(@)]
            /\ listeners' = Detach(c)
       ELSE /\ queue' = [queue EXCEPT ![c] = Advance(@)]
            /\ UNCHANGED listeners
    /\ UNCHANGED <<registered, created, log>>

\* the consumer's finally: it threw or was closed while it held an event, or
\* before it pulled; a close requested while parked waits for the next event
StopQueue(c) ==
    /\ queue[c].loop \in {"attached", "holding"}
    /\ queue' = [queue EXCEPT ![c] = Leave(@)]
    /\ listeners' = Detach(c)
    /\ UNCHANGED <<registered, created, log>>

-----------------------------------------------------------------------------
(***************************************************************************)
(* Exactly the events published since a queue attached reach its consumer, *)
(* each once and in order, whatever listeners come and go: what was        *)
(* yielded and what is buffered is a contiguous piece of the bus's log,    *)
(* and it reaches to the log's end while the queue listens.                *)
(***************************************************************************)
Window(buf, events, at) == \A i \in 1..Len(buf) : buf[i] = events[at + i]

CaughtUp(q, events) == q.from + q.got + Len(q.buf) = Len(events)

Follows(q, events) ==
    LET at == q.from + q.got IN
    /\ at + Len(q.buf) <= Len(events)
    /\ Window(q.buf, events, at)
    /\ q.loop = "holding" => q.got > 0 /\ q.last = events[at]

InOrder ==
    \A c \in Consumer :
        LET b == queue[c].bus IN
        b # NoBus => /\ Follows(queue[c], log[b])
                     /\ c \in listeners[b] => CaughtUp(queue[c], log[b])

(***************************************************************************)
(* A consumer sleeps in events() only when there is nothing to yield and   *)
(* the queue may still receive: neither a push nor a stop leaves           *)
(* resolvePromise pending.                                                 *)
(***************************************************************************)
NoLostWakeup ==
    \A c \in Consumer : queue[c].loop = "parked" => queue[c].buf = <<>> /\ ~queue[c].stopped

(***************************************************************************)
(* A stopped queue listens on no bus, and a queue listens on its own bus   *)
(* only: stop, break and cleanup leave no listener behind.                 *)
(***************************************************************************)
NoListenerLeak ==
    \A b \in Bus : \A c \in listeners[b] :
        queue[c].bus = b /\ ~queue[c].stopped /\ queue[c].loop \notin {"none", "done"}

(***************************************************************************)
(* A generator that yielded a Message or a final status update yields      *)
(* nothing after it, though the bus may have carried more, and is never    *)
(* left waiting for more.                                                  *)
(***************************************************************************)
EndsOnce(q, events) ==
    \A i \in 1..q.got :
        EndsQueue(events[q.from + i]) => i = q.got /\ q.loop \in {"holding", "done"}

NothingAfterFinal ==
    \A c \in Consumer :
        LET b == queue[c].bus IN b # NoBus => EndsOnce(queue[c], log[b])

(* What every operation above preserves. *)
BusInv == BusTypeOK /\ InOrder /\ NoLostWakeup /\ NoListenerLeak /\ NothingAfterFinal

\* a queue that was never stopped can still be reached by an executor
NoOrphan ==
    \A c \in Consumer :
        queue[c].bus # NoBus /\ ~queue[c].stopped => queue[c].bus = registered

\* nobody waits for ever on a dead bus
ClosedBusDrains ==
    \A c \in Consumer :
        queue[c].bus # NoBus /\ queue[c].bus # registered ~> queue[c].loop = "done"

\* the consumer never stalls with events in its buffer
BufferDrains ==
    \A c \in Consumer :
        queue[c].buf # <<>> ~> queue[c].buf = <<>> \/ queue[c].loop = "done"
=============================================================================
