---------------------------- MODULE EventBusProofs ----------------------------
(***************************************************************************)
(* Every operation on the bus preserves BusInv, whoever calls it: the      *)
(* lemmas a module that composes EventBus cites, one per operation.        *)
(***************************************************************************)
EXTENDS EventBus, TLAPS, WellFoundedInduction

\* A set of naturals has a least element, and so positions in a log a last one.
LEMMA NatMin ==
    ASSUME NEW T \in SUBSET Nat, T # {}
    PROVE  \E m \in T : \A n \in T : m <= n
<1> DEFINE R == {ss \in Nat \X Nat : ss[1] < ss[2]}
<1>1. IsWellFoundedOn(R, Nat)
    BY NatLessThanWellFounded, Zenon DEF OpToRel
<1>2. \A m, n \in Nat : <<m, n>> \in R \/ n <= m
    OBVIOUS
<1> HIDE DEF R
<1>3. PICK m \in T : \A n \in T : ~(<<n, m>> \in R)
    BY <1>1, WFMin
<1>4. \A n \in T : m \in Nat /\ n \in Nat /\ ~(<<n, m>> \in R)
    BY <1>3
<1> QED
    BY <1>2, <1>4

LEMMA LastIndex ==
    ASSUME NEW n \in Nat, NEW I \in SUBSET (1..n), I # {}
    PROVE  \E m \in I : \A i \in I : m >= i
<1> DEFINE T == {n - i : i \in I}
<1>1. T \in SUBSET Nat /\ T # {}
    <2>1. \A i \in I : n - i \in Nat
        OBVIOUS
    <2> QED
        BY <2>1
<1>2. PICK m \in T : \A k \in T : m <= k
    BY <1>1, NatMin
<1>3. PICK i \in I : m = n - i
    OBVIOUS
<1>4. ASSUME NEW j \in I PROVE i >= j
    <2>1. n - i <= n - j
        BY <1>2, <1>3
    <2>2. i \in Nat /\ j \in Nat
        OBVIOUS
    <2> QED
        BY <2>1, <2>2
<1> QED
    BY <1>4

LEMMA EventsAreEvents ==
    \A s \in TaskState, d \in Payload :
        /\ TaskEvent(s, d) \in AgentExecutionEvent
        /\ StatusUpdate(s, d) \in AgentExecutionEvent
BY DEF TaskEvent, StatusUpdate, AgentExecutionEvent

\* One push or stop keeps a queue well-typed.
LEMMA QueueOps ==
    ASSUME NEW q \in Queue, NEW es \in Seq(AgentExecutionEvent)
    PROVE  /\ Enqueue(q, es) \in Queue
           /\ Stop(q) \in Queue
           /\ Leave(q) \in Queue
           /\ Advance(q) \in Queue
<1>1. Resolved(q.loop) \in Loop
    BY DEF Queue, Loop, Resolved
<1>2. Stop(q) \in Queue
    BY <1>1 DEF Stop, Queue
<1>3. Leave(q) \in Queue
    BY <1>2 DEF Leave, Queue, Loop
<1>4. Enqueue(q, es) \in Queue
    <2>1. q.buf \o es \in Seq(AgentExecutionEvent)
        BY DEF Queue
    <2> QED
        BY <1>1, <2>1 DEF Enqueue, Queue
<1>5. Advance(q) \in Queue
    <2>1. CASE q.buf # <<>>
        <3>1. Tail(q.buf) \in Seq(AgentExecutionEvent) /\ Head(q.buf) \in AgentExecutionEvent
            BY <2>1 DEF Queue
        <3>2. q.got + 1 \in Nat
            BY DEF Queue
        <3> QED
            BY <2>1, <3>1, <3>2 DEF Advance, Queue, Loop
    <2>2. CASE q.buf = <<>>
        BY <2>2 DEF Advance, Queue, Loop
    <2> QED
        BY <2>1, <2>2
<1> QED
    BY <1>2, <1>3, <1>4, <1>5

\* A window on a log stays one when the log grows beyond it.
LEMMA WindowPrefix ==
    ASSUME NEW S, NEW lg \in Seq(S), NEW buf \in Seq(S), NEW es \in Seq(S), NEW at \in Nat,
           at + Len(buf) <= Len(lg), Window(buf, lg, at)
    PROVE  Window(buf, lg \o es, at)
<1>1. Len(buf) \in Nat /\ Len(lg) \in Nat
    OBVIOUS
<1>2. \A i \in 1..Len(buf) : at + i \in 1..Len(lg)
    BY <1>1
<1> QED
    BY <1>2 DEF Window

\* A buffer that is the tail of a log still is when both grow by the same events.
LEMMA WindowGrows ==
    ASSUME NEW S, NEW lg \in Seq(S), NEW buf \in Seq(S), NEW es \in Seq(S), NEW at \in Nat,
           at + Len(buf) = Len(lg), Window(buf, lg, at)
    PROVE  /\ at + Len(buf \o es) = Len(lg \o es)
           /\ Window(buf \o es, lg \o es, at)
<1>1. Len(buf) \in Nat /\ Len(es) \in Nat /\ Len(lg) \in Nat
    OBVIOUS
<1>2. Len(buf \o es) = Len(buf) + Len(es) /\ Len(lg \o es) = Len(lg) + Len(es)
    OBVIOUS
<1>3. ASSUME NEW i \in 1..Len(buf \o es) PROVE (buf \o es)[i] = (lg \o es)[at + i]
    <2>1. CASE i <= Len(buf)
        <3>1. i \in 1..Len(buf) /\ at + i \in 1..Len(lg)
            BY <1>1, <1>2, <2>1
        <3>2. (buf \o es)[i] = buf[i] /\ (lg \o es)[at + i] = lg[at + i]
            BY <3>1
        <3> QED
            BY <3>1, <3>2 DEF Window
    <2>2. CASE i > Len(buf)
        <3>1. PICK j \in 1..Len(es) : i = Len(buf) + j
            <4>1. i - Len(buf) \in 1..Len(es)
                BY <1>1, <1>2, <2>2
            <4>2. i = Len(buf) + (i - Len(buf))
                BY <1>1
            <4> QED
                BY <4>1, <4>2
        <3>2. at + i = Len(lg) + j
            BY <1>1, <3>1
        <3> QED
            BY <3>1, <3>2
    <2> QED
        BY <1>1, <2>1, <2>2
<1>4. at + Len(buf \o es) = Len(lg \o es)
    BY <1>1, <1>2
<1> QED
    BY <1>3, <1>4 DEF Window

\* Advancing past the head of a buffer moves its window by one.
LEMMA WindowShift ==
    ASSUME NEW S, NEW lg \in Seq(S), NEW buf \in Seq(S), NEW at \in Nat,
           buf # <<>>, Window(buf, lg, at)
    PROVE  /\ Len(Tail(buf)) = Len(buf) - 1
           /\ Head(buf) = lg[at + 1]
           /\ Window(Tail(buf), lg, at + 1)
<1>1. Len(buf) \in Nat \ {0} /\ Len(Tail(buf)) = Len(buf) - 1 /\ Tail(buf) \in Seq(S)
    OBVIOUS
<1>2. Head(buf) = buf[1] /\ 1 \in 1..Len(buf)
    BY <1>1
<1>3. ASSUME NEW i \in 1..Len(Tail(buf)) PROVE Tail(buf)[i] = lg[(at + 1) + i]
    <2>1. i + 1 \in 1..Len(buf) /\ at + (i + 1) = (at + 1) + i
        BY <1>1
    <2>2. Tail(buf)[i] = buf[i + 1]
        BY <1>1
    <2> QED
        BY <2>1, <2>2 DEF Window
<1> QED
    BY <1>1, <1>2, <1>3 DEF Window

\* Events already yielded stay where they are in a log that grows.
LEMMA FinalPrefix ==
    ASSUME NEW S, NEW lg \in Seq(S), NEW es \in Seq(S), NEW from \in Nat, NEW got \in Nat,
           from + got <= Len(lg)
    PROVE  /\ \A i \in 1..got : (lg \o es)[from + i] = lg[from + i]
           /\ got > 0 => (lg \o es)[from + got] = lg[from + got]
<1>1. \A i \in 1..got : from + i \in 1..Len(lg)
    OBVIOUS
<1>2. got > 0 => from + got \in 1..Len(lg)
    OBVIOUS
<1> QED
    BY <1>1, <1>2

\* A queue that listens while its bus publishes es.
LEMMA EnqueueFollows ==
    ASSUME NEW q \in Queue, NEW lg \in Seq(AgentExecutionEvent),
           NEW es \in Seq(AgentExecutionEvent),
           Follows(q, lg), CaughtUp(q, lg), EndsOnce(q, lg), ~q.stopped, q.loop \notin {"none", "done"}
    PROVE  /\ Follows(Enqueue(q, es), lg \o es)
           /\ CaughtUp(Enqueue(q, es), lg \o es)
           /\ EndsOnce(Enqueue(q, es), lg \o es)
<1> DEFINE at == q.from + q.got
<1>1. /\ q.from \in Nat /\ q.got \in Nat /\ at \in Nat
      /\ q.buf \in Seq(AgentExecutionEvent) /\ Len(q.buf) \in Nat /\ Len(lg) \in Nat
    BY DEF Queue
<1>2. /\ Enqueue(q, es).buf = q.buf \o es
      /\ Enqueue(q, es).loop = Resolved(q.loop)
      /\ Enqueue(q, es).from = q.from /\ Enqueue(q, es).got = q.got
      /\ Enqueue(q, es).last = q.last
    BY DEF Enqueue, Queue
<1>3. /\ at + Len(q.buf) = Len(lg) /\ Window(q.buf, lg, at)
      /\ q.loop = "holding" => q.got > 0 /\ q.last = lg[at]
    BY DEF Follows, CaughtUp
<1>4. q.from + q.got <= Len(lg)
    BY <1>1, <1>3
<1>5. at + Len(q.buf \o es) = Len(lg \o es) /\ Window(q.buf \o es, lg \o es, at)
    <2> HIDE DEF at
    <2> QED
        BY <1>1, <1>3, WindowGrows
<1>6. /\ \A i \in 1..q.got : (lg \o es)[q.from + i] = lg[q.from + i]
      /\ q.got > 0 => (lg \o es)[at] = lg[at]
    BY <1>1, <1>4, FinalPrefix
<1>7. Len(lg \o es) \in Nat
    OBVIOUS
<1>8. Follows(Enqueue(q, es), lg \o es) /\ CaughtUp(Enqueue(q, es), lg \o es)
    <2>1. Enqueue(q, es).loop = "holding" => q.loop = "holding"
        BY <1>2 DEF Resolved
    <2>2. q.from + q.got + Len(q.buf \o es) <= Len(lg \o es)
        BY <1>5, <1>7
    <2> QED
        BY <1>2, <1>3, <1>5, <1>6, <2>1, <2>2 DEF Follows, CaughtUp
<1>9. EndsOnce(Enqueue(q, es), lg \o es)
    BY <1>2, <1>6 DEF EndsOnce, Resolved
<1> QED
    BY <1>8, <1>9

\* A queue that no longer listens while its bus publishes es.
LEMMA SilentFollows ==
    ASSUME NEW q \in Queue, NEW lg \in Seq(AgentExecutionEvent),
           NEW es \in Seq(AgentExecutionEvent),
           Follows(q, lg), EndsOnce(q, lg)
    PROVE  Follows(q, lg \o es) /\ EndsOnce(q, lg \o es)
<1> DEFINE at == q.from + q.got
<1>1. /\ q.from \in Nat /\ q.got \in Nat /\ at \in Nat
      /\ q.buf \in Seq(AgentExecutionEvent) /\ Len(q.buf) \in Nat
      /\ Len(lg) \in Nat /\ Len(lg \o es) \in Nat /\ Len(lg) <= Len(lg \o es)
    BY DEF Queue
<1>2. /\ at + Len(q.buf) <= Len(lg) /\ Window(q.buf, lg, at)
      /\ q.loop = "holding" => q.got > 0 /\ q.last = lg[at]
    BY DEF Follows
<1>3. q.from + q.got <= Len(lg)
    BY <1>1, <1>2
<1>4. Window(q.buf, lg \o es, at)
    <2> HIDE DEF at
    <2> QED
        BY <1>1, <1>2, WindowPrefix
<1>5. /\ \A i \in 1..q.got : (lg \o es)[q.from + i] = lg[q.from + i]
      /\ q.got > 0 => (lg \o es)[at] = lg[at]
    <2>1. q.from \in Nat /\ q.got \in Nat
        BY <1>1
    <2> QED
        BY <2>1, <1>3, FinalPrefix
<1>6. Follows(q, lg \o es)
    BY <1>1, <1>2, <1>4, <1>5 DEF Follows
<1>7. EndsOnce(q, lg \o es)
    BY <1>5 DEF EndsOnce
<1> QED
    BY <1>6, <1>7

\* One run of the generator's loop yields the next event of the log, or none.
LEMMA AdvanceFollows ==
    ASSUME NEW q \in Queue, NEW lg \in Seq(AgentExecutionEvent),
           Follows(q, lg), EndsOnce(q, lg),
           q.loop \in {"attached", "ready", "holding"},
           q.loop = "holding" => ~EndsQueue(q.last)
    PROVE  /\ Follows(Advance(q), lg) /\ EndsOnce(Advance(q), lg)
           /\ CaughtUp(q, lg) => CaughtUp(Advance(q), lg)
<1> DEFINE at == q.from + q.got
<1>1. /\ q.from \in Nat /\ q.got \in Nat /\ at \in Nat
      /\ q.buf \in Seq(AgentExecutionEvent) /\ Len(q.buf) \in Nat /\ Len(lg) \in Nat
    BY DEF Queue
<1>2. /\ at + Len(q.buf) <= Len(lg) /\ Window(q.buf, lg, at)
      /\ CaughtUp(q, lg) => at + Len(q.buf) = Len(lg)
      /\ q.loop = "holding" => q.got > 0 /\ q.last = lg[at]
    BY DEF Follows, CaughtUp
<1>3. \A i \in 1..q.got : ~EndsQueue(lg[q.from + i])
    BY <1>1, <1>2 DEF EndsOnce
<1>4. CASE q.buf # <<>>
    <2>1. /\ Advance(q).buf = Tail(q.buf) /\ Advance(q).loop = "holding"
          /\ Advance(q).last = Head(q.buf)
          /\ Advance(q).from = q.from /\ Advance(q).got = q.got + 1
        BY <1>4 DEF Advance, Queue
    <2>2. /\ Len(Tail(q.buf)) = Len(q.buf) - 1
          /\ Head(q.buf) = lg[at + 1]
          /\ Window(Tail(q.buf), lg, at + 1)
        <3> HIDE DEF at
        <3> QED
            BY <1>1, <1>2, <1>4, WindowShift
    <2>3. q.from + (q.got + 1) = at + 1 /\ q.got + 1 > 0
        BY <1>1
    <2>4. Follows(Advance(q), lg) /\ (CaughtUp(q, lg) => CaughtUp(Advance(q), lg))
        <3> HIDE DEF at
        <3>1. (at + 1) + Len(Tail(q.buf)) = at + Len(q.buf)
            <4> DEFINE n == Len(q.buf)
                       t == Len(Tail(q.buf))
            <4>1. t = n - 1 /\ n \in Nat
                BY <1>1, <2>2
            <4> HIDE DEF n, t
            <4>2. (at + 1) + t = at + n
                BY <1>1, <4>1
            <4> QED
                BY <4>2 DEF n, t
        <3> QED
            BY <1>2, <2>1, <2>2, <2>3, <3>1 DEF Follows, CaughtUp
    <2>5. EndsOnce(Advance(q), lg)
        <3>1. \A i \in 1..(q.got + 1) : i \in 1..q.got \/ i = q.got + 1
            BY <1>1
        <3> QED
            BY <1>3, <2>1, <3>1 DEF EndsOnce
    <2> QED
        BY <2>4, <2>5
<1>5. CASE q.buf = <<>>
    <2>1. /\ Advance(q).buf = q.buf /\ Advance(q).loop \in {"parked", "done"}
          /\ Advance(q).from = q.from /\ Advance(q).got = q.got
        BY <1>5 DEF Advance, Queue
    <2> QED
        BY <1>2, <1>3, <2>1 DEF Follows, CaughtUp, EndsOnce
<1> QED
    BY <1>4, <1>5

\* Stopping a queue, or leaving its generator, takes nothing back.
LEMMA StopFollows ==
    ASSUME NEW q \in Queue, NEW lg \in Seq(AgentExecutionEvent),
           Follows(q, lg), EndsOnce(q, lg)
    PROVE  /\ Follows(Stop(q), lg) /\ EndsOnce(Stop(q), lg)
           /\ Follows(Leave(q), lg) /\ EndsOnce(Leave(q), lg)
<1>1. /\ Stop(q).buf = q.buf /\ Stop(q).loop = Resolved(q.loop) /\ Stop(q).last = q.last
      /\ Stop(q).from = q.from /\ Stop(q).got = q.got
    BY DEF Stop, Queue
<1>2. /\ Leave(q).buf = q.buf /\ Leave(q).loop = "done"
      /\ Leave(q).from = q.from /\ Leave(q).got = q.got
    BY DEF Leave, Stop, Queue
<1> QED
    BY <1>1, <1>2 DEF Follows, EndsOnce, Resolved

-----------------------------------------------------------------------------
\* The invariants, read for one consumer.
ConsumerInv(c) ==
    /\ queue[c] \in Queue
    /\ queue[c].bus # NoBus =>
        /\ Follows(queue[c], log[queue[c].bus])
        /\ c \in listeners[queue[c].bus] => CaughtUp(queue[c], log[queue[c].bus])
        /\ EndsOnce(queue[c], log[queue[c].bus])
    /\ queue[c].loop = "parked" => queue[c].buf = <<>> /\ ~queue[c].stopped
    /\ \A b \in Bus : c \in listeners[b] =>
            queue[c].bus = b /\ ~queue[c].stopped /\ queue[c].loop \notin {"none", "done"}

LEMMA PerConsumer ==
    BusInv <=> BusTypeOK /\ \A c \in Consumer : ConsumerInv(c)
BY DEF BusInv, BusTypeOK, ConsumerInv, InOrder, NoLostWakeup, NoListenerLeak, NothingAfterFinal

LEMMA PerConsumerNext ==
    BusInv' <=> BusTypeOK' /\ \A c \in Consumer : ConsumerInv(c)'
BY DEF BusInv, BusTypeOK, ConsumerInv, InOrder, NoLostWakeup, NoListenerLeak, NothingAfterFinal

LEMMA BusInitInv == BusInit => BusInv
<1> SUFFICES ASSUME BusInit PROVE BusInv
    OBVIOUS
<1>1. NoQueue \in Queue
    BY DEF NoQueue, Queue, Loop
<1>2. BusTypeOK
    BY <1>1 DEF BusInit, BusTypeOK
<1> QED
    BY <1>2 DEF BusInit, BusInv, InOrder, NoLostWakeup, NoListenerLeak, NothingAfterFinal, NoQueue
\* Types of what the operations read.
LEMMA Fields ==
    ASSUME BusInv
    PROVE  /\ \A b \in Bus : log[b] \in Seq(AgentExecutionEvent) /\ Len(log[b]) \in Nat
           /\ \A c \in Consumer : queue[c] \in Queue /\ queue[c].bus \in Bus \cup {NoBus}
           /\ listeners \in [Bus -> SUBSET Consumer]
BY DEF BusInv, BusTypeOK, Queue

\* A new queue starts at the end of the log, listening.
LEMMA AttachInv ==
    ASSUME BusInv, NEW c \in Consumer, NEW b \in Bus, Attach(c, b),
           registered' \in Bus \cup {NoBus}, created' \in SUBSET Bus
    PROVE  BusInv'
<1> DEFINE q == NewQueue(b)
<1>1. BusTypeOK /\ \A x \in Consumer : ConsumerInv(x)
    BY PerConsumer
<1>2. /\ log' = log /\ queue' = [queue EXCEPT ![c] = q]
      /\ listeners' = [listeners EXCEPT ![b] = @ \cup {c}]
    BY DEF Attach
<1>3. /\ q \in Queue /\ q.bus = b /\ q.buf = <<>> /\ q.loop = "attached" /\ ~q.stopped
      /\ q.from = Len(log[b]) /\ q.got = 0 /\ Len(log[b]) \in Nat
    BY Fields DEF NewQueue, Queue, Loop
<1>4. Follows(q, log[b]) /\ CaughtUp(q, log[b]) /\ EndsOnce(q, log[b])
    <2> HIDE DEF q
    <2> QED
        BY <1>3 DEF Follows, CaughtUp, EndsOnce, Window
<1> HIDE DEF q
<1>5. BusTypeOK'
    BY <1>1, <1>2, <1>3 DEF BusTypeOK
<1>6. ASSUME NEW x \in Consumer PROVE ConsumerInv(x)'
    <2>1. CASE x = c
        <3>1. queue'[x] = q /\ x \in listeners'[b] /\ log'[b] = log[b]
            BY <1>1, <1>2, <2>1 DEF BusTypeOK
        <3>2. \A y \in Bus : x \in listeners'[y] => y = b
            BY <1>1, <1>2, <2>1 DEF BusTypeOK, ConsumerInv, Attach
        <3> QED
            BY <1>3, <1>4, <3>1, <3>2 DEF ConsumerInv
    <2>2. CASE x # c
        <3>1. queue'[x] = queue[x] /\ \A y \in Bus : x \in listeners'[y] <=> x \in listeners[y]
            BY <1>1, <1>2, <2>2 DEF BusTypeOK
        <3> QED
            BY <1>1, <1>2, <3>1, Fields DEF ConsumerInv
    <2> QED
        BY <2>1, <2>2
<1> QED
    BY <1>5, <1>6, PerConsumerNext

LEMMA OpenBusInv ==
    ASSUME BusInv, NEW c \in Consumer, NEW b \in Bus, OpenBus(c, b)
    PROVE  BusInv'
<1>1. registered \in Bus \cup {NoBus} /\ created \in SUBSET Bus
    BY DEF BusInv, BusTypeOK
<1> QED
    BY <1>1, AttachInv DEF OpenBus

LEMMA JoinBusInv ==
    ASSUME BusInv, NEW c \in Consumer, JoinBus(c)
    PROVE  BusInv'
<1>1. registered \in Bus \cup {NoBus} /\ created \in SUBSET Bus
    BY DEF BusInv, BusTypeOK
<1> QED
    BY <1>1, AttachInv DEF JoinBus

\* A publish extends the log and every listening buffer by the same events.
LEMMA PublishOnInv ==
    ASSUME BusInv, NEW b \in Bus, NEW es \in Seq(AgentExecutionEvent), PublishOn(b, es)
    PROVE  BusInv'
<1>1. BusTypeOK /\ \A c \in Consumer : ConsumerInv(c)
    BY PerConsumer
<1>2. /\ \A x \in Bus : log'[x] = IF x = b THEN log[x] \o es ELSE log[x]
      /\ listeners' = listeners
    BY <1>1 DEF BusTypeOK, PublishOn
<1>3. BusTypeOK'
    <2>1. queue' \in [Consumer -> Queue]
        BY <1>1, QueueOps DEF BusTypeOK, PublishOn
    <2>2. log' \in [Bus -> Seq(AgentExecutionEvent)]
        BY <1>1 DEF PublishOn, BusTypeOK
    <2> QED
        BY <1>1, <2>1, <2>2 DEF BusTypeOK, PublishOn
<1>4. ASSUME NEW c \in Consumer PROVE ConsumerInv(c)'
    <2>1. CASE c \in listeners[b]
        <3>1. queue[c].bus = b /\ ~queue[c].stopped /\ queue[c].loop \notin {"none", "done"}
            BY <1>1, <2>1 DEF ConsumerInv
        <3>2. queue'[c] = Enqueue(queue[c], es) /\ log'[b] = log[b] \o es
            BY <1>2, <2>1 DEF PublishOn
        <3>3. Follows(queue[c], log[b]) /\ CaughtUp(queue[c], log[b]) /\ EndsOnce(queue[c], log[b])
            BY <1>1, <2>1, <3>1, NoBusAssumption DEF ConsumerInv
        <3>4. /\ Follows(queue'[c], log'[b]) /\ CaughtUp(queue'[c], log'[b])
              /\ EndsOnce(queue'[c], log'[b])
            BY <3>1, <3>2, <3>3, Fields, EnqueueFollows
        <3>5. /\ queue'[c] \in Queue /\ queue'[c].bus = b /\ ~queue'[c].stopped
              /\ queue'[c].loop \notin {"none", "done", "parked"}
            <4>1. queue'[c] \in Queue
                BY <3>2, Fields, QueueOps
            <4> QED
                BY <3>1, <3>2, <4>1, Fields DEF Enqueue, Queue, Resolved
        <3> QED
            BY <1>1, <1>2, <2>1, <3>1, <3>4, <3>5 DEF ConsumerInv
    <2>2. CASE c \notin listeners[b]
        <3>1. queue'[c] = queue[c]
            BY <2>2 DEF PublishOn
        <3>2. CASE queue[c].bus = b
            <4>1. Follows(queue[c], log[b]) /\ EndsOnce(queue[c], log[b])
                BY <1>1, <2>2, <3>2, NoBusAssumption DEF ConsumerInv
            <4>2. Follows(queue[c], log[b] \o es) /\ EndsOnce(queue[c], log[b] \o es)
                BY <4>1, Fields, SilentFollows
            <4> QED
                BY <1>1, <1>2, <2>2, <3>1, <3>2, <4>2 DEF ConsumerInv
        <3>3. CASE queue[c].bus # b
            BY <1>1, <1>2, <3>1, <3>3, Fields DEF ConsumerInv
        <3> QED
            BY <3>2, <3>3
    <2> QED
        BY <2>1, <2>2
<1> QED
    BY <1>3, <1>4, PerConsumerNext

\* Settling stops exactly the queues it detaches with finished(); those that
\* cleanup alone detaches keep what they hold.
LEMMA SettleBusInv ==
    ASSUME BusInv, NEW b \in Bus, SettleBus(b)
    PROVE  BusInv'
<1>1. BusTypeOK /\ \A c \in Consumer : ConsumerInv(c)
    BY PerConsumer
<1>2. /\ log' = log
      /\ \A x \in Bus : listeners'[x] \subseteq listeners[x]
      /\ listeners'[b] = {}
    BY <1>1 DEF BusTypeOK, SettleBus
<1>3. BusTypeOK'
    <2>1. \A c \in Consumer : Stop(queue[c]) \in Queue
        <3>1. <<>> \in Seq(AgentExecutionEvent)
            OBVIOUS
        <3> QED
            BY <3>1, Fields, QueueOps
    <2> QED
        BY <1>1, <2>1 DEF BusTypeOK, SettleBus
<1>4. ASSUME NEW c \in Consumer PROVE ConsumerInv(c)'
    <2>1. CASE c \in listeners[b]
        <3>1. queue[c].bus = b /\ queue'[c] = Stop(queue[c])
            BY <1>1, <2>1 DEF ConsumerInv, SettleBus
        <3>2. Follows(queue[c], log[b]) /\ EndsOnce(queue[c], log[b])
            BY <1>1, <2>1, <3>1, NoBusAssumption DEF ConsumerInv
        <3>3. Follows(queue'[c], log[b]) /\ EndsOnce(queue'[c], log[b])
            BY <3>1, <3>2, Fields, StopFollows
        <3>4. queue'[c] \in Queue /\ queue'[c].bus = b /\ queue'[c].loop # "parked"
            BY <1>3, <3>1, Fields DEF Stop, Queue, Resolved, BusTypeOK
        <3>5. \A x \in Bus : c \notin listeners'[x]
            BY <1>1, <1>2, <3>1 DEF ConsumerInv
        <3> QED
            BY <1>2, <3>3, <3>4, <3>5 DEF ConsumerInv
    <2>2. CASE c \notin listeners[b]
        <3>1. queue'[c] = queue[c]
            BY <2>2 DEF SettleBus
        <3> QED
            BY <1>1, <1>2, <3>1, Fields DEF ConsumerInv
    <2> QED
        BY <2>1, <2>2
<1> QED
    BY <1>3, <1>4, PerConsumerNext

\* Leaving the generator detaches the queue from every bus.
LEMMA LeaveInv ==
    ASSUME BusInv, NEW c \in Consumer, queue[c].loop \notin {"none"},
           queue' = [queue EXCEPT ![c] = Leave(@)], listeners' = Detach(c),
           UNCHANGED <<registered, created, log>>
    PROVE  BusInv'
<1>1. BusTypeOK /\ \A x \in Consumer : ConsumerInv(x)
    BY PerConsumer
<1>2. \A x \in Bus : listeners'[x] = listeners[x] \ {c}
    BY DEF Detach
<1>3. Leave(queue[c]) \in Queue
    <2>1. <<>> \in Seq(AgentExecutionEvent)
        OBVIOUS
    <2> QED
        BY <2>1, Fields, QueueOps
<1>4. BusTypeOK'
    BY <1>1, <1>3 DEF BusTypeOK, Detach
<1>5. ASSUME NEW x \in Consumer PROVE ConsumerInv(x)'
    <2>1. CASE x = c
        <3>1. queue'[c] = Leave(queue[c]) /\ queue'[c].bus = queue[c].bus
              /\ queue'[c].loop = "done"
            BY <1>1, Fields DEF BusTypeOK, Leave, Stop, Queue
        <3>2. queue[c].bus # NoBus =>
                /\ Follows(queue'[c], log[queue[c].bus])
                /\ EndsOnce(queue'[c], log[queue[c].bus])
            BY <1>1, <3>1, Fields, StopFollows DEF ConsumerInv
        <3> QED
            BY <1>2, <1>3, <2>1, <3>1, <3>2, Fields DEF ConsumerInv
    <2>2. CASE x # c
        <3>1. queue'[x] = queue[x] /\ \A y \in Bus : x \in listeners'[y] <=> x \in listeners[y]
            BY <1>1, <1>2, <2>2 DEF BusTypeOK
        <3> QED
            BY <1>1, <3>1, Fields DEF ConsumerInv
    <2> QED
        BY <2>1, <2>2
<1> QED
    BY <1>4, <1>5, PerConsumerNext

LEMMA StopQueueInv ==
    ASSUME BusInv, NEW c \in Consumer, StopQueue(c)
    PROVE  BusInv'
BY LeaveInv DEF StopQueue

\* A pull ends the generator after a final event and advances it otherwise.
LEMMA PullInv ==
    ASSUME BusInv, NEW c \in Consumer, Pull(c)
    PROVE  BusInv'
<1>1. BusTypeOK /\ \A x \in Consumer : ConsumerInv(x)
    BY PerConsumer
<1>2. CASE queue[c].loop = "holding" /\ EndsQueue(queue[c].last)
    BY <1>2, LeaveInv DEF Pull
<1>3. CASE ~(queue[c].loop = "holding" /\ EndsQueue(queue[c].last))
    <2>1. /\ queue' = [queue EXCEPT ![c] = Advance(@)]
          /\ UNCHANGED <<listeners, registered, created, log>>
          /\ queue[c].loop \in {"attached", "ready", "holding"}
        BY <1>3 DEF Pull
    <2>2. Advance(queue[c]) \in Queue
        <3>1. <<>> \in Seq(AgentExecutionEvent)
            OBVIOUS
        <3> QED
            BY <3>1, Fields, QueueOps
    <2>3. BusTypeOK'
        BY <1>1, <2>1, <2>2 DEF BusTypeOK
    <2>4. ASSUME NEW x \in Consumer PROVE ConsumerInv(x)'
        <3>1. CASE x = c
            <4>1. queue'[c] = Advance(queue[c])
                BY <1>1, <2>1 DEF BusTypeOK
            <4>2. /\ queue'[c].bus = queue[c].bus /\ queue'[c].stopped = queue[c].stopped
                  /\ queue'[c].loop \in {"holding", "done", "parked"}
                  /\ queue'[c].loop = "done" => queue[c].stopped
                  /\ queue'[c].loop = "parked" => queue'[c].buf = <<>> /\ ~queue'[c].stopped
                BY <4>1, Fields DEF Advance, Queue
            <4>3. queue[c].bus # NoBus =>
                    /\ Follows(queue'[c], log[queue[c].bus])
                    /\ EndsOnce(queue'[c], log[queue[c].bus])
                    /\ CaughtUp(queue[c], log[queue[c].bus]) => CaughtUp(queue'[c], log[queue[c].bus])
                BY <1>1, <1>3, <2>1, <4>1, Fields, AdvanceFollows DEF ConsumerInv
            <4> QED
                BY <1>1, <2>1, <2>2, <3>1, <4>1, <4>2, <4>3 DEF ConsumerInv
        <3>2. CASE x # c
            <4>1. queue'[x] = queue[x]
                BY <1>1, <2>1, <3>2 DEF BusTypeOK
            <4> QED
                BY <1>1, <2>1, <4>1 DEF ConsumerInv
        <3> QED
            BY <3>1, <3>2
    <2> QED
        BY <2>3, <2>4, PerConsumerNext
<1> QED
    BY <1>2, <1>3

LEMMA BusUnchanged == BusInv /\ UNCHANGED busVars => BusInv'
BY DEF BusInv, busVars, BusTypeOK, InOrder, NoLostWakeup, NoListenerLeak, NothingAfterFinal
=============================================================================
