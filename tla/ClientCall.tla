------------------------------ MODULE ClientCall ------------------------------
(***************************************************************************)
(* Calls of one Client: the interface is selected from the agent's card;   *)
(* interceptors run before and after the transport's call, for a stream    *)
(* after each event; a stream falls back to a single answer when the card  *)
(* has no streaming; the authenticating fetch retries a refused request    *)
(* once, with headers its handler keeps between calls; and getAgentCard    *)
(* replaces the card under the other calls.                                *)
(*                                                                         *)
(* External: interceptors, which pass, return early or throw; the handler  *)
(* of credentials, which offers new ones for refused requests only; and    *)
(* the agent, which changes the credentials it accepts.                    *)
(***************************************************************************)
EXTENDS Negotiation, SequencesExt

CONSTANTS
    Calls,
    Methods,            \* [Calls -> methods]: what each call may be
    OwnHeader,          \* calls whose options may carry credentials of their own
    OwnCredential,      \* what these are
    NInterceptors,
    AgentCards,         \* sequences of interfaces
    Transports, Preferred,
    MaxEvents,          \* bound: events of a stream
    MaxRotations        \* bound: changes of the credentials accepted

ASSUME CallAssumption ==
    /\ NInterceptors \in Nat /\ MaxEvents \in Nat /\ MaxRotations \in Nat
    /\ OwnHeader \subseteq Calls /\ OwnCredential \in Int
    /\ AgentCards \subseteq Seq(AgentInterface)
    /\ Preferred \in Seq(Transports)       \* an unknown one is refused by the constructor

Interceptors == 1..NInterceptors
AllInterceptors == [k \in Interceptors |-> k]
Wrong == -1         \* credentials that are never accepted
None == -2

VARIABLES
    client,     \* the interface selected, the version its transport speaks, the agent's card,
                \* and is legacyCompat enabled in the transport's factory?
    agentCard,  \* capabilities of the cached card: [streaming, extended]
    call,
    credentials, \* what the handler gives for a first attempt
    valid,      \* the credentials the agent accepts
    accepted    \* those it has accepted

vars == <<client, agentCard, call, credentials, valid, accepted>>
authVars == <<credentials, valid, accepted>>

NewCall == [
    pc |-> "idle", method |-> "none", own |-> FALSE,
    next |-> 1,         \* of interceptBefore
    before |-> <<>>,    \* interceptors whose before() has passed
    early |-> FALSE,    \* did one return early?
    after |-> <<>>,     \* interceptors whose after() has run for this result
    todo |-> <<>>,      \* those interceptAfter has yet to run
    cut |-> FALSE,      \* did one return early?
    stream |-> "none",  \* of the transport: "none", "open", "closed"
    attempts |-> 0, sent |-> None, fresh |-> None, refused |-> FALSE,
    served |-> 0,       \* times the agent executed it
    got |-> 0,          \* results of the transport
    given |-> 0,        \* results of the call
    cutAt |-> 0]        \* `given' when the stream was cut

Streaming == {"sendMessageStream", "resubscribeTask"}
Finished == {"done", "rejected"}

Init ==
    /\ client = [iface |-> NoInterface, wire |-> <<>>, card |-> <<>>, legacyCompat |-> FALSE]
    /\ agentCard \in [streaming : BOOLEAN, extended : BOOLEAN]
    /\ call = [c \in Calls |-> NewCall]
    /\ credentials = 0 /\ valid = 0 /\ accepted = {0}

-----------------------------------------------------------------------------
(* createFromAgentCard: the interface is selected whatever its factory can speak *)

Connect(card, legacyCompat) ==
    LET iface == selectInterface(card, Transports, Preferred)
    IN /\ client.iface = NoInterface
       /\ iface # NoInterface
       /\ client' = [iface |-> iface, card |-> card, legacyCompat |-> legacyCompat,
                     wire |-> createTransport(card, iface.binding, iface.url, legacyCompat)]
       /\ UNCHANGED <<agentCard, call, authVars>>

At(c, pc) == call[c].pc = pc
Update(c, r) == call' = [call EXCEPT ![c] = r]

\* the loop is left with the transport's stream as it is
Ended_NotReturned(r, pc) == [r EXCEPT !.pc = pc]

\* a stream that is left, or whose consumer throws, is returned by for await
Ended(r, pc) == [r EXCEPT !.pc = pc, !.stream = IF @ = "open" THEN "closed" ELSE @]

StartCall(c, m) ==
    /\ At(c, "idle") /\ client.iface # NoInterface /\ m \in Methods[c]
    /\ IF m = "getAgentCard" /\ ~agentCard.extended
       THEN Update(c, [call[c] EXCEPT !.pc = "done", !.method = m, !.given = 1])
       ELSE \E own \in {FALSE} \cup {c \in OwnHeader} :
               Update(c, [call[c] EXCEPT !.pc = "before", !.method = m, !.own = own])
    /\ UNCHANGED <<client, agentCard, authVars>>

-----------------------------------------------------------------------------
(* The interceptors *)

\* after hooks of a result, the last interceptor first
InterceptAfter(r, interceptors) ==
    [r EXCEPT !.pc = "after", !.after = <<>>, !.todo = Reverse(interceptors)]

Passed(r, i) == [r EXCEPT !.before = Append(@, i)]

\* an early return is followed by every after(), of interceptors that never ran too
EarlyReturn_All(r, i) == InterceptAfter([Passed(r, i) EXCEPT !.early = TRUE], AllInterceptors)

EarlyReturn(r, i) == InterceptAfter([Passed(r, i) EXCEPT !.early = TRUE], Passed(r, i).before)

BeforeHook(c) ==
    LET r == call[c]
    IN /\ At(c, "before") /\ r.next \in Interceptors
       /\ \/ Update(c, [Passed(r, r.next) EXCEPT !.next = @ + 1])
          \/ Update(c, EarlyReturn(r, r.next))
          \/ Update(c, [r EXCEPT !.pc = "rejected"])
       /\ UNCHANGED <<client, agentCard, authVars>>

\* the result goes to the caller; a generator waits there for its consumer
Deliver(r) ==
    [r EXCEPT !.given = @ + 1, !.cutAt = IF r.cut THEN r.given + 1 ELSE 0,
              !.pc = IF r.method \notin Streaming THEN "done"
                     ELSE IF r.early \/ r.stream = "none" \/ r.cut THEN "last" ELSE "yielded"]

\* one hook: it passes, ends the result's interception, or throws
AfterHook(c) ==
    /\ At(c, "after") /\ call[c].todo # <<>>
    /\ LET ran == [call[c] EXCEPT !.after = Append(@, Head(call[c].todo)), !.todo = Tail(@)]
       IN \/ Update(c, ran)
          \/ Update(c, [ran EXCEPT !.todo = <<>>, !.cut = TRUE])
          \/ Update(c, Ended(call[c], "rejected"))
    /\ UNCHANGED <<client, agentCard, authVars>>

\* getAgentCard keeps the card before a verifier may refuse it
Result(c) ==
    /\ At(c, "after") /\ call[c].todo = <<>>
    /\ IF call[c].method = "getAgentCard"
       THEN /\ agentCard' \in [streaming : BOOLEAN, extended : BOOLEAN]
            /\ \/ Update(c, Deliver(call[c]))
               \/ Update(c, [call[c] EXCEPT !.pc = "rejected"])
       ELSE /\ Update(c, Deliver(call[c]))
            /\ UNCHANGED agentCard
    /\ UNCHANGED <<client, authVars>>

-----------------------------------------------------------------------------
(* The transport's call: createAuthenticatingFetchWithRetry *)

\* the caller's headers come last
Header(c, offered) == IF call[c].own THEN OwnCredential ELSE offered

\* the transport's method is chosen by the card of this moment
Fetch(c) ==
    /\ At(c, "before") /\ call[c].next \notin Interceptors
    /\ Update(c, [call[c] EXCEPT
                     !.pc = "requested", !.attempts = 1, !.sent = Header(c, credentials),
                     !.stream = IF \/ call[c].method = "resubscribeTask"
                                   \/ call[c].method = "sendMessageStream" /\ agentCard.streaming
                                THEN "open" ELSE "none"])
    /\ UNCHANGED <<client, agentCard, authVars>>

\* the agent's gate for what the transport speaks
Admitted == validateVersion(client.wire, client.card, client.iface.binding)

\* the agent: its version gate, its credentials, and the execution of the request
Serve(c) ==
    /\ At(c, "requested")
    /\ IF ~Admitted
       THEN /\ Update(c, Ended(call[c], "rejected"))
            /\ UNCHANGED accepted
       ELSE IF call[c].sent = valid
       THEN /\ Update(c, [call[c] EXCEPT !.pc = "responded", !.refused = FALSE, !.served = @ + 1])
            /\ accepted' = accepted \cup {valid}
       ELSE /\ Update(c, [call[c] EXCEPT !.pc = "responded", !.refused = TRUE])
            /\ UNCHANGED accepted
    /\ UNCHANGED <<client, agentCard, credentials, valid>>

Attempt(r, fresh, sent) == [r EXCEPT !.pc = "requested", !.attempts = 2, !.fresh = fresh, !.sent = sent]

\* the headers refused are sent again
Retry_SameHeaders(c) ==
    /\ At(c, "responded") /\ call[c].attempts = 1 /\ call[c].refused
    /\ \E fresh \in {valid, Wrong} :
          Update(c, Attempt(call[c], fresh, call[c].sent))
    /\ UNCHANGED <<client, agentCard, authVars>>

\* as long as the agent refuses
Retry_UntilServed(c) ==
    /\ At(c, "responded") /\ call[c].refused
    /\ \E fresh \in {valid, Wrong} :
          Update(c, Attempt(call[c], fresh, Header(c, fresh)))
    /\ UNCHANGED <<client, agentCard, authVars>>

\* shouldRetryWithHeaders offers others; the first attempt alone is retried
Retry(c) ==
    /\ At(c, "responded") /\ call[c].attempts = 1 /\ call[c].refused
    /\ \E fresh \in {valid, Wrong} :
          Update(c, Attempt(call[c], fresh, Header(c, fresh)))
    /\ UNCHANGED <<client, agentCard, authVars>>

\* onSuccessfulRetry is given the headers offered, also if the caller's were sent
Persisted(c) ==
    IF call[c].attempts = 2 /\ ~call[c].refused THEN call[c].fresh ELSE credentials

\* a refusal is thrown
Respond(c) ==
    /\ At(c, "responded")
    /\ credentials' = Persisted(c)
    /\ Update(c, IF call[c].refused THEN Ended(call[c], "rejected") ELSE [call[c] EXCEPT !.pc = "answering"])
    /\ UNCHANGED <<client, agentCard, valid, accepted>>

\* a result, the end of the stream, or an error
Answer(c) ==
    /\ At(c, "answering")
    /\ \/ /\ call[c].got < MaxEvents
          /\ Update(c, InterceptAfter([call[c] EXCEPT !.got = @ + 1], AllInterceptors))
       \/ call[c].stream = "open" /\ Update(c, Ended(call[c], "done"))
       \/ Update(c, Ended(call[c], "rejected"))
    /\ UNCHANGED <<client, agentCard, authVars>>

-----------------------------------------------------------------------------
(* The consumer of a stream, and the agent's credentials *)

NextEvent(c) ==
    /\ \/ At(c, "yielded") /\ Update(c, [call[c] EXCEPT !.pc = "answering"])
       \/ At(c, "last") /\ Update(c, Ended(call[c], "done"))
    /\ UNCHANGED <<client, agentCard, authVars>>

Leave(c) ==
    /\ At(c, "yielded")
    /\ Update(c, Ended(call[c], "done"))
    /\ UNCHANGED <<client, agentCard, authVars>>

Rotate ==
    /\ valid < MaxRotations
    /\ valid' = valid + 1
    /\ UNCHANGED <<client, agentCard, call, credentials, accepted>>

Next ==
    \/ \E card \in AgentCards, legacyCompat \in BOOLEAN : Connect(card, legacyCompat)
    \/ Rotate
    \/ \E c \in Calls :
          \/ \E m \in Methods[c] : StartCall(c, m)
          \/ BeforeHook(c) \/ AfterHook(c) \/ Result(c)
          \/ Fetch(c) \/ Serve(c) \/ Retry(c) \/ Respond(c) \/ Answer(c)
          \/ NextEvent(c) \/ Leave(c)

\* hooks, the network and the consumer go on
Fairness ==
    \A c \in Calls : WF_vars(
        \/ BeforeHook(c) \/ AfterHook(c) \/ Result(c)
        \/ Fetch(c) \/ Serve(c) \/ Retry(c) \/ Respond(c) \/ Answer(c) \/ NextEvent(c))

Spec == Init /\ [][Next]_vars /\ Fairness

-----------------------------------------------------------------------------
(* Properties *)

HooksMirror ==
    \A c \in Calls : LET r == call[c] IN
        r.pc \in {"after", "yielded", "last"} =>
            /\ IsPrefix(r.after, Reverse(r.before))
            /\ (r.pc # "after" /\ ~r.cut) => r.after = Reverse(r.before)

CutIsLast ==
    \A c \in Calls : call[c].cutAt > 0 => call[c].given = call[c].cutAt

\* Every result the caller gets, from the transport or from an early return,
\* has passed the after() of exactly the interceptors whose before() ran, the
\* last first, up to the one that ended it (interceptAfter, interceptBefore);
\* and when an after() ends a stream, the result it ended is the last one.
AfterMirrorsBefore == HooksMirror /\ CutIsLast

\* However a call ends, by its stream, an error, a hook that throws or a consumer
\* that leaves, its transport's stream is finished (for await in sendMessageStream).
StreamReleased ==
    \A c \in Calls : call[c].pc \in Finished => call[c].stream # "open"

ServedOnce ==
    \A c \in Calls : call[c].served <= IF call[c].early THEN 0 ELSE 1

PersistedWasAccepted == credentials \in accepted

RefusedWithCause ==
    \A c \in Calls : LET r == call[c] IN
        r.pc = "rejected" /\ r.refused /\ ~r.own =>
            r.attempts = 1 \/ r.fresh = Wrong \/ r.fresh < valid

\* The agent executes a call at most once, retry or not, and never one that an
\* interceptor answered or stopped before. The handler is told to keep
\* credentials only after the agent accepted them (onSuccessfulRetry), whatever
\* calls retry beside each other; that needs callers whose own credentials, once
\* refused, stay refused (OwnCredential <= 0, which the agent accepts from the
\* start or never). And a call is refused in the end only when its
\* retry was declined, was given wrong credentials, or came after yet another
\* change of them; a caller that brings credentials of its own is not helped by
\* a retry (auth-handler.ts:60).
RetriedOnceIfRefused == ServedOnce /\ PersistedWasAccepted /\ RefusedWithCause

\* The agent's gate (validateVersion) admits what the transport speaks exactly when
\* the interface that was selected is of 1.0, or its factory has legacyCompat enabled
\* (by default it has not, and then no call on an interface of 0.3 is served); and
\* what is admitted is the version of that interface, though the factory picks
\* one again by its URL (pickMatchingInterface).
Negotiated ==
    client.iface # NoInterface =>
        /\ Admitted <=> client.iface.version = V1 \/ client.legacyCompat
        /\ Admitted => client.wire = client.iface.version

\* Every call that was started ends.
EveryCallEnds == \A c \in Calls : ~At(c, "idle") ~> call[c].pc \in Finished
=============================================================================
