--------------------------- MODULE ClientCallProofs ---------------------------
(***************************************************************************)
(* Proofs about the calls of a Client: every result passes the after()     *)
(* hooks of the interceptors whose before() ran, streams are released, a   *)
(* refused request is retried once, and client and agent speak one version *)
(* of the protocol, for every number of calls and of interceptors, and     *)
(* every agent's card.                                                     *)
(***************************************************************************)
EXTENDS ClientCall, TLAPS, WellFoundedInduction

-----------------------------------------------------------------------------
(* The inductive invariant *)

AnyMethod == {"none"} \cup UNION {Methods[c] : c \in Calls}

CallRecord == [
    pc : {"idle", "before", "requested", "responded", "answering", "after",
          "yielded", "last", "done", "rejected"},
    method : AnyMethod, own : BOOLEAN, next : Nat, before : Seq(Interceptors), early : BOOLEAN,
    after : Seq(Interceptors), todo : Seq(Interceptors), cut : BOOLEAN,
    stream : {"none", "open", "closed"}, attempts : 0..2, sent : Int, fresh : Int,
    refused : BOOLEAN, served : Nat, got : Nat, given : Nat, cutAt : Nat]

TypeOK ==
    /\ call \in [Calls -> CallRecord]
    /\ valid \in Nat /\ credentials \in Int

\* the interceptors whose before() has passed, when it has passed for n of them
Counted(n) == [k \in 1..n |-> k]

StreamInv(r) ==
    /\ r.pc \in {"idle", "before"} \cup Finished => r.stream # "open"
    /\ r.stream = "open" => r.method \in Streaming

\* where the loop of after hooks stands
HookInv(r) ==
    /\ r.pc \in {"idle", "before"} => r.next \in 1..(NInterceptors + 1) /\ r.before = Counted(r.next - 1)
    /\ r.pc \in {"idle", "before", "requested", "responded", "answering", "yielded"} => ~r.early /\ ~r.cut
    /\ r.pc \in {"requested", "responded", "answering", "yielded"} => r.before = AllInterceptors
    /\ r.pc = "after" /\ ~r.early => r.before = AllInterceptors
    /\ r.pc = "after" /\ ~r.cut => r.after \o r.todo = Reverse(r.before)
    /\ r.pc = "after" /\ r.cut => r.todo = <<>>
    /\ r.pc \in {"after", "yielded", "last"} => IsPrefix(r.after, Reverse(r.before))
    /\ r.pc \in {"yielded", "last"} /\ ~r.cut => r.after = Reverse(r.before)
    /\ r.cutAt > 0 => r.pc \in {"last", "done"} /\ r.given = r.cutAt

\* a caller's own credentials that are refused stay so
OwnIsOld == OwnCredential <= 0

\* what the two attempts of a call have sent, when the agent accepts v and has accepted acc
RetryInv(r, v, acc) ==
    /\ r.pc \in {"idle", "before"} => r.attempts = 0 /\ r.served = 0 /\ ~r.refused
    /\ r.pc = "requested" => r.served = 0 /\ r.attempts > 0 /\ (r.refused <=> r.attempts = 2)
    /\ r.pc = "responded" => r.attempts > 0
    /\ r.attempts > 0 /\ r.own => r.sent = OwnCredential
    /\ OwnIsOld /\ r.attempts = 2 /\ r.own => v > OwnCredential
    /\ r.attempts = 2 /\ ~r.own => r.sent = r.fresh /\ r.fresh <= v
    /\ r.refused => r.pc \in {"requested", "responded", "rejected"} /\ r.served = 0 /\ r.attempts > 0
    /\ OwnIsOld /\ r.pc = "responded" /\ r.refused /\ r.own => v > OwnCredential
    /\ r.pc \in {"responded", "rejected"} /\ r.refused /\ r.attempts = 2 /\ ~r.own => r.fresh < v
    /\ r.pc = "responded" /\ ~r.refused /\ r.attempts = 2 /\ (OwnIsOld \/ ~r.own) => r.fresh \in acc
    /\ r.served <= 1 /\ (r.early => r.served = 0)

CallInv(r, v, acc) == StreamInv(r) /\ HookInv(r) /\ RetryInv(r, v, acc)

\* the agent's gate admits both attempts, or neither: a client is connected once
GateInv ==
    \A c \in Calls :
        /\ call[c].pc # "idle" => client.iface # NoInterface
        /\ call[c].pc = "responded" \/ call[c].attempts = 2 => Admitted
        /\ call[c].pc = "idle" => call[c].attempts = 0

ClientInv ==
    /\ TypeOK
    /\ \A c \in Calls : CallInv(call[c], valid, accepted)
    /\ GateInv
    /\ OwnIsOld => credentials \in accepted

-----------------------------------------------------------------------------
(* Sequences of hooks *)

\* Reverse keeps a sequence within the type of its elements (interceptAfter's copy).
LEMMA ReverseType ==
    ASSUME NEW S, NEW s \in Seq(S)
    PROVE Reverse(s) \in Seq(S)
BY DEF Reverse

\* The loop of interceptAfter moves the head of what is left to the end of what has
\* run: the two together stay the same, and what has run is a prefix of them.
LEMMA OneMore ==
    ASSUME NEW S, NEW s \in Seq(S), NEW t \in Seq(S), t # <<>>
    PROVE /\ Append(s, Head(t)) \in Seq(S) /\ Tail(t) \in Seq(S)
          /\ Append(s, Head(t)) \o Tail(t) = s \o t
          /\ IsPrefix(Append(s, Head(t)), s \o t)
<1>1. /\ Len(t) > 0 /\ Head(t) \in S /\ Head(t) = t[1]
      /\ Tail(t) \in Seq(S) /\ Append(s, Head(t)) \in Seq(S)
    OBVIOUS
<1>2. Append(s, Head(t)) \o Tail(t) = s \o t
    BY <1>1
<1>3. IsPrefix(Append(s, Head(t)), s \o t)
    BY <1>1 DEF IsPrefix
<1> QED
    BY <1>1, <1>2, <1>3

\* Nothing has run before the first hook.
LEMMA NoneRan ==
    ASSUME NEW S, NEW t \in Seq(S)
    PROVE <<>> \in Seq(S) /\ <<>> \o t = t /\ IsPrefix(<<>>, t)
BY DEF IsPrefix

\* interceptBefore pushes the interceptors in their order.
LEMMA CountedType ==
    /\ AllInterceptors = Counted(NInterceptors)
    /\ Counted(0) = <<>>
    /\ \A n \in 0..NInterceptors : Counted(n) \in Seq(Interceptors)
    /\ \A n \in Interceptors : Append(Counted(n - 1), n) = Counted(n)
BY CallAssumption DEF Counted, AllInterceptors, Interceptors

-----------------------------------------------------------------------------
(* What each change of a call does to its invariant *)

\* A call that is not yet made has run no hook and sent nothing.
LEMMA NewCallInv ==
    ASSUME NEW v \in Nat, NEW acc
    PROVE NewCall \in CallRecord /\ CallInv(NewCall, v, acc)
<1>1. Counted(0) = <<>> /\ <<>> \in Seq(Interceptors) /\ NInterceptors \in Nat
    BY CountedType, CallAssumption
<1>2. None \in Int
    BY DEF None
<1>3. NewCall \in CallRecord
    BY <1>1, <1>2 DEF NewCall, CallRecord, AnyMethod
<1>4. StreamInv(NewCall) /\ HookInv(NewCall) /\ RetryInv(NewCall, v, acc)
    BY <1>1 DEF NewCall, StreamInv, HookInv, RetryInv, Finished
<1> QED
    BY <1>3, <1>4 DEF CallInv

\* What the agent accepts only grows: no other call and no change of credentials
\* takes back what a call relies on.
LEMMA MoreAccepted ==
    ASSUME NEW r \in CallRecord, NEW v \in Nat, NEW w \in Nat, v <= w, NEW acc, NEW more, acc \subseteq more,
           CallInv(r, v, acc)
    PROVE CallInv(r, w, more)
<1>1. r.fresh \in Int /\ OwnCredential \in Int
    BY CallAssumption DEF CallRecord
<1> QED
    BY <1>1 DEF CallInv, RetryInv

\* getAgentCard without an extended card makes no call; every other method meets
\* the first interceptor.
LEMMA Started ==
    ASSUME NEW r \in CallRecord, NEW v \in Nat, NEW acc, CallInv(r, v, acc), r.pc = "idle",
           NEW m \in AnyMethod, NEW own \in BOOLEAN
    PROVE /\ LET r1 == [r EXCEPT !.pc = "done", !.method = m, !.given = 1]
             IN r1 \in CallRecord /\ CallInv(r1, v, acc)
          /\ LET r2 == [r EXCEPT !.pc = "before", !.method = m, !.own = own]
             IN r2 \in CallRecord /\ CallInv(r2, v, acc)
<1> DEFINE r1 == [r EXCEPT !.pc = "done", !.method = m, !.given = 1]
           r2 == [r EXCEPT !.pc = "before", !.method = m, !.own = own]
<1>1. r1 \in CallRecord /\ r2 \in CallRecord
    BY DEF CallRecord
<1>2. StreamInv(r1) /\ StreamInv(r2)
    BY DEF CallInv, StreamInv, CallRecord, Finished
<1>3. HookInv(r1) /\ HookInv(r2)
    BY DEF CallInv, HookInv, CallRecord
<1>4. RetryInv(r1, v, acc) /\ RetryInv(r2, v, acc)
    BY DEF CallInv, RetryInv, CallRecord
<1> QED
    BY <1>1, <1>2, <1>3, <1>4 DEF CallInv

\* The result of a call is handed to the after hooks of those whose before() ran.
LEMMA Intercepted ==
    ASSUME NEW r \in CallRecord, NEW v \in Nat, NEW acc, StreamInv(r), RetryInv(r, v, acc),
           r.stream = "open" => r.method \in Streaming,
           NEW ran \in Seq(Interceptors), ran = r.before, ~r.early => ran = AllInterceptors,
           ~r.cut, r.cutAt = 0, ~r.refused
    PROVE InterceptAfter(r, ran) \in CallRecord /\ CallInv(InterceptAfter(r, ran), v, acc)
<1> DEFINE s == InterceptAfter(r, ran)
<1>1. Reverse(ran) \in Seq(Interceptors)
    BY ReverseType
<1>2. /\ <<>> \in Seq(Interceptors) /\ <<>> \o Reverse(ran) = Reverse(ran)
      /\ IsPrefix(<<>>, Reverse(ran))
    BY <1>1, NoneRan
<1>3. s \in CallRecord
    BY <1>1, <1>2 DEF InterceptAfter, CallRecord
<1>4. /\ s.pc = "after" /\ s.after = <<>> /\ s.todo = Reverse(ran) /\ s.before = r.before
      /\ s.early = r.early /\ s.cut = r.cut /\ s.cutAt = r.cutAt /\ s.method = r.method
      /\ s.stream = r.stream /\ s.refused = r.refused /\ s.served = r.served /\ s.own = r.own
      /\ s.attempts = r.attempts /\ s.sent = r.sent /\ s.fresh = r.fresh
    BY DEF InterceptAfter, CallRecord
<1>5. StreamInv(s)
    BY <1>4 DEF StreamInv, Finished
<1>6. HookInv(s)
    BY <1>2, <1>4 DEF HookInv
<1>7. RetryInv(s, v, acc)
    BY <1>4 DEF RetryInv
<1> QED
    BY <1>3, <1>5, <1>6, <1>7 DEF CallInv

\* A before() that passes, and one that returns early: its after() runs, as that of
\* those before it, and of none behind it.
LEMMA HookPassed ==
    ASSUME NEW r \in CallRecord, NEW v \in Nat, NEW acc, CallInv(r, v, acc),
           r.pc = "before", r.next \in Interceptors
    PROVE /\ LET s == [Passed(r, r.next) EXCEPT !.next = @ + 1]
             IN s \in CallRecord /\ CallInv(s, v, acc)
          /\ EarlyReturn(r, r.next) \in CallRecord /\ CallInv(EarlyReturn(r, r.next), v, acc)
<1> DEFINE ran == Append(r.before, r.next)
           s == [Passed(r, r.next) EXCEPT !.next = @ + 1]
           t == [Passed(r, r.next) EXCEPT !.early = TRUE]
<1>1. NInterceptors \in Nat /\ r.next \in 1..NInterceptors
    BY CallAssumption DEF Interceptors
<1>2. r.before = Counted(r.next - 1) /\ ~r.early /\ ~r.cut
    BY DEF CallInv, HookInv
<1>3. ran = Counted(r.next) /\ ran \in Seq(Interceptors)
  <2>1. r.next \in Interceptors /\ r.next \in 0..NInterceptors
      BY <1>1
  <2> QED
      BY <1>2, <2>1, CountedType
<1>4. Passed(r, r.next) = [r EXCEPT !.before = ran]
    BY DEF Passed
<1>5. /\ s = [r EXCEPT !.before = ran, !.next = r.next + 1]
      /\ t = [r EXCEPT !.before = ran, !.early = TRUE]
    BY <1>4 DEF CallRecord
<1> HIDE DEF ran, s, t
<1>6. s \in CallRecord /\ t \in CallRecord
  <2>1. r.next + 1 \in Nat
      BY <1>1
  <2>2. [r EXCEPT !.before = ran, !.next = r.next + 1] \in CallRecord
      BY <1>3, <2>1 DEF CallRecord
  <2>3. [r EXCEPT !.before = ran, !.early = TRUE] \in CallRecord
      BY <1>3 DEF CallRecord
  <2> QED
      BY <1>5, <2>2, <2>3
<1>7. StreamInv(s) /\ StreamInv(t)
    BY <1>5 DEF CallInv, StreamInv, CallRecord
<1>8. r.cutAt = 0
    BY DEF CallInv, HookInv, CallRecord
<1>9. HookInv(s)
  <2>1. s.next = r.next + 1 /\ s.before = Counted(s.next - 1) /\ s.next \in 1..(NInterceptors + 1)
      BY <1>1, <1>3, <1>5 DEF CallRecord
  <2>2. s.pc = "before" /\ ~s.early /\ ~s.cut /\ s.cutAt = 0
      BY <1>2, <1>5, <1>8 DEF CallRecord
  <2> QED
      BY <2>1, <2>2 DEF HookInv
<1>10. RetryInv(s, v, acc) /\ RetryInv(t, v, acc)
    BY <1>5 DEF CallInv, RetryInv, CallRecord
<1>11. /\ t.before = ran /\ t.early /\ ~t.cut /\ t.cutAt = 0 /\ ~t.refused
       /\ t.stream = "open" => t.method \in Streaming
    BY <1>2, <1>5, <1>7, <1>8 DEF CallInv, RetryInv, StreamInv, CallRecord
<1>12. EarlyReturn(r, r.next) = InterceptAfter(t, ran)
  <2>1. t = [Passed(r, r.next) EXCEPT !.early = TRUE] /\ Passed(r, r.next).before = ran
      BY <1>4 DEF t, CallRecord
  <2> QED
      BY <2>1 DEF EarlyReturn
<1>13. /\ EarlyReturn(r, r.next) \in CallRecord
       /\ CallInv(EarlyReturn(r, r.next), v, acc)
    BY <1>3, <1>6, <1>7, <1>10, <1>11, <1>12, Intercepted
<1>14. s \in CallRecord /\ CallInv(s, v, acc)
    BY <1>6, <1>7, <1>9, <1>10 DEF CallInv
<1> QED
    BY <1>13, <1>14 DEF s

\* An after() that passes, or ends the interception of its result.
LEMMA HookRan ==
    ASSUME NEW r \in CallRecord, NEW v \in Nat, NEW acc, CallInv(r, v, acc),
           r.pc = "after", r.todo # <<>>
    PROVE LET ran == [r EXCEPT !.after = Append(@, Head(r.todo)), !.todo = Tail(@)]
              cut == [ran EXCEPT !.todo = <<>>, !.cut = TRUE]
          IN /\ ran \in CallRecord /\ CallInv(ran, v, acc)
             /\ cut \in CallRecord /\ CallInv(cut, v, acc)
<1> DEFINE after == Append(r.after, Head(r.todo))
           todo == Tail(r.todo)
           ran == [r EXCEPT !.after = Append(@, Head(r.todo)), !.todo = Tail(@)]
           cut == [ran EXCEPT !.todo = <<>>, !.cut = TRUE]
<1>1. r.after \in Seq(Interceptors) /\ r.todo \in Seq(Interceptors)
    BY DEF CallRecord
<1>2. ~r.cut /\ r.after \o r.todo = Reverse(r.before) /\ r.cutAt = 0
    BY DEF CallInv, HookInv, CallRecord
<1>3. /\ after \in Seq(Interceptors) /\ todo \in Seq(Interceptors)
      /\ after \o todo = Reverse(r.before) /\ IsPrefix(after, Reverse(r.before))
    BY <1>1, <1>2, OneMore
<1>4. <<>> \in Seq(Interceptors)
    OBVIOUS
<1>5. /\ ran = [r EXCEPT !.after = after, !.todo = todo]
      /\ cut = [r EXCEPT !.after = after, !.todo = <<>>, !.cut = TRUE]
    BY DEF CallRecord
<1> HIDE DEF after, todo, ran, cut
<1>6. ran \in CallRecord /\ cut \in CallRecord
    BY <1>3, <1>4, <1>5 DEF CallRecord
<1>7. StreamInv(ran) /\ StreamInv(cut)
    BY <1>5 DEF CallInv, StreamInv, CallRecord
<1>8. HookInv(ran) /\ HookInv(cut)
    BY <1>2, <1>3, <1>5 DEF CallInv, HookInv, CallRecord
<1>9. RetryInv(ran, v, acc) /\ RetryInv(cut, v, acc)
    BY <1>5 DEF CallInv, RetryInv, CallRecord
<1>10. /\ ran \in CallRecord /\ CallInv(ran, v, acc)
       /\ cut \in CallRecord /\ CallInv(cut, v, acc)
    BY <1>6, <1>7, <1>8, <1>9 DEF CallInv
<1> QED
    BY <1>10 DEF ran, cut

\* A result whose hooks have all run goes to the caller.
LEMMA Delivered ==
    ASSUME NEW r \in CallRecord, NEW v \in Nat, NEW acc, CallInv(r, v, acc),
           r.pc = "after", r.todo = <<>>
    PROVE Deliver(r) \in CallRecord /\ CallInv(Deliver(r), v, acc)
<1> DEFINE s == Deliver(r)
           n == r.given + 1
           m == IF r.cut THEN n ELSE 0
           pc == IF r.method \notin Streaming THEN "done"
                 ELSE IF r.early \/ r.stream = "none" \/ r.cut THEN "last" ELSE "yielded"
<1>1. /\ n \in Nat /\ n > 0 /\ m \in Nat /\ (m > 0 => m = n /\ r.cut)
      /\ pc \in {"done", "last", "yielded"}
      /\ pc = "done" => r.stream # "open"
      /\ pc = "yielded" => ~r.early /\ ~r.cut
      /\ r.cut => pc # "yielded"
    BY DEF CallInv, StreamInv, CallRecord
<1>2. s = [r EXCEPT !.given = n, !.cutAt = m, !.pc = pc]
    BY DEF Deliver, CallRecord
<1>3. r.after \in Seq(Interceptors)
    BY DEF CallRecord
<1>4. /\ ~r.cut => r.after = Reverse(r.before)
      /\ IsPrefix(r.after, Reverse(r.before))
      /\ ~r.early => r.before = AllInterceptors
    BY <1>3 DEF CallInv, HookInv
<1> HIDE DEF s, n, m, pc
<1>5. s \in CallRecord
    BY <1>1, <1>2 DEF CallRecord
<1>6. /\ s.pc = pc /\ s.given = n /\ s.cutAt = m /\ s.before = r.before /\ s.after = r.after
      /\ s.early = r.early /\ s.cut = r.cut /\ s.stream = r.stream /\ s.method = r.method
      /\ s.refused = r.refused /\ s.served = r.served /\ s.own = r.own
      /\ s.attempts = r.attempts /\ s.sent = r.sent /\ s.fresh = r.fresh
    BY <1>2 DEF CallRecord
<1>7. StreamInv(s)
    BY <1>1, <1>6 DEF CallInv, StreamInv, Finished
<1>8. HookInv(s)
    BY <1>1, <1>4, <1>6 DEF HookInv
<1>9. RetryInv(s, v, acc)
    BY <1>1, <1>6 DEF CallInv, RetryInv
<1>10. s \in CallRecord /\ CallInv(s, v, acc)
    BY <1>5, <1>7, <1>8, <1>9 DEF CallInv
<1> QED
    BY <1>10 DEF s

\* A call that ends with its stream returned. It may be refused in the end for its
\* own credentials, a declined retry, or a change after the retry's headers were made.
LEMMA EndedCall ==
    ASSUME NEW r \in CallRecord, NEW v \in Nat, NEW acc, CallInv(r, v, acc),
           NEW pc \in Finished, pc = "rejected" => r.pc # "last", r.pc \notin Finished,
           r.refused => pc = "rejected" /\ (r.pc = "responded" \/ r.attempts = 1)
    PROVE Ended(r, pc) \in CallRecord /\ CallInv(Ended(r, pc), v, acc)
<1> DEFINE s == Ended(r, pc)
<1>1. s \in CallRecord
    BY DEF Ended, CallRecord, Finished
<1>2. StreamInv(s)
    BY DEF CallInv, StreamInv, Ended, CallRecord
<1>3. HookInv(s)
    BY DEF CallInv, HookInv, Ended, CallRecord, Finished
<1>4. RetryInv(s, v, acc)
    BY DEF CallInv, RetryInv, Ended, CallRecord, Finished
<1> QED
    BY <1>1, <1>2, <1>3, <1>4 DEF CallInv

\* A hook of before() that throws, and getAgentCard's verifier that does, leave no
\* stream behind.
LEMMA Thrown ==
    ASSUME NEW r \in CallRecord, NEW v \in Nat, NEW acc, CallInv(r, v, acc),
           r.pc \in {"before", "after"}, r.stream # "open"
    PROVE /\ [r EXCEPT !.pc = "rejected"] \in CallRecord
          /\ CallInv([r EXCEPT !.pc = "rejected"], v, acc)
<1>1. Ended(r, "rejected") = [r EXCEPT !.pc = "rejected"]
    BY DEF Ended, CallRecord
<1>2. ~r.refused
    BY DEF CallInv, RetryInv
<1> QED
    BY <1>1, <1>2, EndedCall DEF Finished

\* The caller takes the next event of a stream, and a served request is answered.
LEMMA Answering ==
    ASSUME NEW r \in CallRecord, NEW v \in Nat, NEW acc, CallInv(r, v, acc),
           r.pc \in {"yielded", "responded"}, ~r.refused
    PROVE /\ [r EXCEPT !.pc = "answering"] \in CallRecord
          /\ CallInv([r EXCEPT !.pc = "answering"], v, acc)
<1> DEFINE s == [r EXCEPT !.pc = "answering"]
<1>1. s \in CallRecord
    BY DEF CallRecord
<1>2. StreamInv(s)
    BY DEF CallInv, StreamInv, CallRecord, Finished
<1>3. HookInv(s)
    BY DEF CallInv, HookInv, CallRecord
<1>4. RetryInv(s, v, acc)
    BY DEF CallInv, RetryInv, CallRecord
<1> QED
    BY <1>1, <1>2, <1>3, <1>4 DEF CallInv

\* The first attempt is made when every before() has passed.
LEMMA Requested ==
    ASSUME NEW r \in CallRecord, NEW v \in Nat, NEW acc, CallInv(r, v, acc),
           r.pc = "before", r.next \notin Interceptors,
           NEW sent \in Int, r.own => sent = OwnCredential,
           NEW stream \in {"none", "open"}, stream = "open" => r.method \in Streaming
    PROVE LET s == [r EXCEPT !.pc = "requested", !.attempts = 1, !.sent = sent, !.stream = stream]
          IN s \in CallRecord /\ CallInv(s, v, acc)
<1> DEFINE s == [r EXCEPT !.pc = "requested", !.attempts = 1, !.sent = sent, !.stream = stream]
<1>1. r.before = AllInterceptors
  <2>1. r.next \in 1..(NInterceptors + 1) /\ r.before = Counted(r.next - 1) /\ NInterceptors \in Nat
      BY CallAssumption DEF CallInv, HookInv
  <2>2. r.next - 1 = NInterceptors
      BY <2>1 DEF Interceptors
  <2> QED
      BY <2>1, <2>2, CountedType
<1>2. s \in CallRecord
  <2>1. 1 \in 0..2 /\ stream \in {"none", "open", "closed"}
      OBVIOUS
  <2> QED
      BY <2>1 DEF CallRecord
<1>3. StreamInv(s)
    BY DEF StreamInv, CallRecord, Finished
<1>4. HookInv(s)
    BY <1>1 DEF CallInv, HookInv, CallRecord
<1>5. RetryInv(s, v, acc)
    BY DEF CallInv, RetryInv, CallRecord
<1> QED
    BY <1>2, <1>3, <1>4, <1>5 DEF CallInv

\* The agent executes a request with the credentials it accepts, and then has
\* accepted them; it refuses any other.
LEMMA Served ==
    ASSUME NEW r \in CallRecord, NEW v \in Nat, NEW acc, CallInv(r, v, acc), r.pc = "requested"
    PROVE /\ r.sent = v =>
                LET s == [r EXCEPT !.pc = "responded", !.refused = FALSE, !.served = @ + 1]
                IN s \in CallRecord /\ CallInv(s, v, acc \cup {v})
          /\ r.sent # v =>
                LET s == [r EXCEPT !.pc = "responded", !.refused = TRUE]
                IN s \in CallRecord /\ CallInv(s, v, acc)
<1>1. ASSUME r.sent = v
      PROVE LET s == [r EXCEPT !.pc = "responded", !.refused = FALSE, !.served = @ + 1]
            IN s \in CallRecord /\ CallInv(s, v, acc \cup {v})
  <2> DEFINE n == r.served + 1
             s == [r EXCEPT !.pc = "responded", !.refused = FALSE, !.served = n]
  <2>0. n = 1 /\ n \in Nat
      BY DEF CallInv, RetryInv
  <2> HIDE DEF n
  <2>1. s \in CallRecord
      BY <2>0 DEF CallRecord
  <2>2. StreamInv(s)
      BY DEF CallInv, StreamInv, CallRecord, Finished
  <2>3. HookInv(s)
      BY DEF CallInv, HookInv, CallRecord
  <2>4. RetryInv(s, v, acc \cup {v})
    <3>1. r.attempts = 2 => (OwnIsOld => ~r.own) /\ (~r.own => r.fresh = v)
        BY <1>1, CallAssumption DEF CallInv, RetryInv, CallRecord
    <3>2. /\ s.pc = "responded" /\ ~s.refused /\ s.served = 1 /\ s.early = r.early /\ s.own = r.own
          /\ s.attempts = r.attempts /\ s.sent = r.sent /\ s.fresh = r.fresh
        BY <2>0 DEF CallRecord
    <3>3. ~r.early /\ r.attempts > 0
        BY DEF CallInv, HookInv, RetryInv
    <3> QED
        BY <3>1, <3>2, <3>3 DEF CallInv, RetryInv
  <2> QED
      BY <2>1, <2>2, <2>3, <2>4 DEF CallInv, n
<1>2. ASSUME r.sent # v
      PROVE LET s == [r EXCEPT !.pc = "responded", !.refused = TRUE]
            IN s \in CallRecord /\ CallInv(s, v, acc)
  <2> DEFINE s == [r EXCEPT !.pc = "responded", !.refused = TRUE]
  <2>1. s \in CallRecord
      BY DEF CallRecord
  <2>2. StreamInv(s)
      BY DEF CallInv, StreamInv, CallRecord, Finished
  <2>3. HookInv(s)
      BY DEF CallInv, HookInv, CallRecord
  <2>4. RetryInv(s, v, acc)
    <3>1. OwnIsOld /\ r.own => v > OwnCredential
        BY <1>2, CallAssumption DEF CallInv, RetryInv, CallRecord, OwnIsOld
    <3> QED
        BY <1>2, <3>1 DEF CallInv, RetryInv, CallRecord
  <2> QED
      BY <2>1, <2>2, <2>3, <2>4 DEF CallInv
<1> QED
    BY <1>1, <1>2

\* The retry has the headers offered, or the caller's own once more, which were
\* refused already.
LEMMA Retried ==
    ASSUME NEW r \in CallRecord, NEW v \in Nat, NEW acc, CallInv(r, v, acc),
           r.pc = "responded", r.attempts = 1, r.refused,
           NEW fresh \in {v, Wrong}, NEW sent \in Int, sent = IF r.own THEN OwnCredential ELSE fresh
    PROVE Attempt(r, fresh, sent) \in CallRecord /\ CallInv(Attempt(r, fresh, sent), v, acc)
<1> DEFINE s == Attempt(r, fresh, sent)
<1>1. fresh \in Int /\ fresh <= v
    BY DEF Wrong
<1>2. s \in CallRecord
  <2>1. 2 \in 0..2
      OBVIOUS
  <2> QED
      BY <1>1, <2>1 DEF Attempt, CallRecord
<1>3. StreamInv(s)
    BY DEF CallInv, StreamInv, Attempt, CallRecord, Finished
<1>4. HookInv(s)
    BY DEF CallInv, HookInv, Attempt, CallRecord
<1>5. RetryInv(s, v, acc)
    BY <1>1 DEF CallInv, RetryInv, Attempt, CallRecord
<1> QED
    BY <1>2, <1>3, <1>4, <1>5 DEF CallInv

-----------------------------------------------------------------------------
(* The invariant *)

\* A step of one call leaves the others as they are; they keep their invariant, as
\* long as what the agent accepts has only grown.
LEMMA Frame ==
    ASSUME TypeOK, \A d \in Calls : CallInv(call[d], valid, accepted),
           NEW c \in Calls, NEW r \in CallRecord, Update(c, r),
           valid' = valid, accepted \subseteq accepted', credentials' \in Int,
           CallInv(r, valid, accepted')
    PROVE /\ TypeOK' /\ call'[c] = r /\ \A d \in Calls \ {c} : call'[d] = call[d]
          /\ \A d \in Calls : CallInv(call[d], valid, accepted)'
<1>1. /\ call' \in [Calls -> CallRecord] /\ call'[c] = r
      /\ \A d \in Calls \ {c} : call'[d] = call[d]
    BY DEF TypeOK, Update
<1>2. TypeOK'
    BY <1>1 DEF TypeOK
<1>3. ASSUME NEW d \in Calls
      PROVE CallInv(call'[d], valid', accepted')
  <2>1. CASE d = c
      BY <1>1, <2>1
  <2>2. CASE d # c
    <3>1. call'[d] = call[d] /\ call[d] \in CallRecord /\ CallInv(call[d], valid, accepted)
        BY <1>1, <2>2 DEF TypeOK
    <3>2. valid \in Nat /\ valid <= valid
        BY DEF TypeOK
    <3>3. CallInv(call[d], valid, accepted')
        BY <3>1, <3>2, MoreAccepted
    <3> QED
        BY <3>1, <3>3
  <2> QED
      BY <2>1, <2>2
<1> QED
    BY <1>1, <1>2, <1>3

\* The frame of a step of one call: the call's new record has the invariant, and
\* relies on the agent's gate only when it has been admitted.
LEMMA CallStep ==
    ASSUME ClientInv, NEW c \in Calls, NEW r \in CallRecord, Update(c, r),
           UNCHANGED <<client, valid>>, accepted \subseteq accepted',
           OwnIsOld => credentials' \in accepted', credentials' \in Int,
           CallInv(r, valid, accepted'), r.pc # "idle", client.iface # NoInterface,
           r.pc = "responded" \/ r.attempts = 2 => Admitted
    PROVE ClientInv'
<1>1. TypeOK /\ \A d \in Calls : CallInv(call[d], valid, accepted)
    BY DEF ClientInv
<1>2. /\ TypeOK' /\ call'[c] = r /\ \A d \in Calls \ {c} : call'[d] = call[d]
      /\ \A d \in Calls : CallInv(call[d], valid, accepted)'
    BY <1>1, Frame
<1>3. Admitted' = Admitted
    BY DEF Admitted
<1>4. GateInv'
    BY <1>2, <1>3 DEF ClientInv, GateInv
<1> QED
    BY <1>2, <1>4 DEF ClientInv

\* The same for a step that leaves the credentials alone.
LEMMA PlainStep ==
    ASSUME ClientInv, NEW c \in Calls, NEW r \in CallRecord, Update(c, r),
           UNCHANGED <<client, authVars>>,
           CallInv(r, valid, accepted), r.pc # "idle", client.iface # NoInterface,
           r.pc = "responded" \/ r.attempts = 2 => Admitted
    PROVE ClientInv'
<1>1. (OwnIsOld => credentials \in accepted) /\ credentials \in Int
    BY DEF ClientInv, TypeOK
<1>2. /\ UNCHANGED <<client, valid>> /\ accepted \subseteq accepted'
      /\ (OwnIsOld => credentials' \in accepted') /\ credentials' \in Int /\ CallInv(r, valid, accepted')
    BY <1>1 DEF authVars
<1> QED
    BY <1>2, CallStep

\* What the invariant says of one call.
LEMMA OfCall ==
    ASSUME ClientInv, NEW c \in Calls
    PROVE /\ call[c] \in CallRecord /\ valid \in Nat /\ CallInv(call[c], valid, accepted)
          /\ call[c].pc # "idle" => client.iface # NoInterface
          /\ call[c].pc = "responded" \/ call[c].attempts = 2 => Admitted
          /\ credentials \in Int
BY DEF ClientInv, TypeOK, GateInv

\* createFromAgentCard, before any call: no call relies on the gate yet.
LEMMA ConnectKeeps ==
    ASSUME ClientInv, NEW card, NEW legacyCompat, Connect(card, legacyCompat)
    PROVE ClientInv'
<1>1. \A c \in Calls : call[c].pc = "idle" /\ call[c].attempts = 0
    BY DEF ClientInv, GateInv, Connect
<1>2. UNCHANGED <<call, valid, credentials, accepted>>
    BY DEF Connect, authVars
<1>3. GateInv'
    BY <1>1, <1>2 DEF GateInv
<1> QED
    BY <1>2, <1>3 DEF ClientInv, TypeOK

\* The agent's change of its credentials.
LEMMA RotateKeeps ==
    ASSUME ClientInv, Rotate
    PROVE ClientInv'
<1>1. valid' = valid + 1 /\ UNCHANGED <<client, call, credentials, accepted>> /\ valid \in Nat
    BY DEF Rotate, ClientInv, TypeOK
<1>2. valid' \in Nat /\ valid <= valid'
    BY <1>1
<1>3. \A c \in Calls : CallInv(call[c], valid', accepted)
  <2>1. SUFFICES ASSUME NEW c \in Calls PROVE CallInv(call[c], valid', accepted)
      OBVIOUS
  <2>2. call[c] \in CallRecord /\ CallInv(call[c], valid, accepted)
      BY OfCall
  <2> QED
      BY <1>1, <1>2, <2>2, MoreAccepted
<1>4. GateInv' /\ TypeOK'
    BY <1>1, <1>2 DEF ClientInv, GateInv, TypeOK, Admitted
<1> QED
    BY <1>1, <1>3, <1>4 DEF ClientInv

\* The start of a call.
LEMMA StartKeeps ==
    ASSUME ClientInv, NEW c \in Calls, NEW m \in Methods[c], StartCall(c, m)
    PROVE ClientInv'
<1> DEFINE r == call[c]
           r1 == [r EXCEPT !.pc = "done", !.method = m, !.given = 1]
           r2(own) == [r EXCEPT !.pc = "before", !.method = m, !.own = own]
<1>1. /\ r \in CallRecord /\ valid \in Nat /\ CallInv(r, valid, accepted) /\ r.pc = "idle"
      /\ r.attempts = 0 /\ client.iface # NoInterface /\ m \in AnyMethod
    BY OfCall DEF StartCall, At, AnyMethod, ClientInv, GateInv
<1>2. UNCHANGED <<client, authVars>>
    BY DEF StartCall
<1>3. CASE Update(c, r1)
  <2>1. r1 \in CallRecord /\ CallInv(r1, valid, accepted)
      BY <1>1, Started
  <2>2. r1.pc = "done" /\ r1.attempts = 0
      BY <1>1 DEF CallRecord
  <2> HIDE DEF r1
  <2> QED
      BY <1>1, <1>2, <1>3, <2>1, <2>2, PlainStep
<1>4. ASSUME NEW own \in BOOLEAN, Update(c, r2(own))
      PROVE ClientInv'
  <2> DEFINE s == r2(own)
  <2>1. s \in CallRecord /\ CallInv(s, valid, accepted)
      BY <1>1, Started
  <2>2. s.pc = "before" /\ s.attempts = 0 /\ Update(c, s)
      BY <1>1, <1>4 DEF CallRecord
  <2> HIDE DEF s
  <2> QED
      BY <1>1, <1>2, <2>1, <2>2, PlainStep
<1>5. Update(c, r1) \/ \E own \in BOOLEAN : Update(c, r2(own))
    BY DEF StartCall
<1> QED
    BY <1>3, <1>4, <1>5

\* A before() of an interceptor.
LEMMA BeforeKeeps ==
    ASSUME ClientInv, NEW c \in Calls, BeforeHook(c)
    PROVE ClientInv'
<1> DEFINE r == call[c]
           r1 == [Passed(r, r.next) EXCEPT !.next = @ + 1]
           r2 == EarlyReturn(r, r.next)
           r3 == [r EXCEPT !.pc = "rejected"]
<1>1. /\ r \in CallRecord /\ valid \in Nat /\ CallInv(r, valid, accepted) /\ r.pc = "before"
      /\ client.iface # NoInterface /\ r.next \in Interceptors
    BY OfCall DEF BeforeHook, At
<1>2. r.attempts = 0 /\ r.stream # "open"
    BY <1>1 DEF CallInv, StreamInv, RetryInv
<1>3. UNCHANGED <<client, authVars>>
    BY DEF BeforeHook
<1>4. /\ r1 \in CallRecord /\ CallInv(r1, valid, accepted)
      /\ r2 \in CallRecord /\ CallInv(r2, valid, accepted)
    BY <1>1, HookPassed
<1>5. r3 \in CallRecord /\ CallInv(r3, valid, accepted)
    BY <1>1, <1>2, Thrown
<1>6. /\ r1.pc = "before" /\ r1.attempts = 0
      /\ r2.pc = "after" /\ r2.attempts = 0
      /\ r3.pc = "rejected" /\ r3.attempts = 0
    BY <1>1, <1>2 DEF Passed, EarlyReturn, InterceptAfter, CallRecord
<1>7. Update(c, r1) \/ Update(c, r2) \/ Update(c, r3)
    BY DEF BeforeHook
<1> HIDE DEF r1, r2, r3
<1>8. CASE Update(c, r1)
    BY <1>1, <1>3, <1>4, <1>6, <1>8, PlainStep
<1>9. CASE Update(c, r2)
    BY <1>1, <1>3, <1>4, <1>6, <1>9, PlainStep
<1>10. CASE Update(c, r3)
    BY <1>1, <1>3, <1>5, <1>6, <1>10, PlainStep
<1> QED
    BY <1>7, <1>8, <1>9, <1>10

\* An after() of an interceptor.
LEMMA AfterKeeps ==
    ASSUME ClientInv, NEW c \in Calls, AfterHook(c)
    PROVE ClientInv'
<1> DEFINE r == call[c]
           ran == [r EXCEPT !.after = Append(@, Head(r.todo)), !.todo = Tail(@)]
           cut == [ran EXCEPT !.todo = <<>>, !.cut = TRUE]
           out == Ended(r, "rejected")
<1>1. /\ r \in CallRecord /\ valid \in Nat /\ CallInv(r, valid, accepted) /\ r.pc = "after"
      /\ client.iface # NoInterface /\ r.todo # <<>> /\ (r.attempts = 2 => Admitted)
    BY OfCall DEF AfterHook, At
<1>2. ~r.refused
    BY <1>1 DEF CallInv, RetryInv
<1>3. UNCHANGED <<client, authVars>>
    BY DEF AfterHook
<1>4. /\ ran \in CallRecord /\ CallInv(ran, valid, accepted)
      /\ cut \in CallRecord /\ CallInv(cut, valid, accepted)
    BY <1>1, HookRan
<1>5. out \in CallRecord /\ CallInv(out, valid, accepted)
    BY <1>1, <1>2, EndedCall DEF Finished
<1>6. /\ ran.pc = "after" /\ ran.attempts = r.attempts
      /\ cut.pc = "after" /\ cut.attempts = r.attempts
      /\ out.pc = "rejected" /\ out.attempts = r.attempts
    BY <1>1 DEF Ended, CallRecord
<1>7. Update(c, ran) \/ Update(c, cut) \/ Update(c, out)
    BY DEF AfterHook
<1> HIDE DEF ran, cut, out
<1>8. CASE Update(c, ran)
    BY <1>1, <1>3, <1>4, <1>6, <1>8, PlainStep
<1>9. CASE Update(c, cut)
    BY <1>1, <1>3, <1>4, <1>6, <1>9, PlainStep
<1>10. CASE Update(c, out)
    BY <1>1, <1>3, <1>5, <1>6, <1>10, PlainStep
<1> QED
    BY <1>7, <1>8, <1>9, <1>10

\* A result whose hooks have run; getAgentCard may refuse the card it has kept.
LEMMA ResultKeeps ==
    ASSUME ClientInv, NEW c \in Calls, Result(c)
    PROVE ClientInv'
<1> DEFINE r == call[c]
           r1 == Deliver(r)
           r2 == [r EXCEPT !.pc = "rejected"]
<1>1. /\ r \in CallRecord /\ valid \in Nat /\ CallInv(r, valid, accepted) /\ r.pc = "after"
      /\ client.iface # NoInterface /\ r.todo = <<>> /\ (r.attempts = 2 => Admitted)
    BY OfCall DEF Result, At
<1>2. UNCHANGED <<client, authVars>>
    BY DEF Result
<1>3. r1 \in CallRecord /\ CallInv(r1, valid, accepted)
    BY <1>1, Delivered
<1>4. r1.pc \in {"done", "last", "yielded"} /\ r1.attempts = r.attempts
    BY <1>1 DEF Deliver, CallRecord
<1>5. Update(c, r1) \/ (r.method = "getAgentCard" /\ Update(c, r2))
    BY DEF Result
<1>6. CASE Update(c, r1)
  <2> HIDE DEF r1
  <2> QED
      BY <1>1, <1>2, <1>3, <1>4, <1>6, PlainStep
<1>7. CASE r.method = "getAgentCard" /\ Update(c, r2)
  <2>1. r.stream # "open"
      BY <1>1, <1>7 DEF CallInv, StreamInv, Streaming
  <2>2. r2 \in CallRecord /\ CallInv(r2, valid, accepted)
      BY <1>1, <2>1, Thrown
  <2>3. r2.pc = "rejected" /\ r2.attempts = r.attempts
      BY <1>1 DEF CallRecord
  <2> HIDE DEF r2
  <2> QED
      BY <1>1, <1>2, <1>7, <2>2, <2>3, PlainStep
<1> QED
    BY <1>5, <1>6, <1>7

\* The first attempt.
LEMMA FetchKeeps ==
    ASSUME ClientInv, NEW c \in Calls, Fetch(c)
    PROVE ClientInv'
<1> DEFINE r == call[c]
           sent == Header(c, credentials)
           stream == IF \/ r.method = "resubscribeTask"
                        \/ r.method = "sendMessageStream" /\ agentCard.streaming
                     THEN "open" ELSE "none"
           s == [r EXCEPT !.pc = "requested", !.attempts = 1, !.sent = sent, !.stream = stream]
<1>1. /\ r \in CallRecord /\ valid \in Nat /\ CallInv(r, valid, accepted) /\ r.pc = "before"
      /\ client.iface # NoInterface /\ r.next \notin Interceptors /\ credentials \in Int
    BY OfCall DEF Fetch, At
<1>2. sent \in Int /\ (r.own => sent = OwnCredential)
    BY <1>1, CallAssumption DEF Header
<1>3. stream \in {"none", "open"} /\ (stream = "open" => r.method \in Streaming)
    BY DEF Streaming
<1>4. UNCHANGED <<client, authVars>> /\ Update(c, s)
    BY DEF Fetch
<1> HIDE DEF sent, stream
<1>5. s \in CallRecord /\ CallInv(s, valid, accepted)
    BY <1>1, <1>2, <1>3, Requested
<1>6. s.pc = "requested" /\ s.attempts = 1
    BY <1>1 DEF CallRecord
<1> HIDE DEF s
<1> QED
    BY <1>1, <1>4, <1>5, <1>6, PlainStep

\* The agent's answer to an attempt: its gate comes first, and says of the retry
\* what it said of the first attempt.
LEMMA ServeKeeps ==
    ASSUME ClientInv, NEW c \in Calls, Serve(c)
    PROVE ClientInv'
<1> DEFINE r == call[c]
           out == Ended(r, "rejected")
           done == [r EXCEPT !.pc = "responded", !.refused = FALSE, !.served = @ + 1]
           no == [r EXCEPT !.pc = "responded", !.refused = TRUE]
<1>1. /\ r \in CallRecord /\ valid \in Nat /\ CallInv(r, valid, accepted) /\ r.pc = "requested"
      /\ client.iface # NoInterface /\ credentials \in Int /\ (OwnIsOld => credentials \in accepted)
      /\ r.attempts = 2 => Admitted
    BY OfCall DEF Serve, At, ClientInv
<1>2. UNCHANGED <<client, agentCard, credentials, valid>>
    BY DEF Serve
<1>3. /\ ~Admitted => Update(c, out) /\ accepted' = accepted
      /\ Admitted /\ r.sent = valid => Update(c, done) /\ accepted' = accepted \cup {valid}
      /\ Admitted /\ r.sent # valid => Update(c, no) /\ accepted' = accepted
    BY DEF Serve
<1>4. CASE ~Admitted
  <2>1. r.attempts = 1
      BY <1>1, <1>4 DEF CallInv, RetryInv, CallRecord
  <2>2. out \in CallRecord /\ CallInv(out, valid, accepted)
      BY <1>1, <2>1, EndedCall DEF Finished
  <2>3. out.pc = "rejected" /\ out.attempts = 1
      BY <1>1, <2>1 DEF Ended, CallRecord
  <2> HIDE DEF out
  <2>4. UNCHANGED <<client, authVars>> /\ Update(c, out)
      BY <1>2, <1>3, <1>4 DEF authVars
  <2> QED
      BY <1>1, <2>2, <2>3, <2>4, PlainStep
<1>5. CASE Admitted /\ r.sent = valid
  <2>1. done \in CallRecord /\ CallInv(done, valid, accepted \cup {valid})
      BY <1>1, <1>5, Served
  <2>2. done.pc = "responded"
      BY <1>1 DEF CallRecord
  <2> HIDE DEF done
  <2>3. Update(c, done) /\ accepted' = accepted \cup {valid}
      BY <1>3, <1>5
  <2>4. /\ UNCHANGED <<client, valid>> /\ accepted \subseteq accepted'
        /\ (OwnIsOld => credentials' \in accepted') /\ credentials' \in Int
      BY <1>1, <1>2, <2>3
  <2> QED
      BY <1>1, <1>5, <2>1, <2>2, <2>3, <2>4, CallStep
<1>6. CASE Admitted /\ r.sent # valid
  <2>1. no \in CallRecord /\ CallInv(no, valid, accepted)
      BY <1>1, <1>6, Served
  <2>2. no.pc = "responded"
      BY <1>1 DEF CallRecord
  <2> HIDE DEF no
  <2>3. UNCHANGED <<client, authVars>> /\ Update(c, no)
      BY <1>2, <1>3, <1>6 DEF authVars
  <2> QED
      BY <1>1, <1>6, <2>1, <2>2, <2>3, PlainStep
<1> QED
    BY <1>4, <1>5, <1>6

\* The retry of a refused attempt.
LEMMA RetryKeeps ==
    ASSUME ClientInv, NEW c \in Calls, Retry(c)
    PROVE ClientInv'
<1> DEFINE r == call[c]
<1>1. /\ r \in CallRecord /\ valid \in Nat /\ CallInv(r, valid, accepted) /\ r.pc = "responded"
      /\ client.iface # NoInterface /\ r.attempts = 1 /\ r.refused /\ Admitted
    BY OfCall DEF Retry, At
<1>2. UNCHANGED <<client, authVars>>
    BY DEF Retry
<1>3. PICK fresh \in {valid, Wrong} : Update(c, Attempt(r, fresh, Header(c, fresh)))
    BY DEF Retry
<1> DEFINE sent == Header(c, fresh)
           s == Attempt(r, fresh, sent)
<1>4. sent = (IF r.own THEN OwnCredential ELSE fresh) /\ sent \in Int
    BY <1>1, CallAssumption DEF Header, Wrong
<1> HIDE DEF sent
<1>5. s \in CallRecord /\ CallInv(s, valid, accepted)
    BY <1>1, <1>4, Retried
<1>6. s.pc = "requested" /\ Update(c, s)
    BY <1>1, <1>3 DEF Attempt, CallRecord, sent
<1> HIDE DEF s
<1> QED
    BY <1>1, <1>2, <1>5, <1>6, PlainStep

\* The answer of the last attempt: credentials are kept after a retry that was
\* accepted, and a refusal ends the call.
LEMMA RespondKeeps ==
    ASSUME ClientInv, NEW c \in Calls, Respond(c)
    PROVE ClientInv'
<1> DEFINE r == call[c]
           out == Ended(r, "rejected")
           go == [r EXCEPT !.pc = "answering"]
<1>1. /\ r \in CallRecord /\ valid \in Nat /\ CallInv(r, valid, accepted) /\ r.pc = "responded"
      /\ client.iface # NoInterface /\ Admitted
      /\ credentials \in Int /\ (OwnIsOld => credentials \in accepted)
    BY OfCall DEF Respond, At, ClientInv
<1>2. r.fresh \in Int /\ (OwnIsOld /\ ~r.refused /\ r.attempts = 2 => r.fresh \in accepted)
    BY <1>1 DEF CallInv, RetryInv, CallRecord
<1>3. (OwnIsOld => credentials' \in accepted) /\ credentials' \in Int
    BY <1>1, <1>2 DEF Respond, Persisted
<1>4. /\ UNCHANGED <<client, valid, accepted>>
      /\ r.refused => Update(c, out)
      /\ ~r.refused => Update(c, go)
    BY DEF Respond
<1>5. CASE r.refused
  <2>1. out \in CallRecord /\ CallInv(out, valid, accepted)
      BY <1>1, EndedCall DEF Finished
  <2>2. out.pc = "rejected"
      BY <1>1 DEF Ended, CallRecord
  <2> HIDE DEF out
  <2>3. Update(c, out) /\ UNCHANGED <<client, valid>> /\ accepted' = accepted
      BY <1>4, <1>5
  <2> QED
      BY <1>1, <1>3, <2>1, <2>2, <2>3, CallStep
<1>6. CASE ~r.refused
  <2>1. go \in CallRecord /\ CallInv(go, valid, accepted)
      BY <1>1, <1>6, Answering
  <2>2. go.pc = "answering"
      BY <1>1 DEF CallRecord
  <2> HIDE DEF go
  <2>3. Update(c, go) /\ UNCHANGED <<client, valid>> /\ accepted' = accepted
      BY <1>4, <1>6
  <2> QED
      BY <1>1, <1>3, <2>1, <2>2, <2>3, CallStep
<1> QED
    BY <1>5, <1>6

\* A result of the transport, the end of its stream, or its error.
LEMMA AnswerKeeps ==
    ASSUME ClientInv, NEW c \in Calls, Answer(c)
    PROVE ClientInv'
<1> DEFINE r == call[c]
           q == [r EXCEPT !.got = @ + 1]
           more == InterceptAfter(q, AllInterceptors)
           end(pc) == Ended(r, pc)
<1>1. /\ r \in CallRecord /\ valid \in Nat /\ CallInv(r, valid, accepted) /\ r.pc = "answering"
      /\ client.iface # NoInterface /\ (r.attempts = 2 => Admitted)
    BY OfCall DEF Answer, At
<1>2. /\ r.before = AllInterceptors /\ ~r.cut /\ r.cutAt = 0 /\ ~r.refused /\ r.before \in Seq(Interceptors)
      /\ r.stream = "open" => r.method \in Streaming
    BY <1>1 DEF CallInv, StreamInv, HookInv, RetryInv, CallRecord
<1>3. UNCHANGED <<client, authVars>>
    BY DEF Answer
<1>4. Update(c, more) \/ \E pc \in Finished : Update(c, end(pc))
    BY DEF Answer, Finished
<1>5. CASE Update(c, more)
  <2>1. /\ q \in CallRecord /\ StreamInv(q) /\ RetryInv(q, valid, accepted)
        /\ q.before = AllInterceptors /\ ~q.cut /\ q.cutAt = 0 /\ ~q.refused
        /\ q.attempts = r.attempts /\ (q.stream = "open" => q.method \in Streaming)
    <3>1. q \in CallRecord
      <4>1. r.got + 1 \in Nat
          BY <1>1 DEF CallRecord
      <4> DEFINE n == r.got + 1
      <4> HIDE DEF n
      <4>2. [r EXCEPT !.got = n] \in CallRecord
          BY <1>1, <4>1 DEF CallRecord, n
      <4> QED
          BY <4>2 DEF n
    <3>2. StreamInv(q) /\ RetryInv(q, valid, accepted)
        BY <1>1 DEF CallInv, StreamInv, RetryInv, CallRecord
    <3> QED
        BY <1>1, <1>2, <3>1, <3>2 DEF CallRecord
  <2> HIDE DEF q
  <2>2. more \in CallRecord /\ CallInv(more, valid, accepted)
      BY <1>1, <1>2, <2>1, Intercepted
  <2>3. more.pc = "after" /\ more.attempts = r.attempts
      BY <2>1 DEF InterceptAfter, CallRecord
  <2> HIDE DEF more
  <2> QED
      BY <1>1, <1>3, <1>5, <2>2, <2>3, PlainStep
<1>6. ASSUME NEW pc \in Finished, Update(c, end(pc))
      PROVE ClientInv'
  <2> DEFINE s == end(pc)
  <2>1. s \in CallRecord /\ CallInv(s, valid, accepted)
      BY <1>1, <1>2, EndedCall DEF Finished
  <2>2. s.pc \in Finished /\ s.attempts = r.attempts /\ Update(c, s)
      BY <1>1, <1>6 DEF Ended, CallRecord
  <2> HIDE DEF s
  <2> QED
      BY <1>1, <1>3, <2>1, <2>2, PlainStep DEF Finished
<1> QED
    BY <1>4, <1>5, <1>6

\* The consumer takes the next event, or returns from the last one.
LEMMA NextKeeps ==
    ASSUME ClientInv, NEW c \in Calls, NextEvent(c)
    PROVE ClientInv'
<1> DEFINE r == call[c]
           go == [r EXCEPT !.pc = "answering"]
           out == Ended(r, "done")
<1>1. /\ r \in CallRecord /\ valid \in Nat /\ CallInv(r, valid, accepted)
      /\ r.pc \in {"yielded", "last"} /\ client.iface # NoInterface /\ (r.attempts = 2 => Admitted)
    BY OfCall DEF NextEvent, At
<1>2. ~r.refused
    BY <1>1 DEF CallInv, RetryInv
<1>3. UNCHANGED <<client, authVars>>
    BY DEF NextEvent
<1>4. (r.pc = "yielded" /\ Update(c, go)) \/ (r.pc = "last" /\ Update(c, out))
    BY DEF NextEvent, At
<1>5. CASE r.pc = "yielded" /\ Update(c, go)
  <2>1. go \in CallRecord /\ CallInv(go, valid, accepted)
      BY <1>1, <1>2, <1>5, Answering
  <2>2. go.pc = "answering" /\ go.attempts = r.attempts
      BY <1>1 DEF CallRecord
  <2> HIDE DEF go
  <2> QED
      BY <1>1, <1>3, <1>5, <2>1, <2>2, PlainStep
<1>6. CASE r.pc = "last" /\ Update(c, out)
  <2>1. out \in CallRecord /\ CallInv(out, valid, accepted)
      BY <1>1, <1>2, EndedCall DEF Finished
  <2>2. out.pc = "done" /\ out.attempts = r.attempts
      BY <1>1 DEF Ended, CallRecord
  <2> HIDE DEF out
  <2> QED
      BY <1>1, <1>3, <1>6, <2>1, <2>2, PlainStep
<1> QED
    BY <1>4, <1>5, <1>6

\* The consumer leaves a stream at an event.
LEMMA LeaveKeeps ==
    ASSUME ClientInv, NEW c \in Calls, Leave(c)
    PROVE ClientInv'
<1> DEFINE r == call[c]
           out == Ended(r, "done")
<1>1. /\ r \in CallRecord /\ valid \in Nat /\ CallInv(r, valid, accepted)
      /\ r.pc = "yielded" /\ client.iface # NoInterface /\ (r.attempts = 2 => Admitted)
    BY OfCall DEF Leave, At
<1>2. ~r.refused
    BY <1>1 DEF CallInv, RetryInv
<1>3. UNCHANGED <<client, authVars>> /\ Update(c, out)
    BY DEF Leave
<1>4. out \in CallRecord /\ CallInv(out, valid, accepted)
    BY <1>1, <1>2, EndedCall DEF Finished
<1>5. out.pc = "done" /\ out.attempts = r.attempts
    BY <1>1 DEF Ended, CallRecord
<1> HIDE DEF out
<1> QED
    BY <1>1, <1>3, <1>4, <1>5, PlainStep

\* The invariant of the client: hooks in order, streams returned, attempts counted,
\* whatever the calls, their interceptors and the agent do.
THEOREM ClientInvariant == Spec => []ClientInv
<1>1. ASSUME Init PROVE ClientInv
  <2>1. valid = 0 /\ credentials = 0 /\ accepted = {0} /\ call = [c \in Calls |-> NewCall]
      BY <1>1 DEF Init
  <2>2. NewCall \in CallRecord /\ CallInv(NewCall, 0, {0})
      BY NewCallInv
  <2>3. NewCall.pc = "idle" /\ NewCall.attempts = 0
      BY DEF NewCall
  <2>4. TypeOK /\ \A c \in Calls : CallInv(call[c], valid, accepted)
      BY <2>1, <2>2 DEF TypeOK
  <2>5. GateInv
      BY <2>1, <2>3 DEF GateInv
  <2> QED
      BY <2>1, <2>4, <2>5 DEF ClientInv
<1>2. ASSUME ClientInv, [Next]_vars PROVE ClientInv'
  <2>1. CASE UNCHANGED vars
      BY <1>2, <2>1 DEF vars, ClientInv, TypeOK, GateInv, Admitted
  <2>2. ASSUME NEW card \in AgentCards, NEW legacyCompat \in BOOLEAN, Connect(card, legacyCompat)
        PROVE  ClientInv'
      BY <1>2, <2>2, ConnectKeeps
  <2>3. CASE Rotate
      BY <1>2, <2>3, RotateKeeps
  <2>4. ASSUME NEW c \in Calls, NEW m \in Methods[c], StartCall(c, m) PROVE ClientInv'
      BY <1>2, <2>4, StartKeeps
  <2>5. ASSUME NEW c \in Calls, BeforeHook(c) \/ AfterHook(c) \/ Result(c) PROVE ClientInv'
      BY <1>2, <2>5, BeforeKeeps, AfterKeeps, ResultKeeps
  <2>6. ASSUME NEW c \in Calls, Fetch(c) \/ Serve(c) \/ Retry(c) \/ Respond(c) PROVE ClientInv'
      BY <1>2, <2>6, FetchKeeps, ServeKeeps, RetryKeeps, RespondKeeps
  <2>7. ASSUME NEW c \in Calls, Answer(c) \/ NextEvent(c) \/ Leave(c) PROVE ClientInv'
      BY <1>2, <2>7, AnswerKeeps, NextKeeps, LeaveKeeps
  <2> QED
      BY <1>2, <2>1, <2>2, <2>3, <2>4, <2>5, <2>6, <2>7 DEF Next
<1> QED
    BY <1>1, <1>2, PTL DEF Spec

-----------------------------------------------------------------------------
(* The properties *)

\* Every result has passed the after() of the interceptors whose before() ran, the
\* last first, up to the one that ended it (interceptAfter); and a stream that an
\* after() ends gives no result behind it.
THEOREM HooksInOrder == Spec => []AfterMirrorsBefore
<1>1. ASSUME ClientInv PROVE AfterMirrorsBefore
  <2>1. \A c \in Calls : HookInv(call[c]) /\ call[c].cutAt \in Nat
      BY <1>1, OfCall DEF CallInv, CallRecord
  <2>2. HooksMirror
      BY <2>1 DEF HooksMirror, HookInv
  <2>3. CutIsLast
      BY <2>1 DEF CutIsLast, HookInv
  <2> QED
      BY <2>2, <2>3 DEF AfterMirrorsBefore
<1> QED
    BY <1>1, ClientInvariant, PTL

\* However a call ends, its transport's stream is finished (sendMessageStream's
\* for await).
THEOREM StreamsReleased == Spec => []StreamReleased
<1>1. ASSUME ClientInv PROVE StreamReleased
  <2>1. \A c \in Calls : StreamInv(call[c])
      BY <1>1, OfCall DEF CallInv
  <2> QED
      BY <2>1 DEF StreamReleased, StreamInv
<1> QED
    BY <1>1, ClientInvariant, PTL

\* The agent executes a call at most once; the handler is told to keep credentials
\* only when the agent has accepted them, as long as a caller's own are not such that
\* the agent refuses them and accepts them later (OwnIsOld); and a call is refused in
\* the end only for its own credentials, a retry that was declined or wrong, or
\* another change of the agent's credentials (createAuthenticatingFetchWithRetry).
THEOREM RefusedAndRetried == OwnIsOld /\ Spec => []RetriedOnceIfRefused
<1>1. SUFFICES ASSUME OwnIsOld PROVE Spec => []RetriedOnceIfRefused
    OBVIOUS
<1>2. ASSUME ClientInv PROVE RetriedOnceIfRefused
  <2>1. \A c \in Calls : RetryInv(call[c], valid, accepted) /\ call[c] \in CallRecord
      BY <1>2, OfCall DEF CallInv
  <2>2. ServedOnce
    <3>1. SUFFICES ASSUME NEW c \in Calls
                   PROVE call[c].served <= IF call[c].early THEN 0 ELSE 1
        BY DEF ServedOnce
    <3> QED
        BY <2>1 DEF RetryInv
  <2>3. PersistedWasAccepted
      BY <1>1, <1>2 DEF ClientInv, PersistedWasAccepted
  <2>4. RefusedWithCause
    <3>1. SUFFICES ASSUME NEW c \in Calls,
                          call[c].pc = "rejected", call[c].refused, ~call[c].own,
                          call[c].attempts # 1
                   PROVE call[c].fresh < valid
        BY DEF RefusedWithCause
    <3>2. call[c].attempts # 0
        BY <2>1, <3>1 DEF RetryInv
    <3> QED
        BY <2>1, <3>1, <3>2 DEF RetryInv, CallRecord
  <2> QED
      BY <2>2, <2>3, <2>4 DEF RetriedOnceIfRefused
<1> QED
    BY <1>2, ClientInvariant, PTL
-----------------------------------------------------------------------------
(* The version that client and agent speak *)

\* The loops over a card's interfaces find one: a set of indices has a least and a
\* greatest element.
LEMMA LeastOf ==
    ASSUME NEW T \in SUBSET Nat, T # {}
    PROVE  \E m \in T : \A k \in T : m <= k
<1> DEFINE R == {ss \in Nat \X Nat : ss[1] < ss[2]}
<1>1. IsWellFoundedOn(R, Nat)
    BY NatLessThanWellFounded, Zenon DEF OpToRel
<1>2. \A i, j \in Nat : <<i, j>> \in R \/ j <= i
    OBVIOUS
<1> HIDE DEF R
<1>3. PICK m \in T : \A k \in T : ~(<<k, m>> \in R)
    BY <1>1, WFMin
<1> QED
    BY <1>2, <1>3

LEMMA FirstAndLast ==
    ASSUME NEW n \in Nat, NEW I \in SUBSET (1..n), I # {}
    PROVE  Min(I) \in I /\ Max(I) \in I
<1> DEFINE T == {n - i : i \in I}
<1>1. I \in SUBSET Nat
    OBVIOUS
<1>2. Min(I) \in I
    BY <1>1, LeastOf DEF Min
<1>3. T \in SUBSET Nat /\ T # {}
  <2>1. \A i \in I : n - i \in Nat
      OBVIOUS
  <2> QED
      BY <2>1
<1>4. PICK t \in T : \A k \in T : t <= k
    BY <1>3, LeastOf
<1>5. PICK m \in I : t = n - m
    OBVIOUS
<1>6. \A j \in I : m >= j
  <2>1. \A j \in I : n - m <= n - j
      BY <1>4, <1>5
  <2> QED
      BY <1>1, <2>1
<1>7. Max(I) \in I
    BY <1>6 DEF Max
<1> QED
    BY <1>2, <1>7

\* The interface a binding is given is one of its own, at 1.0 if it has one.
LEMMA BestOfBinding ==
    ASSUME NEW card \in Seq(AgentInterface), NEW binding, Named(card, binding) # {}
    PROVE  \E k \in Named(card, binding) :
               /\ bestInterfacePerProtocol(card, binding) = card[k]
               /\ Current(card, Named(card, binding)) # {} => card[k].version = V1
<1> DEFINE named == Named(card, binding)
<1> DEFINE current == Current(card, named)
<1>1. named \in SUBSET (1..Len(card)) /\ current \in SUBSET named /\ Len(card) \in Nat
    BY DEF Named, Current
<1>2. CASE current # {}
  <2>1. Max(current) \in current
      BY <1>1, <1>2, FirstAndLast
  <2>2. bestInterfacePerProtocol(card, binding) = card[Max(current)]
      BY <1>2 DEF bestInterfacePerProtocol, Latest
  <2>3. card[Max(current)].version = V1
      BY <2>1 DEF Current
  <2> QED
      BY <1>1, <2>1, <2>2, <2>3
<1>3. CASE current = {}
  <2>1. Min(named) \in named
      BY <1>1, FirstAndLast
  <2>2. bestInterfacePerProtocol(card, binding) = card[Min(named)]
      BY <1>3 DEF bestInterfacePerProtocol, Earliest
  <2> QED
      BY <1>3, <2>1, <2>2
<1> QED
    BY <1>2, <1>3

\* The interface that is selected is the best of its binding.
LEMMA SelectedIsBest ==
    ASSUME NEW card \in AgentCards,
           selectInterface(card, Transports, Preferred) # NoInterface
    PROVE  \E binding : \E k \in Named(card, binding) :
               /\ selectInterface(card, Transports, Preferred) = card[k]
               /\ Current(card, Named(card, binding)) # {} => card[k].version = V1
<1> DEFINE names == Preferred \o [k \in DOMAIN card |-> card[k].binding]
<1> DEFINE usable == {k \in DOMAIN names : names[k] \in Transports /\ Named(card, names[k]) # {}}
<1>1. card \in Seq(AgentInterface) /\ Preferred \in Seq(Transports \cup STRING)
    BY CallAssumption
<1>2. [k \in DOMAIN card |-> card[k].binding] \in Seq(Transports \cup STRING)
  <2>1. DOMAIN card = 1..Len(card) /\ Len(card) \in Nat
      BY <1>1
  <2>2. \A k \in 1..Len(card) : card[k].binding \in Transports \cup STRING
    <3>1. \A k \in 1..Len(card) : card[k] \in AgentInterface
        BY <1>1
    <3> QED
        BY <3>1 DEF AgentInterface
  <2> QED
      BY <2>1, <2>2
<1>3. DOMAIN names = 1..Len(names) /\ Len(names) \in Nat
    BY <1>1, <1>2
<1>4. usable # {}
    BY DEF selectInterface
<1>5. Min(usable) \in usable
    BY <1>3, <1>4, FirstAndLast
<1>6. selectInterface(card, Transports, Preferred) = bestInterfacePerProtocol(card, names[Min(usable)])
    BY <1>4 DEF selectInterface
<1>7. Named(card, names[Min(usable)]) # {}
    BY <1>5
<1> HIDE DEF names, usable
<1> QED
    BY <1>1, <1>6, <1>7, BestOfBinding

\* Whatever else the card has at its URL, the transport made for it speaks its version.
LEMMA TransportSpeaks ==
    ASSUME NEW card \in Seq(AgentInterface), NEW binding, NEW k \in Named(card, binding),
           \A j \in DOMAIN card : card[j].version \in {V03, V1},
           Current(card, Named(card, binding)) # {} => card[k].version = V1
    PROVE  createTransport(card, binding, card[k].url, TRUE) = card[k].version
<1> DEFINE candidates == Named(card, binding)
<1> DEFINE byUrl == {j \in candidates : card[j].url = card[k].url}
<1> DEFINE current == Current(card, byUrl)
<1> DEFINE pool == IF current # {} THEN current ELSE byUrl
<1>1. k \in byUrl /\ byUrl \in SUBSET candidates /\ current \in SUBSET byUrl
    BY DEF Current
<1>2. candidates \in SUBSET (1..Len(card)) /\ Len(card) \in Nat
    BY DEF Named
<1>3. pool # {} /\ pool \in SUBSET byUrl /\ pool \in SUBSET (1..Len(card))
    BY <1>1, <1>2
<1>4. Min(pool) \in pool
    BY <1>2, <1>3, FirstAndLast
<1>5. pickMatchingInterface(card, binding, card[k].url) = card[Min(pool)]
    BY <1>1, <1>3 DEF pickMatchingInterface, Earliest
<1>6. card[Min(pool)].version = card[k].version
  <2>1. CASE card[k].version = V1
    <3>1. k \in current
        BY <1>1, <2>1 DEF Current
    <3> QED
        BY <1>4, <2>1, <3>1 DEF Current
  <2>2. CASE card[k].version # V1
    <3>1. Current(card, candidates) = {}
        BY <2>2
    <3>2. Min(pool) \in candidates
        BY <1>1, <1>3, <1>4
    <3>3. card[Min(pool)].version # V1
        BY <3>1, <3>2 DEF Current
    <3>4. Min(pool) \in DOMAIN card /\ k \in DOMAIN card
        BY <3>2 DEF Named
    <3> QED
        BY <2>2, <3>3, <3>4
  <2> QED
      BY <2>1, <2>2
<1> HIDE DEF pool
<1>7. card[Min(pool)].version \in {V03, V1}
  <2>1. DOMAIN card = 1..Len(card)
      OBVIOUS
  <2>2. Min(pool) \in DOMAIN card
      BY <1>3, <1>4, <2>1
  <2> QED
      BY <2>2
<1>8. card[Min(pool)] # NoInterface
  <2>1. NoInterface.version = <<>> /\ V1 # <<>> /\ V03 # <<>>
      BY DEF NoInterface, Interface, NoVersion, V1, V03
  <2> QED
      BY <1>7, <2>1
<1>9. isLegacyVersion(V03) /\ ~isLegacyVersion(V1)
    BY DEF isLegacyVersion, compareVersions, V1, V03, NoVersion
<1> QED
    BY <1>5, <1>6, <1>7, <1>8, <1>9 DEF createTransport

\* the versions of which the SDK has a transport
DeclaresVersions == \A card \in AgentCards : \A k \in DOMAIN card : card[k].version \in {V03, V1}

\* Connecting negotiates. Without legacyCompat the transport speaks 1.0, and an
\* interface of 0.3 is selected only where its binding has none of 1.0.
LEMMA ConnectNegotiates ==
    ASSUME DeclaresVersions, NEW card \in AgentCards, NEW legacyCompat \in BOOLEAN,
           Connect(card, legacyCompat)
    PROVE  Negotiated'
<1> DEFINE iface == selectInterface(card, Transports, Preferred)
<1>1. iface # NoInterface /\ client' = [iface |-> iface, card |-> card, legacyCompat |-> legacyCompat,
          wire |-> createTransport(card, iface.binding, iface.url, legacyCompat)]
    BY DEF Connect
<1>2. PICK binding : \E k \in Named(card, binding) :
          /\ iface = card[k]
          /\ Current(card, Named(card, binding)) # {} => card[k].version = V1
    BY <1>1, SelectedIsBest
<1>3. PICK k \in Named(card, binding) :
          /\ iface = card[k]
          /\ Current(card, Named(card, binding)) # {} => card[k].version = V1
    BY <1>2
<1> HIDE DEF iface
<1>4. card \in Seq(AgentInterface)
    BY CallAssumption
<1>5. k \in DOMAIN card /\ iface.binding = binding
    BY <1>3 DEF Named
<1>6. iface.version \in {V03, V1} /\ V1 # NoVersion /\ V03 # NoVersion
    BY <1>3, <1>5 DEF DeclaresVersions, NoVersion, V1, V03
<1>7. iface.version \in getSupportedVersions(card, binding)
    BY <1>3, <1>5, <1>6 DEF getSupportedVersions
<1>8. /\ client'.iface = iface /\ client'.card = card /\ client'.legacyCompat = legacyCompat
      /\ client'.wire = createTransport(card, binding, iface.url, legacyCompat)
    BY <1>1, <1>5
<1>9. Admitted' <=> client'.wire \in getSupportedVersions(card, binding)
    BY <1>5, <1>8 DEF Admitted, validateVersion
<1>10. CASE legacyCompat
  <2>1. createTransport(card, binding, card[k].url, TRUE) = card[k].version
      BY <1>3, <1>4, TransportSpeaks DEF DeclaresVersions
  <2>2. client'.wire = iface.version
      BY <1>3, <1>8, <1>10, <2>1
  <2> QED
      BY <1>7, <1>8, <1>9, <1>10, <2>2 DEF Negotiated
<1>11. CASE ~legacyCompat
  <2>1. client'.wire = V1
      BY <1>8, <1>11 DEF createTransport
  <2>2. iface.version # V1 => V1 \notin getSupportedVersions(card, binding)
    <3>1. iface.version # V1 => Current(card, Named(card, binding)) = {}
        BY <1>3
    <3> QED
        BY <3>1 DEF Current, getSupportedVersions
  <2>3. Admitted' <=> iface.version = V1
      BY <1>7, <1>9, <2>1, <2>2
  <2> QED
      BY <1>8, <1>11, <2>1, <2>3 DEF Negotiated
<1> QED
    BY <1>10, <1>11

\* A client is connected once; nothing else changes what it selected.
LEMMA OnlyConnects ==
    ASSUME [Next]_vars
    PROVE  (\E card \in AgentCards, legacyCompat \in BOOLEAN : Connect(card, legacyCompat)) \/ UNCHANGED client
<1>1. CASE UNCHANGED vars
    BY <1>1 DEF vars
<1>2. CASE Rotate
    BY <1>2 DEF Rotate
<1>3. ASSUME NEW c \in Calls,
             \/ \E m \in Methods[c] : StartCall(c, m)
             \/ BeforeHook(c) \/ AfterHook(c) \/ Result(c)
             \/ Fetch(c) \/ Serve(c) \/ Retry(c) \/ Respond(c) \/ Answer(c)
             \/ NextEvent(c) \/ Leave(c)
      PROVE  UNCHANGED client
    BY <1>3 DEF StartCall, BeforeHook, AfterHook, Result, Fetch, Serve, Retry, Respond,
                Answer, NextEvent, Leave
<1> QED
    BY <1>1, <1>2, <1>3 DEF Next

\* Whichever interfaces an agent's card has, at 1.0 and 0.3, on one URL or on
\* several, in whatever order, and whatever the client prefers: the agent's gate
\* admits the transport exactly when createFromNormalizedAgentCard has selected an
\* interface of 1.0 or its factory has legacyCompat enabled, and then the transport
\* speaks the version of that interface, though the factory picks one again by its
\* URL alone (pickMatchingInterface).
THEOREM SpeaksItsVersion == DeclaresVersions /\ Spec => []Negotiated
<1>1. SUFFICES ASSUME DeclaresVersions PROVE Spec => []Negotiated
    OBVIOUS
<1>2. Init => Negotiated
    BY DEF Init, Negotiated
<1>3. Negotiated /\ [Next]_vars => Negotiated'
  <2>1. SUFFICES ASSUME Negotiated, [Next]_vars PROVE Negotiated'
      OBVIOUS
  <2>2. CASE \E card \in AgentCards, legacyCompat \in BOOLEAN : Connect(card, legacyCompat)
      BY <1>1, <2>2, ConnectNegotiates
  <2>3. CASE UNCHANGED client
      BY <2>1, <2>3 DEF Negotiated, Admitted
  <2> QED
      BY <2>1, <2>2, <2>3, OnlyConnects
<1> QED
    BY <1>2, <1>3, PTL DEF Spec
=============================================================================
