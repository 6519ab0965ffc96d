----------------------------- MODULE TaskWriteLock -----------------------------
(***************************************************************************)
(* serializeByScope of the result manager: the promise chain that          *)
(* serialises the calls made for one lock key, and the map entry that      *)
(* points at the chain's end.                                              *)
(*                                                                         *)
(* tail[k] is taskWriteLocks.get(k), by the call whose `next' promise it   *)
(* is; prev[c] is the promise c was chained onto, NoCall for the resolved  *)
(* one. A call is "waiting" until its fn starts, "running" until fn        *)
(* settles, "settled" until its evict callback ran, then "evicted". Evict  *)
(* is the first reaction registered on a promise, so a successor's fn      *)
(* never starts before it.                                                 *)
(***************************************************************************)
EXTENDS Naturals

CONSTANTS Call, Key, NoCall, NoKey

ASSUME NoCallAssumption == NoCall \notin Call
ASSUME NoKeyAssumption == NoKey \notin Key

VARIABLES
    tail,       \* taskWriteLocks: key -> last chained call
    stage,      \* stage[c]: how far call c is
    scope,      \* scope[c]: the key it was made with
    prev,       \* prev[c]: the call it was chained onto
    ticket,     \* history: c's number among the calls of its key
    issued,     \* history: calls made for a key
    served      \* history: calls of a key whose fn settled

lockVars == <<tail, stage, scope, prev, ticket, issued, served>>

Stage == {"idle", "waiting", "running", "settled", "evicted"}

LockTypeOK ==
    /\ tail \in [Key -> Call \cup {NoCall}]
    /\ stage \in [Call -> Stage]
    /\ scope \in [Call -> Key \cup {NoKey}]
    /\ prev \in [Call -> Call \cup {NoCall}]
    /\ ticket \in [Call -> Nat]
    /\ issued \in [Key -> Nat]
    /\ served \in [Key -> Nat]
    /\ \A c \in Call : stage[c] # "idle" => scope[c] \in Key

LockInit ==
    /\ tail = [k \in Key |-> NoCall]
    /\ stage = [c \in Call |-> "idle"]
    /\ scope = [c \in Call |-> NoKey]
    /\ prev = [c \in Call |-> NoCall]
    /\ ticket = [c \in Call |-> 0]
    /\ issued = [k \in Key |-> 0]
    /\ served = [k \in Key |-> 0]

Serialize_TailKept(c, k) ==
    /\ stage[c] = "idle"
    /\ prev' = [prev EXCEPT ![c] = tail[k]]
    /\ tail' = IF tail[k] = NoCall THEN [tail EXCEPT ![k] = c] ELSE tail
    /\ stage' = [stage EXCEPT ![c] = "waiting"]
    /\ scope' = [scope EXCEPT ![c] = k]
    /\ ticket' = [ticket EXCEPT ![c] = issued[k]]
    /\ issued' = [issued EXCEPT ![k] = @ + 1]
    /\ UNCHANGED served

\* prev = get(k) ?? resolved; next = prev.then(fn, fn); set(k, next)
Serialize(c, k) ==
    /\ stage[c] = "idle"
    /\ prev' = [prev EXCEPT ![c] = tail[k]]
    /\ tail' = [tail EXCEPT ![k] = c]
    /\ stage' = [stage EXCEPT ![c] = "waiting"]
    /\ scope' = [scope EXCEPT ![c] = k]
    /\ ticket' = [ticket EXCEPT ![c] = issued[k]]
    /\ issued' = [issued EXCEPT ![k] = @ + 1]
    /\ UNCHANGED served

Enter_OnlyIfIdle(c) ==
    /\ stage[c] = "waiting"
    /\ prev[c] = NoCall
    /\ stage' = [stage EXCEPT ![c] = "running"]
    /\ UNCHANGED <<tail, scope, prev, ticket, issued, served>>

\* prev settled, either way: fn starts
Enter(c) ==
    /\ stage[c] = "waiting"
    /\ prev[c] # NoCall => stage[prev[c]] = "evicted"
    /\ stage' = [stage EXCEPT ![c] = "running"]
    /\ UNCHANGED <<tail, scope, prev, ticket, issued, served>>

\* fn's promise settles, fulfilled or rejected
Release(c) ==
    /\ stage[c] = "running"
    /\ stage' = [stage EXCEPT ![c] = "settled"]
    /\ served' = [served EXCEPT ![scope[c]] = @ + 1]
    /\ UNCHANGED <<tail, scope, prev, ticket, issued>>

Evict_Always(c) ==
    /\ stage[c] = "settled"
    /\ stage' = [stage EXCEPT ![c] = "evicted"]
    /\ tail' = [tail EXCEPT ![scope[c]] = NoCall]
    /\ UNCHANGED <<scope, prev, ticket, issued, served>>

Evict_Never(c) ==
    /\ stage[c] = "settled"
    /\ stage' = [stage EXCEPT ![c] = "evicted"]
    /\ UNCHANGED <<tail, scope, prev, ticket, issued, served>>

\* evict: the entry is deleted when no later call was chained
Evict(c) ==
    /\ stage[c] = "settled"
    /\ stage' = [stage EXCEPT ![c] = "evicted"]
    /\ tail' = IF tail[scope[c]] = c THEN [tail EXCEPT ![scope[c]] = NoCall] ELSE tail
    /\ UNCHANGED <<scope, prev, ticket, issued, served>>

LockNext ==
    \E c \in Call :
        Enter(c) \/ Release(c) \/ Evict(c) \/ \E k \in Key : Serialize(c, k)

LockSpec == LockInit /\ [][LockNext]_lockVars

-----------------------------------------------------------------------------
(***************************************************************************)
(* The event loop runs a promise's reactions, and a store call settles.    *)
(***************************************************************************)
FairLockSpec ==
    LockSpec /\ \A c \in Call : WF_lockVars(Enter(c) \/ Release(c) \/ Evict(c))

(***************************************************************************)
(* Two calls for one key never run at the same time.                       *)
(***************************************************************************)
MutualExclusion ==
    \A c, d \in Call :
        stage[c] = "running" /\ stage[d] = "running" /\ scope[c] = scope[d] => c = d

(***************************************************************************)
(* The map entry is gone once the chain drains, and while it is there it   *)
(* names an unfinished call of its own key.                                *)
(***************************************************************************)
MapDrains ==
    \A k \in Key :
        tail[k] # NoCall =>
            scope[tail[k]] = k /\ stage[tail[k]] \in {"waiting", "running", "settled"}

(***************************************************************************)
(* Every call made gets its turn and is cleaned up, whether the calls      *)
(* before it succeed or fail: the chain never stalls.                      *)
(***************************************************************************)
EveryCallServed == \A c \in Call : stage[c] = "waiting" ~> stage[c] = "evicted"

(***************************************************************************)
(* The chain implements a ticket lock: first come, first served, per key.  *)
(***************************************************************************)
Abstract ==
    INSTANCE TicketLock WITH
        state <- [c \in Call |->
                    IF stage[c] \in {"settled", "evicted"} THEN "over" ELSE stage[c]]

ImplementsTicketLock == Abstract!Spec
=============================================================================
