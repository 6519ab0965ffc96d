------------------------------ MODULE TicketLock ------------------------------
(***************************************************************************)
(* What serializeByScope promises, without its promises: calls for one key *)
(* take numbered tickets and run one at a time in ticket order; calls for  *)
(* different keys do not wait for each other.                              *)
(***************************************************************************)
EXTENDS Naturals

CONSTANTS Call, Key, NoKey

VARIABLES
    state,      \* state[c]: "idle", "waiting", "running" or "over"
    scope,      \* scope[c]: the key c was issued for
    ticket,     \* ticket[c]: its number among the calls of that key
    issued,     \* issued[k]: tickets given out
    served      \* served[k]: calls that are over

vars == <<state, scope, ticket, issued, served>>

Init ==
    /\ state = [c \in Call |-> "idle"]
    /\ scope = [c \in Call |-> NoKey]
    /\ ticket = [c \in Call |-> 0]
    /\ issued = [k \in Key |-> 0]
    /\ served = [k \in Key |-> 0]

Take(c, k) ==
    /\ state[c] = "idle"
    /\ state' = [state EXCEPT ![c] = "waiting"]
    /\ scope' = [scope EXCEPT ![c] = k]
    /\ ticket' = [ticket EXCEPT ![c] = issued[k]]
    /\ issued' = [issued EXCEPT ![k] = @ + 1]
    /\ UNCHANGED served

Enter(c) ==
    /\ state[c] = "waiting"
    /\ ticket[c] = served[scope[c]]
    /\ state' = [state EXCEPT ![c] = "running"]
    /\ UNCHANGED <<scope, ticket, issued, served>>

Exit(c) ==
    /\ state[c] = "running"
    /\ state' = [state EXCEPT ![c] = "over"]
    /\ served' = [served EXCEPT ![scope[c]] = @ + 1]
    /\ UNCHANGED <<scope, ticket, issued>>

Next == \E c \in Call : Enter(c) \/ Exit(c) \/ \E k \in Key : Take(c, k)

Spec == Init /\ [][Next]_vars
=============================================================================
