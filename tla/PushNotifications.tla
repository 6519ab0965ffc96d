--------------------------- MODULE PushNotifications ---------------------------
(***************************************************************************)
(* Push notifications: InMemoryPushNotificationStore, the configurations   *)
(* that clients create and delete in it, and DefaultPushNotificationSender,*)
(* which loads them, chains the notification behind the last one of its    *)
(* task, posts it to every webhook at once, and gives up on a webhook that *)
(* does not answer in time. A promise is named by its notification.        *)
(***************************************************************************)
EXTENDS Naturals, Sequences

LOCAL INSTANCE SequencesExt

CONSTANTS
    TaskId, Scope,
    ConfigId,       \* ids that clients give; the store gives others to configurations without one
    Version,        \* wire versions that configurations are registered over
    Serializers,    \* those the sender has a serializer for, besides "1.0"
    Notification,   \* the calls of send
    For(_),         \* a notification's <<scope, task>>, or <<>> for a stand-alone message
    MaxWrites       \* bound: configurations created and deleted

None == "none"

ASSUME PushAssumption ==
    /\ MaxWrites \in Nat
    /\ None \notin Notification
    /\ \A n \in Notification : For(n) # <<>> => For(n) \in Scope \X TaskId

Addressed == {n \in Notification : For(n) # <<>>}
Task(n) == For(n)[2]
Key == Scope \X TaskId

VARIABLES
    configs,    \* the store: for each scope and task, a sequence of [id, version]
    phase,      \* of each notification: "new", "loading", "chained", "posting", "posted", "done"
    loading,    \* the loads that have not resolved, in order
    loaded,     \* the configurations a notification goes to
    previous,   \* the promise it was chained on, or None
    chain,      \* notificationChain: the last promise of each task, or None
    posting,    \* the webhooks a notification still waits for
    requests,   \* history: the requests made, in order
    writes,     \* configurations created or deleted so far
    registered, \* history: the version each configuration was last created over, unless deleted
    due,        \* history: what was registered when send was called
    sent        \* history: the calls of send, in order

vars == <<configs, phase, loading, loaded, previous, chain, posting, requests, writes, registered, due, sent>>

storeVars == <<configs, writes, registered>>
callVars == <<due, sent>>
senderVars == <<phase, loading, loaded, previous, chain, posting, requests>>

-----------------------------------------------------------------------------
(* The store. *)

\* the entry with the id is spliced out, when there is one
Without(list, id) ==
    IF \E i \in DOMAIN list : list[i].id = id
    THEN RemoveAt(list, CHOOSE i \in DOMAIN list : list[i].id = id)
    ELSE list

\* a configuration with a known id is ignored
Saved_Kept(list, config) ==
    IF \E c \in ToSet(list) : c.id = config.id THEN list ELSE Append(list, config)

\* a configuration with a known id is replaced, at the end of the list
Saved(list, config) == Append(Without(list, config.id), config)

\* createTaskPushNotificationConfig, or the configuration of a send
Save(key, id, version) ==
    /\ writes < MaxWrites
    /\ writes' = writes + 1
    /\ LET actual == IF id = None THEN <<"generated", writes>> ELSE <<"given", id>>
       IN  /\ configs' = [configs EXCEPT ![key] = Saved(@, [id |-> actual, version |-> version])]
           /\ registered' = [registered EXCEPT ![key] =
                  [i \in DOMAIN @ \cup {actual} |-> IF i = actual THEN version ELSE @[i]]]
    /\ UNCHANGED <<senderVars, callVars>>

\* deleteTaskPushNotificationConfig; an id that is not there changes nothing
Delete(key, id) ==
    /\ writes < MaxWrites
    /\ writes' = writes + 1
    /\ configs' = [configs EXCEPT ![key] = Without(@, id)]
    /\ registered' = [registered EXCEPT ![key] = [i \in DOMAIN @ \ {id} |-> @[i]]]
    /\ UNCHANGED <<senderVars, callVars>>

-----------------------------------------------------------------------------
(* The sender. *)

\* a message without a task has no configurations
Skip(n) ==
    /\ phase[n] = "new"
    /\ n \notin Addressed
    /\ phase' = [phase EXCEPT ![n] = "done"]
    /\ UNCHANGED <<storeVars, callVars, loading, loaded, previous, chain, posting, requests>>

\* send: the load copies the list at once, its promise resolves later
Send(n) ==
    /\ phase[n] = "new"
    /\ n \in Addressed
    /\ phase' = [phase EXCEPT ![n] = "loading"]
    /\ loading' = Append(loading, n)
    /\ loaded' = [loaded EXCEPT ![n] = configs[For(n)]]
    /\ due' = [due EXCEPT ![n] = registered[For(n)]]
    /\ sent' = Append(sent, n)
    /\ UNCHANGED <<storeVars, previous, chain, posting, requests>>

\* without configurations there is nothing to do; otherwise the notification
\* becomes the last of its task
Chain(n) ==
    /\ loading # <<>> /\ Head(loading) = n
    /\ loading' = Tail(loading)
    /\ IF loaded[n] = <<>>
       THEN phase' = [phase EXCEPT ![n] = "done"] /\ UNCHANGED <<previous, chain>>
       ELSE /\ phase' = [phase EXCEPT ![n] = "chained"]
            /\ previous' = [previous EXCEPT ![n] = chain[Task(n)]]
            /\ chain' = [chain EXCEPT ![Task(n)] = n]
    /\ UNCHANGED <<storeVars, callVars, loaded, posting, requests>>

Settled(n) == n # None => phase[n] \in {"posted", "done"}

\* _resolveSerializer
Body(version) == IF version \in Serializers \cup {"1.0"} THEN version ELSE "1.0"

\* every webhook is sent to at once, in the order of the list
Post(n) ==
    /\ phase[n] = "chained"
    /\ Settled(previous[n])
    /\ phase' = [phase EXCEPT ![n] = "posting"]
    /\ posting' = [posting EXCEPT ![n] = {loaded[n][i].id : i \in DOMAIN loaded[n]}]
    /\ requests' = requests \o
        [i \in DOMAIN loaded[n] |-> [note |-> n, id |-> loaded[n][i].id, body |-> Body(loaded[n][i].version)]]
    /\ UNCHANGED <<storeVars, callVars, loading, loaded, previous, chain>>

\* a webhook answers, well or not, or the request fails: errors are logged
Answered(n, id) ==
    /\ phase[n] = "posting"
    /\ id \in posting[n]
    /\ posting' = [posting EXCEPT ![n] = @ \ {id}]
    /\ phase' = IF posting[n] = {id} THEN [phase EXCEPT ![n] = "posted"] ELSE phase
    /\ UNCHANGED <<storeVars, callVars, loading, loaded, previous, chain, requests>>

\* the timer is cleared as soon as it is set
Abort_Cleared(n) == phase[n] = "posting" /\ posting[n] = {} /\ UNCHANGED vars

\* the request is aborted by the timer: every webhook that has not answered
Abort(n) ==
    /\ phase[n] = "posting"
    /\ posting' = [posting EXCEPT ![n] = {}]
    /\ phase' = [phase EXCEPT ![n] = "posted"]
    /\ UNCHANGED <<storeVars, callVars, loading, loaded, previous, chain, requests>>

\* the entry stays
Unchain_Never(n) ==
    /\ phase[n] = "posted"
    /\ phase' = [phase EXCEPT ![n] = "done"]
    /\ UNCHANGED <<storeVars, callVars, loading, loaded, previous, chain, posting, requests>>

\* finally: the entry goes if no later notification has replaced it
Unchain(n) ==
    /\ phase[n] = "posted"
    /\ phase' = [phase EXCEPT ![n] = "done"]
    /\ chain' = IF chain[Task(n)] = n THEN [chain EXCEPT ![Task(n)] = None] ELSE chain
    /\ UNCHANGED <<storeVars, callVars, loading, loaded, previous, posting, requests>>

-----------------------------------------------------------------------------
Init ==
    /\ configs = [k \in Key |-> <<>>]
    /\ phase = [n \in Notification |-> "new"]
    /\ loading = <<>>
    /\ loaded = [n \in Notification |-> <<>>]
    /\ previous = [n \in Notification |-> None]
    /\ chain = [t \in TaskId |-> None]
    /\ posting = [n \in Notification |-> {}]
    /\ requests = <<>>
    /\ writes = 0
    /\ registered = [k \in Key |-> <<>>]
    /\ due = [n \in Notification |-> <<>>]
    /\ sent = <<>>

Step(n) == Chain(n) \/ Post(n) \/ Abort(n) \/ Unchain(n)

Next ==
    \/ \E key \in Key, id \in ConfigId \cup {None}, version \in Version : Save(key, id, version)
    \/ \E key \in Key, id \in ConfigId : Delete(key, <<"given", id>>)
    \/ \E n \in Notification : Skip(n) \/ Send(n) \/ Step(n) \/ \E id \in posting[n] : Answered(n, id)

Fairness == \A n \in Notification : WF_vars(Step(n))

Spec == Init /\ [][Next]_vars /\ Fairness

-----------------------------------------------------------------------------
(* A notification is posted once to each webhook that was registered for   *)
(* its task, in its scope, when send was called, in the version it was     *)
(* registered over (or 1.0), and to no other: not to one deleted before,   *)
(* not to one of another user, and not twice to one that was replaced.     *)
PostedToRegistered ==
    \A n \in Addressed :
        phase[n] \in {"posting", "posted", "done"} =>
            LET mine == {i \in DOMAIN requests : requests[i].note = n}
            IN  /\ {<<requests[i].id, requests[i].body>> : i \in mine}
                        = {<<id, Body(due[n][id])>> : id \in DOMAIN due[n]}
                /\ \A i, j \in mine : requests[i].id = requests[j].id => i = j

\* none is posted while another of its task is
OneAtATime ==
    \A m, n \in Addressed :
        phase[m] = "posting" /\ phase[n] = "posting" /\ Task(m) = Task(n) => m = n

SentBefore(m, n) == \E i, j \in DOMAIN sent : i < j /\ sent[i] = m /\ sent[j] = n

PostedInOrder ==
    \A i, j \in DOMAIN requests :
        i < j /\ Task(requests[i].note) = Task(requests[j].note)
            => ~SentBefore(requests[j].note, requests[i].note)

\* the chain does not grow with the notifications
ChainIsReleased ==
    \A t \in TaskId : chain[t] # None => Task(chain[t]) = t /\ phase[chain[t]] # "done"

(* "Chain promises so notifications for the same task are sent             *)
(* sequentially": one at a time, in the order of the calls of send, also   *)
(* when a webhook did not answer the one before or when the entry of the   *)
(* chain is evicted under a later one; and an entry is of a notification   *)
(* that is not done.                                                       *)
SequentialPerTask == OneAtATime /\ PostedInOrder /\ ChainIsReleased

(* Every send settles, whether webhooks answer or not.                     *)
EverySendSettles == \A n \in Notification : phase[n] = "loading" ~> phase[n] = "done"
================================================================================
