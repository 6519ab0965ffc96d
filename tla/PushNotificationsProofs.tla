------------------------ MODULE PushNotificationsProofs ------------------------
(***************************************************************************)
(* For any tasks, scopes, configurations and notifications: the webhooks   *)
(* of a task get what was registered for them, and its notifications go    *)
(* out one at a time, in the order of the calls of send.                   *)
(***************************************************************************)
EXTENDS PushNotifications, TLAPS

LOCAL INSTANCE SequencesExt

-----------------------------------------------------------------------------
(* The inductive invariant, part by part. *)

Id == ({"generated"} \X Nat) \cup ({"given"} \X ConfigId)
Config == [id : Id, version : Version]
Phase == {"new", "loading", "chained", "posting", "posted", "done"}

TypeInv ==
    /\ configs \in [Key -> Seq(Config)]
    /\ phase \in [Notification -> Phase]
    /\ loading \in Seq(Addressed)
    /\ loaded \in [Notification -> Seq(Config)]
    /\ previous \in [Notification -> Notification \cup {None}]
    /\ chain \in [TaskId -> Notification \cup {None}]
    /\ requests \in Seq([note : Addressed, id : Id, body : Serializers \cup {"1.0"}])
    /\ writes \in Nat
    /\ DOMAIN registered = Key
    /\ DOMAIN due = Notification
    /\ sent \in Seq(Addressed)

Has(s, m) == \E i \in DOMAIN s : s[i] = m
Before(s, m, n) == \E i, j \in DOMAIN s : i < j /\ s[i] = m /\ s[j] = n
Distinct(s) == \A i, j \in DOMAIN s : s[i] = s[j] => i = j

\* every addressed notification was sent once; those that load do so in that
\* order, behind all that have loaded
OrderInv ==
    /\ Distinct(sent)
    /\ \A n \in Notification : phase[n] \notin {"new", "done"} => n \in Addressed
    /\ \A n \in Addressed : phase[n] # "new" <=> Has(sent, n)
    /\ \A n \in Addressed : phase[n] = "loading" <=> Has(loading, n)
    /\ \A i, j \in DOMAIN loading : i < j => Before(sent, loading[i], loading[j])
    /\ \A n \in Addressed : phase[n] \notin {"new", "loading"}
            => \A i \in DOMAIN loading : Before(sent, n, loading[i])

Pending(p) == p \in {"chained", "posting"}
Posted(p, list) == p \in {"posting", "posted", "done"} /\ list # <<>>
Reaches(s, m, n) == n # None /\ (m = n \/ Before(s, m, n))

\* what is pending is reached from the chain's entry and from the promise that
\* a later notification waits for; nothing posted has overtaken it
ChainInv ==
    /\ \A n \in Addressed : phase[n] \in {"chained", "posting", "posted"} => loaded[n] # <<>>
    /\ \A t \in TaskId : chain[t] # None =>
            /\ chain[t] \in Addressed /\ Task(chain[t]) = t
            /\ phase[chain[t]] \in {"chained", "posting", "posted"}
    /\ \A m \in Addressed : Pending(phase[m]) => Reaches(sent, m, chain[Task(m)])
    /\ \A n \in Addressed : previous[n] # None =>
            /\ previous[n] \in Addressed /\ Task(previous[n]) = Task(n)
            /\ Pending(phase[previous[n]]) \/ Posted(phase[previous[n]], loaded[previous[n]])
    /\ \A m, n \in Addressed :
            /\ phase[n] = "chained" /\ Pending(phase[m])
            /\ Task(m) = Task(n) /\ Before(sent, m, n)
            => Reaches(sent, m, previous[n])
    /\ \A m, n \in Addressed :
            Posted(phase[n], loaded[n]) /\ Pending(phase[m]) /\ Task(m) = Task(n) => ~Before(sent, m, n)

\* a list of configurations holds each registered one once
Mirrors(list, reg) ==
    /\ \A i, j \in DOMAIN list : list[i].id = list[j].id => i = j
    /\ \A i \in DOMAIN list : list[i].id \in DOMAIN reg /\ reg[list[i].id] = list[i].version
    /\ \A id \in DOMAIN reg : \E i \in DOMAIN list : list[i].id = id

StoreInv ==
    /\ \A k \in Key : Mirrors(configs[k], registered[k])
    /\ \A n \in Addressed : Mirrors(loaded[n], due[n])

RequestInv ==
    /\ \A i \in DOMAIN requests : Posted(phase[requests[i].note], loaded[requests[i].note])
    /\ PostedToRegistered
    /\ PostedInOrder

PushInv == TypeInv /\ OrderInv /\ ChainInv /\ StoreInv /\ RequestInv

-----------------------------------------------------------------------------
(* Sequences *)

LEMMA TaskType == \A n \in Addressed : n \in Notification /\ For(n) \in Key /\ Task(n) \in TaskId
BY PushAssumption DEF Addressed, Task, Key

\* The order of a sequence without repetitions is a strict total order.
LEMMA BeforeIsOrder ==
    ASSUME NEW S, NEW s \in Seq(S), Distinct(s)
    PROVE  /\ \A m : ~Before(s, m, m)
           /\ \A m, n : Before(s, m, n) => ~Before(s, n, m)
           /\ \A l, m, n : Before(s, l, m) /\ Before(s, m, n) => Before(s, l, n)
           /\ \A i, j \in DOMAIN s : s[i] = s[j] \/ Before(s, s[i], s[j]) \/ Before(s, s[j], s[i])
<1>1. DOMAIN s \subseteq Nat
    OBVIOUS
<1> QED
    BY <1>1 DEF Before, Distinct

\* Appending puts a new element behind the others, whose order stays.
LEMMA AppendDomain ==
    ASSUME NEW S, NEW s \in Seq(S), NEW x \in S, NEW t, t = Append(s, x)
    PROVE  /\ DOMAIN s = 1..Len(s) /\ Len(s) \in Nat
           /\ DOMAIN t = 1..(Len(s) + 1)
           /\ \A i \in DOMAIN s : i \in DOMAIN t /\ t[i] = s[i]
           /\ Len(s) + 1 \in DOMAIN t /\ t[Len(s) + 1] = x
           /\ \A i \in DOMAIN t : i \in DOMAIN s \/ i = Len(s) + 1
OBVIOUS

LEMMA AppendDistinct ==
    ASSUME NEW S, NEW s \in Seq(S), NEW x \in S, NEW t, t = Append(s, x),
           Distinct(s), \A i \in DOMAIN s : s[i] # x
    PROVE  Distinct(t)
BY AppendDomain DEF Distinct

LEMMA AppendHas ==
    ASSUME NEW S, NEW s \in Seq(S), NEW x \in S, NEW t, t = Append(s, x)
    PROVE  \A m : Has(t, m) <=> m = x \/ Has(s, m)
BY AppendDomain DEF Has

LEMMA BeforeAppend ==
    ASSUME NEW S, NEW s \in Seq(S), NEW x \in S, NEW t, t = Append(s, x)
    PROVE  \A l, m : Before(t, l, m)
                <=> Before(s, l, m) \/ (m = x /\ Has(s, l))
<1>1. /\ DOMAIN s = 1..Len(s) /\ Len(s) \in Nat
      /\ DOMAIN t = 1..(Len(s) + 1)
      /\ \A i \in DOMAIN s : i \in DOMAIN t /\ t[i] = s[i]
      /\ Len(s) + 1 \in DOMAIN t /\ t[Len(s) + 1] = x
      /\ \A i \in DOMAIN t : i \in DOMAIN s \/ i = Len(s) + 1
    BY AppendDomain
<1>2. ASSUME NEW l, NEW m PROVE Before(t, l, m) <=> Before(s, l, m) \/ (m = x /\ Has(s, l))
    <2>1. ASSUME Before(s, l, m) \/ (m = x /\ Has(s, l)) PROVE Before(t, l, m)
        <3>1. CASE Before(s, l, m)
            BY <1>1, <3>1 DEF Before
        <3>2. CASE m = x /\ Has(s, l)
            <4>1. PICK i \in DOMAIN s : s[i] = l
                BY <3>2 DEF Has
            <4>2. i < Len(s) + 1
                BY <1>1
            <4> QED
                BY <1>1, <3>2, <4>1, <4>2 DEF Before
        <3> QED
            BY <2>1, <3>1, <3>2
    <2>2. ASSUME Before(t, l, m) PROVE Before(s, l, m) \/ (m = x /\ Has(s, l))
        <3>1. PICK i, j \in DOMAIN t : i < j /\ t[i] = l /\ t[j] = m
            BY <2>2 DEF Before
        <3>2. i \in DOMAIN s
            BY <1>1, <3>1
        <3> QED
            BY <1>1, <3>1, <3>2 DEF Before, Has
    <2> QED
        BY <2>1, <2>2
<1> QED
    BY <1>2

LEMMA TailDomain ==
    ASSUME NEW S, NEW s \in Seq(S), s # <<>>, NEW t, t = Tail(s)
    PROVE  /\ t \in Seq(S)
           /\ DOMAIN s \subseteq Nat /\ 1 \in DOMAIN s /\ s[1] = Head(s)
           /\ \A i \in DOMAIN t : i \in Nat /\ 1 < i + 1 /\ i + 1 \in DOMAIN s /\ t[i] = s[i + 1]
           /\ \A i \in DOMAIN s : i = 1 \/ (i - 1 \in DOMAIN t /\ t[i - 1] = s[i])
OBVIOUS

LEMMA ConcatDomain ==
    ASSUME NEW S, NEW s \in Seq(S), NEW t \in Seq(S), NEW u, u = s \o t
    PROVE  /\ u \in Seq(S) /\ DOMAIN u \subseteq Nat /\ Len(s) \in Nat
           /\ \A i \in DOMAIN s : i \in DOMAIN u /\ u[i] = s[i]
           /\ \A i \in DOMAIN t : i \in Nat /\ Len(s) + i \in DOMAIN u /\ u[Len(s) + i] = t[i]
           /\ \A i \in DOMAIN u : i \in DOMAIN s \/ (i - Len(s) \in DOMAIN t /\ u[i] = t[i - Len(s)])
           /\ \A i \in DOMAIN s, j \in DOMAIN u : j \notin DOMAIN s => i < j
OBVIOUS

\* Splicing an element out keeps the others, in their order.
LEMMA RemoveAtKeeps ==
    ASSUME NEW S, NEW s \in Seq(S), NEW k \in DOMAIN s
    PROVE  /\ RemoveAt(s, k) \in Seq(S)
           /\ \A i \in DOMAIN RemoveAt(s, k) : \E j \in DOMAIN s \ {k} :
                    /\ RemoveAt(s, k)[i] = s[j]
                    /\ j = IF i < k THEN i ELSE i + 1
           /\ \A j \in DOMAIN s \ {k} : \E i \in DOMAIN RemoveAt(s, k) : RemoveAt(s, k)[i] = s[j]
<1> DEFINE n == Len(s)
           a == SubSeq(s, 1, k - 1)
           b == SubSeq(s, k + 1, n)
<1>1. n \in Nat /\ k \in 1..n /\ DOMAIN s = 1..n
    OBVIOUS
<1>2. a \in Seq(S) /\ Len(a) = k - 1 /\ \A i \in 1..(k - 1) : a[i] = s[i]
    BY <1>1
<1>3. b \in Seq(S) /\ Len(b) = n - k /\ \A i \in 1..(n - k) : b[i] = s[k + i]
    BY <1>1
<1>4. RemoveAt(s, k) = a \o b
    BY DEF RemoveAt
<1> HIDE DEF a, b, n
<1>5. /\ DOMAIN (a \o b) = 1..(n - 1)
      /\ \A i \in 1..(k - 1) : (a \o b)[i] = s[i]
      /\ \A i \in k..(n - 1) : (a \o b)[i] = s[i + 1]
    <2>1. DOMAIN (a \o b) = 1..(n - 1)
        <3>1. Len(a \o b) = Len(a) + Len(b) /\ DOMAIN (a \o b) = 1..Len(a \o b)
            <4>1. a \in Seq(S) /\ b \in Seq(S)
                BY <1>2, <1>3
            <4> QED
                BY <4>1
        <3>2. (k - 1) + (n - k) = n - 1
            BY <1>1
        <3> QED
            BY <1>2, <1>3, <3>1, <3>2
    <2>2. \A i \in 1..(k - 1) : (a \o b)[i] = s[i]
        BY <1>1, <1>2, <1>3
    <2>3. ASSUME NEW i \in k..(n - 1) PROVE (a \o b)[i] = s[i + 1]
        <3>1. i - (k - 1) \in 1..(n - k) /\ k + (i - (k - 1)) = i + 1
            BY <1>1
        <3>2. (a \o b)[i] = b[i - (k - 1)]
            BY <1>1, <1>2, <1>3
        <3> QED
            BY <1>3, <3>1, <3>2
    <2> QED
        BY <2>1, <2>2, <2>3
<1>6. a \o b \in Seq(S)
    BY <1>2, <1>3
<1>7. ASSUME NEW i \in 1..(n - 1)
      PROVE  \E j \in DOMAIN s \ {k} : (a \o b)[i] = s[j] /\ j = IF i < k THEN i ELSE i + 1
    <2> DEFINE j == IF i < k THEN i ELSE i + 1
    <2>1. j \in (1..n) \ {k}
        BY <1>1
    <2>2. (a \o b)[i] = s[j]
        <3>1. CASE i < k
            BY <1>1, <1>5, <3>1
        <3>2. CASE ~(i < k)
            BY <1>1, <1>5, <3>2
        <3> QED
            BY <3>1, <3>2
    <2> QED
        BY <1>1, <2>1, <2>2
<1>8. ASSUME NEW j \in DOMAIN s \ {k} PROVE \E i \in 1..(n - 1) : (a \o b)[i] = s[j]
    <2>1. CASE j < k
        <3>1. j \in 1..(k - 1) /\ j \in 1..(n - 1)
            BY <1>1, <2>1
        <3> QED
            BY <1>5, <3>1
    <2>2. CASE j > k
        <3>1. j - 1 \in k..(n - 1) /\ (j - 1) + 1 = j
            BY <1>1, <2>2
        <3> QED
            BY <1>1, <1>5, <3>1
    <2>3. j < k \/ j > k
        BY <1>1
    <2> QED
        BY <2>1, <2>2, <2>3
<1> QED
    BY <1>4, <1>5, <1>6, <1>7, <1>8

-----------------------------------------------------------------------------
(* The store *)

\* delete takes exactly the configuration with the id away.
LEMMA WithoutMirrors ==
    ASSUME NEW list \in Seq(Config), NEW reg, Mirrors(list, reg), NEW id
    PROVE  /\ Without(list, id) \in Seq(Config)
           /\ Mirrors(Without(list, id), [i \in DOMAIN reg \ {id} |-> reg[i]])
<1> DEFINE rest == [i \in DOMAIN reg \ {id} |-> reg[i]]
<1>1. CASE ~\E i \in DOMAIN list : list[i].id = id
    BY <1>1 DEF Without, Mirrors
<1>2. CASE \E i \in DOMAIN list : list[i].id = id
    <2> DEFINE k == CHOOSE i \in DOMAIN list : list[i].id = id
    <2>1. k \in DOMAIN list /\ list[k].id = id /\ Without(list, id) = RemoveAt(list, k)
        BY <1>2 DEF Without
    <2> HIDE DEF k
    <2> DEFINE new == RemoveAt(list, k)
    <2>2. /\ new \in Seq(Config)
          /\ \A i \in DOMAIN new : \E j \in DOMAIN list \ {k} :
                new[i] = list[j] /\ j = IF i < k THEN i ELSE i + 1
          /\ \A j \in DOMAIN list \ {k} : \E i \in DOMAIN new : new[i] = list[j]
        BY <2>1, RemoveAtKeeps
    <2> HIDE DEF new
    <2>3. \A j \in DOMAIN list \ {k} : list[j].id # id
        BY <2>1 DEF Mirrors
    <2>4. k \in Nat /\ DOMAIN new \subseteq Nat
        BY <2>1, <2>2
    <2>5. ASSUME NEW i \in DOMAIN new, NEW j \in DOMAIN new, new[i].id = new[j].id PROVE i = j
        <3>1. PICK a \in DOMAIN list \ {k} : new[i] = list[a] /\ a = IF i < k THEN i ELSE i + 1
            BY <2>2
        <3>2. PICK b \in DOMAIN list \ {k} : new[j] = list[b] /\ b = IF j < k THEN j ELSE j + 1
            BY <2>2
        <3>3. a = b
            BY <2>5, <3>1, <3>2 DEF Mirrors
        <3>4. i \in Nat /\ j \in Nat /\ k \in Nat
            BY <2>4
        <3> QED
            BY <3>1, <3>2, <3>3, <3>4
    <2>6. ASSUME NEW i \in DOMAIN new PROVE new[i].id \in DOMAIN rest /\ rest[new[i].id] = new[i].version
        BY <2>2, <2>3 DEF Mirrors
    <2>7. ASSUME NEW x \in DOMAIN rest PROVE \E i \in DOMAIN new : new[i].id = x
        <3>1. PICK j \in DOMAIN list : list[j].id = x
            BY DEF Mirrors
        <3>2. j # k
            BY <2>1, <3>1
        <3> QED
            BY <2>2, <3>1, <3>2
    <2>8. Mirrors(new, rest)
        BY <2>5, <2>6, <2>7 DEF Mirrors
    <2> QED
        BY <2>1, <2>2, <2>8 DEF new
<1> QED
    BY <1>1, <1>2

\* save replaces the configuration with the id, or adds one.
LEMMA SavedMirrors ==
    ASSUME NEW list \in Seq(Config), NEW reg, Mirrors(list, reg), NEW config \in Config
    PROVE  /\ Saved(list, config) \in Seq(Config)
           /\ Mirrors(Saved(list, config),
                      [i \in DOMAIN reg \cup {config.id} |->
                          IF i = config.id THEN config.version ELSE reg[i]])
<1> DEFINE rest == Without(list, config.id)
           left == [i \in DOMAIN reg \ {config.id} |-> reg[i]]
           new == Append(rest, config)
           all == [i \in DOMAIN reg \cup {config.id} |-> IF i = config.id THEN config.version ELSE reg[i]]
<1>1. rest \in Seq(Config) /\ Mirrors(rest, left)
    BY WithoutMirrors
<1> HIDE DEF rest
<1>2. /\ new \in Seq(Config)
      /\ \A i \in DOMAIN rest : i \in DOMAIN new /\ new[i] = rest[i]
      /\ Len(rest) + 1 \in DOMAIN new /\ new[Len(rest) + 1] = config
      /\ \A i \in DOMAIN new : i \in DOMAIN rest \/ i = Len(rest) + 1
    BY <1>1
<1> HIDE DEF new
<1>3. \A i \in DOMAIN rest : rest[i].id # config.id
    BY <1>1 DEF Mirrors
<1>4. ASSUME NEW i \in DOMAIN new, NEW j \in DOMAIN new, new[i].id = new[j].id PROVE i = j
    BY <1>1, <1>2, <1>3, <1>4 DEF Mirrors
<1>5. ASSUME NEW i \in DOMAIN new PROVE new[i].id \in DOMAIN all /\ all[new[i].id] = new[i].version
    BY <1>1, <1>2, <1>3 DEF Mirrors
<1>6. ASSUME NEW x \in DOMAIN all PROVE \E i \in DOMAIN new : new[i].id = x
    <2>1. CASE x = config.id
        BY <1>2, <2>1
    <2>2. CASE x # config.id
        <3>1. x \in DOMAIN left
            BY <2>2
        <3>2. PICK i \in DOMAIN rest : rest[i].id = x
            BY <1>1, <3>1 DEF Mirrors
        <3> QED
            BY <1>2, <3>2
    <2> QED
        BY <2>1, <2>2
<1>7. Mirrors(new, all)
    BY <1>4, <1>5, <1>6 DEF Mirrors
<1> QED
    BY <1>2, <1>7 DEF new, rest, Saved

LEMMA StoreStep ==
    ASSUME PushInv, NEW key \in Key,
           \/ \E id \in ConfigId \cup {None}, version \in Version : Save(key, id, version)
           \/ \E id \in ConfigId : Delete(key, <<"given", id>>)
    PROVE  PushInv'
<1>1. UNCHANGED <<senderVars, callVars>>
    BY DEF Save, Delete
<1>2. OrderInv' /\ ChainInv' /\ RequestInv'
    BY <1>1 DEF PushInv, senderVars, callVars, OrderInv, SentBefore, ChainInv, Pending, Posted, Reaches,
                RequestInv, PostedToRegistered, PostedInOrder
<1>3. configs[key] \in Seq(Config) /\ Mirrors(configs[key], registered[key])
    BY DEF PushInv, TypeInv, StoreInv
<1>4. ASSUME NEW list \in Seq(Config), NEW reg, Mirrors(list, reg), writes' \in Nat,
             configs' = [configs EXCEPT ![key] = list], registered' = [registered EXCEPT ![key] = reg]
      PROVE  PushInv'
    <2>1. TypeInv'
        BY <1>1, <1>4 DEF PushInv, TypeInv, senderVars, callVars
    <2>2. \A k \in Key : Mirrors(configs'[k], registered'[k])
        <3>1. \A k \in Key : /\ configs'[k] = IF k = key THEN list ELSE configs[k]
                             /\ registered'[k] = IF k = key THEN reg ELSE registered[k]
            BY <1>4 DEF PushInv, TypeInv
        <3> QED
            BY <1>4, <3>1 DEF PushInv, StoreInv
    <2>3. StoreInv'
        <3>1. \A n \in Addressed : Mirrors(loaded'[n], due'[n])
            BY <1>1 DEF PushInv, StoreInv, senderVars, callVars
        <3> QED
            BY <2>2, <3>1 DEF StoreInv
    <2> QED
        BY <1>2, <2>1, <2>3 DEF PushInv
<1>5. ASSUME NEW id \in ConfigId \cup {None}, NEW version \in Version, Save(key, id, version)
      PROVE  PushInv'
    <2> DEFINE actual == IF id = None THEN <<"generated", writes>> ELSE <<"given", id>>
               config == [id |-> actual, version |-> version]
               list == Saved(configs[key], config)
               reg == [i \in DOMAIN registered[key] \cup {actual} |-> IF i = actual THEN version ELSE registered[key][i]]
    <2>1. writes \in Nat /\ writes' = writes + 1
        BY <1>5 DEF PushInv, TypeInv, Save
    <2>2. actual \in Id
        BY <2>1 DEF Id
    <2>3. config \in Config /\ config.id = actual /\ config.version = version
        BY <2>2 DEF Config
    <2>4. configs' = [configs EXCEPT ![key] = list] /\ registered' = [registered EXCEPT ![key] = reg]
        BY <1>5 DEF Save
    <2>5. list \in Seq(Config) /\ Mirrors(list, reg)
        <3> HIDE DEF config, actual
        <3> QED
            BY <1>3, <2>3, SavedMirrors
    <2>6. writes' \in Nat
        BY <2>1
    <2> HIDE DEF list, reg
    <2> QED
        BY <1>4, <2>4, <2>5, <2>6
<1>6. ASSUME NEW c \in ConfigId, Delete(key, <<"given", c>>)
      PROVE  PushInv'
    <2> DEFINE id == <<"given", c>>
               list == Without(configs[key], id)
               reg == [i \in DOMAIN registered[key] \ {id} |-> registered[key][i]]
    <2>1. writes' \in Nat
        BY <1>6 DEF PushInv, TypeInv, Delete
    <2>2. configs' = [configs EXCEPT ![key] = list] /\ registered' = [registered EXCEPT ![key] = reg]
        BY <1>6 DEF Delete
    <2>3. list \in Seq(Config) /\ Mirrors(list, reg)
        <3> HIDE DEF id
        <3> QED
            BY <1>3, WithoutMirrors
    <2> HIDE DEF list, reg
    <2> QED
        BY <1>4, <2>1, <2>2, <2>3
<1> QED
    BY <1>5, <1>6

-----------------------------------------------------------------------------
(* The sender *)

\* Where a notification is when only its own phase changes.
LEMMA PhaseOf ==
    ASSUME TypeInv, NEW n \in Notification, NEW p, phase' = [phase EXCEPT ![n] = p]
    PROVE  \A m \in Notification : phase'[m] = IF m = n THEN p ELSE phase[m]
BY DEF TypeInv

LEMMA NotesType == TypeInv => \A i \in DOMAIN requests : requests[i].note \in Addressed
<1> DEFINE R == [note : Addressed, id : Id, body : Serializers \cup {"1.0"}]
<1>1. \A r \in R : r.note \in Addressed
    OBVIOUS
<1> HIDE DEF R
<1>2. ASSUME NEW s \in Seq(R) PROVE \A i \in DOMAIN s : s[i] \in R
    OBVIOUS
<1> QED
    BY <1>1, <1>2 DEF TypeInv, R

LEMMA SkipStep ==
    ASSUME PushInv, NEW n \in Notification, Skip(n)
    PROVE  PushInv'
<1>1. /\ n \notin Addressed
      /\ phase' = [phase EXCEPT ![n] = "done"]
      /\ UNCHANGED <<storeVars, callVars, loading, loaded, previous, chain, posting, requests>>
    BY DEF Skip
<1>2. \A m \in Notification : phase'[m] = IF m = n THEN "done" ELSE phase[m]
    BY <1>1, PhaseOf DEF PushInv
<1>3. \A m \in Addressed : m \in Notification /\ m # n /\ phase'[m] = phase[m]
    BY <1>1, <1>2, TaskType
<1>4. phase'[n] = "done"
    BY <1>2
<1>5. TypeInv'
    BY <1>1 DEF PushInv, TypeInv, Phase, storeVars, callVars
<1>6. OrderInv'
    BY <1>1, <1>2, <1>3, <1>4 DEF PushInv, OrderInv, SentBefore, callVars
<1>7. ChainInv'
    BY <1>1, <1>3 DEF PushInv, ChainInv, Pending, Posted, Reaches, SentBefore, callVars
<1>8. StoreInv'
    BY <1>1 DEF PushInv, StoreInv, storeVars, callVars
<1>9. RequestInv'
    <2>1. \A i \in DOMAIN requests : requests[i].note \in Addressed
        BY NotesType DEF PushInv
    <2> QED
        BY <1>1, <1>3, <2>1 DEF PushInv, RequestInv, Posted, PostedToRegistered, PostedInOrder, SentBefore, callVars
<1> QED
    BY <1>5, <1>6, <1>7, <1>8, <1>9 DEF PushInv

LEMMA SendStep ==
    ASSUME PushInv, NEW n \in Notification, Send(n)
    PROVE  PushInv'
<1>1. /\ n \in Addressed /\ phase[n] = "new"
      /\ phase' = [phase EXCEPT ![n] = "loading"]
      /\ loading' = Append(loading, n)
      /\ loaded' = [loaded EXCEPT ![n] = configs[For(n)]]
      /\ due' = [due EXCEPT ![n] = registered[For(n)]]
      /\ sent' = Append(sent, n)
      /\ UNCHANGED <<storeVars, previous, chain, posting, requests>>
    BY DEF Send
<1>2. TypeInv /\ OrderInv /\ ChainInv /\ StoreInv /\ RequestInv
    BY DEF PushInv
<1>3. /\ For(n) \in Key /\ configs[For(n)] \in Seq(Config)
      /\ loading \in Seq(Addressed) /\ sent \in Seq(Addressed)
    BY <1>1, <1>2, TaskType DEF TypeInv
<1>4. /\ \A m \in Notification : phase'[m] = IF m = n THEN "loading" ELSE phase[m]
      /\ \A m \in Notification : loaded'[m] = IF m = n THEN configs[For(n)] ELSE loaded[m]
      /\ \A m \in Notification : due'[m] = IF m = n THEN registered[For(n)] ELSE due[m]
    BY <1>1, <1>2 DEF TypeInv
<1>5. \A m \in Addressed : m \in Notification /\ Task(m) \in TaskId
    BY TaskType
<1>6. \A i \in DOMAIN sent : sent[i] \in Addressed /\ sent[i] # n
    BY <1>1, <1>2, <1>3 DEF OrderInv, Has
<1>7. /\ Distinct(sent')
      /\ \A l, m : Before(sent', l, m) <=> Before(sent, l, m) \/ (m = n /\ Has(sent, l))
      /\ \A m : Has(sent', m) <=> m = n \/ Has(sent, m)
    <2>1. Distinct(sent) /\ \A i \in DOMAIN sent : sent[i] # n
        BY <1>2, <1>6 DEF OrderInv
    <2>2. Distinct(sent')
        BY <1>1, <1>3, <2>1, AppendDistinct
    <2>3. \A l, m : Before(sent', l, m) <=> Before(sent, l, m) \/ (m = n /\ Has(sent, l))
        BY <1>1, <1>3, BeforeAppend
    <2>4. \A m : Has(sent', m) <=> m = n \/ Has(sent, m)
        BY <1>1, <1>3, AppendHas
    <2> QED
        BY <2>2, <2>3, <2>4
<1>8. TypeInv'
    <2>1. loading' \in Seq(Addressed) /\ sent' \in Seq(Addressed)
        BY <1>1, <1>3
    <2> QED
        BY <1>1, <1>2, <1>3, <2>1 DEF TypeInv, Phase, storeVars
<1>9. OrderInv'
    <2>1. /\ DOMAIN loading = 1..Len(loading) /\ Len(loading) \in Nat
          /\ DOMAIN loading' = 1..(Len(loading) + 1)
          /\ \A i \in DOMAIN loading : loading'[i] = loading[i] /\ loading[i] \in Addressed
          /\ loading'[Len(loading) + 1] = n
          /\ \A i \in DOMAIN loading' : i \in DOMAIN loading \/ i = Len(loading) + 1
        BY <1>1, <1>3
    <2>2. \A m \in Addressed : phase[m] # "new" => Before(sent', m, n)
        BY <1>2, <1>7 DEF OrderInv
    <2>3. \A i \in DOMAIN loading : phase[loading[i]] # "new"
        BY <1>2, <2>1 DEF OrderInv, Has
    <2>4. \A i, j \in DOMAIN loading' : i < j => Before(sent', loading'[i], loading'[j])
        <3>1. SUFFICES ASSUME NEW i \in DOMAIN loading', NEW j \in DOMAIN loading', i < j
                       PROVE  Before(sent', loading'[i], loading'[j])
            OBVIOUS
        <3>2. i \in DOMAIN loading
            BY <2>1, <3>1
        <3>3. CASE j \in DOMAIN loading
            BY <1>2, <1>7, <2>1, <3>1, <3>2, <3>3 DEF OrderInv
        <3>4. CASE j = Len(loading) + 1
            BY <2>1, <2>2, <2>3, <3>2, <3>4
        <3> QED
            BY <2>1, <3>3, <3>4
    <2>5. ASSUME NEW m \in Addressed, phase'[m] \notin {"new", "loading"}, NEW i \in DOMAIN loading'
          PROVE  Before(sent', m, loading'[i])
        <3>1. m # n /\ phase[m] \notin {"new", "loading"}
            BY <1>4, <1>5, <2>5
        <3>2. CASE i \in DOMAIN loading
            BY <1>2, <1>7, <2>1, <3>1, <3>2 DEF OrderInv
        <3>3. CASE i = Len(loading) + 1
            BY <2>1, <2>2, <3>1, <3>3
        <3> QED
            BY <2>1, <3>2, <3>3
    <2>6. ASSUME NEW m \in Addressed
          PROVE  phase'[m] = "loading" <=> Has(loading', m)
        <3>1. Has(loading', m) <=> m = n \/ Has(loading, m)
            BY <1>1, <1>3, AppendHas
        <3>2. phase'[m] = IF m = n THEN "loading" ELSE phase[m]
            BY <1>4, <1>5
        <3>3. phase[m] = "loading" <=> Has(loading, m)
            BY <1>2 DEF OrderInv
        <3> QED
            BY <3>1, <3>2, <3>3
    <2>7. ASSUME NEW m \in Addressed
          PROVE  phase'[m] # "new" <=> Has(sent', m)
        <3>1. Has(sent', m) <=> m = n \/ Has(sent, m)
            BY <1>7
        <3>2. phase'[m] = IF m = n THEN "loading" ELSE phase[m]
            BY <1>4, <1>5
        <3>3. phase[m] # "new" <=> Has(sent, m)
            BY <1>2 DEF OrderInv
        <3> QED
            BY <3>1, <3>2, <3>3
    <2>8. \A m \in Notification : phase'[m] \notin {"new", "done"} => m \in Addressed
        BY <1>1, <1>2, <1>4 DEF OrderInv
    <2> QED
        BY <1>7, <2>4, <2>5, <2>6, <2>7, <2>8 DEF OrderInv
<1>10. /\ \A m \in Addressed : Pending(phase'[m]) <=> Pending(phase[m])
       /\ \A m \in Addressed : Posted(phase'[m], loaded'[m]) <=> Posted(phase[m], loaded[m])
       /\ \A m \in Addressed : phase'[m] # "loading" => m # n
    BY <1>1, <1>4, <1>5 DEF Pending, Posted
<1>11. ChainInv'
    <2>1. \A m \in Addressed : (Pending(phase[m]) \/ Posted(phase[m], loaded[m])) => m # n
        BY <1>1 DEF Pending, Posted
    <2>2. \A l, m : Reaches(sent, l, m) => Reaches(sent', l, m)
        BY <1>7 DEF Reaches
    <2>3. \A m \in Addressed, l \in Notification : l # n => (Before(sent', m, l) <=> Before(sent, m, l))
        BY <1>7
    <2>4. previous' = previous /\ chain' = chain
        BY <1>1
    <2>5. \A m \in Addressed : phase'[m] \in {"chained", "posting", "posted"}
                <=> phase[m] \in {"chained", "posting", "posted"}
        BY <1>1, <1>4, <1>5
    <2>6. \A m \in Addressed : phase'[m] = "chained" <=> phase[m] = "chained"
        BY <1>1, <1>4, <1>5
    <2>7. \A m \in Addressed : phase[m] \in {"chained", "posting", "posted"} => loaded'[m] = loaded[m]
        BY <1>1, <1>4, <1>5
    <2>8. \A m \in Addressed : Posted(phase[m], loaded[m]) \/ phase[m] = "chained" => m # n
        BY <1>1 DEF Posted
    <2> QED
        BY <1>2, <1>5, <1>10, <2>2, <2>3, <2>4, <2>5, <2>6, <2>7, <2>8 DEF ChainInv
<1>12. StoreInv'
    BY <1>1, <1>2, <1>3, <1>4, <1>5 DEF StoreInv, storeVars
<1>13. RequestInv'
    <2>1. \A i \in DOMAIN requests : requests[i].note \in Addressed /\ requests[i].note # n
        BY <1>1, <1>2, NotesType DEF RequestInv, Posted
    <2>2. requests' = requests
        BY <1>1
    <2>3. \A i \in DOMAIN requests' : Posted(phase'[requests'[i].note], loaded'[requests'[i].note])
        BY <1>2, <1>10, <2>1, <2>2 DEF RequestInv
    <2>4. PostedToRegistered'
        <3>1. \A m \in Addressed : phase'[m] \in {"posting", "posted", "done"} =>
                    phase'[m] = phase[m] /\ due'[m] = due[m]
            BY <1>4, <1>5
        <3> QED
            BY <1>2, <2>2, <3>1 DEF RequestInv, PostedToRegistered
    <2>5. PostedInOrder'
        <3>1. \A i, j \in DOMAIN requests :
                    Before(sent', requests[j].note, requests[i].note)
                        <=> Before(sent, requests[j].note, requests[i].note)
            BY <1>7, <2>1
        <3> QED
            BY <1>2, <2>2, <3>1 DEF RequestInv, PostedInOrder, SentBefore, Before
    <2> QED
        BY <2>3, <2>4, <2>5 DEF RequestInv
<1> QED
    BY <1>8, <1>9, <1>11, <1>12, <1>13 DEF PushInv

LEMMA ChainStep ==
    ASSUME PushInv, NEW n \in Notification, Chain(n)
    PROVE  PushInv'
<1>1. /\ loading # <<>> /\ Head(loading) = n
      /\ loading' = Tail(loading)
      /\ UNCHANGED <<storeVars, callVars, loaded, posting, requests>>
      /\ \/ /\ loaded[n] = <<>>
            /\ phase' = [phase EXCEPT ![n] = "done"] /\ UNCHANGED <<previous, chain>>
         \/ /\ loaded[n] # <<>>
            /\ phase' = [phase EXCEPT ![n] = "chained"]
            /\ previous' = [previous EXCEPT ![n] = chain[Task(n)]]
            /\ chain' = [chain EXCEPT ![Task(n)] = n]
    BY DEF Chain
<1>2. TypeInv /\ OrderInv /\ ChainInv /\ StoreInv /\ RequestInv
    BY DEF PushInv
<1>3. /\ sent' = sent /\ due' = due /\ loaded' = loaded /\ requests' = requests
      /\ loading \in Seq(Addressed) /\ sent \in Seq(Addressed)
    BY <1>1, <1>2 DEF TypeInv, callVars
<1>4. /\ loading' \in Seq(Addressed)
      /\ DOMAIN loading \subseteq Nat /\ 1 \in DOMAIN loading /\ loading[1] = n
      /\ \A i \in DOMAIN loading' : /\ i \in Nat /\ 1 < i + 1 /\ i + 1 \in DOMAIN loading
                                    /\ loading'[i] = loading[i + 1]
      /\ \A i \in DOMAIN loading : i = 1 \/ (i - 1 \in DOMAIN loading' /\ loading'[i - 1] = loading[i])
    BY <1>1, <1>3, TailDomain
<1>5. n \in Addressed
    BY <1>3, <1>4
<1>6. phase[n] = "loading"
    BY <1>2, <1>4, <1>5 DEF OrderInv, Has
<1>7. \A m \in Addressed : m \in Notification /\ Task(m) \in TaskId
    BY TaskType
<1>8. \A m, l : Before(sent, m, l) => ~Before(sent, l, m)
    BY <1>2, <1>3, BeforeIsOrder DEF OrderInv
<1>9. PICK p \in {"done", "chained"} :
        /\ \A m \in Notification : phase'[m] = IF m = n THEN p ELSE phase[m]
        /\ p = "done" => loaded[n] = <<>>
        /\ p = "chained" => loaded[n] # <<>>
    BY <1>1, <1>2, PhaseOf
<1>10. phase'[n] = p /\ \A m \in Addressed : m # n => phase'[m] = phase[m]
    BY <1>7, <1>9
<1>11. \A m \in Addressed : phase[m] \notin {"new", "loading"} => Before(sent, m, n) /\ m # n
    BY <1>2, <1>4, <1>6 DEF OrderInv
<1>12. TypeInv'
    <2>1. chain[Task(n)] \in Notification \cup {None}
        BY <1>2, <1>5, <1>7 DEF TypeInv
    <2> QED
        BY <1>1, <1>2, <1>4, <2>1 DEF TypeInv, Phase, storeVars, callVars
<1>13. OrderInv'
    <2>1. ASSUME NEW m \in Addressed PROVE phase'[m] = "loading" <=> Has(loading', m)
        <3>1. CASE m = n
            <4>1. ASSUME NEW i \in DOMAIN loading', loading'[i] = n PROVE FALSE
                BY <1>2, <1>4, <1>8, <4>1 DEF OrderInv
            <4> QED
                BY <1>10, <3>1, <4>1 DEF Has
        <3>2. CASE m # n
            <4>1. Has(loading', m) <=> Has(loading, m)
                BY <1>4, <3>2 DEF Has
            <4> QED
                BY <1>2, <1>10, <3>2, <4>1 DEF OrderInv
        <3> QED
            BY <3>1, <3>2
    <2>2. ASSUME NEW i \in DOMAIN loading', NEW j \in DOMAIN loading', i < j
          PROVE  Before(sent, loading'[i], loading'[j])
        <3>1. i + 1 < j + 1
            BY <1>4, <2>2
        <3> QED
            BY <1>2, <1>4, <3>1 DEF OrderInv
    <2>3. ASSUME NEW m \in Addressed, phase'[m] \notin {"new", "loading"}, NEW i \in DOMAIN loading'
          PROVE  Before(sent, m, loading'[i])
        <3>1. CASE m = n
            BY <1>2, <1>4, <3>1 DEF OrderInv
        <3>2. CASE m # n
            BY <1>2, <1>4, <1>10, <2>3, <3>2 DEF OrderInv
        <3> QED
            BY <3>1, <3>2
    <2>4. \A m \in Notification : phase'[m] \notin {"new", "done"} => m \in Addressed
        BY <1>2, <1>5, <1>9 DEF OrderInv
    <2>5. \A m \in Addressed : phase'[m] # "new" <=> Has(sent, m)
        BY <1>2, <1>6, <1>10 DEF OrderInv
    <2> QED
        BY <1>2, <1>3, <2>1, <2>2, <2>3, <2>4, <2>5 DEF OrderInv
<1>14. ChainInv'
    <2>1. CASE p = "done"
        <3>1. \A m \in Addressed : /\ Pending(phase'[m]) <=> Pending(phase[m])
                                   /\ Posted(phase'[m], loaded'[m]) <=> Posted(phase[m], loaded[m])
                                   /\ phase'[m] = "chained" <=> phase[m] = "chained"
                                   /\ phase'[m] \in {"chained", "posting", "posted"}
                                        <=> phase[m] \in {"chained", "posting", "posted"}
            BY <1>3, <1>6, <1>9, <1>10, <2>1 DEF Pending, Posted
        <3>2. previous' = previous /\ chain' = chain
            BY <1>1, <1>2, <1>5, <1>9, <2>1 DEF TypeInv
        <3> QED
            BY <1>2, <1>3, <3>1, <3>2 DEF ChainInv
    <2>2. CASE p = "chained"
        <3>1. /\ loaded[n] # <<>>
              /\ \A m \in Notification : previous'[m] = IF m = n THEN chain[Task(n)] ELSE previous[m]
              /\ \A t \in TaskId : chain'[t] = IF t = Task(n) THEN n ELSE chain[t]
            BY <1>1, <1>2, <1>9, <2>2 DEF TypeInv
        <3>2. /\ \A m \in Addressed : Pending(phase'[m]) <=> m = n \/ Pending(phase[m])
              /\ \A m \in Addressed : Posted(phase'[m], loaded'[m]) <=> Posted(phase[m], loaded[m])
              /\ ~Pending(phase[n]) /\ ~Posted(phase[n], loaded[n])
            BY <1>3, <1>6, <1>10, <2>2 DEF Pending, Posted
        <3>3. /\ \A m \in Addressed : Pending(phase[m]) => Before(sent, m, n)
              /\ \A m \in Addressed : Posted(phase[m], loaded[m]) => Before(sent, m, n)
              /\ \A m \in Addressed : phase[m] = "chained" => Before(sent, m, n)
            BY <1>11 DEF Pending, Posted
        <3>4. \A m \in Addressed : phase'[m] \in {"chained", "posting", "posted"} => loaded'[m] # <<>>
            BY <1>2, <1>3, <1>10, <3>1 DEF ChainInv
        <3>5. ASSUME NEW t \in TaskId, chain'[t] # None
              PROVE  /\ chain'[t] \in Addressed /\ Task(chain'[t]) = t
                     /\ phase'[chain'[t]] \in {"chained", "posting", "posted"}
            BY <1>2, <1>5, <1>10, <2>2, <3>1, <3>5 DEF ChainInv
        <3>6. ASSUME NEW m \in Addressed, Pending(phase'[m])
              PROVE  Reaches(sent, m, chain'[Task(m)])
            <4>1. CASE Task(m) = Task(n)
                <5>1. chain'[Task(m)] = n /\ n # None
                    BY <1>5, <1>7, <3>1, <4>1, PushAssumption
                <5> QED
                    BY <3>2, <3>3, <3>6, <5>1 DEF Reaches
            <4>2. CASE Task(m) # Task(n)
                BY <1>2, <1>7, <3>1, <3>2, <3>6, <4>2 DEF ChainInv
            <4> QED
                BY <4>1, <4>2
        <3>7. ASSUME NEW m \in Addressed, previous'[m] # None
              PROVE  /\ previous'[m] \in Addressed /\ Task(previous'[m]) = Task(m)
                     /\ \/ Pending(phase'[previous'[m]])
                        \/ Posted(phase'[previous'[m]], loaded'[previous'[m]])
            <4>1. CASE m = n
                <5>1. previous'[m] = chain[Task(n)] /\ Task(n) \in TaskId
                    BY <1>5, <1>7, <3>1, <4>1
                <5>2. /\ chain[Task(n)] \in Addressed /\ Task(chain[Task(n)]) = Task(n)
                      /\ phase[chain[Task(n)]] \in {"chained", "posting", "posted"}
                      /\ loaded[chain[Task(n)]] # <<>>
                    BY <1>2, <3>7, <5>1 DEF ChainInv
                <5>3. Pending(phase[chain[Task(n)]]) \/ Posted(phase[chain[Task(n)]], loaded[chain[Task(n)]])
                    BY <5>2 DEF Pending, Posted
                <5> QED
                    BY <3>2, <4>1, <5>1, <5>2, <5>3
            <4>2. CASE m # n
                BY <1>2, <1>7, <3>1, <3>2, <3>7, <4>2 DEF ChainInv
            <4> QED
                BY <4>1, <4>2
        <3>8. ASSUME NEW m \in Addressed, NEW l \in Addressed, phase'[l] = "chained", Pending(phase'[m]),
                     Task(m) = Task(l), Before(sent, m, l)
              PROVE  Reaches(sent, m, previous'[l])
            <4>1. CASE l = n
                <5>1. m # n /\ Pending(phase[m])
                    BY <1>8, <3>2, <3>8, <4>1
                <5> QED
                    BY <1>2, <1>7, <3>1, <3>8, <4>1, <5>1 DEF ChainInv
            <4>2. CASE l # n
                <5>1. phase[l] = "chained" /\ Before(sent, l, n)
                    BY <1>10, <3>3, <3>8, <4>2
                <5>2. m # n /\ Pending(phase[m])
                    BY <1>8, <3>2, <3>8, <5>1
                <5> QED
                    BY <1>2, <1>7, <3>1, <3>8, <4>2, <5>1, <5>2 DEF ChainInv
            <4> QED
                BY <4>1, <4>2
        <3>9. ASSUME NEW m \in Addressed, NEW l \in Addressed,
                     Posted(phase'[l], loaded'[l]), Pending(phase'[m]), Task(m) = Task(l)
              PROVE  ~Before(sent, m, l)
            <4>1. Posted(phase[l], loaded[l]) /\ Before(sent, l, n)
                BY <3>2, <3>3, <3>9
            <4>2. CASE m = n
                BY <1>8, <4>1, <4>2
            <4>3. CASE m # n
                BY <1>2, <3>2, <3>9, <4>1, <4>3 DEF ChainInv
            <4> QED
                BY <4>2, <4>3
        <3> QED
            BY <1>3, <3>4, <3>5, <3>6, <3>7, <3>8, <3>9 DEF ChainInv
    <2> QED
        BY <2>1, <2>2
<1>15. StoreInv'
    BY <1>1, <1>2 DEF StoreInv, storeVars, callVars
<1>16. RequestInv'
    <2>1. \A i \in DOMAIN requests : /\ requests[i].note \in Addressed /\ requests[i].note # n
                                    /\ phase'[requests[i].note] = phase[requests[i].note]
        BY <1>2, <1>6, <1>10, NotesType DEF RequestInv, Posted
    <2>2. \A i \in DOMAIN requests' : Posted(phase'[requests'[i].note], loaded'[requests'[i].note])
        BY <1>2, <1>3, <2>1 DEF RequestInv
    <2>3. PostedToRegistered'
        <3>1. CASE p = "done"
            <4>1. DOMAIN due[n] = {}
                BY <1>2, <1>5, <1>9, <3>1 DEF StoreInv, Mirrors
            <4>2. {i \in DOMAIN requests : requests[i].note = n} = {}
                BY <2>1
            <4> QED
                BY <1>2, <1>3, <1>10, <4>1, <4>2 DEF RequestInv, PostedToRegistered
        <3>2. CASE p = "chained"
            BY <1>2, <1>3, <1>10, <3>2 DEF RequestInv, PostedToRegistered
        <3> QED
            BY <3>1, <3>2
    <2>4. PostedInOrder'
        BY <1>2, <1>3 DEF RequestInv, PostedInOrder, SentBefore
    <2> QED
        BY <2>2, <2>3, <2>4 DEF RequestInv
<1> QED
    BY <1>12, <1>13, <1>14, <1>15, <1>16 DEF PushInv

LEMMA PostStep ==
    ASSUME PushInv, NEW n \in Notification, Post(n)
    PROVE  PushInv'
<1> DEFINE new == [i \in DOMAIN loaded[n] |->
                [note |-> n, id |-> loaded[n][i].id, body |-> Body(loaded[n][i].version)]]
           Request == [note : Addressed, id : Id, body : Serializers \cup {"1.0"}]
<1>1. /\ phase[n] = "chained" /\ Settled(previous[n])
      /\ phase' = [phase EXCEPT ![n] = "posting"]
      /\ requests' = requests \o new
      /\ UNCHANGED <<storeVars, callVars, loading, loaded, previous, chain>>
    BY DEF Post
<1>2. TypeInv /\ OrderInv /\ ChainInv /\ StoreInv /\ RequestInv
    BY DEF PushInv
<1>3. /\ sent' = sent /\ due' = due /\ loaded' = loaded /\ loading' = loading
      /\ previous' = previous /\ chain' = chain
      /\ sent \in Seq(Addressed) /\ requests \in Seq(Request)
    BY <1>1, <1>2 DEF TypeInv, callVars
<1>4. n \in Addressed /\ loaded[n] # <<>> /\ loaded[n] \in Seq(Config)
    BY <1>1, <1>2 DEF OrderInv, ChainInv, TypeInv
<1>5. \A m \in Addressed : m \in Notification /\ Task(m) \in TaskId
    BY TaskType
<1>6. \A m \in Notification : phase'[m] = IF m = n THEN "posting" ELSE phase[m]
    BY <1>1, <1>2, PhaseOf
<1>7. \A m, l : Before(sent, m, l) => ~Before(sent, l, m)
    BY <1>2, <1>3, BeforeIsOrder DEF OrderInv
<1>8. /\ \A m \in Addressed : Pending(phase'[m]) <=> Pending(phase[m])
      /\ \A m \in Addressed : Posted(phase'[m], loaded'[m]) <=> m = n \/ Posted(phase[m], loaded[m])
      /\ Pending(phase[n]) /\ ~Posted(phase[n], loaded[n])
    BY <1>1, <1>3, <1>4, <1>5, <1>6 DEF Pending, Posted
<1>9. new \in Seq(Request) /\ DOMAIN new = DOMAIN loaded[n]
    <2>1. DOMAIN loaded[n] = 1..Len(loaded[n]) /\ Len(loaded[n]) \in Nat
        BY <1>4
    <2>2. \A i \in DOMAIN loaded[n] : loaded[n][i].id \in Id
        <3>1. \A i \in DOMAIN loaded[n] : loaded[n][i] \in Config
            BY <1>4
        <3> QED
            BY <3>1 DEF Config
    <2>3. \A v : Body(v) \in Serializers \cup {"1.0"}
        BY DEF Body
    <2>4. \A i \in 1..Len(loaded[n]) : new[i] \in Request
        BY <1>4, <2>1, <2>2, <2>3
    <2>5. new = [i \in 1..Len(loaded[n]) |-> new[i]]
        BY <2>1
    <2> HIDE DEF new, Request
    <2> QED
        BY <2>1, <2>4, <2>5
<1>10. \A i \in DOMAIN new : /\ new[i].note = n /\ new[i].id = loaded[n][i].id
                             /\ new[i].body = Body(loaded[n][i].version)
    BY <1>9
<1> HIDE DEF new, Request
<1>11. /\ requests' \in Seq(Request) /\ DOMAIN requests' \subseteq Nat /\ Len(requests) \in Nat
       /\ \A i \in DOMAIN requests : i \in DOMAIN requests' /\ requests'[i] = requests[i]
       /\ \A i \in DOMAIN new : /\ i \in Nat /\ Len(requests) + i \in DOMAIN requests'
                              /\ requests'[Len(requests) + i] = new[i]
       /\ \A i \in DOMAIN requests' : \/ i \in DOMAIN requests
                                      \/ /\ i - Len(requests) \in DOMAIN new
                                         /\ requests'[i] = new[i - Len(requests)]
       /\ \A i \in DOMAIN requests, j \in DOMAIN requests' : j \notin DOMAIN requests => i < j
    BY <1>1, <1>3, <1>9, ConcatDomain
<1>12. \A i \in DOMAIN requests : /\ requests[i].note \in Addressed
                                  /\ Posted(phase[requests[i].note], loaded[requests[i].note])
                                  /\ requests[i].note # n
    BY <1>2, <1>8, NotesType DEF RequestInv
<1>13. TypeInv'
    BY <1>1, <1>2, <1>11 DEF TypeInv, Phase, storeVars, callVars, Request
<1>14. OrderInv'
    <2>1. /\ \A m \in Addressed : phase'[m] # "new" <=> phase[m] # "new"
          /\ \A m \in Addressed : phase'[m] = "loading" <=> phase[m] = "loading"
          /\ \A m \in Notification : phase'[m] \notin {"new", "done"} => phase[m] \notin {"new", "done"}
        BY <1>1, <1>5, <1>6
    <2> QED
        BY <1>2, <1>3, <2>1 DEF OrderInv
<1>15. ChainInv'
    <2>1. \A m \in Addressed : phase'[m] \in {"chained", "posting", "posted"}
                <=> phase[m] \in {"chained", "posting", "posted"}
        BY <1>1, <1>5, <1>6
    <2>2. \A m \in Addressed : phase'[m] = "chained" => phase[m] = "chained"
        BY <1>1, <1>5, <1>6
    <2>3. ASSUME NEW m \in Addressed, Pending(phase[m]), Task(m) = Task(n), Before(sent, m, n)
          PROVE  FALSE
        <3>1. Reaches(sent, m, previous[n])
            BY <1>1, <1>2, <1>4, <2>3 DEF ChainInv
        <3>2. /\ previous[n] # None /\ phase[previous[n]] \in {"posted", "done"}
              /\ m = previous[n] \/ Before(sent, m, previous[n])
            BY <1>1, <3>1 DEF Reaches, Settled
        <3>3. previous[n] \in Addressed /\ Task(previous[n]) = Task(n)
              /\ Posted(phase[previous[n]], loaded[previous[n]]) /\ ~Pending(phase[previous[n]])
            BY <1>2, <1>4, <3>2 DEF ChainInv, Pending
        <3> QED
            BY <1>2, <2>3, <3>2, <3>3 DEF ChainInv
    <2>4. ASSUME NEW m \in Addressed, NEW l \in Addressed,
                 Posted(phase'[l], loaded'[l]), Pending(phase'[m]), Task(m) = Task(l)
          PROVE  ~Before(sent, m, l)
        BY <1>2, <1>8, <2>3, <2>4 DEF ChainInv
    <2> QED
        BY <1>2, <1>3, <1>8, <2>1, <2>2, <2>4 DEF ChainInv
<1>16. StoreInv'
    BY <1>1, <1>2 DEF StoreInv, storeVars, callVars
<1>17. RequestInv'
    <2>1. ASSUME NEW i \in DOMAIN requests'
          PROVE  Posted(phase'[requests'[i].note], loaded'[requests'[i].note])
        <3>1. CASE i \in DOMAIN requests
            BY <1>8, <1>11, <1>12, <3>1
        <3>2. CASE i \notin DOMAIN requests
            BY <1>4, <1>8, <1>10, <1>11, <3>2
        <3> QED
            BY <3>1, <3>2
    <2>2. PostedToRegistered'
        <3>1. SUFFICES ASSUME NEW m \in Addressed, phase'[m] \in {"posting", "posted", "done"}
              PROVE  LET mine == {i \in DOMAIN requests' : requests'[i].note = m}
                     IN  /\ {<<requests'[i].id, requests'[i].body>> : i \in mine}
                                = {<<id, Body(due'[m][id])>> : id \in DOMAIN due'[m]}
                         /\ \A i, j \in mine : requests'[i].id = requests'[j].id => i = j
            BY DEF PostedToRegistered
        <3> DEFINE mine == {i \in DOMAIN requests' : requests'[i].note = m}
                   old == {i \in DOMAIN requests : requests[i].note = m}
        <3>2. CASE m # n
            <4>1. mine = old /\ \A i \in mine : requests'[i] = requests[i]
                BY <1>10, <1>11, <3>2
            <4>2. phase[m] \in {"posting", "posted", "done"}
                BY <1>5, <1>6, <3>1, <3>2
            <4>3. /\ {<<requests[i].id, requests[i].body>> : i \in old}
                        = {<<id, Body(due[m][id])>> : id \in DOMAIN due[m]}
                  /\ \A i, j \in old : requests[i].id = requests[j].id => i = j
                BY <1>2, <4>2 DEF RequestInv, PostedToRegistered
            <4> HIDE DEF mine, old
            <4>4. {<<requests'[i].id, requests'[i].body>> : i \in mine}
                        = {<<requests[i].id, requests[i].body>> : i \in old}
                BY <4>1
            <4>5. \A i, j \in mine : requests'[i].id = requests'[j].id => i = j
                BY <4>1, <4>3
            <4> QED
                BY <1>3, <4>3, <4>4, <4>5 DEF mine
        <3>3. CASE m = n
            <4>1. /\ \A i \in mine : /\ i \in Nat /\ i - Len(requests) \in DOMAIN loaded[n]
                                     /\ requests'[i].id = loaded[n][i - Len(requests)].id
                                     /\ requests'[i].body = Body(loaded[n][i - Len(requests)].version)
                  /\ \A i \in DOMAIN loaded[n] :
                        /\ Len(requests) + i \in mine
                        /\ requests'[Len(requests) + i].id = loaded[n][i].id
                        /\ requests'[Len(requests) + i].body = Body(loaded[n][i].version)
                <5>1. \A i \in mine : i \in Nat /\ i - Len(requests) \in DOMAIN new
                                        /\ requests'[i] = new[i - Len(requests)]
                    BY <1>11, <1>12, <3>3
                <5>2. \A i \in DOMAIN new : Len(requests) + i \in mine
                                            /\ requests'[Len(requests) + i] = new[i]
                    BY <1>10, <1>11, <3>3
                <5> QED
                    BY <1>9, <1>10, <5>1, <5>2
            <4>2. Mirrors(loaded[n], due[n])
                BY <1>2, <1>4 DEF StoreInv
            <4> HIDE DEF mine
            <4>3. ASSUME NEW i \in mine, NEW j \in mine, requests'[i].id = requests'[j].id PROVE i = j
                <5>1. i - Len(requests) = j - Len(requests)
                    BY <4>1, <4>2, <4>3 DEF Mirrors
                <5> QED
                    BY <1>11, <4>1, <5>1
            <4>4. ASSUME NEW i \in mine
                  PROVE  <<requests'[i].id, requests'[i].body>> \in {<<id, Body(due[n][id])>> : id \in DOMAIN due[n]}
                BY <4>1, <4>2 DEF Mirrors
            <4>5. ASSUME NEW id \in DOMAIN due[n]
                  PROVE  <<id, Body(due[n][id])>> \in {<<requests'[i].id, requests'[i].body>> : i \in mine}
                <5>1. PICK i \in DOMAIN loaded[n] : loaded[n][i].id = id /\ due[n][id] = loaded[n][i].version
                    BY <4>2 DEF Mirrors
                <5> QED
                    BY <4>1, <5>1
            <4>6. {<<requests'[i].id, requests'[i].body>> : i \in mine}
                        = {<<id, Body(due[n][id])>> : id \in DOMAIN due[n]}
                BY <4>4, <4>5
            <4> QED
                BY <1>3, <3>3, <4>3, <4>6 DEF mine
        <3> QED
            BY <3>2, <3>3
    <2>3. PostedInOrder'
        <3>1. SUFFICES ASSUME NEW i \in DOMAIN requests', NEW j \in DOMAIN requests', i < j,
                              Task(requests'[i].note) = Task(requests'[j].note)
                       PROVE  ~Before(sent, requests'[j].note, requests'[i].note)
            BY <1>3 DEF PostedInOrder, SentBefore, Before
        <3>2. CASE i \in DOMAIN requests /\ j \in DOMAIN requests
            BY <1>2, <1>11, <3>1, <3>2 DEF RequestInv, PostedInOrder, SentBefore, Before
        <3>3. CASE i \in DOMAIN requests /\ j \notin DOMAIN requests
            <4>1. requests'[j].note = n /\ requests'[i] = requests[i]
                BY <1>10, <1>11, <3>3
            <4> QED
                BY <1>2, <1>4, <1>8, <1>12, <3>1, <3>3, <4>1 DEF ChainInv
        <3>4. CASE i \notin DOMAIN requests /\ j \notin DOMAIN requests
            <4>1. requests'[i].note = n /\ requests'[j].note = n
                BY <1>10, <1>11, <3>4
            <4> QED
                BY <1>7, <4>1
        <3>5. CASE i \notin DOMAIN requests /\ j \in DOMAIN requests
            BY <1>11, <3>1, <3>5
        <3> QED
            BY <3>2, <3>3, <3>4, <3>5
    <2> QED
        BY <2>1, <2>2, <2>3 DEF RequestInv
<1> QED
    BY <1>13, <1>14, <1>15, <1>16, <1>17 DEF PushInv

\* A webhook's answer and the timer at most move a notification on to "posted".
LEMMA PostedStep ==
    ASSUME PushInv, NEW n \in Notification, phase[n] = "posting",
           phase' = phase \/ phase' = [phase EXCEPT ![n] = "posted"],
           UNCHANGED <<storeVars, callVars, loading, loaded, previous, chain, requests>>
    PROVE  PushInv'
<1>1. UNCHANGED <<configs, writes, registered, due, sent, loading, loaded, previous, chain, requests>>
    BY DEF storeVars, callVars
<1>2. TypeInv /\ OrderInv /\ ChainInv /\ StoreInv /\ RequestInv
    BY DEF PushInv
<1>3. n \in Addressed
    BY <1>2 DEF OrderInv
<1>4. \A m \in Addressed : m \in Notification /\ Task(m) \in TaskId
    BY TaskType
<1>5. /\ \A m \in Notification : m # n => phase'[m] = phase[m]
      /\ phase'[n] \in {"posting", "posted"}
    BY <1>2 DEF TypeInv
<1>6. /\ \A m \in Addressed : Pending(phase'[m]) => Pending(phase[m])
      /\ \A m \in Addressed : Posted(phase'[m], loaded[m]) <=> Posted(phase[m], loaded[m])
      /\ \A m \in Addressed : Pending(phase[m]) => Pending(phase'[m]) \/ m = n
      /\ \A m \in Addressed : phase'[m] = "chained" <=> phase[m] = "chained"
      /\ \A m \in Addressed : phase'[m] \in {"chained", "posting", "posted"}
                <=> phase[m] \in {"chained", "posting", "posted"}
    BY <1>4, <1>5 DEF Pending, Posted
<1>7. Posted(phase[n], loaded[n])
    BY <1>2, <1>3 DEF ChainInv, Posted
<1>8. TypeInv'
    BY <1>1, <1>2 DEF TypeInv, Phase
<1>9. OrderInv'
    <2>1. /\ \A m \in Addressed : phase'[m] # "new" <=> phase[m] # "new"
          /\ \A m \in Addressed : phase'[m] = "loading" <=> phase[m] = "loading"
          /\ \A m \in Notification : phase'[m] \notin {"new", "done"} => phase[m] \notin {"new", "done"}
        BY <1>4, <1>5
    <2> QED
        BY <1>1, <1>2, <2>1 DEF OrderInv
<1>10. ChainInv'
    <2>1. \A m \in Addressed : previous[m] # None =>
                /\ previous[m] \in Addressed /\ Task(previous[m]) = Task(m)
                /\ Pending(phase'[previous[m]]) \/ Posted(phase'[previous[m]], loaded[previous[m]])
        BY <1>2, <1>6, <1>7 DEF ChainInv
    <2> QED
        BY <1>1, <1>2, <1>4, <1>6, <2>1 DEF ChainInv
<1>11. StoreInv'
    BY <1>1, <1>2 DEF StoreInv
<1>12. RequestInv'
    <2>1. \A i \in DOMAIN requests : Posted(phase'[requests[i].note], loaded[requests[i].note])
        BY <1>2, <1>6, NotesType DEF RequestInv
    <2>2. \A m \in Addressed : phase'[m] \in {"posting", "posted", "done"} => phase[m] \in {"posting", "posted", "done"}
        BY <1>4, <1>5
    <2>3. PostedToRegistered' /\ PostedInOrder'
        BY <1>1, <1>2, <2>2 DEF RequestInv, PostedToRegistered, PostedInOrder, SentBefore
    <2> QED
        BY <1>1, <2>1, <2>3 DEF RequestInv
<1> QED
    BY <1>8, <1>9, <1>10, <1>11, <1>12 DEF PushInv

LEMMA UnchainStep ==
    ASSUME PushInv, NEW n \in Notification, Unchain(n)
    PROVE  PushInv'
<1>1. /\ phase[n] = "posted"
      /\ phase' = [phase EXCEPT ![n] = "done"]
      /\ chain' = IF chain[Task(n)] = n THEN [chain EXCEPT ![Task(n)] = None] ELSE chain
      /\ UNCHANGED <<configs, writes, registered, due, sent, loading, loaded, previous, posting, requests>>
    BY DEF Unchain, storeVars, callVars
<1>2. TypeInv /\ OrderInv /\ ChainInv /\ StoreInv /\ RequestInv
    BY DEF PushInv
<1>3. n \in Addressed
    BY <1>1, <1>2 DEF OrderInv
<1>4. \A m \in Addressed : m \in Notification /\ Task(m) \in TaskId
    BY TaskType
<1>5. \A m \in Notification : phase'[m] = IF m = n THEN "done" ELSE phase[m]
    BY <1>1, <1>2, PhaseOf
<1>6. /\ \A m \in Addressed : Pending(phase'[m]) <=> Pending(phase[m])
      /\ \A m \in Addressed : Posted(phase'[m], loaded[m]) <=> Posted(phase[m], loaded[m])
      /\ \A m \in Addressed : phase'[m] = "chained" <=> phase[m] = "chained"
      /\ \A m \in Addressed : phase'[m] \in {"chained", "posting", "posted"}
                => phase[m] \in {"chained", "posting", "posted"}
      /\ ~Pending(phase[n])
    BY <1>1, <1>4, <1>5 DEF Pending, Posted
<1>7. Posted(phase[n], loaded[n])
    BY <1>1, <1>2, <1>3 DEF ChainInv, Posted
<1>8. \A t \in TaskId : chain'[t] = IF t = Task(n) /\ chain[t] = n THEN None ELSE chain[t]
    BY <1>1, <1>2, <1>3, <1>4 DEF TypeInv
<1>9. TypeInv'
    BY <1>1, <1>2 DEF TypeInv, Phase
<1>10. OrderInv'
    <2>1. /\ \A m \in Addressed : phase'[m] # "new" <=> phase[m] # "new"
          /\ \A m \in Addressed : phase'[m] = "loading" <=> phase[m] = "loading"
          /\ \A m \in Notification : phase'[m] \notin {"new", "done"} => phase[m] \notin {"new", "done"}
        BY <1>1, <1>4, <1>5
    <2> QED
        BY <1>1, <1>2, <2>1 DEF OrderInv
<1>11. ChainInv'
    <2>1. ASSUME NEW t \in TaskId, chain'[t] # None
          PROVE  /\ chain'[t] \in Addressed /\ Task(chain'[t]) = t
                 /\ phase'[chain'[t]] \in {"chained", "posting", "posted"}
        BY <1>2, <1>4, <1>5, <1>8, <2>1 DEF ChainInv
    <2>2. ASSUME NEW m \in Addressed, Pending(phase'[m]) PROVE Reaches(sent, m, chain'[Task(m)])
        <3>1. Pending(phase[m]) /\ Reaches(sent, m, chain[Task(m)]) /\ m # n
            BY <1>2, <1>6, <2>2 DEF ChainInv
        <3>2. ~(Task(m) = Task(n) /\ chain[Task(m)] = n)
            BY <1>2, <1>3, <1>7, <3>1 DEF ChainInv, Reaches
        <3> QED
            BY <1>4, <1>8, <3>1, <3>2
    <2> QED
        BY <1>1, <1>2, <1>4, <1>6, <2>1, <2>2 DEF ChainInv
<1>12. StoreInv'
    BY <1>1, <1>2 DEF StoreInv
<1>13. RequestInv'
    <2>1. \A i \in DOMAIN requests : Posted(phase'[requests[i].note], loaded[requests[i].note])
        BY <1>2, <1>6, NotesType DEF RequestInv
    <2>2. \A m \in Addressed : phase'[m] \in {"posting", "posted", "done"} => phase[m] \in {"posting", "posted", "done"}
        BY <1>1, <1>4, <1>5
    <2>3. PostedToRegistered' /\ PostedInOrder'
        BY <1>1, <1>2, <2>2 DEF RequestInv, PostedToRegistered, PostedInOrder, SentBefore
    <2> QED
        BY <1>1, <2>1, <2>3 DEF RequestInv
<1> QED
    BY <1>9, <1>10, <1>11, <1>12, <1>13 DEF PushInv

-----------------------------------------------------------------------------
(* The theorems *)

LEMMA Initially == Init => PushInv
<1> SUFFICES ASSUME Init PROVE PushInv
    OBVIOUS
<1>1. TypeInv
    <2>1. configs \in [Key -> Seq(Config)] /\ loaded \in [Notification -> Seq(Config)]
        BY DEF Init
    <2>2. requests \in Seq([note : Addressed, id : Id, body : Serializers \cup {"1.0"}])
        BY DEF Init
    <2> QED
        BY <2>1, <2>2 DEF Init, TypeInv, Phase
<1>2. \A n \in Addressed : n \in Notification
    BY TaskType
<1>3. DOMAIN sent = {} /\ DOMAIN loading = {} /\ DOMAIN requests = {}
    BY DEF Init
<1>4. \A n \in Notification : phase[n] = "new" /\ loaded[n] = <<>> /\ due[n] = <<>> /\ previous[n] = None
    BY DEF Init
<1>5. OrderInv
    BY <1>2, <1>3, <1>4 DEF OrderInv, Distinct, Has
<1>6. ChainInv
    BY <1>2, <1>3, <1>4 DEF Init, ChainInv, Pending, Posted
<1>7. StoreInv
    BY <1>2, <1>4 DEF Init, StoreInv, Mirrors
<1>8. RequestInv
    BY <1>2, <1>3, <1>4 DEF RequestInv, PostedToRegistered, PostedInOrder
<1> QED
    BY <1>1, <1>5, <1>6, <1>7, <1>8 DEF PushInv

LEMMA Stepwise == PushInv /\ [Next]_vars => PushInv'
<1> SUFFICES ASSUME PushInv, [Next]_vars PROVE PushInv'
    OBVIOUS
<1>1. CASE UNCHANGED vars
    BY <1>1 DEF PushInv, vars, TypeInv, OrderInv, ChainInv, StoreInv, RequestInv, PostedToRegistered,
                PostedInOrder, SentBefore
<1>2. ASSUME NEW key \in Key, NEW id \in ConfigId \cup {None}, NEW version \in Version, Save(key, id, version)
      PROVE  PushInv'
    BY <1>2, StoreStep
<1>3. ASSUME NEW key \in Key, NEW id \in ConfigId, Delete(key, <<"given", id>>)
      PROVE  PushInv'
    BY <1>3, StoreStep
<1>4. ASSUME NEW n \in Notification, Skip(n)
      PROVE  PushInv'
    BY <1>4, SkipStep
<1>5. ASSUME NEW n \in Notification, Send(n)
      PROVE  PushInv'
    BY <1>5, SendStep
<1>6. ASSUME NEW n \in Notification, Chain(n)
      PROVE  PushInv'
    BY <1>6, ChainStep
<1>7. ASSUME NEW n \in Notification, Post(n)
      PROVE  PushInv'
    BY <1>7, PostStep
<1>8. ASSUME NEW n \in Notification, NEW id \in posting[n], Answered(n, id)
      PROVE  PushInv'
    BY <1>8, PostedStep DEF Answered
<1>9. ASSUME NEW n \in Notification, Abort(n)
      PROVE  PushInv'
    BY <1>9, PostedStep DEF Abort
<1>10. ASSUME NEW n \in Notification, Unchain(n)
       PROVE  PushInv'
    BY <1>10, UnchainStep
<1> QED
    BY <1>1, <1>2, <1>3, <1>4, <1>5, <1>6, <1>7, <1>8, <1>9, <1>10 DEF Next, Step

THEOREM Invariance == Spec => []PushInv
<1>1. Init => PushInv
    BY Initially
<1>2. PushInv /\ [Next]_vars => PushInv'
    BY Stepwise
<1> QED
    BY <1>1, <1>2, PTL DEF Spec

(* A webhook is sent what it was registered for when send was called: not  *)
(* what was deleted or belongs to another user, and nothing twice, however *)
(* many clients write to the store while notifications are under way.      *)
THEOREM RegisteredWebhooksOnly == Spec => []PostedToRegistered
<1>1. PushInv => PostedToRegistered
    BY DEF PushInv, RequestInv
<1> QED
    BY <1>1, Invariance, PTL

(* The chain of promises makes the notifications of a task go out one at a *)
(* time and in the order of the calls of send, for any number of tasks and *)
(* notifications, whether webhooks answer or are given up.                 *)
THEOREM SequentialNotifications == Spec => []SequentialPerTask
<1>1. ASSUME PushInv PROVE OneAtATime
    <2>1. SUFFICES ASSUME NEW m \in Addressed, NEW n \in Addressed,
                          phase[m] = "posting", phase[n] = "posting", Task(m) = Task(n)
                   PROVE  m = n
        BY DEF OneAtATime
    <2>2. /\ Pending(phase[m]) /\ Posted(phase[m], loaded[m])
          /\ Pending(phase[n]) /\ Posted(phase[n], loaded[n])
        BY <1>1, <2>1 DEF PushInv, ChainInv, Pending, Posted
    <2>3. ~Before(sent, m, n) /\ ~Before(sent, n, m)
        BY <1>1, <2>1, <2>2 DEF PushInv, ChainInv
    <2>4. Has(sent, m) /\ Has(sent, n)
        BY <1>1, <2>1 DEF PushInv, OrderInv
    <2>5. PICK i, j \in DOMAIN sent : sent[i] = m /\ sent[j] = n
        BY <2>4 DEF Has
    <2> QED
        BY <1>1, <2>3, <2>5, BeforeIsOrder DEF PushInv, TypeInv, OrderInv
<1>2. PushInv => PostedInOrder
    BY DEF PushInv, RequestInv
<1>3. PushInv => ChainIsReleased
    BY DEF PushInv, ChainInv, ChainIsReleased
<1>4. PushInv => SequentialPerTask
    BY <1>1, <1>2, <1>3 DEF SequentialPerTask
<1> QED
    BY <1>4, Invariance, PTL
================================================================================
