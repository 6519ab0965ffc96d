-------------------------- MODULE ResultManagerProofs --------------------------
(***************************************************************************)
(* The promise chain of serializeByScope is a first-come first-served lock *)
(* per key, for any number of calls and keys; and the lock makes every     *)
(* load-merge-save atomic, for any number of result managers, tasks and    *)
(* events, exactly when the lock key mirrors the store's scoping.          *)
(***************************************************************************)
EXTENDS ResultManager, FiniteSetTheorems, TLAPS

-----------------------------------------------------------------------------
(* Folding an event into a well-formed task, or into no task, leaves one,   *)
(* or none: the operators are those of TaskMerge.                           *)

LEMMA WithLatestType ==
    ASSUME NEW history \in Seq(Msg), NEW l \in Msg \cup {NoMsg}
    PROVE  WithLatest(history, l) \in Seq(Msg)
<1>1. CASE l = NoMsg \/ Mentions(history, l)
    BY <1>1 DEF WithLatest
<1>2. CASE ~(l = NoMsg \/ Mentions(history, l))
    <2>1. l \in Msg
        BY <1>2
    <2>2. <<l>> \in Seq(Msg)
        BY <2>1
    <2>3. <<l>> \o history \in Seq(Msg)
        BY <2>2
    <2> QED
        BY <1>2, <2>3 DEF WithLatest
<1> QED
    BY <1>1, <1>2

LEMMA WithUpdateType ==
    ASSUME NEW history \in Seq(Msg), NEW m \in Msg \cup {NoMsg}
    PROVE  WithUpdate(history, m) \in Seq(Msg)
<1>1. CASE m = NoMsg \/ Mentions(history, m)
    BY <1>1 DEF WithUpdate
<1>2. CASE ~(m = NoMsg \/ Mentions(history, m))
    BY <1>2 DEF WithUpdate
<1> QED
    BY <1>1, <1>2

LEMMA PutArtifactsType ==
    ASSUME NEW p \in Artifacts, NEW i \in Artifacts, NEW append \in BOOLEAN
    PROVE  PutArtifacts(p, i, append) \in Artifacts
<1>1. ASSUME NEW a \in ArtId, p[a] # Absent, i[a] # Absent
      PROVE  p[a] \o i[a] \in Seq(Part)
    <2>1. p[a] \in Seq(Part) /\ i[a] \in Seq(Part)
        BY <1>1 DEF Artifacts
    <2> QED
        BY <2>1
<1>2. \A a \in ArtId : p[a] \in Seq(Part) \cup {Absent} /\ i[a] \in Seq(Part) \cup {Absent}
    BY DEF Artifacts
<1>3. ASSUME NEW a \in ArtId
      PROVE  PutArtifacts(p, i, append)[a] \in Seq(Part) \cup {Absent}
    <2>1. CASE i[a] = Absent
        BY <1>2, <2>1 DEF PutArtifacts
    <2>2. CASE i[a] # Absent /\ append /\ p[a] # Absent
        <3>1. PutArtifacts(p, i, append)[a] = p[a] \o i[a]
            BY <2>2 DEF PutArtifacts
        <3> QED
            BY <1>1, <2>2, <3>1
    <2>3. CASE i[a] # Absent /\ ~(append /\ p[a] # Absent)
        <3>1. PutArtifacts(p, i, append)[a] = i[a]
            BY <2>3 DEF PutArtifacts
        <3> QED
            BY <1>2, <3>1
    <2> QED
        BY <2>1, <2>2, <2>3
<1> QED
    BY <1>3 DEF PutArtifacts, Artifacts

LEMMA ApplyType ==
    ASSUME NEW t \in Task \cup {NoTask}, NEW e \in TaskEventOf, NEW l \in Msg \cup {NoMsg}
    PROVE  /\ Apply(t, e, l) \in Task \cup {NoTask}
           /\ e.kind = "task" \/ t # NoTask => Apply(t, e, l) \in Task
<1>1. /\ e.kind \in {"task", "statusUpdate", "artifactUpdate"}
      /\ e.kind \in {"task", "statusUpdate"} => e.state \in TaskState
      /\ e.data.history \in Seq(Msg) /\ e.data.artifacts \in Artifacts
      /\ e.data.msg \in Msg \cup {NoMsg} /\ e.data.append \in BOOLEAN
    BY DEF TaskEventOf, AgentExecutionEvent, TaskPayload
<1>2. t # NoTask => /\ t \in Task
                    /\ t.history \in Seq(Msg) /\ t.artifacts \in Artifacts /\ t.state \in TaskState
    BY DEF Task
<1>3. CASE e.kind = "task"
    <2>1. MergeArtifacts(t.artifacts, e.data.artifacts) \in Artifacts \/ t = NoTask
        BY <1>1, <1>2 DEF MergeArtifacts, Artifacts
    <2>2. ApplyTaskEvent(t, e, l) \in Task
        BY <1>1, <1>2, <1>3, <2>1, WithLatestType DEF ApplyTaskEvent, Task
    <2> QED
        BY <1>3, <2>2 DEF Apply
<1>4. CASE e.kind = "statusUpdate" /\ t # NoTask
    <2>1. ApplyStatusUpdate(t, e) \in Task
        BY <1>1, <1>2, <1>4, WithUpdateType DEF ApplyStatusUpdate, Task
    <2> QED
        BY <1>4, <2>1 DEF Apply
<1>5. CASE e.kind = "artifactUpdate" /\ t # NoTask
    <2>1. ApplyArtifactUpdate(t, e) \in Task
        BY <1>1, <1>2, <1>5, PutArtifactsType DEF ApplyArtifactUpdate, Task
    <2> QED
        BY <1>5, <2>1 DEF Apply
<1>6. CASE e.kind # "task" /\ t = NoTask
    BY <1>6 DEF Apply
<1> QED
    BY <1>1, <1>3, <1>4, <1>5, <1>6

-----------------------------------------------------------------------------
(* The write lock *)

Made(c, k) == stage[c] # "idle" /\ scope[c] = k
Over(c)    == stage[c] \in {"settled", "evicted"}

\* The calls of a key hold the tickets 0 .. issued - 1, one each.
TicketsInv ==
    /\ \A c \in Call : stage[c] # "idle" => ticket[c] < issued[scope[c]]
    /\ \A c, d \in Call :
          stage[c] # "idle" /\ stage[d] # "idle" /\ scope[c] = scope[d] /\ ticket[c] = ticket[d]
              => c = d
    /\ \A k \in Key, t \in Nat :
          t < issued[k] => \E c \in Call : Made(c, k) /\ ticket[c] = t

\* Every call before c is evicted.
Clear(c) ==
    \A d \in Call :
        stage[d] # "idle" /\ scope[d] = scope[c] /\ ticket[d] < ticket[c] => stage[d] = "evicted"

\* The chain: each call follows the one with the previous ticket, or nothing
\* is left before it.
ChainInv ==
    /\ \A c \in Call : stage[c] # "idle" /\ prev[c] # NoCall =>
          /\ stage[prev[c]] # "idle"
          /\ scope[prev[c]] = scope[c]
          /\ ticket[prev[c]] + 1 = ticket[c]
    /\ \A c \in Call : stage[c] = "waiting" /\ prev[c] = NoCall => Clear(c)
    /\ \A c \in Call : stage[c] \in {"running", "settled", "evicted"} => Clear(c)

\* The map entry names the last call until that call is evicted.
TailInv ==
    \A k \in Key :
        /\ tail[k] # NoCall =>
              /\ scope[tail[k]] = k
              /\ stage[tail[k]] \in {"waiting", "running", "settled"}
              /\ ticket[tail[k]] + 1 = issued[k]
        /\ tail[k] = NoCall => \A c \in Call : Made(c, k) => stage[c] = "evicted"

\* The calls that are over are those with the first `served' tickets.
ServedInv ==
    \A k \in Key :
        /\ served[k] <= issued[k]
        /\ \A c \in Call : Made(c, k) => (Over(c) <=> ticket[c] < served[k])

LockInv == LockTypeOK /\ TicketsInv /\ ChainInv /\ TailInv /\ ServedInv

-----------------------------------------------------------------------------
LEMMA LockInitInv == LockInit => LockInv
BY NoCallAssumption, NoKeyAssumption
   DEF LockInit, LockInv, LockTypeOK, Stage, TicketsInv, ChainInv, TailInv, ServedInv, Made, Clear, Over

LEMMA LockTyped == LockTypeOK /\ [LockNext]_lockVars => LockTypeOK'
<1> SUFFICES ASSUME LockTypeOK, [LockNext]_lockVars PROVE LockTypeOK'
    OBVIOUS
<1> USE NoCallAssumption, NoKeyAssumption DEF LockTypeOK, Stage
<1>1. ASSUME NEW c \in Call, NEW k \in Key, Serialize(c, k) PROVE LockTypeOK'
    BY <1>1 DEF Serialize
<1>2. ASSUME NEW c \in Call, Enter(c) PROVE LockTypeOK'
    BY <1>2 DEF Enter
<1>3. ASSUME NEW c \in Call, Release(c) PROVE LockTypeOK'
    BY <1>3 DEF Release
<1>4. ASSUME NEW c \in Call, Evict(c) PROVE LockTypeOK'
    BY <1>4 DEF Evict
<1>5. CASE UNCHANGED lockVars
    BY <1>5 DEF lockVars
<1> QED
    BY <1>1, <1>2, <1>3, <1>4, <1>5 DEF LockNext

\* A new call takes the next ticket, behind every call of its key.
LEMMA SerializeInv ==
    ASSUME LockInv, NEW c \in Call, NEW k \in Key, Serialize(c, k)
    PROVE  LockInv'
<1> USE NoCallAssumption, NoKeyAssumption
<1>1. LockTypeOK'
    BY LockTyped DEF LockInv, LockNext
<1>2. /\ stage[c] = "idle" /\ stage'[c] = "waiting" /\ scope'[c] = k
      /\ ticket'[c] = issued[k] /\ prev'[c] = tail[k]
      /\ \A d \in Call \ {c} : /\ stage'[d] = stage[d] /\ scope'[d] = scope[d]
                               /\ ticket'[d] = ticket[d] /\ prev'[d] = prev[d]
      /\ tail'[k] = c /\ issued'[k] = issued[k] + 1
      /\ \A j \in Key \ {k} : tail'[j] = tail[j] /\ issued'[j] = issued[j]
      /\ served' = served
    BY DEF Serialize, LockInv, LockTypeOK
<1>3. /\ issued \in [Key -> Nat] /\ ticket \in [Call -> Nat]
      /\ \A d \in Call : stage[d] # "idle" => scope[d] \in Key
      /\ tail \in [Key -> Call \cup {NoCall}] /\ prev \in [Call -> Call \cup {NoCall}]
    BY DEF LockInv, LockTypeOK
<1>4. TicketsInv'
    <2>1. \A d \in Call : stage'[d] # "idle" => ticket'[d] < issued'[scope'[d]]
        BY <1>2, <1>3 DEF LockInv, TicketsInv
    <2>2. \A d \in Call \ {c} : stage[d] # "idle" /\ scope[d] = k => ticket[d] # issued[k]
        BY <1>3 DEF LockInv, TicketsInv
    <2>3. \A d, e \in Call :
              stage'[d] # "idle" /\ stage'[e] # "idle" /\ scope'[d] = scope'[e]
              /\ ticket'[d] = ticket'[e] => d = e
        BY <1>2, <2>2 DEF LockInv, TicketsInv
    <2>4. ASSUME NEW j \in Key, NEW t \in Nat, t < issued'[j]
          PROVE  \E d \in Call : Made(d, j)' /\ ticket'[d] = t
        <3>1. CASE j = k /\ t = issued[k]
            BY <1>2, <3>1 DEF Made
        <3>2. CASE ~(j = k /\ t = issued[k])
            <4>1. t < issued[j]
                BY <1>2, <1>3, <2>4, <3>2
            <4>2. PICK d \in Call : Made(d, j) /\ ticket[d] = t
                BY <4>1 DEF LockInv, TicketsInv
            <4> QED
                BY <1>2, <4>2 DEF Made
        <3> QED
            BY <3>1, <3>2
    <2> QED
        BY <2>1, <2>3, <2>4 DEF TicketsInv
<1>5. ChainInv'
    <2>1. ASSUME NEW d \in Call, stage'[d] # "idle", prev'[d] # NoCall
          PROVE  /\ stage'[prev'[d]] # "idle"
                 /\ scope'[prev'[d]] = scope'[d]
                 /\ ticket'[prev'[d]] + 1 = ticket'[d]
        <3>1. CASE d = c
            BY <1>2, <1>3, <2>1, <3>1 DEF LockInv, TailInv
        <3>2. CASE d # c
            BY <1>2, <1>3, <2>1, <3>2 DEF LockInv, ChainInv
        <3> QED
            BY <3>1, <3>2
    <2>2. ASSUME NEW d \in Call, d # c, stage[d] # "idle", Clear(d) PROVE Clear(d)'
        BY <1>2, <1>3, <2>2 DEF Clear, LockInv, TicketsInv
    <2>3. ASSUME prev'[c] = NoCall PROVE Clear(c)'
        <3>1. \A d \in Call : Made(d, k) => stage[d] = "evicted"
            BY <1>2, <2>3 DEF LockInv, TailInv
        <3>2. ~(ticket'[c] < ticket'[c])
            BY <1>2, <1>3
        <3> QED
            BY <1>2, <3>1, <3>2 DEF Made, Clear
    <2> QED
        BY <1>2, <2>1, <2>2, <2>3 DEF ChainInv, LockInv
<1>6. TailInv'
    BY <1>2, <1>3 DEF TailInv, LockInv, Made
<1>7. ServedInv'
    <2>1. served[k] <= issued[k] /\ served \in [Key -> Nat]
        BY DEF LockInv, ServedInv, LockTypeOK
    <2> QED
        BY <1>2, <1>3, <2>1 DEF ServedInv, LockInv, Made, Over
<1> QED
    BY <1>1, <1>4, <1>5, <1>6, <1>7 DEF LockInv

\* A call starts when the one it is chained onto is evicted, so every call
\* before it is.
LEMMA EnterClear ==
    ASSUME LockInv, NEW c \in Call, Enter(c)
    PROVE  Clear(c)
<1>1. CASE prev[c] = NoCall
    BY <1>1 DEF Enter, LockInv, ChainInv
<1>2. CASE prev[c] # NoCall
    <2>1. /\ prev[c] \in Call /\ stage[prev[c]] = "evicted"
          /\ scope[prev[c]] = scope[c] /\ ticket[prev[c]] + 1 = ticket[c]
        BY <1>2 DEF Enter, LockInv, ChainInv, LockTypeOK
    <2>2. Clear(prev[c])
        BY <2>1 DEF LockInv, ChainInv
    <2>3. ASSUME NEW d \in Call, stage[d] # "idle", scope[d] = scope[c], ticket[d] < ticket[c]
          PROVE  stage[d] = "evicted"
        <3>1. ticket[d] < ticket[prev[c]] \/ ticket[d] = ticket[prev[c]]
            BY <2>1, <2>3 DEF LockInv, LockTypeOK
        <3> QED
            BY <2>1, <2>2, <2>3, <3>1 DEF Clear, LockInv, TicketsInv
    <2> QED
        BY <2>3 DEF Clear
<1> QED
    BY <1>1, <1>2

LEMMA EnterInv ==
    ASSUME LockInv, NEW c \in Call, Enter(c)
    PROVE  LockInv'
<1>1. LockTypeOK'
    BY LockTyped DEF LockInv, LockNext
<1>2. /\ stage[c] = "waiting" /\ stage' = [stage EXCEPT ![c] = "running"]
      /\ UNCHANGED <<tail, scope, prev, ticket, issued, served>>
    BY DEF Enter
<1>3. /\ \A d \in Call : (stage'[d] = "idle" <=> stage[d] = "idle") /\ (Over(d)' <=> Over(d))
      /\ \A d \in Call : stage'[d] = "evicted" <=> stage[d] = "evicted"
      /\ \A d \in Call : d # c => stage'[d] = stage[d]
      /\ stage'[c] = "running"
    BY <1>2 DEF LockInv, LockTypeOK, Over
<1>4. TicketsInv' /\ ServedInv'
    BY <1>2, <1>3 DEF LockInv, TicketsInv, ServedInv, Made
<1>5. \A d \in Call : Clear(d)' <=> Clear(d)
    BY <1>2, <1>3 DEF Clear
<1>6. ChainInv'
    BY <1>2, <1>3, <1>5, EnterClear DEF LockInv, LockTypeOK, ChainInv
<1>7. TailInv'
    BY <1>2, <1>3 DEF LockInv, LockTypeOK, TailInv, Made
<1> QED
    BY <1>1, <1>4, <1>6, <1>7 DEF LockInv

\* The running call of a key is the one whose ticket is being served.
LEMMA TurnIsServed ==
    ASSUME LockInv, NEW c \in Call, stage[c] \in {"waiting", "running"}, Clear(c)
    PROVE  ticket[c] = served[scope[c]]
<1> DEFINE k == scope[c]
<1>1. k \in Key /\ served[k] \in Nat /\ issued[k] \in Nat /\ ticket[c] \in Nat
    BY DEF LockInv, LockTypeOK
<1>2. ~(ticket[c] < served[k])
    BY <1>1 DEF LockInv, ServedInv, Made, Over
<1>3. ASSUME served[k] < ticket[c] PROVE FALSE
    <2>1. ticket[c] < issued[k]
        BY DEF LockInv, TicketsInv
    <2>2. served[k] < issued[k]
        BY <1>1, <1>3, <2>1
    <2>3. PICK d \in Call : Made(d, k) /\ ticket[d] = served[k]
        BY <1>1, <2>2 DEF LockInv, TicketsInv
    <2>4. stage[d] = "evicted"
        BY <1>3, <2>3 DEF Clear, Made
    <2>5. ticket[d] < served[k]
        BY <1>1, <2>3, <2>4 DEF LockInv, ServedInv, Over
    <2> QED
        BY <1>1, <2>3, <2>5
<1> QED
    BY <1>1, <1>2, <1>3

LEMMA ReleaseInv ==
    ASSUME LockInv, NEW c \in Call, Release(c)
    PROVE  LockInv'
<1> DEFINE k == scope[c]
<1>1. LockTypeOK'
    BY LockTyped DEF LockInv, LockNext
<1>2. /\ stage[c] = "running" /\ stage' = [stage EXCEPT ![c] = "settled"]
      /\ served' = [served EXCEPT ![k] = @ + 1]
      /\ UNCHANGED <<tail, scope, prev, ticket, issued>>
    BY DEF Release
<1>3. /\ \A d \in Call : stage'[d] = "idle" <=> stage[d] = "idle"
      /\ \A d \in Call : stage'[d] = "evicted" <=> stage[d] = "evicted"
      /\ \A d \in Call : d # c => stage'[d] = stage[d]
      /\ stage'[c] = "settled"
    BY <1>2 DEF LockInv, LockTypeOK
<1>4. TicketsInv'
    BY <1>2, <1>3 DEF LockInv, TicketsInv, Made
<1>5. \A d \in Call : Clear(d)' <=> Clear(d)
    BY <1>2, <1>3 DEF Clear
<1>6. ChainInv'
    BY <1>2, <1>3, <1>5 DEF LockInv, LockTypeOK, ChainInv
<1>7. TailInv'
    BY <1>2, <1>3 DEF LockInv, LockTypeOK, TailInv, Made
<1>8. ServedInv'
    <2>1. k \in Key /\ \A j \in Key : served[j] \in Nat /\ issued[j] \in Nat
        BY <1>2 DEF LockInv, LockTypeOK
    <2>2. ticket[c] = served[k]
        BY <1>2, TurnIsServed DEF LockInv, ChainInv
    <2>3. ticket[c] < issued[k]
        BY <1>2 DEF LockInv, TicketsInv
    <2>4. \A j \in Key : served'[j] <= issued'[j]
        BY <1>2, <2>1, <2>2, <2>3 DEF LockInv, LockTypeOK, ServedInv
    <2>5. ASSUME NEW j \in Key, NEW d \in Call, Made(d, j)'
          PROVE  Over(d)' <=> ticket'[d] < served'[j]
        <3>1. Made(d, j) /\ ticket[d] \in Nat /\ ticket'[d] = ticket[d]
            BY <1>2, <1>3, <2>5 DEF Made, LockInv, LockTypeOK
        <3>2. CASE j # k
            BY <1>2, <1>3, <2>1, <3>1, <3>2 DEF LockInv, LockTypeOK, ServedInv, Made, Over
        <3>3. CASE j = k /\ d = c
            BY <1>2, <1>3, <2>1, <2>2, <3>1, <3>3 DEF LockInv, LockTypeOK, Over
        <3>4. CASE j = k /\ d # c
            <4>1. ticket[d] # served[k]
                BY <1>2, <2>2, <3>1, <3>4 DEF LockInv, TicketsInv, Made
            <4>2. Over(d) <=> ticket[d] < served[k]
                BY <3>1, <3>4 DEF LockInv, ServedInv
            <4>3. served'[k] = served[k] + 1
                BY <1>2, <2>1 DEF LockInv, LockTypeOK
            <4>4. Over(d)' <=> Over(d)
                BY <1>3, <3>4 DEF Over
            <4> QED
                BY <2>1, <3>1, <3>4, <4>1, <4>2, <4>3, <4>4
        <3> QED
            BY <3>2, <3>3, <3>4
    <2> QED
        BY <2>4, <2>5 DEF ServedInv
<1> QED
    BY <1>1, <1>4, <1>6, <1>7, <1>8 DEF LockInv

LEMMA EvictInv ==
    ASSUME LockInv, NEW c \in Call, Evict(c)
    PROVE  LockInv'
<1> DEFINE k == scope[c]
<1>1. LockTypeOK'
    BY LockTyped DEF LockInv, LockNext
<1>2. /\ stage[c] = "settled" /\ stage' = [stage EXCEPT ![c] = "evicted"]
      /\ tail' = IF tail[k] = c THEN [tail EXCEPT ![k] = NoCall] ELSE tail
      /\ UNCHANGED <<scope, prev, ticket, issued, served>>
      /\ k \in Key
    BY DEF Evict, LockInv, LockTypeOK
<1>3. /\ \A d \in Call : (stage'[d] = "idle" <=> stage[d] = "idle") /\ (Over(d)' <=> Over(d))
      /\ \A d \in Call : stage[d] = "evicted" => stage'[d] = "evicted"
      /\ \A d \in Call : d # c => stage'[d] = stage[d]
      /\ stage'[c] = "evicted"
    BY <1>2 DEF LockInv, LockTypeOK, Over
<1>4. TicketsInv' /\ ServedInv'
    BY <1>2, <1>3 DEF LockInv, TicketsInv, ServedInv, Made
<1>5. \A d \in Call : Clear(d) => Clear(d)'
    BY <1>2, <1>3 DEF Clear
<1>6. ChainInv'
    BY <1>2, <1>3, <1>5 DEF LockInv, LockTypeOK, ChainInv
<1>7. TailInv'
    <2>1. \A j \in Key : j # k => tail'[j] = tail[j]
        BY <1>2 DEF LockInv, LockTypeOK
    <2>2. CASE tail[k] = c
        <3>1. tail'[k] = NoCall
            BY <1>2, <2>2 DEF LockInv, LockTypeOK
        <3>2. ASSUME NEW d \in Call, Made(d, k)' PROVE stage'[d] = "evicted"
            <4>1. CASE d = c
                BY <1>3, <4>1
            <4>2. CASE d # c
                <5>1. Made(d, k) /\ Clear(c) /\ ticket[c] + 1 = issued[k]
                    BY <1>2, <1>3, <2>2, <3>2, NoCallAssumption
                       DEF Made, LockInv, ChainInv, TailInv
                <5>2. ticket[d] < issued[k] /\ ticket[d] # ticket[c]
                    BY <1>2, <4>2, <5>1 DEF LockInv, TicketsInv, Made
                <5>3. ticket[d] < ticket[c]
                    BY <1>2, <5>1, <5>2 DEF LockInv, LockTypeOK
                <5> QED
                    BY <1>3, <5>1, <5>3 DEF Clear, Made
            <4> QED
                BY <4>1, <4>2
        <3>3. \A j \in Key \ {k} : tail[j] # c
            BY <1>2, NoCallAssumption DEF LockInv, TailInv
        <3> QED
            BY <1>2, <1>3, <2>1, <3>1, <3>2, <3>3 DEF LockInv, LockTypeOK, TailInv, Made
    <2>3. CASE tail[k] # c
        <3>1. \A j \in Key : tail[j] # c /\ tail'[j] = tail[j]
            BY <1>2, <2>3, NoCallAssumption DEF LockInv, TailInv
        <3> QED
            BY <1>2, <1>3, <3>1 DEF LockInv, LockTypeOK, TailInv, Made
    <2> QED
        BY <2>2, <2>3
<1> QED
    BY <1>1, <1>4, <1>6, <1>7 DEF LockInv

LEMMA LockNextInv == LockInv /\ [LockNext]_lockVars => LockInv'
<1> SUFFICES ASSUME LockInv, [LockNext]_lockVars PROVE LockInv'
    OBVIOUS
<1>1. CASE UNCHANGED lockVars
    BY <1>1 DEF lockVars, LockInv, LockTypeOK, TicketsInv, ChainInv, TailInv, ServedInv,
                Made, Clear, Over
<1> QED
    BY <1>1, SerializeInv, EnterInv, ReleaseInv, EvictInv DEF LockNext

LEMMA LockInvariance == LockSpec => []LockInv
BY LockInitInv, LockNextInv, PTL DEF LockSpec

LEMMA LockInvExcludes == LockInv => MutualExclusion
<1> SUFFICES ASSUME LockInv, NEW c \in Call, NEW d \in Call,
                    stage[c] = "running", stage[d] = "running", scope[c] = scope[d]
             PROVE  c = d
    BY DEF MutualExclusion
<1>1. Clear(c) /\ Clear(d)
    BY DEF LockInv, ChainInv
<1>2. ticket[c] = served[scope[c]] /\ ticket[d] = served[scope[d]]
    BY <1>1, TurnIsServed
<1> QED
    BY <1>2 DEF LockInv, TicketsInv

-----------------------------------------------------------------------------
(***************************************************************************)
(* Two fn of serializeByScope for one lock key never overlap, however many *)
(* calls are chained and whichever of them reject.                         *)
(***************************************************************************)
THEOREM Exclusive == LockSpec => []MutualExclusion
BY LockInvariance, LockInvExcludes, PTL

(***************************************************************************)
(* The entry of taskWriteLocks is deleted when the chain drains and never  *)
(* while a call of its key is unfinished.                                  *)
(***************************************************************************)
THEOREM MapIsEvicted == LockSpec => []MapDrains
<1>1. LockInv => MapDrains
    BY DEF LockInv, TailInv, MapDrains
<1> QED
    BY <1>1, LockInvariance, PTL
(***************************************************************************)
(* serializeByScope implements the ticket lock: Serialize takes a ticket,  *)
(* fn starts exactly when that ticket is served, its settling serves the   *)
(* next one, and evicting the map entry is invisible.                      *)
(***************************************************************************)
THEOREM Refinement == LockSpec => ImplementsTicketLock
<1> DEFINE state == [c \in Call |-> IF stage[c] \in {"settled", "evicted"} THEN "over" ELSE stage[c]]
<1>1. LockInit => Abstract!Init
    BY DEF LockInit, Abstract!Init
<1>2. LockInv /\ [LockNext]_lockVars => [Abstract!Next]_(Abstract!vars)
    <2> SUFFICES ASSUME LockInv, [LockNext]_lockVars
                 PROVE  [Abstract!Next]_(Abstract!vars)
        OBVIOUS
    <2> USE DEF Abstract!vars
    <2>0. stage \in [Call -> Stage]
        BY DEF LockInv, LockTypeOK
    <2>1. ASSUME NEW c \in Call, NEW k \in Key, Serialize(c, k)
          PROVE  Abstract!Take(c, k)
        <3>1. state[c] = "idle" /\ state' = [state EXCEPT ![c] = "waiting"]
            BY <2>0, <2>1 DEF Serialize
        <3> QED
            BY <2>1, <3>1 DEF Serialize, Abstract!Take
    <2>2. ASSUME NEW c \in Call, Enter(c)
          PROVE  Abstract!Enter(c)
        <3>1. state[c] = "waiting" /\ state' = [state EXCEPT ![c] = "running"]
            BY <2>0, <2>2 DEF Enter
        <3>2. ticket[c] = served[scope[c]]
            BY <2>2, EnterClear, TurnIsServed DEF Enter
        <3> QED
            BY <2>2, <3>1, <3>2 DEF Enter, Abstract!Enter
    <2>3. ASSUME NEW c \in Call, Release(c)
          PROVE  Abstract!Exit(c)
        <3>1. state[c] = "running" /\ state' = [state EXCEPT ![c] = "over"]
            BY <2>0, <2>3 DEF Release
        <3> QED
            BY <2>3, <3>1 DEF Release, Abstract!Exit
    <2>4. ASSUME NEW c \in Call, Evict(c)
          PROVE  UNCHANGED Abstract!vars
        <3>1. state' = state
            BY <2>0, <2>4 DEF Evict
        <3> QED
            BY <2>4, <3>1 DEF Evict
    <2>5. CASE UNCHANGED lockVars
        BY <2>5 DEF lockVars
    <2> QED
        BY <2>1, <2>2, <2>3, <2>4, <2>5 DEF LockNext, Abstract!Next
<1> QED
    BY <1>1, <1>2, LockInvariance, PTL DEF LockSpec, ImplementsTicketLock, Abstract!Spec

-----------------------------------------------------------------------------
(* The result manager: its inductive invariant. *)

\* The calls made: an event with a task id, under that task's key.
CallsInv ==
    \A c \in Call : stage[c] # "idle" =>
        /\ event[c] \in TaskEventOf
        /\ event[c] \in Event
        /\ event[c].data.tid \in TaskId \ {NoTid}
        /\ scope[c] = lockKey(ManagerOf(c), event[c].data.tid)

RMInv == TypeOK /\ LockInv /\ CallsInv /\ MergeIsFresh

LEMMA ManagerType == \A c \in Call : ManagerOf(c) \in RM
BY CallAssumption DEF ManagerOf

LEMMA RowType ==
    \A r \in RM, t \in TaskId : RowOf(r, t) \in Row /\ RowOf(r, t)[3] = t
BY ContextAssumption DEF RowOf, Row

LEMMA InitInv == Init => RMInv
<1> SUFFICES ASSUME Init PROVE RMInv
    OBVIOUS
<1>1. LockInv
    BY LockInitInv DEF Init
<1>2. \A c \in Call : stage[c] = "idle"
    BY DEF Init, LockInit
<1>3. TypeOK
    BY <1>1 DEF Init, TypeOK, LockInv, Outcome
<1> QED
    BY <1>1, <1>2, <1>3 DEF RMInv, CallsInv, MergeIsFresh

\* What TypeOK says of a running call.
LEMMA RunningCall ==
    ASSUME RMInv, NEW c \in Call, stage[c] # "idle"
    PROVE  /\ ManagerOf(c) \in RM
           /\ RowOfCall(c) \in Row /\ RowOfCall(c)[3] # NoTid
           /\ RowOfCall(c) = RowOf(ManagerOf(c), event[c].data.tid)
           /\ loaded[c] \in Task \cup {NoTask}
           /\ rows[RowOfCall(c)] \in Task \cup {NoTask}
           /\ event[c] \in Event
           /\ Merged(c) \in Task \cup {NoTask}
<1>1. ManagerOf(c) \in RM
    BY ManagerType
<1>2. /\ event[c] \in TaskEventOf /\ event[c] \in Event
      /\ event[c].data.tid \in TaskId \ {NoTid}
    BY DEF RMInv, CallsInv
<1>3. /\ RowOfCall(c) \in Row /\ RowOfCall(c)[3] # NoTid
      /\ RowOfCall(c) = RowOf(ManagerOf(c), event[c].data.tid)
    BY <1>1, <1>2, RowType DEF RowOfCall
<1>4. loaded[c] \in Task \cup {NoTask} /\ rows[RowOfCall(c)] \in Task \cup {NoTask}
    BY <1>3 DEF RMInv, TypeOK
<1>5. Latest[ManagerOf(c)] \in Msg \cup {NoMsg}
    BY <1>1, ContextAssumption
<1>6. Merged(c) \in Task \cup {NoTask}
    BY <1>2, <1>4, <1>5, ApplyType DEF Merged
<1> QED
    BY <1>1, <1>2, <1>3, <1>4, <1>6

\* Two calls that run at once are on different rows.
LEMMA RowsDiffer ==
    ASSUME RMInv, LockMirrorsStore,
           NEW c \in Call, NEW d \in Call, stage[c] = "running", stage[d] = "running", c # d
    PROVE  RowOfCall(c) # RowOfCall(d)
<1> SUFFICES ASSUME RowOfCall(c) = RowOfCall(d) PROVE FALSE
    OBVIOUS
<1>1. /\ ManagerOf(c) \in RM /\ ManagerOf(d) \in RM
      /\ event[c].data.tid \in TaskId \ {NoTid} /\ event[d].data.tid \in TaskId \ {NoTid}
      /\ scope[c] = lockKey(ManagerOf(c), event[c].data.tid)
      /\ scope[d] = lockKey(ManagerOf(d), event[d].data.tid)
    BY ManagerType DEF RMInv, CallsInv
<1>2. event[c].data.tid = event[d].data.tid
    BY <1>1, RowType DEF RowOfCall
<1>3. scope[c] = scope[d]
    BY <1>1, <1>2 DEF LockMirrorsStore, RowOfCall
<1> QED
    BY <1>3, LockInvExcludes DEF RMInv, MutualExclusion

LEMMA ProcessMessageInv ==
    ASSUME RMInv, NEW r \in RM, NEW e \in Event, ProcessMessage(r, e)
    PROVE  RMInv'
<1>1. UNCHANGED <<lockVars, rows, current, event, loaded, outcome>>
    BY DEF ProcessMessage
<1>2. LockInv'
    BY <1>1, LockNextInv DEF RMInv
<1>3. TypeOK'
    BY <1>1, <1>2 DEF RMInv, TypeOK, LockInv, ProcessMessage
<1> QED
    BY <1>1, <1>2, <1>3 DEF RMInv, CallsInv, MergeIsFresh, RowOfCall, lockVars

LEMMA ProcessWithoutIdInv ==
    ASSUME RMInv, NEW r \in RM, NEW e \in Event, ProcessWithoutId(r, e)
    PROVE  RMInv'
<1>1. UNCHANGED <<lockVars, final, event, loaded, outcome>>
    BY DEF ProcessWithoutId
<1>2. LockInv'
    BY <1>1, LockNextInv DEF RMInv
<1>3. e \in TaskEventOf /\ Latest[r] \in Msg \cup {NoMsg}
    BY EventAssumption, ContextAssumption DEF ProcessWithoutId
<1>4. Apply(NoTask, e, Latest[r]) \in Task \cup {NoTask}
    BY <1>3, ApplyType
<1>5. RowOf(r, NoTid) \in Row /\ RowOf(r, NoTid)[3] = NoTid
    BY RowType, AbsentAssumption
<1>6. /\ rows' \in [Row -> Task \cup {NoTask}]
      /\ current' \in [RM -> Task \cup {NoTask}]
      /\ \A k \in Row : k[3] # NoTid => rows'[k] = rows[k]
    BY <1>4, <1>5 DEF RMInv, TypeOK, ProcessWithoutId, Holds
<1>7. TypeOK'
    BY <1>1, <1>2, <1>6 DEF RMInv, TypeOK, LockInv
<1>8. ASSUME NEW c \in Call, stage'[c] = "running"
      PROVE  loaded'[c] = rows'[RowOfCall(c)']
    <2>1. stage[c] = "running" /\ RowOfCall(c)' = RowOfCall(c)
        BY <1>1, <1>8 DEF lockVars, RowOfCall
    <2>2. RowOfCall(c) \in Row /\ RowOfCall(c)[3] # NoTid
        BY <2>1, RunningCall
    <2> QED
        BY <1>1, <1>6, <2>1, <2>2 DEF RMInv, MergeIsFresh
<1> QED
    BY <1>1, <1>2, <1>7, <1>8 DEF RMInv, CallsInv, MergeIsFresh, lockVars

LEMMA ProcessEventInv ==
    ASSUME RMInv, NEW r \in RM, NEW e \in Event, NEW n \in 1..MaxEvents[r], ProcessEvent(r, n, e)
    PROVE  RMInv'
<1> DEFINE c == <<r, n>>
<1>1. /\ c \in Call /\ ManagerOf(c) = r
      /\ e \in TaskEventOf /\ e.data.tid \in TaskId \ {NoTid}
    BY CallAssumption, EventAssumption DEF ProcessEvent, ManagerOf, TaskEventOf, TaskPayload
<1>2. lockKey(r, e.data.tid) \in Key
    BY <1>1, KeyAssumption
<1>3. /\ Serialize(c, lockKey(r, e.data.tid))
      /\ event' = [event EXCEPT ![c] = e]
      /\ UNCHANGED <<rows, current, final, loaded, outcome>>
    BY DEF ProcessEvent
<1>4. LockInv'
    BY <1>1, <1>2, <1>3, SerializeInv DEF RMInv
<1>5. event'[c] = e /\ \A d \in Call \ {c} : event'[d] = event[d]
    BY <1>1, <1>3 DEF RMInv, TypeOK
<1>6. /\ stage'[c] = "waiting" /\ scope'[c] = lockKey(r, e.data.tid)
      /\ \A d \in Call \ {c} : stage'[d] = stage[d] /\ scope'[d] = scope[d]
    BY <1>1, <1>2, <1>3 DEF RMInv, LockInv, LockTypeOK, Serialize
<1>7. TypeOK'
    BY <1>1, <1>3, <1>4 DEF RMInv, TypeOK, LockInv
<1>8. CallsInv'
    <2>1. ASSUME NEW d \in Call, stage'[d] # "idle"
          PROVE  /\ event'[d] \in TaskEventOf
                 /\ event'[d] \in Event
                 /\ event'[d].data.tid \in TaskId \ {NoTid}
                 /\ scope'[d] = lockKey(ManagerOf(d), event'[d].data.tid)
        <3>1. CASE d = c
            BY <1>1, <1>5, <1>6, <3>1
        <3>2. CASE d # c
            BY <1>5, <1>6, <2>1, <3>2 DEF RMInv, CallsInv
        <3> QED
            BY <3>1, <3>2
    <2> QED
        BY <2>1 DEF CallsInv
<1>9. MergeIsFresh'
    BY <1>3, <1>5, <1>6 DEF RMInv, MergeIsFresh, RowOfCall
<1> QED
    BY <1>4, <1>7, <1>8, <1>9 DEF RMInv

\* What the steps of a call that is under way share.
LEMMA CallStep ==
    ASSUME RMInv, NEW c \in Call, Enter(c) \/ Release(c) \/ Evict(c), UNCHANGED event
    PROVE  /\ LockInv' /\ CallsInv'
           /\ stage[c] # "idle"
           /\ \A d \in Call \ {c} : stage'[d] = stage[d]
           /\ \A d \in Call : RowOfCall(d)' = RowOfCall(d)
<1>1. LockInv'
    BY EnterInv, ReleaseInv, EvictInv DEF RMInv
<1>2. /\ scope' = scope /\ stage[c] # "idle"
      /\ \A d \in Call \ {c} : stage'[d] = stage[d]
    BY DEF Enter, Release, Evict, RMInv, LockInv, LockTypeOK
<1>3. CallsInv'
    BY <1>2 DEF RMInv, CallsInv
<1> QED
    BY <1>1, <1>2, <1>3 DEF RowOfCall

LEMMA LoadInv ==
    ASSUME RMInv, NEW c \in Call, Load(c)
    PROVE  RMInv'
<1>1. /\ Enter(c) /\ loaded' = [loaded EXCEPT ![c] = rows[RowOfCall(c)]]
      /\ UNCHANGED <<rows, current, final, event, outcome>>
    BY DEF Load
<1>2. /\ LockInv' /\ CallsInv' /\ stage[c] # "idle"
      /\ \A d \in Call \ {c} : stage'[d] = stage[d]
      /\ \A d \in Call : RowOfCall(d)' = RowOfCall(d)
    BY <1>1, CallStep
<1>3. rows[RowOfCall(c)] \in Task \cup {NoTask}
    BY <1>2, RunningCall
<1>4. TypeOK'
    BY <1>1, <1>2, <1>3 DEF RMInv, TypeOK, LockInv
<1>5. MergeIsFresh'
    BY <1>1, <1>2 DEF RMInv, MergeIsFresh, TypeOK
<1> QED
    BY <1>2, <1>4, <1>5 DEF RMInv

\* A call that ends without writing its row.
LEMMA QuietEndInv ==
    ASSUME RMInv, NEW c \in Call, Release(c), NEW how \in Outcome, Ended(c, how),
           UNCHANGED <<rows, final, event, loaded>>,
           current' \in [RM -> Task \cup {NoTask}]
    PROVE  RMInv'
<1>1. /\ LockInv' /\ CallsInv'
      /\ \A d \in Call \ {c} : stage'[d] = stage[d]
      /\ \A d \in Call : RowOfCall(d)' = RowOfCall(d)
    BY CallStep
<1>2. stage'[c] = "settled"
    BY DEF Release, RMInv, LockInv, LockTypeOK
<1>3. TypeOK'
    BY <1>1 DEF RMInv, TypeOK, LockInv, Ended
<1>4. MergeIsFresh'
    BY <1>1, <1>2 DEF RMInv, MergeIsFresh
<1> QED
    BY <1>1, <1>3, <1>4 DEF RMInv

\* A call that ends by writing its row: no call that runs beside it is on it.
LEMMA WritingEndInv ==
    ASSUME RMInv, LockMirrorsStore, NEW c \in Call, Release(c),
           NEW how \in Outcome, Ended(c, how), Holds(ManagerOf(c), Merged(c)),
           rows' = [rows EXCEPT ![RowOfCall(c)] = Merged(c)],
           UNCHANGED <<final, event, loaded>>
    PROVE  RMInv'
<1>1. /\ LockInv' /\ CallsInv' /\ stage[c] # "idle"
      /\ \A d \in Call \ {c} : stage'[d] = stage[d]
      /\ \A d \in Call : RowOfCall(d)' = RowOfCall(d)
    BY CallStep
<1>2. stage[c] = "running" /\ stage'[c] = "settled"
    BY DEF Release, RMInv, LockInv, LockTypeOK
<1>3. ManagerOf(c) \in RM /\ RowOfCall(c) \in Row /\ Merged(c) \in Task \cup {NoTask}
    BY <1>1, RunningCall
<1>4. TypeOK'
    BY <1>1, <1>3 DEF RMInv, TypeOK, LockInv, Ended, Holds
<1>5. ASSUME NEW d \in Call, stage'[d] = "running"
      PROVE  loaded'[d] = rows'[RowOfCall(d)']
    <2>1. d # c /\ stage[d] = "running"
        BY <1>1, <1>2, <1>5
    <2>2. RowOfCall(d) # RowOfCall(c) /\ RowOfCall(d) \in Row
        BY <1>2, <2>1, RowsDiffer, RunningCall
    <2>3. rows'[RowOfCall(d)] = rows[RowOfCall(d)]
        BY <2>2 DEF RMInv, TypeOK
    <2> QED
        BY <1>1, <2>1, <2>3 DEF RMInv, MergeIsFresh
<1>6. MergeIsFresh'
    BY <1>5 DEF MergeIsFresh
<1> QED
    BY <1>1, <1>4, <1>6 DEF RMInv

LEMMA NextInv == LockMirrorsStore /\ RMInv /\ [Next]_vars => RMInv'
<1> SUFFICES ASSUME LockMirrorsStore, RMInv, [Next]_vars PROVE RMInv'
    OBVIOUS
<1>1. ASSUME NEW c \in Call, LoadFails(c) PROVE RMInv'
    BY <1>1, QuietEndInv DEF LoadFails, Outcome, RMInv, TypeOK
<1>2. ASSUME NEW c \in Call, Ignore(c) PROVE RMInv'
    <2>1. current' \in [RM -> Task \cup {NoTask}]
        BY <1>2 DEF Ignore, Holds, RMInv, TypeOK
    <2> QED
        BY <1>2, <2>1, QuietEndInv DEF Ignore, Outcome
<1>3. ASSUME NEW c \in Call, Save(c) PROVE RMInv'
    BY <1>3, WritingEndInv DEF Save, Outcome
<1>4. ASSUME NEW c \in Call, SaveFails(c) PROVE RMInv'
    <2>1. CASE rows' = [rows EXCEPT ![RowOfCall(c)] = Merged(c)]
        BY <1>4, <2>1, WritingEndInv DEF SaveFails, Outcome
    <2>2. CASE UNCHANGED rows
        <3>1. stage[c] # "idle"
            BY <1>4 DEF SaveFails, Release
        <3>2. current' \in [RM -> Task \cup {NoTask}]
            BY <1>4, <3>1, RunningCall DEF SaveFails, Holds, RMInv, TypeOK
        <3> QED
            BY <1>4, <2>2, <3>2, QuietEndInv DEF SaveFails, Outcome
    <2> QED
        BY <1>4, <2>1, <2>2 DEF SaveFails
<1>5. ASSUME NEW c \in Call, Clean(c) PROVE RMInv'
    <2>1. Evict(c) /\ UNCHANGED rmVars
        BY <1>5 DEF Clean
    <2>2. /\ LockInv' /\ CallsInv'
          /\ \A d \in Call \ {c} : stage'[d] = stage[d]
          /\ \A d \in Call : RowOfCall(d)' = RowOfCall(d)
        BY <2>1, CallStep DEF rmVars
    <2>3. stage'[c] = "evicted"
        BY <2>1 DEF Evict, RMInv, LockInv, LockTypeOK
    <2> QED
        BY <2>1, <2>2, <2>3 DEF rmVars, RMInv, TypeOK, LockInv, MergeIsFresh
<1>6. CASE UNCHANGED vars
    <2>1. LockInv'
        BY <1>6, LockNextInv DEF RMInv, vars
    <2> QED
        BY <1>6, <2>1 DEF vars, rmVars, lockVars, RMInv, TypeOK, LockInv, CallsInv, MergeIsFresh, RowOfCall
<1> QED
    BY <1>1, <1>2, <1>3, <1>4, <1>5, <1>6,
       ProcessMessageInv, ProcessWithoutIdInv, ProcessEventInv, LoadInv DEF Next

LEMMA Invariance == LockMirrorsStore /\ Spec => []RMInv
<1>1. SUFFICES ASSUME LockMirrorsStore PROVE Spec => []RMInv
    BY <1>1
<1>2. RMInv /\ [Next]_vars => RMInv'
    BY <1>1, NextInv
<1> QED
    BY <1>2, InitInv, PTL DEF Spec

-----------------------------------------------------------------------------
(***************************************************************************)
(* Every value the managers and the store hold is of the kind the code     *)
(* declares: a merged task is a task, whatever events are merged.          *)
(***************************************************************************)
THEOREM TypeCorrect == LockMirrorsStore /\ Spec => []TypeOK
<1>1. RMInv => TypeOK
    BY DEF RMInv
<1> QED
    BY <1>1, Invariance, PTL

(***************************************************************************)
(* When two contexts that reach one row always have one lock key, no       *)
(* sibling's write falls between a manager's load and its save: the lost   *)
(* update that serializeByScope is there for cannot happen.                *)
(***************************************************************************)
THEOREM NoLostUpdate == LockMirrorsStore /\ Spec => []MergeIsFresh
<1>1. RMInv => MergeIsFresh
    BY DEF RMInv
<1> QED
    BY <1>1, Invariance, PTL

\* TaskRows folds events with the operators of its own copy of TaskMerge.
LEMMA SameApply ==
    ASSUME NEW t, NEW e, NEW l
    PROVE  Atomic!Apply(t, e, l) = Apply(t, e, l)
<1>1. /\ \A h, m : Atomic!Mentions(h, m) <=> Mentions(h, m)
      /\ \A p, i : Atomic!MergeArtifacts(p, i) = MergeArtifacts(p, i)
      /\ \A p, i, a : Atomic!PutArtifacts(p, i, a) = PutArtifacts(p, i, a)
    BY Zenon DEF Atomic!Mentions, Mentions, Atomic!MergeArtifacts, MergeArtifacts,
                 Atomic!PutArtifacts, PutArtifacts
<1>2. /\ \A h, m : Atomic!WithLatest(h, m) = WithLatest(h, m)
      /\ \A h, m : Atomic!WithUpdate(h, m) = WithUpdate(h, m)
    BY <1>1, Zenon DEF Atomic!WithLatest, WithLatest, Atomic!WithUpdate, WithUpdate
<1>3. /\ Atomic!ApplyTaskEvent(t, e, l) = ApplyTaskEvent(t, e, l)
      /\ Atomic!ApplyStatusUpdate(t, e) = ApplyStatusUpdate(t, e)
      /\ Atomic!ApplyArtifactUpdate(t, e) = ApplyArtifactUpdate(t, e)
    BY <1>1, <1>2, Zenon DEF Atomic!ApplyTaskEvent, ApplyTaskEvent, Atomic!ApplyStatusUpdate,
                      ApplyStatusUpdate, Atomic!ApplyArtifactUpdate, ApplyArtifactUpdate
<1> QED
    BY <1>3, Zenon DEF Atomic!Apply, Apply

(***************************************************************************)
(* Then the managers, with their load and save apart, implement the store  *)
(* in which every event is folded into its row in one step.                *)
(***************************************************************************)
THEOREM Linearizable == LockMirrorsStore /\ Spec => ImplementsTaskRows
<1> SUFFICES ASSUME LockMirrorsStore PROVE Spec => ImplementsTaskRows
    OBVIOUS
<1> DEFINE real == [k \in RealRow |-> rows[k]]
<1>1. Init => Atomic!Init
    BY DEF Init, Atomic!Init, RealRow
<1>2. RMInv /\ [Next]_vars => [Atomic!Next]_real
    <2> SUFFICES ASSUME RMInv, [Next]_vars PROVE [Atomic!Next]_real
        OBVIOUS
    <2>1. ASSUME NEW r \in RM, NEW e \in Event, ProcessWithoutId(r, e) PROVE real' = real
        <3>1. RowOf(r, NoTid) \in Row /\ RowOf(r, NoTid)[3] = NoTid
            BY RowType, AbsentAssumption
        <3>2. \A k \in RealRow : rows'[k] = rows[k]
            BY <2>1, <3>1 DEF ProcessWithoutId, RealRow, RMInv, TypeOK
        <3> QED
            BY <3>2
    <2>2. ASSUME NEW c \in Call, Release(c), rows' = [rows EXCEPT ![RowOfCall(c)] = Merged(c)]
          PROVE  Atomic!Next
        <3>1. stage[c] = "running" /\ ManagerOf(c) \in RM
            BY <2>2, ManagerType DEF Release
        <3>2. /\ RowOfCall(c) \in RealRow /\ event[c] \in Event
              /\ Latest[ManagerOf(c)] \in Msg \cup {NoMsg}
            BY <3>1, RunningCall, ContextAssumption DEF RealRow
        <3>3. loaded[c] = rows[RowOfCall(c)]
            BY <3>1 DEF RMInv, MergeIsFresh
        <3>4. Merged(c) = Apply(real[RowOfCall(c)], event[c], Latest[ManagerOf(c)])
            BY <3>2, <3>3 DEF Merged
        <3>5. real' = [real EXCEPT ![RowOfCall(c)] = Merged(c)]
            BY <2>2, <3>2 DEF RMInv, TypeOK, RealRow
        <3>6. Atomic!Process(RowOfCall(c), event[c], Latest[ManagerOf(c)])
            BY <3>4, <3>5, SameApply DEF Atomic!Process
        <3> QED
            BY <3>2, <3>6 DEF Atomic!Next
    <2>3. CASE UNCHANGED rows
        BY <2>3
    <2> QED
        BY <2>1, <2>2, <2>3 DEF Next, vars, rmVars, ProcessMessage, ProcessEvent, Load, LoadFails,
                                Ignore, Save, SaveFails, Clean
<1> QED
    BY <1>1, <1>2, Invariance, PTL DEF Spec, ImplementsTaskRows, Atomic!Spec

-----------------------------------------------------------------------------
(* What was saved stays. *)

\* a call's outcome is noted when it ends; what it saved made a row
SavedInv ==
    \A c \in Call :
        /\ stage[c] \in {"idle", "waiting", "running"} => outcome[c] = "none"
        /\ outcome[c] = "saved" => rows[RowOfCall(c)] # NoTask

FiniteInv == \A k \in RealRow, a \in ArtId, p \in Part : IsFiniteSet(Carried(k, a, p))

KeptInv == SavedInv /\ FiniteInv /\ UpdatesKept

LEMMA PositionsFinite ==
    ASSUME NEW s \in Seq(Part), NEW p
    PROVE  IsFiniteSet(Positions(p, s)) /\ Positions(p, s) \subseteq 1..Len(s)
<1>1. Len(s) \in Nat /\ DOMAIN s = 1..Len(s)
    OBVIOUS
<1>2. IsFiniteSet(1..Len(s)) /\ Positions(p, s) \in SUBSET (1..Len(s))
    BY <1>1, FS_Interval DEF Positions
<1> QED
    BY <1>2, FS_Subset

\* a set of pairs on one call, as large as the set of the second components
LEMMA PairsOf ==
    ASSUME NEW c, NEW S, IsFiniteSet(S)
    PROVE  IsFiniteSet({c} \X S) /\ Cardinality({c} \X S) = Cardinality(S)
<1>1. IsFiniteSet({c}) /\ Cardinality({c}) = 1
    BY FS_Singleton
<1>2. Cardinality(S) \in Nat
    BY FS_CardinalityType
<1>3. IsFiniteSet({c} \X S) /\ Cardinality({c} \X S) = Cardinality({c}) * Cardinality(S)
    BY <1>1, FS_Product
<1>4. 1 * Cardinality(S) = Cardinality(S)
    BY <1>2
<1> QED
    BY <1>1, <1>3, <1>4

\* a part is as often in two sequences put together as in both
LEMMA PositionsJoin ==
    ASSUME NEW s \in Seq(Part), NEW t \in Seq(Part), NEW p
    PROVE  Cardinality(Positions(p, s \o t)) = Cardinality(Positions(p, s)) + Cardinality(Positions(p, t))
<1> DEFINE n == Len(s)
           P == Positions(p, s)
           Q == Positions(p, t)
           R == {i \in (n + 1)..(n + Len(t)) : t[i - n] = p}
           f == [i \in Q |-> n + i]
<1>1. n \in Nat /\ Len(t) \in Nat
    OBVIOUS
<1>2. /\ P = {i \in 1..n : s[i] = p} /\ Q = {i \in 1..Len(t) : t[i] = p}
      /\ IsFiniteSet(P) /\ IsFiniteSet(Q)
    <2>1. DOMAIN s = 1..n /\ DOMAIN t = 1..Len(t)
        OBVIOUS
    <2>2. P = {i \in 1..n : s[i] = p} /\ Q = {i \in 1..Len(t) : t[i] = p}
        BY <2>1 DEF Positions
    <2>3. IsFiniteSet(P) /\ IsFiniteSet(Q)
        BY PositionsFinite
    <2> QED
        BY <2>2, <2>3
<1>3. Positions(p, s \o t) = P \cup R
    <2>1. /\ DOMAIN (s \o t) = 1..(n + Len(t))
          /\ \A i \in 1..n : (s \o t)[i] = s[i]
          /\ \A i \in (n + 1)..(n + Len(t)) : (s \o t)[i] = t[i - n]
        OBVIOUS
    <2>2. 1..(n + Len(t)) = (1..n) \cup ((n + 1)..(n + Len(t)))
        BY <1>1
    <2>3. Positions(p, s \o t) = {i \in 1..(n + Len(t)) : (s \o t)[i] = p}
        BY <2>1 DEF Positions
    <2> HIDE DEF n, P
    <2> QED
        BY <1>2, <2>1, <2>2, <2>3
<1>4. f \in Bijection(Q, R)
    <2> HIDE DEF n
    <2>1. \A i \in Q : n + i \in R
        BY <1>1, <1>2
    <2>2. \A i \in Q, j \in Q : n + i = n + j => i = j
        BY <1>1, <1>2
    <2>3. \A i \in R : i - n \in Q /\ n + (i - n) = i
        BY <1>1, <1>2
    <2>4. f \in [Q -> R]
        BY <2>1
    <2>5. f \in Injection(Q, R)
        BY <2>2, <2>4 DEF Injection, IsInjective
    <2>6. f \in Surjection(Q, R)
        BY <2>3, <2>4 DEF Surjection
    <2> QED
        BY <2>5, <2>6 DEF Bijection
<1>5. IsFiniteSet(R) /\ Cardinality(R) = Cardinality(Q)
    BY <1>2, <1>4, FS_Bijection DEF ExistsBijection
<1>6. P \cap R = {}
    BY <1>1, <1>2
<1>7. Cardinality(P) \in Nat /\ Cardinality(R) \in Nat
    BY <1>2, <1>5, FS_CardinalityType
<1>8. Cardinality(P \cup R) = Cardinality(P) + Cardinality(R) - Cardinality(P \cap R)
    BY <1>2, <1>5, FS_Union
<1>9. Cardinality(P \cap R) = 0
    BY <1>6, FS_EmptySet
<1> HIDE DEF P, Q, R
<1> QED
    BY <1>3, <1>5, <1>7, <1>8, <1>9 DEF P, Q

-----------------------------------------------------------------------------
\* A step that writes no row a task id can name and saves no call.
LEMMA QuietKeeps ==
    ASSUME RMInv, RMInv', KeptInv, SavedInv',
           \A k \in RealRow : rows'[k] = rows[k],
           \A c \in Call : stage[c] # "idle" => stage'[c] # "idle" /\ event'[c] = event[c],
           \A c \in Call : outcome'[c] = "saved" <=> outcome[c] = "saved",
           \A c \in Call : outcome[c] = "failed" => outcome'[c] = "failed"
    PROVE  KeptInv'
<1>1. ASSUME NEW k \in Row, NEW c \in OnRow(k)
      PROVE  c \in OnRow(k)' /\ event'[c] = event[c] /\ k \in RealRow
    <2>1. c \in Call /\ stage[c] # "idle" /\ RowOfCall(c) = k
        BY DEF OnRow
    <2> QED
        BY <2>1, RunningCall DEF OnRow, RowOfCall, RealRow
<1>2. ASSUME NEW k \in Row, NEW c \in OnRow(k)', outcome'[c] = "saved"
      PROVE  c \in OnRow(k) /\ outcome[c] = "saved" /\ event'[c] = event[c]
    <2>1. c \in Call /\ stage'[c] # "idle" /\ RowOfCall(c)' = k /\ outcome[c] = "saved"
        BY <1>2 DEF OnRow
    <2>2. stage[c] # "idle"
        BY <2>1 DEF KeptInv, SavedInv
    <2> QED
        BY <2>1, <2>2 DEF OnRow, RowOfCall
<1>3. ASSUME NEW k \in RealRow, NEW a \in ArtId, NEW p \in Part
      PROVE  Carried(k, a, p)' = Carried(k, a, p)
    <2> DEFINE S == {d \in OnRow(k) : Touches(d, a) /\ outcome[d] = "saved"}
               T == {d \in OnRow(k)' : Touches(d, a)' /\ outcome'[d] = "saved"}
    <2>1. k \in Row
        BY DEF RealRow
    <2>2. OnRow(k) \subseteq Call
        BY DEF OnRow
    <2>3. S = T
        BY <1>1, <1>2, <2>1, <2>2 DEF Touches
    <2>4. \A d \in S : event'[d] = event[d]
        BY <1>1, <2>1
    <2>5. {{d} \X Positions(p, event[d].data.artifacts[a]) : d \in S}
            = {{d} \X Positions(p, event'[d].data.artifacts[a]) : d \in T}
        BY <2>3, <2>4, Zenon
    <2> QED
        BY <2>5, Zenon DEF Carried, Positions
<1>4. FiniteInv'
    BY <1>3 DEF KeptInv, FiniteInv, RealRow
<1>5. MessagesKept'
    <2> SUFFICES ASSUME NEW k \in Row, NEW c \in OnRow(k)', outcome'[c] = "saved",
                        event'[c].kind = "statusUpdate", event'[c].data.msg # NoMsg,
                        \A d \in OnRow(k)' : event'[d].kind = "task" => event'[d].data.history = <<>>
                 PROVE  Mentions(rows'[k].history, event'[c].data.msg)
        BY DEF MessagesKept, Mentions
    <2>1. c \in OnRow(k) /\ outcome[c] = "saved" /\ event'[c] = event[c] /\ k \in RealRow
        BY <1>1, <1>2
    <2>2. \A d \in OnRow(k) : event[d].kind = "task" => event[d].data.history = <<>>
        BY <1>1
    <2>3. Mentions(rows[k].history, event[c].data.msg)
        BY <2>1, <2>2 DEF KeptInv, UpdatesKept, MessagesKept
    <2> QED
        BY <2>1, <2>3
<1>6. PartsKept'
    <2> SUFFICES ASSUME NEW k \in RealRow, NEW a \in ArtId, NEW p \in Part, rows'[k] # NoTask,
                        \A c \in OnRow(k)' : Touches(c, a)' =>
                            event'[c].kind = "artifactUpdate" /\ event'[c].data.append
                              /\ outcome'[c] # "failed"
                 PROVE  Cardinality(Carried(k, a, p)')
                          = IF rows'[k].artifacts[a] = Absent THEN 0
                            ELSE Cardinality(Positions(p, rows'[k].artifacts[a]))
        BY Zenon DEF PartsKept, RealRow, Positions
    <2>1. k \in Row /\ rows'[k] = rows[k]
        BY DEF RealRow
    <2>2. \A c \in OnRow(k) : Touches(c, a) =>
             event[c].kind = "artifactUpdate" /\ event[c].data.append /\ outcome[c] # "failed"
        <3> SUFFICES ASSUME NEW c \in OnRow(k), Touches(c, a)
                     PROVE  event[c].kind = "artifactUpdate" /\ event[c].data.append
                              /\ outcome[c] # "failed"
            OBVIOUS
        <3>1. c \in OnRow(k)' /\ event'[c] = event[c] /\ c \in Call
            BY <1>1, <2>1 DEF OnRow
        <3>2. Touches(c, a)'
            BY <3>1 DEF Touches
        <3> QED
            BY <3>1, <3>2
    <2>3. Cardinality(Carried(k, a, p))
            = IF rows[k].artifacts[a] = Absent THEN 0
              ELSE Cardinality(Positions(p, rows[k].artifacts[a]))
        BY <2>1, <2>2 DEF KeptInv, UpdatesKept, PartsKept
    <2> QED
        BY <1>3, <2>1, <2>3
<1> QED
    BY <1>4, <1>5, <1>6 DEF KeptInv, UpdatesKept

-----------------------------------------------------------------------------
\* A message in the history stays there, unless a task event brings another.
LEMMA HistoryGrows ==
    ASSUME NEW t \in Task, NEW e \in TaskEventOf, NEW l, NEW m,
           e.kind = "task" => e.data.history = <<>>, Mentions(t.history, m)
    PROVE  Mentions(Apply(t, e, l).history, m)
<1>1. t.history \in Seq(Msg) /\ t # NoTask
    BY AbsentAssumption DEF Task
<1>2. \A x : \A h \in Seq(Msg) : Mentions(h, m) => Mentions(<<x>> \o h, m) /\ Mentions(Append(h, x), m)
    <2> SUFFICES ASSUME NEW x, NEW h \in Seq(Msg), NEW i \in DOMAIN h, h[i] = m
                 PROVE  Mentions(<<x>> \o h, m) /\ Mentions(Append(h, x), m)
        BY DEF Mentions
    <2>1. i \in 1..Len(h) /\ Len(h) \in Nat
        OBVIOUS
    <2>2. /\ i + 1 \in DOMAIN (<<x>> \o h) /\ (<<x>> \o h)[i + 1] = m
        BY <2>1
    <2>3. /\ i \in DOMAIN Append(h, x) /\ Append(h, x)[i] = m
        BY <2>1
    <2> QED
        BY <2>2, <2>3 DEF Mentions
<1>3. CASE e.kind = "task"
    <2>1. Apply(t, e, l).history = WithLatest(t.history, l)
        BY <1>1, <1>3 DEF Apply, ApplyTaskEvent
    <2> QED
        BY <1>1, <1>2, <2>1 DEF WithLatest
<1>4. CASE e.kind = "statusUpdate"
    <2>1. Apply(t, e, l).history = WithUpdate(t.history, e.data.msg)
        BY <1>1, <1>4 DEF Apply, ApplyStatusUpdate
    <2> QED
        BY <1>1, <1>2, <2>1 DEF WithUpdate
<1>5. CASE e.kind \notin {"task", "statusUpdate"}
    BY <1>1, <1>5 DEF Apply, ApplyArtifactUpdate
<1> QED
    BY <1>3, <1>4, <1>5

\* The message of a status update is in the history after it.
LEMMA UpdateIsHeld ==
    ASSUME NEW t \in Task, NEW e \in TaskEventOf, NEW l,
           e.kind = "statusUpdate", e.data.msg # NoMsg
    PROVE  Mentions(Apply(t, e, l).history, e.data.msg)
<1>1. t.history \in Seq(Msg) /\ t # NoTask
    BY AbsentAssumption DEF Task
<1>2. Apply(t, e, l).history = WithUpdate(t.history, e.data.msg)
    BY <1>1 DEF Apply, ApplyStatusUpdate
<1>3. ~Mentions(t.history, e.data.msg) => Mentions(Append(t.history, e.data.msg), e.data.msg)
    <2>1. /\ Len(t.history) + 1 \in DOMAIN Append(t.history, e.data.msg)
          /\ Append(t.history, e.data.msg)[Len(t.history) + 1] = e.data.msg
        BY <1>1
    <2> QED
        BY <2>1 DEF Mentions
<1> QED
    BY <1>2, <1>3 DEF WithUpdate

\* A task event always makes a task, and an update keeps one.
LEMMA ApplyIsTask ==
    ASSUME NEW t \in Task \cup {NoTask}, NEW e \in TaskEventOf, NEW l \in Msg \cup {NoMsg},
           e.kind = "task" \/ t # NoTask
    PROVE  Apply(t, e, l) # NoTask
BY ApplyType, AbsentAssumption

\* What appending or putting one artifact makes of it.
LEMMA PutAt ==
    ASSUME NEW p, NEW i, NEW b, NEW a \in ArtId
    PROVE  PutArtifacts(p, i, b)[a] =
               IF i[a] = Absent THEN p[a]
               ELSE IF b /\ p[a] # Absent THEN p[a] \o i[a] ELSE i[a]
BY DEF PutArtifacts

\* A call that writes its row: what the row held is in what it holds.
LEMMA WritingKeeps ==
    ASSUME RMInv, KeptInv, SavedInv', NEW c \in Call, stage[c] = "running", ~Unknown(c),
           \A d \in Call \ {c} : stage'[d] = stage[d] /\ outcome'[d] = outcome[d],
           stage'[c] = "settled", outcome'[c] \in {"saved", "failed"}, event' = event,
           rows' = [rows EXCEPT ![RowOfCall(c)] = Merged(c)]
    PROVE  KeptInv'
<1> DEFINE k0 == RowOfCall(c)
           e == event[c]
           l == Latest[ManagerOf(c)]
           t == rows[k0]
<1>1. /\ k0 \in RealRow /\ t \in Task \cup {NoTask} /\ e \in TaskEventOf
      /\ Merged(c) = Apply(t, e, l) /\ e.data.artifacts \in Artifacts
      /\ e.kind # "task" => t # NoTask
      /\ outcome[c] = "none"
    <2>1. k0 \in RealRow /\ t \in Task \cup {NoTask} /\ loaded[c] = t
        BY RunningCall DEF RealRow, RMInv, MergeIsFresh
    <2>2. e \in TaskEventOf
        BY DEF RMInv, CallsInv
    <2> QED
        BY <2>1, <2>2 DEF Merged, Unknown, TaskEventOf, TaskPayload, KeptInv, SavedInv
<1>2. /\ rows'[k0] = Apply(t, e, l)
      /\ \A k \in Row \ {k0} : rows'[k] = rows[k]
    BY <1>1 DEF RMInv, TypeOK, RealRow
<1>3. \A k : OnRow(k)' = OnRow(k)
    BY DEF OnRow, RowOfCall
<1>4. \A k : c \in OnRow(k) <=> k = k0
    BY DEF OnRow
<1>5. \A k : OnRow(k) \subseteq Call
    BY DEF OnRow
<1>6. MessagesKept'
    <2> SUFFICES ASSUME NEW k \in Row, NEW d \in OnRow(k), outcome'[d] = "saved",
                        event[d].kind = "statusUpdate", event[d].data.msg # NoMsg,
                        \A x \in OnRow(k) : event[x].kind = "task" => event[x].data.history = <<>>
                 PROVE  Mentions(rows'[k].history, event[d].data.msg)
        BY <1>3 DEF MessagesKept, Mentions
    <2>1. CASE k # k0
        BY <1>2, <1>4, <1>5, <2>1 DEF KeptInv, UpdatesKept, MessagesKept
    <2>2. CASE k = k0 /\ d = c
        BY <1>1, <1>2, <2>2, UpdateIsHeld
    <2>3. CASE k = k0 /\ d # c
        <3>1. outcome[d] = "saved" /\ d \in Call /\ RowOfCall(d) = k0
            BY <1>5, <2>3 DEF OnRow
        <3>2. t \in Task /\ Mentions(t.history, event[d].data.msg)
            BY <1>1, <2>3, <3>1 DEF KeptInv, SavedInv, UpdatesKept, MessagesKept
        <3>3. e.kind = "task" => e.data.history = <<>>
            BY <1>4, <2>3
        <3> QED
            BY <1>1, <1>2, <2>3, <3>2, <3>3, HistoryGrows
    <2> QED
        BY <2>1, <2>2, <2>3
<1>7. ASSUME NEW k \in RealRow, NEW a \in ArtId, NEW p \in Part
      PROVE  /\ Carried(k, a, p)' =
                  IF k = k0 /\ Touches(c, a) /\ outcome'[c] = "saved"
                  THEN Carried(k, a, p) \cup ({c} \X Positions(p, e.data.artifacts[a]))
                  ELSE Carried(k, a, p)
             /\ \A x \in Carried(k, a, p) : x[1] # c
    <2> DEFINE S == {d \in OnRow(k) : Touches(d, a) /\ outcome[d] = "saved"}
               T == {d \in OnRow(k)' : Touches(d, a)' /\ outcome'[d] = "saved"}
               g(d) == {d} \X Positions(p, event[d].data.artifacts[a])
    <2>1. Carried(k, a, p) = UNION {g(d) : d \in S}
        BY Zenon DEF Carried
    <2>2. Carried(k, a, p)' = UNION {g(d) : d \in T}
        <3>1. Carried(k, a, p)' = UNION {{d} \X Positions(p, event'[d].data.artifacts[a]) : d \in T}
            BY Zenon DEF Carried, Positions
        <3>2. event' = event
            OBVIOUS
        <3> QED
            BY <3>1, <3>2, Zenon
    <2>3. T = IF k = k0 /\ Touches(c, a) /\ outcome'[c] = "saved" THEN S \cup {c} ELSE S
        BY <1>1, <1>3, <1>4, <1>5 DEF Touches
    <2>4. \A d \in S : d # c
        BY <1>1
    <2>5. \A d, x : x \in g(d) => x[1] = d
        OBVIOUS
    <2>6. \A x \in Carried(k, a, p) : x[1] # c
        BY <2>1, <2>4, <2>5
    <2>7. UNION {g(d) : d \in S \cup {c}} = (UNION {g(d) : d \in S}) \cup g(c)
        <3>1. ASSUME NEW x PROVE x \in UNION {g(d) : d \in S \cup {c}}
                                   <=> x \in (UNION {g(d) : d \in S}) \cup g(c)
            BY SMT
        <3> HIDE DEF S, g
        <3> QED
            BY <3>1
    <2>8. CASE k = k0 /\ Touches(c, a) /\ outcome'[c] = "saved"
        BY <2>1, <2>2, <2>3, <2>6, <2>7, <2>8
    <2>9. CASE ~(k = k0 /\ Touches(c, a) /\ outcome'[c] = "saved")
        BY <2>1, <2>2, <2>3, <2>6, <2>9
    <2> QED
        BY <2>8, <2>9
<1>8. ASSUME NEW a \in ArtId, NEW p \in Part
      PROVE  Touches(c, a) =>
                /\ e.data.artifacts[a] \in Seq(Part)
                /\ IsFiniteSet(Positions(p, e.data.artifacts[a]))
                /\ IsFiniteSet({c} \X Positions(p, e.data.artifacts[a]))
                /\ Cardinality({c} \X Positions(p, e.data.artifacts[a]))
                      = Cardinality(Positions(p, e.data.artifacts[a]))
    <2>1. Touches(c, a) => e.data.artifacts[a] \in Seq(Part)
        BY <1>1 DEF Touches, Artifacts
    <2> QED
        BY <2>1, PositionsFinite, PairsOf
<1>9. FiniteInv'
    <2> SUFFICES ASSUME NEW k \in RealRow, NEW a \in ArtId, NEW p \in Part
                 PROVE  IsFiniteSet(Carried(k, a, p)')
        BY Zenon DEF FiniteInv, RealRow
    <2>1. IsFiniteSet(Carried(k, a, p))
        BY DEF KeptInv, FiniteInv
    <2> QED
        <3>1. CASE k = k0 /\ Touches(c, a) /\ outcome'[c] = "saved"
            <4>1. Carried(k, a, p)' = Carried(k, a, p) \cup ({c} \X Positions(p, e.data.artifacts[a]))
                BY <1>7, <3>1
            <4>2. IsFiniteSet({c} \X Positions(p, e.data.artifacts[a]))
                BY <1>8, <3>1
            <4>3. IsFiniteSet(Carried(k, a, p) \cup ({c} \X Positions(p, e.data.artifacts[a])))
                BY <2>1, <4>2, FS_Union
            <4> QED
                BY <4>1, <4>3
        <3>2. CASE ~(k = k0 /\ Touches(c, a) /\ outcome'[c] = "saved")
            BY <1>7, <2>1, <3>2
        <3> QED
            BY <3>1, <3>2
<1>10. PartsKept'
    <2> SUFFICES ASSUME NEW k \in RealRow, NEW a \in ArtId, NEW p \in Part, rows'[k] # NoTask,
                        \A d \in OnRow(k) : Touches(d, a) =>
                            event[d].kind = "artifactUpdate" /\ event[d].data.append
                              /\ outcome'[d] # "failed"
                 PROVE  Cardinality(Carried(k, a, p)')
                          = IF rows'[k].artifacts[a] = Absent THEN 0
                            ELSE Cardinality(Positions(p, rows'[k].artifacts[a]))
        BY <1>3 DEF PartsKept, RealRow, Positions, Touches
    <2> DEFINE Before == Cardinality(Carried(k, a, p))
                           = IF rows[k].artifacts[a] = Absent THEN 0
                             ELSE Cardinality(Positions(p, rows[k].artifacts[a]))
               inc == e.data.artifacts[a]
    <2>1. rows[k] # NoTask => Before
        <3>1. \A d \in OnRow(k) : Touches(d, a) =>
                 event[d].kind = "artifactUpdate" /\ event[d].data.append /\ outcome[d] # "failed"
            BY <1>1, <1>5
        <3> QED
            BY <3>1 DEF KeptInv, UpdatesKept, PartsKept
    <2>2. CASE k # k0
        BY <1>2, <1>7, <2>1, <2>2 DEF RealRow
    <2>3. CASE k = k0 /\ ~Touches(c, a) /\ t # NoTask
        <3>1. rows'[k].artifacts[a] = t.artifacts[a]
            <4>1. t.artifacts \in Artifacts
                BY <1>1, <2>3 DEF Task
            <4>2. e.kind # "statusUpdate" => e.data.artifacts[a] = Absent
                BY <2>3 DEF Touches
            <4>3. CASE e.kind = "task"
                <5>1. Apply(t, e, l).artifacts = MergeArtifacts(t.artifacts, e.data.artifacts)
                    BY <2>3, <4>3 DEF Apply, ApplyTaskEvent
                <5> QED
                    BY <1>2, <2>3, <4>2, <4>3, <5>1 DEF MergeArtifacts
            <4>4. CASE e.kind = "statusUpdate"
                <5>1. Apply(t, e, l).artifacts = t.artifacts
                    BY <2>3, <4>4 DEF Apply, ApplyStatusUpdate
                <5> QED
                    BY <1>2, <2>3, <5>1
            <4>5. CASE e.kind \notin {"task", "statusUpdate"}
                <5>0. e.kind # "message"
                    BY <1>1 DEF TaskEventOf
                <5>1. Apply(t, e, l).artifacts = PutArtifacts(t.artifacts, e.data.artifacts, e.data.append)
                    BY <2>3, <4>5, <5>0 DEF Apply, ApplyArtifactUpdate
                <5> QED
                    BY <1>2, <2>3, <4>2, <4>5, <5>1, PutAt
            <4> QED
                BY <4>3, <4>4, <4>5
        <3> QED
            BY <1>7, <2>1, <2>3, <3>1
    <2>4. CASE k = k0 /\ ~Touches(c, a) /\ t = NoTask
        <3>1. rows'[k].artifacts[a] = Absent
            BY <1>1, <1>2, <2>4 DEF Touches, Apply, ApplyTaskEvent
        <3>2. {d \in OnRow(k) : Touches(d, a) /\ outcome[d] = "saved"} = {}
            BY <2>4 DEF OnRow, KeptInv, SavedInv
        <3>3. Carried(k, a, p) = {}
            BY <3>2, Zenon DEF Carried
        <3> QED
            BY <1>7, <2>4, <3>1, <3>3, FS_EmptySet
    <2>5. CASE k = k0 /\ Touches(c, a)
        <3>1. /\ e.kind = "artifactUpdate" /\ e.data.append /\ outcome'[c] = "saved"
              /\ t # NoTask /\ t \in Task
            BY <1>1, <1>4, <2>5
        <3>2. /\ inc # Absent /\ inc \in Seq(Part) /\ t.artifacts[a] \in Seq(Part) \cup {Absent}
            BY <1>8, <2>5, <3>1 DEF Touches, Task, Artifacts
        <3>3. rows'[k].artifacts[a] = IF t.artifacts[a] = Absent THEN inc ELSE t.artifacts[a] \o inc
            <4>1. rows'[k].artifacts = PutArtifacts(t.artifacts, e.data.artifacts, e.data.append)
                <5>1. Apply(t, e, l) = ApplyArtifactUpdate(t, e)
                    BY <3>1 DEF Apply
                <5> QED
                    BY <1>2, <2>5, <5>1 DEF ApplyArtifactUpdate
            <4>2. PutArtifacts(t.artifacts, e.data.artifacts, e.data.append)[a]
                    = IF e.data.artifacts[a] = Absent THEN t.artifacts[a]
                      ELSE IF e.data.append /\ t.artifacts[a] # Absent THEN t.artifacts[a] \o e.data.artifacts[a]
                      ELSE e.data.artifacts[a]
                BY PutAt
            <4> HIDE DEF t
            <4> QED
                BY <3>1, <3>2, <4>1, <4>2, Zenon
        <3>4. rows'[k].artifacts[a] # Absent
            <4>1. \A x \in Seq(Part), y \in Seq(Part) : x \o y \in Seq(Part)
                OBVIOUS
            <4> HIDE DEF inc
            <4> QED
                BY <3>2, <3>3, <4>1, AbsentAssumption
        <3>5. Cardinality(Carried(k, a, p)') = Cardinality(Carried(k, a, p)) + Cardinality(Positions(p, inc))
            <4> DEFINE X == Carried(k, a, p)
                       Y == {c} \X Positions(p, inc)
            <4>1. X \cap Y = {}
                BY <1>7
            <4>2. IsFiniteSet(X) /\ IsFiniteSet(Y) /\ Cardinality(Y) = Cardinality(Positions(p, inc))
                BY <1>8, <2>5 DEF KeptInv, FiniteInv
            <4>3. Carried(k, a, p)' = X \cup Y
                BY <1>7, <2>5, <3>1
            <4>4. Cardinality(X \cup Y) = Cardinality(X) + Cardinality(Y) - Cardinality(X \cap Y)
                BY <4>2, FS_Union
            <4>5. Cardinality(X) \in Nat /\ Cardinality(Y) \in Nat /\ Cardinality(X \cap Y) = 0
                BY <4>1, <4>2, FS_CardinalityType, FS_EmptySet
            <4> HIDE DEF X, Y
            <4> QED
                BY <4>2, <4>3, <4>4, <4>5 DEF X
        <3>6. Before
            BY <2>1, <2>5, <3>1
        <3>7. /\ Cardinality(Positions(p, inc)) \in Nat
              /\ t.artifacts[a] # Absent =>
                    Cardinality(Positions(p, t.artifacts[a] \o inc))
                      = Cardinality(Positions(p, t.artifacts[a])) + Cardinality(Positions(p, inc))
            BY <1>8, <2>5, <3>2, FS_CardinalityType, PositionsJoin
        <3>8. CASE t.artifacts[a] = Absent
            BY <2>5, <3>3, <3>4, <3>5, <3>6, <3>7, <3>8
        <3>9. CASE t.artifacts[a] # Absent
            BY <2>5, <3>3, <3>4, <3>5, <3>6, <3>7, <3>9
        <3> QED
            BY <3>8, <3>9
    <2> QED
        BY <2>2, <2>3, <2>4, <2>5
<1> QED
    BY <1>6, <1>9, <1>10 DEF KeptInv, UpdatesKept

-----------------------------------------------------------------------------
LEMMA InitKept == Init => KeptInv
<1> SUFFICES ASSUME Init PROVE KeptInv
    OBVIOUS
<1>1. /\ \A c \in Call : stage[c] = "idle" /\ outcome[c] = "none"
      /\ \A k \in Row : rows[k] = NoTask
    BY DEF Init, LockInit
<1>2. \A k : OnRow(k) = {}
    BY <1>1 DEF OnRow
<1>3. \A k, a, p : Carried(k, a, p) = {}
    BY <1>2 DEF Carried
<1>4. SavedInv /\ MessagesKept /\ PartsKept
    BY <1>1, <1>2 DEF SavedInv, MessagesKept, PartsKept, RealRow
<1>5. FiniteInv
    BY <1>3, FS_EmptySet DEF FiniteInv
<1> QED
    BY <1>4, <1>5 DEF KeptInv, UpdatesKept

\* A call that ends as it was made, or by failing, before it wrote.
LEMMA QuietCallKeeps ==
    ASSUME RMInv, RMInv', KeptInv, NEW c \in Call,
           Enter(c) \/ Release(c) \/ Evict(c),
           \/ UNCHANGED outcome
           \/ Release(c) /\ \E how \in {"ignored", "failed"} : Ended(c, how),
           UNCHANGED <<rows, event>>
    PROVE  KeptInv'
<1>1. /\ stage[c] # "idle" /\ stage'[c] # "idle"
      /\ \A d \in Call \ {c} : stage'[d] = stage[d]
      /\ stage'[c] \in {"waiting", "running"} => stage[c] = "waiting" /\ UNCHANGED outcome
    BY DEF Enter, Release, Evict, RMInv, LockInv, LockTypeOK
<1>2. /\ \A d \in Call \ {c} : outcome'[d] = outcome[d]
      /\ \/ outcome'[c] = outcome[c]
         \/ outcome[c] = "none" /\ outcome'[c] \in {"ignored", "failed"}
    <2>1. stage[c] = "running" => outcome[c] = "none"
        BY DEF KeptInv, SavedInv
    <2> QED
        BY <2>1 DEF Ended, Release, RMInv, TypeOK
<1>3. SavedInv'
    BY <1>1, <1>2 DEF KeptInv, SavedInv, RowOfCall
<1> QED
    BY <1>1, <1>2, <1>3, QuietKeeps

LEMMA WritingCallKeeps ==
    ASSUME RMInv, KeptInv, NEW c \in Call, Release(c), ~Unknown(c),
           NEW how \in {"saved", "failed"}, Ended(c, how), UNCHANGED event,
           rows' = [rows EXCEPT ![RowOfCall(c)] = Merged(c)]
    PROVE  KeptInv'
<1>1. /\ stage[c] = "running" /\ stage'[c] = "settled"
      /\ \A d \in Call \ {c} : stage'[d] = stage[d]
    BY DEF Release, RMInv, LockInv, LockTypeOK
<1>2. /\ \A d \in Call \ {c} : outcome'[d] = outcome[d]
      /\ outcome'[c] = how
    BY DEF Ended, RMInv, TypeOK
<1>3. /\ rows'[RowOfCall(c)] = Merged(c) /\ Merged(c) # NoTask
      /\ \A k \in Row \ {RowOfCall(c)} : rows'[k] = rows[k]
    <2>1. RowOfCall(c) \in Row /\ loaded[c] \in Task \cup {NoTask}
        BY <1>1, RunningCall
    <2>2. event[c] \in TaskEventOf /\ Latest[ManagerOf(c)] \in Msg \cup {NoMsg}
        BY <1>1, ManagerType, ContextAssumption DEF RMInv, CallsInv
    <2>3. Merged(c) # NoTask
        BY <2>1, <2>2, ApplyIsTask DEF Merged, Unknown
    <2> QED
        BY <2>1, <2>3 DEF RMInv, TypeOK
<1>4. SavedInv'
    <2>1. \A d \in Call : outcome[d] = "saved" => RowOfCall(d) \in Row
        BY RunningCall DEF KeptInv, SavedInv
    <2> QED
        BY <1>1, <1>2, <1>3, <2>1 DEF KeptInv, SavedInv, RowOfCall
<1> QED
    BY <1>1, <1>2, <1>4, WritingKeeps

LEMMA NextKept == RMInv /\ RMInv' /\ KeptInv /\ [Next]_vars => KeptInv'
<1> SUFFICES ASSUME RMInv, RMInv', KeptInv, [Next]_vars PROVE KeptInv'
    OBVIOUS
<1>1. ASSUME NEW r \in RM, NEW e \in Event, ProcessWithoutId(r, e) PROVE KeptInv'
    <2>1. RowOf(r, NoTid) \in Row /\ RowOf(r, NoTid)[3] = NoTid
        BY RowType, AbsentAssumption
    <2>2. \A k \in RealRow : rows'[k] = rows[k]
        BY <1>1, <2>1 DEF ProcessWithoutId, RealRow, RMInv, TypeOK
    <2>3. UNCHANGED <<lockVars, event, outcome>>
        BY <1>1 DEF ProcessWithoutId
    <2>4. SavedInv'
        <3>1. \A c \in Call : outcome[c] = "saved" => RowOfCall(c) \in RealRow
            BY RunningCall DEF KeptInv, SavedInv, RealRow
        <3> QED
            BY <2>2, <2>3, <3>1 DEF KeptInv, SavedInv, RowOfCall, lockVars
    <2> QED
        BY <2>2, <2>3, <2>4, QuietKeeps DEF lockVars
<1>2. ASSUME NEW r \in RM, NEW e \in Event, ProcessMessage(r, e) PROVE KeptInv'
    <2>1. UNCHANGED <<lockVars, rows, event, outcome>>
        BY <1>2 DEF ProcessMessage
    <2>2. SavedInv'
        BY <2>1 DEF KeptInv, SavedInv, RowOfCall, lockVars
    <2> QED
        BY <2>1, <2>2, QuietKeeps DEF lockVars
<1>3. ASSUME NEW r \in RM, NEW e \in Event, NEW n \in 1..MaxEvents[r], ProcessEvent(r, n, e)
      PROVE  KeptInv'
    <2> DEFINE c == <<r, n>>
    <2>1. /\ stage[c] = "idle" /\ c \in Call
          /\ \A d \in Call \ {c} : stage'[d] = stage[d] /\ event'[d] = event[d]
          /\ stage'[c] = "waiting" /\ UNCHANGED <<rows, outcome>>
        BY <1>3, CallAssumption DEF ProcessEvent, Serialize, RMInv, LockInv, LockTypeOK, TypeOK
    <2>2. SavedInv'
        BY <2>1 DEF KeptInv, SavedInv, RowOfCall
    <2> QED
        BY <2>1, <2>2, QuietKeeps
<1>4. ASSUME NEW c \in Call, Load(c) PROVE KeptInv'
    BY <1>4, QuietCallKeeps DEF Load
<1>5. ASSUME NEW c \in Call, LoadFails(c) PROVE KeptInv'
    BY <1>5, QuietCallKeeps DEF LoadFails
<1>6. ASSUME NEW c \in Call, Ignore(c) PROVE KeptInv'
    BY <1>6, QuietCallKeeps DEF Ignore
<1>7. ASSUME NEW c \in Call, Save(c) PROVE KeptInv'
    BY <1>7, WritingCallKeeps DEF Save
<1>8. ASSUME NEW c \in Call, SaveFails(c) PROVE KeptInv'
    <2>1. CASE rows' = [rows EXCEPT ![RowOfCall(c)] = Merged(c)]
        BY <1>8, <2>1, WritingCallKeeps DEF SaveFails
    <2>2. CASE UNCHANGED rows
        BY <1>8, <2>2, QuietCallKeeps DEF SaveFails
    <2> QED
        BY <1>8, <2>1, <2>2 DEF SaveFails
<1>9. ASSUME NEW c \in Call, Clean(c) PROVE KeptInv'
    BY <1>9, QuietCallKeeps DEF Clean, rmVars
<1>10. CASE UNCHANGED vars
    <2>1. UNCHANGED <<rows, event, outcome, stage>>
        BY <1>10 DEF vars, rmVars, lockVars
    <2>2. SavedInv'
        BY <2>1 DEF KeptInv, SavedInv, RowOfCall
    <2> QED
        BY <2>1, <2>2, QuietKeeps
<1> QED
    BY <1>1, <1>2, <1>3, <1>4, <1>5, <1>6, <1>7, <1>8, <1>9, <1>10 DEF Next

(***************************************************************************)
(* And then no sibling's write loses an update, however many managers      *)
(* write one task. A status message that was saved stays in the history,   *)
(* unless a task event came that brings one of its own; and when every     *)
(* event that touches an artifact appends to it and none of their saves    *)
(* failed, it holds each part exactly as often as calls appended it.       *)
(* Nothing is said of an artifact that an event replaced.                  *)
(***************************************************************************)
THEOREM EveryUpdateKept == LockMirrorsStore /\ Spec => []UpdatesKept
<1>1. SUFFICES ASSUME LockMirrorsStore PROVE Spec => []UpdatesKept
    BY <1>1
<1>2. Spec => []RMInv
    BY <1>1, Invariance, PTL
<1>3. Init => KeptInv
    BY InitKept
<1>4. RMInv /\ RMInv' /\ KeptInv /\ [Next]_vars => KeptInv'
    BY NextKept
<1>5. KeptInv => UpdatesKept
    BY DEF KeptInv
<1> QED
    BY <1>2, <1>3, <1>4, <1>5, PTL DEF Spec
=============================================================================
