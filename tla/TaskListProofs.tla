---------------------------- MODULE TaskListProofs ----------------------------
(***************************************************************************)
(* Proofs about a listing of tasks, page by page: whatever is saved between*)
(* two pages, they are together the client's tasks, in the order of list() *)
(* and each once as it was. For all stores, page sizes and saves.          *)
(***************************************************************************)
EXTENDS TaskList, FiniteSetTheorems, TLAPS

Rows == [id : TaskId, time : Nat, match : BOOLEAN]

-----------------------------------------------------------------------------
(* The order of list() *)

LEMMA OrderIs ==
    /\ \A a \in Rows : a.time \in Nat /\ a.id \in Nat
    /\ \A a, b \in Rows : Before(a, b) => ~Before(b, a)
    /\ \A a, b, c \in Rows : Before(a, b) /\ Before(b, c) => Before(a, c)
    /\ \A a, b \in Rows : a.id # b.id => Before(a, b) \/ Before(b, a)
<1>1. \A a \in Rows : a.time \in Nat /\ a.id \in Nat
    BY ListAssumption DEF Rows
<1> QED
    BY <1>1 DEF Before

\* the place of a task: how many come before it
LEMMA PlacesDiffer ==
    ASSUME NEW T, IsFiniteSet(T), T \subseteq Rows,
           NEW a \in T, NEW b \in T, Before(a, b)
    PROVE  Cardinality({u \in T : Before(u, a)}) < Cardinality({u \in T : Before(u, b)})
<1> DEFINE A == {u \in T : Before(u, a)}
<1> DEFINE B == {u \in T : Before(u, b)}
<1>1. A \cup {a} \subseteq B /\ a \notin A /\ B \subseteq T /\ A \subseteq T
    BY OrderIs
<1> HIDE DEF A, B
<1>2. IsFiniteSet(A) /\ IsFiniteSet(B)
    BY <1>1, FS_Subset
<1>3. Cardinality(A) \in Nat /\ Cardinality(B) \in Nat
    BY <1>2, FS_CardinalityType
<1>4. Cardinality(A \cup {a}) = Cardinality(A) + 1
    BY <1>1, <1>2, FS_AddElement
<1>5. Cardinality(A \cup {a}) <= Cardinality(B)
    BY <1>1, <1>2, FS_Subset
<1>6. Cardinality(A) < Cardinality(B)
    BY <1>3, <1>4, <1>5
<1> QED
    BY <1>6 DEF A, B

Placing(T) ==
    [k \in 1..Cardinality(T) |-> CHOOSE t \in T : Cardinality({u \in T : Before(u, t)}) = k - 1]

\* tasks with different ids have different places, so each place is taken
LEMMA PlacesTaken ==
    ASSUME NEW T, IsFiniteSet(T), T \subseteq Rows, \A a, b \in T : a.id = b.id => a = b
    PROVE  LET n == Cardinality(T) s == Placing(T) IN
           /\ n \in Nat /\ s \in [1..n -> T]
           /\ \A i, j \in 1..n : i < j => Before(s[i], s[j])
           /\ \A t \in T : \E k \in 1..n : s[k] = t
<1> DEFINE n == Cardinality(T)
<1> DEFINE place == [t \in T |-> Cardinality({u \in T : Before(u, t)}) + 1]
<1>1. n \in Nat
    BY FS_CardinalityType
<1>2. ASSUME NEW t \in T PROVE place[t] \in 1..n
  <2> DEFINE A == {u \in T : Before(u, t)}
  <2>1. A \subseteq T /\ t \notin A
      BY OrderIs
  <2> HIDE DEF A
  <2>2. IsFiniteSet(A) /\ Cardinality(A) <= n
      BY <2>1, FS_Subset
  <2>3. Cardinality(A) # n
      BY <2>1, FS_Subset
  <2>4. Cardinality(A) \in Nat
      BY <2>2, FS_CardinalityType
  <2>5. Cardinality(A) + 1 \in 1..n
      BY <1>1, <2>2, <2>3, <2>4
  <2> QED
      BY <2>5 DEF A
<1>3. ASSUME NEW a \in T, NEW b \in T, Before(a, b) PROVE place[a] < place[b]
  <2>1. Cardinality({u \in T : Before(u, a)}) < Cardinality({u \in T : Before(u, b)})
      BY <1>3, PlacesDiffer
  <2>2. ASSUME NEW x \in Nat, NEW y \in Nat, x < y PROVE x + 1 < y + 1
      BY <2>2
  <2>3. /\ Cardinality({u \in T : Before(u, a)}) \in Nat
        /\ Cardinality({u \in T : Before(u, b)}) \in Nat
    <3>1. \A S \in SUBSET T : IsFiniteSet(S)
        BY FS_Subset
    <3>2. IsFiniteSet({u \in T : Before(u, a)}) /\ IsFiniteSet({u \in T : Before(u, b)})
        BY <3>1
    <3> QED
        BY <3>2, FS_CardinalityType
  <2> QED
      BY <2>1, <2>2, <2>3
<1>4. \A a, b \in T : a # b => Before(a, b) \/ Before(b, a)
    BY OrderIs
<1>5. place \in [T -> 1..n]
    BY <1>2
<1> HIDE DEF place
<1>6. place \in Injection(T, 1..n)
  <2>1. ASSUME NEW a \in T, NEW b \in T, a # b PROVE place[a] # place[b]
    <3>1. place[a] \in Nat /\ place[b] \in Nat
        BY <1>1, <1>5
    <3> QED
        BY <1>3, <1>4, <2>1, <3>1
  <2> QED
      BY <1>5, <2>1 DEF Injection, IsInjective
<1>7. place \in Surjection(T, 1..n)
  <2>1. IsFiniteSet(1..n) /\ Cardinality(1..n) = n
      BY <1>1, FS_Interval
  <2> HIDE DEF n
  <2>2. Cardinality(T) = Cardinality(1..n)
      BY <2>1 DEF n
  <2> QED
      BY <1>6, <2>1, <2>2, FS_Injection
<1> DEFINE s == Placing(T)
<1>8. ASSUME NEW k \in 1..n PROVE s[k] \in T /\ place[s[k]] = k
  <2>1. PICK t \in T : place[t] = k
      BY <1>7 DEF Surjection
  <2>2. \A x \in T : Cardinality({u \in T : Before(u, x)}) = k - 1 <=> place[x] = k
    <3>1. ASSUME NEW x \in T PROVE Cardinality({u \in T : Before(u, x)}) = k - 1 <=> place[x] = k
      <4> DEFINE c == Cardinality({u \in T : Before(u, x)})
      <4>1. place[x] = c + 1
          BY DEF place
      <4>2. c \in Nat
        <5>1. \A S \in SUBSET T : IsFiniteSet(S)
            BY FS_Subset
        <5>2. IsFiniteSet({u \in T : Before(u, x)})
            BY <5>1
        <5> QED
            BY <5>2, FS_CardinalityType
      <4> HIDE DEF c
      <4>3. c = k - 1 <=> place[x] = k
          BY <1>1, <4>1, <4>2
      <4> QED
          BY <4>3 DEF c
    <3> QED
        BY <3>1
  <2>3. s[k] = CHOOSE x \in T : Cardinality({u \in T : Before(u, x)}) = k - 1
      BY DEF Placing
  <2>4. s[k] \in T /\ Cardinality({u \in T : Before(u, s[k])}) = k - 1
      BY <2>1, <2>2, <2>3
  <2> QED
      BY <2>2, <2>4
<1>9. s \in [1..n -> T]
    BY <1>8 DEF Placing
<1> HIDE DEF s
<1>10. ASSUME NEW i \in 1..n, NEW j \in 1..n, i < j PROVE Before(s[i], s[j])
  <2>1. s[i] # s[j]
      BY <1>1, <1>8, <1>10
  <2>2. ~Before(s[j], s[i])
    <3>1. Before(s[j], s[i]) => j < i
        BY <1>3, <1>8
    <3> QED
        BY <1>1, <1>10, <3>1
  <2> QED
      BY <1>4, <1>8, <2>1, <2>2
<1>11. ASSUME NEW t \in T PROVE \E k \in 1..n : s[k] = t
  <2>1. place[t] \in 1..n /\ s[place[t]] \in T /\ place[s[place[t]]] = place[t]
      BY <1>5, <1>8
  <2> QED
      BY <1>6, <2>1 DEF Injection, IsInjective
<1> QED
    BY <1>1, <1>9, <1>10, <1>11 DEF s
-----------------------------------------------------------------------------
(* The inductive invariant. While there is a token, it is that of the last  *)
(* task listed; whatever nobody saved is listed, or comes after it; and if  *)
(* nobody saved, as many are listed as come up to it.                       *)

mine == bucket[Mine]
Cursor == listed[Len(listed)]

TypeInv ==
    /\ clock \in Nat
    /\ phase \in {"idle", "listing", "ended", "refused"}
    /\ DOMAIN bucket = Scope
    /\ DOMAIN mine \subseteq TaskId
    /\ \A id \in DOMAIN mine : mine[id] \in Rows /\ mine[id].id = id
    /\ listed \in Seq(Rows)

CursorInv ==
    /\ phase = "idle" => listed = <<>> /\ pageToken = NoToken
    /\ phase = "listing" => listed # <<>> /\ pageToken = <<Cursor.time, Cursor.id>>

Ahead ==
    phase = "listing" =>
        \A id \in DOMAIN mine \ touched :
            Accepted(mine[id]) => (\E i \in DOMAIN listed : listed[i] = mine[id]) \/ Before(Cursor, mine[id])

Counted ==
    phase = "listing" /\ touched = {} => Len(listed) <= Len(Sorted) /\ Sorted[Len(listed)] = Cursor

ListInv == TypeInv /\ CursorInv /\ Ahead /\ Counted /\ ExactPages

LEMMA SortedIs ==
    ASSUME TypeInv
    PROVE  /\ Sorted \in Seq(Rows) /\ Len(Sorted) \in Nat
           /\ \A i, j \in 1..Len(Sorted) : i < j => Before(Sorted[i], Sorted[j])
           /\ \A k \in 1..Len(Sorted) : Sorted[k] \in Matching
           /\ \A t \in Matching : \E k \in 1..Len(Sorted) : Sorted[k] = t
           /\ \A t \in Matching : t \in Rows /\ Accepted(t) /\ t.id \in DOMAIN mine /\ mine[t.id] = t
<1> DEFINE ids == DOMAIN mine
<1> DEFINE rows == {mine[id] : id \in ids}
<1>1. ids \subseteq TaskId /\ IsFiniteSet(ids) /\ \A id \in ids : mine[id] \in Rows /\ mine[id].id = id
    BY FS_Subset, ListAssumption DEF TypeInv
<1>2. Matching \subseteq rows /\ \A t \in Matching : Accepted(t)
    BY DEF Matching, getBucket, mine
<1> HIDE DEF ids
<1>3. IsFiniteSet(Matching)
  <2> DEFINE f == [id \in ids |-> mine[id]]
  <2>1. f \in Surjection(ids, rows)
      BY DEF Surjection
  <2>2. IsFiniteSet(rows)
      BY <1>1, <2>1, FS_Surjection
  <2> QED
      BY <1>2, <2>2, FS_Subset
<1>4. \A t \in Matching : t \in Rows /\ t.id \in ids /\ mine[t.id] = t
    BY <1>1, <1>2
<1>5. \A a, b \in Matching : a.id = b.id => a = b
    BY <1>4
<1>6. Sorted = Placing(Matching)
    BY DEF Sorted, Placing
<1> DEFINE n == Cardinality(Matching)
<1>7. /\ n \in Nat /\ Sorted \in [1..n -> Matching]
      /\ \A i, j \in 1..n : i < j => Before(Sorted[i], Sorted[j])
      /\ \A t \in Matching : \E k \in 1..n : Sorted[k] = t
    BY <1>3, <1>4, <1>5, <1>6, PlacesTaken
<1> HIDE DEF n
<1>8. Sorted \in Seq(Rows) /\ Len(Sorted) = n
  <2>1. Sorted \in [1..n -> Rows]
      BY <1>4, <1>7
  <2> QED
      BY <1>7, <2>1
<1> QED
    BY <1>2, <1>4, <1>7, <1>8 DEF ids

\* the order of the list, read backwards
LEMMA Earlier ==
    ASSUME TypeInv, NEW i \in 1..Len(Sorted), NEW j \in 1..Len(Sorted), Before(Sorted[i], Sorted[j])
    PROVE  i < j
<1>1. /\ Len(Sorted) \in Nat /\ Sorted[i] \in Rows /\ Sorted[j] \in Rows
      /\ j < i => Before(Sorted[j], Sorted[i])
    BY SortedIs
<1>2. i # j /\ ~(j < i)
    BY <1>1, OrderIs
<1> QED
    BY <1>1, <1>2

\* Before looks at time and id only
LEMMA SamePlace ==
    ASSUME NEW a, NEW b, a.time = b.time, a.id = b.id, NEW t
    PROVE  (Before(a, t) <=> Before(b, t)) /\ (Before(t, a) <=> Before(t, b))
BY DEF Before
-----------------------------------------------------------------------------
(* A page: m tasks of the sorted S, from the one after from on. *)

Page(S, from, m) ==
    /\ S = Sorted /\ from \in 0..Len(S) /\ m \in 0..(Len(S) - from)
    /\ listed' \in Seq(Rows) /\ Len(listed') = Len(listed) + m
    /\ \A i \in 1..Len(listed) : listed'[i] = listed[i]
    /\ \A k \in 1..m : listed'[Len(listed) + k] = S[from + k]
    /\ \/ /\ phase' = "listing" /\ m >= 1
          /\ pageToken' = <<S[from + m].time, S[from + m].id>>
       \/ phase' = "ended" /\ from + m = Len(S)
    /\ \/ phase = "idle" /\ from = 0
       \/ /\ phase = "listing" /\ from >= 1
          /\ S[from].time = Cursor.time /\ S[from].id = Cursor.id
       \/ phase = "listing" /\ CursorGone(pageToken) /\ from = Len(S)

\* where a page begins
LEMMA RemainingIs ==
    ASSUME TypeInv, CursorInv, phase \in {"idle", "listing"}
    PROVE  \E from \in 0..Len(Sorted) :
               /\ Remaining(pageToken) = SubSeq(Sorted, from + 1, Len(Sorted))
               /\ \/ phase = "idle" /\ from = 0
                  \/ /\ phase = "listing" /\ from >= 1
                     /\ Sorted[from].time = Cursor.time /\ Sorted[from].id = Cursor.id
                  \/ phase = "listing" /\ CursorGone(pageToken) /\ from = Len(Sorted)
<1>1. Sorted \in Seq(Rows) /\ Len(Sorted) \in Nat /\ DOMAIN Sorted = 1..Len(Sorted)
    BY SortedIs
<1>2. CASE phase = "idle"
  <2>1. Remaining(pageToken) = Sorted
      BY <1>2 DEF Remaining, CursorInv
  <2>2. Sorted = SubSeq(Sorted, 0 + 1, Len(Sorted)) /\ 0 \in 0..Len(Sorted)
      BY <1>1
  <2> QED
      BY <1>2, <2>1, <2>2
<1>3. CASE phase = "listing"
  <2>1. /\ pageToken = <<Cursor.time, Cursor.id>>
        /\ pageToken[1] = Cursor.time /\ pageToken[2] = Cursor.id /\ pageToken # NoToken
      BY <1>3 DEF CursorInv, NoToken
  <2> DEFINE at == {i \in DOMAIN Sorted : Sorted[i].time = pageToken[1] /\ Sorted[i].id = pageToken[2]}
  <2>2. Remaining(pageToken) =
            IF at = {} THEN <<>> ELSE SubSeq(Sorted, (CHOOSE i \in at : TRUE) + 1, Len(Sorted))
      BY <2>1 DEF Remaining, Following
  <2>3. CASE at = {}
    <3>1. SubSeq(Sorted, Len(Sorted) + 1, Len(Sorted)) = <<>>
        BY <1>1
    <3>2. CursorGone(pageToken)
        BY <2>1, <2>3 DEF CursorGone
    <3> QED
        BY <1>1, <1>3, <2>2, <2>3, <3>1, <3>2
  <2>4. CASE at # {}
    <3> DEFINE from == CHOOSE i \in at : TRUE
    <3>1. from \in at
        BY <2>4
    <3>2. Remaining(pageToken) = SubSeq(Sorted, from + 1, Len(Sorted))
        BY <2>2, <2>4
    <3> HIDE DEF from
    <3>3. from \in 1..Len(Sorted) /\ Sorted[from].time = Cursor.time /\ Sorted[from].id = Cursor.id
        BY <1>1, <2>1, <3>1
    <3>4. from \in 0..Len(Sorted) /\ from >= 1
        BY <1>1, <3>3
    <3> QED
        BY <1>3, <3>2, <3>3, <3>4
  <2> QED
      BY <2>3, <2>4
<1> QED
    BY <1>2, <1>3

LEMMA PageIs ==
    ASSUME TypeInv, CursorInv, NEW size, ListPage(size)
    PROVE  /\ \E S, from, m : Page(S, from, m)
           /\ total' = Len(Sorted) /\ lostCursor' = CursorGone(pageToken)
           /\ UNCHANGED <<bucket, clock, filtered, after, touched>>
<1>1. /\ phase \in {"idle", "listing"} /\ size \in Nat \ {0}
      /\ total' = Len(Sorted) /\ lostCursor' = CursorGone(pageToken)
      /\ UNCHANGED <<bucket, clock, filtered, after, touched>>
    BY DEF ListPage, DEFAULT_MAX
<1>2. PICK S : S = Sorted
    OBVIOUS
<1>3. S \in Seq(Rows) /\ Len(S) \in Nat
    BY <1>2, SortedIs
<1>4. PICK from \in 0..Len(S) :
          /\ Remaining(pageToken) = SubSeq(S, from + 1, Len(S))
          /\ \/ phase = "idle" /\ from = 0
             \/ /\ phase = "listing" /\ from >= 1
                /\ S[from].time = Cursor.time /\ S[from].id = Cursor.id
             \/ phase = "listing" /\ CursorGone(pageToken) /\ from = Len(S)
    BY <1>1, <1>2, RemainingIs
<1>5. PICK tasks : tasks = Remaining(pageToken)
    OBVIOUS
<1>6. /\ tasks \in Seq(Rows) /\ Len(tasks) = Len(S) - from
      /\ \A k \in 1..Len(tasks) : tasks[k] = S[from + k]
    BY <1>3, <1>4, <1>5
<1>7. PICK m : m = IF size < Len(tasks) THEN size ELSE Len(tasks)
    OBVIOUS
<1>8. m \in 0..(Len(S) - from) /\ m \in 0..Len(tasks) /\ (Len(tasks) > size <=> from + m < Len(S))
      /\ (Len(tasks) > size => m = size)
    BY <1>1, <1>3, <1>4, <1>6, <1>7
<1>9. PICK page : page = SubSeq(tasks, 1, m)
    OBVIOUS
<1>10. page \in Seq(Rows) /\ Len(page) = m /\ \A k \in 1..m : page[k] = S[from + k]
    BY <1>6, <1>8, <1>9
<1>11. listed' = listed \o page
    BY <1>5, <1>7, <1>9 DEF ListPage
<1>12. /\ listed' \in Seq(Rows) /\ Len(listed') = Len(listed) + m
       /\ \A i \in 1..Len(listed) : listed'[i] = listed[i]
       /\ \A k \in 1..m : listed'[Len(listed) + k] = S[from + k]
  <2>1. ASSUME NEW a \in Seq(Rows), NEW b \in Seq(Rows)
        PROVE  /\ a \o b \in Seq(Rows) /\ Len(a \o b) = Len(a) + Len(b)
               /\ \A i \in 1..Len(a) : (a \o b)[i] = a[i]
               /\ \A k \in 1..Len(b) : (a \o b)[Len(a) + k] = b[k]
      OBVIOUS
  <2>2. listed \in Seq(Rows)
      BY DEF TypeInv
  <2> QED
      BY <1>10, <1>11, <2>1, <2>2
<1>13. \/ /\ phase' = "listing" /\ m >= 1
          /\ pageToken' = <<S[from + m].time, S[from + m].id>>
       \/ phase' = "ended" /\ from + m = Len(S)
  <2>1. pageToken' = NextToken(tasks, size) /\ phase' = IF NextToken(tasks, size) = NoToken THEN "ended" ELSE "listing"
      BY <1>5 DEF ListPage
  <2>2. CASE Len(tasks) > size
    <3>1. tasks[size] = S[from + m] /\ m >= 1
        BY <1>1, <1>6, <1>8, <2>2
    <3>2. NextToken(tasks, size) = <<S[from + m].time, S[from + m].id>>
        BY <2>2, <3>1 DEF NextToken
    <3>3. NextToken(tasks, size) # NoToken
        BY <3>2 DEF NoToken
    <3> QED
        BY <2>1, <3>1, <3>2, <3>3
  <2>3. CASE ~(Len(tasks) > size)
    <3>1. NextToken(tasks, size) = NoToken
        BY <2>3 DEF NextToken
    <3>2. from + m = Len(S)
        BY <1>3, <1>4, <1>8, <2>3
    <3> QED
        BY <2>1, <3>1, <3>2
  <2> QED
      BY <2>2, <2>3
<1>14. Page(S, from, m)
    BY <1>2, <1>4, <1>8, <1>12, <1>13 DEF Page
<1> QED
    BY <1>1, <1>14
\* what is listed after a page, and where it comes from
LEMMA PageTypes ==
    ASSUME TypeInv, NEW S, NEW from, NEW m, Page(S, from, m)
    PROVE  /\ S \in Seq(Rows) /\ Len(S) \in Nat /\ Len(listed) \in Nat /\ from \in Nat /\ m \in Nat
           /\ from <= Len(S) /\ from + m <= Len(S)
           /\ \A i, j \in 1..Len(S) : i < j => Before(S[i], S[j])
           /\ \A k \in 1..m : from + k \in 1..Len(S)
           /\ \A i \in 1..Len(listed') : i \in 1..Len(listed) \/ \E k \in 1..m : i = Len(listed) + k
<1>1. S \in Seq(Rows) /\ Len(S) \in Nat /\ \A i, j \in 1..Len(S) : i < j => Before(S[i], S[j])
    BY SortedIs DEF Page
<1>2. from \in 0..Len(S) /\ m \in 0..(Len(S) - from) /\ Len(listed') = Len(listed) + m
    BY DEF Page
<1>3. Len(listed) \in Nat
    BY DEF TypeInv
<1>4. from \in Nat /\ m \in Nat /\ from <= Len(S) /\ from + m <= Len(S)
    BY <1>1, <1>2
<1>5. \A k \in 1..m : from + k \in 1..Len(S)
    BY <1>1, <1>4
<1>6. ASSUME NEW i \in 1..Len(listed'), i \notin 1..Len(listed)
      PROVE  \E k \in 1..m : i = Len(listed) + k
  <2>1. i - Len(listed) \in 1..m /\ i = Len(listed) + (i - Len(listed))
      BY <1>2, <1>3, <1>4, <1>6
  <2> QED
      BY <2>1
<1> QED
    BY <1>1, <1>3, <1>4, <1>5, <1>6

LEMMA PageDescends ==
    ASSUME TypeInv, CursorInv, PagesDescend, NEW S, NEW from, NEW m, Page(S, from, m)
    PROVE  PagesDescend'
<1>1. SUFFICES ASSUME NEW i \in DOMAIN listed', NEW j \in DOMAIN listed', i < j
               PROVE  Before(listed'[i], listed'[j])
    BY DEF PagesDescend
<1> DEFINE n == Len(listed)
<1>2. /\ listed' \in Seq(Rows) /\ Len(listed') = n + m /\ n \in Nat /\ m \in Nat /\ from \in Nat
      /\ listed \in Seq(Rows) /\ S \in Seq(Rows) /\ Len(S) \in Nat /\ from <= Len(S)
    BY PageTypes DEF Page, TypeInv
<1>3. i \in 1..Len(listed') /\ j \in 1..Len(listed')
    BY <1>1, <1>2
<1>4. CASE j \in 1..n
  <2>1. i \in 1..n
      BY <1>1, <1>2, <1>3, <1>4
  <2>2. listed'[i] = listed[i] /\ listed'[j] = listed[j]
      BY <1>4, <2>1 DEF Page
  <2> QED
      BY <1>1, <1>2, <1>4, <2>1, <2>2 DEF PagesDescend
<1>5. ASSUME NEW k \in 1..m, j = n + k PROVE Before(listed'[i], listed'[j])
  <2>1. listed'[j] = S[from + k] /\ from + k \in 1..Len(S)
      BY <1>5, PageTypes DEF Page
  <2>2. CASE i \in 1..n
    <3>1. listed # <<>>
        BY <1>2, <2>2
    <3>2. phase = "listing" /\ from >= 1 /\ S[from].time = Cursor.time /\ S[from].id = Cursor.id
      <4>1. phase # "idle"
          BY <3>1 DEF CursorInv
      <4>2. from # Len(S)
          BY <1>2, <1>5, <2>1
      <4> QED
          BY <4>1, <4>2 DEF Page
    <3>3. Before(S[from], S[from + k])
      <4>1. from \in 1..Len(S) /\ from < from + k
          BY <1>2, <3>2
      <4> QED
          BY <2>1, <4>1, PageTypes
    <3>4. Before(Cursor, S[from + k])
        BY <3>2, <3>3, SamePlace
    <3>5. listed[i] = Cursor \/ Before(listed[i], Cursor)
      <4>1. n \in 1..n /\ (i = n \/ i < n)
          BY <1>2, <2>2
      <4> QED
          BY <1>2, <2>2, <4>1 DEF PagesDescend, Cursor
    <3>6. listed[i] \in Rows /\ Cursor \in Rows /\ S[from + k] \in Rows
        BY <1>2, <2>1, <2>2 DEF Cursor
    <3>7. listed'[i] = listed[i]
        BY <2>2 DEF Page
    <3> QED
        BY <2>1, <3>4, <3>5, <3>6, <3>7, OrderIs
  <2>3. ASSUME NEW l \in 1..m, i = n + l PROVE Before(listed'[i], listed'[j])
    <3>1. listed'[i] = S[from + l] /\ from + l \in 1..Len(S)
        BY <2>3, PageTypes DEF Page
    <3>2. from + l < from + k
        BY <1>1, <1>2, <1>5, <2>3
    <3> QED
        BY <2>1, <3>1, <3>2, PageTypes
  <2> QED
      BY <1>3, <2>2, <2>3, PageTypes
<1> QED
    BY <1>3, <1>4, <1>5, PageTypes

\* a task that nobody saved is listed by the end of the page, or comes after it
LEMMA PageReaches ==
    ASSUME TypeInv, Ahead, NEW S, NEW from, NEW m, Page(S, from, m), ~CursorGone(pageToken),
           NEW id \in DOMAIN mine \ touched, Accepted(mine[id])
    PROVE  \/ \E i \in DOMAIN listed' : listed'[i] = mine[id]
           \/ \E j \in 1..Len(S) : j > from + m /\ S[j] = mine[id]
<1>1. PICK j \in 1..Len(S) : S[j] = mine[id]
  <2>1. mine[id] \in Matching
      BY DEF Matching, getBucket, mine
  <2> QED
      BY <2>1, SortedIs DEF Page
<1>2. /\ listed' \in Seq(Rows) /\ Len(listed') = Len(listed) + m /\ Len(listed) \in Nat /\ m \in Nat
      /\ listed \in Seq(Rows) /\ S \in Seq(Rows) /\ Len(S) \in Nat /\ from \in Nat /\ from <= Len(S)
    BY PageTypes DEF Page, TypeInv
<1>3. CASE \E i \in DOMAIN listed : listed[i] = mine[id]
  <2>1. PICK i \in DOMAIN listed : listed[i] = mine[id]
      BY <1>3
  <2>2. i \in 1..Len(listed) /\ i \in DOMAIN listed'
      BY <1>2
  <2> QED
      BY <2>1, <2>2 DEF Page
<1>4. CASE j > from
  <2>1. CASE j > from + m
      BY <1>1, <2>1
  <2>2. CASE j <= from + m
    <3>1. PICK k \in 1..m : j = from + k
      <4>1. j - from \in 1..m /\ j = from + (j - from)
          BY <1>1, <1>2, <1>4, <2>2
      <4> QED
          BY <4>1
    <3>2. listed'[Len(listed) + k] = mine[id]
        BY <1>1, <3>1 DEF Page
    <3>3. Len(listed) + k \in DOMAIN listed'
        BY <1>2
    <3> QED
        BY <3>2, <3>3
  <2> QED
      BY <1>1, <1>2, <2>1, <2>2
<1>5. CASE ~(\E i \in DOMAIN listed : listed[i] = mine[id]) /\ ~(j > from)
  <2>1. from # 0
      BY <1>1, <1>2, <1>5
  <2>2. phase = "listing" /\ from >= 1 /\ S[from].time = Cursor.time /\ S[from].id = Cursor.id
      BY <2>1 DEF Page
  <2>3. Before(Cursor, mine[id])
      BY <1>5, <2>2 DEF Ahead
  <2>4. Before(S[from], S[j])
      BY <1>1, <2>2, <2>3, SamePlace
  <2>5. from < j
    <3>1. from \in 1..Len(S) /\ S = Sorted
        BY <1>2, <2>2 DEF Page
    <3> QED
        BY <1>1, <2>4, <3>1, Earlier
  <2> QED
      BY <1>2, <1>5, <2>5
<1> QED
    BY <1>3, <1>4, <1>5
\* if nobody saved, a page begins where the one before ended
LEMMA PageFollows ==
    ASSUME TypeInv, CursorInv, Counted, touched = {}, NEW S, NEW from, NEW m, Page(S, from, m)
    PROVE  from = Len(listed)
<1>1. /\ S \in Seq(Rows) /\ Len(S) \in Nat /\ from \in Nat /\ from <= Len(S) /\ S = Sorted
      /\ listed \in Seq(Rows) /\ Len(listed) \in Nat
    BY PageTypes DEF Page, TypeInv
<1>2. CASE phase = "idle" /\ from = 0
    BY <1>2 DEF CursorInv
<1>3. ASSUME phase = "listing" PROVE Len(listed) \in 1..Len(S) /\ S[Len(listed)] = Cursor
  <2>1. listed # <<>>
      BY <1>3 DEF CursorInv
  <2> QED
      BY <1>1, <1>3, <2>1 DEF Counted
<1>4. CASE phase = "listing" /\ from >= 1 /\ S[from].time = Cursor.time /\ S[from].id = Cursor.id
  <2> DEFINE n == Len(listed)
  <2>1. n \in 1..Len(S) /\ S[n] = Cursor /\ from \in 1..Len(S)
      BY <1>1, <1>3, <1>4
  <2> HIDE DEF n
  <2>2. \A t : Before(S[n], t) <=> Before(S[from], t)
      BY <1>4, <2>1, SamePlace
  <2>3. S[n] \in Rows /\ S[from] \in Rows
      BY <1>1, <2>1
  <2>4. ~(n < from)
      BY <2>1, <2>2, <2>3, OrderIs, PageTypes
  <2>5. ~(from < n)
    <3>1. \A t : Before(t, S[n]) <=> Before(t, S[from])
        BY <1>4, <2>1, SamePlace
    <3> QED
        BY <2>1, <2>3, <3>1, OrderIs, PageTypes
  <2>6. n = from
      BY <1>1, <2>1, <2>4, <2>5
  <2> QED
      BY <2>6 DEF n
<1>5. CASE phase = "listing" /\ CursorGone(pageToken)
  <2>1. pageToken = <<S[Len(listed)].time, S[Len(listed)].id>> /\ Len(listed) \in DOMAIN Sorted
      BY <1>1, <1>3, <1>5 DEF CursorInv
  <2> QED
      BY <1>1, <1>5, <2>1 DEF CursorGone
<1> QED
    BY <1>2, <1>4, <1>5 DEF Page

LEMMA ListPageKeeps ==
    ASSUME ListInv, NEW size, ListPage(size)
    PROVE  ListInv'
<1>1. /\ TypeInv /\ CursorInv /\ Ahead /\ Counted
      /\ PagesDescend /\ NothingSkipped /\ OnlyMine /\ TotalAgrees
    BY DEF ListInv, ExactPages
<1>2. /\ total' = Len(Sorted) /\ lostCursor' = CursorGone(pageToken)
      /\ UNCHANGED <<bucket, clock, filtered, after, touched>>
    BY <1>1, PageIs
<1>3. PICK S, from, m : Page(S, from, m)
    BY <1>1, PageIs
<1>4. /\ S \in Seq(Rows) /\ Len(S) \in Nat /\ S = Sorted /\ from \in Nat /\ m \in Nat
      /\ from <= Len(S) /\ from + m <= Len(S)
      /\ listed \in Seq(Rows) /\ Len(listed) \in Nat
      /\ listed' \in Seq(Rows) /\ Len(listed') = Len(listed) + m
    BY <1>1, <1>3, PageTypes DEF Page, TypeInv
<1>5. mine' = mine /\ Sorted' = Sorted /\ \A t : Accepted(t)' = Accepted(t)
    BY <1>2 DEF mine, Sorted, Matching, getBucket, Accepted
<1>6. phase' \in {"listing", "ended"}
    BY <1>3 DEF Page
<1>7. TypeInv'
    BY <1>1, <1>2, <1>4, <1>5, <1>6 DEF TypeInv
<1>8. ASSUME phase' = "listing"
      PROVE  /\ Len(listed') \in 1..Len(listed') /\ Cursor' = S[from + m] /\ m >= 1
             /\ from + m \in 1..Len(S) /\ ~CursorGone(pageToken)
  <2>1. m >= 1 /\ m \in 1..m
      BY <1>3, <1>4, <1>8 DEF Page
  <2>2. listed'[Len(listed) + m] = S[from + m]
      BY <1>3, <2>1 DEF Page
  <2>3. ~CursorGone(pageToken)
    <3>1. phase = "idle" => pageToken = NoToken
        BY <1>1 DEF CursorInv
    <3>2. from # Len(S)
        BY <1>4, <2>1
    <3>3. \/ phase = "idle"
          \/ phase = "listing" /\ from >= 1 /\ S[from].time = Cursor.time /\ S[from].id = Cursor.id
        BY <1>3, <3>2 DEF Page
    <3>4. ASSUME phase = "listing", from >= 1, S[from].time = Cursor.time, S[from].id = Cursor.id
          PROVE  ~CursorGone(pageToken)
      <4>1. pageToken = <<S[from].time, S[from].id>> /\ from \in DOMAIN Sorted
          BY <1>1, <1>4, <3>4 DEF CursorInv
      <4> QED
          BY <1>4, <4>1 DEF CursorGone
    <3> QED
        BY <3>1, <3>3, <3>4 DEF CursorGone
  <2>4. Len(listed') \in 1..Len(listed') /\ from + m \in 1..Len(S)
      BY <1>4, <2>1
  <2> QED
      BY <1>4, <2>1, <2>2, <2>3, <2>4 DEF Cursor
<1>9. CursorInv'
  <2>1. phase' = "listing" => listed' # <<>>
      BY <1>4, <1>8
  <2>2. phase' = "listing" => pageToken' = <<Cursor.time, Cursor.id>>'
      BY <1>3, <1>8 DEF Page
  <2> QED
      BY <1>6, <2>1, <2>2 DEF CursorInv
<1>10. Ahead'
  <2>1. SUFFICES ASSUME phase' = "listing", NEW id \in DOMAIN mine \ touched, Accepted(mine[id])
                 PROVE  (\E i \in DOMAIN listed' : listed'[i] = mine[id]) \/ Before(Cursor', mine[id])
    <3>1. touched' = touched /\ \A a, b : Before(a, b)' <=> Before(a, b)
        BY <1>2 DEF Before
    <3> QED
        BY <1>5, <2>1, <3>1 DEF Ahead, Before
  <2>2. ASSUME NEW j \in 1..Len(S), j > from + m, S[j] = mine[id] PROVE Before(Cursor', mine[id])
      BY <1>1, <1>3, <1>8, <2>1, <2>2, PageTypes
  <2> QED
      BY <1>1, <1>3, <1>8, <2>1, <2>2, PageReaches
<1>11. Counted'
  <2>1. SUFFICES ASSUME phase' = "listing", touched = {}
                 PROVE  Len(listed') <= Len(S) /\ S[Len(listed')] = Cursor'
      BY <1>2, <1>4, <1>5 DEF Counted
  <2>2. Len(listed') = from + m
      BY <1>1, <1>3, <1>4, <2>1, PageFollows
  <2> QED
      BY <1>4, <1>8, <2>1, <2>2
<1>12. PagesDescend'
    BY <1>1, <1>3, PageDescends
<1>13. NothingSkipped'
  <2>1. SUFFICES ASSUME phase' = "ended", ~CursorGone(pageToken),
                        NEW id \in DOMAIN mine \ touched, Accepted(mine[id])
                 PROVE  \E i \in DOMAIN listed' : listed'[i] = mine[id]
      BY <1>2, <1>5 DEF NothingSkipped, mine
  <2>2. from + m = Len(S)
      BY <1>3, <2>1 DEF Page
  <2>3. ~(\E j \in 1..Len(S) : j > from + m /\ S[j] = mine[id])
      BY <1>4, <2>2
  <2> QED
      BY <1>1, <1>3, <2>1, <2>3, PageReaches
<1>14. OnlyMine'
  <2>1. SUFFICES ASSUME NEW i \in DOMAIN listed'
                 PROVE  /\ Accepted(listed'[i]) /\ listed'[i].id \in DOMAIN mine
                        /\ listed'[i].id \notin touched => listed'[i] = mine[listed'[i].id]
      BY <1>2, <1>5 DEF OnlyMine, mine
  <2>2. i \in 1..Len(listed')
      BY <1>4
  <2>3. CASE i \in 1..Len(listed)
    <3>1. listed'[i] = listed[i] /\ i \in DOMAIN listed
        BY <1>3, <1>4, <2>3 DEF Page
    <3> QED
        BY <1>1, <3>1 DEF OnlyMine, mine
  <2>4. ASSUME NEW k \in 1..m, i = Len(listed) + k
        PROVE  /\ Accepted(listed'[i]) /\ listed'[i].id \in DOMAIN mine
               /\ listed'[i] = mine[listed'[i].id]
    <3>1. listed'[i] = Sorted[from + k] /\ from + k \in 1..Len(Sorted)
        BY <1>1, <1>3, <1>4, <2>4, PageTypes DEF Page
    <3> QED
        BY <1>1, <3>1, SortedIs
  <2> QED
      BY <1>1, <1>3, <2>2, <2>3, <2>4, PageTypes
<1>15. TotalAgrees'
  <2>1. SUFFICES ASSUME phase' = "ended", touched = {} PROVE Len(listed') = Len(S)
      BY <1>2, <1>4 DEF TotalAgrees
  <2>2. from = Len(listed)
      BY <1>1, <1>3, <2>1, PageFollows
  <2>3. from + m = Len(S)
      BY <1>3, <2>1 DEF Page
  <2> QED
      BY <1>4, <2>2, <2>3
<1> QED
    BY <1>7, <1>9, <1>10, <1>11, <1>12, <1>13, <1>14, <1>15 DEF ListInv, ExactPages
-----------------------------------------------------------------------------
(* A save keeps the rows that it does not touch. *)

LEMMA SaveKeeps ==
    ASSUME ListInv, NEW scope \in Scope, NEW id \in TaskId, Save(scope, id)
    PROVE  ListInv'
<1>1. /\ TypeInv /\ CursorInv /\ Ahead /\ Counted
      /\ PagesDescend /\ NothingSkipped /\ OnlyMine /\ TotalAgrees
    BY DEF ListInv, ExactPages
<1>2. /\ phase = "listing" /\ clock' = clock + 1
      /\ touched' = IF scope = Mine THEN touched \cup {id} ELSE touched
      /\ UNCHANGED <<phase, filtered, after, pageToken, listed, total, lostCursor>>
    BY DEF Save
<1>3. PICK match \in BOOLEAN,
           time \in {clock + 1} \cup (IF id \in DOMAIN bucket[scope] THEN {bucket[scope][id].time} ELSE {0}) :
          save(scope, Row(id, time, match))
  <2>1. (IF filtered THEN BOOLEAN ELSE {TRUE}) \subseteq BOOLEAN
      OBVIOUS
  <2> QED
      BY <2>1 DEF Save
<1> DEFINE task == Row(id, time, match)
<1>4. task.id = id
    BY DEF Row
<1>5. /\ DOMAIN bucket' = Scope
      /\ scope # Mine => mine' = mine
      /\ scope = Mine => mine' = [x \in DOMAIN mine \cup {id} |-> IF x = id THEN task ELSE mine[x]]
  <2>1. DOMAIN bucket = Scope /\ Mine \in Scope
      BY <1>1, ListAssumption DEF TypeInv
  <2> HIDE DEF task
  <2>2. bucket' = [bucket EXCEPT ![scope] =
                      [x \in DOMAIN bucket[scope] \cup {id} |-> IF x = id THEN task ELSE bucket[scope][x]]]
      BY <1>3, <1>4 DEF save, task
  <2> QED
      BY <2>1, <2>2 DEF mine
<1>6. scope = Mine => time \in Nat /\ task \in Rows
  <2>1. ASSUME scope = Mine PROVE time \in Nat
    <3>1. clock + 1 \in Nat /\ 0 \in Nat
        BY <1>1 DEF TypeInv
    <3>2. id \in DOMAIN bucket[scope] => bucket[scope][id].time \in Nat
        BY <1>1, <2>1 DEF TypeInv, mine, Rows
    <3> QED
        BY <3>1, <3>2
  <2> QED
      BY <2>1 DEF Row, Rows
<1> HIDE DEF task
<1>7. /\ DOMAIN mine \subseteq DOMAIN mine' /\ DOMAIN mine' \subseteq TaskId
      /\ \A x \in DOMAIN mine' : mine'[x] \in Rows /\ mine'[x].id = x
      /\ \A x \in DOMAIN mine' \ touched' : x \in DOMAIN mine \ touched /\ mine'[x] = mine[x]
  <2>1. DOMAIN mine \subseteq TaskId /\ \A x \in DOMAIN mine : mine[x] \in Rows /\ mine[x].id = x
      BY <1>1 DEF TypeInv
  <2>2. CASE scope # Mine
      BY <1>2, <1>5, <2>1, <2>2
  <2>3. CASE scope = Mine
      BY <1>2, <1>4, <1>5, <1>6, <2>1, <2>3
  <2> QED
      BY <2>2, <2>3
<1>8. TypeInv'
  <2>1. clock' \in Nat
      BY <1>1, <1>2 DEF TypeInv
  <2> QED
      BY <1>1, <1>2, <1>5, <1>7, <2>1 DEF TypeInv
<1>9. CursorInv' /\ PagesDescend' /\ NothingSkipped' /\ TotalAgrees'
    BY <1>1, <1>2 DEF CursorInv, PagesDescend, Before, Cursor, NothingSkipped, TotalAgrees
<1>10. \A t : Accepted(t)' = Accepted(t)
    BY <1>2 DEF Accepted
<1>11. Ahead'
  <2>1. ASSUME NEW x \in DOMAIN mine' \ touched', Accepted(mine'[x])
        PROVE  (\E i \in DOMAIN listed : listed[i] = mine'[x]) \/ Before(Cursor, mine'[x])
      BY <1>1, <1>2, <1>7, <2>1 DEF Ahead
  <2>2. Cursor' = Cursor
      BY <1>2 DEF Cursor
  <2> QED
      BY <1>2, <1>10, <2>1, <2>2 DEF Ahead, Before, Accepted
<1>12. Counted'
  <2>1. CASE scope = Mine
      BY <1>2, <2>1 DEF Counted
  <2>2. CASE scope # Mine
    <3>1. Matching' = Matching
        BY <1>2, <1>5, <2>2 DEF Matching, getBucket, mine, Accepted
    <3>2. Sorted' = Sorted
        BY <3>1 DEF Sorted, Before
    <3> QED
        BY <1>1, <1>2, <2>2, <3>2 DEF Counted, Cursor
  <2> QED
      BY <2>1, <2>2
<1>13. OnlyMine'
  <2>1. ASSUME NEW i \in DOMAIN listed
        PROVE  /\ Accepted(listed[i]) /\ listed[i].id \in DOMAIN mine'
               /\ listed[i].id \notin touched' => listed[i] = mine'[listed[i].id]
      BY <1>1, <1>7 DEF OnlyMine, mine
  <2> QED
      BY <1>2, <2>1 DEF OnlyMine, mine, Accepted
<1> QED
    BY <1>8, <1>9, <1>11, <1>12, <1>13 DEF ListInv, ExactPages

LEMMA NothingKeeps ==
    ASSUME ListInv, phase' \in {phase, "refused"},
           UNCHANGED <<bucket, clock, filtered, after, pageToken, listed, total, touched, lostCursor>>
    PROVE  ListInv'
<1>1. /\ TypeInv /\ CursorInv /\ Ahead /\ Counted
      /\ PagesDescend /\ NothingSkipped /\ OnlyMine /\ TotalAgrees
    BY DEF ListInv, ExactPages
<1>2. mine' = mine /\ Cursor' = Cursor /\ Sorted' = Sorted
    BY DEF mine, Cursor, Sorted, Matching, getBucket, Accepted, Before
<1>3. TypeInv' /\ CursorInv' /\ Ahead' /\ Counted'
    BY <1>1, <1>2 DEF TypeInv, CursorInv, Ahead, Counted, Before, Accepted
<1>4. PagesDescend' /\ NothingSkipped' /\ OnlyMine' /\ TotalAgrees'
    BY <1>1 DEF PagesDescend, NothingSkipped, OnlyMine, TotalAgrees, Before, Accepted
<1> QED
    BY <1>3, <1>4 DEF ListInv, ExactPages

LEMMA ListInit == Init => ListInv
<1>1. SUFFICES ASSUME Init PROVE ListInv
    OBVIOUS
<1>2. PICK ids \in SUBSET TaskId :
          \E time \in [ids -> 0..Start], match \in [ids -> IF filtered THEN BOOLEAN ELSE {TRUE}] :
              bucket = [s \in Scope |->
                  IF s = Mine THEN [id \in ids |-> Row(id, time[id], match[id])]
                  ELSE [id \in TaskId |-> Row(id, Start, TRUE)]]
    BY <1>1 DEF Init
<1>3. PICK time \in [ids -> 0..Start], match \in [ids -> IF filtered THEN BOOLEAN ELSE {TRUE}] :
          bucket = [s \in Scope |->
              IF s = Mine THEN [id \in ids |-> Row(id, time[id], match[id])]
              ELSE [id \in TaskId |-> Row(id, Start, TRUE)]]
    BY <1>2
<1>4. DOMAIN bucket = Scope /\ mine = [id \in ids |-> Row(id, time[id], match[id])]
    BY <1>3, ListAssumption DEF mine
<1>5. ASSUME NEW id \in ids PROVE Row(id, time[id], match[id]) \in Rows /\ Row(id, time[id], match[id]).id = id
  <2>1. (IF filtered THEN BOOLEAN ELSE {TRUE}) \subseteq BOOLEAN
      OBVIOUS
  <2>2. time[id] \in 0..Start /\ match[id] \in (IF filtered THEN BOOLEAN ELSE {TRUE}) /\ id \in TaskId
      OBVIOUS
  <2>3. time[id] \in Nat
      BY <2>2, ListAssumption
  <2>4. match[id] \in BOOLEAN
      BY <2>1, <2>2
  <2> QED
      BY <2>2, <2>3, <2>4 DEF Row, Rows
<1>6. /\ clock = Start /\ phase = "idle" /\ pageToken = NoToken /\ listed = <<>>
      /\ total = 0 /\ touched = {} /\ lostCursor = FALSE
    BY <1>1 DEF Init
<1>7. TypeInv
    BY <1>4, <1>5, <1>6, ListAssumption DEF TypeInv
<1>8. CursorInv /\ Ahead /\ Counted
    BY <1>6 DEF CursorInv, Ahead, Counted
<1>9. PagesDescend /\ NothingSkipped /\ OnlyMine /\ TotalAgrees
    BY <1>6 DEF PagesDescend, NothingSkipped, OnlyMine, TotalAgrees
<1> QED
    BY <1>7, <1>8, <1>9 DEF ListInv, ExactPages

(* ExactPages: the pages together are the client's tasks, in the order of   *)
(* list(), each once as it was, none left out that nobody saved meanwhile   *)
(* unless the task of a cursor was saved, and none of another scope; and if *)
(* nobody saved there are as many as totalSize says. For any store, filter, *)
(* page sizes and saves.                                                    *)
THEOREM PagesAreExact == Spec => []ExactPages
<1>1. Init => ListInv
    BY ListInit
<1>2. ListInv /\ [Next]_vars => ListInv'
  <2>1. SUFFICES ASSUME ListInv, [Next]_vars PROVE ListInv'
      OBVIOUS
  <2>2. ASSUME NEW size \in PageSize, RefusePage(size) PROVE ListInv'
      BY <2>1, <2>2, NothingKeeps DEF RefusePage
  <2>3. CASE UNCHANGED vars
      BY <2>1, <2>3, NothingKeeps DEF vars
  <2> QED
      BY <2>1, <2>2, <2>3, SaveKeeps, ListPageKeeps DEF Next
<1>3. ListInv => ExactPages
    BY DEF ListInv
<1> QED
    BY <1>1, <1>2, <1>3, PTL DEF Spec
=============================================================================
