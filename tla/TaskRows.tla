------------------------------- MODULE TaskRows -------------------------------
(***************************************************************************)
(* What the result managers promise of the task store together: each row   *)
(* only ever changes by one event folded into the task it holds, as if     *)
(* every event were processed in one step.                                 *)
(***************************************************************************)
EXTENDS TaskMerge

CONSTANTS Row, Event

VARIABLE rows

Init == rows = [r \in Row |-> NoTask]

Process(r, e, latest) == rows' = [rows EXCEPT ![r] = Apply(rows[r], e, latest)]

Next == \E r \in Row, e \in Event, m \in Msg \cup {NoMsg} : Process(r, e, m)

Spec == Init /\ [][Next]_rows
=============================================================================
