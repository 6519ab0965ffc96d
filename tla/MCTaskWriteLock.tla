---------------------------- MODULE MCTaskWriteLock ----------------------------
(* A small instance of TaskWriteLock: calls and keys are model values. No       *)
(* symmetry is declared, since the run checks liveness.                         *)
EXTENDS TaskWriteLock
=============================================================================
