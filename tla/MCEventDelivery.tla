--------------------------- MODULE MCEventDelivery ----------------------------
(* Small instances of EventDelivery. *)
EXTENDS EventDelivery, TLC

CONSTANT d1

MCPayload == {d1}
MCPublished == {StatusUpdate("WORKING", d1), TaskEvent("COMPLETED", d1),
                StatusUpdate("INPUT_REQUIRED", d1)}

Symmetric == Permutations(Consumer) \cup Permutations(Execution) \cup Permutations(Bus)
=============================================================================
