--------------------------- MODULE MCRequestHandler ---------------------------
(***************************************************************************)
(* Requests on one task: the send that starts it and one other.            *)
(***************************************************************************)
EXTENDS RequestHandler, TLC

CONSTANTS first, other

\* executors' scripts; a task event carries no history, so the row's is kept
Run(events, ends) == [events |-> events, ends |-> ends]
NewTask(s) == TaskEvent(s, Carry(<<>>))
Update(s)  == StatusUpdate(s, Carry(<<>>))
Reply      == Message(Carry(<<>>))

Completes    == Run(<<NewTask("WORKING"), Update("COMPLETED")>>, "return")
AsksInput    == Run(<<NewTask("WORKING"), Update("INPUT_REQUIRED")>>, "return")
AsksAuth     == Run(<<NewTask("WORKING"), Update("AUTH_REQUIRED"), Update("COMPLETED")>>, "return")
Replies      == Run(<<Reply>>, "return")
Crashes      == Run(<<NewTask("WORKING")>>, "throw")
CrashesEarly == Run(<<>>, "throw")
Stops        == Run(<<NewTask("WORKING")>>, "return")
Babbles      == Run(<<NewTask("WORKING"), Update("COMPLETED"), Update("WORKING")>>, "return")
Resumes      == Run(<<Update("WORKING"), Update("COMPLETED")>>, "return")
ResumesFails == Run(<<Update("WORKING")>>, "throw")
SnapshotAsks == Run(<<NewTask("INPUT_REQUIRED")>>, "return")

Scripts(a, b) == [r \in Request |-> IF r = first THEN a ELSE b]

SendScript     == Scripts({Completes, AsksInput, AsksAuth, Replies, Crashes, CrashesEarly, Stops, Babbles},
                          {Completes, Resumes, ResumesFails})
CanceledScript == Scripts({Completes, AsksAuth, Stops, Crashes}, {})
AuthScript     == Scripts({AsksAuth}, {Resumes})
InputScript    == Scripts({AsksInput}, {Resumes})
SnapshotScript == Scripts({SnapshotAsks}, {})

SeqOfRequests == UNION {[1..n -> Request] : n \in 0..3}
MCPayload == {Carry(h) : h \in SeqOfRequests}

\* the first request's modes, the other's
Modes(a, b) == {(first :> m @@ other :> n) : m \in a, n \in b}
Followed    == Modes(SendMethod, SendMethod \cup {"resubscribe"})
Cancelled   == Modes(SendMethod, {"cancel"})
WaitedFor   == Modes({"blocking"}, {"resubscribe"})
WaitedTurns == Modes({"blocking"}, {"blocking"})

InAnyOrder == [r \in Request |-> {}]
InTurn     == [r \in Request |-> IF r = first THEN {} ELSE {first}]
=============================================================================
