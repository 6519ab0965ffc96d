---------------------------- MODULE MCResultManager ----------------------------
(***************************************************************************)
(* Two result managers on one task: a follow-up beside a background drain. *)
(***************************************************************************)
EXTENDS ResultManager, TLC

CONSTANTS r1, r2, t1, m1, m2, u1, u2, a1, p1, p2, alice, bob

MCCall == UNION {{r} \X (1..MaxEvents[r]) : r \in RM}
TwoAndOne == (r1 :> 2 @@ r2 :> 1)
TwoEach   == [r \in RM |-> 2]
MCKey  == {<<"", u, t1>> : u \in User}
MCUserOf == [r \in RM |-> alice]
MCTenantOf == [r \in RM |-> ""]

\* the default resolver: the user's name
MCResolver == [u \in User |-> u]

\* an OwnerResolver by organisation, and two colleagues
OrgUserOf == (r1 :> alice @@ r2 :> bob)
OrgResolver == [u \in User |-> "acme"]
OrgOwner == {"acme"}

MCLatest == (r1 :> u1 @@ r2 :> NoMsg)

NoArtifacts == [a \in ArtId |-> Absent]
Data(t, history, artifacts, msg, append) ==
    [tid |-> t, history |-> history, artifacts |-> artifacts, msg |-> msg, append |-> append]

Created      == TaskEvent("WORKING", Data(t1, <<>>, NoArtifacts, NoMsg, FALSE))
Replayed     == TaskEvent("WORKING", Data(t1, <<m2>>, [a \in ArtId |-> <<p2>>], NoMsg, FALSE))
Working      == StatusUpdate("WORKING", Data(t1, <<>>, NoArtifacts, m1, FALSE))
Completed    == StatusUpdate("COMPLETED", Data(t1, <<>>, NoArtifacts, m2, FALSE))
Chunk(parts) == ArtifactUpdate(Data(t1, <<>>, [a \in ArtId |-> parts], NoMsg, TRUE))
Malformed    == TaskEvent("WORKING", Data(NoTid, <<>>, NoArtifacts, NoMsg, FALSE))
MalformedUpd == StatusUpdate("WORKING", Data(NoTid, <<>>, NoArtifacts, NoMsg, FALSE))

Reply        == Message(Data(NoTid, <<>>, NoArtifacts, NoMsg, FALSE))

MCEvent == {Created, Replayed, Working, Chunk(<<p1, p2>>)}
AnyEvent == {Created, Replayed, Working, Chunk(<<p1, p2>>), Malformed, MalformedUpd, Reply}
AddingEvent == {Created, Completed, Chunk(<<p1, p2>>)}
MCPayload == {e.data : e \in MCEvent \cup AnyEvent \cup AddingEvent}
=============================================================================
