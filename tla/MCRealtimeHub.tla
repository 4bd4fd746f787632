---------------------------- MODULE MCRealtimeHub ----------------------------
(* Instances of RealtimeHub for TLC.                                       *)
EXTENDS RealtimeHub

C1 == "c1"
C2 == "c2"
L1 == "l1"
L2 == "l2"
L3 == "l3"

TwoClients == {C1, C2}
TwoLines == {L1, L2}
ThreeLines == {L1, L2, L3}

\* The first client filters the first line out.
Filtered == (Client \X Line) \ {<<C1, L1>>}
Everything == Client \X Line
=============================================================================
