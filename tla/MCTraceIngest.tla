--------------------------- MODULE MCTraceIngest ---------------------------
(* Instances of TraceIngest for TLC.                                       *)
EXTENDS TraceIngest, TLC

S(id, parent, service, peer, bucket) ==
  [id |-> id, parent |-> parent, service |-> service, peer |-> peer, bucket |-> bucket]

\* One trace in two messages: the root is sent again with the spans of another service.
Messages == {"m1", "m2"}
TraceOf == [m \in Messages |-> "t1"]
SpansOf == [m1 |-> <<S("s1", "none", "web", "pay", "10"), S("s2", "s1", "api", "none", "5")>>,
            m2 |-> <<S("s1", "none", "web", "none", "10"), S("s3", "s2", "db", "api", "5")>>]
OneDay == [m \in Messages |-> "d1"]
Consumers == Permutations(Consumer)
=============================================================================
