-------------------------- MODULE MCIngestPipeline --------------------------
\* Events for the configurations of IngestPipeline.
EXTENDS IngestPipeline, TLC

Ev(t, i, s, d) == [tenant |-> t, id |-> i, stream |-> s, day |-> d]

OneStream == {Ev("t1", 1, "s1", 1), Ev("t1", 2, "s1", 1)}
TwoStreams == OneStream \union {Ev("t1", 3, "s2", 1)}
OneEvent == {Ev("t1", 1, "s1", 1)}
\* Of two tenants; the first has more streams than its limit.
TwoTenants == {Ev("t1", 1, "s1", 1), Ev("t1", 2, "s2", 1), Ev("t1", 3, "s3", 1),
               Ev("t2", 4, "s1", 1)}
\* The older event has the larger id.
TwoDays == {Ev("t1", 1, "s1", 2), Ev("t1", 2, "s1", 1)}

Consumers == Permutations(Worker)
=============================================================================
