--------------------------- MODULE MCDeletionJobs ---------------------------
(* Instances of DeletionJobs for TLC.                                      *)
EXTENDS DeletionJobs

NoRows == [t \in DataTarget |-> {}]
MetricRows == [NoRows EXCEPT !["metrics"] = {1, 3}]
TwoLogs == [NoRows EXCEPT !["logs"] = {1, 3}]
LateLog == [NoRows EXCEPT !["logs"] = {2}]
\* A page and a half of metrics, and one log row.
SharedRows == [NoRows EXCEPT !["metrics"] = {1, 2, 3}, !["logs"] = {2}]
=============================================================================
