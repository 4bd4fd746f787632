--------------------------- MODULE MCIngestBuffer ---------------------------
(* Instances of IngestBuffer for TLC.                                      *)
EXTENDS IngestBuffer
=============================================================================
