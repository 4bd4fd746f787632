-------------------------- MODULE MCAlertEvaluator --------------------------
(* Instances of AlertEvaluator for TLC.                                    *)
EXTENDS AlertEvaluator, TLC

A1 == "a1"
OneAlert == {A1}

\* The alert fires after a period.
ForPeriod == [a \in OneAlert |-> 2]

Windows == {<<2, 4>>}

Runs == Permutations(Evaluator)
=============================================================================
