---------------------------- MODULE MCExperimentRun ----------------------------
(* TLC instance of ExperimentRun: two cases, of the first of which the      *)
(* first job is the baseline.                                               *)
EXTENDS ExperimentRun

MCCaseOf == [j \in 1..Jobs |-> IF j < 3 THEN 1 ELSE 2]
MCCase == {1, 2}
MCBaseline == {1}
=============================================================================
