-------------------------- MODULE MCReportWorkflow --------------------------
(* The calls, reports and jobs are interchangeable.                        *)
EXTENDS ReportWorkflow, TLC

Symmetry == Permutations(Calls) \cup Permutations(Reports) \cup Permutations(Jobs)
=============================================================================
