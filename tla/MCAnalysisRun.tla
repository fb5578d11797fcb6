---------------------------- MODULE MCAnalysisRun ----------------------------
(***************************************************************************)
(* Instances of AnalysisRun for TLC.                                       *)
(***************************************************************************)
EXTENDS AnalysisRun, TLC

CONSTANTS a1, a2, v0

\* a1 breaks what v0 promises, a2 is fine against v0 and questionable against
\* a1: every decision occurs, and it depends on the baseline.
MCVerdict ==
    [bc \in ({a1, a2, v0} \X {a1, a2, v0}) |->
        IF bc[1] = bc[2] THEN "PASS"
        ELSE IF bc[2] = a1 THEN "BLOCK"
        ELSE IF bc = <<a1, a2>> THEN "WARN"
        ELSE "PASS"]

RunnerSymmetry == Permutations(Runners)

=============================================================================
