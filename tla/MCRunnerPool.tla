----------------------------- MODULE MCRunnerPool -----------------------------
(***************************************************************************)
(* A small instance of RunnerPool for TLC: three files on two threads, one *)
(* of them hanging, thresholds below and above what one file can reach.    *)
(***************************************************************************)
EXTENDS RunnerPool

CONSTANTS f1, f2, f3

MCFiles == {f1, f2, f3}
MCHanging == {f3}
MCBailLimits == {0, 1, 2}
MCFailureCounts == {0, 1}
MCAllFaults == FaultKinds
=============================================================================
