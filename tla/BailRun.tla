------------------------------- MODULE BailRun -------------------------------
(***************************************************************************)
(* What one invocation of the runner promises its caller, without threads, *)
(* workers, reporters or snapshot files: results are retained one at a     *)
(* time, the one that brings the failed tests to the bail limit is the     *)
(* last, a cancelled run retains nothing more, and a run that ends without *)
(* an error and was never stopped has retained a result for every file.    *)
(* RunnerPool implements this specification.                               *)
(***************************************************************************)
EXTENDS Naturals

CONSTANTS
  Files,          \* the selected test files
  FailureCounts   \* how many failed tests one result may hold

VARIABLES
  limit,          \* the bail threshold, 0 when bail is off
  kept,           \* files whose result the aggregate retains
  failed,         \* failed tests counted so far
  stopped,        \* the threshold is reached, or the caller cancelled
  outcome         \* "running", then "ok" or "error"

vars == <<limit, kept, failed, stopped, outcome>>

Init ==
  /\ limit \in Nat
  /\ kept = {}
  /\ failed = 0
  /\ stopped = FALSE
  /\ outcome = "running"

\* A result is retained; reaching the limit stops the run.
Keep(f, n) ==
  /\ outcome = "running"
  /\ ~stopped
  /\ f \notin kept
  /\ kept' = kept \cup {f}
  /\ failed' = failed + n
  /\ stopped' = (limit # 0 /\ failed + n >= limit)
  /\ UNCHANGED <<limit, outcome>>

\* The caller cancels. The run may still have to notice.
Cancel ==
  /\ stopped' = TRUE
  /\ UNCHANGED <<limit, kept, failed, outcome>>

Succeed ==
  /\ outcome = "running"
  /\ stopped \/ kept = Files
  /\ outcome' = "ok"
  /\ UNCHANGED <<limit, kept, failed, stopped>>

GiveUp ==
  /\ outcome = "running"
  /\ outcome' = "error"
  /\ UNCHANGED <<limit, kept, failed, stopped>>

Next ==
  \/ \E f \in Files, n \in FailureCounts : Keep(f, n)
  \/ Cancel
  \/ Succeed
  \/ GiveUp

Spec == Init /\ [][Next]_vars
=============================================================================
