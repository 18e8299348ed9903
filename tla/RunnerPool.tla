------------------------------ MODULE RunnerPool ------------------------------
(***************************************************************************)
(* One invocation of rjest_runner::run (crates/rjest-runner/src/lib.rs):   *)
(* the selected test files go through a Rayon pool of Workers threads.     *)
(* Each thread takes a file, announces it to the observer (the reporters), *)
(* executes it in a Node worker, persists its snapshot file, reports the   *)
(* result and then, under the BailState mutex, admits it to the aggregate  *)
(* or drops it. Two flags stop the run: the caller's CancellationToken and *)
(* the bail flag that the admitted result reaching the threshold sets.     *)
(* Both are read without a lock at the places where the code calls         *)
(* cancellation.requested().                                               *)
(*                                                                         *)
(* The Node worker is one step here, chosen among its outcomes; module     *)
(* WorkerHost opens it up.                                                 *)
(***************************************************************************)
EXTENDS Integers, FiniteSets

CONSTANTS
  Files,          \* the selected test files (their snapshot files differ)
  Workers,        \* RunnerOptions::max_workers; 0 is refused before the pool starts
  BailLimits,     \* the values of RunnerOptions::bail to consider
  FailureCounts,  \* failed test cases a worker may report for one file
  Hanging,        \* files whose worker never finishes by itself
  Faults          \* calls that may return an error: a subset of FaultKinds

FaultKinds == {"observer", "snapshot", "worker", "coverage"}

ASSUME PoolAssumption ==
  /\ IsFiniteSet(Files)
  /\ Workers \in Nat \ {0}
  /\ BailLimits \subseteq Nat
  /\ FailureCounts \subseteq Nat
  /\ 0 \in FailureCounts
  /\ Faults \subseteq FaultKinds

VARIABLES
  options,        \* bail and whether the caller passed a cancellation token
  pc,             \* where each file is
  result,         \* the TestFileResult a file's worker produced
  failedTests,    \* BailState::failed_tests
  bailCancelled,  \* BailState::triggered and the AtomicBool stored with it
  cancelled,      \* the caller's CancellationToken
  written,        \* files whose snapshot file this run has written
  reported,       \* files whose result the observer was given
  returned        \* what run_internal returned, "running" until then

vars == <<options, pc, result, failedTests, bailCancelled, cancelled, written,
          reported, returned>>

-----------------------------------------------------------------------------
\* A thread is busy with a file in these places of the mapped closure.
Busy == {"announcing", "preparing", "executing", "persisting", "reporting",
         "admitting"}

\* The closure returned: Ok(Some), Ok(None) at three places, or Err.
Settled == {"kept", "skipped", "cancelled", "discarded", "failed"}

At(places) == {f \in Files : pc[f] \in places}

NoResult == [failed |-> 0, dirty |-> FALSE, timedOut |-> FALSE]

Results == [failed : FailureCounts, dirty : BOOLEAN, timedOut : BOOLEAN]

Requested == cancelled \/ bailCancelled

\* Without a threshold and a token, run_internal takes the branch that has
\* neither the flags nor the BailState mutex.
Plain == options.bail = 0 /\ ~options.token

\* collect::<Result<..>> keeps the first error and hands out no more files.
Aborted == At({"failed"}) # {}

Goto(f, place) == pc' = [pc EXCEPT ![f] = place]

Fails(f, kind) == kind \in Faults /\ Goto(f, "failed")

TypeOK ==
  /\ options \in [bail : BailLimits, token : BOOLEAN]
  /\ pc \in [Files -> {"queued"} \cup Busy \cup Settled]
  /\ result \in [Files -> Results]
  /\ failedTests \in Nat
  /\ bailCancelled \in BOOLEAN
  /\ cancelled \in BOOLEAN
  /\ written \subseteq Files
  /\ reported \subseteq Files
  /\ returned \in {"running", "ok", "error"}

Init ==
  /\ options \in [bail : BailLimits, token : BOOLEAN]
  /\ pc = [f \in Files |-> "queued"]
  /\ result = [f \in Files |-> NoResult]
  /\ failedTests = 0
  /\ bailCancelled = FALSE
  /\ cancelled = FALSE
  /\ written = {}
  /\ reported = {}
  /\ returned = "running"
-----------------------------------------------------------------------------
\* Plausible mistakes, each shown by TLC to break the property named with it.

\* Take without looking at the flags (OvershootBounded).
Take_IgnoringFlags(f) ==
  /\ returned = "running" /\ pc[f] = "queued" /\ ~Aborted
  /\ Cardinality(At(Busy)) < Workers
  /\ Goto(f, "announcing")
  /\ UNCHANGED <<options, result, failedTests, bailCancelled, cancelled,
                 written, reported, returned>>

\* A timed-out file's partial snapshots persisted (SnapshotsFollowResults).
TimeOut_Persisted(f) ==
  /\ pc[f] = "executing"
  /\ result' = [result EXCEPT ![f] = [failed |-> 0, dirty |-> TRUE, timedOut |-> TRUE]]
  /\ Goto(f, "persisting")
  /\ UNCHANGED <<options, failedTests, bailCancelled, cancelled, written,
                 reported, returned>>

\* The deadline looked at only after a flag is up (Termination).
TimeOut_AfterStopOnly(f) ==
  /\ pc[f] = "executing" /\ Requested
  /\ result' = [result EXCEPT ![f] = [failed |-> 0, dirty |-> FALSE, timedOut |-> TRUE]]
  /\ Goto(f, "reporting")
  /\ UNCHANGED <<options, failedTests, bailCancelled, cancelled, written,
                 reported, returned>>

\* The flags not read again under the mutex (BoundaryIsTight, ImplementsBailRun).
Admit_WithoutRecheck(f) ==
  /\ pc[f] = "admitting"
  /\ Goto(f, "kept")
  /\ failedTests' = failedTests + result[f].failed
  /\ bailCancelled' = (options.bail # 0 /\ failedTests' >= options.bail)
  /\ UNCHANGED <<options, result, cancelled, written, reported, returned>>

\* The remaining threshold passed on as a count that goes down (TypeOK).
Admit_CountingDown(f) ==
  /\ pc[f] = "admitting"
  /\ ~Requested
  /\ Goto(f, "kept")
  /\ failedTests' = failedTests - result[f].failed
  /\ bailCancelled' = (options.bail # 0 /\ failedTests' + options.bail <= 0)
  /\ UNCHANGED <<options, result, cancelled, written, reported, returned>>

-----------------------------------------------------------------------------
\* A free thread takes the next file: run_files_with_cancellation looks at the
\* flags before it does anything for the file.
Take(f) ==
  /\ returned = "running"
  /\ pc[f] = "queued"
  /\ ~Aborted
  /\ Cardinality(At(Busy)) < Workers
  /\ Goto(f, IF Requested THEN "skipped" ELSE "announcing")
  /\ UNCHANGED <<options, result, failedTests, bailCancelled, cancelled,
                 written, reported, returned>>

\* notify_file_start
Announce(f) ==
  /\ pc[f] = "announcing"
  /\ \/ Goto(f, "preparing")
     \/ Fails(f, "observer")
  /\ UNCHANGED <<options, result, failedTests, bailCancelled, cancelled,
                 written, reported, returned>>

\* The beginning of run_file: the flags again, then rjest_snapshot::load.
Prepare(f) ==
  /\ pc[f] = "preparing"
  /\ \/ Requested /\ Goto(f, "cancelled")
     \/ ~Requested /\ Goto(f, "executing")
     \/ ~Requested /\ Fails(f, "snapshot")
  /\ UNCHANGED <<options, result, failedTests, bailCancelled, cancelled,
                 written, reported, returned>>

\* The worker ran to the end of the file and its result decodes.
Complete(f) ==
  /\ pc[f] = "executing"
  /\ f \notin Hanging
  /\ \E n \in FailureCounts, d \in BOOLEAN :
       result' = [result EXCEPT ![f] = [failed |-> n, dirty |-> d, timedOut |-> FALSE]]
  /\ Goto(f, "persisting")
  /\ UNCHANGED <<options, failedTests, bailCancelled, cancelled, written,
                 reported, returned>>

\* The file exceeded its wall-clock limit: timed_out_result has an error, no
\* tests and a clean snapshot, and run_file returns it without persisting.
TimeOut(f) ==
  /\ pc[f] = "executing"
  /\ result' = [result EXCEPT ![f] = [failed |-> 0, dirty |-> FALSE, timedOut |-> TRUE]]
  /\ Goto(f, "reporting")
  /\ UNCHANGED <<options, failedTests, bailCancelled, cancelled, written,
                 reported, returned>>

\* The worker was terminated because of a flag. The branch without flags calls
\* this an UnexpectedCancellation.
Interrupt(f) ==
  /\ pc[f] = "executing"
  /\ Requested
  /\ Goto(f, IF Plain THEN "failed" ELSE "cancelled")
  /\ UNCHANGED <<options, result, failedTests, bailCancelled, cancelled,
                 written, reported, returned>>

\* Spawn, pipe, protocol or live-event error.
WorkerFault(f) ==
  /\ pc[f] = "executing"
  /\ Fails(f, "worker")
  /\ UNCHANGED <<options, result, failedTests, bailCancelled, cancelled,
                 written, reported, returned>>

\* rjest_snapshot::persist, still inside run_file: no flag is consulted.
Persist(f) ==
  /\ pc[f] = "persisting"
  /\ \/ /\ written' = IF result[f].dirty THEN written \cup {f} ELSE written
        /\ Goto(f, "reporting")
     \/ result[f].dirty /\ Fails(f, "snapshot") /\ UNCHANGED written
  /\ UNCHANGED <<options, result, failedTests, bailCancelled, cancelled,
                 reported, returned>>

\* notify_file_result
Report(f) ==
  /\ pc[f] = "reporting"
  /\ \/ /\ reported' = reported \cup {f}
        /\ Goto(f, IF Plain THEN "kept" ELSE "admitting")
     \/ Fails(f, "observer") /\ UNCHANGED reported
  /\ UNCHANGED <<options, result, failedTests, bailCancelled, cancelled,
                 written, returned>>

\* The critical section of the BailState mutex: drop the result if the run was
\* stopped meanwhile, otherwise count it, and stop the run at the threshold.
Admit(f) ==
  /\ pc[f] = "admitting"
  /\ IF Requested
     THEN /\ Goto(f, "discarded")
          /\ UNCHANGED <<failedTests, bailCancelled>>
     ELSE /\ Goto(f, "kept")
          /\ failedTests' = failedTests + result[f].failed
          /\ bailCancelled' = (options.bail # 0 /\ failedTests' >= options.bail)
  /\ UNCHANGED <<options, result, cancelled, written, reported, returned>>

\* CancellationToken::cancel, called by another thread at any time.
Cancel ==
  /\ options.token
  /\ ~cancelled
  /\ returned = "running"
  /\ cancelled' = TRUE
  /\ UNCHANGED <<options, pc, result, failedTests, bailCancelled, written,
                 reported, returned>>

\* pool.install returns: every file handed out has settled, and no other will
\* be. Merging the coverage maps of the retained results may still fail.
Return ==
  /\ returned = "running"
  /\ At(Busy) = {}
  /\ Aborted \/ At({"queued"}) = {}
  /\ \/ ~Aborted /\ returned' = "ok"
     \/ (Aborted \/ "coverage" \in Faults) /\ returned' = "error"
  /\ UNCHANGED <<options, pc, result, failedTests, bailCancelled, cancelled,
                 written, reported>>

\* What the thread that holds f does next.
Step(f) ==
  \/ Take(f) \/ Announce(f) \/ Prepare(f)
  \/ Complete(f) \/ TimeOut(f) \/ Interrupt(f) \/ WorkerFault(f)
  \/ Persist(f) \/ Report(f) \/ Admit(f)

\* run_internal has returned: this invocation is over.
Over == returned # "running" /\ UNCHANGED vars

Next == (\E f \in Files : Step(f)) \/ Cancel \/ Return \/ Over

\* What a thread gets done although its worker hangs and nothing fails: each
\* worker is bounded by file_timeout_ms.
Advance(f) ==
  \/ Take(f) \/ Announce(f) \/ Prepare(f)
  \/ TimeOut(f) \/ Interrupt(f)
  \/ Persist(f) \/ Report(f) \/ Admit(f)

\* Pool threads are operating-system threads, so one that can advance does.
\* Nobody owes a cancellation, a fault or the end of a worker.
Fairness == (\A f \in Files : WF_vars(Advance(f))) /\ WF_vars(Return)

Spec == Init /\ [][Next]_vars /\ Fairness

-----------------------------------------------------------------------------
\* The bail flag is up exactly when the count has reached the threshold, and
\* then one retained result made the difference: without it the count was
\* below the threshold. The result that reaches the threshold is retained and
\* no later one is.
BoundaryIsTight ==
  /\ bailCancelled <=> (options.bail # 0 /\ failedTests >= options.bail)
  /\ bailCancelled =>
       \E f \in At({"kept"}) : failedTests - result[f].failed < options.bail

\* Work thrown away by a stop is bounded by the pool: the files announced to
\* the reporters whose result the aggregate drops, and those still on their way
\* once the run is stopped, are at most one per thread; a bail stop spares the
\* thread whose result reached the threshold. No queued file is ever started
\* for nothing, in whatever order threads read the flags.
OvershootBounded ==
  Cardinality(At({"cancelled", "discarded"}) \cup (IF Requested THEN At(Busy) ELSE {}))
    <= IF cancelled THEN Workers ELSE Workers - 1

\* The snapshot files on disk and the results agree, up to dropped results: a
\* retained result with snapshot changes was persisted before it was retained,
\* only a decoded result is persisted, and a file that exceeded its time limit
\* leaves its snapshot file alone.
SnapshotsFollowResults ==
  /\ \A f \in At({"kept"}) : result[f].dirty => f \in written
  /\ \A f \in written : result[f].dirty /\ ~result[f].timedOut

\* Whoever reads the aggregate and whoever listens to the reporter agree, up to
\* one thread's worth of dropped results: a retained result was reported, and
\* an unsettled or dropped one was reported only in a stopped or unfinished run.
ReporterSeesRetained ==
  /\ At({"kept"}) \subseteq reported
  /\ returned = "ok" /\ ~Requested => reported = Files

\* run returns, although workers may hang, calls may fail and the caller may
\* cancel at any time.
Termination == <>(returned # "running")

\* The pool implements the promise of BailRun. The plain branch keeps no count,
\* which BailRun sees as results without failures.
Promise == INSTANCE BailRun WITH
  limit <- options.bail,
  kept <- At({"kept"}),
  failed <- failedTests,
  stopped <- Requested,
  outcome <- returned

ImplementsBailRun == Promise!Spec
=============================================================================
