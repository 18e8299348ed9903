--------------------------- MODULE RunnerPoolProofs ---------------------------
(***************************************************************************)
(* Proofs about RunnerPool for every set of files, every number of threads *)
(* and every threshold. The invariants are proved in the order in which    *)
(* they build on one another.                                              *)
(***************************************************************************)
EXTENDS RunnerPool, FiniteSetTheorems, TLAPS

\* Every variable keeps its type: in particular the failure count stays a
\* natural number and a file is always at one of the places of the closure.
THEOREM TypeCorrect == Spec => []TypeOK
<1>1. Init => TypeOK
  <2> SUFFICES ASSUME Init PROVE TypeOK
    OBVIOUS
  <2>1. NoResult \in Results
    BY PoolAssumption DEF NoResult, Results
  <2>2. pc \in [Files -> {"queued"} \cup Busy \cup Settled]
    BY DEF Init
  <2>3. result \in [Files -> Results]
    BY <2>1 DEF Init
  <2>4. failedTests \in Nat /\ written \subseteq Files /\ reported \subseteq Files
    BY DEF Init
  <2> QED
    BY <2>2, <2>3, <2>4, Zenon DEF Init, TypeOK
<1>2. TypeOK /\ [Next]_vars => TypeOK'
  <2> SUFFICES ASSUME TypeOK, [Next]_vars PROVE TypeOK'
    OBVIOUS
  <2> USE PoolAssumption DEF TypeOK, Goto, Fails, Busy, Settled
  <2>1. ASSUME NEW f \in Files, Take(f) PROVE TypeOK'
    BY <2>1 DEF Take
  <2>2. ASSUME NEW f \in Files, Announce(f) PROVE TypeOK'
    BY <2>2 DEF Announce
  <2>3. ASSUME NEW f \in Files, Prepare(f) PROVE TypeOK'
    BY <2>3 DEF Prepare
  <2>4. ASSUME NEW f \in Files, Complete(f) PROVE TypeOK'
    BY <2>4 DEF Complete, Results
  <2>5. ASSUME NEW f \in Files, TimeOut(f) PROVE TypeOK'
    BY <2>5 DEF TimeOut, Results
  <2>6. ASSUME NEW f \in Files, Interrupt(f) PROVE TypeOK'
    BY <2>6 DEF Interrupt
  <2>7. ASSUME NEW f \in Files, WorkerFault(f) PROVE TypeOK'
    BY <2>7 DEF WorkerFault
  <2>8. ASSUME NEW f \in Files, Persist(f) PROVE TypeOK'
    <3>1. written' \subseteq Files
      BY <2>8 DEF Persist
    <3>2. pc' \in [Files -> {"queued"} \cup Busy \cup Settled]
      BY <2>8 DEF Persist
    <3> QED
      BY <2>8, <3>1, <3>2 DEF Persist
  <2>9. ASSUME NEW f \in Files, Report(f) PROVE TypeOK'
    BY <2>9 DEF Report
  <2>10. ASSUME NEW f \in Files, Admit(f) PROVE TypeOK'
    <3>1. result[f].failed \in Nat
      BY DEF Results
    <3>2. failedTests' \in Nat
      BY <2>10, <3>1 DEF Admit
    <3>3. bailCancelled' \in BOOLEAN
      BY <2>10 DEF Admit
    <3>4. pc' \in [Files -> {"queued"} \cup Busy \cup Settled]
      BY <2>10 DEF Admit
    <3> QED
      BY <2>10, <3>2, <3>3, <3>4 DEF Admit
  <2>11. CASE Cancel
    BY <2>11 DEF Cancel
  <2>12. CASE Return
    BY <2>12 DEF Return
  <2>13. CASE UNCHANGED vars
    BY <2>13 DEF vars
  <2> QED
    BY <2>1, <2>2, <2>3, <2>4, <2>5, <2>6, <2>7, <2>8, <2>9, <2>10, <2>11,
       <2>12, <2>13 DEF Next, Step, Over
<1> QED
  BY <1>1, <1>2, PTL DEF Spec

-----------------------------------------------------------------------------
\* A file the closure has returned for is never touched again.
LEMMA SettledStays ==
  ASSUME TypeOK, [Next]_vars, NEW f \in Files, pc[f] \in Settled
  PROVE  pc'[f] = pc[f] /\ result'[f] = result[f]
<1> USE DEF TypeOK, Goto, Fails, Settled
<1>1. ASSUME NEW g \in Files, Take(g) PROVE pc'[f] = pc[f] /\ result'[f] = result[f]
  BY <1>1 DEF Take
<1>2. ASSUME NEW g \in Files, Announce(g) PROVE pc'[f] = pc[f] /\ result'[f] = result[f]
  BY <1>2 DEF Announce
<1>3. ASSUME NEW g \in Files, Prepare(g) PROVE pc'[f] = pc[f] /\ result'[f] = result[f]
  BY <1>3 DEF Prepare
<1>4. ASSUME NEW g \in Files, Complete(g) PROVE pc'[f] = pc[f] /\ result'[f] = result[f]
  BY <1>4 DEF Complete
<1>5. ASSUME NEW g \in Files, TimeOut(g) PROVE pc'[f] = pc[f] /\ result'[f] = result[f]
  BY <1>5 DEF TimeOut
<1>6. ASSUME NEW g \in Files, Interrupt(g) PROVE pc'[f] = pc[f] /\ result'[f] = result[f]
  BY <1>6 DEF Interrupt
<1>7. ASSUME NEW g \in Files, WorkerFault(g) PROVE pc'[f] = pc[f] /\ result'[f] = result[f]
  BY <1>7 DEF WorkerFault
<1>8. ASSUME NEW g \in Files, Persist(g) PROVE pc'[f] = pc[f] /\ result'[f] = result[f]
  BY <1>8 DEF Persist
<1>9. ASSUME NEW g \in Files, Report(g) PROVE pc'[f] = pc[f] /\ result'[f] = result[f]
  BY <1>9 DEF Report
<1>10. ASSUME NEW g \in Files, Admit(g) PROVE pc'[f] = pc[f] /\ result'[f] = result[f]
  BY <1>10 DEF Admit
<1>11. CASE Cancel \/ Return \/ UNCHANGED vars
  BY <1>11 DEF Cancel, Return, vars
<1> QED
  BY <1>1, <1>2, <1>3, <1>4, <1>5, <1>6, <1>7, <1>8, <1>9, <1>10, <1>11
     DEF Next, Step, Over

\* Only the critical section moves the count and the bail flag, and only while
\* neither flag is up.
LEMMA CountMoves ==
  ASSUME [Next]_vars
  PROVE  /\ options' = options
         /\ \/ UNCHANGED <<failedTests, bailCancelled>>
            \/ \E f \in Files : Admit(f) /\ ~Requested
<1>1. ASSUME NEW g \in Files, Take(g)
     PROVE UNCHANGED <<options, failedTests, bailCancelled>>
  BY <1>1 DEF Take
<1>2. ASSUME NEW g \in Files, Announce(g)
     PROVE UNCHANGED <<options, failedTests, bailCancelled>>
  BY <1>2 DEF Announce
<1>3. ASSUME NEW g \in Files, Prepare(g)
     PROVE UNCHANGED <<options, failedTests, bailCancelled>>
  BY <1>3 DEF Prepare
<1>4. ASSUME NEW g \in Files, Complete(g)
     PROVE UNCHANGED <<options, failedTests, bailCancelled>>
  BY <1>4 DEF Complete
<1>5. ASSUME NEW g \in Files, TimeOut(g)
     PROVE UNCHANGED <<options, failedTests, bailCancelled>>
  BY <1>5 DEF TimeOut
<1>6. ASSUME NEW g \in Files, Interrupt(g)
     PROVE UNCHANGED <<options, failedTests, bailCancelled>>
  BY <1>6 DEF Interrupt
<1>7. ASSUME NEW g \in Files, WorkerFault(g)
     PROVE UNCHANGED <<options, failedTests, bailCancelled>>
  BY <1>7 DEF WorkerFault
<1>8. ASSUME NEW g \in Files, Persist(g)
     PROVE UNCHANGED <<options, failedTests, bailCancelled>>
  BY <1>8 DEF Persist
<1>9. ASSUME NEW g \in Files, Report(g)
     PROVE UNCHANGED <<options, failedTests, bailCancelled>>
  BY <1>9 DEF Report
<1>10. ASSUME NEW g \in Files, Admit(g)
      PROVE options' = options /\ (Requested => UNCHANGED <<failedTests, bailCancelled>>)
  BY <1>10 DEF Admit
<1>11. CASE Cancel \/ Return \/ UNCHANGED vars
  BY <1>11 DEF Cancel, Return, vars
<1> QED
  BY <1>1, <1>2, <1>3, <1>4, <1>5, <1>6, <1>7, <1>8, <1>9, <1>10, <1>11
     DEF Next, Step, Over

\* The bail flag is up exactly when the count has reached the threshold, and
\* one retained result brought it there.
THEOREM BoundaryTight == Spec => []BoundaryIsTight
<1>1. Init => BoundaryIsTight
  <2> SUFFICES ASSUME Init PROVE BoundaryIsTight
    OBVIOUS
  <2>1. options.bail \in Nat /\ failedTests = 0 /\ bailCancelled = FALSE
    BY PoolAssumption DEF Init
  <2> QED
    BY <2>1 DEF BoundaryIsTight
<1>2. TypeOK /\ BoundaryIsTight /\ [Next]_vars => BoundaryIsTight'
  <2> SUFFICES ASSUME TypeOK, BoundaryIsTight, [Next]_vars PROVE BoundaryIsTight'
    OBVIOUS
  <2>1. CASE UNCHANGED <<failedTests, bailCancelled>>
    <3>1. ASSUME NEW f \in At({"kept"}) PROVE f \in At({"kept"})' /\ result'[f] = result[f]
      BY SettledStays, <3>1 DEF At, Settled
    <3> QED
      BY <2>1, <3>1, CountMoves DEF BoundaryIsTight
  <2>2. ASSUME NEW f \in Files, Admit(f), ~Requested PROVE BoundaryIsTight'
    <3>1. failedTests \in Nat /\ result[f].failed \in Nat /\ options.bail \in Nat
      BY PoolAssumption DEF TypeOK, Results
    <3>2. ~bailCancelled
      BY <2>2 DEF Requested
    <3>3. /\ options' = options /\ result' = result
          /\ failedTests' = failedTests + result[f].failed
          /\ bailCancelled' = (options.bail # 0 /\ failedTests' >= options.bail)
      BY <2>2 DEF Admit
    <3>4. f \in At({"kept"})'
      BY <2>2 DEF Admit, Goto, At, TypeOK
    <3>5. bailCancelled' => failedTests' - result'[f].failed < options.bail
      <4>1. failedTests' - result'[f].failed = failedTests
        BY <3>1, <3>3
      <4>2. options.bail # 0 => failedTests < options.bail
        BY <3>1, <3>2 DEF BoundaryIsTight
      <4> QED
        BY <3>3, <4>1, <4>2
    <3> QED
      BY <3>3, <3>4, <3>5 DEF BoundaryIsTight
  <2> QED
    BY <2>1, <2>2, CountMoves
<1> QED
  BY <1>1, <1>2, TypeCorrect, PTL DEF Spec

-----------------------------------------------------------------------------
\* What SnapshotsFollowResults rests on: from the moment a decoded result has
\* left the persisting place its changes are on disk, and before that nothing is.
SnapshotProgress ==
  \A f \in Files :
    /\ pc[f] = "persisting" => ~result[f].timedOut
    /\ pc[f] \in {"reporting", "admitting", "kept", "discarded"} =>
         (result[f].dirty => f \in written)
    /\ f \in written =>
         /\ result[f].dirty
         /\ ~result[f].timedOut
         /\ pc[f] \in {"reporting", "admitting", "kept", "discarded", "failed"}

\* A retained result with snapshot changes was persisted, only decoded results
\* are persisted, and a timed-out file leaves its snapshot file alone.
THEOREM SnapshotsFollow == Spec => []SnapshotsFollowResults
<1>1. Init => SnapshotProgress
  BY DEF Init, SnapshotProgress
<1>2. TypeOK /\ SnapshotProgress /\ [Next]_vars => SnapshotProgress'
  <2> SUFFICES ASSUME TypeOK, SnapshotProgress, [Next]_vars PROVE SnapshotProgress'
    OBVIOUS
  <2> USE DEF TypeOK, SnapshotProgress, Goto, Fails, Results
  <2>1. ASSUME NEW g \in Files, Take(g) PROVE SnapshotProgress'
    BY <2>1 DEF Take
  <2>2. ASSUME NEW g \in Files, Announce(g) PROVE SnapshotProgress'
    BY <2>2 DEF Announce
  <2>3. ASSUME NEW g \in Files, Prepare(g) PROVE SnapshotProgress'
    BY <2>3 DEF Prepare
  <2>4. ASSUME NEW g \in Files, Complete(g) PROVE SnapshotProgress'
    BY <2>4 DEF Complete
  <2>5. ASSUME NEW g \in Files, TimeOut(g) PROVE SnapshotProgress'
    BY <2>5 DEF TimeOut
  <2>6. ASSUME NEW g \in Files, Interrupt(g) PROVE SnapshotProgress'
    BY <2>6 DEF Interrupt
  <2>7. ASSUME NEW g \in Files, WorkerFault(g) PROVE SnapshotProgress'
    BY <2>7 DEF WorkerFault
  <2>8. ASSUME NEW g \in Files, Persist(g) PROVE SnapshotProgress'
    BY <2>8 DEF Persist
  <2>9. ASSUME NEW g \in Files, Report(g) PROVE SnapshotProgress'
    BY <2>9 DEF Report
  <2>10. ASSUME NEW g \in Files, Admit(g) PROVE SnapshotProgress'
    BY <2>10 DEF Admit
  <2>11. CASE Cancel \/ Return \/ UNCHANGED vars
    BY <2>11 DEF Cancel, Return, vars
  <2> QED
    BY <2>1, <2>2, <2>3, <2>4, <2>5, <2>6, <2>7, <2>8, <2>9, <2>10, <2>11
       DEF Next, Step, Over
<1>3. TypeOK /\ SnapshotProgress => SnapshotsFollowResults
  BY DEF TypeOK, SnapshotProgress, SnapshotsFollowResults, At
<1> QED
  BY <1>1, <1>2, <1>3, TypeCorrect, PTL DEF Spec

-----------------------------------------------------------------------------
\* What ReporterSeesRetained rests on: admission comes after the report, a
\* result is dropped only in a stopped run, and an orderly return waits for all.
ReportProgress ==
  /\ \A f \in Files :
       /\ pc[f] \in {"admitting", "kept", "discarded"} => f \in reported
       /\ pc[f] \in {"skipped", "cancelled", "discarded"} => Requested
  /\ returned = "ok" => \A f \in Files : pc[f] \in Settled \ {"failed"}

\* Only Cancel moves the caller's token, and it is never taken back.
LEMMA CancelledMoves ==
  ASSUME [Next]_vars
  PROVE  cancelled' = cancelled \/ Cancel
<1>1. ASSUME NEW g \in Files, Take(g) PROVE cancelled' = cancelled
  BY <1>1 DEF Take
<1>2. ASSUME NEW g \in Files, Announce(g) PROVE cancelled' = cancelled
  BY <1>2 DEF Announce
<1>3. ASSUME NEW g \in Files, Prepare(g) PROVE cancelled' = cancelled
  BY <1>3 DEF Prepare
<1>4. ASSUME NEW g \in Files, Complete(g) PROVE cancelled' = cancelled
  BY <1>4 DEF Complete
<1>5. ASSUME NEW g \in Files, TimeOut(g) PROVE cancelled' = cancelled
  BY <1>5 DEF TimeOut
<1>6. ASSUME NEW g \in Files, Interrupt(g) PROVE cancelled' = cancelled
  BY <1>6 DEF Interrupt
<1>7. ASSUME NEW g \in Files, WorkerFault(g) PROVE cancelled' = cancelled
  BY <1>7 DEF WorkerFault
<1>8. ASSUME NEW g \in Files, Persist(g) PROVE cancelled' = cancelled
  BY <1>8 DEF Persist
<1>9. ASSUME NEW g \in Files, Report(g) PROVE cancelled' = cancelled
  BY <1>9 DEF Report
<1>10. ASSUME NEW g \in Files, Admit(g) PROVE cancelled' = cancelled
  BY <1>10 DEF Admit
<1>11. CASE Return \/ UNCHANGED vars
  BY <1>11 DEF Return, vars
<1> QED
  BY <1>1, <1>2, <1>3, <1>4, <1>5, <1>6, <1>7, <1>8, <1>9, <1>10, <1>11
     DEF Next, Step, Over

LEMMA CancelledStays == ASSUME [Next]_vars, cancelled PROVE cancelled'
BY CancelledMoves DEF Cancel

\* The flags are never lowered.
LEMMA StopIsFinal ==
  ASSUME [Next]_vars, Requested
  PROVE  Requested'
BY CancelledStays, CountMoves DEF Requested

\* Every step keeps ReportProgress.
LEMMA ReportProgressStep ==
  ASSUME TypeOK, BoundaryIsTight, ReportProgress, [Next]_vars
  PROVE  ReportProgress'
<1>0. Requested => Requested'
  BY StopIsFinal
<1> USE <1>0 DEF TypeOK, ReportProgress, Goto, Fails, Settled, Busy
<1>1. ASSUME NEW g \in Files, Take(g) PROVE ReportProgress'
  BY <1>1 DEF Take
<1>2. ASSUME NEW g \in Files, Announce(g) PROVE ReportProgress'
  BY <1>2 DEF Announce
<1>3. ASSUME NEW g \in Files, Prepare(g) PROVE ReportProgress'
  BY <1>3 DEF Prepare
<1>4. ASSUME NEW g \in Files, Complete(g) PROVE ReportProgress'
  BY <1>4 DEF Complete
<1>5. ASSUME NEW g \in Files, TimeOut(g) PROVE ReportProgress'
  BY <1>5 DEF TimeOut
<1>6. ASSUME NEW g \in Files, Interrupt(g) PROVE ReportProgress'
  BY <1>6 DEF Interrupt
<1>7. ASSUME NEW g \in Files, WorkerFault(g) PROVE ReportProgress'
  BY <1>7 DEF WorkerFault
<1>8. ASSUME NEW g \in Files, Persist(g) PROVE ReportProgress'
  BY <1>8 DEF Persist
<1>9. ASSUME NEW g \in Files, Report(g) PROVE ReportProgress'
  BY <1>9 DEF Report
<1>10. ASSUME NEW g \in Files, Admit(g) PROVE ReportProgress'
  BY <1>10 DEF Admit
<1>11. CASE Return
  BY <1>11 DEF Return, At, Aborted
<1>12. CASE Cancel \/ UNCHANGED vars
  BY <1>12 DEF Cancel, vars
<1> QED
  BY <1>1, <1>2, <1>3, <1>4, <1>5, <1>6, <1>7, <1>8, <1>9, <1>10, <1>11, <1>12
     DEF Next, Step, Over

\* A retained result was reported, and a run that returns normally without
\* having been stopped has reported every file.
THEOREM ReporterComplete == Spec => []ReporterSeesRetained
<1>1. Init => ReportProgress
  BY DEF Init, ReportProgress
<1>2. TypeOK /\ BoundaryIsTight /\ ReportProgress /\ [Next]_vars => ReportProgress'
  BY ReportProgressStep
<1>3. TypeOK /\ ReportProgress => ReporterSeesRetained
  BY DEF TypeOK, ReportProgress, ReporterSeesRetained, At, Settled
<1> QED
  BY <1>1, <1>2, <1>3, TypeCorrect, BoundaryTight, PTL DEF Spec

-----------------------------------------------------------------------------
\* ReportProgress on its own, for the theorems below.
LEMMA ReportProgressInv == Spec => []ReportProgress
<1>1. Init => ReportProgress
  BY DEF Init, ReportProgress
<1>2. TypeOK /\ BoundaryIsTight /\ ReportProgress /\ [Next]_vars => ReportProgress'
  BY ReportProgressStep
<1> QED
  BY <1>1, <1>2, TypeCorrect, BoundaryTight, PTL DEF Spec

\* The files a stop costs: dropped after they were announced.
Dropped == At({"cancelled", "discarded"})

\* How each step moves a file between the busy places and the dropped ones:
\* only Take makes a file busy, and a stopped run drops busy files only.
LEMMA BusyMoves ==
  ASSUME TypeOK, [Next]_vars
  PROVE  /\ \/ At(Busy)' \subseteq At(Busy)
            \/ /\ Cardinality(At(Busy)) < Workers
               /\ ~Requested
               /\ \E f \in Files : At(Busy)' = At(Busy) \cup {f} /\ f \notin At(Busy)
         /\ Dropped' \subseteq Dropped \cup At(Busy)
<1> USE DEF TypeOK, Goto, Fails, Settled, Busy, At, Dropped
<1>1. ASSUME NEW g \in Files, Take(g)
     PROVE  /\ Dropped' \subseteq Dropped
            /\ Requested => At(Busy)' \subseteq At(Busy)
            /\ ~Requested => At(Busy)' = At(Busy) \cup {g} /\ g \notin At(Busy)
            /\ Cardinality(At(Busy)) < Workers
  BY <1>1 DEF Take
<1>2. ASSUME NEW g \in Files, Announce(g)
     PROVE  At(Busy)' \subseteq At(Busy) /\ Dropped' \subseteq Dropped \cup At(Busy)
  BY <1>2 DEF Announce
<1>3. ASSUME NEW g \in Files, Prepare(g)
     PROVE  At(Busy)' \subseteq At(Busy) /\ Dropped' \subseteq Dropped \cup At(Busy)
  BY <1>3 DEF Prepare
<1>4. ASSUME NEW g \in Files, Complete(g)
     PROVE  At(Busy)' \subseteq At(Busy) /\ Dropped' \subseteq Dropped \cup At(Busy)
  BY <1>4 DEF Complete
<1>5. ASSUME NEW g \in Files, TimeOut(g)
     PROVE  At(Busy)' \subseteq At(Busy) /\ Dropped' \subseteq Dropped \cup At(Busy)
  BY <1>5 DEF TimeOut
<1>6. ASSUME NEW g \in Files, Interrupt(g)
     PROVE  At(Busy)' \subseteq At(Busy) /\ Dropped' \subseteq Dropped \cup At(Busy)
  BY <1>6 DEF Interrupt
<1>7. ASSUME NEW g \in Files, WorkerFault(g)
     PROVE  At(Busy)' \subseteq At(Busy) /\ Dropped' \subseteq Dropped \cup At(Busy)
  BY <1>7 DEF WorkerFault
<1>8. ASSUME NEW g \in Files, Persist(g)
     PROVE  At(Busy)' \subseteq At(Busy) /\ Dropped' \subseteq Dropped \cup At(Busy)
  BY <1>8 DEF Persist
<1>9. ASSUME NEW g \in Files, Report(g)
     PROVE  At(Busy)' \subseteq At(Busy) /\ Dropped' \subseteq Dropped \cup At(Busy)
  BY <1>9 DEF Report
<1>10. ASSUME NEW g \in Files, Admit(g)
     PROVE  At(Busy)' \subseteq At(Busy) /\ Dropped' \subseteq Dropped \cup At(Busy)
  BY <1>10 DEF Admit
<1>11. CASE Cancel \/ Return \/ UNCHANGED vars
  BY <1>11 DEF Cancel, Return, vars
<1> QED
  BY <1>1, <1>2, <1>3, <1>4, <1>5, <1>6, <1>7, <1>8, <1>9, <1>10, <1>11
     DEF Next, Step, Over

\* The pool holds at most Workers files, and a stopped run has lost at most as
\* many as were in the pool when it was stopped.
PoolBound ==
  /\ Cardinality(At(Busy)) <= Workers
  /\ Requested => Cardinality(Dropped \cup At(Busy)) <= IF cancelled THEN Workers ELSE Workers - 1

LEMMA FiniteAt == ASSUME NEW S PROVE IsFiniteSet(At(S))
BY FS_Subset, PoolAssumption DEF At

\* A stop wastes at most one file per thread, and a bail stop spares the thread
\* whose result reached the threshold.
THEOREM OvershootIsBounded == Spec => []OvershootBounded
<1>1. Init => PoolBound
  <2> SUFFICES ASSUME Init PROVE PoolBound
    OBVIOUS
  <2>1. At(Busy) = {} /\ ~Requested
    BY DEF Init, At, Busy, Requested
  <2> QED
    BY <2>1, FS_EmptySet, PoolAssumption DEF PoolBound
<1>2. TypeOK /\ BoundaryIsTight /\ ReportProgress /\ PoolBound /\ [Next]_vars => PoolBound'
  <2> SUFFICES ASSUME TypeOK, BoundaryIsTight, ReportProgress, PoolBound, [Next]_vars
               PROVE  PoolBound'
    OBVIOUS
  <2> USE PoolAssumption
  <2>1. Cardinality(At(Busy)') <= Workers
    <3>1. CASE At(Busy)' \subseteq At(Busy)
      <4>1. IsFiniteSet(At(Busy)) /\ IsFiniteSet(At(Busy)')
        BY <3>1, FiniteAt, FS_Subset
      <4>2. Cardinality(At(Busy)') <= Cardinality(At(Busy))
        BY <3>1, <4>1, FS_Subset
      <4> QED
        BY <4>1, <4>2, FS_CardinalityType DEF PoolBound
    <3>2. ASSUME Cardinality(At(Busy)) < Workers, NEW f \in Files,
                 At(Busy)' = At(Busy) \cup {f}, f \notin At(Busy)
          PROVE  Cardinality(At(Busy)') <= Workers
      <4>1. Cardinality(At(Busy)) \in Nat
        BY FiniteAt, FS_CardinalityType
      <4>2. Cardinality(At(Busy) \cup {f}) = Cardinality(At(Busy)) + 1
        BY <3>2, FiniteAt, FS_AddElement
      <4> QED
        BY <3>2, <4>1, <4>2
    <3> QED
      BY <3>1, <3>2, BusyMoves
  <2>2. CASE Requested
    <3>1. Dropped' \cup At(Busy)' \subseteq Dropped \cup At(Busy)
      BY <2>2, BusyMoves
    <3>2. IsFiniteSet(Dropped \cup At(Busy))
      BY FiniteAt, FS_Union DEF Dropped
    <3>3. Cardinality(Dropped' \cup At(Busy)') <= Cardinality(Dropped \cup At(Busy))
      BY <3>1, <3>2, FS_Subset
    <3>4. /\ Cardinality(Dropped \cup At(Busy)) \in Nat
          /\ Cardinality(Dropped' \cup At(Busy)') \in Nat
      BY <3>1, <3>2, FS_Subset, FS_CardinalityType
    <3>5. cancelled => cancelled'
      BY CancelledStays
    <3> QED
      BY <2>1, <2>2, <3>3, <3>4, <3>5 DEF PoolBound
  <2>3. CASE ~Requested
    <3>1. Dropped = {}
      BY <2>3 DEF ReportProgress, Dropped, At
    <3>2. CASE ~Requested'
      BY <2>1, <3>2 DEF PoolBound
    <3>3. CASE Cancel
      <4>1. cancelled' /\ At(Busy)' = At(Busy) /\ Dropped' = Dropped
        BY <3>3 DEF Cancel, At, Dropped
      <4> QED
        BY <2>1, <3>1, <4>1 DEF PoolBound
    <3>4. ASSUME NEW f \in Files, Admit(f) PROVE PoolBound'
      <4>1. /\ cancelled' = cancelled /\ ~cancelled
            /\ f \in At(Busy) /\ At(Busy)' = At(Busy) \ {f} /\ Dropped' = Dropped
        BY <2>3, <3>4 DEF Admit, Goto, At, Busy, Dropped, TypeOK, Requested
      <4>2. Cardinality(At(Busy)') = Cardinality(At(Busy)) - 1
        BY <4>1, FiniteAt, FS_RemoveElement
      <4>3. Cardinality(At(Busy)) \in Nat
        BY FiniteAt, FS_CardinalityType
      <4> QED
        BY <2>1, <3>1, <4>1, <4>2, <4>3 DEF PoolBound
    <3>5. Requested' => Cancel \/ \E f \in Files : Admit(f)
      BY <2>3, CancelledMoves, CountMoves DEF Requested
    <3> QED
      BY <3>2, <3>3, <3>4, <3>5
  <2> QED
    BY <2>2, <2>3
<1>3. TypeOK /\ ReportProgress /\ PoolBound => OvershootBounded
  <2> SUFFICES ASSUME TypeOK, ReportProgress, PoolBound PROVE OvershootBounded
    OBVIOUS
  <2>1. CASE Requested
    BY <2>1 DEF PoolBound, OvershootBounded, Dropped
  <2>2. CASE ~Requested
    <3>1. At({"cancelled", "discarded"}) = {}
      BY <2>2 DEF ReportProgress, At
    <3> QED
      BY <2>2, <3>1, FS_EmptySet, PoolAssumption DEF OvershootBounded, Requested
  <2> QED
    BY <2>1, <2>2
<1> QED
  BY <1>1, <1>2, <1>3, TypeCorrect, BoundaryTight, ReportProgressInv, PTL DEF Spec

-----------------------------------------------------------------------------
\* What the refinement rests on beside the invariants above: run_internal
\* returns only when no thread holds a file, and a token that was not passed
\* is never cancelled.
Quiet ==
  /\ returned # "running" => \A f \in Files : pc[f] \notin Busy
  /\ cancelled => options.token

LEMMA QuietInv == Spec => []Quiet
<1>1. Init => Quiet
  BY DEF Init, Quiet
<1>2. TypeOK /\ Quiet /\ [Next]_vars => Quiet'
  <2> SUFFICES ASSUME TypeOK, Quiet, [Next]_vars PROVE Quiet'
    OBVIOUS
  <2> USE DEF TypeOK, Quiet, Goto, Fails, Busy
  <2>1. ASSUME NEW g \in Files, Take(g) PROVE Quiet'
    BY <2>1 DEF Take
  <2>2. ASSUME NEW g \in Files, Announce(g) PROVE Quiet'
    BY <2>2 DEF Announce
  <2>3. ASSUME NEW g \in Files, Prepare(g) PROVE Quiet'
    BY <2>3 DEF Prepare
  <2>4. ASSUME NEW g \in Files, Complete(g) PROVE Quiet'
    BY <2>4 DEF Complete
  <2>5. ASSUME NEW g \in Files, TimeOut(g) PROVE Quiet'
    BY <2>5 DEF TimeOut
  <2>6. ASSUME NEW g \in Files, Interrupt(g) PROVE Quiet'
    BY <2>6 DEF Interrupt
  <2>7. ASSUME NEW g \in Files, WorkerFault(g) PROVE Quiet'
    BY <2>7 DEF WorkerFault
  <2>8. ASSUME NEW g \in Files, Persist(g) PROVE Quiet'
    BY <2>8 DEF Persist
  <2>9. ASSUME NEW g \in Files, Report(g) PROVE Quiet'
    BY <2>9 DEF Report
  <2>10. ASSUME NEW g \in Files, Admit(g) PROVE Quiet'
    BY <2>10 DEF Admit
  <2>11. CASE Return
    BY <2>11 DEF Return, At
  <2>12. CASE Cancel \/ UNCHANGED vars
    BY <2>12 DEF Cancel, vars
  <2> QED
    BY <2>1, <2>2, <2>3, <2>4, <2>5, <2>6, <2>7, <2>8, <2>9, <2>10, <2>11, <2>12
       DEF Next, Step, Over
<1> QED
  BY <1>1, <1>2, TypeCorrect, PTL DEF Spec

\* Every step of the pool is a step of BailRun or leaves its variables alone.
LEMMA PromiseStep ==
  ASSUME TypeOK, BoundaryIsTight, ReportProgress, Quiet, [Next]_vars
  PROVE  [Promise!Next]_(Promise!vars)
<1> DEFINE Retained == At({"kept"})
<1> DEFINE Stutters == /\ options' = options /\ Retained' = Retained
                       /\ failedTests' = failedTests /\ Requested' = Requested
                       /\ returned' = returned
<1>0. Stutters => UNCHANGED Promise!vars
  BY DEF Promise!vars
<1> USE DEF TypeOK, Goto, Fails, At, Requested
<1>1. ASSUME NEW f \in Files, Take(f) PROVE Stutters
  BY <1>1 DEF Take
<1>2. ASSUME NEW f \in Files, Announce(f) PROVE Stutters
  BY <1>2 DEF Announce
<1>3. ASSUME NEW f \in Files, Prepare(f) PROVE Stutters
  BY <1>3 DEF Prepare
<1>4. ASSUME NEW f \in Files, Complete(f) PROVE Stutters
  BY <1>4 DEF Complete
<1>5. ASSUME NEW f \in Files, TimeOut(f) PROVE Stutters
  BY <1>5 DEF TimeOut
<1>6. ASSUME NEW f \in Files, Interrupt(f) PROVE Stutters
  BY <1>6 DEF Interrupt
<1>7. ASSUME NEW f \in Files, WorkerFault(f) PROVE Stutters
  BY <1>7 DEF WorkerFault
<1>8. ASSUME NEW f \in Files, Persist(f) PROVE Stutters
  BY <1>8 DEF Persist
<1>9. ASSUME NEW f \in Files, Report(f) PROVE Stutters \/ Promise!Keep(f, 0)
  <2>1. CASE Plain
    <3>1. returned = "running" /\ ~Requested /\ f \notin Retained
      BY <1>9, <2>1 DEF Report, Quiet, Busy, Plain, BoundaryIsTight
    <3>2. CASE pc'[f] = "kept"
      <4>1. Retained' = Retained \cup {f}
        BY <1>9, <3>2 DEF Report
      <4>2. UNCHANGED <<options, failedTests, bailCancelled, cancelled, returned>>
        BY <1>9 DEF Report
      <4> QED
        BY <2>1, <3>1, <4>1, <4>2 DEF Promise!Keep, Plain
    <3>3. CASE pc'[f] # "kept"
      BY <1>9, <3>3 DEF Report
    <3> QED
      BY <3>2, <3>3
  <2>2. CASE ~Plain
    BY <1>9, <2>2 DEF Report
  <2> QED
    BY <2>1, <2>2
<1>10. ASSUME NEW f \in Files, Admit(f)
      PROVE  Stutters \/ Promise!Keep(f, result[f].failed)
  <2>1. CASE Requested
    BY <1>10, <2>1 DEF Admit
  <2>2. CASE ~Requested
    <3>1. returned = "running" /\ f \notin Retained
      BY <1>10 DEF Admit, Quiet, Busy
    <3>2. Retained' = Retained \cup {f}
      BY <1>10, <2>2 DEF Admit
    <3>3. /\ failedTests' = failedTests + result[f].failed
          /\ bailCancelled' = (options.bail # 0 /\ failedTests' >= options.bail)
          /\ UNCHANGED <<options, cancelled, returned>>
      BY <1>10, <2>2 DEF Admit
    <3> QED
      BY <2>2, <3>1, <3>2, <3>3 DEF Promise!Keep
  <2> QED
    BY <2>1, <2>2
<1>11. ASSUME Cancel PROVE Promise!Cancel
  <2>1. Requested' = TRUE
    BY <1>11 DEF Cancel
  <2>2. UNCHANGED <<options, failedTests, returned>> /\ Retained' = Retained
    BY <1>11 DEF Cancel
  <2> QED
    BY <2>1, <2>2 DEF Promise!Cancel
<1>12. ASSUME Return PROVE Promise!Succeed \/ Promise!GiveUp
  <2>1. UNCHANGED <<options, failedTests>> /\ Retained' = Retained /\ Requested' = Requested
    BY <1>12 DEF Return
  <2>2. CASE returned' = "error"
    BY <1>12, <2>1, <2>2 DEF Return, Promise!GiveUp
  <2>3. CASE returned' = "ok"
    <3>1. ~Requested => Retained = Files
      BY <1>12, <2>3 DEF Return, Aborted, ReportProgress, Busy, Settled
    <3> QED
      BY <1>12, <2>1, <2>3, <3>1 DEF Return, Promise!Succeed
  <2> QED
    BY <1>12, <2>2, <2>3 DEF Return
<1>13. ASSUME UNCHANGED vars PROVE Stutters
  BY <1>13 DEF vars
<1>14. ASSUME NEW f \in Files PROVE result[f].failed \in FailureCounts /\ 0 \in FailureCounts
  BY PoolAssumption DEF Results
<1> HIDE DEF Stutters, TypeOK, Goto, Fails, At, Requested
<1>15. ASSUME NEW f \in Files, Step(f)
      PROVE  Stutters \/ \E n \in FailureCounts : Promise!Keep(f, n)
  BY <1>1, <1>2, <1>3, <1>4, <1>5, <1>6, <1>7, <1>8, <1>9, <1>10, <1>14, <1>15
     DEF Step
<1>16. Promise!Next \/ Stutters
  BY <1>11, <1>12, <1>13, <1>15 DEF Next, Over, Promise!Next
<1> QED
  BY <1>0, <1>16

\* The pool keeps the promise of BailRun: results are retained one at a time and
\* only while the run is not stopped, the one that reaches the threshold is the
\* last, and an orderly return of a run never stopped has every file.
THEOREM KeepsPromise == Spec => ImplementsBailRun
<1>1. Init => Promise!Init
  <2> SUFFICES ASSUME Init PROVE Promise!Init
    OBVIOUS
  <2>1. options.bail \in Nat
    BY PoolAssumption DEF Init
  <2>2. At({"kept"}) = {} /\ Requested = FALSE
    BY DEF Init, At, Requested
  <2> QED
    BY <2>1, <2>2 DEF Init, Promise!Init
<1>2. TypeOK /\ BoundaryIsTight /\ ReportProgress /\ Quiet /\ [Next]_vars
        => [Promise!Next]_(Promise!vars)
  BY PromiseStep
<1> QED
  BY <1>1, <1>2, TypeCorrect, BoundaryTight, ReportProgressInv, QuietInv, PTL
     DEF Spec, ImplementsBailRun, Promise!Spec
=============================================================================
