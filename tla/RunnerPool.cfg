\* Every option and every fault; safety, refinement and termination.
CONSTANTS
  f1 = f1
  f2 = f2
  f3 = f3
  Files <- MCFiles
  Workers = 2
  BailLimits <- MCBailLimits
  FailureCounts <- MCFailureCounts
  Hanging <- MCHanging
  Faults <- MCAllFaults
SPECIFICATION Spec
INVARIANTS
  TypeOK
  BoundaryIsTight
  OvershootBounded
  SnapshotsFollowResults
PROPERTIES
  ImplementsBailRun
  Termination
