CONSTANTS
  k = k
  old = old
  Scripts <- MCScripts
  TestNames <- MCTestNames
  Matched <- MCMatched
  Names <- MCNames
  MaxLoads = 4
  Files <- MCFiles
  SnapshotOf <- MCSnapshotOf
  MaxStaged = 1
  Suites <- MCSuites
  Folder <- MCFolder
  Keys = {k, old}
  Threads = 2
  Foreign <- MCForeign
  Scenarios <- MCScenarios
SPECIFICATION Spec
INVARIANTS
  InvocationTypeOK
  SnapshotsOnDisk
  RelatedIsExact
  ChangesAreSeen
  OptionsPrevail
  ExitTellsTheTruth
PROPERTIES
  InvocationEnds
CHECK_DEADLOCK FALSE
