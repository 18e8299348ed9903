CONSTANTS
  k = k
  old = old
  Scripts <- MCScripts
  TestNames <- MCTestNames
  Matched <- MCMatched
  Names <- MCNames
  MaxLoads = 4
  Files <- MCFiles
  SnapshotOf <- MCSnapshotOf
  MaxStaged = 1
  Suites <- MCSuites
  Folder <- MCFolder
  Keys = {k, old}
  Threads = 2
  Foreign <- MCForeign
  Scenarios <- MCClearing
SPECIFICATION Spec
INVARIANTS
  NoRootIsCleared
CHECK_DEADLOCK FALSE
