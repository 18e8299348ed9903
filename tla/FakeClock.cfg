CONSTANTS
  a = a
  b = b
  Timers = {a, b}
  Intervals = {b}
  Delays = {0}
  Steps = {1}
  Epochs = {2}
  Delta = 1
  MaxRuns = 2
  Tasks = {1, 2}
  MaxOps = 4
  MaxTime = 2
SPECIFICATION FairSpec
INVARIANTS
  TypeOK
  NothingOverdue
  OneDriver
PROPERTIES
  AdvancesSettle
