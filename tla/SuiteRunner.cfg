CONSTANTS
  a = a
  b = b
  c = c
  d = d
  x = x
  y = y
  Tests = {a, b, c, d}
  Names = {a, b, c, d}
  NameOf <- MCOwnNames
  Failing = {c}
  Values = {x, y}
  NoEntry = NoEntry
  Untouched = Untouched
  MaxCount = 2
  Loaded <- MCLoaded
  Position <- MCPosition
  Concurrent = {b, c}
  Skipped = {d}
  MaxConcurrency = 2
  Outliving = {b}
  Policies <- MCAllPolicies
  Attempts = 1
  MaxMatches = 1
SPECIFICATION FairSpec
INVARIANTS
  TypeOK
  SummaryMatchesRecords
  NoTraceWithoutRecord
  DirtyWhenNeeded
  UsedEntriesSurvive
  FileEntriesUntouched
PROPERTIES
  FreshAttempt
  Termination
