CONSTANTS
  a = a
  b = b
  c = c
  d = d
  x = x
  y = y
  Tests = {a, b}
  Names = {a}
  NameOf <- MCOneName
  Failing = {}
  Values = {x, y}
  NoEntry = NoEntry
  Untouched = Untouched
  MaxCount = 2
  Loaded <- MCLoaded
  Position <- MCPosition
  Concurrent = {}
  Skipped = {}
  MaxConcurrency = 2
  Outliving = {}
  Policies <- MCDescribe
  Attempts = 1
  MaxMatches = 1
SPECIFICATION Spec
INVARIANTS
  CountersRestored
