CONSTANTS
  a = a
  b = b
  c = c
  d = d
  x = x
  y = y
  Tests = {a}
  Names = {a}
  NameOf <- MCOwnNames
  Failing = {}
  Values = {x, y}
  NoEntry = NoEntry
  Untouched = Untouched
  MaxCount = 2
  Loaded <- MCLoaded
  Position <- MCPosition
  Concurrent = {}
  Skipped = {}
  MaxConcurrency = 2
  Outliving = {}
  Policies <- MCAllPolicies
  Attempts = 1
  MaxMatches = 1
SPECIFICATION Spec
INVARIANTS
  OnlyObsoleteRemoved
