CONSTANTS
  u = u
  v = v
  p = p
  q = q
  Units = {u, v}
  Projects = {p, q}
  ProjectOf <- MCProjectOf
  Paths = {u, v}
  PathOf <- MCPathOf
  Owns <- MCOwns
  ByHash <- MCByHash
  MostFailed = 2
  Setups <- MCSetups
  Presses = {"UpdateSnapshots", "ToggleFailures", "WatchAll", "Quit", "Other"}
  MaxPresses = 1
  MaxChanges = 1
  MaxEvents = 2
SPECIFICATION FairSpec
INVARIANTS
  TypeOK
  BailAcrossProjects
  SetupIsTornDown
  EveryTestInOneShard
  ChangeNotLost
PROPERTIES
  HistoryFromCompleteRuns
  ChangeGetsRun
