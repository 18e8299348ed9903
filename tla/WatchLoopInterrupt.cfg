CONSTANTS
  u = u
  v = v
  p = p
  q = q
  Units = {u}
  Projects = {p}
  ProjectOf <- MCProjectOf
  Paths = {u}
  PathOf <- MCPathOf
  Owns <- MCOwns
  ByHash <- MCByHash
  MostFailed = 2
  Setups <- MCOne
  Presses = {"Rerun", "UpdateSnapshots", "ToggleFailures", "Quit"}
  MaxPresses = 2
  MaxChanges = 1
  MaxEvents = 2
SPECIFICATION Spec
INVARIANTS
  ChangeRemembered
