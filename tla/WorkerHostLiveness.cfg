\* The same instance with crashes only: every call and the run end.
CONSTANTS
  f1 = f1
  f2 = f2
  Files <- MCFiles
  Workers = 2
  Stuck <- MCStuck
  Orphans <- MCNone
  Faults <- MCCrash
SPECIFICATION Spec
PROPERTIES
  DeadlineEnforced
  DropCompletes
