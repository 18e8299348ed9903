\* A file that blocks in native code while its child process holds the stdout of
\* the host: killing the host does not end the pipe.
CONSTANTS
  f1 = f1
  f2 = f2
  Files <- MCFiles
  Workers = 2
  Stuck <- MCStuck
  Orphans <- MCStuck
  Faults <- MCNone
SPECIFICATION Spec
PROPERTIES
  DeadlineEnforced
