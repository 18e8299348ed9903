\* Two files on two threads, one isolate that cannot be terminated, every fault; the other file
\* leaves a child process that holds the stdout of the host.
CONSTANTS
  f1 = f1
  f2 = f2
  Files <- MCFiles
  Workers = 2
  Stuck <- MCStuck
  Orphans <- MCOrphans
  Faults <- MCAllFaults
SPECIFICATION Spec
INVARIANTS
  TypeOK
  DeathReachesEveryCall
  SlotHeldWhileRunning
  ResultNotLost
  CancelReachesIsolate
  OutcomeHasCause
