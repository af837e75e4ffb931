SPECIFICATION Spec
CONSTANTS
  Jobs = {1}
  NoJob = NoJob
  Readers = {r1}
  MaxVersion = 2
  MaxCrashes = 1
  MaxErrors = 1
INVARIANT OpenRestoreIsLocked
CHECK_DEADLOCK FALSE
