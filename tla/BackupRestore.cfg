SPECIFICATION FairSpec
CONSTANTS
  Jobs = {1, 2}
  NoJob = NoJob
  Readers = {r1}
  MaxVersion = 3
  MaxCrashes = 2
  MaxErrors = 2
INVARIANTS TypeOK ReadersSeeOneVersion PreviousStateRecoverable MailHeldAfterRestore
PROPERTIES RestoreIsAllOrNothing MaintenanceEnds JobsSettle
CHECK_DEADLOCK FALSE
