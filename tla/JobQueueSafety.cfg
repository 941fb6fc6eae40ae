CONSTANTS
  Jobs = {1, 2}
  Workers = {w1, w2}
  NoJob = NoJob
  NoKey = NoKey
  k = k
  Key <- SameKey
  Priority <- SamePriority
  MaxAttempts <- TwoAttempts
  StartDelay <- AtOnce
  Handled = {1, 2}
  Reporting = {1}
  Backoffs = {1}
  Lease = 3
  MaxFaults <- EachOnceButStall
SPECIFICATION Spec
SYMMETRY WorkerSymmetry
INVARIANTS
  TypeOK
  ExclusiveExecution
  KeyedWorkIsExclusive
  LiveLeasesLast
  FailedMeansExhausted
PROPERTIES
  OnlyItsWorkerReopens
  ImplementsExclusiveWork
CHECK_DEADLOCK FALSE
