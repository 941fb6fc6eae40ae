CONSTANTS
  Jobs = {1, 2}
  Workers = {w1, w2}
  NoJob = NoJob
  NoKey = NoKey
  k = k
  Key <- NoKeys
  Priority <- LaterIsUrgent
  MaxAttempts <- TwoThenOne
  StartDelay <- Staggered
  Handled = {1}
  Reporting = {}
  Backoffs = {1}
  Lease = 2
  MaxFaults <- AllButWrite
SPECIFICATION FairSpec
INVARIANTS
  LeaseIffRunning
  AttemptsAccounted
PROPERTIES
  JobsSettle
  AbandonedJobsReturn
  ShutdownCompletes
CHECK_DEADLOCK FALSE
