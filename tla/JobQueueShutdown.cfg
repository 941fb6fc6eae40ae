CONSTANTS
  Jobs = {1}
  Workers = {w1, w2}
  NoJob = NoJob
  NoKey = NoKey
  k = k
  Key <- NoKeys
  Priority <- SamePriority
  MaxAttempts <- TwoAttempts
  StartDelay <- AtOnce
  Handled = {1}
  Reporting = {}
  Backoffs = {1}
  Lease = 3
  MaxFaults <- StopOnly
SPECIFICATION Spec
PROPERTIES
  StopReleasesJobs
CHECK_DEADLOCK FALSE
