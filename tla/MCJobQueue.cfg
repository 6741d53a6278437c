SPECIFICATION FairSpec
CONSTANTS
  w1 = w1
  w2 = w2
  NoWorker = NoWorker
  Workers <- MCWorkers
  Jobs <- MCOneJob
  MaxAttempts = 2
  Lease = 1
  BackoffUnit = 0
  BackoffCap = 0
  Jitter = 1
  MaxCrashes = 2
INVARIANTS LatestTokenIsTheOwners
PROPERTIES ClaimsEndByReportOrExpiry ImplementsLedger EveryJobSettles
CHECK_DEADLOCK FALSE
