SPECIFICATION Spec
CONSTANTS
  w1 = w1
  w2 = w2
  c1 = c1
  Starter = Starter
  Order <- JoinOrder
  DependsOn <- JoinDeps
  Industries <- TwoIndustries
  Companies = {c1}
  Workers <- TwoWorkers
  MaxAttempts = 1
  MaxRuns = 1
  MaxFailures = 0
  MaxCrashes = 0
  MaxFaults = 0
  LeasesHold = TRUE
  QuickStart = TRUE
  AdminActs <- NoActs
INVARIANTS FinishedRunShowsFinishedStages
CHECK_DEADLOCK FALSE
