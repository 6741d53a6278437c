SPECIFICATION FairSpec
CONSTANTS
  w1 = w1
  w2 = w2
  c1 = c1
  Starter = Starter
  Order <- JoinOrder
  DependsOn <- JoinDeps
  Industries <- OneIndustry
  Companies = {c1}
  Workers <- TwoWorkers
  MaxAttempts = 1
  MaxRuns = 2
  MaxFailures = 1
  MaxCrashes = 1
  MaxFaults = 1
  LeasesHold = TRUE
  QuickStart = TRUE
  AdminActs <- AllActs
INVARIANTS StageOpensAfterDeps VerdictIsTrue
PROPERTIES CancelledForGood RetiredScoresStayOut RunFinishes
CHECK_DEADLOCK FALSE
