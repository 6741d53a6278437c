SPECIFICATION Spec
CONSTANTS
  q1 = q1
  q2 = q2
  observations = observations
  aggregates = aggregates
  Requests <- MCRequests
  Tables <- MCTables
  Percents <- MCPercents
  MonthLength = 2
  Retention = 0
  FirstMoment = 12
  LastMoment = 18
  MaxRuns = 2
  MaxEvents = 2
SYMMETRY MCSymmetry
INVARIANTS RunsHavePartitions EachWeekdayHasItsRun
CHECK_DEADLOCK FALSE
