SPECIFICATION SurveySpec
CONSTANTS
  s1 = s1
  s2 = s2
  s3 = s3
  s4 = s4
  t1 = t1
  t2 = t2
  g1 = g1
  None = None
  Companies = {1, 2}
  Company <- MCCompany
  Sites = {1, 2}
  Site <- MCSite
  Visits <- MCVisits
  Feeds <- MCFeeds
  Answers <- MCAnswers
  Providers <- MCProviders
  Nonbrand = 1
  SharedContent = 2
  Concurrency = 2
  Cap = 5
  Executions = {1, 2}
  MaxCrashes = 1
  MaxFailed = 1
  Topics <- MCTopics
  DENOMINATOR = 3
  Listed <- MCListed
  LegalSyllables = {}
  MaxCandidates = 2
  MaxChannels = 2
INVARIANTS GateHolds MissingSharesHaveCauses
CHECK_DEADLOCK FALSE
