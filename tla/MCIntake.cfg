SPECIFICATION Spec
CONSTANTS
  w1 = w1
  w2 = w2
  s1 = s1
  s2 = s2
  s3 = s3
  s4 = s4
  s5 = s5
  s6 = s6
  t1 = t1
  t2 = t2
  g1 = g1
  g2 = g2
  None = None
  Workers = {w1, w2}
  Feeds <- MCFeeds
  Past <- MCPast
  PastSites <- MCPastSites
  Limits <- MCLimits
  Batch = 1
  Cap = 2
  Adapters = {TRUE, FALSE}
  LocalAnswers <- MCLocal
  WebAnswers <- MCWeb
  MaxAttempts = 3
  MaxCrashes = 1
  MaxExpiries = 1
  MaxDay = 1
  Listed <- MCListed
  LegalSyllables <- MCLegal
  MaxCandidates = 2
  MaxChannels = 2
INVARIANTS DoneRowsAreStored ExclusionIsCurrent CallsArePaid MissedOnlyBehindFinds
PROPERTIES IntakeEnds
CHECK_DEADLOCK FALSE
