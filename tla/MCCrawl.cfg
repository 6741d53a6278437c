SPECIFICATION FairSpec
CONSTANTS
  c1 = c1
  c2 = c2
  c3 = c3
  hostA = hostA
  hostB = hostB
  Nobody = Nobody
  Unknown = Unknown
  Clients <- MCClients
  Domains <- MCDomains
  Batch <- MCBatch
  RuleSets <- MCRuleSets
  Slots = 2
  Interval = 1
  MaxRetries = 0
  RobotsRetries = 1
  MaxRedirects = 1
  MaxExpiries = 1
  MaxFaults = 1
INVARIANTS SlotsAreCounted StartsAreSpaced RobotsAskedOnce
PROPERTIES PagesAreAllowed EveryRowObserved
CHECK_DEADLOCK FALSE
