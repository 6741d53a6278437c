SPECIFICATION Spec
CONSTANTS
  None = None
  Ticket <- MCTicket
  Companies = {1, 2, 3, 4, 5, 6}
  Base <- MCBase
  Targets = {1, 2, 3}
  Observations <- MCObservations
  Settings <- MCSettings
  TargetNumbers <- MCTargetNumbers
  PEERS_PER_COMPANY = 2
  Ranks = {1, 2}
  Replacements <- MCReplacements
  MaxEvents = 2
  OpenBefore = {1}
INVARIANTS UnracedPeersAreMeasured GateIsEarned ShortlistHolds
PROPERTIES RankingEnds
CHECK_DEADLOCK FALSE
