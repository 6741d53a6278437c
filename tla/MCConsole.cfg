SPECIFICATION ConsoleSpec
CONSTANTS
  i1 = i1
  i2 = i2
  a1 = a1
  Nothing = Nothing
  Items <- MCItems
  Addresses <- MCAddresses
  Entered <- MCEntered
  Shortlisted <- MCItems
  MaxCalls = 3
  MaxNonces = 1
INVARIANTS ScreenNeverAhead UnracedScreenIsCurrent QuietMeansUnlocked
CHECK_DEADLOCK FALSE
