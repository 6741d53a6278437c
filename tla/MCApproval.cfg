SPECIFICATION Spec
CONSTANTS
  r1 = r1
  c1 = c1
  c2 = c2
  c3 = c3
  c4 = c4
  derm = derm
  eye = eye
  dental = dental
  s1 = s1
  s2 = s2
  NoRun = NoRun
  Runs <- OneRun
  Companies <- FourCompanies
  Industries <- ThreeIndustries
  Industry <- MCIndustry
  Sessions <- MCSessions
  Cap <- CapTwo
  SharePct <- HalfPct
  ReviewMax = 4
  MaxAttempts = 2
  MaxUpserts = 3
  MaxDays = 2
  Reruns = FALSE
SYMMETRY MCSymmetry
INVARIANTS CountersMatchLeads CapsHold ApprovedHaveLeads ReviewersNeverDeadlock
PROPERTIES LeadsRestOnValidScores
CHECK_DEADLOCK FALSE
