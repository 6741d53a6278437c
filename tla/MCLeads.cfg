SPECIFICATION Spec
CONSTANTS
  c1 = c1
  a1 = a1
  u1 = u1
  n1 = n1
  n2 = n2
  q1 = q1
  q2 = q2
  x1 = x1
  x2 = x2
  p1 = p1
  Nobody = Nobody
  Companies <- MCCompanies
  Addresses <- MCAddresses
  Users <- OneUser
  Nonces <- MCNonces
  Entries <- MCEntries
  Exports <- MCExports
  Requests <- MCRequests
  RateLimit = 1
  Minute = 1
  Ttl = 1
  MaxPerLead = 1
  MaxTime = 1
SYMMETRY MCSymmetry
INVARIANTS ExportCapHolds EntriesAreRated EntriesSpendNonces
PROPERTIES SuspendedNeverLeaves
CHECK_DEADLOCK FALSE
