CONSTANTS
  r1 = r1
  r2 = r2
  k1 = k1
  k2 = k2
  k3 = k3
  lines = lines
  totals = totals
  Readers <- MCReaders
  Keys <- MCKeys
  Company <- MCCompany
  Postings <- MCPostings
  Books <- MCBooks
  Parts <- MCParts
  TTL = 1
  MaxEntries = 2
  MaxFill = 1
  MaxTime = 3
  None = None
SPECIFICATION Spec
SYMMETRY Interchangeable
INVARIANTS
  CacheCoherent
  ShownIsRecent
  MissesOnlyOvertaken
CHECK_DEADLOCK FALSE
