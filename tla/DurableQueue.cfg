SPECIFICATION FairSpec
CONSTANTS
  w1 = w1
  w2 = w2
  p1 = p1
  p2 = p2
  c1 = c1
  Workers = {w1, w2}
  Payloads = {p1, p2}
  Loads <- MCLoads
  MaxRetries = 2
  MaxId = 6
  MaxFaults = 1
  Names = {c1}
  NameOf <- SharedName
INVARIANTS OneCopy RetriesBounded
PROPERTIES KeepsJobs Settles
CHECK_DEADLOCK FALSE
