SPECIFICATION FairSpec
CONSTANTS
  j1 = j1
  c1 = c1
  cheap = cheap
  dear = dear
  Clients = {c1}
  Jobs = {j1}
  Reports = {cheap, dear}
  Owner <- OneOwner
  Funds <- SeededWithThree
  Usage <- UsageOfTwo
  Errors = {e1}
  Workers = {w1, w2}
  Watched = {j1}
  MaxFaults = 1
  MaxOutages = 0
  Null = Null
INVARIANT AnalyzedHasReport
PROPERTY EveryMessageSettled
CHECK_DEADLOCK FALSE
