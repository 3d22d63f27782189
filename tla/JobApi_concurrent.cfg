SPECIFICATION FairSpec
CONSTANTS
  j1 = j1
  j2 = j2
  j3 = j3
  c1 = c1
  c2 = c2
  Clients = {c1}
  Jobs = {j1, j2}
  Existing = {j1}
  Requests = {r1, r2, r3}
  Reports = {d1}
  Errors = {}
  Tokens = {2, 6}
  Owner <- OneOwner
  Funds <- SeededWithFive
  MinEstimate = 3
  Serialised = FALSE
  Null = Null
INVARIANTS TypeOK BalanceConserved AcknowledgedIsPaid LocksResolve
PROPERTY EveryRequestAnswered
CHECK_DEADLOCK FALSE
