SPECIFICATION Spec
CONSTANTS
  j1 = j1
  j2 = j2
  j3 = j3
  c1 = c1
  c2 = c2
  Clients = {c1}
  Jobs = {j1}
  Existing = {j1}
  Requests = {r1, r2}
  Reports = {d1}
  Errors = {e1}
  Tokens = {2}
  Owner <- OneOwner
  Funds <- SeededWithFive
  MinEstimate = 3
  Serialised = TRUE
  Null = Null
INVARIANT ConsumedIsDebited
CHECK_DEADLOCK FALSE
