SPECIFICATION Spec
CONSTANTS
  j1 = j1
  j2 = j2
  j3 = j3
  c1 = c1
  c2 = c2
  Clients = {c1, c2}
  Jobs = {j1, j2, j3}
  Existing = {j1, j2}
  Requests = {r1, r2, r3}
  Reports = {d1}
  Errors = {e1}
  Tokens = {2, 3}
  Owner <- TwoOwners
  Funds <- SeededWithFive
  MinEstimate = 3
  Serialised = TRUE
  Null = Null
SYMMETRY RequestSymmetry
INVARIANT OneDebitPerOpening
PROPERTY ActsAtomically
CHECK_DEADLOCK FALSE
