SPECIFICATION Spec
CONSTANTS
  Uploads = {u1, u2, u3}
  MaxStarts = 2
SYMMETRY UploadSymmetry
INVARIANTS TypeOK SentIsReady CreatedIsSent
CHECK_DEADLOCK FALSE
