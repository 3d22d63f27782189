SPECIFICATION FairSpec
CONSTANTS
  Workers = {w1, w2}
  Messages = {m1, m2, bad}
  Poison = {bad}
  MaxFaults = 2
  Null = Null
INVARIANTS TypeOK EachMessageInOnePlace AckedIsCompleted DeadLetteredIsReported
PROPERTY EveryMessageSettled
CHECK_DEADLOCK FALSE
