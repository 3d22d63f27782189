SPECIFICATION FairSpec
CONSTANTS
  Workers = {w1}
  Messages = {m1, bad}
  Poison = {bad}
  MaxFaults = 0
  Null = Null
PROPERTY EveryJobConcluded
CHECK_DEADLOCK FALSE
