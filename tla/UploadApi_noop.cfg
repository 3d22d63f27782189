SPECIFICATION FairSpec
CONSTANTS
  Uploads = {u1, u2}
  MaxStarts = 1
PROPERTY CreatedIsTaken
CHECK_DEADLOCK FALSE
