SPECIFICATION FairSpec
CONSTANTS
  Replies <- AllReplies
  Retries <- UpToTwo
INVARIANTS TypeOK ReturnsVerdict BacksOffExponentially
PROPERTY Terminates
CHECK_DEADLOCK FALSE
