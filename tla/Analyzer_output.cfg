SPECIFICATION FairSpec
CONSTANTS
  Replies <- AllReplies
  Retries <- UpToTwo
INVARIANT InvalidOutputFallsBack
CHECK_DEADLOCK FALSE
