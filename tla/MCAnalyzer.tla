----------------------------- MODULE MCAnalyzer -----------------------------
(* Replies of every kind, quick and late; delays straddle the timeout.     *)
EXTENDS Analyzer

Reply(kind, usage, delay) == [kind |-> kind, usage |-> usage, delay |-> delay]

AllReplies ==
  {Reply("report", 7, 1), Reply("report", 0, 4000), Reply("notJson", 5, 1),
   Reply("badSchema", 5, 1), Reply("notObject", 5, 1), Reply("rateLimit", 0, 1),
   Reply("apiError", 0, 1), Reply("report", 9, timeout)}

UpToTwo == -1..2
=============================================================================
