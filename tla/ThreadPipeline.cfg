\* Every failure at any step. Queues of three: after the queues have been swept the
\* detector still puts up to three items into detect_q.
SPECIFICATION FairSpec
CONSTANTS
  NumFrames = 5
  QDepth = 3
  Events = {"open", "decode", "detect", "swap", "pipe", "slow"}
PROPERTIES ImplementsStreamJob JobEnds ThreadsEnd
\* A job that has ended stays so.
CHECK_DEADLOCK FALSE
