\* Two faults of any kind, at any step, and between the processes an exchanged swapper, which
\* a resume notices, or detector, which it does not. The last checkpoint is at the end of the video.
SPECIFICATION FairSpec
CONSTANTS
  NumFrames = 4
  CkptEvery = 2
  MaxFaults = 2
  Faults = {"interrupted", "error", "killed"}
  Changes = {"swap", "detector"}
INVARIANTS TypeOK OutputComplete OutputOfOneInput RowsKept VerdictOfOneProcess
PROPERTIES Recovers
CHECK_DEADLOCK FALSE
