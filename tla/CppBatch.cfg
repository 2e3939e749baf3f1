\* Two videos, one after the other, queues of two frames; everything that can go wrong
\* may go wrong at any step. What a job running at the same time can do to this
\* one, set cancel, the interrupt does at any step too.
SPECIFICATION FairSpec
CONSTANTS
  NumJobs = 2
  NumFrames = 4
  Depth = 2
  Concurrency = 1
  Events = {"interrupt", "pipe", "open"}
INVARIANTS TypeOK OkIsComplete SomebodyGoesOn
PROPERTIES JobsEnd ImplementsStreamJob
\* A batch ends, and a cancelled one may be stuck, see JobsEnd.
CHECK_DEADLOCK FALSE
