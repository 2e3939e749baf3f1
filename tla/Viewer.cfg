\* Every loss, error and click, at any step; a video with one segment more than the first buffer
\* needs, of which a job may also leave less.
SPECIFICATION FairSpec
CONSTANTS
  NumSegs = 3
  Prebuffer = 2
  MaxFaults = 1
  MaxProbes = 2
  Events = {"lose", "fail", "wipe", "click", "policy"}
INVARIANTS TypeOK OneStream
PROPERTIES SeesTheEnd PlaysWhatIsDone
\* Nothing is left to do once the job has ended and its video plays.
CHECK_DEADLOCK FALSE
