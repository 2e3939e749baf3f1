\* Two uploads that overlap in every way, every failure at any step.
SPECIFICATION WebSpec
CONSTANTS
  NumFrames = 2
  QDepth = 1
  Events = {"open", "decode", "detect", "swap", "pipe", "slow"}
  Uploads = {u1, u2}
  Mine = u1
  WebEvents = {"load", "cpu", "picture", "form"}
INVARIANTS WebTypeOK FilesOfJobsInFlight NoEncoderLeft
PROPERTIES WebImplementsStreamJob
\* A job that has ended stays so.
CHECK_DEADLOCK FALSE
