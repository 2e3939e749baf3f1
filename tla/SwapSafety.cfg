\* One worker with its two slots, four frames so that every slot is used again, and
\* everything that can happen to a job.
SPECIFICATION Spec
CONSTANTS
  NumFrames = 4
  w1 = w1
  w2 = w2
  s1 = s1
  s2 = s2
  s3 = s3
  s4 = s4
  Workers = {w1}
  Slots = {s1, s2}
  NoSlot = NoSlot
  Events = {"pause", "stop", "frameError", "fatal", "crash", "pipe", "decode", "deadline", "slow"}
SYMMETRY Symmetry
INVARIANTS TypeOK SlotsAccounted Backpressure SomebodyGoesOn
PROPERTIES QuietAfterClose ImplementsStreamJob
\* A paused job that runs into the deadline leaves its threads behind and stops there.
CHECK_DEADLOCK FALSE
