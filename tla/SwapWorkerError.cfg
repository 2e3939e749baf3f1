\* A worker reports that it could not swap a frame.
SPECIFICATION Spec
CONSTANTS
  NumFrames = 3
  w1 = w1
  w2 = w2
  s1 = s1
  s2 = s2
  s3 = s3
  s4 = s4
  Workers = {w1}
  Slots = {s1, s2}
  NoSlot = NoSlot
  Events = {"frameError"}
INVARIANT WorkerErrorIsFatal
