\* Termination, with every failure and every route, without the caps that would end the
\* job anyway (the 30-minute deadline and the bounded joins). No symmetry: the properties
\* are temporal.
SPECIFICATION FairSpec
CONSTANTS
  NumFrames = 3
  w1 = w1
  w2 = w2
  s1 = s1
  s2 = s2
  s3 = s3
  s4 = s4
  Workers = {w1}
  Slots = {s1, s2}
  NoSlot = NoSlot
  Events = {"pause", "stop", "frameError", "fatal", "crash", "pipe", "decode"}
PROPERTIES JobEnds ThreadsEnd
\* demux may be left behind, see ThreadsEnd.
CHECK_DEADLOCK FALSE
