\* Two workers that overtake each other, the pool of four slots that goes with them, and
\* a fifth frame that needs a recycled slot.
SPECIFICATION Spec
CONSTANTS
  NumFrames = 5
  w1 = w1
  w2 = w2
  s1 = s1
  s2 = s2
  s3 = s3
  s4 = s4
  Workers = {w1, w2}
  Slots = {s1, s2, s3, s4}
  NoSlot = NoSlot
  Events = {"frameError"}
SYMMETRY Symmetry
INVARIANTS SlotsExclusive OutputInOrder DrainerLeavesNothing
