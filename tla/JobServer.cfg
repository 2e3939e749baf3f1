\* A job and two batches in any order, every failure at any step.
SPECIFICATION Spec
CONSTANTS
  Singles = {s1}
  Batches = {b1, b2}
  Videos = 2
  NoItem = NoItem
  Events = {"load", "cpu", "face", "crash", "job", "remux"}
INVARIANTS TypeOK RegistryMatchesDisk BatchVerdict
\* The server rests when every upload has been dealt with.
CHECK_DEADLOCK FALSE
