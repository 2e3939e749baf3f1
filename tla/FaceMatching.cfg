\* Two sources, five faces in the scan, three places; a source stays warm for one frame. The pool
\* holds four identities.
SPECIFICATION Spec
CONSTANTS
  Programs = {"engine", "webapp", "workers", "server"}
  K = 2
  NumCands = 5
  NumPlaces = 3
  CarryFrames = 1
  MaxRetry = 2
  PoolMin = 3
  PoolExtra = 1
  Scale = 60
INVARIANTS EverySourceHasItsPerson KeepsTheBest
PROPERTIES SwapStaysStable
\* A failed scan is the end.
CHECK_DEADLOCK FALSE
