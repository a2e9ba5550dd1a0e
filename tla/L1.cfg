SPECIFICATION MCSpec
CONSTANTS
  LineSize = 16
  MAX_SIZE = 400
  MIN_ASSOC = 4
  MAX_ASSOC = 16
  MIN_WAY_SIZE = 16
  MAX_WAY_SIZE = 256
  EPOCHS = 3
  MIN_CACHE_LINE = 8
  MissTime = 3
  Disturbances = 1
  LoopSize = 15
  Rings <- MCRings
  LineRings <- MCLineRings
  MaxRings = 2
  Shuffles <- MCShuffles
CHECK_DEADLOCK FALSE
INVARIANTS WholeRing ArrayBounds MissesByPlace SizeRight OverrunForeseen
