SPECIFICATION Spec
CONSTANTS
  InitialSpace = 5
  MaxSpace = 10
  MaxArenas = 3
  Careful = FALSE
  Progs <- PairProgs
CHECK_DEADLOCK FALSE
INVARIANT StackScanned
