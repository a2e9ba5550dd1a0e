SPECIFICATION FairSpec
CONSTANTS
  InitialSpace = 5
  MaxSpace = 10
  MaxArenas = 3
  Careful = TRUE
  Progs <- AllProgs
CHECK_DEADLOCK FALSE
INVARIANTS TypeOK NoDangling NoInternalError HeapTiled
PROPERTIES ImplementsGraph AllocReturns
