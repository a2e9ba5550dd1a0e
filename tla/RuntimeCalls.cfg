SPECIFICATION Spec
CONSTANTS
  Functions <- LibraryFunctions
  Starters <- LibraryStarters
  Mutators = {"code", "eval"}
  Body <- LibraryBody
  Params <- LibraryParams
  Variables <- LibraryVariables
  Calls <- LibraryCalls
  Held <- LibraryHeld
  Before <- LibraryBefore
  Offenders <- LibraryOffenders
  StaleAt <- LibraryStaleAt
  StaleAbove <- LibraryStaleAbove
  Captures <- MCCaptures
  MaxRoots = 4
  MaxDepth = 6
CHECK_DEADLOCK FALSE
INVARIANTS TypeOK PoolMatched RootsSuffice TopReset ReadsFresh
