SPECIFICATION FairSpec
CONSTANTS
  Half = 8
  CharHalf = 8
  Prog <- ProgramsProg
  Entry <- ProgramsEntry
  Code <- ProgramsCode
  MainEntry = 1
  NGlobals = 2
  Capacity = 52
  Strings <- NoStrings
  MaxClosureArgc = 2
  MaxObjects = 2
CHECK_DEADLOCK FALSE
INVARIANTS FactorialResult CounterResult
PROPERTY Terminates
