SPECIFICATION Spec
CONSTANTS
  Half = 1
  CharHalf = 1
  Prog <- AnyProg
  Entry <- AnyEntry
  Code <- AnyCode
  MainEntry = 1
  NGlobals = 1
  Capacity = 14
  Strings <- MCStrings
  MaxClosureArgc = 1
  MaxObjects = 2
CHECK_DEADLOCK FALSE
INVARIANTS TypeOK CallingConvention AddressesLive
PROPERTIES CallerUntouched ImplementsCalls
