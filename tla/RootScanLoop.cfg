SPECIFICATION FairSpec
CONSTANTS
  Top = 32
  Depth = 4
  TextStart = 8
  TextEnd = 15
  FromBegin = 60
  FromEnd = 68
  Words <- MCWords
  CopyOf <- MCCopy
CHECK_DEADLOCK FALSE
INVARIANTS TypeOK RootsMoved
PROPERTY ScanEnds
