SPECIFICATION Spec
CONSTANTS
  Fields <- AnalyzerFields
  Files <- MCFiles
  TextWords = {0, 7}
CHECK_DEADLOCK FALSE
INVARIANT PointersRight
