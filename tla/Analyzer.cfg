SPECIFICATION MCSpec
CONSTANTS
  Programs <- MCPrograms
  Fields <- InterpreterFields
  Files <- MCFiles
  TextWords = {0, 7}
CHECK_DEADLOCK FALSE
INVARIANTS InStep ReportComplete ReportOrdered PointersRight
