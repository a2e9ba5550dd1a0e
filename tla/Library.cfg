SPECIFICATION Spec
CONSTANTS
  HalfWord = 16
  HashRange = 32
  HashDepth = 3
  ConsTag = 7
  Data <- MCData
  Nesting <- MCNesting
  MaxNesting = 5
  Apart <- MCApart
  MaxApart = 3
  Names <- MCNames
  Printable <- MCPrintable
  StringBufInit = 2
CHECK_DEADLOCK FALSE
INVARIANTS CompareEqual CompareOrders HashAgrees TagNames TextComplete BufferRoom
PROPERTY TextPrinted
