SPECIFICATION Spec
CONSTANTS
  Ints = {0, 1}
  Contents = {a, b}
  Tags = {Cons, Nil}
  MaxLen = 2
  MaxDepth = 2
CHECK_DEADLOCK FALSE
INVARIANT NamesRight
