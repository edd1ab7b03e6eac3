SPECIFICATION Spec
CONSTANTS
  NumWindows = 4
  Item = {1, 2, 3}
  Filter <- NoFilters
  Programs <- Sound
  Null = Null
  Desktop = Desktop
INVARIANTS
  TreeIsWhole
  PaintOrder
PROPERTIES
  ToldOnce
  ImplementsMsgFifo
CHECK_DEADLOCK FALSE
