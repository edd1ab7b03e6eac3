SPECIFICATION Spec
CONSTANTS
  NumWindows = 2
  Item = {1, 2, 3}
  Filter <- QuitOnly
  Programs <- Filtering
  Null = Null
  Desktop = Desktop
INVARIANTS
  QueueAssertionHolds
