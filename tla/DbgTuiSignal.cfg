SPECIFICATION MCSpec
CONSTANTS
  Program <- Recursive
  Sessions <- TuiWithSignal
  Unreadable = {}
  MaxDepth = 2
  Nowhere = Nowhere
  Launches <- Starts
  LdtSlots = 4
  SegmentSize = 4
  WordSize = 4
  TopAddress = 16
  MaxApiEntries = 2
INVARIANTS
  ProgramUndisturbed
CHECK_DEADLOCK FALSE
