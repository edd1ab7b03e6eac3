SPECIFICATION MCSpec
CONSTANTS
  Program <- Recursive
  Sessions <- SteppedAndKilled
  Unreadable = {}
  MaxDepth = 2
  Nowhere = Nowhere
  Launches <- Starts
  LdtSlots = 4
  SegmentSize = 4
  WordSize = 4
  TopAddress = 16
  MaxApiEntries = 2
PROPERTIES
  EveryWaitIsAnswered
CHECK_DEADLOCK FALSE
