SPECIFICATION MCSpec
CONSTANTS
  Program <- Recursive
  Sessions <- Ordinary
  Unreadable = {7}
  MaxDepth = 3
  Nowhere = Nowhere
  Launches <- Starts
  LdtSlots = 4
  SegmentSize = 4
  WordSize = 4
  TopAddress = 16
  MaxApiEntries = 2
INVARIANTS
  DebuggerSeesTheProgram
  PromptIsClean
  ProgramUndisturbed
  StepIsOneInstruction
  ProgramStandsAtItsEntry
  MemoryAccessIsExact
PROPERTIES
  StartEnds
  CommandEnds
CHECK_DEADLOCK FALSE
