SPECIFICATION MCSpec
CONSTANTS
  Name = {"a", "b", "c"}
  Module = {1, 2, 3, 4, 5, 6}
  Worlds <- Disks
  MaxDepth = 3
  MaxLoads = 2
  Null = Null
  t1 = t1
  t2 = t2
  Thread = {t1, t2}
  NumSlots = 9
  FirstTile = 3
  LastTile = 6
  Stack = {2}
  Piece <- Pieces
  HugeSizes = {2}
  MaxPointers = 1
  ByteBase = 4
  PageSize = 8
  SegmentOf <- Segs
  FreeTiles <- Tiles
  Hosts <- HostSelectors
  Images <- Good
  Library <- Libs
  TlsThread = {t1, t2}
  TlsSlots = 3
  MaxBlock = 2
  Sizes = {1, 2, 3}
  Value = {0, 1}
  Instructions <- Touches
  Nothing = Nothing
INVARIANTS
  ModuleListIsSound
  SegmentsAreSound
  ImageIsAsLinked
  MissingEntriesAreReported
  BookkeepingAgrees
  HeldBlocksAreRecorded
  ThreadSeesItsOwnStores
PROPERTIES
  LibraryCallsInOrder
CHECK_DEADLOCK FALSE
