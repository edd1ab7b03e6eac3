SPECIFICATION MCSpec
CONSTANTS
  t1 = t1
  t2 = t2
  f1 = f1
  Thread = {t1, t2}
  FirstMax = 2
  Bound = 3
  LastStd = 0
  NumFds = 5
  Programs <- SizedOpens
  Closed = Closed
  NoFinder = NoFinder
  Finder = {f1}
  NumHdir16 = 1
  Entry <- Directory
  Query <- Queries
  Asked <- Calls
  Null = Null
  NumDrives = 4
  Lower <- LowerCase
  Tree0 <- Tree
  Cwd0 <- Starts
  Config <- Configs
  PathArg <- Args
  TreeLimit = 7
INVARIANTS
  FailedTruncateIsReported
