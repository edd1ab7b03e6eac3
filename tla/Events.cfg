SPECIFICATION FairSpec
CONSTANTS
  t1 = t1
  t2 = t2
  t3 = t3
  Thread = {t1, t2, t3}
  Garbage <- MCGarbage
  LateCalls = FALSE
INVARIANTS
  WaitersAccountedFor
PROPERTIES
  PostReleasesWaiters
  TimedWaitReturns
  ImplementsEventSemSpec
