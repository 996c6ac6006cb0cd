SPECIFICATION FairSpec
CONSTANTS
  Callers = {handler, timer}
  Kernel = {1}
  Window = 2
  Chunk = 1
  Day = 3
  MaxTime = 6
  MaxRestarts = 1
  Clock <- FewInstants
INVARIANTS
  TypeOK
  InFlightIsTrue
  CountedOnce
  WeekIsCovered
PROPERTY
  SyncEnds
CHECK_DEADLOCK FALSE
