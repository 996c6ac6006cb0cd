SPECIFICATION ESpec
CONSTANTS
  Checkers <- RedisAndMemory
  Components <- TheirComponents
  Reports <- TheirReports
  Cancelled <- TheirCancelled
  DayLength = 1
  Threshold = 1
  Retention = 2
  MaxTime = 2
  MaxRestarts = 1
INVARIANTS
  TypeOK
  OutageIsTimed
  AlertsTellStatus
  PageAgrees
  HistoryInOrder
  SavedBetweenCycles
  HistoryExplained
CHECK_DEADLOCK FALSE
