SPECIFICATION Spec
CONSTANTS
  MaxPoints = 5
  SaveEvery = 2
  DayLength = 2
  Retention = 1
  Ranges = {1, 3}
  Limits = {2, 3}
  MaxTime = 5
  MaxPushes = 6
  MaxRestarts = 2
INVARIANTS
  TypeOK
  RangeExact
  GraphInOrder
  

  
CHECK_DEADLOCK FALSE
