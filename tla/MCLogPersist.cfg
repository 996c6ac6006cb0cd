SPECIFICATION Spec
CONSTANTS
  SaveEvery = 2
  DayLength = 1
  Retention = 1
  MaxAge = 1
  Zone = 0
  Yearless = TRUE
  YearLength = 2
  MaxTime = 2
  MaxLines = 1
  MaxRestarts = 2
INVARIANTS
  TypeOK
  UnsavedBounded
  LinesCountedOnce
PROPERTY
  DayFilesGrow
CHECK_DEADLOCK FALSE
