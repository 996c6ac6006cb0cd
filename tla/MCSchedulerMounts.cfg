SPECIFICATION ESpec
CONSTANTS
  Checkers <- Linux
  Components <- LinuxDisk
  Reports <- TwoMounts
  Cancelled <- NoneCancelled
  DayLength = 2
  Threshold = 1
  Retention = 2
  MaxTime = 1
  MaxRestarts = 0
INVARIANT
  SteadyIsQuiet
CHECK_DEADLOCK FALSE
