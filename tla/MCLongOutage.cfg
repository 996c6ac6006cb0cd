SPECIFICATION LSpec
CONSTANTS
  Checkers <- OneRedis
  Components <- RedisConnection
  Reports <- UpOrDown
  Cancelled <- CannotDial
  DayLength = 6
  Threshold = 1
  Retention = 2
  MaxTime = 5
  MaxRestarts = 1
INVARIANT
  LongOutageStaysOnRecord
CHECK_DEADLOCK FALSE
