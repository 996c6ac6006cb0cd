SPECIFICATION Spec
CONSTANTS
  Kinds = {disk, http}
  Severities = {"warn", "error"}
  Saved <- MCSaved
  BucketSize = 2
  MaxTime = 4
  Ptr = {p1, p2, p3, p4, p5}
  MaxAge = 2
  MaxSize = 2
  PruneEvery = 2
  MaxFed = 5
SYMMETRY Symmetry
INVARIANTS
  TypeOK
  IndexInSync
  RangeQueriesExact
  SpanInBucket
  SizeBounded
PROPERTY
  BufferIsIncidentLog
CHECK_DEADLOCK FALSE
