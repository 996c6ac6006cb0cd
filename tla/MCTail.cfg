SPECIFICATION FairSpec
CONSTANTS
  ReadSize = 3
  Ways = {"rename", "truncate"}
  MaxLines = 4
  MaxRotations = 2
INVARIANTS
  TypeOK
  ReadsWhole
  OnceInOrder
PROPERTY
  ShrinkNoticed
CHECK_DEADLOCK FALSE
