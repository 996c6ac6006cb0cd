SPECIFICATION FairSpec
CONSTANTS
  ReadSize = 3
  Ways = {"rename"}
  MaxLines = 2
  MaxRotations = 1
PROPERTY
  RotationNoticed
CHECK_DEADLOCK FALSE
