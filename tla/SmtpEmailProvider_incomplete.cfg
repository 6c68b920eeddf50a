SPECIFICATION Spec
CONSTANTS
  Sends = {s1, s2, s3, s4}
  MaxInits = 3
PROPERTIES
  InitRetried
CHECK_DEADLOCK FALSE
