SPECIFICATION Spec
CONSTANTS
  d1 = d1
  d2 = d2
  Dispatches = {d1, d2}
  Wrapped = {d1, d2}
  Channels = {"email", "interceptor"}
  Interval = 2
  MaxTime = 3
  MaxSteps = 1
SYMMETRY Symmetry
INVARIANTS
  TrailIsTrue
  RecordedOnce
  AuditNeverBreaks
  FailuresAccountedFor
PROPERTIES
  NoLongSilence
CHECK_DEADLOCK FALSE
