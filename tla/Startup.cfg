SPECIFICATION StartupSpec
CONSTANTS
  OptionSets <- MCOptions
  Sends = {s1, s2, s3, s4}
  Direct = {s3, s4}
  MaxInits = 3
INVARIANTS
  FormsAgree
  NothingBuiltUnvalidated
  OneTransport
PROPERTIES
  ImportRetried
CHECK_DEADLOCK FALSE
