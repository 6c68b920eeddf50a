SPECIFICATION Spec
CONSTANTS
  NoCode = NoCode
  c1 = c1
  c2 = c2
  Codes = {c1, c2}
  MaxAttempts = 2
  Lifetimes = {1, 3}
  Cooldowns = {0, 1}
  Windows = {1}
  Second = 3
  LastInstantCalls = TRUE
  MaxFailures = 2
PROPERTIES
  ReadsApplyTtl
