SPECIFICATION Spec
CONSTANTS
  NoCode = NoCode
  g1 = g1
  g2 = g2
  v1 = v1
  c1 = c1
  Generates = {g1, g2}
  Verifies = {v1}
  Consumes = {c1}
  TtlSeconds = 2
  ResendCooldownSeconds = 1
  MaxAttempts = 1
  BadLengthCalls = {}
  ConsumeOnVerify = TRUE
  SwallowErrors = FALSE
  CarriesFailures = FALSE
  SharedEntries = FALSE
  StorageFaults = TRUE
  DeliveryFaults = TRUE
  AuditFaults = TRUE
  Crashes = {g1, g2, v1, c1}
  SlowDelivery = TRUE
INVARIANTS
  RetiredStaysRetired
  FailedLeavesNothing
SYMMETRY Symmetry
PROPERTIES
  UsesContract
