SPECIFICATION Spec
CONSTANTS
  NoCode = NoCode
  g1 = g1
  g2 = g2
  v1 = v1
  Generates = {g1, g2}
  Verifies = {v1}
  Consumes = {}
  TtlSeconds = 2
  ResendCooldownSeconds = 1
  MaxAttempts = 2
  BadLengthCalls = {}
  ConsumeOnVerify = FALSE
  SwallowErrors = TRUE
  CarriesFailures = TRUE
  SharedEntries = TRUE
  StorageFaults = FALSE
  DeliveryFaults = FALSE
  AuditFaults = FALSE
  Crashes = {}
  SlowDelivery = TRUE
INVARIANTS
  RetiredStaysRetired
