SPECIFICATION Spec
CONSTANTS
  NoCode = NoCode
  g1 = g1
  g2 = g2
  Generates = {g1, g2}
  Verifies = {}
  Consumes = {}
  TtlSeconds = 2
  ResendCooldownSeconds = 1
  MaxAttempts = 2
  BadLengthCalls = {}
  ConsumeOnVerify = TRUE
  SwallowErrors = TRUE
  CarriesFailures = TRUE
  SharedEntries = FALSE
  StorageFaults = FALSE
  DeliveryFaults = TRUE
  AuditFaults = FALSE
  Crashes = {}
  SlowDelivery = FALSE
INVARIANTS
  LockedOutHasCode
SYMMETRY Symmetry
