SPECIFICATION Spec
CONSTANTS
  NoCode = NoCode
  g1 = g1
  g2 = g2
  g3 = g3
  v1 = v1
  v2 = v2
  v3 = v3
  Generates = {g1, g2, g3}
  Verifies = {v1, v2, v3}
  Consumes = {}
  TtlSeconds = 1
  ResendCooldownSeconds = 0
  MaxAttempts = 2
  BadLengthCalls = {g3}
  ConsumeOnVerify = TRUE
  SwallowErrors = TRUE
  CarriesFailures = TRUE
  SharedEntries = TRUE
  StorageFaults = FALSE
  DeliveryFaults = FALSE
  AuditFaults = FALSE
  Crashes = {}
  SlowDelivery = TRUE
INVARIANTS
  TypeOK
  RemainingInRange
  AttemptBudget
  CodeBudget
SYMMETRY Symmetry
