SPECIFICATION FairSpec
CONSTANTS
  NoCode = NoCode
  g1 = g1
  g2 = g2
  v1 = v1
  v2 = v2
  Generates = {g1, g2}
  Verifies = {v1, v2}
  Consumes = {}
  TtlSeconds = 2
  ResendCooldownSeconds = 1
  MaxAttempts = 1
  BadLengthCalls = {}
  ConsumeOnVerify = FALSE
  SwallowErrors = TRUE
  CarriesFailures = TRUE
  SharedEntries = TRUE
  StorageFaults = FALSE
  DeliveryFaults = TRUE
  AuditFaults = FALSE
  Crashes = {g1}
  SlowDelivery = FALSE
INVARIANTS
  ResendsExclusive
PROPERTIES
  NeverRevived
  LocksLapse
