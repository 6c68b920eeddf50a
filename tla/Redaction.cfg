SPECIFICATION Spec
CONSTANTS
  n1 = n1
  n2 = n2
  n3 = n3
  a = a
  b = b
  Chars = {a, b}
  Marker = Marker
  MinEcho = 2
  MaxText = 4
  Failures <- MCFailures
  Nodes = {n1, n2, n3}
  Cleanup = n3
  Code = {code}
  Echoes = {echo}
  Rejections <- MCRejections
  MaxSubfieldDigits = 3
  Deliveries <- MCDeliveries
CHECK_DEADLOCK FALSE
INVARIANTS
  TypeOK
  NoSecretSurvives
  NoEchoSurvives
  OnlySecretsRemoved
  ThrownIsClean
  NoEchoLeaves
  NeverHalfClean
  ShapeKept
  SameObjects
  NoSecretPublished
  OneStatusOrSilence
PROPERTIES
  Returns
