\* One task and the generator, with two registrations between them.
SPECIFICATION Spec
CONSTANTS
  Tasks = {t1}
  Mock = mock
  MAX_ACTIVE = 2
  Codes = {1}
  MaxIds = 2
  MaxBytes = 1
  MaxErrors = 1
INVARIANTS
  MetricsInv
  SkewIsBounded
CHECK_DEADLOCK FALSE
