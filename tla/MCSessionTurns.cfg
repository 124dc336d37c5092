SPECIFICATION Spec
CHECK_DEADLOCK FALSE
CONSTANTS
  Registry <- MCRegistry
  MinSample = 1
  Workloads <- MCWorkloads
  TokensPerMessage = 5
  Family <- MCFamily
INVARIANTS
  PendingNamesProducer
  RecoveryBeforeEscalation
  EscalationIsStronger
  PinServesAlone
  ReviewerIndependent
PROPERTIES
  PrefixStable
  BoundaryMeetsMinimum
