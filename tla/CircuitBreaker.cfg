SPECIFICATION FairSpec
CONSTANTS
  c1 = c1
  c2 = c2
  c3 = c3
  Callers <- ThreeCallers
  FailureThreshold = 2
  SuccessThreshold = 3
  MaxHalfOpenRequests = 1
  WindowSize = 3
  FailureRate = 2
INVARIANTS
  TypeOK
  HalfOpenAccounting
PROPERTIES
  ThresholdsMet
  BreakerMovesOn
