SPECIFICATION Spec
CONSTANTS
  n1 = n1
  n2 = n2
  n3 = n3
  w1 = w1
  w2 = w2
  VPSieNodes <- ThreeVPSieNodes
  Watchers <- TwoWatchers
  Limit = 2
  Lag = FALSE
  Intelligent = TRUE
  Failing <- Nobody
  Changes = 0
  Demand = 2
SYMMETRY Interchangeable
INVARIANTS
  TypeOK
  DesiredInRange
PROPERTIES
  MinKept
  MaxKept
CHECK_DEADLOCK FALSE
