SPECIFICATION Spec
CONSTANTS
  n1 = n1
  n2 = n2
  n3 = n3
  w1 = w1
  w2 = w2
  VPSieNodes <- TwoVPSieNodes
  Watchers <- OneWatcher
  Limit = 2
  Lag = FALSE
  Intelligent = TRUE
  Failing <- Nobody
  Changes = 1
  Demand = 2
PROPERTIES
  DrainedBeforeDeleted
CHECK_DEADLOCK FALSE
