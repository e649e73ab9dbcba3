SPECIFICATION FairSpec
CONSTANTS
  n1 = n1
  n2 = n2
  n3 = n3
  w1 = w1
  w2 = w2
  VPSieNodes <- TwoVPSieNodes
  Watchers <- OneWatcher
  Limit = 2
  Lag = TRUE
  Intelligent = FALSE
  Failing <- Nobody
  Changes = 1
  Demand = 0
PROPERTIES
  ScaleUpHappens
  DeletionCompletes
CHECK_DEADLOCK FALSE
