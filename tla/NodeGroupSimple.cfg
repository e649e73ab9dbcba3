SPECIFICATION FairSpec
CONSTANTS
  n1 = n1
  n2 = n2
  n3 = n3
  w1 = w1
  w2 = w2
  VPSieNodes <- ThreeVPSieNodes
  Watchers <- OneWatcher
  Limit = 3
  Lag = FALSE
  Intelligent = FALSE
  Failing <- ThreeVPSieNodes
  Changes = 1
  Demand = 0
PROPERTIES
  UnreadyFirst
  ScaleUpHappens
CHECK_DEADLOCK FALSE
