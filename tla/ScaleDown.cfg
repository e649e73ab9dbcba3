SPECIFICATION Spec
CONSTANTS
  None = None
  n1 = n1
  n2 = n2
  n3 = n3
  p1 = p1
  p2 = p2
  p3 = p3
  Group <- TwoNodes
  Foreign <- OneForeign
  Capacity = 8
  MinNodes = 1
  Pods <- ThreePods
  Requests <- SmallAndLarge
  Spread <- TwoSpread
  LocalStorage <- OnlyP3
  SystemPods <- OnlyP2
  Critical <- NoPods
  Window = 2
  MaxStaleness = 1
  Cooldown = 1
  MaxSamples = 2
  Threshold = 50
  Low = 10
  High = 90
  Moody <- OnlyN1
  Silent <- OnlyN1
  Shaky <- OnlyN3
  Protectable <- OnlyN1
  PolicyEnabled = TRUE
  Day = 2
  AllowedHours <- OvernightOfN2
INVARIANTS
  TypeOK
PROPERTIES
  BusyNodesStay
  DrainLeavesRoom
