SPECIFICATION Spec
CONSTANTS
  a1 = a1
  a2 = a2
  a3 = a3
  b = b
  c = c
  p = p
  q = q
  Nodes <- FourNodes
  Established <- ThreeReady
  Pods <- TwoPods
  Request <- RequestsOf
  Capacity <- Capacities
  Offering <- OfferingOf
  CurrentOffering = "dear"
  LocalPods <- Local
  LocalNodes <- Nothing
  MinNodes = 1
  MaxNodes = 7
  MinHealthyPercent = 60
  MaintenanceWindows <- Windows
  Days <- Week
  BatchSizes <- OneOrTwo
  Concurrency <- OneOrTwo
INVARIANTS
  TypeOK
  CountedOnce
PROPERTIES
  EmptyWhenDeleted
CHECK_DEADLOCK FALSE
