SPECIFICATION FairSpec
CONSTANTS
  p1 = p1
  p2 = p2
  p3 = p3
  p4 = p4
  w1 = w1
  w2 = w2
  g1 = g1
  g2 = g2
  g3 = g3
  None = None
  Pods <- FitAndUnfit
  Watchers <- OneWatcher
  Groups <- ThreeGroups
  Selector <- Selectors
  Tolerations <- TolerationsOf
  SystemKeys <- System
  TemplateLabels <- Labels
  TemplateTaints <- Taints
  MinNodes = 1
  MaxNodes = 2
  Offers <- Sizes
  Capacity <- Capacities
  Price <- Prices
  Request <- Requests
  StaticSize = None
  BufferSize = 1
  Shrinking <- OneGroup
INVARIANTS
  TypeOK
  
  OneBeyondPeak
PROPERTIES
  PendingPodServed
