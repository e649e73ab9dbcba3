SPECIFICATION Spec
CONSTANTS
  None = None
  OwnName = OwnName
  v1 = v1
  m1 = m1
  m2 = m2
  VPSieNodes <- OneNode
  Machines <- TwoMachines
  Answers <- Sync
  Listed <- TwoMachines
  ForeignVM = TRUE
  HostnameMatches <- NoMatches
  Vanishing <- OnlyM1
  InfoEndpoint = TRUE
INVARIANTS
  RecordedOnce
  DrainedIsDeleted
PROPERTIES
  PhaseOrder
  DeletedForAReason
CHECK_DEADLOCK FALSE
