SPECIFICATION FairSpec
CONSTANTS
  None = None
  OwnName = OwnName
  v1 = v1
  m1 = m1
  m2 = m2
  VPSieNodes <- OneNode
  Machines <- OneMachine
  Answers <- AllAnswers
  Listed <- OnlyM1
  ForeignVM = TRUE
  HostnameMatches <- M1IsNamedAfterV1
  Vanishing <- OnlyM1
  InfoEndpoint = TRUE
INVARIANTS
  TypeOK
  IdentifiedVPSDeleted
PROPERTIES
  KeepsLifecycle
  LifeGoesOn
CHECK_DEADLOCK FALSE
