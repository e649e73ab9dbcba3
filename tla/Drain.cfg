SPECIFICATION FairSpec
CONSTANTS
  web = web
  db = db
  agent = agent
  Pods <- AllPods
  DaemonPods <- TheAgent
  BarePods <- Nothing
  StatefulPods <- TheDatabase
  MaxEvictionRetries = 2
  Replacements = 1
  Rounds = 2
INVARIANTS
  TypeOK
  DrainedStaysEmpty
PROPERTIES
  ListedPodsGone
  DrainsEnd
CHECK_DEADLOCK FALSE
