SPECIFICATION FairSpec
CONSTANTS
  AgentIDs = {a1}
  Requests = {r1, r2}
  Scenarios <- KilledInWake
CHECK_DEADLOCK FALSE
PROPERTIES
  DeleteCompletes
