SPECIFICATION FairSpec
CONSTANTS
  AgentIDs = {a1}
  Requests = {r1, r2}
  Scenarios <- LivenessScenarios
CHECK_DEADLOCK FALSE
PROPERTIES
  InterruptedSettles
  DeleteCompletes
  RunningIsHonest
