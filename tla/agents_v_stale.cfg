SPECIFICATION Spec
CONSTANTS
  AgentIDs = {a1}
  Requests = {r1, r2}
  Scenarios <- StaleListing
CHECK_DEADLOCK FALSE
INVARIANTS
  WorkIsAlwaysKept
