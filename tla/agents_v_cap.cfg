SPECIFICATION Spec
CONSTANTS
  AgentIDs = {a1, a2}
  Requests = {r1, r2}
  Scenarios <- FullHouse
CHECK_DEADLOCK FALSE
INVARIANTS
  LiveWithinCap
