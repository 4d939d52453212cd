SPECIFICATION Spec
CONSTANTS
  AgentIDs = {a1, a2}
  Requests = {r1, r2}
  Scenarios <- SafetyScenarios
CHECK_DEADLOCK FALSE
SYMMETRY Symmetry
INVARIANTS
  TypeOK
  OneHolder
  WorkIsKept
  NothingIsOrphaned
  RunningNamesItsContainer
  
PROPERTIES
  NoFalseExit
  TeardownOnlyRemoves
