SPECIFICATION Spec
CONSTANTS
  Names = {n1, n2, n3}
  UIDs = {1, 2, 3}
  Scenarios <- SafetyScenarios
CHECK_DEADLOCK FALSE
SYMMETRY Symmetry
INVARIANTS TypeOK SlotsWithinCapacity
PROPERTIES GrantsWithinCapacity NoQueueJump
