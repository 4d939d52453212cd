SPECIFICATION Spec
CONSTANTS
  Names = {n1, n2}
  UIDs = {1, 2}
  Scenarios <- Undisturbed
CHECK_DEADLOCK FALSE
INVARIANT OccupancyWithinCapacity
