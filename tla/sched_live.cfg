SPECIFICATION FairSpec
CONSTANTS
  Names = {n1, n2}
  UIDs = {1, 2}
  Scenarios <- LivenessScenarios
CHECK_DEADLOCK FALSE
PROPERTY HeadIsAdmitted
