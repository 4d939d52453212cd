SPECIFICATION FairSpec
CONSTANTS
  Backend = "pvc"
  Scenarios <- FinishOnly
CHECK_DEADLOCK FALSE
PROPERTY DetourReturns
