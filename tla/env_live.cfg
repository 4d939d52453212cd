SPECIFICATION FairSpec
CONSTANTS
  Backend = "s3"
  Scenarios <- LivenessScenarios
CHECK_DEADLOCK FALSE
PROPERTIES EventuallyArchived SlotEventuallyFreed DetourReturns DeletionCompletes
