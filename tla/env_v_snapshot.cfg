SPECIFICATION Spec
CONSTANTS
  Backend = "s3"
  Scenarios <- EarlySuspend
CHECK_DEADLOCK FALSE
PROPERTY EveryFreezeSavesWork
