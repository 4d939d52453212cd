SPECIFICATION Spec
CONSTANTS
  Backend = "s3"
  Scenarios <- SafetyScenarios
CHECK_DEADLOCK FALSE
INVARIANTS TypeOK SlotFollowsPhase ArchivedBeforeGone
PROPERTIES RefinesPhaseMachine FreezeSavesWork SnapshotNeverRegresses OutcomeIsFinal FinishedNeverRestarts
