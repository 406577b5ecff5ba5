CONSTANTS
  Workflow = {w1}
  NoWorkflow = NoWorkflow
  ProgressStage = {"FINANCE_AND_RANK", "COMMIT_RESULT"}
  MaxStageAttempts = 2
  LeaseTicks = 1
  MaxLapses = 1
  MaxStateVersion = 2
  Worker = {i1, i2}
  Dispatcher = {d1}
  MaxDispatchFaults = 0
  MaxCrashes = 0
  MaxStalls = 1
SPECIFICATION FairRuntimeSpec
PROPERTIES
  EveryRunEnds
CHECK_DEADLOCK FALSE
