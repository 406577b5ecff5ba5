CONSTANTS
  Workflow = {w1}
  NoWorkflow = NoWorkflow
  ProgressStage = {"COMMIT_RESULT"}
  MaxStageAttempts = 2
  LeaseTicks = 1
  MaxLapses = 2
  MaxStateVersion = 2
  Worker = {i1, i2}
  Dispatcher = {d1}
  MaxDispatchFaults = 0
  MaxCrashes = 1
  MaxStalls = 1
SPECIFICATION FairRuntimeSpec
PROPERTIES
  EveryRunEndsUnlessStalled
CHECK_DEADLOCK FALSE
