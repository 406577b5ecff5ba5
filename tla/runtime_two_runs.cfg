CONSTANTS
  Workflow = {w1, w2}
  NoWorkflow = NoWorkflow
  ProgressStage = {"FINANCE_AND_RANK", "CANDIDATE_AUDIT", "COMMIT_RESULT"}
  MaxStageAttempts = 1
  LeaseTicks = 1
  MaxLapses = 1
  MaxStateVersion = 2
  Worker = {i1, i2}
  Dispatcher = {d1}
  MaxDispatchFaults = 0
  MaxCrashes = 0
  MaxStalls = 1
SPECIFICATION RuntimeSpec
SYMMETRY Symmetry
INVARIANTS
  SuccessShowsEveryCheckpoint
PROPERTIES
  ResultFromItsOwnHead
  StoreSpec
CHECK_DEADLOCK FALSE
