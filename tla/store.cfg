CONSTANTS
  Workflow = {w1, w2, w3}
  NoWorkflow = NoWorkflow
  ProgressStage = {"COMMIT_RESULT"}
  MaxStageAttempts = 2
  LeaseTicks = 1
  MaxLapses = 1
  MaxStateVersion = 2
SPECIFICATION Spec
SYMMETRY Symmetry
INVARIANTS
  TypeOK
  ResultIsNewest
  StoreInvariant
PROPERTIES
  TerminalIsFinal
  SupersededNeverSucceeds
  OpenedByCurrentAttempt
  PublicationSpec
CHECK_DEADLOCK FALSE
