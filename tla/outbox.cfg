CONSTANTS
  Session = {s1}
  NoSession = NoSession
  Consumer = {c1, c2}
  Operator = {o1, o2}
  Request = {q1, q2}
  MaxCleanupAttempts = 2
  MaxFaults = 1
  CallSession = {t1, t2}
  NoCallSession = NoCallSession
  MaxTransportAttempts = 2
  MaxCallFaults = 1
  Run = {r1, r2}
  NoRunToPublish = NoRunToPublish
  Dispatcher = {d1, d2}
  MaxDispatchFaults = 2
SPECIFICATION OutboxSpec
INVARIANTS
  OutboxTypeOK
  AcceptedMeansDeleted
  CleanupIsForGivenUp
  DuplicatesComeFromFaults
PROPERTIES
  SettledRowsStay
  CleanupPromise
  EverySessionEnds
  PublishedIsFinal
  EveryRunIsSent
CHECK_DEADLOCK FALSE
