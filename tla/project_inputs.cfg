CONSTANTS
  Case = {a}
  NoCase = NoCase
  Author = {k1, r1, r2}
  NoAuthor = NoAuthor
  MaxStateVersion = 4
  MaxGeneration = 3
  Key = {k1}
  NoKey = NoKey
  Decision = {"REVIEW_REQUIRED", "NOOP"}
  Creator = {c1, c2}
  NoProposal = NoProposal
  Resolver = {x1}
  Document = {d1}
  Revision = {r1, r2}
  NoRevision = NoRevision
  Value = {v1, v2}
  Cleared = Cleared
  Processor = {q1, q2}
  Editor = {e1}
  Applier = {a1}
  MaxInputs = 2
  MaxCalls = 2
SPECIFICATION InputsSpec
SYMMETRY Symmetry
INVARIANTS
  InputsTypeOK
  PreviewIsForItsHead
  ConfirmedOnTheStateItShowed
  CompetingClaimsAreInConflict
  AppliedAsRead
PROPERTIES
  ProposalIsStable
  ReadyFormsAreKept
CHECK_DEADLOCK FALSE
