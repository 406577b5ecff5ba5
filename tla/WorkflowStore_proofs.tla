------------------------- MODULE WorkflowStore_proofs -------------------------
(***************************************************************************)
(* Theorems about WorkflowStore, for any number of workflows, attempts,      *)
(* lease lengths and versions.                                              *)
(***************************************************************************)
EXTENDS WorkflowStore, TLAPS

-----------------------------------------------------------------------------
(* Type correctness.                                                       *)

LEMMA InitTypeOK == Init => TypeOK
BY StoreAssumption
   DEF Init, TypeOK, NoRun, NoStage, HeadFence, RunRow, StageRow, CheckpointRow,
       RunStatus, StageStatus, CheckpointStatus

LEMMA EnqueueTypeOK ==
  ASSUME TypeOK, stateVersion' \in Nat,
         NEW w \in Workflow, NEW source \in Workflow \cup {NoWorkflow}, NEW state \in Nat,
         EnqueueFirstProposal(w, source, state)
  PROVE  TypeOK'
<1>1. head' \in HeadFence
  BY DEF EnqueueFirstProposal, TypeOK, HeadFence
<1>2. run' \in [Workflow -> RunRow]
  BY <1>1 DEF EnqueueFirstProposal, TypeOK, RunRow, RunStatus, ActiveStatus
<1>3. stage' \in [Workflow -> StageRow]
  BY StoreAssumption DEF EnqueueFirstProposal, TypeOK, StageRow, StageStatus
<1>4. progress' \in [Workflow -> [ProgressStage -> CheckpointRow]]
  BY DEF EnqueueFirstProposal, TypeOK, CheckpointRow, CheckpointStatus
<1>5. QED
  BY <1>1, <1>2, <1>3, <1>4 DEF EnqueueFirstProposal, TypeOK

LEMMA MarkStaleTypeOK ==
  ASSUME TypeOK, NEW w \in Workflow, MarkStale(w)
  PROVE  TypeOK'
<1>1. run' \in [Workflow -> RunRow]
  BY DEF MarkStale, TypeOK, RunRow, RunStatus, TerminalStatus
<1>2. stage' \in [Workflow -> StageRow]
  BY DEF MarkStale, CancelStatus, TypeOK, StageRow, StageStatus
<1>3. progress' \in [Workflow -> [ProgressStage -> CheckpointRow]]
  BY DEF MarkStale, CancelStatus, TypeOK, CheckpointRow, CheckpointStatus
<1>4. QED
  BY <1>1, <1>2, <1>3 DEF MarkStale, projectVars, TypeOK

LEMMA NextTypeOK == TypeOK /\ [Next]_vars => TypeOK'
<1> SUFFICES ASSUME TypeOK, [Next]_vars
             PROVE  TypeOK'
  OBVIOUS
<1>1. CASE ConfirmOnboarding
  BY <1>1 DEF ConfirmOnboarding, TypeOK
<1>2. CASE SelectCandidate
  BY <1>2 DEF SelectCandidate, TypeOK, HeadFence
<1>3. ASSUME NEW w \in Workflow, StartFirstProposal(w)
      PROVE  TypeOK'
  BY <1>3, EnqueueTypeOK DEF StartFirstProposal, TypeOK
<1>4. ASSUME NEW w \in Workflow, StartSelectiveRefresh(w)
      PROVE  TypeOK'
  BY <1>4, EnqueueTypeOK DEF StartSelectiveRefresh, TypeOK
<1>5. ASSUME NEW w \in Workflow, NEW source \in Workflow, StartSelectiveWithState(w, source)
      PROVE  TypeOK'
  BY <1>5, EnqueueTypeOK DEF StartSelectiveWithState, TypeOK
<1>6. ASSUME NEW w \in Workflow, Claim(w)
      PROVE  TypeOK'
  <2>1. run' \in [Workflow -> RunRow]
    BY <1>6 DEF Claim, TypeOK, RunRow, RunStatus, ActiveStatus
  <2>2. stage' \in [Workflow -> StageRow]
    BY <1>6, StoreAssumption DEF Claim, TypeOK, StageRow, StageStatus
  <2>3. QED
    BY <1>6, <2>1, <2>2 DEF Claim, projectVars, TypeOK
<1>7. ASSUME NEW w \in Workflow, LeaseTick(w)
      PROVE  TypeOK'
  <2>1. stage' \in [Workflow -> StageRow]
    BY <1>7, StoreAssumption DEF LeaseTick, TypeOK, StageRow
  <2>2. lapses' \in [Workflow -> 0..MaxLapses]
    BY <1>7, StoreAssumption DEF LeaseTick, TypeOK
  <2>3. QED
    BY <1>7, <2>1, <2>2 DEF LeaseTick, projectVars, TypeOK
<1>8. ASSUME NEW w \in Workflow, NEW token \in Issued(w), Heartbeat(w, token)
      PROVE  TypeOK'
  <2>1. stage' \in [Workflow -> StageRow]
    BY <1>8, StoreAssumption DEF Heartbeat, TypeOK, StageRow
  <2>2. QED
    BY <1>8, <2>1 DEF Heartbeat, projectVars, TypeOK
<1>9. ASSUME NEW w \in Workflow, MarkStale(w)
      PROVE  TypeOK'
  BY <1>9, MarkStaleTypeOK
<1>10. ASSUME NEW w \in Workflow, NEW token \in Issued(w), NEW retryable \in BOOLEAN,
              RecordRetry(w, token, retryable)
       PROVE  TypeOK'
  <2>1. run' \in [Workflow -> RunRow]
    BY <1>10 DEF RecordRetry, TypeOK, RunRow, RunStatus, ActiveStatus
  <2>2. stage' \in [Workflow -> StageRow]
    BY <1>10, StoreAssumption DEF RecordRetry, TypeOK, StageRow, StageStatus
  <2>3. progress' \in [Workflow -> [ProgressStage -> CheckpointRow]]
    BY <1>10 DEF RecordRetry, TypeOK, CheckpointRow, CheckpointStatus
  <2>4. QED
    BY <1>10, <2>1, <2>2, <2>3 DEF RecordRetry, projectVars, TypeOK
<1>11. ASSUME NEW w \in Workflow, NEW token \in Issued(w), NEW retryable \in BOOLEAN,
              RecordFailed(w, token, retryable)
       PROVE  TypeOK'
  <2>1. run' \in [Workflow -> RunRow]
    BY <1>11 DEF RecordFailed, TypeOK, RunRow, RunStatus, TerminalStatus
  <2>2. stage' \in [Workflow -> StageRow]
    BY <1>11, StoreAssumption DEF RecordFailed, TypeOK, StageRow, StageStatus
  <2>3. progress' \in [Workflow -> [ProgressStage -> CheckpointRow]]
    BY <1>11 DEF RecordFailed, FailStatus, TypeOK, CheckpointRow, CheckpointStatus
  <2>4. QED
    BY <1>11, <2>1, <2>2, <2>3 DEF RecordFailed, projectVars, TypeOK
<1>12. ASSUME NEW w \in Workflow, NEW token \in Issued(w), NEW s \in ProgressStage,
              NEW op \in Operation, Transition(w, token, s, op)
       PROVE  TypeOK'
  <2>1. Target(op) \in CheckpointStatus
    BY DEF Operation, Target, CheckpointStatus
  <2>2. token \in Nat
    BY DEF Issued
  <2>3. progress' \in [Workflow -> [ProgressStage -> CheckpointRow]]
    BY <1>12, <2>1, <2>2 DEF Transition, TypeOK, CheckpointRow
  <2>4. QED
    BY <1>12, <2>3 DEF Transition, projectVars, TypeOK
<1>13. ASSUME NEW w \in Workflow, NEW token \in Issued(w),
              PersistFirstProposalResult(w, token)
       PROVE  TypeOK'
  <2>1. run' \in [Workflow -> RunRow]
    BY <1>13 DEF PersistFirstProposalResult, TypeOK, RunRow, RunStatus, TerminalStatus
  <2>2. stage' \in [Workflow -> StageRow]
    BY <1>13, StoreAssumption DEF PersistFirstProposalResult, TypeOK, StageRow, StageStatus
  <2>3. progress' \in [Workflow -> [ProgressStage -> CheckpointRow]]
    BY <1>13, StoreAssumption
       DEF PersistFirstProposalResult, TypeOK, CheckpointRow, CheckpointStatus
  <2>4. QED
    BY <1>13, <2>1, <2>2, <2>3 DEF PersistFirstProposalResult, TypeOK
<1>14. CASE UNCHANGED vars
  BY <1>14 DEF vars, TypeOK
<1>15. QED
  BY <1>1, <1>2, <1>3, <1>4, <1>5, <1>6, <1>7, <1>8, <1>9, <1>10, <1>11, <1>12, <1>13, <1>14
     DEF Next, ProjectCommand, LeaseOperation, ClaimStale, HeartbeatStale, RecordStale

\* Every state the store can reach has the types the schema gives its columns.
THEOREM TypeCorrect == Spec => []TypeOK
BY InitTypeOK, NextTypeOK, PTL DEF Spec

-----------------------------------------------------------------------------
(* The inductive invariant.  Each lemma takes one action (TypeOK' is known    *)
(* from NextTypeOK) and has one step per conjunct the action can disturb.    *)

LEMMA InitStoreInvariant == Init => StoreInvariant
<1> SUFFICES ASSUME Init
             PROVE  StoreInvariant
  OBVIOUS
<1>1. TypeOK
  BY InitTypeOK
<1>2. StageAgreesWithRun
  BY DEF Init, NoRun, NoStage, StageAgreesWithRun, AgreeingStage
<1>3. HeadTracksState /\ NoHeadBeforeOnboarding /\ ResultIsNewest /\ ResultIsStored
  BY DEF Init, HeadTracksState, NoHeadBeforeOnboarding, ResultIsNewest, ResultIsStored
<1>4. BundleIffSucceeded /\ NoRunAheadOfHead
  BY DEF Init, NoRun, BundleIffSucceeded, NoRunAheadOfHead
<1>5. AttemptsAreBounded /\ LeaseOfLastAttempt /\ AttemptLeftToClaim
  BY StoreAssumption
     DEF Init, NoStage, AttemptsAreBounded, LeaseOfLastAttempt, AttemptLeftToClaim,
         ClaimableAgain
<1>6. QED
  BY <1>1, <1>2, <1>3, <1>4, <1>5 DEF StoreInvariant

LEMMA AgreeingStageValues ==
  /\ AgreeingStage("absent") = "absent"
  /\ AgreeingStage("QUEUED") = "READY"
  /\ AgreeingStage("RUNNING") = "RUNNING"
  /\ AgreeingStage("SUCCEEDED") = "SUCCEEDED"
  /\ AgreeingStage("FAILED") = "FAILED"
  /\ AgreeingStage("STALE") = "CANCELLED"
BY DEF AgreeingStage

LEMMA LeasedRunIsRunning ==
  ASSUME TypeOK, StageAgreesWithRun, NEW w \in Workflow, stage[w].status = "RUNNING"
  PROVE  run[w].status = "RUNNING"
<1>1. run[w].status \in {"absent", "QUEUED", "RUNNING", "SUCCEEDED", "FAILED", "STALE"}
  BY DEF TypeOK, RunRow, RunStatus, ActiveStatus, TerminalStatus
<1>2. AgreeingStage(run[w].status) = "RUNNING"
  BY DEF StageAgreesWithRun
<1>3. QED
  BY <1>1, <1>2, AgreeingStageValues

LEMMA ConfirmOnboardingKeepsInvariant ==
  ASSUME StoreInvariant, TypeOK', ConfirmOnboarding
  PROVE  StoreInvariant'
<1> USE DEF StoreInvariant, ConfirmOnboarding
<1>1. HeadTracksState' /\ NoHeadBeforeOnboarding'
  BY DEF TypeOK, HeadFence, HeadTracksState, NoHeadBeforeOnboarding
<1>2. StageAgreesWithRun' /\ BundleIffSucceeded' /\ ResultIsNewest' /\ ResultIsStored'
  BY DEF StageAgreesWithRun, BundleIffSucceeded, ResultIsNewest, ResultIsStored
<1>3. AttemptsAreBounded' /\ NoRunAheadOfHead' /\ LeaseOfLastAttempt' /\ AttemptLeftToClaim'
  BY DEF AttemptsAreBounded, NoRunAheadOfHead, LeaseOfLastAttempt, AttemptLeftToClaim,
         ClaimableAgain
<1>4. QED
  BY <1>1, <1>2, <1>3

LEMMA SelectCandidateKeepsInvariant ==
  ASSUME StoreInvariant, TypeOK', SelectCandidate
  PROVE  StoreInvariant'
<1> USE DEF StoreInvariant, SelectCandidate
<1>1. head'.generation = head.generation /\ head'.state = stateVersion + 1
  BY DEF TypeOK, HeadFence
<1>2. HeadTracksState' /\ NoHeadBeforeOnboarding'
  BY <1>1 DEF TypeOK, HeadFence, HeadTracksState, NoHeadBeforeOnboarding
<1>3. NoRunAheadOfHead'
  BY <1>1 DEF NoRunAheadOfHead
<1>4. StageAgreesWithRun' /\ BundleIffSucceeded' /\ ResultIsNewest' /\ ResultIsStored'
  BY DEF StageAgreesWithRun, BundleIffSucceeded, ResultIsNewest, ResultIsStored
<1>5. AttemptsAreBounded' /\ LeaseOfLastAttempt' /\ AttemptLeftToClaim'
  BY DEF AttemptsAreBounded, LeaseOfLastAttempt, AttemptLeftToClaim, ClaimableAgain
<1>6. QED
  BY <1>2, <1>3, <1>4, <1>5

\* Whichever command starts a run: it is not onboarding, and the run gets the state
\* version the project then has.
LEMMA EnqueueKeepsInvariant ==
  ASSUME StoreInvariant, TypeOK', NEW w \in Workflow,
         NEW source \in Workflow \cup {NoWorkflow}, stateVersion' > 0,
         EnqueueFirstProposal(w, source, stateVersion')
  PROVE  StoreInvariant'
<1> DEFINE next == [generation |-> head.generation + 1, state |-> stateVersion']
<1> USE DEF StoreInvariant, EnqueueFirstProposal
<1>1. /\ run'[w].status = "QUEUED"
      /\ run'[w].head = next
      /\ \A v \in Workflow \ {w} : run'[v] = run[v]
  BY DEF TypeOK
<1>2. /\ stage'[w] = [status |-> "READY", attempt |-> 0, token |-> 0, lease |-> 0]
      /\ \A v \in Workflow \ {w} : stage'[v] = stage[v]
  BY DEF TypeOK
<1>3. w \notin bundles
  BY DEF BundleIffSucceeded
<1>4. StageAgreesWithRun'
  BY <1>1, <1>2, AgreeingStageValues DEF StageAgreesWithRun
<1>5. HeadTracksState' /\ NoHeadBeforeOnboarding'
  BY DEF HeadTracksState, NoHeadBeforeOnboarding
<1>6. BundleIffSucceeded'
  BY <1>1, <1>3 DEF BundleIffSucceeded
<1>7. ResultIsNewest' /\ ResultIsStored'
  BY <1>1, <1>3 DEF TypeOK, ResultIsNewest, ResultIsStored
<1>8. NoRunAheadOfHead'
  BY <1>1 DEF TypeOK, HeadFence, RunRow, NoRunAheadOfHead
<1>9. LeaseOfLastAttempt'
  BY <1>2 DEF LeaseOfLastAttempt
<1>10. AttemptsAreBounded' /\ AttemptLeftToClaim'
  BY <1>2, StoreAssumption
     DEF TypeOK, AttemptsAreBounded, AttemptLeftToClaim, ClaimableAgain
<1>11. QED
  BY <1>4, <1>5, <1>6, <1>7, <1>8, <1>9, <1>10

-----------------------------------------------------------------------------
LEMMA MarkStaleKeepsInvariant ==
  ASSUME StoreInvariant, TypeOK', NEW w \in Workflow,
         run[w].status \in ActiveStatus, MarkStale(w)
  PROVE  StoreInvariant'
<1> USE DEF StoreInvariant, MarkStale, projectVars
<1>1. /\ run'[w] = [run[w] EXCEPT !.status = "STALE"]
      /\ \A v \in Workflow \ {w} : run'[v] = run[v]
  BY DEF TypeOK
<1>2. /\ stage'[w] = [stage[w] EXCEPT !.status = "CANCELLED"]
      /\ \A v \in Workflow \ {w} : stage'[v] = stage[v]
  <2>1. stage[w].status \in {"READY", "RUNNING"}
    BY AgreeingStageValues DEF StageAgreesWithRun, ActiveStatus
  <2>2. QED
    BY <2>1 DEF TypeOK, CancelStatus
<1>3. w \notin bundles
  BY DEF BundleIffSucceeded, ActiveStatus
<1>4. run'[w].status = "STALE" /\ run'[w].head = run[w].head /\ run[w].status # "absent"
  BY <1>1 DEF TypeOK, RunRow, ActiveStatus
<1>5. stage'[w].status = "CANCELLED" /\ stage'[w].attempt = stage[w].attempt
  BY <1>2 DEF TypeOK, StageRow
<1>6. StageAgreesWithRun'
  BY <1>1, <1>2, <1>4, <1>5, AgreeingStageValues DEF StageAgreesWithRun
<1>7. HeadTracksState' /\ NoHeadBeforeOnboarding' /\ ResultIsStored'
  BY DEF HeadTracksState, NoHeadBeforeOnboarding, ResultIsStored
<1>8. BundleIffSucceeded'
  BY <1>1, <1>3, <1>4 DEF BundleIffSucceeded
<1>9. ResultIsNewest'
  BY <1>1, <1>3, <1>4 DEF TypeOK, ResultIsNewest, ResultIsStored
<1>10. NoRunAheadOfHead'
  BY <1>1, <1>4 DEF NoRunAheadOfHead
<1>11. AttemptsAreBounded'
  BY <1>2, <1>5 DEF AttemptsAreBounded
<1>12. LeaseOfLastAttempt' /\ AttemptLeftToClaim'
  BY <1>2, <1>5 DEF LeaseOfLastAttempt, AttemptLeftToClaim, ClaimableAgain
<1>13. QED
  BY <1>6, <1>7, <1>8, <1>9, <1>10, <1>11, <1>12

LEMMA ClaimKeepsInvariant ==
  ASSUME StoreInvariant, TypeOK', NEW w \in Workflow, Claim(w)
  PROVE  StoreInvariant'
<1> USE DEF StoreInvariant, Claim, ClaimRefused, projectVars
<1>1. /\ run'[w].status = "RUNNING" /\ run'[w].head = run[w].head
      /\ \A v \in Workflow \ {w} : run'[v] = run[v]
  BY DEF TypeOK, RunRow, ActiveStatus
<1>2. /\ stage'[w] = [status |-> "RUNNING", attempt |-> stage[w].attempt + 1,
                      token |-> stage[w].attempt + 1, lease |-> LeaseTicks]
      /\ \A v \in Workflow \ {w} : stage'[v] = stage[v]
  BY DEF TypeOK
<1>3. ClaimableAgain(w)
  BY StoreAssumption DEF TypeOK, StageRow, ClaimableAgain
<1>4. run[w].status \in {"QUEUED", "RUNNING"} /\ w \notin bundles
  BY DEF BundleIffSucceeded, ActiveStatus
<1>5. StageAgreesWithRun'
  BY <1>1, <1>2, AgreeingStageValues DEF StageAgreesWithRun
<1>6. HeadTracksState' /\ NoHeadBeforeOnboarding' /\ ResultIsStored'
  BY DEF HeadTracksState, NoHeadBeforeOnboarding, ResultIsStored
<1>7. BundleIffSucceeded'
  BY <1>1, <1>4 DEF BundleIffSucceeded
<1>8. ResultIsNewest'
  BY <1>1, <1>4 DEF TypeOK, ResultIsNewest, ResultIsStored
<1>9. NoRunAheadOfHead'
  BY <1>1, <1>4 DEF NoRunAheadOfHead
<1>10. AttemptsAreBounded'
  BY <1>2, <1>3, StoreAssumption
     DEF TypeOK, StageRow, AttemptsAreBounded, AttemptLeftToClaim
<1>11. LeaseOfLastAttempt' /\ AttemptLeftToClaim'
  BY <1>2, StoreAssumption DEF LeaseOfLastAttempt, AttemptLeftToClaim, ClaimableAgain
<1>12. QED
  BY <1>5, <1>6, <1>7, <1>8, <1>9, <1>10, <1>11

\* Heartbeat and LeaseTick change the lease of one stage and nothing else of it.
LEMMA LeaseKeepsInvariant ==
  ASSUME StoreInvariant, TypeOK', NEW w \in Workflow, NEW lease \in 0..LeaseTicks,
         stage' = [stage EXCEPT ![w].lease = lease],
         \A v \in Workflow \ {w} : lapses'[v] = lapses[v],
         lapses'[w] >= lapses[w],
         stage[w].status = "RUNNING" /\ stage[w].lease > 0,
         lease = 0 => lapses'[w] > lapses[w],
         UNCHANGED <<projectVars, run, progress>>
  PROVE  StoreInvariant'
<1> USE DEF StoreInvariant, projectVars
<1>1. /\ stage'[w].status = stage[w].status /\ stage'[w].attempt = stage[w].attempt
      /\ stage'[w].token = stage[w].token /\ stage'[w].lease = lease
      /\ \A v \in Workflow \ {w} : stage'[v] = stage[v]
  BY DEF TypeOK, StageRow
<1>2. StageAgreesWithRun'
  BY <1>1 DEF StageAgreesWithRun
<1>3. HeadTracksState' /\ NoHeadBeforeOnboarding' /\ ResultIsStored'
  BY DEF HeadTracksState, NoHeadBeforeOnboarding, ResultIsStored
<1>4. BundleIffSucceeded' /\ ResultIsNewest' /\ NoRunAheadOfHead'
  BY DEF BundleIffSucceeded, ResultIsNewest, NoRunAheadOfHead
<1>5. AttemptsAreBounded'
  BY <1>1, StoreAssumption DEF TypeOK, StageRow, AttemptsAreBounded
<1>6. LeaseOfLastAttempt'
  BY <1>1 DEF LeaseOfLastAttempt
<1>7. AttemptLeftToClaim'
  BY <1>1, StoreAssumption
     DEF TypeOK, StageRow, AttemptsAreBounded, AttemptLeftToClaim, ClaimableAgain
<1>8. QED
  BY <1>2, <1>3, <1>4, <1>5, <1>6, <1>7

LEMMA RecordRetryKeepsInvariant ==
  ASSUME StoreInvariant, TypeOK', NEW w \in Workflow, NEW token, NEW retryable \in BOOLEAN,
         RecordRetry(w, token, retryable)
  PROVE  StoreInvariant'
<1> USE DEF StoreInvariant, RecordRetry, FailureAccepted, LeaseIsCurrent, projectVars
<1>1. /\ run'[w].status = "QUEUED" /\ run'[w].head = run[w].head
      /\ \A v \in Workflow \ {w} : run'[v] = run[v]
  BY DEF TypeOK, RunRow
<1>2. /\ stage'[w] = [status |-> "READY", attempt |-> stage[w].attempt,
                      token |-> 0, lease |-> 0]
      /\ \A v \in Workflow \ {w} : stage'[v] = stage[v]
  BY DEF TypeOK
<1>3. run[w].status = "RUNNING" /\ w \notin bundles
  BY LeasedRunIsRunning DEF BundleIffSucceeded
<1>4. StageAgreesWithRun'
  BY <1>1, <1>2, AgreeingStageValues DEF StageAgreesWithRun
<1>5. HeadTracksState' /\ NoHeadBeforeOnboarding' /\ ResultIsStored'
  BY DEF HeadTracksState, NoHeadBeforeOnboarding, ResultIsStored
<1>6. BundleIffSucceeded'
  BY <1>1, <1>3 DEF BundleIffSucceeded
<1>7. ResultIsNewest'
  BY <1>1, <1>3 DEF TypeOK, ResultIsNewest, ResultIsStored
<1>8. NoRunAheadOfHead'
  BY <1>1, <1>3 DEF NoRunAheadOfHead
<1>9. AttemptsAreBounded'
  BY <1>2 DEF AttemptsAreBounded
<1>10. LeaseOfLastAttempt'
  BY <1>2 DEF LeaseOfLastAttempt
<1>11. AttemptLeftToClaim'
  BY <1>2, StoreAssumption
     DEF TypeOK, StageRow, RetryAllowed, AttemptLeftToClaim, ClaimableAgain
<1>12. QED
  BY <1>4, <1>5, <1>6, <1>7, <1>8, <1>9, <1>10, <1>11

LEMMA RecordFailedKeepsInvariant ==
  ASSUME StoreInvariant, TypeOK', NEW w \in Workflow, NEW token, NEW retryable \in BOOLEAN,
         RecordFailed(w, token, retryable)
  PROVE  StoreInvariant'
<1> USE DEF StoreInvariant, RecordFailed, FailureAccepted, LeaseIsCurrent, projectVars
<1>1. /\ run'[w].status = "FAILED" /\ run'[w].head = run[w].head
      /\ \A v \in Workflow \ {w} : run'[v] = run[v]
  BY DEF TypeOK, RunRow
<1>2. /\ stage'[w] = [status |-> "FAILED", attempt |-> stage[w].attempt,
                      token |-> 0, lease |-> 0]
      /\ \A v \in Workflow \ {w} : stage'[v] = stage[v]
  BY DEF TypeOK
<1>3. run[w].status = "RUNNING" /\ w \notin bundles
  BY LeasedRunIsRunning DEF BundleIffSucceeded
<1>4. StageAgreesWithRun'
  BY <1>1, <1>2, AgreeingStageValues DEF StageAgreesWithRun
<1>5. HeadTracksState' /\ NoHeadBeforeOnboarding' /\ ResultIsStored'
  BY DEF HeadTracksState, NoHeadBeforeOnboarding, ResultIsStored
<1>6. BundleIffSucceeded'
  BY <1>1, <1>3 DEF BundleIffSucceeded
<1>7. ResultIsNewest'
  BY <1>1, <1>3 DEF TypeOK, ResultIsNewest, ResultIsStored
<1>8. NoRunAheadOfHead'
  BY <1>1, <1>3 DEF NoRunAheadOfHead
<1>9. AttemptsAreBounded'
  BY <1>2 DEF AttemptsAreBounded
<1>10. LeaseOfLastAttempt' /\ AttemptLeftToClaim'
  BY <1>2 DEF LeaseOfLastAttempt, AttemptLeftToClaim, ClaimableAgain
<1>11. QED
  BY <1>4, <1>5, <1>6, <1>7, <1>8, <1>9, <1>10

\* The invariant does not speak of the checkpoints.
LEMMA ProgressKeepsInvariant ==
  ASSUME StoreInvariant, TypeOK', UNCHANGED <<projectVars, run, stage, lapses>>
  PROVE  StoreInvariant'
<1> USE DEF StoreInvariant, projectVars
<1>1. StageAgreesWithRun' /\ BundleIffSucceeded' /\ ResultIsNewest' /\ ResultIsStored'
  BY DEF StageAgreesWithRun, BundleIffSucceeded, ResultIsNewest, ResultIsStored
<1>2. HeadTracksState' /\ NoHeadBeforeOnboarding' /\ NoRunAheadOfHead'
  BY DEF HeadTracksState, NoHeadBeforeOnboarding, NoRunAheadOfHead
<1>3. AttemptsAreBounded' /\ LeaseOfLastAttempt' /\ AttemptLeftToClaim'
  BY DEF AttemptsAreBounded, LeaseOfLastAttempt, AttemptLeftToClaim, ClaimableAgain
<1>4. QED
  BY <1>1, <1>2, <1>3

LEMMA PersistKeepsInvariant ==
  ASSUME StoreInvariant, TypeOK', NEW w \in Workflow, NEW token,
         PersistFirstProposalResult(w, token)
  PROVE  StoreInvariant'
<1> USE DEF StoreInvariant, PersistFirstProposalResult, AuthorizeMutation, LeaseIsCurrent,
            HeadIsCurrent
<1>1. /\ run'[w].status = "SUCCEEDED" /\ run'[w].head = run[w].head
      /\ \A v \in Workflow \ {w} : run'[v] = run[v]
  BY DEF TypeOK, RunRow
<1>2. /\ stage'[w] = [status |-> "SUCCEEDED", attempt |-> stage[w].attempt,
                      token |-> 0, lease |-> 0]
      /\ \A v \in Workflow \ {w} : stage'[v] = stage[v]
  BY DEF TypeOK
<1>3. run[w].status = "RUNNING"
  BY LeasedRunIsRunning
<1>4. StageAgreesWithRun'
  BY <1>1, <1>2, AgreeingStageValues DEF StageAgreesWithRun
<1>5. HeadTracksState' /\ NoHeadBeforeOnboarding' /\ ResultIsStored'
  BY DEF HeadTracksState, NoHeadBeforeOnboarding, ResultIsStored
<1>6. BundleIffSucceeded'
  BY <1>1 DEF BundleIffSucceeded
\* The committing run is of the head's generation, and no run is ahead of the head.
<1>7. ResultIsNewest'
  <2>1. result' # NoWorkflow
    BY StoreAssumption
  <2>2. ASSUME NEW v \in bundles'
        PROVE  run'[v].head.generation <= run'[w].head.generation
    <3>1. CASE v = w
      BY <3>1, <1>1 DEF TypeOK, HeadFence
    <3>2. CASE v # w
      <4>1. v \in Workflow /\ run[v].status = "SUCCEEDED" /\ run'[v] = run[v]
        BY <3>2, <2>2, <1>1 DEF TypeOK, BundleIffSucceeded
      <4>2. run[v].head.generation \in 1..head.generation
        BY <4>1 DEF NoRunAheadOfHead
      <4>3. QED
        BY <4>1, <4>2, <1>1 DEF TypeOK, HeadFence
    <3>3. QED
      BY <3>1, <3>2
  <2>3. QED
    BY <2>1, <2>2 DEF ResultIsNewest
<1>8. NoRunAheadOfHead'
  BY <1>1, <1>3 DEF NoRunAheadOfHead
<1>9. AttemptsAreBounded'
  BY <1>2 DEF AttemptsAreBounded
<1>10. LeaseOfLastAttempt' /\ AttemptLeftToClaim'
  BY <1>2 DEF LeaseOfLastAttempt, AttemptLeftToClaim, ClaimableAgain
<1>11. QED
  BY <1>4, <1>5, <1>6, <1>7, <1>8, <1>9, <1>10

-----------------------------------------------------------------------------
LEMMA NextStoreInvariant == StoreInvariant /\ [Next]_vars => StoreInvariant'
<1> SUFFICES ASSUME StoreInvariant, [Next]_vars
             PROVE  StoreInvariant'
  OBVIOUS
<1>0. TypeOK /\ TypeOK'
  BY NextTypeOK DEF StoreInvariant
<1>1. CASE ConfirmOnboarding
  BY <1>0, <1>1, ConfirmOnboardingKeepsInvariant
<1>2. CASE SelectCandidate
  BY <1>0, <1>2, SelectCandidateKeepsInvariant
<1>3. ASSUME NEW w \in Workflow, StartFirstProposal(w)
      PROVE  StoreInvariant'
  BY <1>0, <1>3, EnqueueKeepsInvariant DEF StartFirstProposal
<1>4. ASSUME NEW w \in Workflow, StartSelectiveRefresh(w)
      PROVE  StoreInvariant'
  \* There is a result, hence a run, hence a head, hence a confirmed state.
  <2>1. head.generation # 0
    <3>1. result \in Workflow /\ run[result].status = "SUCCEEDED"
      BY <1>0, <1>4
         DEF StartSelectiveRefresh, StoreInvariant, TypeOK, ResultIsStored,
             BundleIffSucceeded
    <3>2. run[result].head.generation \in 1..head.generation
      BY <3>1 DEF StoreInvariant, NoRunAheadOfHead
    <3>3. QED
      BY <1>0, <3>2 DEF TypeOK, HeadFence
  <2>2. stateVersion' > 0
    BY <1>0, <1>4, <2>1
       DEF StartSelectiveRefresh, StoreInvariant, NoHeadBeforeOnboarding, TypeOK
  <2>3. result \in Workflow \cup {NoWorkflow}
    BY <1>0 DEF TypeOK
  <2>4. EnqueueFirstProposal(w, result, stateVersion')
    BY <1>4 DEF StartSelectiveRefresh
  <2>5. QED
    BY <1>0, <2>2, <2>3, <2>4, EnqueueKeepsInvariant
<1>5. ASSUME NEW w \in Workflow, NEW source \in Workflow, StartSelectiveWithState(w, source)
      PROVE  StoreInvariant'
  <2>1. stateVersion' > 0
    BY <1>0, <1>5 DEF StartSelectiveWithState, TypeOK
  <2>2. EnqueueFirstProposal(w, source, stateVersion')
    BY <1>5 DEF StartSelectiveWithState
  <2>3. QED
    BY <1>0, <2>1, <2>2, EnqueueKeepsInvariant
<1>6. ASSUME NEW w \in Workflow, Claim(w)
      PROVE  StoreInvariant'
  BY <1>0, <1>6, ClaimKeepsInvariant
<1>7. ASSUME NEW w \in Workflow, ClaimStale(w)
      PROVE  StoreInvariant'
  BY <1>0, <1>7, MarkStaleKeepsInvariant DEF ClaimStale, ClaimRefused
<1>8. ASSUME NEW w \in Workflow, LeaseTick(w)
      PROVE  StoreInvariant'
  <2>1. stage' = [stage EXCEPT ![w].lease = stage[w].lease - 1]
    BY <1>8 DEF LeaseTick
  <2>2. stage[w].lease - 1 \in 0..LeaseTicks
    BY <1>0, <1>8, StoreAssumption DEF LeaseTick, TypeOK, StageRow
  <2>3. /\ lapses'[w] >= lapses[w]
        /\ stage[w].lease - 1 = 0 => lapses'[w] > lapses[w]
        /\ \A v \in Workflow \ {w} : lapses'[v] = lapses[v]
    BY <1>0, <1>8, StoreAssumption DEF LeaseTick, TypeOK, StageRow
  <2>4. QED
    BY <1>0, <1>8, <2>1, <2>2, <2>3, LeaseKeepsInvariant DEF LeaseTick
<1>9. ASSUME NEW w \in Workflow, NEW token \in Issued(w), Heartbeat(w, token)
      PROVE  StoreInvariant'
  <2>1. LeaseTicks \in 0..LeaseTicks /\ LeaseTicks # 0
    BY StoreAssumption
  <2>2. lapses'[w] >= lapses[w]
    BY <1>0, <1>9, StoreAssumption DEF Heartbeat, TypeOK
  <2>3. QED
    BY <1>0, <1>9, <2>1, <2>2, LeaseKeepsInvariant DEF Heartbeat, LeaseIsCurrent
<1>10. ASSUME NEW w \in Workflow, NEW token \in Issued(w),
              HeartbeatStale(w, token) \/ RecordStale(w, token)
       PROVE  StoreInvariant'
  <2>1. run[w].status = "RUNNING"
    BY <1>10, LeasedRunIsRunning
       DEF HeartbeatStale, RecordStale, FailureAccepted, LeaseIsCurrent, StoreInvariant
  <2>2. QED
    BY <1>0, <1>10, <2>1, MarkStaleKeepsInvariant
       DEF HeartbeatStale, RecordStale, ActiveStatus
<1>11. ASSUME NEW w \in Workflow, NEW token \in Issued(w), NEW retryable \in BOOLEAN,
              RecordRetry(w, token, retryable)
       PROVE  StoreInvariant'
  BY <1>0, <1>11, RecordRetryKeepsInvariant
<1>12. ASSUME NEW w \in Workflow, NEW token \in Issued(w), NEW retryable \in BOOLEAN,
              RecordFailed(w, token, retryable)
       PROVE  StoreInvariant'
  BY <1>0, <1>12, RecordFailedKeepsInvariant
<1>13. ASSUME NEW w \in Workflow, NEW token \in Issued(w), NEW s \in ProgressStage,
              NEW op \in Operation, Transition(w, token, s, op)
       PROVE  StoreInvariant'
  BY <1>0, <1>13, ProgressKeepsInvariant DEF Transition
<1>14. ASSUME NEW w \in Workflow, NEW token \in Issued(w),
              PersistFirstProposalResult(w, token)
       PROVE  StoreInvariant'
  BY <1>0, <1>14, PersistKeepsInvariant
<1>15. CASE UNCHANGED vars
  BY <1>0, <1>15, ProgressKeepsInvariant DEF vars, projectVars
<1>16. QED
  BY <1>1, <1>2, <1>3, <1>4, <1>5, <1>6, <1>7, <1>8, <1>9, <1>10, <1>11, <1>12, <1>13,
     <1>14, <1>15
     DEF Next, ProjectCommand, LeaseOperation

\* The inductive invariant holds in every state the store can reach.
THEOREM StoreIsConsistent == Spec => []StoreInvariant
BY InitStoreInvariant, NextStoreInvariant, PTL DEF Spec

\* The current result is that of the newest run that committed, and every committed
\* run has its bundle: what persist_first_proposal_result's fencing is for.
THEOREM ResultNeverFallsBack == Spec => [](ResultIsNewest /\ BundleIffSucceeded)
<1>1. StoreInvariant => ResultIsNewest /\ BundleIffSucceeded
  BY DEF StoreInvariant
<1>2. QED
  BY <1>1, StoreIsConsistent, PTL

\* A run never gets more attempts than MAX_STAGE_ATTEMPTS plus its expired leases.
THEOREM AttemptsBounded == Spec => []AttemptsAreBounded
<1>1. StoreInvariant => AttemptsAreBounded
  BY DEF StoreInvariant
<1>2. QED
  BY <1>1, StoreIsConsistent, PTL

\* The run and its stage never disagree, and the head has the project's state version.
THEOREM RunStageAndHeadAgree == Spec => [](StageAgreesWithRun /\ HeadTracksState)
<1>1. StoreInvariant => StageAgreesWithRun /\ HeadTracksState
  BY DEF StoreInvariant
<1>2. QED
  BY <1>1, StoreIsConsistent, PTL

-----------------------------------------------------------------------------
(* What one step may do to one run.                                        *)

\* A run keeps its row, is created, or is active and changes its status only; it
\* becomes SUCCEEDED only while the head is the one it was started for.
RunStep(w) ==
  \/ run'[w] = run[w]
  \/ run[w].status = "absent" /\ run'[w].status = "QUEUED"
  \/ /\ run[w].status \in ActiveStatus
     /\ run'[w].head = run[w].head
     /\ run'[w].status = "SUCCEEDED" => run[w].head = head

LEMMA MarkStaleRunStep ==
  ASSUME TypeOK, NEW w \in Workflow, run[w].status \in ActiveStatus, MarkStale(w)
  PROVE  \A v \in Workflow : RunStep(v)
BY DEF TypeOK, RunRow, MarkStale, RunStep

LEMMA NextRunStep ==
  ASSUME StoreInvariant, [Next]_vars
  PROVE  \A v \in Workflow : RunStep(v)
<1>0. TypeOK /\ StageAgreesWithRun
  BY DEF StoreInvariant
<1>1. CASE ConfirmOnboarding \/ SelectCandidate
  BY <1>1 DEF ConfirmOnboarding, SelectCandidate, RunStep
<1>2. ASSUME NEW w \in Workflow, NEW source, NEW state, EnqueueFirstProposal(w, source, state)
      PROVE  \A v \in Workflow : RunStep(v)
  BY <1>0, <1>2 DEF EnqueueFirstProposal, TypeOK, RunStep
<1>3. ASSUME NEW w \in Workflow,
             \/ StartFirstProposal(w) \/ StartSelectiveRefresh(w)
             \/ \E source \in Workflow : StartSelectiveWithState(w, source)
      PROVE  \A v \in Workflow : RunStep(v)
  BY <1>2, <1>3
     DEF StartFirstProposal, StartSelectiveRefresh, StartSelectiveWithState
<1>4. ASSUME NEW w \in Workflow, Claim(w)
      PROVE  \A v \in Workflow : RunStep(v)
  BY <1>0, <1>4 DEF Claim, ClaimRefused, TypeOK, RunRow, ActiveStatus, RunStep
<1>5. ASSUME NEW w \in Workflow, ClaimStale(w)
      PROVE  \A v \in Workflow : RunStep(v)
  BY <1>0, <1>5, MarkStaleRunStep DEF ClaimStale, ClaimRefused
<1>6. ASSUME NEW w \in Workflow, LeaseTick(w)
      PROVE  \A v \in Workflow : RunStep(v)
  BY <1>6 DEF LeaseTick, RunStep
<1>7. ASSUME NEW w \in Workflow, NEW token \in Issued(w), LeaseOperation(w, token)
      PROVE  \A v \in Workflow : RunStep(v)
  <2>1. CASE Heartbeat(w, token)
    BY <2>1 DEF Heartbeat, RunStep
  <2>2. CASE HeartbeatStale(w, token) \/ RecordStale(w, token)
    <3>1. run[w].status = "RUNNING"
      BY <1>0, <2>2, LeasedRunIsRunning
         DEF HeartbeatStale, RecordStale, FailureAccepted, LeaseIsCurrent
    <3>2. QED
      BY <1>0, <2>2, <3>1, MarkStaleRunStep DEF HeartbeatStale, RecordStale, ActiveStatus
  <2>3. ASSUME NEW retryable \in BOOLEAN,
               RecordRetry(w, token, retryable) \/ RecordFailed(w, token, retryable)
        PROVE  \A v \in Workflow : RunStep(v)
    <3>1. run[w].status = "RUNNING"
      BY <1>0, <2>3, LeasedRunIsRunning
         DEF RecordRetry, RecordFailed, FailureAccepted, LeaseIsCurrent
    <3>2. QED
      BY <1>0, <2>3, <3>1
         DEF RecordRetry, RecordFailed, TypeOK, RunRow, ActiveStatus, RunStep
  <2>4. ASSUME NEW s \in ProgressStage, NEW op \in Operation, Transition(w, token, s, op)
        PROVE  \A v \in Workflow : RunStep(v)
    BY <2>4 DEF Transition, RunStep
  <2>5. CASE PersistFirstProposalResult(w, token)
    <3>1. run[w].status = "RUNNING" /\ run[w].head = head
      BY <1>0, <2>5, LeasedRunIsRunning
         DEF PersistFirstProposalResult, AuthorizeMutation, LeaseIsCurrent, HeadIsCurrent
    <3>2. QED
      BY <1>0, <2>5, <3>1
         DEF PersistFirstProposalResult, TypeOK, RunRow, ActiveStatus, RunStep
  <2>6. QED
    BY <1>7, <2>1, <2>2, <2>3, <2>4, <2>5 DEF LeaseOperation
<1>8. CASE UNCHANGED vars
  BY <1>8 DEF vars, RunStep
<1>9. QED
  BY <1>1, <1>3, <1>4, <1>5, <1>6, <1>7, <1>8 DEF Next, ProjectCommand

\* No late call reopens or relabels a run that has ended.
THEOREM TerminalRunsStay == Spec => TerminalIsFinal
<1>1. StoreInvariant /\ [Next]_vars =>
        [\A w \in Workflow :
           run[w].status \in TerminalStatus => run'[w].status = run[w].status]_vars
  BY NextRunStep DEF RunStep, TerminalStatus, ActiveStatus
<1>2. QED
  BY <1>1, StoreIsConsistent, PTL DEF Spec, TerminalIsFinal

\* A run the head has moved past never succeeds, whatever lease its worker holds.
THEOREM SupersededRunsFail == Spec => SupersededNeverSucceeds
<1>1. StoreInvariant /\ [Next]_vars =>
        [\A w \in Workflow :
           /\ run[w].status \in ActiveStatus
           /\ run[w].head # head
           => run'[w].status # "SUCCEEDED"]_vars
  BY NextRunStep DEF RunStep, ActiveStatus
<1>2. QED
  BY <1>1, StoreIsConsistent, PTL DEF Spec, SupersededNeverSucceeds

\* A checkpoint that one step opens carries the attempt of the lease in force.
LEMMA NextOpens ==
  ASSUME StoreInvariant, [Next]_vars, NEW v \in Workflow, NEW c \in ProgressStage,
         progress'[v][c].status = "RUNNING", progress[v][c].status # "RUNNING"
  PROVE  progress'[v][c].attempt = stage[v].attempt
<1>0. TypeOK /\ LeaseOfLastAttempt
  BY DEF StoreInvariant
<1>1. progress' # progress
  OBVIOUS
<1>2. ASSUME NEW w \in Workflow, NEW source, NEW state, EnqueueFirstProposal(w, source, state)
      PROVE  FALSE
  BY <1>0, <1>2 DEF EnqueueFirstProposal, TypeOK
<1>3. ASSUME NEW w \in Workflow, MarkStale(w)
      PROVE  FALSE
  BY <1>0, <1>3 DEF MarkStale, CancelStatus, TypeOK, CheckpointRow
<1>4. ASSUME NEW w \in Workflow, NEW token \in Issued(w), LeaseOperation(w, token)
      PROVE  progress'[v][c].attempt = stage[v].attempt
  <2>1. ~ Heartbeat(w, token)
    BY <1>1 DEF Heartbeat
  <2>2. ~ HeartbeatStale(w, token) /\ ~ RecordStale(w, token)
    BY <1>3 DEF HeartbeatStale, RecordStale
  <2>3. ASSUME NEW retryable \in BOOLEAN,
               RecordRetry(w, token, retryable) \/ RecordFailed(w, token, retryable)
        PROVE  FALSE
    <3>1. CASE RecordRetry(w, token, retryable)
      BY <1>0, <3>1 DEF RecordRetry, TypeOK
    <3>2. CASE RecordFailed(w, token, retryable)
      BY <1>0, <3>2 DEF RecordFailed, FailStatus, TypeOK
    <3>3. QED
      BY <2>3, <3>1, <3>2
  <2>4. ASSUME PersistFirstProposalResult(w, token)
        PROVE  FALSE
    <3>1. progress' = [progress EXCEPT ![w]["COMMIT_RESULT"] =
            [status |-> "SUCCEEDED", attempt |-> progress[w]["COMMIT_RESULT"].attempt]]
      BY <2>4 DEF PersistFirstProposalResult
    <3>2. CASE v = w
      BY <1>0, <3>1, <3>2, StoreAssumption DEF TypeOK
    <3>3. CASE v # w
      BY <1>0, <3>1, <3>3 DEF TypeOK
    <3>4. QED
      BY <3>2, <3>3
  <2>5. ASSUME NEW s \in ProgressStage, NEW op \in Operation, Transition(w, token, s, op)
        PROVE  progress'[v][c].attempt = stage[v].attempt
    <3>1. stage[w].status = "RUNNING" /\ stage[w].token = token
      BY <2>5 DEF Transition, TransitionAccepted, AuthorizeMutation, LeaseIsCurrent
    <3>2. token = stage[w].attempt
      BY <1>0, <3>1 DEF LeaseOfLastAttempt
    <3>3. progress' = [progress EXCEPT ![w][s] =
            [status  |-> Target(op),
             attempt |-> IF op = "start" THEN token ELSE progress[w][s].attempt]]
      BY <1>1, <2>5 DEF Transition
    <3>4. w = v /\ s = c
      BY <1>0, <3>3 DEF TypeOK, CheckpointRow
    <3>5. Target(op) = "RUNNING"
      BY <1>0, <3>3, <3>4 DEF TypeOK, CheckpointRow
    <3>6. op = "start"
      BY <3>5 DEF Operation, Target
    <3>7. QED
      BY <1>0, <3>2, <3>3, <3>4, <3>6 DEF TypeOK, CheckpointRow
  <2>6. QED
    BY <1>4, <2>1, <2>2, <2>3, <2>4, <2>5 DEF LeaseOperation
<1>5. ASSUME NEW w \in Workflow
      PROVE  ~ Claim(w) /\ ~ LeaseTick(w) /\ ~ ClaimStale(w)
  BY <1>1, <1>3 DEF Claim, LeaseTick, ClaimStale
<1>6. ~ ProjectCommand
  BY <1>1, <1>2
     DEF ProjectCommand, ConfirmOnboarding, SelectCandidate, StartFirstProposal,
         StartSelectiveRefresh, StartSelectiveWithState
<1>7. CASE UNCHANGED vars
  BY <1>1, <1>7 DEF vars
<1>8. QED
  BY <1>4, <1>5, <1>6, <1>7 DEF Next

\* A superseded attempt that is still computing opens no checkpoint.
THEOREM CheckpointsOfCurrentAttempt == Spec => OpenedByCurrentAttempt
<1>1. StoreInvariant /\ [Next]_vars =>
        [\A w \in Workflow, s \in ProgressStage :
           /\ progress'[w][s].status = "RUNNING"
           /\ progress[w][s].status # "RUNNING"
           => progress'[w][s].attempt = stage[w].attempt]_vars
  BY NextOpens
<1>2. QED
  BY <1>1, StoreIsConsistent, PTL DEF Spec, OpenedByCurrentAttempt

-----------------------------------------------------------------------------
(* WorkflowStore implements ResultPublication: every transaction is a step of *)
(* the abstract specification or changes nothing it can see.                 *)

LEMMA AbstractJobValues ==
  /\ AbstractJob("absent") = "absent"
  /\ AbstractJob("QUEUED") = "open"
  /\ AbstractJob("RUNNING") = "open"
  /\ AbstractJob("SUCCEEDED") = "published"
  /\ AbstractJob("FAILED") = "closed"
  /\ AbstractJob("STALE") = "closed"
BY DEF AbstractJob, ActiveStatus

\* The image of run under the refinement mapping.
Jobs == [w \in Workflow |-> AbstractJob(run[w].status)]

Against == [w \in Workflow |-> <<run[w].head.generation, run[w].head.state>>]

\* A step that gives one run a new status with the same head changes one abstract job.
LEMMA OneJobChanges ==
  ASSUME NEW w \in Workflow,
         run'[w].head = run[w].head,
         \A v \in Workflow \ {w} : run'[v] = run[v]
  PROVE  /\ Jobs' = [Jobs EXCEPT ![w] = AbstractJob(run'[w].status)]
         /\ Against' = Against
BY DEF Jobs, Against

LEMMA InitRefines == Init => Publication!Init
<1> SUFFICES ASSUME Init
             PROVE  Publication!Init
  OBVIOUS
<1>1. \A w \in Workflow : run[w] = NoRun
  BY DEF Init
<1>2. Jobs = [w \in Workflow |-> "absent"]
  BY <1>1, AbstractJobValues DEF Jobs, NoRun
<1>3. Against = [w \in Workflow |-> <<0, 0>>]
  BY <1>1 DEF Against, NoRun
<1>4. QED
  BY <1>2, <1>3 DEF Init, Jobs, Against, Publication!Init, Publication!NoVersion

\* Starting a run opens a job at a version nobody had before.
LEMMA EnqueueRefines ==
  ASSUME TypeOK, TypeOK', NEW w \in Workflow, NEW source,
         stateVersion' >= stateVersion,
         EnqueueFirstProposal(w, source, stateVersion')
  PROVE  Publication!Open(w)
<1> DEFINE next == [generation |-> head.generation + 1, state |-> stateVersion']
<1>1. /\ run[w].status = "absent" /\ head' = next /\ result' = result
      /\ run'[w].status = "QUEUED" /\ run'[w].head = next
      /\ \A v \in Workflow \ {w} : run'[v] = run[v]
  BY DEF EnqueueFirstProposal, TypeOK
<1>2. Jobs[w] = "absent"
  BY <1>1, AbstractJobValues DEF Jobs
<1>3. Jobs' = [Jobs EXCEPT ![w] = "open"]
  BY <1>1, AbstractJobValues DEF Jobs
<1>4. Against' = [Against EXCEPT ![w] = <<head'.generation, stateVersion'>>]
  <2>1. run'[w].head.generation = head'.generation /\ run'[w].head.state = stateVersion'
    BY <1>1
  <2>2. QED
    BY <1>1, <2>1 DEF Against
<1>5. /\ <<head'.generation, stateVersion'>> \in Nat \X Nat
      /\ head'.generation = head.generation + 1
      /\ head.generation \in Nat /\ stateVersion \in Nat
  BY <1>1 DEF TypeOK, HeadFence
<1>6. /\ <<head.generation, stateVersion>> # <<head'.generation, stateVersion'>>
      /\ head.generation <= head'.generation
  BY <1>5
<1>7. QED
  BY <1>1, <1>2, <1>3, <1>4, <1>5, <1>6
     DEF Publication!Open, Publication!Version, Publication!Later, Jobs, Against

\* Ending an active run without a result closes its job.
LEMMA EndRefines ==
  ASSUME NEW w \in Workflow, run[w].status \in ActiveStatus,
         run'[w].status \in {"FAILED", "STALE"},
         run'[w].head = run[w].head,
         \A v \in Workflow \ {w} : run'[v] = run[v],
         UNCHANGED projectVars
  PROVE  Publication!Close(w)
<1>1. Jobs[w] = "open" /\ AbstractJob(run'[w].status) = "closed"
  BY AbstractJobValues DEF Jobs, ActiveStatus
<1>2. Jobs' = [Jobs EXCEPT ![w] = "closed"] /\ Against' = Against
  BY <1>1, OneJobChanges
<1>3. QED
  BY <1>1, <1>2 DEF Publication!Close, projectVars, Jobs, Against

LEMMA MarkStaleRefines ==
  ASSUME TypeOK, NEW w \in Workflow, run[w].status \in ActiveStatus, MarkStale(w)
  PROVE  Publication!Close(w)
BY EndRefines DEF MarkStale, TypeOK, RunRow

\* Committing publishes the job, whose version the fencing found to be the current one.
LEMMA PersistRefines ==
  ASSUME StoreInvariant, NEW w \in Workflow, NEW token,
         PersistFirstProposalResult(w, token)
  PROVE  Publication!Publish(w)
<1> USE DEF PersistFirstProposalResult, AuthorizeMutation, HeadIsCurrent, LeaseIsCurrent
<1>1. run[w].status = "RUNNING"
  BY LeasedRunIsRunning DEF StoreInvariant
<1>2. /\ run'[w].status = "SUCCEEDED" /\ run'[w].head = run[w].head
      /\ \A v \in Workflow \ {w} : run'[v] = run[v]
  BY DEF StoreInvariant, TypeOK, RunRow
<1>3. Jobs[w] = "open"
  BY <1>1, AbstractJobValues DEF Jobs
<1>4. Jobs' = [Jobs EXCEPT ![w] = "published"] /\ Against' = Against
  BY <1>2, OneJobChanges, AbstractJobValues
<1>5. Against[w] = <<head.generation, stateVersion>>
  BY DEF Against
<1>6. QED
  BY <1>3, <1>4, <1>5 DEF Publication!Publish, Jobs, Against

\* Claims, retries and whatever leaves the runs alone are not seen at all.
LEMMA StutterRefines ==
  ASSUME NEW w \in Workflow, run[w].status \in ActiveStatus,
         run'[w].status \in ActiveStatus, run'[w].head = run[w].head,
         \A v \in Workflow \ {w} : run'[v] = run[v],
         UNCHANGED projectVars
  PROVE  UNCHANGED Publication!vars
<1>1. Jobs[w] = "open" /\ AbstractJob(run'[w].status) = "open"
  BY AbstractJobValues DEF Jobs, ActiveStatus
<1>2. Jobs' = Jobs /\ Against' = Against
  BY <1>1, OneJobChanges DEF Jobs
<1>3. QED
  BY <1>2 DEF Publication!vars, projectVars, Jobs, Against

LEMMA NoRunChangesRefines ==
  ASSUME UNCHANGED <<projectVars, run>>
  PROVE  UNCHANGED Publication!vars
BY DEF Publication!vars, projectVars

\* Commands that only move the version: onboarding, and selecting a candidate.
LEMMA AdvanceRefines ==
  ASSUME TypeOK, TypeOK', ConfirmOnboarding \/ SelectCandidate
  PROVE  Publication!Advance
<1>1. /\ UNCHANGED <<run, result>>
      /\ head'.generation = head.generation /\ stateVersion' = stateVersion + 1
  BY DEF ConfirmOnboarding, SelectCandidate, TypeOK, HeadFence
<1>2. /\ head.generation \in Nat /\ stateVersion \in Nat
      /\ head'.generation \in Nat /\ stateVersion' \in Nat
  BY DEF TypeOK, HeadFence
<1>3. QED
  BY <1>1, <1>2 DEF Publication!Advance, Publication!Version, Publication!Later

-----------------------------------------------------------------------------
LEMMA NextRefines ==
  ASSUME StoreInvariant, [Next]_vars
  PROVE  [Publication!Next]_(Publication!vars)
<1>0. TypeOK /\ TypeOK' /\ StageAgreesWithRun
  BY NextTypeOK DEF StoreInvariant
<1>1. CASE ConfirmOnboarding \/ SelectCandidate
  BY <1>0, <1>1, AdvanceRefines DEF Publication!Next
<1>2. ASSUME NEW w \in Workflow,
             \/ StartFirstProposal(w) \/ StartSelectiveRefresh(w)
             \/ \E source \in Workflow : StartSelectiveWithState(w, source)
      PROVE  Publication!Open(w)
  <2>1. stateVersion' >= stateVersion
    BY <1>0, <1>2
       DEF StartFirstProposal, StartSelectiveRefresh, StartSelectiveWithState, TypeOK
  <2>2. PICK source : EnqueueFirstProposal(w, source, stateVersion')
    BY <1>2 DEF StartFirstProposal, StartSelectiveRefresh, StartSelectiveWithState
  <2>3. QED
    BY <1>0, <2>1, <2>2, EnqueueRefines
<1>3. ASSUME NEW w \in Workflow, Claim(w)
      PROVE  UNCHANGED Publication!vars
  BY <1>0, <1>3, StutterRefines DEF Claim, ClaimRefused, TypeOK, RunRow, ActiveStatus
<1>4. ASSUME NEW w \in Workflow, ClaimStale(w)
      PROVE  Publication!Close(w)
  BY <1>0, <1>4, MarkStaleRefines DEF ClaimStale, ClaimRefused
<1>5. ASSUME NEW w \in Workflow, LeaseTick(w)
      PROVE  UNCHANGED Publication!vars
  BY <1>5, NoRunChangesRefines DEF LeaseTick
<1>6. ASSUME NEW w \in Workflow, NEW token \in Issued(w), LeaseOperation(w, token)
      PROVE  Publication!Publish(w) \/ Publication!Close(w) \/ UNCHANGED Publication!vars
  <2>1. stage[w].status = "RUNNING" => run[w].status = "RUNNING"
    BY <1>0, LeasedRunIsRunning
  <2>2. CASE Heartbeat(w, token)
    BY <2>2, NoRunChangesRefines DEF Heartbeat
  <2>3. CASE HeartbeatStale(w, token) \/ RecordStale(w, token)
    BY <1>0, <2>1, <2>3, MarkStaleRefines
       DEF HeartbeatStale, RecordStale, FailureAccepted, LeaseIsCurrent, ActiveStatus
  <2>4. ASSUME NEW retryable \in BOOLEAN, RecordRetry(w, token, retryable)
        PROVE  UNCHANGED Publication!vars
    BY <1>0, <2>1, <2>4, StutterRefines
       DEF RecordRetry, FailureAccepted, LeaseIsCurrent, TypeOK, RunRow, ActiveStatus
  <2>5. ASSUME NEW retryable \in BOOLEAN, RecordFailed(w, token, retryable)
        PROVE  Publication!Close(w)
    BY <1>0, <2>1, <2>5, EndRefines
       DEF RecordFailed, FailureAccepted, LeaseIsCurrent, TypeOK, RunRow, ActiveStatus
  <2>6. ASSUME NEW s \in ProgressStage, NEW op \in Operation, Transition(w, token, s, op)
        PROVE  UNCHANGED Publication!vars
    BY <2>6, NoRunChangesRefines DEF Transition
  <2>7. CASE PersistFirstProposalResult(w, token)
    BY <2>7, PersistRefines
  <2>8. QED
    BY <1>6, <2>2, <2>3, <2>4, <2>5, <2>6, <2>7 DEF LeaseOperation
<1>7. CASE UNCHANGED vars
  BY <1>7, NoRunChangesRefines DEF vars, projectVars
<1>8. QED
  BY <1>1, <1>2, <1>3, <1>4, <1>5, <1>6, <1>7 DEF Next, ProjectCommand, Publication!Next

\* Leases, attempts, stale workers and retries are invisible: users see jobs that are
\* opened against a version and publish only while it is the project's version.
THEOREM StoreImplementsPublication == Spec => PublicationSpec
BY InitRefines, NextRefines, StoreIsConsistent, PTL
   DEF Spec, PublicationSpec, Publication!Spec

=============================================================================
