------------------------ MODULE WorkflowRuntime_proofs ------------------------
(***************************************************************************)
(* Theorems about WorkflowRuntime, for any number of runs, handlers,         *)
(* dispatchers, attempts, crashes and stalls.                               *)
(*                                                                         *)
(* The real clients stay within the store's operations, so the store's       *)
(* invariant carries over (RuntimeImplementsStore).  The rest is about what  *)
(* the clients know: which lease tokens they hold, which runs their messages *)
(* are of, how far the plan of a run has been passed, and between which two  *)
(* versions of the head an executor read its inputs.                        *)
(***************************************************************************)
EXTENDS WorkflowRuntime, WorkflowStore_proofs

-----------------------------------------------------------------------------
(* The inductive invariant.                                                *)

Queued(w) == w \in Workflow /\ run[w].status # "absent"

UnclaimedBeforeQueued ==
  \A w \in Workflow : run[w].status = "absent" => stage[w].attempt = 0

WorkersHoldIssuedTokens ==
  \A i \in Worker : worker[i].pc \in {"processing", "failing"} =>
    /\ worker[i].delivery[1] \in Workflow
    /\ worker[i].token \in Issued(worker[i].delivery[1])

ExecutorsHoldIssuedTokens ==
  \A w \in Workflow, t \in Token : executor[w][t].pc # "none" => t \in Issued(w)

\* Outbox rows, dispatchers, messages and handlers are of runs that were queued.
DeliveriesAreOfQueuedRuns ==
  /\ \A w \in Workflow : outbox[w].status # "absent" => Queued(w)
  /\ \A d \in Dispatcher : dispatcher[d].pc # "idle" => Queued(dispatcher[d].run)
  /\ \A m \in messages : Queued(m[1])
  /\ \A i \in Worker : worker[i].pc # "idle" => Queued(worker[i].delivery[1])

DoneMeansSucceeded ==
  \A w \in Workflow, t \in Token :
    executor[w][t].pc = "done" => run[w].status = "SUCCEEDED"

\* Heads only grow, generation and state version: no run is started ahead of the head...
HeadsGrow ==
  /\ head.state <= stateVersion
  /\ \A w \in Workflow : Queued(w) => run[w].head.state <= head.state

\* ... and inputs are read between the start of the run and now.
InputsBetweenHeads ==
  \A w \in Workflow, t \in Token : executor[w][t].pc = "running" =>
    LET inputs == executor[w][t].inputs IN
    /\ run[w].head.generation <= inputs.generation /\ inputs.generation <= head.generation
    /\ run[w].head.state <= inputs.state /\ inputs.state <= head.state

\* What a checkpoint shows once an operation of the plan has been accepted for it.
Reached(op) ==
  CASE op = "start"    -> {"RUNNING", "SUCCEEDED"}
    [] op = "complete" -> {"SUCCEEDED"}
    [] op = "skip"     -> {"SKIPPED"}

Passed(w, k) == progress[w][Plan(w)[k].stage].status \in Reached(Plan(w)[k].op)

\* The checkpoints of a run in progress are passed in the order of its plan, whichever
\* attempts did it.
PassedInOrder ==
  \A w \in Workflow : run[w].status \in ActiveStatus =>
    /\ \A s \in ProgressStage :
         \/ progress[w][s].status = "PENDING"
         \/ \E k \in Stops(w) : /\ Plan(w)[k].stage = s
                                /\ progress[w][s].status = Target(Plan(w)[k].op)
    /\ \A j, k \in Stops(w) : j < k /\ Passed(w, k) => Passed(w, j)

ExecutorsStandAtStops ==
  \A w \in Workflow, t \in Token :
    executor[w][t].pc = "running" => executor[w][t].step \in Stops(w) \cup {AfterLast(w)}

\* The executor of the attempt that holds the lease has passed everything behind it.
HolderHasPassed ==
  \A w \in Workflow, t \in Token :
    /\ executor[w][t].pc = "running"
    /\ stage[w].status = "RUNNING"
    /\ stage[w].token = t
    => \A k \in Stops(w) : k < executor[w][t].step => Passed(w, k)

OnlyActiveRunsShowOpen ==
  \A w \in Workflow : run[w].status \notin ActiveStatus =>
    \A s \in ProgressStage : progress[w][s].status # "RUNNING"

RuntimeInvariant ==
  /\ StoreInvariant
  /\ RuntimeTypeOK
  /\ UnclaimedBeforeQueued
  /\ WorkersHoldIssuedTokens
  /\ ExecutorsHoldIssuedTokens
  /\ DeliveriesAreOfQueuedRuns
  /\ DoneMeansSucceeded
  /\ HeadsGrow
  /\ InputsBetweenHeads
  /\ PassedInOrder
  /\ ExecutorsStandAtStops
  /\ HolderHasPassed
  /\ OnlyActiveRunsShowOpen
  /\ SuccessShowsEveryCheckpoint

-----------------------------------------------------------------------------
(* The two plans.                                                          *)

LEMMA FirstProposalPasses ==
  /\ Len(FirstProposalPlan) = 11
  /\ FirstProposalPlan[1] = [stage |-> "EVIDENCE_RETRIEVAL", op |-> "start"]
  /\ FirstProposalPlan[2] = [stage |-> "EVIDENCE_RETRIEVAL", op |-> "complete"]
  /\ FirstProposalPlan[3] = [stage |-> "EVIDENCE_ASSESS", op |-> "start"]
  /\ FirstProposalPlan[4] = [stage |-> "EVIDENCE_ASSESS", op |-> "complete"]
  /\ FirstProposalPlan[5] = [stage |-> "PROPOSAL_GENERATION", op |-> "start"]
  /\ FirstProposalPlan[6] = [stage |-> "PROPOSAL_GENERATION", op |-> "complete"]
  /\ FirstProposalPlan[7] = [stage |-> "FINANCE_AND_RANK", op |-> "start"]
  /\ FirstProposalPlan[8] = [stage |-> "FINANCE_AND_RANK", op |-> "complete"]
  /\ FirstProposalPlan[9] = [stage |-> "CANDIDATE_AUDIT", op |-> "start"]
  /\ FirstProposalPlan[10] = [stage |-> "CANDIDATE_AUDIT", op |-> "complete"]
  /\ FirstProposalPlan[11] = [stage |-> "COMMIT_RESULT", op |-> "start"]
BY DEF FirstProposalPlan, Pass

LEMMA SelectivePasses ==
  /\ Len(SelectivePlan) = 7
  /\ SelectivePlan[1] = [stage |-> "EVIDENCE_RETRIEVAL", op |-> "skip"]
  /\ SelectivePlan[2] = [stage |-> "EVIDENCE_ASSESS", op |-> "skip"]
  /\ SelectivePlan[3] = [stage |-> "PROPOSAL_GENERATION", op |-> "skip"]
  /\ SelectivePlan[4] = [stage |-> "FINANCE_AND_RANK", op |-> "start"]
  /\ SelectivePlan[5] = [stage |-> "FINANCE_AND_RANK", op |-> "complete"]
  /\ SelectivePlan[6] = [stage |-> "CANDIDATE_AUDIT", op |-> "skip"]
  /\ SelectivePlan[7] = [stage |-> "COMMIT_RESULT", op |-> "start"]
BY DEF SelectivePlan, Pass

\* Every place of a plan is an operation on a checkpoint; a checkpoint is met once, or
\* started in one place and completed in the next; the result is committed last.
WellFormed(plan) ==
  /\ Len(plan) \in Nat
  /\ \A k \in 1..Len(plan) : plan[k] \in [stage : CheckpointStage, op : Operation]
  /\ \A j, k \in 1..Len(plan) :
       j < k /\ plan[j].stage = plan[k].stage =>
         plan[j].op = "start" /\ plan[k].op = "complete"
  /\ \A k \in 1..Len(plan) : plan[k].op = "start" /\ plan[k].stage # "COMMIT_RESULT" =>
       k + 1 \in 1..Len(plan) /\ plan[k + 1] = [stage |-> plan[k].stage, op |-> "complete"]
  /\ \A k \in 1..Len(plan) : plan[k].stage = "COMMIT_RESULT" => k = Len(plan)
  /\ \A s \in CheckpointStage \ {"COMMIT_RESULT"} :
       \E k \in 1..Len(plan) : plan[k].stage = s /\ plan[k].op \in {"complete", "skip"}

LEMMA FirstProposalWellFormed == WellFormed(FirstProposalPlan)
<1> DEFINE plan == FirstProposalPlan
<1>0. Len(plan) = 11 /\ 1..Len(plan) = 1..11
  BY FirstProposalPasses
<1>1. \A k \in 1..11 : plan[k] \in [stage : CheckpointStage, op : Operation]
  BY FirstProposalPasses DEF CheckpointStage, Operation
<1>2. \A j, k \in 1..11 : j < k /\ plan[j].stage = plan[k].stage =>
        plan[j].op = "start" /\ plan[k].op = "complete"
  BY FirstProposalPasses
<1>3. \A k \in 1..11 : plan[k].op = "start" /\ plan[k].stage # "COMMIT_RESULT" =>
        k + 1 \in 1..11 /\ plan[k + 1] = [stage |-> plan[k].stage, op |-> "complete"]
  BY FirstProposalPasses
<1>4. \A s \in CheckpointStage \ {"COMMIT_RESULT"} :
        \E k \in 1..11 : plan[k].stage = s /\ plan[k].op \in {"complete", "skip"}
  BY FirstProposalPasses DEF CheckpointStage
<1>5. \A k \in 1..11 : plan[k].stage = "COMMIT_RESULT" => k = 11
  BY FirstProposalPasses
<1>6. QED
  BY <1>0, <1>1, <1>2, <1>3, <1>4, <1>5 DEF WellFormed

LEMMA SelectiveWellFormed == WellFormed(SelectivePlan)
<1> DEFINE plan == SelectivePlan
<1>0. Len(plan) = 7 /\ 1..Len(plan) = 1..7
  BY SelectivePasses
<1>1. \A k \in 1..7 : plan[k] \in [stage : CheckpointStage, op : Operation]
  BY SelectivePasses DEF CheckpointStage, Operation
<1>2. \A j, k \in 1..7 : j < k /\ plan[j].stage = plan[k].stage =>
        plan[j].op = "start" /\ plan[k].op = "complete"
  BY SelectivePasses
<1>3. \A k \in 1..7 : plan[k].op = "start" /\ plan[k].stage # "COMMIT_RESULT" =>
        k + 1 \in 1..7 /\ plan[k + 1] = [stage |-> plan[k].stage, op |-> "complete"]
  BY SelectivePasses
<1>4. \A s \in CheckpointStage \ {"COMMIT_RESULT"} :
        \E k \in 1..7 : plan[k].stage = s /\ plan[k].op \in {"complete", "skip"}
  BY SelectivePasses DEF CheckpointStage
<1>5. \A k \in 1..7 : plan[k].stage = "COMMIT_RESULT" => k = 7
  BY SelectivePasses
<1>6. QED
  BY <1>0, <1>1, <1>2, <1>3, <1>4, <1>5 DEF WellFormed

LEMMA PlanWellFormed == ASSUME NEW w PROVE WellFormed(Plan(w))
BY FirstProposalWellFormed, SelectiveWellFormed DEF Plan

LEMMA PlanClosesEveryCheckpoint ==
  ASSUME NEW w, NEW s \in CheckpointStage \ {"COMMIT_RESULT"}
  PROVE  \E k \in 1..Len(Plan(w)) :
           Plan(w)[k].stage = s /\ Plan(w)[k].op \in {"complete", "skip"}
<1> DEFINE plan == Plan(w)
<1>1. WellFormed(plan)
  BY PlanWellFormed
<1> HIDE DEF plan
<1>2. \E k \in 1..Len(plan) : plan[k].stage = s /\ plan[k].op \in {"complete", "skip"}
  BY <1>1 DEF WellFormed
<1>3. QED
  BY <1>2 DEF plan

-----------------------------------------------------------------------------
(* The real clients call the store as it expects.                          *)

\* An executor only asks for checkpoints of its plan that the run has.
LEMMA StopsAreCheckpoints ==
  ASSUME NEW w \in Workflow, NEW k \in Stops(w)
  PROVE  /\ k \in Nat /\ k \in 1..Len(Plan(w))
         /\ Plan(w)[k].stage \in ProgressStage
         /\ Plan(w)[k].op \in Operation
BY PlanWellFormed DEF Stops, WellFormed

LEMMA CommandIsStoreStep ==
  ASSUME NEW w \in Workflow, QueueRun(w)
  PROVE  Next
BY DEF QueueRun, Next, ProjectCommand

LEMMA HandlerIsStoreStep ==
  ASSUME RuntimeInvariant, NEW i \in Worker,
         \/ \E m \in messages : DeliverAndClaim(i, m) \/ DeliverAndMiss(i, m)
         \/ WorkerStep(i)
         \/ WorkerCrash(i)
  PROVE  [Next]_vars
<1>1. ASSUME NEW m \in messages, DeliverAndClaim(i, m) \/ DeliverAndMiss(i, m)
      PROVE  [Next]_vars
  <2>1. m[1] \in Workflow
    BY DEF RuntimeInvariant, DeliveriesAreOfQueuedRuns, Queued
  <2>2. QED
    BY <1>1, <2>1 DEF DeliverAndClaim, DeliverAndMiss, Next
<1>2. ASSUME worker[i].pc \in {"processing", "failing"}
      PROVE  /\ worker[i].delivery[1] \in Workflow
             /\ worker[i].token \in Issued(worker[i].delivery[1])
  BY <1>2 DEF RuntimeInvariant, WorkersHoldIssuedTokens
<1>3. CASE KeepLease(i) \/ LoseLease(i)
  BY <1>2, <1>3 DEF KeepLease, LoseLease, Next, LeaseOperation
<1>4. CASE ReportFailure(i)
  <2>1. worker[i].retryable \in BOOLEAN
    BY DEF RuntimeInvariant, RuntimeTypeOK, WorkerRow
  <2>2. QED
    BY <1>2, <1>4, <2>1 DEF ReportFailure, Next, LeaseOperation
<1>5. CASE CheckPending(i) \/ GiveUp(i) \/ ReceiveAnswer(i) \/ WorkerCrash(i)
  BY <1>5 DEF CheckPending, GiveUp, ReceiveAnswer, WorkerCrash
<1>6. QED
  BY <1>1, <1>3, <1>4, <1>5 DEF WorkerStep

LEMMA ExecutorIsStoreStep ==
  ASSUME RuntimeInvariant, NEW w \in Workflow, NEW t \in Token,
         ExecutorStep(w, t) \/ ExecutorFails(w, t)
  PROVE  [Next]_vars
<1>1. CASE Authorize(w, t) \/ ReadInputs(w, t) \/ ExecutorFails(w, t)
  BY <1>1 DEF Authorize, ReadInputs, ExecutorFails
<1>2. ASSUME executor[w][t].pc = "running"
      PROVE  t \in Issued(w) /\ executor[w][t].step \in Stops(w) \cup {AfterLast(w)}
  BY <1>2 DEF RuntimeInvariant, ExecutorsHoldIssuedTokens, ExecutorsStandAtStops
<1>3. CASE Checkpoint(w, t)
  <2> DEFINE pass == Plan(w)[executor[w][t].step]
  <2>1. pass.stage \in ProgressStage /\ pass.op \in Operation
    BY <1>2, <1>3, StopsAreCheckpoints DEF Checkpoint
  <2>2. Transition(w, t, pass.stage, pass.op) \/ UNCHANGED vars
    BY <1>3 DEF Checkpoint
  <2>3. t \in Issued(w)
    BY <1>2, <1>3 DEF Checkpoint
  <2> HIDE DEF pass
  <2>4. QED
    BY <2>1, <2>2, <2>3 DEF Next, LeaseOperation
<1>4. CASE Commit(w, t)
  BY <1>2, <1>4 DEF Commit, Next, LeaseOperation
<1>5. QED
  BY <1>1, <1>3, <1>4 DEF ExecutorStep

LEMMA RuntimeStepIsStoreStep ==
  ASSUME RuntimeInvariant, [RuntimeNext]_runtimeVars
  PROVE  [Next]_vars
<1>1. CASE MoveHead
  BY <1>1 DEF MoveHead, Next, ProjectCommand
<1>2. CASE DispatchMove
  BY <1>2 DEF DispatchMove
<1>3. ASSUME NEW w \in Workflow, QueueRun(w) \/ Tick(w)
      PROVE  [Next]_vars
  BY <1>3, CommandIsStoreStep DEF Tick, Next
<1>4. CASE UNCHANGED runtimeVars
  BY <1>4 DEF runtimeVars
<1>5. QED
  BY <1>1, <1>2, <1>3, <1>4, HandlerIsStoreStep, ExecutorIsStoreStep DEF RuntimeNext

-----------------------------------------------------------------------------
(* What one step of the store may do to the head and to the rows of a run.  *)

StoreMove ==
  /\ head.generation <= head'.generation
  /\ head.state <= head'.state
  /\ head'.state <= stateVersion'
  /\ \A v \in Workflow :
       /\ stage[v].attempt <= stage'[v].attempt
       /\ run'[v].status = "absent" => stage'[v].attempt = 0
       /\ run[v].status # "absent" =>
            /\ run'[v].status # "absent"
            /\ run'[v].head = run[v].head
            /\ run'[v].source = run[v].source
       /\ run[v].status = "absent" /\ run'[v].status # "absent" =>
            run'[v].head.state <= head'.state

LEMMA EnqueueMoves ==
  ASSUME StoreInvariant, UnclaimedBeforeQueued, HeadsGrow, NEW w \in Workflow, NEW source,
         stateVersion' \in Nat, stateVersion' >= stateVersion,
         EnqueueFirstProposal(w, source, stateVersion')
  PROVE  StoreMove
<1> DEFINE next == [generation |-> head.generation + 1, state |-> stateVersion']
<1>0. /\ head \in HeadFence /\ stateVersion \in Nat
      /\ run \in [Workflow -> RunRow] /\ stage \in [Workflow -> StageRow]
  BY DEF StoreInvariant, TypeOK
<1>1. /\ head' = next /\ run[w].status = "absent"
      /\ run'[w].status = "QUEUED" /\ run'[w].head = next
      /\ \A v \in Workflow \ {w} : run'[v] = run[v]
  BY <1>0 DEF EnqueueFirstProposal
<1>2. /\ stage'[w].attempt = 0 /\ stage[w].attempt = 0
      /\ \A v \in Workflow \ {w} : stage'[v] = stage[v]
  BY <1>0, <1>1 DEF EnqueueFirstProposal, UnclaimedBeforeQueued
<1>3. /\ head.generation <= head'.generation
      /\ head.state <= head'.state
      /\ head'.state <= stateVersion'
      /\ run'[w].head.state <= head'.state
  BY <1>0, <1>1 DEF HeadsGrow, HeadFence
<1>4. \A v \in Workflow : stage[v].attempt \in Nat
  BY <1>0 DEF StageRow
<1>5. QED
  BY <1>1, <1>2, <1>3, <1>4 DEF StoreMove, UnclaimedBeforeQueued

LEMMA HeadCommandMoves ==
  ASSUME StoreInvariant, UnclaimedBeforeQueued, HeadsGrow,
         ConfirmOnboarding \/ SelectCandidate
  PROVE  StoreMove
<1>0. /\ head \in HeadFence /\ stateVersion \in Nat
      /\ run \in [Workflow -> RunRow] /\ stage \in [Workflow -> StageRow]
  BY DEF StoreInvariant, TypeOK
<1>1. /\ head.generation <= head'.generation
      /\ head.state <= head'.state
      /\ head'.state <= stateVersion'
  BY <1>0 DEF ConfirmOnboarding, SelectCandidate, HeadsGrow, HeadFence
<1>2. UNCHANGED <<run, stage>>
  BY DEF ConfirmOnboarding, SelectCandidate
<1>3. \A v \in Workflow : stage[v].attempt \in Nat
  BY <1>0 DEF StageRow
<1>4. QED
  BY <1>1, <1>2, <1>3 DEF StoreMove, UnclaimedBeforeQueued

\* The operations of the lease repository leave the head, and change of a run that
\* exists its status and, when it is claimed, its attempt.
LEMMA LeaseMoves ==
  ASSUME StoreInvariant, UnclaimedBeforeQueued, HeadsGrow, NEW w \in Workflow,
         run[w].status # "absent",
         run' = run \/ \E status \in RunStatus \ {"absent"} :
                         run' = [run EXCEPT ![w].status = status],
         \A v \in Workflow \ {w} : stage'[v] = stage[v],
         stage'[w].attempt \in Nat, stage[w].attempt <= stage'[w].attempt,
         UNCHANGED <<stateVersion, head>>
  PROVE  StoreMove
<1>0. /\ head \in HeadFence /\ stateVersion \in Nat
      /\ run \in [Workflow -> RunRow] /\ stage \in [Workflow -> StageRow]
  BY DEF StoreInvariant, TypeOK
<1>1. /\ run'[w].status # "absent"
      /\ run'[w].head = run[w].head
      /\ run'[w].source = run[w].source
      /\ \A v \in Workflow \ {w} : run'[v] = run[v]
  BY <1>0 DEF RunRow
<1>2. /\ head.generation <= head'.generation
      /\ head.state <= head'.state
      /\ head'.state <= stateVersion'
  BY <1>0 DEF HeadsGrow, HeadFence
<1>3. \A v \in Workflow : stage[v].attempt \in Nat
  BY <1>0 DEF StageRow
<1>4. QED
  BY <1>1, <1>2, <1>3 DEF StoreMove, UnclaimedBeforeQueued

LEMMA NextMoves ==
  ASSUME StoreInvariant, UnclaimedBeforeQueued, HeadsGrow, [Next]_vars
  PROVE  StoreMove
<1>0. /\ stage \in [Workflow -> StageRow] /\ run \in [Workflow -> RunRow]
      /\ stateVersion \in Nat /\ head \in HeadFence
      /\ TypeOK /\ StageAgreesWithRun
  BY DEF StoreInvariant, TypeOK
<1>1. CASE ConfirmOnboarding \/ SelectCandidate
  BY <1>1, HeadCommandMoves
<1>2. ASSUME NEW w \in Workflow,
             \/ StartFirstProposal(w) \/ StartSelectiveRefresh(w)
             \/ \E source \in Workflow : StartSelectiveWithState(w, source)
      PROVE  StoreMove
  <2>1. CASE StartFirstProposal(w) \/ StartSelectiveRefresh(w)
    BY <1>0, <2>1, EnqueueMoves DEF StartFirstProposal, StartSelectiveRefresh
  <2>2. ASSUME NEW source \in Workflow, StartSelectiveWithState(w, source)
        PROVE  StoreMove
    BY <1>0, <2>2, EnqueueMoves DEF StartSelectiveWithState
  <2>3. QED
    BY <1>2, <2>1, <2>2
<1>3. ASSUME NEW w \in Workflow, Claim(w)
      PROVE  StoreMove
  <2>1. /\ stage'[w].attempt = stage[w].attempt + 1 /\ stage[w].attempt \in Nat
        /\ \A v \in Workflow \ {w} : stage'[v] = stage[v]
    BY <1>0, <1>3 DEF Claim, StageRow
  <2>2. /\ run[w].status # "absent"
        /\ run' = run \/ run' = [run EXCEPT ![w].status = "RUNNING"]
    BY <1>0, <1>3 DEF Claim, ClaimRefused, ActiveStatus, RunRow
  <2>3. "RUNNING" \in RunStatus \ {"absent"} /\ UNCHANGED <<stateVersion, head>>
    BY <1>3 DEF RunStatus, ActiveStatus, Claim, projectVars
  <2>4. QED
    BY <2>1, <2>2, <2>3, LeaseMoves
<1>4. ASSUME NEW w \in Workflow, run[w].status # "absent", MarkStale(w)
      PROVE  StoreMove
  <2>1. /\ stage'[w].attempt = stage[w].attempt /\ stage[w].attempt \in Nat
        /\ \A v \in Workflow \ {w} : stage'[v] = stage[v]
    BY <1>0, <1>4 DEF MarkStale, StageRow
  <2>2. "STALE" \in RunStatus \ {"absent"} /\ UNCHANGED <<stateVersion, head>>
    BY <1>4 DEF RunStatus, TerminalStatus, MarkStale, projectVars
  <2>3. \E status \in RunStatus \ {"absent"} : run' = [run EXCEPT ![w].status = status]
    BY <1>4, <2>2 DEF MarkStale
  <2>4. QED
    <3>1. stage'[w].attempt \in Nat /\ stage[w].attempt <= stage'[w].attempt
      BY <2>1
    <3>2. QED
      BY <1>4, <2>1, <2>2, <2>3, <3>1, LeaseMoves
<1>5. ASSUME NEW w \in Workflow, stage[w].status = "RUNNING"
      PROVE  run[w].status # "absent"
  BY <1>0, <1>5, LeasedRunIsRunning
<1>6. ASSUME NEW w \in Workflow, NEW token, LeaseTick(w) \/ Heartbeat(w, token)
      PROVE  StoreMove
  <2>1. /\ stage'[w].attempt = stage[w].attempt /\ stage[w].attempt \in Nat
        /\ \A v \in Workflow \ {w} : stage'[v] = stage[v]
    BY <1>0, <1>6 DEF LeaseTick, Heartbeat, StageRow
  <2>2. run' = run /\ UNCHANGED <<stateVersion, head>> /\ stage[w].status = "RUNNING"
    BY <1>6 DEF LeaseTick, Heartbeat, LeaseIsCurrent, projectVars
  <2>3. QED
    BY <1>5, <2>1, <2>2, LeaseMoves
<1>7. ASSUME NEW w \in Workflow, NEW token, NEW retryable \in BOOLEAN,
             RecordRetry(w, token, retryable) \/ RecordFailed(w, token, retryable)
      PROVE  StoreMove
  <2>1. /\ stage'[w].attempt = stage[w].attempt /\ stage[w].attempt \in Nat
        /\ \A v \in Workflow \ {w} : stage'[v] = stage[v]
    BY <1>0, <1>7 DEF RecordRetry, RecordFailed, StageRow
  <2>2. /\ stage[w].status = "RUNNING" /\ UNCHANGED <<stateVersion, head>>
        /\ \/ run' = [run EXCEPT ![w].status = "QUEUED"]
           \/ run' = [run EXCEPT ![w].status = "FAILED"]
    BY <1>7 DEF RecordRetry, RecordFailed, FailureAccepted, LeaseIsCurrent, projectVars
  <2>3. {"QUEUED", "FAILED"} \subseteq RunStatus \ {"absent"}
    BY DEF RunStatus, ActiveStatus, TerminalStatus
  <2>4. QED
    BY <1>5, <2>1, <2>2, <2>3, LeaseMoves
<1>8. ASSUME NEW w \in Workflow, NEW token, NEW s, NEW op, Transition(w, token, s, op)
      PROVE  StoreMove
  <2>1. /\ stage' = stage /\ run' = run /\ UNCHANGED <<stateVersion, head>>
        /\ stage[w].status = "RUNNING" /\ stage[w].attempt \in Nat
    BY <1>0, <1>8
       DEF Transition, TransitionAccepted, AuthorizeMutation, LeaseIsCurrent, projectVars,
           StageRow
  <2>2. QED
    BY <1>5, <2>1, LeaseMoves
<1>9. ASSUME NEW w \in Workflow, NEW token, PersistFirstProposalResult(w, token)
      PROVE  StoreMove
  <2>1. /\ stage'[w].attempt = stage[w].attempt /\ stage[w].attempt \in Nat
        /\ \A v \in Workflow \ {w} : stage'[v] = stage[v]
    BY <1>0, <1>9 DEF PersistFirstProposalResult, StageRow
  <2>2. /\ stage[w].status = "RUNNING" /\ UNCHANGED <<stateVersion, head>>
        /\ run' = [run EXCEPT ![w].status = "SUCCEEDED"]
    BY <1>9 DEF PersistFirstProposalResult, AuthorizeMutation, LeaseIsCurrent
  <2>3. \E status \in RunStatus \ {"absent"} : run' = [run EXCEPT ![w].status = status]
    BY <2>2 DEF RunStatus, TerminalStatus
  <2>4. stage'[w].attempt \in Nat /\ stage[w].attempt <= stage'[w].attempt
    BY <2>1
  <2>5. run[w].status # "absent"
    BY <1>5, <2>2
  <2>6. QED
    BY <2>1, <2>2, <2>3, <2>4, <2>5, LeaseMoves
<1>10. CASE UNCHANGED vars
  <2>1. \A v \in Workflow : stage[v].attempt \in Nat
    BY <1>0 DEF StageRow
  <2>2. head.generation \in Nat /\ head.state \in Nat
    BY <1>0 DEF HeadFence
  <2>3. QED
    BY <1>10, <2>1, <2>2 DEF vars, StoreMove, HeadsGrow, UnclaimedBeforeQueued
<1>11. ASSUME NEW w \in Workflow, NEW token, LeaseOperation(w, token)
       PROVE  StoreMove
  <2>1. CASE HeartbeatStale(w, token) \/ RecordStale(w, token)
    BY <1>4, <1>5, <2>1 DEF HeartbeatStale, RecordStale, FailureAccepted, LeaseIsCurrent
  <2>2. QED
    BY <1>6, <1>7, <1>8, <1>9, <1>11, <2>1 DEF LeaseOperation
<1>12. ASSUME NEW w \in Workflow, ClaimStale(w)
       PROVE  StoreMove
  BY <1>4, <1>12 DEF ClaimStale, ClaimRefused, ActiveStatus
<1>13. QED
  BY <1>1, <1>2, <1>3, <1>6, <1>10, <1>11, <1>12 DEF Next, ProjectCommand

-----------------------------------------------------------------------------
(* What one step may do to a handler and to an executor.                   *)

HandlerMove(j) ==
  \/ worker'[j] = worker[j]
  \/ worker'[j] = Waiting
  \/ \E m \in messages :
       /\ worker'[j].delivery = m
       /\ \/ worker'[j].pc = "checking"
          \/ worker'[j].pc = "processing" /\ worker'[j].token \in Issued(m[1])'
  \/ /\ worker[j].pc = "processing"
     /\ worker'[j].delivery = worker[j].delivery
     /\ \/ worker'[j].pc = "checking"
        \/ worker'[j].pc = "failing" /\ worker'[j].token = worker[j].token

HandlersMove == worker' \in [Worker -> WorkerRow] /\ \A j \in Worker : HandlerMove(j)

LEMMA WaitingIsRow == Waiting \in WorkerRow
BY DEF Waiting, WorkerRow, NoDelivery

LEMMA FreeMoves ==
  ASSUME worker \in [Worker -> WorkerRow], NEW i \in Worker, Free(i)
  PROVE  HandlersMove
BY WaitingIsRow DEF Free, HandlersMove, HandlerMove

LEMMA FailMoves ==
  ASSUME worker \in [Worker -> WorkerRow], NEW i \in Worker, NEW retryable \in BOOLEAN,
         worker[i].pc = "processing", Fail(i, retryable)
  PROVE  HandlersMove
<1>1. worker' \in [Worker -> WorkerRow]
  BY DEF Fail, WorkerRow
<1>2. /\ worker'[i].pc = "failing" /\ worker'[i].token = worker[i].token
      /\ worker'[i].delivery = worker[i].delivery
      /\ \A j \in Worker \ {i} : worker'[j] = worker[j]
  BY DEF Fail, WorkerRow
<1>3. QED
  BY <1>1, <1>2 DEF HandlersMove, HandlerMove

\* A fresh token is one the instance has: claim is bounded by attempts and lapses.
LEMMA ClaimedTokenExists ==
  ASSUME StoreInvariant, NEW w \in Workflow, Claim(w)
  PROVE  /\ stage[w].attempt \in Nat
         /\ stage[w].attempt + 1 \in Token
         /\ stage'[w].attempt = stage[w].attempt + 1
         /\ stage'[w].token = stage[w].attempt + 1
<1>1. stage \in [Workflow -> StageRow] /\ lapses[w] \in 0..MaxLapses
  BY DEF StoreInvariant, TypeOK
<1>2. stage[w].attempt \in Nat /\ stage[w].lease \in 0..LeaseTicks
  BY <1>1 DEF StageRow
<1>3. stage[w].status \in {"READY", "RUNNING"} /\ ClaimableAgain(w)
  BY <1>2, StoreAssumption DEF Claim, ClaimRefused, ClaimableAgain
<1>4. stage[w].attempt < MaxStageAttempts + lapses[w]
  BY <1>3 DEF StoreInvariant, AttemptLeftToClaim
<1>5. stage[w].attempt + 1 \in Token
  BY <1>1, <1>2, <1>4, StoreAssumption DEF Token
<1>6. stage'[w] = [status |-> "RUNNING", attempt |-> stage[w].attempt + 1,
                  token |-> stage[w].attempt + 1, lease |-> LeaseTicks]
  BY <1>1 DEF Claim
<1>7. QED
  BY <1>2, <1>5, <1>6

LEMMA DeliveryMoves ==
  ASSUME RuntimeInvariant, NEW i \in Worker, NEW m \in messages,
         DeliverAndClaim(i, m) \/ DeliverAndMiss(i, m)
  PROVE  HandlersMove
<1>0. worker \in [Worker -> WorkerRow] /\ m \in Workflow \X Nat /\ m[1] \in Workflow
  BY DEF RuntimeInvariant, RuntimeTypeOK, Dispatch!DispatchTypeOK
<1>1. CASE DeliverAndClaim(i, m)
  <2> DEFINE token == stage[m[1]].attempt + 1
  <2>1. token \in Token /\ stage[m[1]].attempt \in Nat /\ stage'[m[1]].attempt = token
    <3>1. StoreInvariant /\ Claim(m[1])
      BY <1>1 DEF DeliverAndClaim, RuntimeInvariant
    <3>2. QED
      BY <1>0, <3>1, ClaimedTokenExists
  <2>2. worker' = [worker EXCEPT ![i] = [pc |-> "processing", delivery |-> m,
                     token |-> token, retryable |-> FALSE]]
    BY <1>1 DEF DeliverAndClaim
  <2>3. token \in Issued(m[1])'
    BY <2>1 DEF Issued
  <2> HIDE DEF token
  <2>4. worker' \in [Worker -> WorkerRow]
    BY <1>0, <2>1, <2>2 DEF WorkerRow
  <2>5. /\ worker'[i].pc = "processing" /\ worker'[i].delivery = m
        /\ worker'[i].token = token
        /\ \A j \in Worker \ {i} : worker'[j] = worker[j]
    BY <1>0, <2>2
  <2>6. QED
    BY <2>3, <2>4, <2>5 DEF HandlersMove, HandlerMove
<1>2. CASE DeliverAndMiss(i, m)
  <2>1. worker' = [worker EXCEPT ![i] = [worker[i] EXCEPT !.pc = "checking",
                                                          !.delivery = m]]
    BY <1>2 DEF DeliverAndMiss
  <2>2. worker' \in [Worker -> WorkerRow]
    BY <1>0, <2>1 DEF WorkerRow
  <2>3. /\ worker'[i].pc = "checking" /\ worker'[i].delivery = m
        /\ \A j \in Worker \ {i} : worker'[j] = worker[j]
    BY <1>0, <2>1 DEF WorkerRow
  <2>4. QED
    BY <2>2, <2>3 DEF HandlersMove, HandlerMove
<1>3. QED
  BY <1>1, <1>2

LEMMA LoseLeaseMoves ==
  ASSUME worker \in [Worker -> WorkerRow], NEW i \in Worker, LoseLease(i)
  PROVE  HandlersMove
<1>1. worker' = [worker EXCEPT ![i] = [worker[i] EXCEPT !.pc = "checking", !.token = 0]]
  BY DEF LoseLease
<1>2. worker' \in [Worker -> WorkerRow]
  BY <1>1 DEF WorkerRow
<1>3. /\ worker'[i].pc = "checking" /\ worker'[i].delivery = worker[i].delivery
      /\ \A j \in Worker \ {i} : worker'[j] = worker[j]
  BY <1>1 DEF WorkerRow
<1>4. QED
  BY <1>2, <1>3 DEF HandlersMove, HandlerMove, LoseLease

LEMMA StepMovesHandlers ==
  ASSUME RuntimeInvariant, [RuntimeNext]_runtimeVars
  PROVE  HandlersMove
<1>0. worker \in [Worker -> WorkerRow]
  BY DEF RuntimeInvariant, RuntimeTypeOK
<1>1. CASE worker' = worker
  BY <1>0, <1>1 DEF HandlersMove, HandlerMove
<1>2. CASE MoveHead \/ DispatchMove \/ UNCHANGED runtimeVars
  BY <1>1, <1>2 DEF MoveHead, DispatchMove, runtimeVars, workerVars
<1>3. ASSUME NEW w \in Workflow, QueueRun(w) \/ Tick(w)
      PROVE  HandlersMove
  BY <1>1, <1>3 DEF QueueRun, Tick, workerVars
<1>4. ASSUME NEW w \in Workflow, NEW t \in Token, ExecutorStep(w, t) \/ ExecutorFails(w, t)
      PROVE  HandlersMove
  BY <1>1, <1>4
     DEF ExecutorStep, ExecutorFails, Authorize, ReadInputs, Checkpoint, Commit,
         QuietExecutor
<1>5. ASSUME NEW i \in Worker, WorkerStep(i) \/ WorkerCrash(i)
      PROVE  HandlersMove
  <2>1. CASE CheckPending(i) \/ ReportFailure(i) \/ WorkerCrash(i)
    BY <1>0, <2>1, FreeMoves DEF CheckPending, ReportFailure, WorkerCrash, Nack, Ack
  <2>2. CASE KeepLease(i)
    BY <1>1, <2>2 DEF KeepLease, workerVars
  <2>3. CASE LoseLease(i)
    BY <1>0, <2>3, LoseLeaseMoves
  <2>4. CASE GiveUp(i) \/ ReceiveAnswer(i)
    BY <1>0, <2>4, FreeMoves, FailMoves DEF GiveUp, ReceiveAnswer, Ack
  <2>5. QED
    BY <1>5, <2>1, <2>2, <2>3, <2>4 DEF WorkerStep
<1>6. QED
  BY <1>2, <1>3, <1>4, <1>5, DeliveryMoves DEF RuntimeNext

\* An executor is asked for, fails or answers, reads, passes a checkpoint, or commits.
Reads(w, t) ==
  /\ executor[w][t].pc = "reading"
  /\ executor'[w][t].pc = "running"
  /\ executor'[w][t].inputs = head
  /\ IsNextStop(w, 0, executor'[w][t].step)
  /\ UNCHANGED vars

Passes(w, t) ==
  /\ executor[w][t].pc = "running"
  /\ executor'[w][t].pc = "running"
  /\ executor'[w][t].inputs = executor[w][t].inputs
  /\ executor[w][t].step \in Stops(w)
  /\ IsNextStop(w, executor[w][t].step, executor'[w][t].step)
  /\ Transition(w, t, Plan(w)[executor[w][t].step].stage, Plan(w)[executor[w][t].step].op)

Commits(w, t) ==
  /\ executor[w][t].pc = "running"
  /\ executor[w][t].step = AfterLast(w)
  /\ executor'[w][t].pc \in {"none", "done"}
  /\ PersistFirstProposalResult(w, t)

CallMove(w, t) ==
  \/ executor'[w][t] = executor[w][t]
  \/ executor'[w][t].pc = "none"
  \/ executor'[w][t].pc = "requested" /\ t \in Issued(w)'
  \/ /\ executor[w][t].pc \in {"requested", "reading", "running"}
     /\ executor'[w][t].pc \in {"reading", "rejected", "invalid", "unavailable"}
  \/ Reads(w, t)
  \/ Passes(w, t)
  \/ Commits(w, t)

CallsMove ==
  /\ executor' \in [Workflow -> [Token -> CallRow]]
  /\ \A w \in Workflow, t \in Token : CallMove(w, t)

LEMMA NoCallIsRow ==
  /\ NoCall \in CallRow /\ NoCall.pc = "none"
  /\ \A pc \in {"requested", "reading"} \cup Answer :
       [NoCall EXCEPT !.pc = pc] \in CallRow /\ [NoCall EXCEPT !.pc = pc].pc = pc
BY DEF NoCall, CallRow, Unread, HeadFence

LEMMA GoMoves ==
  ASSUME executor \in [Workflow -> [Token -> CallRow]], NEW w \in Workflow, NEW t \in Token,
         NEW call \in CallRow, Go(w, t, call), executor'[w][t] = call => CallMove(w, t)
  PROVE  CallsMove
<1>1. executor' = [executor EXCEPT ![w][t] = call]
  BY DEF Go
<1>2. executor' \in [Workflow -> [Token -> CallRow]]
  BY <1>1
<1>3. executor'[w][t] = call
  BY <1>1
<1>4. ASSUME NEW v \in Workflow, NEW u \in Token, v # w \/ u # t
      PROVE  executor'[v][u] = executor[v][u]
  BY <1>1, <1>4
<1>5. QED
  BY <1>2, <1>3, <1>4 DEF CallsMove, CallMove

LEMMA FinishMoves ==
  ASSUME executor \in [Workflow -> [Token -> CallRow]], NEW w \in Workflow, NEW t \in Token,
         NEW answer \in Answer, Finish(w, t, answer),
         executor[w][t].pc \in {"requested", "reading", "running"},
         answer = "done" => /\ executor[w][t].pc = "running"
                            /\ executor[w][t].step = AfterLast(w)
                            /\ PersistFirstProposalResult(w, t)
  PROVE  CallsMove
<1>1. PICK call \in {NoCall, [NoCall EXCEPT !.pc = answer]} : Go(w, t, call)
  BY DEF Finish
<1>2. call \in CallRow /\ call.pc \in {"none", answer}
  BY <1>1, NoCallIsRow
<1>3. ASSUME executor'[w][t] = call
      PROVE  CallMove(w, t)
  <2>1. executor'[w][t].pc = "none" \/ executor'[w][t].pc = answer
    BY <1>2, <1>3
  <2>2. CASE answer = "done"
    BY <2>1, <2>2 DEF CallMove, Commits
  <2>3. CASE answer # "done"
    BY <2>1, <2>3 DEF CallMove, Answer
  <2>4. QED
    BY <2>2, <2>3
<1>4. QED
  BY <1>1, <1>2, <1>3, GoMoves

LEMMA HangUpMoves ==
  ASSUME executor \in [Workflow -> [Token -> CallRow]], NEW i \in Worker, HangUp(i)
  PROVE  CallsMove
<1> DEFINE w == worker[i].delivery[1]
           token == worker[i].token
           call == IF executor[w][token].pc \in Answer THEN NoCall ELSE executor[w][token]
<1>1. executor' = [executor EXCEPT ![w][token] = call]
  BY DEF HangUp
<1>2. CASE w \in Workflow /\ token \in Token
  <2>1. call \in CallRow
    BY <1>2, NoCallIsRow
  <2>2. Go(w, token, call)
    BY <1>1 DEF Go
  <2>3. ASSUME executor'[w][token] = call
        PROVE  CallMove(w, token)
    BY <2>3, NoCallIsRow DEF CallMove
  <2> HIDE DEF w, token, call
  <2>4. QED
    BY <1>2, <2>1, <2>2, <2>3, GoMoves
<1>3. CASE w \notin Workflow \/ token \notin Token
  <2>1. executor' = executor
    BY <1>1, <1>3
  <2>2. QED
    BY <2>1 DEF CallsMove, CallMove
<1>4. QED
  BY <1>2, <1>3

LEMMA ExecutorMoves ==
  ASSUME RuntimeInvariant, NEW w \in Workflow, NEW t \in Token,
         ExecutorStep(w, t) \/ ExecutorFails(w, t)
  PROVE  CallsMove
<1>0. executor \in [Workflow -> [Token -> CallRow]] /\ head \in HeadFence
  BY DEF RuntimeInvariant, RuntimeTypeOK, TypeOK
<1>1. CASE ExecutorFails(w, t)
  BY <1>0, <1>1, FinishMoves DEF ExecutorFails, Answer
<1>2. CASE Authorize(w, t)
  <2>1. CASE Finish(w, t, "rejected")
    BY <1>0, <1>2, <2>1, FinishMoves DEF Authorize, Answer
  <2>2. CASE Go(w, t, [NoCall EXCEPT !.pc = "reading"])
    <3> DEFINE call == [NoCall EXCEPT !.pc = "reading"]
    <3>1. call \in CallRow /\ call.pc = "reading"
      BY NoCallIsRow
    <3> HIDE DEF call
    <3>2. executor'[w][t] = call => CallMove(w, t)
      BY <1>2, <3>1 DEF Authorize, CallMove
    <3>3. Go(w, t, call)
      BY <2>2 DEF call
    <3>4. QED
      BY <1>0, <3>1, <3>2, <3>3, GoMoves
  <2>3. QED
    BY <1>2, <2>1, <2>2 DEF Authorize
<1>3. ASSUME NEW k, NEW inputs \in HeadFence, NEW next \in Stops(w) \cup {AfterLast(w)}
      PROVE  [pc |-> "running", step |-> next, inputs |-> inputs] \in CallRow
  <2>1. next \in Nat
    BY StopsAreCheckpoints, PlanWellFormed DEF AfterLast, WellFormed
  <2>2. QED
    BY <2>1 DEF CallRow
<1>4. CASE ReadInputs(w, t)
  <2>1. PICK next \in Stops(w) \cup {AfterLast(w)} :
          /\ IsNextStop(w, 0, next)
          /\ Go(w, t, [pc |-> "running", step |-> next, inputs |-> head])
    BY <1>4 DEF ReadInputs, GoOn
  <2> DEFINE call == [pc |-> "running", step |-> next, inputs |-> head]
  <2>2. call \in CallRow /\ call.pc = "running" /\ call.step = next /\ call.inputs = head
    BY <1>0, <1>3
  <2> HIDE DEF call
  <2>3. executor'[w][t] = call => CallMove(w, t)
    BY <1>4, <2>1, <2>2 DEF ReadInputs, CallMove, Reads
  <2>4. Go(w, t, call)
    BY <2>1 DEF call
  <2>5. QED
    BY <1>0, <2>2, <2>3, <2>4, GoMoves
<1>5. CASE Checkpoint(w, t)
  <2> DEFINE step == executor[w][t].step
             inputs == executor[w][t].inputs
  <2>0. executor[w][t].pc = "running" /\ step # AfterLast(w)
    BY <1>5 DEF Checkpoint
  <2>1. step \in Stops(w) /\ inputs \in HeadFence
    BY <1>0, <2>0 DEF RuntimeInvariant, ExecutorsStandAtStops, CallRow
  <2>2. CASE Finish(w, t, "rejected")
    BY <1>0, <2>0, <2>2, FinishMoves DEF Answer
  <2>3. CASE Transition(w, t, Plan(w)[step].stage, Plan(w)[step].op)
             /\ GoOn(w, t, step, inputs)
    <3>1. PICK next \in Stops(w) \cup {AfterLast(w)} :
            /\ IsNextStop(w, step, next)
            /\ Go(w, t, [pc |-> "running", step |-> next, inputs |-> inputs])
      BY <2>3 DEF GoOn
    <3> DEFINE call == [pc |-> "running", step |-> next, inputs |-> inputs]
    <3>2. /\ call \in CallRow /\ call.pc = "running" /\ call.step = next
          /\ call.inputs = inputs
      BY <1>3, <2>1
    <3> HIDE DEF call
    <3>3. executor'[w][t] = call => CallMove(w, t)
      BY <2>0, <2>1, <2>3, <3>1, <3>2 DEF CallMove, Passes
    <3>4. Go(w, t, call)
      BY <3>1 DEF call
    <3>5. QED
      BY <1>0, <3>2, <3>3, <3>4, GoMoves
  <2>4. QED
    BY <1>5, <2>2, <2>3 DEF Checkpoint
<1>6. CASE Commit(w, t)
  <2>1. CASE Finish(w, t, "rejected")
    BY <1>0, <1>6, <2>1, FinishMoves DEF Commit, Answer
  <2>2. CASE PersistFirstProposalResult(w, t) /\ Finish(w, t, "done")
    BY <1>0, <1>6, <2>2, FinishMoves DEF Commit, Answer
  <2>3. QED
    BY <1>6, <2>1, <2>2 DEF Commit
<1>7. QED
  BY <1>1, <1>2, <1>4, <1>5, <1>6 DEF ExecutorStep

LEMMA StepMovesCalls ==
  ASSUME RuntimeInvariant, [RuntimeNext]_runtimeVars
  PROVE  CallsMove
<1>0. executor \in [Workflow -> [Token -> CallRow]]
  BY DEF RuntimeInvariant, RuntimeTypeOK
<1>1. CASE executor' = executor
  BY <1>0, <1>1 DEF CallsMove, CallMove
<1>2. CASE MoveHead \/ DispatchMove \/ UNCHANGED runtimeVars
  BY <1>1, <1>2 DEF MoveHead, DispatchMove, runtimeVars, workerVars
<1>3. ASSUME NEW w \in Workflow, QueueRun(w) \/ Tick(w)
      PROVE  CallsMove
  BY <1>1, <1>3 DEF QueueRun, Tick, workerVars
<1>4. ASSUME NEW i \in Worker, NEW m \in messages, DeliverAndClaim(i, m)
      PROVE  CallsMove
  <2> DEFINE w == m[1]
             token == stage[m[1]].attempt + 1
             call == [NoCall EXCEPT !.pc = "requested"]
  <2>1. w \in Workflow
    BY DEF RuntimeInvariant, DeliveriesAreOfQueuedRuns, Queued
  <2>2. token \in Token /\ stage'[w].attempt = token /\ stage[w].attempt \in Nat
    <3>1. StoreInvariant /\ Claim(w)
      BY <1>4 DEF DeliverAndClaim, RuntimeInvariant
    <3>2. QED
      BY <2>1, <3>1, ClaimedTokenExists
  <2>3. call \in CallRow /\ call.pc = "requested"
    BY NoCallIsRow
  <2>4. Go(w, token, call)
    BY <1>4 DEF DeliverAndClaim, Go
  <2>5. token \in Issued(w)'
    BY <2>2 DEF Issued
  <2> HIDE DEF w, token, call
  <2>6. executor'[w][token] = call => CallMove(w, token)
    BY <2>3, <2>5 DEF CallMove
  <2>7. QED
    BY <1>0, <2>1, <2>2, <2>3, <2>4, <2>6, GoMoves
<1>5. ASSUME NEW i \in Worker, NEW m \in messages, DeliverAndMiss(i, m)
      PROVE  CallsMove
  BY <1>1, <1>5 DEF DeliverAndMiss
<1>6. ASSUME NEW i \in Worker, WorkerStep(i) \/ WorkerCrash(i)
      PROVE  CallsMove
  <2>1. CASE CheckPending(i) \/ ReportFailure(i) \/ KeepLease(i)
    BY <1>1, <2>1 DEF CheckPending, ReportFailure, KeepLease, workerVars
  <2>2. CASE LoseLease(i) \/ GiveUp(i) \/ WorkerCrash(i)
    BY <1>0, <1>1, <2>2, HangUpMoves DEF LoseLease, GiveUp, WorkerCrash
  <2>3. CASE ReceiveAnswer(i)
    <3>1. worker[i].delivery[1] \in Workflow /\ worker[i].token \in Issued(worker[i].delivery[1])
      BY <2>3 DEF ReceiveAnswer, RuntimeInvariant, WorkersHoldIssuedTokens
    <3>2. worker[i].token \in Token
      BY <3>1 DEF RuntimeInvariant, RuntimeTypeOK, WorkerRow, Issued
    <3>3. Go(worker[i].delivery[1], worker[i].token, NoCall)
      BY <2>3 DEF ReceiveAnswer, Go
    <3>4. executor'[worker[i].delivery[1]][worker[i].token] = NoCall =>
            CallMove(worker[i].delivery[1], worker[i].token)
      BY NoCallIsRow DEF CallMove
    <3>5. QED
      BY <1>0, <3>1, <3>2, <3>3, <3>4, NoCallIsRow, GoMoves
  <2>4. QED
    BY <1>6, <2>1, <2>2, <2>3 DEF WorkerStep
<1>7. QED
  BY <1>2, <1>3, <1>4, <1>5, <1>6, ExecutorMoves DEF RuntimeNext

-----------------------------------------------------------------------------
(* The broker's side.                                                      *)

\* Only the dispatchers and a new run write outbox rows; a handler may take messages away.
BrokerQuiet ==
  /\ UNCHANGED <<outbox, dispatcher, dispatchFaults>>
  /\ messages' \subseteq messages

LEMMA BrokerQuietTypes ==
  ASSUME Dispatch!DispatchTypeOK, BrokerQuiet
  PROVE  Dispatch!DispatchTypeOK'
BY DEF BrokerQuiet, Dispatch!DispatchTypeOK

LEMMA InsertOutboxTypes ==
  ASSUME Dispatch!DispatchTypeOK, NEW w \in Workflow, Dispatch!InsertOutbox(w)
  PROVE  /\ Dispatch!DispatchTypeOK'
         /\ \A v \in Workflow \ {w} : outbox'[v] = outbox[v]
BY DEF Dispatch!InsertOutbox, Dispatch!DispatchTypeOK

\* A dispatcher works on a row that exists, and sends messages of the run it works on.
DispatchKeepsRuns ==
  /\ \A w \in Workflow : outbox'[w].status # "absent" => outbox[w].status # "absent"
  /\ \A d \in Dispatcher : dispatcher'[d].pc # "idle" =>
       \/ dispatcher[d].pc # "idle" /\ dispatcher'[d].run = dispatcher[d].run
       \/ /\ dispatcher'[d].run \in Workflow
          /\ outbox[dispatcher'[d].run].status # "absent"
  /\ \A m \in messages' \ messages : \E d \in Dispatcher :
       dispatcher[d].pc # "idle" /\ m[1] = dispatcher[d].run

LEMMA EndClaimKeepsRuns ==
  ASSUME Dispatch!DispatchTypeOK, NEW d \in Dispatcher, dispatcher[d].run \in Workflow,
         NEW status \in {"PENDING", "PUBLISHED"}, Dispatch!EndClaim(d, status)
  PROVE  Dispatch!DispatchTypeOK' /\ DispatchKeepsRuns
<1> DEFINE r == dispatcher[d].run
           row == [status |-> status, attempts |-> outbox[r].attempts, expired |-> FALSE]
<1> USE DEF Dispatch!DispatchTypeOK
<1>1. /\ dispatcher' = [dispatcher EXCEPT ![d] =
             [pc |-> "idle", run |-> NoWorkflow, claim |-> 0]]
      /\ UNCHANGED <<messages, dispatchFaults>>
      /\ \/ outbox' = outbox
         \/ Dispatch!OwnsClaim(d) /\ outbox' = [outbox EXCEPT ![r] = row]
  BY DEF Dispatch!EndClaim, Dispatch!Resting
<1>2. CASE outbox' = outbox
  BY <1>1, <1>2 DEF DispatchKeepsRuns
<1>3. CASE Dispatch!OwnsClaim(d) /\ outbox' = [outbox EXCEPT ![r] = row]
  <2>1. outbox[r].status = "PUBLISHING"
    BY <1>3 DEF Dispatch!OwnsClaim
  <2>2. row \in [status : {"absent", "PENDING", "PUBLISHING", "PUBLISHED"},
                 attempts : Nat, expired : BOOLEAN]
    OBVIOUS
  <2> HIDE DEF row
  <2>3. Dispatch!DispatchTypeOK'
    BY <1>1, <1>3, <2>2
  <2>4. \A w \in Workflow : outbox'[w].status # "absent" => outbox[w].status # "absent"
    BY <1>3, <2>1
  <2>5. QED
    BY <1>1, <2>3, <2>4 DEF DispatchKeepsRuns
<1>4. QED
  BY <1>1, <1>2, <1>3

LEMMA DispatchMoveKeepsRuns ==
  ASSUME Dispatch!DispatchTypeOK, Dispatch!DispatchStep,
         \A d \in Dispatcher : dispatcher[d].pc # "idle" => dispatcher[d].run \in Workflow
  PROVE  Dispatch!DispatchTypeOK' /\ DispatchKeepsRuns
<1>1. ASSUME NEW d \in Dispatcher, NEW r \in Workflow, Dispatch!ClaimOutbox(d, r)
      PROVE  Dispatch!DispatchTypeOK' /\ DispatchKeepsRuns
  <2>1. Dispatch!DispatchTypeOK'
    BY <1>1 DEF Dispatch!ClaimOutbox, Dispatch!DispatchTypeOK
  <2>2. outbox[r].status # "absent"
    BY <1>1 DEF Dispatch!ClaimOutbox, Dispatch!Claimable
  <2>3. QED
    BY <1>1, <2>1, <2>2
       DEF Dispatch!ClaimOutbox, Dispatch!DispatchTypeOK, DispatchKeepsRuns
<1>2. ASSUME NEW d \in Dispatcher, Dispatch!Publish(d) \/ Dispatch!PublishFails(d)
      PROVE  Dispatch!DispatchTypeOK' /\ DispatchKeepsRuns
  <2>1. dispatcher[d].pc = "claimed" /\ dispatcher[d].run \in Workflow
    BY <1>2 DEF Dispatch!Publish, Dispatch!PublishFails
  <2>2. outbox' = outbox
    BY <1>2 DEF Dispatch!Publish, Dispatch!PublishFails
  <2>3. /\ dispatcher' \in [Dispatcher -> [pc : {"idle", "claimed", "failed", "sent"},
                              run : Workflow \cup {NoWorkflow}, claim : Nat]]
        /\ \A e \in Dispatcher : dispatcher'[e].run = dispatcher[e].run
        /\ \A e \in Dispatcher : e # d => dispatcher'[e].pc = dispatcher[e].pc
    BY <1>2 DEF Dispatch!Publish, Dispatch!PublishFails, Dispatch!DispatchTypeOK
  <2>4. messages' \subseteq messages \cup {<<dispatcher[d].run, dispatcher[d].claim>>}
    BY <1>2 DEF Dispatch!Publish, Dispatch!PublishFails
  <2>5. messages' \subseteq Workflow \X Nat
    BY <2>1, <2>4 DEF Dispatch!DispatchTypeOK
  <2>6. dispatchFaults' \in 0..MaxDispatchFaults
    BY <1>2, RuntimeAssumption
       DEF Dispatch!Publish, Dispatch!PublishFails, Dispatch!DispatchFault,
           Dispatch!DispatchTypeOK
  <2>7. Dispatch!DispatchTypeOK'
    BY <2>2, <2>3, <2>5, <2>6 DEF Dispatch!DispatchTypeOK
  <2>8. \A m \in messages' \ messages : m[1] = dispatcher[d].run
    BY <2>4
  <2>9. QED
    BY <2>1, <2>2, <2>3, <2>7, <2>8 DEF DispatchKeepsRuns
<1>3. ASSUME NEW d \in Dispatcher, Dispatch!Release(d) \/ Dispatch!MarkPublished(d)
      PROVE  Dispatch!DispatchTypeOK' /\ DispatchKeepsRuns
  <2>1. dispatcher[d].run \in Workflow
    BY <1>3 DEF Dispatch!Release, Dispatch!MarkPublished
  <2>2. Dispatch!EndClaim(d, "PENDING") \/ Dispatch!EndClaim(d, "PUBLISHED")
    BY <1>3 DEF Dispatch!Release, Dispatch!MarkPublished
  <2>3. QED
    BY <2>1, <2>2, EndClaimKeepsRuns
<1>4. ASSUME NEW d \in Dispatcher, Dispatch!DispatcherCrash(d)
      PROVE  Dispatch!DispatchTypeOK' /\ DispatchKeepsRuns
  <2>1. dispatchFaults' \in 0..MaxDispatchFaults
    BY <1>4, RuntimeAssumption
       DEF Dispatch!DispatcherCrash, Dispatch!DispatchFault, Dispatch!DispatchTypeOK
  <2>2. Dispatch!DispatchTypeOK'
    BY <1>4, <2>1 DEF Dispatch!DispatcherCrash, Dispatch!DispatchTypeOK, Dispatch!Resting
  <2>3. QED
    BY <1>4, <2>2
       DEF Dispatch!DispatcherCrash, Dispatch!DispatchTypeOK, Dispatch!Resting,
           DispatchKeepsRuns
<1>5. ASSUME NEW r \in Workflow, Dispatch!ClaimExpires(r)
      PROVE  Dispatch!DispatchTypeOK' /\ DispatchKeepsRuns
  <2>1. dispatchFaults' \in 0..MaxDispatchFaults
    BY <1>5, RuntimeAssumption
       DEF Dispatch!ClaimExpires, Dispatch!DispatchFault, Dispatch!DispatchTypeOK
  <2>2. outbox' = [outbox EXCEPT ![r].expired = TRUE]
    BY <1>5 DEF Dispatch!ClaimExpires
  <2>3. Dispatch!DispatchTypeOK'
    BY <1>5, <2>1, <2>2 DEF Dispatch!ClaimExpires, Dispatch!DispatchTypeOK
  <2>4. QED
    BY <1>5, <2>2, <2>3
       DEF Dispatch!ClaimExpires, Dispatch!DispatchTypeOK, DispatchKeepsRuns
<1>6. QED
  BY <1>1, <1>2, <1>3, <1>4, <1>5 DEF Dispatch!DispatchStep, Dispatch!DispatcherStep

LEMMA HandlerIsQuietForBroker ==
  ASSUME NEW i \in Worker,
         \/ \E m \in messages : DeliverAndClaim(i, m) \/ DeliverAndMiss(i, m)
         \/ WorkerStep(i)
         \/ WorkerCrash(i)
  PROVE  BrokerQuiet
<1>1. CASE UNCHANGED brokerVars
  BY <1>1 DEF brokerVars, BrokerQuiet
<1>2. CASE Ack(i)
  BY <1>2 DEF Ack, BrokerQuiet
<1>3. QED
  BY <1>1, <1>2
     DEF DeliverAndClaim, DeliverAndMiss, WorkerStep, WorkerCrash, CheckPending, KeepLease,
         LoseLease, GiveUp, ReceiveAnswer, ReportFailure, Nack

LEMMA QueueRunQueues ==
  ASSUME StoreInvariant, NEW w \in Workflow, QueueRun(w)
  PROVE  run[w].status = "absent" /\ run'[w].status = "QUEUED"
<1>1. PICK source, state : EnqueueFirstProposal(w, source, state)
  BY DEF QueueRun, StartFirstProposal, StartSelectiveRefresh, StartSelectiveWithState
<1>2. QED
  BY <1>1 DEF EnqueueFirstProposal, StoreInvariant, TypeOK

LEMMA DeliveriesKept ==
  ASSUME RuntimeInvariant, [RuntimeNext]_runtimeVars
  PROVE  Dispatch!DispatchTypeOK' /\ DeliveriesAreOfQueuedRuns'
<1> DEFINE Exists(w) == w \in Workflow /\ run'[w].status # "absent"
<1>0. /\ Dispatch!DispatchTypeOK /\ DeliveriesAreOfQueuedRuns
      /\ StoreInvariant /\ UnclaimedBeforeQueued /\ HeadsGrow
  BY DEF RuntimeInvariant, RuntimeTypeOK
<1>1. \A w : Queued(w) => Exists(w)
  BY <1>0, RuntimeStepIsStoreStep, NextMoves DEF StoreMove, Queued
<1>2. ASSUME NEW i \in Worker, worker'[i].pc # "idle"
      PROVE  Exists(worker'[i].delivery[1])
  <2>1. HandlerMove(i)
    BY StepMovesHandlers DEF HandlersMove
  <2>2. worker'[i] # Waiting
    BY <1>2 DEF Waiting
  <2>3. \/ worker'[i] = worker[i]
        \/ \E m \in messages : worker'[i].delivery = m
        \/ worker[i].pc = "processing" /\ worker'[i].delivery = worker[i].delivery
    BY <2>1, <2>2 DEF HandlerMove
  <2>4. Queued(worker'[i].delivery[1])
    BY <1>0, <1>2, <2>3 DEF DeliveriesAreOfQueuedRuns
  <2>5. QED
    BY <1>1, <2>4
<1>3. CASE BrokerQuiet
  <2>1. /\ \A w \in Workflow : outbox'[w].status # "absent" => Exists(w)
        /\ \A d \in Dispatcher : dispatcher'[d].pc # "idle" => Exists(dispatcher'[d].run)
        /\ \A m \in messages' : Exists(m[1])
    BY <1>0, <1>1, <1>3 DEF BrokerQuiet, DeliveriesAreOfQueuedRuns
  <2>2. QED
    BY <1>0, <1>2, <1>3, <2>1, BrokerQuietTypes DEF DeliveriesAreOfQueuedRuns, Queued
<1>4. ASSUME NEW w \in Workflow, QueueRun(w)
      PROVE  Dispatch!DispatchTypeOK' /\ DeliveriesAreOfQueuedRuns'
  <2>1. Dispatch!InsertOutbox(w)
    BY <1>4 DEF QueueRun
  <2>2. Exists(w)
    BY <1>0, <1>4, QueueRunQueues
  <2>3. \A v \in Workflow \ {w} : outbox'[v] = outbox[v]
    BY <1>0, <2>1, InsertOutboxTypes
  <2>4. /\ \A v \in Workflow : outbox'[v].status # "absent" => Exists(v)
        /\ \A d \in Dispatcher : dispatcher'[d].pc # "idle" => Exists(dispatcher'[d].run)
        /\ \A m \in messages' : Exists(m[1])
    BY <1>0, <1>1, <2>1, <2>2, <2>3 DEF DeliveriesAreOfQueuedRuns, Dispatch!InsertOutbox
  <2>5. QED
    BY <1>0, <1>2, <2>1, <2>4, InsertOutboxTypes DEF DeliveriesAreOfQueuedRuns, Queued
<1>5. CASE DispatchMove
  <2>1. \A d \in Dispatcher : dispatcher[d].pc # "idle" => dispatcher[d].run \in Workflow
    BY <1>0 DEF DeliveriesAreOfQueuedRuns, Queued
  <2>2. Dispatch!DispatchTypeOK' /\ DispatchKeepsRuns
    BY <1>0, <1>5, <2>1, DispatchMoveKeepsRuns DEF DispatchMove
  <2>3. \A w \in Workflow : outbox'[w].status # "absent" => Exists(w)
    BY <1>0, <1>1, <2>2 DEF DeliveriesAreOfQueuedRuns, DispatchKeepsRuns
  <2>4. \A d \in Dispatcher : dispatcher'[d].pc # "idle" => Exists(dispatcher'[d].run)
    BY <1>0, <1>1, <2>2 DEF DeliveriesAreOfQueuedRuns, DispatchKeepsRuns
  <2>5. \A m \in messages' : Exists(m[1])
    BY <1>0, <1>1, <2>2 DEF DeliveriesAreOfQueuedRuns, DispatchKeepsRuns
  <2>6. QED
    BY <1>2, <2>2, <2>3, <2>4, <2>5 DEF DeliveriesAreOfQueuedRuns, Queued
<1>6. CASE MoveHead \/ UNCHANGED runtimeVars
  BY <1>3, <1>6 DEF MoveHead, runtimeVars, brokerVars, BrokerQuiet
<1>7. ASSUME NEW w \in Workflow, Tick(w)
      PROVE  BrokerQuiet
  BY <1>7 DEF Tick, brokerVars, BrokerQuiet
<1>8. ASSUME NEW w \in Workflow, NEW t \in Token, ExecutorStep(w, t) \/ ExecutorFails(w, t)
      PROVE  BrokerQuiet
  BY <1>8
     DEF ExecutorStep, ExecutorFails, Authorize, ReadInputs, Checkpoint, Commit,
         QuietExecutor, brokerVars, BrokerQuiet
<1>9. QED
  BY <1>3, <1>4, <1>5, <1>6, <1>7, <1>8, HandlerIsQuietForBroker DEF RuntimeNext

LEMMA FaultsCounted ==
  ASSUME RuntimeInvariant, [RuntimeNext]_runtimeVars
  PROVE  crashes' \in 0..MaxCrashes /\ stalls' \in 0..MaxStalls
<1>0. crashes \in 0..MaxCrashes /\ stalls \in 0..MaxStalls
  BY DEF RuntimeInvariant, RuntimeTypeOK
<1>1. CASE UNCHANGED <<crashes, stalls>>
  BY <1>0, <1>1
<1>2. ASSUME NEW i \in Worker, WorkerCrash(i)
      PROVE  crashes' \in 0..MaxCrashes /\ stalls' \in 0..MaxStalls
  BY <1>0, <1>2, RuntimeAssumption DEF WorkerCrash
<1>3. ASSUME NEW w \in Workflow, Tick(w)
      PROVE  crashes' \in 0..MaxCrashes /\ stalls' \in 0..MaxStalls
  BY <1>0, <1>3, RuntimeAssumption DEF Tick
<1>4. CASE MoveHead \/ DispatchMove \/ UNCHANGED runtimeVars
  BY <1>1, <1>4 DEF MoveHead, DispatchMove, runtimeVars, workerVars
<1>5. ASSUME NEW w \in Workflow, QueueRun(w)
      PROVE  UNCHANGED <<crashes, stalls>>
  BY <1>5 DEF QueueRun, workerVars
<1>6. ASSUME NEW w \in Workflow, NEW t \in Token, ExecutorStep(w, t) \/ ExecutorFails(w, t)
      PROVE  UNCHANGED <<crashes, stalls>>
  BY <1>6
     DEF ExecutorStep, ExecutorFails, Authorize, ReadInputs, Checkpoint, Commit,
         QuietExecutor
<1>7. ASSUME NEW i \in Worker,
             WorkerStep(i) \/ \E m \in messages : DeliverAndClaim(i, m) \/ DeliverAndMiss(i, m)
      PROVE  UNCHANGED <<crashes, stalls>>
  BY <1>7
     DEF DeliverAndClaim, DeliverAndMiss, WorkerStep, CheckPending, KeepLease, LoseLease,
         GiveUp, ReceiveAnswer, ReportFailure, workerVars
<1>8. QED
  BY <1>1, <1>2, <1>3, <1>4, <1>5, <1>6, <1>7 DEF RuntimeNext

-----------------------------------------------------------------------------
(* What the clients know.                                                  *)

LEMMA StepMovesStore ==
  ASSUME RuntimeInvariant, [RuntimeNext]_runtimeVars
  PROVE  StoreInvariant' /\ StoreMove /\ \A w \in Workflow : RunStep(w)
<1>1. StoreInvariant /\ UnclaimedBeforeQueued /\ HeadsGrow
  BY DEF RuntimeInvariant
<1>2. [Next]_vars
  BY RuntimeStepIsStoreStep
<1>3. QED
  BY <1>1, <1>2, NextStoreInvariant, NextMoves, NextRunStep

\* A token that was issued stays one, and is of a run that was queued.
LEMMA IssuedStays ==
  ASSUME RuntimeInvariant, StoreInvariant', StoreMove, NEW w \in Workflow,
         NEW token \in Issued(w)
  PROVE  /\ token \in Issued(w)'
         /\ run[w].status # "absent"
         /\ run'[w].source = run[w].source /\ run'[w].head = run[w].head
<1>1. stage[w].attempt \in Nat /\ stage'[w].attempt \in Nat
  BY DEF RuntimeInvariant, StoreInvariant, TypeOK, StageRow
<1>2. stage[w].attempt <= stage'[w].attempt /\ stage[w].attempt # 0
  BY <1>1 DEF StoreMove, Issued
<1>3. run[w].status # "absent"
  BY <1>2 DEF RuntimeInvariant, UnclaimedBeforeQueued
<1>4. QED
  BY <1>1, <1>2, <1>3 DEF StoreMove, Issued

LEMMA PlanStays ==
  ASSUME NEW w, run'[w].source = run[w].source
  PROVE  Plan(w)' = Plan(w) /\ Stops(w)' = Stops(w) /\ AfterLast(w)' = AfterLast(w)
BY DEF Plan, Stops, AfterLast

LEMMA TokensKept ==
  ASSUME RuntimeInvariant, [RuntimeNext]_runtimeVars
  PROVE  WorkersHoldIssuedTokens' /\ ExecutorsHoldIssuedTokens'
<1>1. StoreInvariant' /\ StoreMove
  BY StepMovesStore
<1>2. ASSUME NEW i \in Worker, worker'[i].pc \in {"processing", "failing"}
      PROVE  /\ worker'[i].delivery[1] \in Workflow
             /\ worker'[i].token \in 1..stage'[worker'[i].delivery[1]].attempt
  <2>1. HandlerMove(i)
    BY StepMovesHandlers DEF HandlersMove
  <2>2. worker'[i] # Waiting
    BY <1>2 DEF Waiting
  <2>3. CASE \E m \in messages : /\ worker'[i].delivery = m
                                 /\ worker'[i].pc = "processing"
                                 /\ worker'[i].token \in Issued(m[1])'
    <3>1. PICK m \in messages : worker'[i].delivery = m /\ worker'[i].token \in Issued(m[1])'
      BY <2>3
    <3>2. m[1] \in Workflow
      BY DEF RuntimeInvariant, DeliveriesAreOfQueuedRuns, Queued
    <3>3. QED
      BY <3>1, <3>2 DEF Issued
  <2>4. CASE /\ worker[i].pc \in {"processing", "failing"}
             /\ worker'[i].delivery = worker[i].delivery
             /\ worker'[i].token = worker[i].token
    <3>1. /\ worker[i].delivery[1] \in Workflow
          /\ worker[i].token \in Issued(worker[i].delivery[1])
      BY <2>4 DEF RuntimeInvariant, WorkersHoldIssuedTokens
    <3> DEFINE w == worker[i].delivery[1]
               token == worker[i].token
    <3>2. w \in Workflow /\ token \in Issued(w) /\ w = worker'[i].delivery[1]
          /\ token = worker'[i].token
      BY <2>4, <3>1
    <3>3. ASSUME NEW v \in Workflow, NEW u \in Issued(v)
          PROVE  u \in 1..stage'[v].attempt
      BY <1>1, <3>3, IssuedStays DEF Issued
    <3>4. token \in 1..stage'[w].attempt
      BY <3>2, <3>3
    <3>5. QED
      BY <3>2, <3>4
  <2>5. QED
    BY <1>2, <2>1, <2>2, <2>3, <2>4 DEF HandlerMove
<1>3. ASSUME NEW w \in Workflow, NEW t \in Token, executor'[w][t].pc # "none"
      PROVE  t \in Issued(w)'
  <2>1. CallMove(w, t)
    BY StepMovesCalls DEF CallsMove
  <2>2. executor[w][t].pc # "none" \/ t \in Issued(w)'
    BY <1>3, <2>1 DEF CallMove, Reads, Passes, Commits
  <2>3. executor[w][t].pc # "none" => t \in Issued(w)
    BY DEF RuntimeInvariant, ExecutorsHoldIssuedTokens
  <2>4. QED
    BY <1>1, <2>2, <2>3, IssuedStays
<1>4. QED
  BY <1>2, <1>3 DEF WorkersHoldIssuedTokens, ExecutorsHoldIssuedTokens, Issued

LEMMA DoneKept ==
  ASSUME RuntimeInvariant, [RuntimeNext]_runtimeVars
  PROVE  DoneMeansSucceeded'
<1> SUFFICES ASSUME NEW w \in Workflow, NEW t \in Token, executor'[w][t].pc = "done"
             PROVE  run'[w].status = "SUCCEEDED"
  BY DEF DoneMeansSucceeded
<1>1. CallMove(w, t) /\ RunStep(w)
  BY StepMovesCalls, StepMovesStore DEF CallsMove
<1>2. executor[w][t].pc = "done" \/ PersistFirstProposalResult(w, t)
  BY <1>1 DEF CallMove, Reads, Passes, Commits
<1>3. CASE executor[w][t].pc = "done"
  <2>1. run[w].status = "SUCCEEDED"
    BY <1>3 DEF RuntimeInvariant, DoneMeansSucceeded
  <2>2. QED
    BY <1>1, <2>1 DEF RunStep, ActiveStatus
<1>4. CASE PersistFirstProposalResult(w, t)
  BY <1>4 DEF PersistFirstProposalResult, RuntimeInvariant, StoreInvariant, TypeOK, RunRow
<1>5. QED
  BY <1>2, <1>3, <1>4

LEMMA HeadsKept ==
  ASSUME RuntimeInvariant, [RuntimeNext]_runtimeVars
  PROVE  UnclaimedBeforeQueued' /\ HeadsGrow'
<1>1. StoreMove
  BY StepMovesStore
<1>2. UnclaimedBeforeQueued'
  BY <1>1 DEF StoreMove, UnclaimedBeforeQueued
<1>3. ASSUME NEW w \in Workflow, run'[w].status # "absent"
      PROVE  run'[w].head.state <= head'.state
  <2>1. CASE run[w].status = "absent"
    BY <1>1, <1>3, <2>1 DEF StoreMove
  <2>2. CASE run[w].status # "absent"
    <3>1. run[w].head.state <= head.state
      BY <2>2 DEF RuntimeInvariant, HeadsGrow, Queued
    <3>2. run'[w].head = run[w].head /\ head.state <= head'.state
      BY <1>1, <2>2 DEF StoreMove
    <3>3. run[w].head.state \in Nat /\ head.state \in Nat /\ head'.state \in Nat
      BY StepMovesStore
         DEF RuntimeInvariant, StoreInvariant, TypeOK, RunRow, HeadFence
    <3>4. QED
      BY <3>1, <3>2, <3>3
  <2>3. QED
    BY <2>1, <2>2
<1>4. HeadsGrow'
  BY <1>1, <1>3 DEF HeadsGrow, Queued, StoreMove
<1>5. QED
  BY <1>2, <1>4

LEMMA ExecutorsKept ==
  ASSUME RuntimeInvariant, [RuntimeNext]_runtimeVars
  PROVE  ExecutorsStandAtStops' /\ InputsBetweenHeads'
<1> SUFFICES ASSUME NEW w \in Workflow, NEW t \in Token, executor'[w][t].pc = "running"
             PROVE  /\ executor'[w][t].step \in (Stops(w) \cup {AfterLast(w)})'
                    /\ run'[w].head.generation <= executor'[w][t].inputs.generation
                    /\ executor'[w][t].inputs.generation <= head'.generation
                    /\ run'[w].head.state <= executor'[w][t].inputs.state
                    /\ executor'[w][t].inputs.state <= head'.state
  BY DEF ExecutorsStandAtStops, InputsBetweenHeads
<1>0. /\ head \in HeadFence /\ head' \in HeadFence /\ run[w].head \in HeadFence
      /\ executor[w][t].inputs \in HeadFence
  BY StepMovesStore
     DEF RuntimeInvariant, RuntimeTypeOK, StoreInvariant, TypeOK, RunRow, CallRow
<1>1. CallMove(w, t) /\ StoreMove /\ StoreInvariant'
  BY StepMovesCalls, StepMovesStore DEF CallsMove
<1>2. executor[w][t].pc \in {"running", "reading"}
  BY <1>1 DEF CallMove, Reads, Passes, Commits
<1>3. t \in Issued(w)
  BY <1>2 DEF RuntimeInvariant, ExecutorsHoldIssuedTokens
<1>4. run[w].status # "absent" /\ run'[w].head = run[w].head /\ run'[w].source = run[w].source
  BY <1>1, <1>3, IssuedStays
<1>5. (Stops(w) \cup {AfterLast(w)})' = Stops(w) \cup {AfterLast(w)}
  BY <1>4, PlanStays
<1>6. /\ run[w].head.generation <= head.generation /\ run[w].head.state <= head.state
      /\ head.generation <= head'.generation /\ head.state <= head'.state
  BY <1>0, <1>1, <1>4
     DEF StoreMove, RuntimeInvariant, StoreInvariant, HeadsGrow, Queued, NoRunAheadOfHead,
         HeadFence
<1>7. CASE executor'[w][t] = executor[w][t] \/ Passes(w, t)
  <2>1. executor[w][t].pc = "running" /\ executor'[w][t].inputs = executor[w][t].inputs
    BY <1>7 DEF Passes
  <2>2. executor'[w][t].step \in Stops(w) \cup {AfterLast(w)}
    BY <1>7, <2>1 DEF Passes, IsNextStop, RuntimeInvariant, ExecutorsStandAtStops
  <2>3. LET inputs == executor[w][t].inputs IN
        /\ run[w].head.generation <= inputs.generation
        /\ inputs.generation <= head.generation
        /\ run[w].head.state <= inputs.state
        /\ inputs.state <= head.state
    BY <2>1 DEF RuntimeInvariant, InputsBetweenHeads
  <2>4. QED
    BY <1>0, <1>4, <1>5, <1>6, <2>1, <2>2, <2>3 DEF HeadFence
<1>8. CASE Reads(w, t)
  BY <1>0, <1>4, <1>5, <1>6, <1>8 DEF Reads, IsNextStop, HeadFence
<1>9. QED
  BY <1>1, <1>7, <1>8 DEF CallMove, Commits

-----------------------------------------------------------------------------
(* The checkpoints.  A step passes one, commits, or leaves the rows of every  *)
(* run in order: it keeps the checkpoints, or resets them, or closes them.   *)

RowsMove(v) ==
  /\ \/ /\ progress'[v] = progress[v]
        /\ run'[v].status \in ActiveStatus => run[v].status \in ActiveStatus
        /\ run'[v].status \notin ActiveStatus => run'[v].status = run[v].status
     \/ /\ run'[v].status = "QUEUED"
        /\ \A s \in ProgressStage : progress'[v][s].status = "PENDING"
     \/ /\ run'[v].status \in {"FAILED", "STALE"}
        /\ \A s \in ProgressStage : progress'[v][s].status # "RUNNING"
  /\ stage'[v].status = "RUNNING" =>
       \/ stage[v].status = "RUNNING" /\ stage'[v].token = stage[v].token
       \/ \E t \in Token : stage'[v].token = t /\ executor'[v][t].pc = "requested"

LEMMA QuietRows ==
  ASSUME UNCHANGED <<run, progress>>,
         \A v \in Workflow : /\ stage'[v].status = stage[v].status
                             /\ stage'[v].token = stage[v].token
  PROVE  \A v \in Workflow : RowsMove(v)
BY DEF RowsMove

LEMMA LeaseRows ==
  ASSUME TypeOK, NEW w \in Workflow, NEW token, LeaseTick(w) \/ Heartbeat(w, token)
  PROVE  \A v \in Workflow : RowsMove(v)
<1>1. UNCHANGED <<run, progress>>
  BY DEF LeaseTick, Heartbeat
<1>2. PICK lease : stage' = [stage EXCEPT ![w].lease = lease]
  BY DEF LeaseTick, Heartbeat
<1>3. \A v \in Workflow : /\ stage'[v].status = stage[v].status
                          /\ stage'[v].token = stage[v].token
  BY <1>2 DEF TypeOK, StageRow
<1>4. QED
  BY <1>1, <1>3, QuietRows

LEMMA EnqueueRows ==
  ASSUME TypeOK, NEW w \in Workflow, NEW source, NEW state,
         EnqueueFirstProposal(w, source, state)
  PROVE  \A v \in Workflow : RowsMove(v)
<1>1. /\ run'[w].status = "QUEUED" /\ stage'[w].status = "READY"
      /\ \A s \in ProgressStage : progress'[w][s].status = "PENDING"
  BY DEF EnqueueFirstProposal, TypeOK
<1>2. \A v \in Workflow \ {w} :
        run'[v] = run[v] /\ stage'[v] = stage[v] /\ progress'[v] = progress[v]
  BY DEF EnqueueFirstProposal, TypeOK
<1>3. QED
  BY <1>1, <1>2 DEF RowsMove

LEMMA MarkStaleRows ==
  ASSUME TypeOK, NEW w \in Workflow, MarkStale(w)
  PROVE  \A v \in Workflow : RowsMove(v)
<1>1. run'[w].status = "STALE"
  BY DEF MarkStale, TypeOK, RunRow
<1>2. stage'[w].status # "RUNNING"
  BY DEF MarkStale, CancelStatus, TypeOK, StageRow
<1>3. \A s \in ProgressStage : progress'[w][s].status # "RUNNING"
  BY DEF MarkStale, CancelStatus, TypeOK
<1>4. \A v \in Workflow \ {w} :
        run'[v] = run[v] /\ stage'[v] = stage[v] /\ progress'[v] = progress[v]
  BY DEF MarkStale, TypeOK
<1>5. QED
  BY <1>1, <1>2, <1>3, <1>4 DEF RowsMove

LEMMA FailureRows ==
  ASSUME TypeOK, NEW w \in Workflow, NEW token, NEW retryable,
         RecordRetry(w, token, retryable) \/ RecordFailed(w, token, retryable)
  PROVE  \A v \in Workflow : RowsMove(v)
<1>1. CASE RecordRetry(w, token, retryable)
  <2>1. /\ run'[w].status = "QUEUED" /\ stage'[w].status = "READY"
        /\ \A s \in ProgressStage : progress'[w][s].status = "PENDING"
    BY <1>1 DEF RecordRetry, TypeOK, RunRow
  <2>2. \A v \in Workflow \ {w} :
          run'[v] = run[v] /\ stage'[v] = stage[v] /\ progress'[v] = progress[v]
    BY <1>1 DEF RecordRetry, TypeOK
  <2>3. QED
    BY <2>1, <2>2 DEF RowsMove
<1>2. CASE RecordFailed(w, token, retryable)
  <2>1. /\ run'[w].status = "FAILED" /\ stage'[w].status = "FAILED"
        /\ \A s \in ProgressStage : progress'[w][s].status # "RUNNING"
    BY <1>2 DEF RecordFailed, FailStatus, TypeOK, RunRow
  <2>2. \A v \in Workflow \ {w} :
          run'[v] = run[v] /\ stage'[v] = stage[v] /\ progress'[v] = progress[v]
    BY <1>2 DEF RecordFailed, TypeOK
  <2>3. QED
    BY <2>1, <2>2 DEF RowsMove
<1>3. QED
  BY <1>1, <1>2

\* The claim opens the lease for a token whose executor has only been asked for.
LEMMA ClaimRows ==
  ASSUME RuntimeInvariant, NEW i \in Worker, NEW m \in messages, DeliverAndClaim(i, m)
  PROVE  \A v \in Workflow : RowsMove(v)
<1> DEFINE w == m[1]
           token == stage[w].attempt + 1
           call == [NoCall EXCEPT !.pc = "requested"]
<1>0. w \in Workflow /\ StoreInvariant /\ Claim(w) /\ TypeOK
      /\ executor \in [Workflow -> [Token -> CallRow]]
  BY DEF RuntimeInvariant, RuntimeTypeOK, StoreInvariant, DeliveriesAreOfQueuedRuns, Queued,
         DeliverAndClaim
<1>1. token \in Token /\ stage'[w].token = token
  BY <1>0, ClaimedTokenExists
<1>2. executor' = [executor EXCEPT ![w][token] = call]
  BY DEF DeliverAndClaim
<1>3. call.pc = "requested"
  BY NoCallIsRow
<1>4. /\ progress' = progress
      /\ run'[w].status \in ActiveStatus => run[w].status \in ActiveStatus
      /\ run'[w].status \notin ActiveStatus => run'[w].status = run[w].status
  BY <1>0 DEF Claim, ClaimRefused, ActiveStatus, TypeOK, RunRow
<1>5. \A v \in Workflow \ {w} : run'[v] = run[v] /\ stage'[v] = stage[v]
  BY <1>0 DEF Claim, TypeOK
<1> HIDE DEF w, token, call
<1>6. executor'[w][token].pc = "requested"
  BY <1>0, <1>1, <1>2, <1>3
<1>7. QED
  BY <1>1, <1>4, <1>5, <1>6 DEF RowsMove

LEMMA HandlerRows ==
  ASSUME RuntimeInvariant, NEW i \in Worker,
         \/ \E m \in messages : DeliverAndClaim(i, m) \/ DeliverAndMiss(i, m)
         \/ WorkerStep(i)
         \/ WorkerCrash(i)
  PROVE  \A v \in Workflow : RowsMove(v)
<1>0. TypeOK
  BY DEF RuntimeInvariant, RuntimeTypeOK
<1>1. CASE UNCHANGED vars
  BY <1>1, QuietRows DEF vars
<1>2. ASSUME NEW m \in messages, DeliverAndMiss(i, m)
      PROVE  \A v \in Workflow : RowsMove(v)
  <2>1. m[1] \in Workflow
    BY DEF RuntimeInvariant, DeliveriesAreOfQueuedRuns, Queued
  <2>2. MarkStale(m[1]) \/ UNCHANGED vars
    BY <1>2 DEF DeliverAndMiss, ClaimStale
  <2>3. QED
    BY <1>0, <1>1, <2>1, <2>2, MarkStaleRows
<1>3. worker[i].pc \in {"processing", "failing"} => worker[i].delivery[1] \in Workflow
  BY DEF RuntimeInvariant, WorkersHoldIssuedTokens
<1>4. CASE KeepLease(i)
  BY <1>0, <1>3, <1>4, LeaseRows DEF KeepLease
<1>5. CASE LoseLease(i)
  BY <1>0, <1>1, <1>3, <1>5, MarkStaleRows DEF LoseLease, HeartbeatStale
<1>6. CASE ReportFailure(i)
  BY <1>0, <1>1, <1>3, <1>6, FailureRows, MarkStaleRows DEF ReportFailure, RecordStale
<1>7. CASE CheckPending(i) \/ GiveUp(i) \/ ReceiveAnswer(i) \/ WorkerCrash(i)
  BY <1>1, <1>7 DEF CheckPending, GiveUp, ReceiveAnswer, WorkerCrash
<1>8. QED
  BY <1>2, <1>4, <1>5, <1>6, <1>7, ClaimRows DEF WorkerStep

LEMMA ExecutorRows ==
  ASSUME RuntimeInvariant, NEW w \in Workflow, NEW t \in Token,
         ExecutorStep(w, t) \/ ExecutorFails(w, t)
  PROVE  Passes(w, t) \/ Commits(w, t) \/ \A v \in Workflow : RowsMove(v)
<1>0. executor \in [Workflow -> [Token -> CallRow]]
  BY DEF RuntimeInvariant, RuntimeTypeOK
<1>1. CASE UNCHANGED vars
  BY <1>1, QuietRows DEF vars
<1>2. CASE Authorize(w, t) \/ ReadInputs(w, t) \/ ExecutorFails(w, t)
  BY <1>1, <1>2 DEF Authorize, ReadInputs, ExecutorFails
<1>3. CASE Checkpoint(w, t) /\ ~ UNCHANGED vars
  <2> DEFINE step == executor[w][t].step
  <2>1. /\ executor[w][t].pc = "running" /\ step # AfterLast(w)
        /\ Transition(w, t, Plan(w)[step].stage, Plan(w)[step].op)
        /\ GoOn(w, t, step, executor[w][t].inputs)
    BY <1>3 DEF Checkpoint
  <2>2. step \in Stops(w)
    BY <2>1 DEF RuntimeInvariant, ExecutorsStandAtStops
  <2>3. PICK next \in Stops(w) \cup {AfterLast(w)} :
          /\ IsNextStop(w, step, next)
          /\ Go(w, t, [pc |-> "running", step |-> next, inputs |-> executor[w][t].inputs])
    BY <2>1 DEF GoOn
  <2>4. executor'[w][t] =
          [pc |-> "running", step |-> next, inputs |-> executor[w][t].inputs]
    BY <1>0, <2>3 DEF Go
  <2>5. QED
    BY <2>1, <2>2, <2>3, <2>4 DEF Passes
<1>4. CASE Commit(w, t) /\ ~ UNCHANGED vars
  <2>1. /\ executor[w][t].pc = "running" /\ executor[w][t].step = AfterLast(w)
        /\ PersistFirstProposalResult(w, t) /\ Finish(w, t, "done")
    BY <1>4 DEF Commit
  <2>2. PICK call \in {NoCall, [NoCall EXCEPT !.pc = "done"]} : Go(w, t, call)
    BY <2>1 DEF Finish
  <2>3. executor'[w][t].pc \in {"none", "done"}
    BY <1>0, <2>2, NoCallIsRow DEF Go, Answer
  <2>4. QED
    BY <2>1, <2>3 DEF Commits
<1>5. QED
  BY <1>1, <1>2, <1>3, <1>4 DEF ExecutorStep

LEMMA StepMovesRows ==
  ASSUME RuntimeInvariant, [RuntimeNext]_runtimeVars
  PROVE  \/ \A v \in Workflow : RowsMove(v)
         \/ \E w \in Workflow, t \in Token : Passes(w, t) \/ Commits(w, t)
<1>0. TypeOK
  BY DEF RuntimeInvariant, RuntimeTypeOK
<1>1. CASE UNCHANGED <<run, stage, progress>>
  BY <1>1, QuietRows
<1>2. CASE MoveHead
  BY <1>1, <1>2 DEF MoveHead, ConfirmOnboarding, SelectCandidate
<1>3. CASE DispatchMove \/ UNCHANGED runtimeVars
  BY <1>1, <1>3 DEF DispatchMove, runtimeVars, vars
<1>4. ASSUME NEW w \in Workflow, QueueRun(w)
      PROVE  \A v \in Workflow : RowsMove(v)
  <2>1. PICK source, state : EnqueueFirstProposal(w, source, state)
    BY <1>4
       DEF QueueRun, StartFirstProposal, StartSelectiveRefresh, StartSelectiveWithState
  <2>2. QED
    BY <1>0, <2>1, EnqueueRows
<1>5. ASSUME NEW w \in Workflow, Tick(w)
      PROVE  \A v \in Workflow : RowsMove(v)
  BY <1>0, <1>5, LeaseRows DEF Tick
<1>6. QED
  BY <1>2, <1>3, <1>4, <1>5, HandlerRows, ExecutorRows DEF RuntimeNext

-----------------------------------------------------------------------------
(* Passing a checkpoint.                                                   *)

LEMMA ReachedValues ==
  /\ Reached("start") = {"RUNNING", "SUCCEEDED"}
  /\ Reached("complete") = {"SUCCEEDED"}
  /\ Reached("skip") = {"SKIPPED"}
  /\ Target("start") = "RUNNING"
  /\ Target("complete") = "SUCCEEDED"
  /\ Target("skip") = "SKIPPED"
  /\ Expected("start") = {"PENDING", "RUNNING"}
BY DEF Reached, Target, Expected

LEMMA PassesEffect ==
  ASSUME RuntimeInvariant, NEW w \in Workflow, NEW t \in Token, Passes(w, t)
  PROVE  LET pass == Plan(w)[executor[w][t].step] IN
         /\ UNCHANGED <<run, stage>>
         /\ stage[w].status = "RUNNING" /\ stage[w].token = t
         /\ run[w].status = "RUNNING"
         /\ pass.stage \in ProgressStage /\ pass.op \in Operation
         /\ progress[w][pass.stage].status \in Expected(pass.op)
         /\ progress'[w][pass.stage].status = Target(pass.op)
         /\ \A s \in ProgressStage \ {pass.stage} : progress'[w][s] = progress[w][s]
         /\ \A v \in Workflow \ {w} : progress'[v] = progress[v]
<1> DEFINE pass == Plan(w)[executor[w][t].step]
<1>0. /\ progress \in [Workflow -> [ProgressStage -> CheckpointRow]]
      /\ TypeOK /\ StageAgreesWithRun
  BY DEF RuntimeInvariant, StoreInvariant, TypeOK
<1>1. pass.stage \in ProgressStage /\ pass.op \in Operation
  BY StopsAreCheckpoints DEF Passes
<1>2. Transition(w, t, pass.stage, pass.op)
  BY DEF Passes
<1> HIDE DEF pass
<1>3. /\ UNCHANGED <<run, stage>>
      /\ stage[w].status = "RUNNING" /\ stage[w].token = t
      /\ progress[w][pass.stage].status \in Expected(pass.op)
  BY <1>2 DEF Transition, TransitionAccepted, AuthorizeMutation, LeaseIsCurrent
<1>4. run[w].status = "RUNNING"
  BY <1>0, <1>3, LeasedRunIsRunning
<1>5. \/ /\ progress[w][pass.stage].status = Target(pass.op)
         /\ progress' = progress
      \/ progress' = [progress EXCEPT ![w][pass.stage] =
           [status  |-> Target(pass.op),
            attempt |-> IF pass.op = "start" THEN t ELSE progress[w][pass.stage].attempt]]
  BY <1>2 DEF Transition
<1>6. /\ progress'[w][pass.stage].status = Target(pass.op)
      /\ \A s \in ProgressStage \ {pass.stage} : progress'[w][s] = progress[w][s]
      /\ \A v \in Workflow \ {w} : progress'[v] = progress[v]
  BY <1>0, <1>1, <1>5
<1>7. QED
  BY <1>1, <1>3, <1>4, <1>6 DEF pass

\* What was passed stays passed, the checkpoint is passed, and nothing behind it is new.
LEMMA PassesKeepsPassed ==
  ASSUME RuntimeInvariant, NEW w \in Workflow, NEW t \in Token, Passes(w, t),
         NEW k \in Stops(w)
  PROVE  LET step == executor[w][t].step IN
         /\ Passed(w, k) => Passed(w, k)'
         /\ k = step => Passed(w, k)'
         /\ Passed(w, k)' => Passed(w, k) \/ k <= step
<1> DEFINE step == executor[w][t].step
           pass == Plan(w)[step]
           other == Plan(w)[k]
<1>0. Plan(w)' = Plan(w)
  BY PassesEffect, PlanStays
<1>1. /\ pass.stage \in ProgressStage /\ pass.op \in Operation
      /\ progress[w][pass.stage].status \in Expected(pass.op)
      /\ progress'[w][pass.stage].status = Target(pass.op)
      /\ \A s \in ProgressStage \ {pass.stage} : progress'[w][s] = progress[w][s]
  BY PassesEffect
<1>2. /\ step \in 1..Len(Plan(w)) /\ k \in 1..Len(Plan(w)) /\ step \in Nat /\ k \in Nat
      /\ other.stage \in ProgressStage /\ other.op \in Operation
  BY StopsAreCheckpoints DEF Passes
<1>3. /\ step < k /\ pass.stage = other.stage => pass.op = "start" /\ other.op = "complete"
      /\ k < step /\ pass.stage = other.stage => other.op = "start" /\ pass.op = "complete"
  BY <1>2, PlanWellFormed DEF WellFormed
<1>4. /\ Passed(w, k) <=> progress[w][other.stage].status \in Reached(other.op)
      /\ Passed(w, k)' <=> progress'[w][other.stage].status \in Reached(other.op)
  BY <1>0 DEF Passed
<1> HIDE DEF step, pass, other
<1>5. CASE other.stage # pass.stage
  <2>1. k # step
    BY <1>5 DEF pass, other
  <2>2. QED
    BY <1>1, <1>2, <1>4, <1>5, <2>1 DEF step
<1>6. CASE other.stage = pass.stage /\ k = step
  <2>1. pass = other
    BY <1>6 DEF pass, other
  <2>2. Target(pass.op) \in Reached(pass.op)
    BY <1>1, ReachedValues DEF Operation
  <2>3. QED
    BY <1>1, <1>2, <1>4, <1>6, <2>1, <2>2 DEF step
<1>7. CASE other.stage = pass.stage /\ k < step
  BY <1>1, <1>2, <1>3, <1>4, <1>7, ReachedValues DEF step
<1>8. CASE other.stage = pass.stage /\ step < k
  BY <1>1, <1>2, <1>3, <1>4, <1>8, ReachedValues DEF step
<1>9. QED
  BY <1>2, <1>5, <1>6, <1>7, <1>8

LEMMA PassesKeepsOrder ==
  ASSUME RuntimeInvariant, NEW w \in Workflow, NEW t \in Token, Passes(w, t)
  PROVE  PassedInOrder'
<1> DEFINE step == executor[w][t].step
           pass == Plan(w)[step]
<1>0. /\ UNCHANGED <<run, stage>> /\ run[w].status \in ActiveStatus
      /\ stage[w].status = "RUNNING" /\ stage[w].token = t
      /\ \A v \in Workflow \ {w} : progress'[v] = progress[v]
      /\ progress'[w][pass.stage].status = Target(pass.op)
      /\ \A s \in ProgressStage \ {pass.stage} : progress'[w][s] = progress[w][s]
  BY PassesEffect DEF ActiveStatus
<1>1. step \in Stops(w) /\ executor[w][t].pc = "running"
  BY DEF Passes
<1> HIDE DEF step, pass
<1>2. \A v \in Workflow : Plan(v)' = Plan(v) /\ Stops(v)' = Stops(v)
  BY <1>0, PlanStays
<1>3. \A k \in Stops(w) : k < step => Passed(w, k)
  BY <1>0, <1>1 DEF RuntimeInvariant, HolderHasPassed, step
<1>4. /\ \A s \in ProgressStage :
           \/ progress[w][s].status = "PENDING"
           \/ \E k \in Stops(w) : /\ Plan(w)[k].stage = s
                                  /\ progress[w][s].status = Target(Plan(w)[k].op)
      /\ \A j, k \in Stops(w) : j < k /\ Passed(w, k) => Passed(w, j)
  BY <1>0 DEF RuntimeInvariant, PassedInOrder
<1>5. \A s \in ProgressStage :
        \/ progress'[w][s].status = "PENDING"
        \/ \E k \in Stops(w) : /\ Plan(w)[k].stage = s
                               /\ progress'[w][s].status = Target(Plan(w)[k].op)
  BY <1>0, <1>1, <1>4 DEF pass
<1>6. ASSUME NEW j \in Stops(w), NEW k \in Stops(w), j < k, Passed(w, k)'
      PROVE  Passed(w, j)'
  <2>1. Passed(w, k) \/ k <= step
    BY <1>6, PassesKeepsPassed DEF step
  <2>2. j \in Nat /\ k \in Nat /\ step \in Nat
    BY <1>1, StopsAreCheckpoints
  <2>3. Passed(w, j)
    BY <1>3, <1>4, <1>6, <2>1, <2>2
  <2>4. QED
    BY <2>3, PassesKeepsPassed
<1>7. ASSUME NEW v \in Workflow, v # w, run'[v].status \in ActiveStatus
      PROVE  /\ \A s \in ProgressStage :
                  \/ progress'[v][s].status = "PENDING"
                  \/ \E k \in Stops(v) : /\ Plan(v)[k].stage = s
                                         /\ progress'[v][s].status = Target(Plan(v)[k].op)
             /\ \A j, k \in Stops(v) : j < k /\ Passed(v, k)' => Passed(v, j)'
  <2>1. run[v].status \in ActiveStatus /\ progress'[v] = progress[v]
    BY <1>0, <1>7
  <2>2. \A k \in Stops(v) : Passed(v, k)' <=> Passed(v, k)
    BY <1>2, <2>1 DEF Passed
  <2>3. QED
    BY <2>1, <2>2 DEF RuntimeInvariant, PassedInOrder
<1>8. QED
  BY <1>2, <1>5, <1>6, <1>7 DEF PassedInOrder

\* A run whose rows stay in order.
LEMMA RowsKeepOrder ==
  ASSUME RuntimeInvariant, StoreMove, NEW v \in Workflow, RowsMove(v),
         run'[v].status \in ActiveStatus
  PROVE  /\ \A s \in ProgressStage :
              \/ progress'[v][s].status = "PENDING"
              \/ \E k \in Stops(v)' : /\ Plan(v)'[k].stage = s
                                      /\ progress'[v][s].status = Target(Plan(v)'[k].op)
         /\ \A j, k \in Stops(v)' : j < k /\ Passed(v, k)' => Passed(v, j)'
<1>1. CASE progress'[v] = progress[v] /\ run[v].status \in ActiveStatus
  <2>1. Plan(v)' = Plan(v) /\ Stops(v)' = Stops(v)
    BY <1>1, PlanStays DEF StoreMove, ActiveStatus
  <2>2. \A k \in Stops(v) : Passed(v, k)' <=> Passed(v, k)
    BY <1>1, <2>1 DEF Passed
  <2>3. QED
    BY <1>1, <2>1, <2>2 DEF RuntimeInvariant, PassedInOrder
<1>2. CASE \A s \in ProgressStage : progress'[v][s].status = "PENDING"
  <2>1. ASSUME NEW k \in Stops(v)'
        PROVE  ~ Passed(v, k)'
    <3>1. Plan(v)'[k].stage \in ProgressStage /\ Plan(v)'[k].op \in Operation
      BY <2>1, StopsAreCheckpoints, FirstProposalWellFormed, SelectiveWellFormed
         DEF Stops, Plan, WellFormed
    <3>2. "PENDING" \notin Reached(Plan(v)'[k].op)
      BY <3>1, ReachedValues DEF Operation
    <3>3. QED
      BY <1>2, <3>1, <3>2 DEF Passed
  <2>2. QED
    BY <1>2, <2>1
<1>3. QED
  BY <1>1, <1>2 DEF RowsMove, ActiveStatus

\* The checkpoints a run that succeeds has passed: all of them but the last.
LEMMA CommitsEffect ==
  ASSUME RuntimeInvariant, NEW w \in Workflow, NEW t \in Token, Commits(w, t)
  PROVE  /\ run'[w].status = "SUCCEEDED" /\ stage'[w].status = "SUCCEEDED"
         /\ \A s \in ProgressStage : progress'[w][s].status \in Finished
         /\ \A v \in Workflow \ {w} :
              run'[v] = run[v] /\ stage'[v] = stage[v] /\ progress'[v] = progress[v]
<1>0. /\ progress \in [Workflow -> [ProgressStage -> CheckpointRow]]
      /\ run \in [Workflow -> RunRow] /\ stage \in [Workflow -> StageRow]
  BY DEF RuntimeInvariant, StoreInvariant, TypeOK
<1>1. /\ executor[w][t].pc = "running" /\ executor[w][t].step = AfterLast(w)
      /\ PersistFirstProposalResult(w, t)
  BY DEF Commits
<1>2. stage[w].status = "RUNNING" /\ stage[w].token = t
  BY <1>1 DEF PersistFirstProposalResult, AuthorizeMutation, LeaseIsCurrent
<1>3. progress' = [progress EXCEPT ![w]["COMMIT_RESULT"] =
        [status |-> "SUCCEEDED", attempt |-> progress[w]["COMMIT_RESULT"].attempt]]
  BY <1>1 DEF PersistFirstProposalResult
<1>4. /\ progress'[w]["COMMIT_RESULT"].status = "SUCCEEDED"
      /\ \A s \in ProgressStage \ {"COMMIT_RESULT"} : progress'[w][s] = progress[w][s]
      /\ \A v \in Workflow \ {w} : progress'[v] = progress[v]
  BY <1>0, <1>3, StoreAssumption
<1>5. ASSUME NEW s \in ProgressStage \ {"COMMIT_RESULT"}
      PROVE  progress[w][s].status \in Finished
  <2>1. s \in CheckpointStage \ {"COMMIT_RESULT"}
    BY RuntimeAssumption
  <2>2. PICK k \in 1..Len(Plan(w)) :
          Plan(w)[k].stage = s /\ Plan(w)[k].op \in {"complete", "skip"}
    BY <2>1, PlanClosesEveryCheckpoint
  <2>3. k \in Stops(w) /\ k < AfterLast(w)
    BY <2>2, PlanWellFormed DEF Stops, AfterLast, WellFormed
  <2>4. Passed(w, k)
    BY <1>1, <1>2, <2>3 DEF RuntimeInvariant, HolderHasPassed
  <2>5. QED
    BY <2>2, <2>4, ReachedValues DEF Passed, Finished
<1>6. \A s \in ProgressStage : progress'[w][s].status \in Finished
  BY <1>4, <1>5 DEF Finished
<1>7. /\ run'[w].status = "SUCCEEDED" /\ stage'[w].status = "SUCCEEDED"
      /\ \A v \in Workflow \ {w} : run'[v] = run[v] /\ stage'[v] = stage[v]
  BY <1>0, <1>1 DEF PersistFirstProposalResult, RunRow
<1>8. QED
  BY <1>4, <1>6, <1>7

LEMMA OrderKept ==
  ASSUME RuntimeInvariant, [RuntimeNext]_runtimeVars
  PROVE  PassedInOrder'
<1>0. StoreMove
  BY StepMovesStore
<1>1. CASE \E w \in Workflow, t \in Token : Passes(w, t)
  BY <1>1, PassesKeepsOrder
<1>2. CASE \A v \in Workflow : RowsMove(v)
  BY <1>0, <1>2, RowsKeepOrder DEF PassedInOrder
<1>3. ASSUME NEW w \in Workflow, NEW t \in Token, Commits(w, t)
      PROVE  PassedInOrder'
  <2>1. run'[w].status = "SUCCEEDED"
    BY <1>3, CommitsEffect
  <2>2. ASSUME NEW v \in Workflow, run'[v].status \in ActiveStatus
        PROVE  RowsMove(v)
    <3>1. v # w
      BY <2>1, <2>2 DEF ActiveStatus
    <3>2. QED
      BY <1>3, <3>1, CommitsEffect DEF RowsMove
  <2>3. QED
    BY <1>0, <2>2, RowsKeepOrder DEF PassedInOrder
<1>4. QED
  BY <1>1, <1>2, <1>3, StepMovesRows

\* While a lease is kept, the checkpoints of its run only get further.
LEMMA PassedUnderLease ==
  ASSUME RuntimeInvariant, [RuntimeNext]_runtimeVars,
         NEW w \in Workflow, NEW t \in Token, executor'[w][t].pc = "running",
         stage'[w].status = "RUNNING", stage'[w].token = t
  PROVE  /\ stage[w].status = "RUNNING" /\ stage[w].token = t
         /\ Stops(w)' = Stops(w)
         /\ \A k \in Stops(w) : Passed(w, k) => Passed(w, k)'
<1>0. StoreInvariant' /\ StoreMove
  BY StepMovesStore
<1>1. run'[w].status = "RUNNING"
  <2>1. TypeOK' /\ StageAgreesWithRun'
    BY <1>0 DEF StoreInvariant
  <2>2. run'[w].status \in {"absent", "QUEUED", "RUNNING", "SUCCEEDED", "FAILED", "STALE"}
    BY <2>1 DEF TypeOK, RunRow, RunStatus, ActiveStatus, TerminalStatus
  <2>3. AgreeingStage(run'[w].status) = "RUNNING"
    BY <2>1 DEF StageAgreesWithRun
  <2>4. QED
    BY <2>2, <2>3, AgreeingStageValues
<1>2. CASE \E v \in Workflow, u \in Token : Passes(v, u)
  <2>1. PICK v \in Workflow, u \in Token : Passes(v, u)
    BY <1>2
  <2>2. UNCHANGED <<run, stage>> /\ \A x \in Workflow \ {v} : progress'[x] = progress[x]
    BY <2>1, PassesEffect
  <2>3. Plan(w)' = Plan(w) /\ Stops(w)' = Stops(w)
    BY <2>2, PlanStays
  <2>4. CASE v = w
    BY <2>1, <2>2, <2>3, <2>4, PassesKeepsPassed
  <2>5. CASE v # w
    <3>1. progress'[w] = progress[w]
      BY <2>2, <2>5
    <3>2. QED
      BY <2>2, <2>3, <3>1 DEF Passed
  <2>6. QED
    BY <2>4, <2>5
<1>3. CASE RowsMove(w)
  <2>1. progress'[w] = progress[w] /\ run[w].status \in ActiveStatus
    BY <1>1, <1>3 DEF RowsMove, ActiveStatus
  <2>2. Plan(w)' = Plan(w) /\ Stops(w)' = Stops(w)
    BY <1>0, <2>1, PlanStays DEF StoreMove, ActiveStatus
  <2>3. stage[w].status = "RUNNING" /\ stage[w].token = t
    BY <1>3 DEF RowsMove
  <2>4. QED
    BY <2>1, <2>2, <2>3 DEF Passed
<1>4. ASSUME NEW v \in Workflow, NEW u \in Token, Commits(v, u)
      PROVE  RowsMove(w)
  <2>1. v # w
    BY <1>1, <1>4, CommitsEffect
  <2>2. QED
    BY <1>4, <2>1, CommitsEffect DEF RowsMove
<1>5. QED
  BY <1>2, <1>3, <1>4, StepMovesRows

LEMMA HolderKept ==
  ASSUME RuntimeInvariant, [RuntimeNext]_runtimeVars
  PROVE  HolderHasPassed'
<1> SUFFICES ASSUME NEW w \in Workflow, NEW t \in Token, executor'[w][t].pc = "running",
                    stage'[w].status = "RUNNING", stage'[w].token = t,
                    NEW k \in Stops(w), k < executor'[w][t].step
             PROVE  Passed(w, k)'
  BY PassedUnderLease DEF HolderHasPassed
<1>1. /\ stage[w].status = "RUNNING" /\ stage[w].token = t
      /\ Passed(w, k) => Passed(w, k)'
  BY PassedUnderLease
<1>2. k \in 1..Len(Plan(w)) /\ k \in Nat /\ executor'[w][t].step \in Nat
  BY StopsAreCheckpoints, StepMovesCalls DEF CallsMove, CallRow
<1>3. CASE executor'[w][t] = executor[w][t]
  BY <1>1, <1>3 DEF RuntimeInvariant, HolderHasPassed
<1>4. CASE Reads(w, t)
  BY <1>2, <1>4 DEF Reads, IsNextStop
<1>5. CASE Passes(w, t)
  <2> DEFINE step == executor[w][t].step
  <2>1. /\ executor[w][t].pc = "running" /\ step \in Stops(w)
        /\ k <= step \/ executor'[w][t].step <= k
    BY <1>5 DEF Passes, IsNextStop
  <2>2. step \in Nat
    BY <2>1, StopsAreCheckpoints
  <2>4. k <= step
    BY <1>2, <2>1
  <2>5. CASE k = step
    BY <1>5, <2>5, PassesKeepsPassed
  <2>6. CASE k # step
    <3>1. Passed(w, k)
      BY <1>1, <1>2, <2>1, <2>2, <2>4, <2>6 DEF RuntimeInvariant, HolderHasPassed
    <3>2. QED
      BY <1>1, <3>1
  <2>7. QED
    BY <2>5, <2>6
<1>6. CallMove(w, t)
  BY StepMovesCalls DEF CallsMove
<1>7. QED
  BY <1>3, <1>4, <1>5, <1>6 DEF CallMove, Commits

\* A run that is not active shows no open checkpoint, and after a success only finished ones.
LEMMA EndsKept ==
  ASSUME RuntimeInvariant, [RuntimeNext]_runtimeVars
  PROVE  OnlyActiveRunsShowOpen' /\ SuccessShowsEveryCheckpoint'
<1>1. ASSUME NEW v \in Workflow, RowsMove(v), run'[v].status \notin ActiveStatus
      PROVE  \A s \in ProgressStage :
               /\ progress'[v][s].status # "RUNNING"
               /\ run'[v].status = "SUCCEEDED" => progress'[v][s].status \in Finished
  BY <1>1
     DEF RowsMove, ActiveStatus, RuntimeInvariant, OnlyActiveRunsShowOpen,
         SuccessShowsEveryCheckpoint
<1>2. ASSUME NEW w \in Workflow, NEW t \in Token, Passes(w, t),
             NEW v \in Workflow, run'[v].status \notin ActiveStatus
      PROVE  \A s \in ProgressStage :
               /\ progress'[v][s].status # "RUNNING"
               /\ run'[v].status = "SUCCEEDED" => progress'[v][s].status \in Finished
  <2>1. UNCHANGED run /\ run[w].status = "RUNNING"
        /\ \A x \in Workflow \ {w} : progress'[x] = progress[x]
    BY <1>2, PassesEffect
  <2>2. progress'[v] = progress[v]
    BY <1>2, <2>1 DEF ActiveStatus
  <2>3. QED
    BY <1>2, <2>1, <2>2
       DEF RuntimeInvariant, OnlyActiveRunsShowOpen, SuccessShowsEveryCheckpoint
<1>3. ASSUME NEW w \in Workflow, NEW t \in Token, Commits(w, t),
             NEW v \in Workflow, run'[v].status \notin ActiveStatus
      PROVE  \A s \in ProgressStage :
               /\ progress'[v][s].status # "RUNNING"
               /\ run'[v].status = "SUCCEEDED" => progress'[v][s].status \in Finished
  <2>1. CASE v = w
    BY <1>3, <2>1, CommitsEffect DEF Finished
  <2>2. CASE v # w
    <3>1. RowsMove(v)
      BY <1>3, <2>2, CommitsEffect DEF RowsMove
    <3>2. QED
      BY <1>1, <1>3, <3>1
  <2>3. QED
    BY <2>1, <2>2
<1>4. \A v \in Workflow : run'[v].status \notin ActiveStatus =>
        \A s \in ProgressStage :
          /\ progress'[v][s].status # "RUNNING"
          /\ run'[v].status = "SUCCEEDED" => progress'[v][s].status \in Finished
  BY <1>1, <1>2, <1>3, StepMovesRows
<1>5. "SUCCEEDED" \notin ActiveStatus
  BY DEF ActiveStatus
<1>6. QED
  BY <1>4, <1>5 DEF OnlyActiveRunsShowOpen, SuccessShowsEveryCheckpoint

-----------------------------------------------------------------------------
LEMMA InitRuntimeInvariant == RuntimeInit => RuntimeInvariant
<1> SUFFICES ASSUME RuntimeInit
             PROVE  RuntimeInvariant
  OBVIOUS
<1>1. StoreInvariant /\ TypeOK
  BY InitStoreInvariant DEF RuntimeInit, StoreInvariant
<1>2. /\ \A w \in Workflow : run[w].status = "absent" /\ stage[w].attempt = 0
      /\ head.state = 0 /\ stateVersion = 0
  BY DEF RuntimeInit, Init, NoRun, NoStage
<1>3. /\ \A i \in Worker : worker[i] = Waiting
      /\ \A w \in Workflow, t \in Token : executor[w][t] = NoCall
  BY DEF RuntimeInit
<1>4. Dispatch!DispatchTypeOK
  BY RuntimeAssumption
     DEF RuntimeInit, Dispatch!DispatchInit, Dispatch!DispatchTypeOK, Dispatch!NoRow,
         Dispatch!Resting
<1>5. RuntimeTypeOK
  BY <1>1, <1>4, WaitingIsRow, NoCallIsRow, RuntimeAssumption DEF RuntimeInit, RuntimeTypeOK
<1>6. UnclaimedBeforeQueued /\ HeadsGrow
  BY <1>2 DEF UnclaimedBeforeQueued, HeadsGrow, Queued
<1>7. WorkersHoldIssuedTokens /\ ExecutorsHoldIssuedTokens
  BY <1>3 DEF Waiting, NoCall, WorkersHoldIssuedTokens, ExecutorsHoldIssuedTokens
<1>8. DoneMeansSucceeded /\ InputsBetweenHeads /\ ExecutorsStandAtStops /\ HolderHasPassed
  BY <1>3
     DEF NoCall, DoneMeansSucceeded, InputsBetweenHeads, ExecutorsStandAtStops,
         HolderHasPassed
<1>9. DeliveriesAreOfQueuedRuns
  BY <1>3
     DEF RuntimeInit, Dispatch!DispatchInit, Dispatch!NoRow, Dispatch!Resting, Waiting,
         DeliveriesAreOfQueuedRuns
<1>10. PassedInOrder /\ OnlyActiveRunsShowOpen /\ SuccessShowsEveryCheckpoint
  BY <1>2
     DEF RuntimeInit, Init, PassedInOrder, OnlyActiveRunsShowOpen,
         SuccessShowsEveryCheckpoint, ActiveStatus
<1>11. QED
  BY <1>1, <1>5, <1>6, <1>7, <1>8, <1>9, <1>10 DEF RuntimeInvariant

LEMMA NextRuntimeInvariant == RuntimeInvariant /\ [RuntimeNext]_runtimeVars => RuntimeInvariant'
<1> SUFFICES ASSUME RuntimeInvariant, [RuntimeNext]_runtimeVars
             PROVE  RuntimeInvariant'
  OBVIOUS
<1>1. StoreInvariant' /\ TypeOK'
  BY StepMovesStore DEF StoreInvariant
<1>2. RuntimeTypeOK'
  BY <1>1, StepMovesHandlers, StepMovesCalls, DeliveriesKept, FaultsCounted
     DEF RuntimeTypeOK, HandlersMove, CallsMove
<1>3. QED
  BY <1>1, <1>2, TokensKept, DoneKept, HeadsKept, ExecutorsKept, DeliveriesKept, OrderKept,
     HolderKept, EndsKept
     DEF RuntimeInvariant

\* The inductive invariant holds in every state the store and its clients can reach.
THEOREM RuntimeIsConsistent == RuntimeSpec => []RuntimeInvariant
BY InitRuntimeInvariant, NextRuntimeInvariant, PTL DEF RuntimeSpec

\* Handlers, calls and broker rows keep the shapes the code gives them; in particular no
\* run is ever given more lease tokens than attempts and lapses allow.
THEOREM RuntimeTypeCorrect == RuntimeSpec => []RuntimeTypeOK
<1>1. RuntimeInvariant => RuntimeTypeOK
  BY DEF RuntimeInvariant
<1>2. QED
  BY <1>1, RuntimeIsConsistent, PTL

\* Handlers and executors use the lease tokens they were given and change the store only
\* through its operations: what is proved of the store holds of the running system.
THEOREM RuntimeImplementsStore == RuntimeSpec => StoreSpec
<1>1. RuntimeInit => Init
  BY DEF RuntimeInit
<1>2. RuntimeInvariant /\ [RuntimeNext]_runtimeVars => [Next]_vars
  BY RuntimeStepIsStoreStep
<1>3. QED
  BY <1>1, <1>2, RuntimeIsConsistent, PTL DEF RuntimeSpec, StoreSpec, Spec

\* So the running system publishes results as ResultPublication says: one result of a job
\* at most, and only while the version it was computed from is the project's.
THEOREM RuntimeImplementsPublication == RuntimeSpec => PublicationSpec
BY RuntimeImplementsStore, StoreImplementsPublication, PTL DEF StoreSpec

\* A run reported as SUCCEEDED shows every public checkpoint as finished, whichever
\* attempts passed them.
THEOREM SuccessIsComplete == RuntimeSpec => []SuccessShowsEveryCheckpoint
<1>1. RuntimeInvariant => SuccessShowsEveryCheckpoint
  BY DEF RuntimeInvariant
<1>2. QED
  BY <1>1, RuntimeIsConsistent, PTL

-----------------------------------------------------------------------------
(* The properties the runs check.                                          *)

\* Of two open checkpoints the earlier one would have to be completed already.
LEMMA OpenOnesAreOne ==
  ASSUME RuntimeInvariant, NEW w \in Workflow, run[w].status \in ActiveStatus,
         NEW j \in Stops(w), NEW k \in Stops(w), j < k,
         Plan(w)[j].op = "start", Plan(w)[k].op = "start",
         progress[w][Plan(w)[k].stage].status = "RUNNING"
  PROVE  progress[w][Plan(w)[j].stage].status # "RUNNING"
<1>0. /\ j \in 1..Len(Plan(w)) /\ k \in 1..Len(Plan(w)) /\ Len(Plan(w)) \in Nat
      /\ Plan(w)[j].stage \in ProgressStage
  BY StopsAreCheckpoints, PlanWellFormed DEF WellFormed
<1>1. Plan(w)[j].stage # "COMMIT_RESULT"
  BY <1>0, PlanWellFormed DEF WellFormed
<1>2. /\ j + 1 \in 1..Len(Plan(w))
      /\ Plan(w)[j + 1] = [stage |-> Plan(w)[j].stage, op |-> "complete"]
  BY <1>0, <1>1, PlanWellFormed DEF WellFormed
<1>3. j + 1 \in Stops(w) /\ j + 1 < k
  <2>1. j + 1 # k
    BY <1>2
  <2>2. QED
    BY <1>0, <1>2, <2>1 DEF Stops
<1>4. Passed(w, k)
  BY ReachedValues DEF Passed
<1>5. Passed(w, j + 1)
  BY <1>3, <1>4 DEF RuntimeInvariant, PassedInOrder
<1>6. QED
  BY <1>2, <1>5, ReachedValues DEF Passed

LEMMA OneIsOpen == RuntimeInvariant => OneCheckpointAtATime
<1> SUFFICES ASSUME RuntimeInvariant, NEW w \in Workflow
             PROVE  LET open == {s \in ProgressStage : progress[w][s].status = "RUNNING"} IN
                    /\ \A s, t \in open : s = t
                    /\ run[w].status \in TerminalStatus => open = {}
  BY DEF OneCheckpointAtATime
<1>1. ASSUME NEW s \in ProgressStage, progress[w][s].status = "RUNNING"
      PROVE  run[w].status \in ActiveStatus
  BY <1>1 DEF RuntimeInvariant, OnlyActiveRunsShowOpen
<1>2. ASSUME NEW s \in ProgressStage, progress[w][s].status = "RUNNING"
      PROVE  \E k \in Stops(w) : Plan(w)[k].stage = s /\ Plan(w)[k].op = "start"
  <2>1. PICK k \in Stops(w) : Plan(w)[k].stage = s /\ Target(Plan(w)[k].op) = "RUNNING"
    BY <1>1, <1>2 DEF RuntimeInvariant, PassedInOrder
  <2>2. Plan(w)[k].op = "start"
    BY <2>1, StopsAreCheckpoints, ReachedValues DEF Operation
  <2>3. QED
    BY <2>1, <2>2
<1>3. ASSUME NEW s \in ProgressStage, progress[w][s].status = "RUNNING",
             NEW t \in ProgressStage, progress[w][t].status = "RUNNING"
      PROVE  s = t
  <2>1. PICK j \in Stops(w) : Plan(w)[j].stage = s /\ Plan(w)[j].op = "start"
    BY <1>2, <1>3
  <2>2. PICK k \in Stops(w) : Plan(w)[k].stage = t /\ Plan(w)[k].op = "start"
    BY <1>2, <1>3
  <2>3. j \in Nat /\ k \in Nat /\ run[w].status \in ActiveStatus
    BY <1>1, <1>3, StopsAreCheckpoints
  <2>4. ~ (j < k) /\ ~ (k < j)
    BY <1>3, <2>1, <2>2, <2>3, OpenOnesAreOne
  <2>5. QED
    BY <2>1, <2>2, <2>3, <2>4
<1>4. run[w].status \in TerminalStatus => run[w].status \notin ActiveStatus
  BY DEF TerminalStatus, ActiveStatus
<1>5. QED
  BY <1>1, <1>3, <1>4

\* Two executors of one run never interleave at the checkpoints a client polls, and an
\* ended run shows none open.
THEOREM CheckpointsInTurn == RuntimeSpec => []OneCheckpointAtATime
BY OneIsOpen, RuntimeIsConsistent, PTL

\* An executor that commits read its inputs while the head was the one it publishes for.
LEMMA CommitsOwnHead ==
  ASSUME RuntimeInvariant, [RuntimeNext]_runtimeVars,
         NEW w \in Workflow, run'[w].status = "SUCCEEDED", run[w].status # "SUCCEEDED"
  PROVE  \E t \in Token :
           executor[w][t].pc = "running" /\ executor[w][t].inputs = run[w].head
<1>1. ~ RowsMove(w)
  BY DEF RowsMove, ActiveStatus
<1>2. ~ \E v \in Workflow, t \in Token : Passes(v, t)
  BY PassesEffect
<1>3. PICK v \in Workflow, t \in Token : Commits(v, t)
  BY <1>1, <1>2, StepMovesRows
<1>4. v = w
  BY <1>3, CommitsEffect
<1>5. executor[w][t].pc = "running" /\ run[w].head = head
  BY <1>3, <1>4 DEF Commits, PersistFirstProposalResult, AuthorizeMutation, HeadIsCurrent
<1>6. executor[w][t].inputs \in HeadFence /\ head \in HeadFence
  BY DEF RuntimeInvariant, RuntimeTypeOK, TypeOK, CallRow
<1>7. /\ executor[w][t].inputs.generation = head.generation
      /\ executor[w][t].inputs.state = head.state
  BY <1>5, <1>6 DEF RuntimeInvariant, InputsBetweenHeads, HeadFence
<1>8. executor[w][t].inputs = head
  BY <1>6, <1>7 DEF HeadFence
<1>9. QED
  BY <1>5, <1>8

\* No result mixes the evidence of one head with the publication for another, although
\* the inputs are read with no lock held.
THEOREM ResultsFromTheirHead == RuntimeSpec => ResultFromItsOwnHead
<1>1. RuntimeInvariant /\ [RuntimeNext]_runtimeVars =>
        [\A w \in Workflow :
           run'[w].status = "SUCCEEDED" /\ run[w].status # "SUCCEEDED" =>
             \E t \in Token :
               executor[w][t].pc = "running" /\ executor[w][t].inputs = run[w].head]_runtimeVars
  BY CommitsOwnHead
<1>2. QED
  BY <1>1, RuntimeIsConsistent, PTL DEF RuntimeSpec, ResultFromItsOwnHead

\* A message is given up for a run that has ended, or after the lease has run out.
MessageIsSpent(m) ==
  \/ run'[m[1]].status \in TerminalStatus
  \/ \E i \in Worker : /\ worker[i].delivery = m
                       /\ worker[i].pc = "failing"
                       /\ ~ LeaseIsCurrent(m[1], worker[i].token)

LEMMA HandlerSpends ==
  ASSUME RuntimeInvariant, NEW i \in Worker, WorkerStep(i), Ack(i),
         ~ UNCHANGED messages
  PROVE  MessageIsSpent(worker[i].delivery)
<1> DEFINE w == worker[i].delivery[1]
<1>0. TypeOK /\ StageAgreesWithRun
  BY DEF RuntimeInvariant, StoreInvariant
<1>1. worker[i].pc # "idle" => w \in Workflow /\ run[w].status # "absent"
  BY DEF RuntimeInvariant, DeliveriesAreOfQueuedRuns, Queued
<1>2. worker[i].delivery \in messages
  BY DEF Ack
<1> HIDE DEF w
<1>3. CASE CheckPending(i)
  <2>1. ~ IsPending(w) /\ UNCHANGED run /\ w \in Workflow /\ run[w].status # "absent"
    <3>1. worker[i].pc = "checking" /\ UNCHANGED run
      BY <1>3 DEF CheckPending, vars
    <3>2. ~ IsPending(w)
      BY <1>3 DEF CheckPending, Nack, brokerVars, w
    <3>3. QED
      BY <1>1, <3>1, <3>2
  <2>2. run[w].status \in {"QUEUED", "RUNNING", "SUCCEEDED", "FAILED", "STALE"}
    BY <1>0, <2>1 DEF TypeOK, RunRow, RunStatus, ActiveStatus, TerminalStatus
  <2>3. stage[w].status = AgreeingStage(run[w].status)
    BY <1>0, <2>1 DEF StageAgreesWithRun
  <2>4. run[w].status \in TerminalStatus
    BY <2>1, <2>2, <2>3, AgreeingStageValues DEF IsPending, TerminalStatus
  <2>5. QED
    BY <2>1, <2>4 DEF MessageIsSpent, w
<1>4. CASE KeepLease(i) \/ LoseLease(i) \/ GiveUp(i)
  BY <1>4 DEF KeepLease, LoseLease, GiveUp, brokerVars
<1>5. CASE ReceiveAnswer(i)
  <2> DEFINE t == worker[i].token
  <2>1. w \in Workflow /\ t \in Issued(w) /\ t \in Token
    BY <1>5
       DEF ReceiveAnswer, RuntimeInvariant, WorkersHoldIssuedTokens, RuntimeTypeOK, WorkerRow,
           Issued, w
  <2>2. executor[w][t].pc = "done" /\ UNCHANGED run
    BY <1>5 DEF ReceiveAnswer, brokerVars, vars, w
  <2>3. run[w].status = "SUCCEEDED"
    BY <2>1, <2>2 DEF RuntimeInvariant, DoneMeansSucceeded
  <2>4. QED
    BY <2>2, <2>3 DEF MessageIsSpent, TerminalStatus, w
<1>6. CASE ReportFailure(i)
  <2> DEFINE t == worker[i].token
             retryable == worker[i].retryable
  <2>1. worker[i].pc = "failing" /\ w \in Workflow
    BY <1>1, <1>6 DEF ReportFailure
  <2>2. \/ RecordFailed(w, t, retryable)
        \/ RecordStale(w, t)
        \/ ~ FailureAccepted(w, t) /\ UNCHANGED vars
    BY <1>6 DEF ReportFailure, Nack, brokerVars, w
  <2>3. CASE RecordFailed(w, t, retryable) \/ RecordStale(w, t)
    <3>1. run'[w].status \in {"FAILED", "STALE"}
      BY <1>0, <2>1, <2>3 DEF RecordFailed, RecordStale, MarkStale, TypeOK, RunRow
    <3>2. QED
      BY <3>1 DEF MessageIsSpent, TerminalStatus, w
  <2>4. CASE ~ FailureAccepted(w, t) /\ UNCHANGED vars
    BY <2>1, <2>4 DEF FailureAccepted, MessageIsSpent, vars, w
  <2>5. QED
    BY <2>2, <2>3, <2>4
<1>7. QED
  BY <1>3, <1>4, <1>5, <1>6 DEF WorkerStep

LEMMA StepSpends ==
  ASSUME RuntimeInvariant, [RuntimeNext]_runtimeVars, NEW m \in messages \ messages'
  PROVE  MessageIsSpent(m)
<1>1. ~ UNCHANGED brokerVars
  BY DEF brokerVars
<1>2. ~ MoveHead /\ ~ UNCHANGED runtimeVars
  BY <1>1 DEF MoveHead, runtimeVars
<1>3. ~ DispatchMove
  BY DEF DispatchMove, Dispatch!DispatchStep, Dispatch!DispatcherStep, Dispatch!ClaimOutbox,
         Dispatch!Publish, Dispatch!Release, Dispatch!MarkPublished, Dispatch!EndClaim,
         Dispatch!PublishFails, Dispatch!DispatcherCrash, Dispatch!ClaimExpires
<1>4. ASSUME NEW w \in Workflow
      PROVE  ~ QueueRun(w) /\ ~ Tick(w)
  BY <1>1 DEF QueueRun, Tick, Dispatch!InsertOutbox
<1>5. ASSUME NEW w \in Workflow, NEW t \in Token
      PROVE  ~ ExecutorStep(w, t) /\ ~ ExecutorFails(w, t)
  BY <1>1
     DEF ExecutorStep, ExecutorFails, Authorize, ReadInputs, Checkpoint, Commit,
         QuietExecutor
<1>6. ASSUME NEW i \in Worker
      PROVE  /\ ~ \E n \in messages : DeliverAndClaim(i, n) \/ DeliverAndMiss(i, n)
             /\ ~ WorkerCrash(i)
  BY <1>1 DEF DeliverAndClaim, DeliverAndMiss, WorkerCrash, Nack
<1>7. PICK i \in Worker : WorkerStep(i)
  BY <1>2, <1>3, <1>4, <1>5, <1>6 DEF RuntimeNext
<1>8. Ack(i)
  BY <1>1, <1>7
     DEF WorkerStep, CheckPending, KeepLease, LoseLease, GiveUp, ReceiveAnswer,
         ReportFailure, Nack
<1>9. m = worker[i].delivery
  BY <1>8 DEF Ack
<1>10. QED
  BY <1>7, <1>8, <1>9, HandlerSpends

\* No run loses its message but in the one case the code gives it up.
THEOREM MessagesKept == RuntimeSpec => UnfinishedRunKeepsItsMessage
<1>1. RuntimeInvariant /\ [RuntimeNext]_runtimeVars =>
        [\A m \in messages \ messages' :
           run'[m[1]].status \in TerminalStatus \/
             \E i \in Worker :
               /\ worker[i].delivery = m
               /\ worker[i].pc = "failing"
               /\ ~ LeaseIsCurrent(m[1], worker[i].token)]_runtimeVars
  BY StepSpends DEF MessageIsSpent
<1>2. QED
  BY <1>1, RuntimeIsConsistent, PTL DEF RuntimeSpec, UnfinishedRunKeepsItsMessage

=============================================================================
