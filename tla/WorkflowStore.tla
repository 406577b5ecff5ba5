---------------------------- MODULE WorkflowStore ----------------------------
(***************************************************************************)
(* The database side of a FIRST_PROPOSAL run: one project, the workflow    *)
(* runs it starts, the RUN_PROPOSAL stage each run is leased through and    *)
(* the six checkpoints users see.  One action is one transaction of         *)
(* api/app/workflows or of a command that moves the project's head.         *)
(*                                                                         *)
(* The clients are the most general ones: any operation may be called at    *)
(* any time with any lease token that was ever issued, so whatever is       *)
(* shown here holds whichever worker crashed, stalled, or came back late.   *)
(* WorkflowRuntime adds the real clients.                                   *)
(***************************************************************************)
EXTENDS Naturals

CONSTANTS
  Workflow,           \* workflow_run_ids that may be created
  NoWorkflow,         \* SQL NULL in a workflow or result column
  ProgressStage,      \* the checkpoints of a run (a subset, to check this module alone)
  MaxStageAttempts,   \* MAX_STAGE_ATTEMPTS of lease.py
  LeaseTicks,         \* LEASE_SECONDS, in steps of the clock
  MaxLapses,          \* bound: leases of one run that may run out
  MaxStateVersion     \* bound: versions of the Venture State

ASSUME StoreAssumption ==
  /\ NoWorkflow \notin Workflow
  /\ "COMMIT_RESULT" \in ProgressStage
  /\ MaxStageAttempts \in Nat \ {0}
  /\ LeaseTicks \in Nat \ {0}
  /\ MaxLapses \in Nat
  /\ MaxStateVersion \in Nat \ {0}

VARIABLES
  stateVersion,  \* venture_projects.current_state_version, 0 before onboarding
  head,          \* the project_heads row (generation 0: no row yet); the other
                 \* dimensions are functions of these two or never change
  result,        \* workflow whose bundle is venture_projects.current_result_bundle_id
  bundles,       \* workflows that have a result_bundles row
  run,           \* the workflow_runs rows
  stage,         \* the RUN_PROPOSAL stage_runs rows
  progress,      \* the stage_runs rows of the six checkpoints
  lapses         \* leases of each run that ran out so far

projectVars == <<stateVersion, head, result, bundles>>
vars == <<stateVersion, head, result, bundles, run, stage, progress, lapses>>

-----------------------------------------------------------------------------
HeadFence == [generation : Nat, state : Nat]

ActiveStatus == {"QUEUED", "RUNNING"}

\* The terminal workflow statuses some operation sets.
TerminalStatus == {"SUCCEEDED", "FAILED", "STALE"}

RunStatus == {"absent"} \cup ActiveStatus \cup TerminalStatus

StageStatus ==
  {"absent", "READY", "RUNNING", "SUCCEEDED", "FAILED", "CANCELLED"}

CheckpointStatus ==
  {"absent", "PENDING", "RUNNING", "SUCCEEDED", "SKIPPED", "FAILED", "CANCELLED"}

RunRow ==
  [status : RunStatus, head : HeadFence, source : Workflow \cup {NoWorkflow}]

\* token 0 and lease 0 are the NULL lease columns.
StageRow ==
  [status : StageStatus, attempt : Nat, token : Nat, lease : 0..LeaseTicks]

CheckpointRow == [status : CheckpointStatus, attempt : Nat]

TypeOK ==
  /\ stateVersion \in Nat
  /\ head \in HeadFence
  /\ result \in Workflow \cup {NoWorkflow}
  /\ bundles \subseteq Workflow
  /\ run \in [Workflow -> RunRow]
  /\ stage \in [Workflow -> StageRow]
  /\ progress \in [Workflow -> [ProgressStage -> CheckpointRow]]
  /\ lapses \in [Workflow -> 0..MaxLapses]

NoRun == [status |-> "absent", head |-> [generation |-> 0, state |-> 0],
          source |-> NoWorkflow]

NoStage == [status |-> "absent", attempt |-> 0, token |-> 0, lease |-> 0]

Init ==
  /\ stateVersion = 0
  /\ head = [generation |-> 0, state |-> 0]
  /\ result = NoWorkflow
  /\ bundles = {}
  /\ run = [w \in Workflow |-> NoRun]
  /\ stage = [w \in Workflow |-> NoStage]
  /\ progress = [w \in Workflow |->
                   [s \in ProgressStage |-> [status |-> "absent", attempt |-> 0]]]
  /\ lapses = [w \in Workflow |-> 0]

-----------------------------------------------------------------------------
(* Commands that move the head.  Every one of them locks the project row.  *)

ConfirmOnboarding ==
  /\ stateVersion = 0
  /\ stateVersion' = 1
  /\ UNCHANGED <<head, result, bundles, run, stage, progress, lapses>>

\* The rows a new run starts from: generation + 1, everything else from the state.
EnqueueFirstProposal(w, source, state) ==
  LET next == [generation |-> head.generation + 1, state |-> state] IN
  /\ run[w].status = "absent"
  /\ head' = next
  /\ run' = [run EXCEPT ![w] =
               [status |-> "QUEUED", head |-> next, source |-> source]]
  /\ stage' = [stage EXCEPT ![w] =
               [status |-> "READY", attempt |-> 0, token |-> 0, lease |-> 0]]
  /\ progress' = [progress EXCEPT ![w] =
               [s \in ProgressStage |-> [status |-> "PENDING", attempt |-> 0]]]
  /\ UNCHANGED <<result, bundles, lapses>>

\* A full run that is still going for the project's present head.
CurrentActive(w) ==
  /\ run[w].status \in ActiveStatus
  /\ run[w].source = NoWorkflow
  /\ run[w].head.generation = head.generation
  /\ run[w].head.state = stateVersion

\* Bug: a first proposal may be asked for before onboarding is confirmed.
StartBeforeOnboarding(w) ==
  /\ ~ \E v \in Workflow : CurrentActive(v)
  /\ EnqueueFirstProposal(w, NoWorkflow, stateVersion)
  /\ UNCHANGED stateVersion

\* A start while such a run exists returns that run and writes nothing here.
StartFirstProposal(w) ==
  /\ stateVersion > 0
  /\ ~ \E v \in Workflow : CurrentActive(v)
  /\ EnqueueFirstProposal(w, NoWorkflow, stateVersion)
  /\ UNCHANGED stateVersion

\* Feedback, property terms and documents: a new state and a recompute of it.
StartSelectiveWithState(w, source) ==
  /\ stateVersion < MaxStateVersion
  /\ result # NoWorkflow
  /\ source \in bundles
  /\ stateVersion' = stateVersion + 1
  /\ EnqueueFirstProposal(w, source, stateVersion + 1)

\* Evidence refresh: the state stays, the current result is recomputed.
StartSelectiveRefresh(w) ==
  /\ result # NoWorkflow
  /\ EnqueueFirstProposal(w, result, stateVersion)
  /\ UNCHANGED stateVersion

\* Selecting a candidate of a result that still has the head's state version:
\* state and head advance together, no run is started, the generation stays.
SelectCandidate ==
  /\ result # NoWorkflow
  /\ run[result].head.state = head.state
  /\ stateVersion = head.state
  /\ stateVersion < MaxStateVersion
  /\ stateVersion' = stateVersion + 1
  /\ head' = [head EXCEPT !.state = stateVersion + 1]
  /\ UNCHANGED <<result, bundles, run, stage, progress, lapses>>

-----------------------------------------------------------------------------
(* The lease repository.                                                   *)

\* Bug: the token is not compared, any attempt holds the lease.
LeaseIsLive(w, token) == stage[w].status = "RUNNING" /\ stage[w].lease > 0

LeaseIsCurrent(w, token) ==
  /\ stage[w].status = "RUNNING"
  /\ stage[w].token = token
  /\ stage[w].lease > 0

\* Bug: only the state dimension of the head is compared.
HeadStateIsCurrent(w) == run[w].head.state = head.state

HeadIsCurrent(w) == run[w].head = head

\* Bug: a status the column does not know.
CancelAsStale(status) ==
  IF status \in {"PENDING", "READY", "RUNNING"} THEN "STALE" ELSE status

\* The statuses _mark_stale cancels (CHECKPOINTED is never set).
CancelStatus(status) ==
  IF status \in {"PENDING", "READY", "RUNNING"} THEN "CANCELLED" ELSE status

MarkStale(w) ==
  /\ run' = [run EXCEPT ![w].status = "STALE"]
  /\ stage' = [stage EXCEPT ![w].status = CancelStatus(@)]
  /\ progress' = [progress EXCEPT ![w] =
       [s \in ProgressStage |-> [status  |-> CancelStatus(progress[w][s].status),
                                 attempt |-> progress[w][s].attempt]]]
  /\ UNCHANGED <<projectVars, lapses>>

\* Bug: only a lease in force protects a run from being claimed.
ClaimRefusedByLease(w) ==
  run[w].status = "absent" \/ (stage[w].status = "RUNNING" /\ stage[w].lease > 0)

\* Bug: a running stage is not claimed again, whether or not its lease ran out.
ClaimRefusedIfRunning(w) == run[w].status \notin ActiveStatus \/ stage[w].status # "READY"

\* The early returns of claim that write nothing.
ClaimRefused(w) ==
  \/ run[w].status \notin ActiveStatus
  \/ stage[w].status \notin {"READY", "RUNNING"}
  \/ stage[w].status = "RUNNING" /\ stage[w].lease > 0

\* A fresh token is named by the attempt it belongs to.
Claim(w) ==
  /\ ~ ClaimRefused(w)
  /\ HeadIsCurrent(w)
  /\ stage' = [stage EXCEPT ![w] =
       [status |-> "RUNNING", attempt |-> stage[w].attempt + 1,
        token |-> stage[w].attempt + 1, lease |-> LeaseTicks]]
  /\ run' = [run EXCEPT ![w].status = IF @ = "QUEUED" THEN "RUNNING" ELSE @]
  /\ UNCHANGED <<projectVars, progress, lapses>>

ClaimStale(w) == ~ ClaimRefused(w) /\ ~ HeadIsCurrent(w) /\ MarkStale(w)

Heartbeat(w, token) ==
  /\ LeaseIsCurrent(w, token)
  /\ HeadIsCurrent(w)
  /\ stage' = [stage EXCEPT ![w].lease = LeaseTicks]
  /\ UNCHANGED <<projectVars, run, progress, lapses>>

HeartbeatStale(w, token) ==
  LeaseIsCurrent(w, token) /\ ~ HeadIsCurrent(w) /\ MarkStale(w)

\* The guards record_failure passes before it writes anything.
FailureAccepted(w, token) ==
  run[w].status \notin TerminalStatus /\ LeaseIsCurrent(w, token)

RecordStale(w, token) ==
  FailureAccepted(w, token) /\ ~ HeadIsCurrent(w) /\ MarkStale(w)

RetryAllowed(w, retryable) == retryable /\ stage[w].attempt < MaxStageAttempts

RecordRetry(w, token, retryable) ==
  /\ FailureAccepted(w, token)
  /\ HeadIsCurrent(w)
  /\ RetryAllowed(w, retryable)
  /\ stage' = [stage EXCEPT ![w] =
       [status |-> "READY", attempt |-> stage[w].attempt, token |-> 0, lease |-> 0]]
  /\ progress' = [progress EXCEPT ![w] =
       [s \in ProgressStage |-> [status |-> "PENDING", attempt |-> 0]]]
  /\ run' = [run EXCEPT ![w].status = "QUEUED"]
  /\ UNCHANGED <<projectVars, lapses>>

FailStatus(status) == IF status = "RUNNING" THEN "FAILED" ELSE status

RecordFailed(w, token, retryable) ==
  /\ FailureAccepted(w, token)
  /\ HeadIsCurrent(w)
  /\ ~ RetryAllowed(w, retryable)
  /\ stage' = [stage EXCEPT ![w] =
       [status |-> "FAILED", attempt |-> stage[w].attempt, token |-> 0, lease |-> 0]]
  /\ progress' = [progress EXCEPT ![w] =
       [s \in ProgressStage |-> [status  |-> FailStatus(progress[w][s].status),
                                 attempt |-> progress[w][s].attempt]]]
  /\ run' = [run EXCEPT ![w].status = "FAILED"]
  /\ UNCHANGED <<projectVars, lapses>>

-----------------------------------------------------------------------------
(* Checkpoints and the commit, fenced by authorize_mutation.               *)

\* Bug: the lease is checked, the head is not.
AuthorizeByLease(w, token) == LeaseIsCurrent(w, token)

AuthorizeMutation(w, token) ==
  /\ stateVersion = run[w].head.state
  /\ HeadIsCurrent(w)
  /\ LeaseIsCurrent(w, token)

\* PostgresProgressSink.start, complete and skip.
Operation == {"start", "complete", "skip"}

Expected(op) ==
  CASE op = "start"    -> {"PENDING", "RUNNING"}
    [] op = "complete" -> {"RUNNING", "SUCCEEDED"}
    [] op = "skip"     -> {"PENDING", "SKIPPED"}

Target(op) ==
  CASE op = "start"    -> "RUNNING"
    [] op = "complete" -> "SUCCEEDED"
    [] op = "skip"     -> "SKIPPED"

TransitionAccepted(w, token, s, op) ==
  AuthorizeMutation(w, token) /\ progress[w][s].status \in Expected(op)

Transition(w, token, s, op) ==
  /\ TransitionAccepted(w, token, s, op)
  /\ progress' =
       IF progress[w][s].status = Target(op) THEN progress
       ELSE [progress EXCEPT ![w][s] =
               [status  |-> Target(op),
                attempt |-> IF op = "start" THEN token ELSE progress[w][s].attempt]]
  /\ UNCHANGED <<projectVars, run, stage, lapses>>

\* result_bundles is UNIQUE per workflow: a second insert rolls everything back.
PersistFirstProposalResult(w, token) ==
  /\ AuthorizeMutation(w, token)
  /\ w \notin bundles
  /\ bundles' = bundles \cup {w}
  /\ result' = w
  /\ progress' = [progress EXCEPT ![w]["COMMIT_RESULT"] =
       [status |-> "SUCCEEDED", attempt |-> progress[w]["COMMIT_RESULT"].attempt]]
  /\ stage' = [stage EXCEPT ![w] =
       [status |-> "SUCCEEDED", attempt |-> stage[w].attempt, token |-> 0, lease |-> 0]]
  /\ run' = [run EXCEPT ![w].status = "SUCCEEDED"]
  /\ UNCHANGED <<stateVersion, head, lapses>>

-----------------------------------------------------------------------------
\* Time passes for one lease; it runs out at most MaxLapses times per run.
LeaseTick(w) ==
  /\ stage[w].status = "RUNNING"
  /\ stage[w].lease > 0
  /\ stage[w].lease = 1 => lapses[w] < MaxLapses
  /\ stage' = [stage EXCEPT ![w].lease = @ - 1]
  /\ lapses' = [lapses EXCEPT ![w] = IF stage[w].lease = 1 THEN @ + 1 ELSE @]
  /\ UNCHANGED <<projectVars, run, progress>>

ProjectCommand ==
  \/ ConfirmOnboarding
  \/ SelectCandidate
  \/ \E w \in Workflow :
       \/ StartFirstProposal(w)
       \/ StartSelectiveRefresh(w)
       \/ \E source \in Workflow : StartSelectiveWithState(w, source)

\* Tokens that were issued for w, the current one and the superseded ones.
Issued(w) == 1..stage[w].attempt

LeaseOperation(w, token) ==
  \/ Heartbeat(w, token)
  \/ HeartbeatStale(w, token)
  \/ RecordStale(w, token)
  \/ \E retryable \in BOOLEAN :
       RecordRetry(w, token, retryable) \/ RecordFailed(w, token, retryable)
  \/ \E s \in ProgressStage, op \in Operation : Transition(w, token, s, op)
  \/ PersistFirstProposalResult(w, token)

Next ==
  \/ ProjectCommand
  \/ \E w \in Workflow :
       \/ Claim(w)
       \/ ClaimStale(w)
       \/ LeaseTick(w)
       \/ \E token \in Issued(w) : LeaseOperation(w, token)

Spec == Init /\ [][Next]_vars

-----------------------------------------------------------------------------
(* Properties.                                                             *)

\* Claim, retry, failure, supersession and commit each keep the run and its
\* RUN_PROPOSAL stage in step; no order of the calls of any clients, late ones and
\* those of ended runs included, makes the two disagree.
AgreeingStage(status) ==
  CASE status = "absent"    -> "absent"
    [] status = "QUEUED"    -> "READY"
    [] status = "RUNNING"   -> "RUNNING"
    [] status = "SUCCEEDED" -> "SUCCEEDED"
    [] status = "FAILED"    -> "FAILED"
    [] status = "STALE"     -> "CANCELLED"

StageAgreesWithRun ==
  \A w \in Workflow : stage[w].status = AgreeingStage(run[w].status)

\* Every command that bumps the state version also moves the head, so the extra
\* comparison with current_state_version in authorize_mutation never differs.
HeadTracksState == head.generation > 0 => head.state = stateVersion

\* A run holds a result bundle exactly when it is reported as SUCCEEDED: no crash or
\* late attempt leaves a bundle behind a failed run, or success without a bundle.
BundleIffSucceeded ==
  \A w \in Workflow : w \in bundles <=> run[w].status = "SUCCEEDED"

\* The current result pointer never falls back: whatever order runs commit in, it
\* names the committed run of the highest generation.
ResultIsNewest ==
  /\ result = NoWorkflow => bundles = {}
  /\ \A w \in bundles : run[w].head.generation <= run[result].head.generation

\* MAX_STAGE_ATTEMPTS is only compared in record_failure, so the attempts of a run
\* exceed it by no more than the leases that ran out and were reclaimed.
AttemptsAreBounded ==
  \A w \in Workflow : stage[w].attempt <= MaxStageAttempts + lapses[w]

\* The facts that make the invariants above inductive.
NoHeadBeforeOnboarding == stateVersion = 0 => head.generation = 0

ResultIsStored == result # NoWorkflow => result \in bundles

NoRunAheadOfHead ==
  \A w \in Workflow :
    run[w].status # "absent" => run[w].head.generation \in 1..head.generation

LeaseOfLastAttempt ==
  \A w \in Workflow : stage[w].status = "RUNNING" => stage[w].token = stage[w].attempt

ClaimableAgain(w) ==
  stage[w].status = "READY" \/ (stage[w].status = "RUNNING" /\ stage[w].lease = 0)

AttemptLeftToClaim ==
  \A w \in Workflow :
    ClaimableAgain(w) => stage[w].attempt < MaxStageAttempts + lapses[w]

\* No state any sequence of transactions reaches breaks one of these: the inductive
\* invariant that WorkflowStore_proofs proves.
StoreInvariant ==
  /\ TypeOK
  /\ StageAgreesWithRun
  /\ HeadTracksState
  /\ NoHeadBeforeOnboarding
  /\ BundleIffSucceeded
  /\ ResultIsNewest
  /\ AttemptsAreBounded
  /\ ResultIsStored
  /\ NoRunAheadOfHead
  /\ LeaseOfLastAttempt
  /\ AttemptLeftToClaim

\* A run that reached a terminal status keeps it: no late heartbeat, failure report
\* or commit of any attempt reopens or relabels it (lease.py, every operation).
TerminalIsFinal ==
  [][\A w \in Workflow :
       run[w].status \in TerminalStatus => run'[w].status = run[w].status]_vars

\* Once the head has moved past a run, that run never succeeds any more, although
\* its worker may hold a valid lease until its next call (docs: STALE).
SupersededNeverSucceeds ==
  [][\A w \in Workflow :
       /\ run[w].status \in ActiveStatus
       /\ run[w].head # head
       => run'[w].status # "SUCCEEDED"]_vars

\* A checkpoint is only ever opened in the name of the attempt that holds the lease,
\* never by a superseded attempt that is still computing (PostgresProgressSink).
OpenedByCurrentAttempt ==
  [][\A w \in Workflow, s \in ProgressStage :
       /\ progress'[w][s].status = "RUNNING"
       /\ progress[w][s].status # "RUNNING"
       => progress'[w][s].attempt = stage[w].attempt]_vars

\* The store implements the abstract promise: a run is a job opened against a
\* version of the project, and it publishes only while that version is current.
AbstractJob(status) ==
  CASE status = "absent"        -> "absent"
    [] status \in ActiveStatus -> "open"
    [] status = "SUCCEEDED"     -> "published"
    [] OTHER                    -> "closed"

Publication == INSTANCE ResultPublication WITH
  Job <- Workflow, NoJob <- NoWorkflow,
  version <- <<head.generation, stateVersion>>,
  job <- [w \in Workflow |-> AbstractJob(run[w].status)],
  against <- [w \in Workflow |-> <<run[w].head.generation, run[w].head.state>>],
  current <- result

PublicationSpec == Publication!Spec
=============================================================================
