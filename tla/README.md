# CaffeMate: TLA+ models, checks and proofs

This directory holds TLA+ models of CaffeMate's control plane and of the algorithms
behind its results, the TLC runs that check them on small instances, and TLAPS proofs
of the central facts for every value of the constants. Paths are relative to the
repository root.

## 1. The system

CaffeMate turns a founder's onboarding answers into a proposal: at most three cafes,
of the founder's own or of a franchise, with their finances, evidence and open
questions. The proposal is made asynchronously, by workers that crash, from tools and
agents that fail or answer wrongly, for a project whose inputs keep changing.

| component | code | state | operations |
|---|---|---|---|
| workflow store | `api/app/workflows/{lease,async_persistence,persistence,postgres_repository,selective_start}.py` | `workflow_runs`, `stage_runs`, `project_heads`, `result_bundles`, `venture_projects.current_*` | start, claim, heartbeat, record failure, checkpoint, commit |
| dispatch | `api/app/workflows/dispatch.py`, `worker/main.py` | `workflow_outbox` (stage messages) | claim for 45 s, publish, release, mark |
| worker | `worker/workflow_runtime.py`, `worker/control_api.py` | one push handler per delivery, its lease token | claim, call the Control API, heartbeat, report failure, acknowledge |
| executor | `api/app/workflows/execution.py`, `linear_agent_pipeline.py` | one API call per lease | authorize, read inputs, six checkpoints, commit |
| agent calls | `api/app/agents/runtime.py`, `agents/src` (stream bridge) | one logical call with its attempts; a session per attempt | query, retry, read the report, accept |
| session cleanup | `worker/{outbox,agent_cleanup,dead_letter}.py` | `workflow_outbox` (cleanup rows), `outbox_reprocess_events` | enqueue, claim, delete, release, dead-letter, requeue |
| user commands | `api/app/{projects,selections,feedback,documents,evidence}` | Venture State, selections, shop terms, previews, documents, claims and conflicts, evidence | confirm onboarding, select, apply terms, feedback, documents, refresh |
| proposal pipeline | `api/app/workflows/{linear_agent_pipeline,proposal_evidence_retrieval,franchise_grounding}.py`, `api/app/agents/{task_factory,boundary}.py` | the phases of a first run | retrieve, assess, propose, rank, audit |
| algorithms | `api/app/finance`, `api/app/candidates`, `api/app/workflows/{simple_proposal,proposal_finance,proposal_franchise}.py` | none | case facts, benchmarks, finance, ranking, build |
| recomputation | `api/app/workflows/execution.py`, `api/app/results/delta.py` | the source result | context from the source, build, delta |
| result views | `api/app/results`, `api/app/decisions` | none of their own | projection, explanation |
| MCP, RAG, ingest | `mcp/src`, `rag/src`, `api/app/grounding` | scope of one call | tool calls, scope checks, index build |
| UI | `src/` | presentation | polls progress and results |

How they interact. A command locks the project row, advances state or head and,
when it asks for an analysis, inserts run, stages, checkpoints and an outbox row in
one transaction. Dispatchers publish outbox rows to Pub/Sub. Pub/Sub pushes each
message to a worker until it is acknowledged. The worker leases the run's
`RUN_PROPOSAL` stage, sends the lease to the Control API, and renews it every 15
seconds. The API walks the checkpoints under the lease: a first run goes through the
pipeline, a recomputation builds from the source result. It commits; users poll.

What is hard. At-least-once delivery; handlers that vanish or lose their lease
while the API call they made goes on; two attempts of one run computing at once;
commands that supersede a run while it is computing; reads without a lock before a
commit; claims that outlive their holders; retries that are counted in one place and
consumed in another; agents that answer concurrently, for each other's task or not at
all; what a recomputation must find again in a result; changes that arrive one after
the other and contradict each other. `PROJECT.json` lists these as hazards, each at its
line with the properties that cover it.

What makes each component correct. *Store*: ended runs stay ended, only the current
attempt writes, the current result is the newest committed. *Dispatch and worker*: no
queued run is forgotten, duplicates are harmless, every run ends. *Cleanup*: no
session stays, none is deleted that is in use, settled rows are settled. *User
commands*: what is confirmed or applied is what the user saw, on the state it was made
from. *Pipeline*: only what was assessed is called a fact, an audit means one, one
failure costs only what depends on it. *Algorithms and recomputation*: the user's words
win and are the current ones, contradictions stay open, official references survive,
the delta names every change.

## 2. Modules

| module | what it is |
|---|---|
| `ResultPublication` | abstract specification: jobs opened against a version of the project publish only while that version is current |
| `WorkflowStore` | the database: every transaction on runs, stages, checkpoints, head and result, called by any client with any token ever issued |
| `WorkflowDispatch` | the outbox row of a run, its dispatchers, what the broker holds |
| `WorkflowRuntime` | `WorkflowStore` and `WorkflowDispatch` composed with the real clients: push handlers and executors |
| `SessionCleanup` | abstract specification: what the cleanup of agent sessions promises |
| `AgentSessionCleanup` | cleanup rows, their consumers, dead letters and operators; implements `SessionCleanup` |
| `AgentCalls` | a logical agent call, its transport attempts and the Agent Runtime, on an instance of `SessionCleanup` |
| `Outbox` | `WorkflowDispatch`, `AgentSessionCleanup` and `AgentCalls`: the rows of `workflow_outbox` and where they come from |
| `VentureProject` | one project as the user's commands see it: state versions, head, result, selected candidate |
| `FeedbackFlow` | previews of a natural language change: creation in three transactions, confirmation, cancellation |
| `DocumentFlow` | document revisions from upload to application, and the conflicts of what they claim |
| `ProjectInputs` | `FeedbackFlow` and `DocumentFlow` composed on one `VentureProject` |
| `Lists` | Python's lists: comprehension with a condition, stable sorting, slices |
| `Finance` | lines, sums, margin, break-even and capital gate |
| `CaseFacts` | the claims of documents and shop terms as lines of the selected case, and the order in which sources of a line win |
| `Benchmarks` | rent, wage, insurance and disclosure references: from tool results, and again from a stored result |
| `CandidateRanking` | review status, order and its trace |
| `ResultProjection` | evidence, signals, official documents and decision inputs of a candidate |
| `ProposalBuilder` | `SimpleProposalBuilder.build` from the seven modules above it |
| `ResultDelta` | what changed between a result and its source |
| `AgentBoundary` | what the API accepts of an agent's reply |
| `ProposalPipeline` | a first run: retrieval, assessment, proposals, ranking, audit, with failing tools and agents |
| `CaseRecompute` | a project after its first result: every command that queues a recomputation, and the recomputation |
| `WorkflowStore_proofs` | inductive invariant of `WorkflowStore`; it implements `ResultPublication` |
| `WorkflowRuntime_proofs` | inductive invariant of the store with its real clients; `WorkflowRuntime` implements `WorkflowStore` and so `ResultPublication` |
| `WorkflowDispatch_proofs`, `AgentSessionCleanup_proofs` | inductive invariants of these modules; the cleanup implements the safety half of `SessionCleanup` |
| `Outbox_proofs` | the parts of `Outbox` behave as their own modules say; inductive invariant of `AgentCalls` |
| `ProjectInputs_proofs` | inductive invariant of feedback and documents on one project |
| `CaseRecompute_proofs` | inductive invariant of a first run, from its tool calls to its result |
| `CaseInputs_proofs` | inductive invariants: of the selected case and every result a recomputation may start from; of what a first result rests on |
| `MCWorkflowStore`, `MCWorkflowRuntime`, `MCOutbox`, `MCProjectInputs`, `MCCaseRecompute` | symmetry sets and constants of the TLC runs |

The modules from `Lists` to `CaseRecompute` extend each other in this order, as the
builder, the pipeline and the recomputation use all that is before them.

### WorkflowStore

One action is one transaction. They are atomic in the model because every
transaction locks either the stage row (`lease.py`) or the project row (commands,
`authorize_mutation`) before it writes. The lease operations read the head in the
statement that locks the stage, so they may see the head from just before a
concurrent command. That serialises them before the command, and the commit,
where it would matter, locks project and head.

* `head` is the `project_heads` row reduced to generation and state version. The
  other six dimensions are functions of the state or never change.
* `run`, `stage`, `progress` are the rows of a run. A lease token is named by the
  attempt that obtained it; `lease` counts ticks until it expires, 0 is expired.
* `Claim`/`ClaimStale`, `Heartbeat`/`HeartbeatStale`,
  `RecordRetry`/`RecordFailed`/`RecordStale`, `Transition` and
  `PersistFirstProposalResult` are the branches of the methods of the same name.
  Early returns that write nothing are the complements of their guards.
* `StartSelectiveWithState` stands for feedback confirmation, property terms and
  document forms, which all store a new state and start a recompute from a bundle;
  `StartSelectiveRefresh` for the evidence refresh; `SelectCandidate` for the
  command that advances state and head without a run.

Clients are the most general ones, so a theorem about `Spec` holds whatever
workers do, as long as they use tokens they were given. `StoreSpec` in
`WorkflowRuntime` checks that the real ones do.

### WorkflowDispatch and WorkflowRuntime

A dispatcher claims, publishes and marks in three steps, and may fail between any
two. The broker is the set of messages nobody acknowledged; any of them may be
delivered at any time, also one that is being handled (its 600 second
acknowledgement deadline is no longer than the handler's own bound). There is no
dead-letter policy on the subscription
(`scripts/deploy-api-worker-runtime.sh:407`), so a message that is not
acknowledged comes back.

A handler is `idle`, `processing` (the API call is out, the heartbeat loop runs),
`checking` (`is_pending_delivery` after a refused claim or a lost lease) or
`failing` (about to call `record_failure`). An executor exists per run and token.
A handler that gives up, loses its lease or crashes leaves its executor running,
as a daemon thread and an HTTP request do. `GiveUp` also covers the requests that
are never sent.

`ReadInputs` remembers the head the unlocked reads of `execute` saw, and
`Checkpoint` walks `Plan(w)`, the sequence of checkpoint calls of a first proposal
or of a recompute. An instance may track a part of the six checkpoints
(`ProgressStage`): an executor then only stops at the places of the plan that meet one
of them (`Stops`, `GoOn`).

### AgentSessionCleanup, AgentCalls, Outbox

The outbox table in its other use. A delete call may succeed, be refused, or
fail without telling whether the session is gone. `claim_next` has no look at
`available_at`, which is why the delay is state (`delayed`) and not a guard.
`reprocess` looks its request id up before it locks the row.

`SessionCleanup` is what `AgentCalls` may rely on: a session left to the cleanup is
looked for until it is deleted, not found, or a dead letter. `AgentSessionCleanup` is
shown to implement it (`CleanupPromise`), and `AgentCalls` takes the cleanup's steps from
an instance of it over its own variables, so the rows, claims and retries of the cleanup
are not repeated there.

In `AgentCalls`, `call` is the API's side (`_invoke_with_transport_retries`,
`_invoke_once`), `server` the Agent Runtime's. Each attempt has an invocation id and so a
session of its own. Time is the budget until `deadline_at`: `ample`, in the two seconds
`reserve`d for the cleanup, or `over`. The Runtime deletes its session before it closes
the stream, and reports a deletion that failed behind the result; `RejectBeforeReport` is
the path on which nobody reads that report. `untracked` collects the sessions that are
lost for reasons the code accepts: the API dies, or the row cannot be written.

`Outbox` extends all three and holds them side by side. A consumer claims rows of its own
topic, so the parts share no row; `OutboxNext` therefore lets one part move in a
behaviour.

### VentureProject, FeedbackFlow, DocumentFlow

`versions` is the event log with the states it produced; `by` names the preview or
revision an event came from. Runs are reduced to the head they were queued for, as
`WorkflowStore` shows that only the run of the current head publishes.

The commands of these modules make an agent call between two transactions, so their
callers are state: `creator` (`create_preview` after each of its reads and while the
agent works), `processor` (the request that completes an upload goes on to scan, parse
and extract), `applier` (a user who has read a form). Any of them may disappear.

PostgreSQL runs these transactions at READ COMMITTED. `SELECT ... FOR UPDATE OF p`
reads all its tables from one snapshot and then waits for `p`; when it gets it, `p` is
read again, the joined rows are not. `confirm_preview` and `update_form` are therefore
two steps, one that takes the snapshot and one that goes on with it. The joins on
`p.current_state_version` are checked again, which is why `ConfirmPrecondition` still
compares the current state. Elsewhere what was seen before the wait leads to the
same outcome as having run just before the transaction that was waited for, and one
step is enough.

A form has one field. Its digest is its value, `expected_state_version` its version.
Replays with a known idempotency key change nothing and are left out.

### Finance to ProposalBuilder

Amounts are integers, a range is `(low, base, high)` with open ends, rates are parts of
`Whole`. Provenance decides what a line may be: `LineOK` is the check of `CostLine`. The
sources of a line, in the order `ResolveCostLine` asks them: shop terms, confirmed
documents, the disclosure, the references, the assumption of the registry. A contradiction
among documents is `UNKNOWN` and does not fall through to the next source.

References live nowhere but in the results they were used for; `Benchmarks` has for each
kind its derivation from a tool result and its replay from a stored one.

### AgentBoundary and ProposalPipeline

Tools and agents are outside of the API and are constants: `McpAnswer` is what a tool
returns, `Reply(task, None)` the faithful reply of an agent, and `Reply(task, d)` one with
a defect `d` of `Defects(task)`: unavailable, invalid, for another task or head,
abstaining, naming what it was not given, answering for another source, twice, not at all,
and so on. The boundary's verdict and what the pipeline makes of it are translated. A reply
may rest on the evidence of its task and, in `support_refs`, on the assumptions an
independent seed brings; it may not count an assumption as evidence.

The calls of a phase run concurrently, but the code awaits all of them and takes their
answers up in the order of the tasks. A phase is therefore one step, in which any set of
its calls may fail and any of its replies may have any defect, up to `MaxFaults` in a run.

### CaseRecompute

A command here is one step, under the lock and at the expected version, as
`WorkflowStore` and `ProjectInputs` show. `queued` is the source result of the pending
recomputation; a run that the head has passed is dropped. `RecomputeContext` is what
`execute` reads after the change was committed: shop terms from the newest intake of the
case or from the source result, claims and conflicts from their tables, references and
brands from the source result, evidence from `evidence_records`.

## 3. Runs

| run | instance | question |
|---|---|---|
| `store` | 3 runs, 2 attempts, 1 expired lease each | do the rows of a run, the head and the result pointer stay consistent; what may no step do to a run; does the invariant of the proofs hold; does the store implement `ResultPublication` |
| `runtime_one_run` | 1 run, 2 handlers, 2 attempts, 1 crash, 1 stall | overlapping attempts: one executor walks the checkpoints at a time, messages are lost only where the code gives them up |
| `runtime_two_runs` | 2 runs, 2 handlers, 1 stall | recompute and selection: checkpoints and inputs of a result, clients of the store |
| `runtime_ends` | 1 run, 2 handlers, 2 attempts, 1 crash, 1 stall | does every run end, and what is guaranteed when a lease runs out under a live holder |
| `runtime_ends_after_stall` | the same without the crash | **violated**: such a run may never end |
| `outbox` | 2 stage rows and 2 dispatchers; 1 session, 2 consumers, 2 operators, 2 request ids; a call with 2 attempts | is every queued run sent and a published one settled; does the cleanup implement `SessionCleanup`; are settled rows settled; does every session end; is an answer used only when its session is gone |
| `project_inputs` | 1 preview and 1 revision or 2 revisions, 2 callers at a time, 2 further state versions, 2 recomputes | is what is confirmed or applied what the user saw, for the state it was made from; do contradicting claims meet; do late answers and failures leave settled rows alone |
| `feedback_stale_head` | the same with one input | **violated**: a preview is confirmed for a head that is not current |
| `recompute` | 5 founders, 3 cafe models, 3 brands, 2 faults in a first run; 3 documents, 1 shop, 1 word, 2 fields, 3 changes after it (54 396 states) | is a fact of a first result assessed, an advice that of its agent, a passed audit one, a failure justified; after every change, are the user's words current, contradictions open, references kept, traces and deltas true, both families shown |
| `recompute_drops_case` | the same without faults | **violated**: an applied document removes the selected candidate |
| `recompute_passed_unaudited` | the same, 1 change | **violated**: a result no auditor saw is `PASSED` |
| `recompute_forgets_evidence` | the same, nothing stored | **violated**: a recomputation loses the evidence of the first run |

`CHECK_DEADLOCK FALSE` is set everywhere: all runs of a finite instance end, and
then the system has nothing to do.

Bounds. Two handlers are the smallest number with overlapping deliveries of one
message. A result can fall back only with three runs: one whose result the two
others recompute, in the opposite order of their starts. `MaxStageAttempts` is 3 in the
code; 2 has a retried and a last attempt, and 1 is used with two runs, where
supersession matters. `MaxLapses` bounds expired leases per run (in
`WorkflowRuntime` it never binds: crashes and stalls do). A lease is one tick
long, since a longer one only delays. `MaxStateVersion`, `MaxGeneration`, `MaxCrashes`,
`MaxStalls`, `MaxDispatchFaults`, `MaxCallFaults` and `MaxFaults` bound what the
environment may do over a whole behaviour. Of the six checkpoints an instance tracks a
few: two are enough for order and leftovers, a third adds what a recompute skips, and what
the others do is the same again.

`MaxTransportAttempts` (3 in the code) and `MaxCleanupAttempts` (5) are 2: a retried and
a last attempt. One session has all interleavings of consumers and operators, which meet
only in a row.

`MaxInputs` and `MaxCalls` bound how many previews and revisions are opened and how
many callers are between two transactions: every hazard listed is one between two of
them. `MaxStateVersion` 4 leaves two versions after the selection, enough for two
documents, or a document and a feedback change, to be applied one after the other.

In the runs of `CaseRecompute`, `MaxVersion` 4 is a selection and two changes more (2 in
two of the violated runs, which need one change). `FollowedFounders` and `FollowedFaults`
bound whose life goes on after the first result: the founder who has every kind of
candidate, after a run without faults; the other founders and all faults are explored in
the first run. `MaxFaults` 2 has a tool and an agent fail together, or two agents.
`AssessCapacity` is 11 (14 in the code) so that the records of the instance exceed it, as
those of a real universe exceed 14. Amounts are in ten thousand won and the material
thresholds are scaled likewise. `IdOrder` names the order of the candidates' digests, which
decides ties.

Fairness. `RuntimeFairness` is weak fairness of a dispatcher that did not crash
(the Scheduler calls the drain again and again), of an executor and a handler that
go on, of the clock for a lease or claim without a live holder, and strong fairness of
delivering a run's message, because Pub/Sub redelivers with a bounded back-off while
handlers come and go. In `Outbox`, consumers and dispatchers are called by the Scheduler
and go on unless they crash, and both sides of an agent call have timeouts
(`CallFairness`), so neither waits for ever; that the cleanup settles its rows is what
`CleanupPromise` shows. No fairness is given to crashes, timeouts, heartbeats, failures of
an execution, operators or commands.

Symmetry is used in runs of safety properties only.

## 4. What the checks found

* `workflow_runtime.py:113`: a handler that reports a failure after its lease ran
  out is refused (`LEASE_REJECTED`) and acknowledges the message. The run stays
  `RUNNING`, nobody will claim it, and a new start returns the same run. The
  protocol document promises `STALE` or a failure
  (`docs/contracts/agent-runtime-protocol.md:416`). It takes only
  `control_api.py:50`, which raises exactly when the lease has expired.
* `feedback/postgres_repository.py:273`: a confirmation that waits behind an evidence
  refresh keeps the head of its snapshot and is accepted, against `api/README.md:130`.
  State and result have not moved, so what is applied is still what was shown
  (`ConfirmedOnTheStateItShowed` holds).
* `simple_proposal.py:202`: a recomputation ranks all candidates again and keeps at most
  three, whichever was selected; claims of its own documents can put the selected one out
  of the result, against `docs/demo-fixtures/README.md:98`.
* `simple_proposal.py:232`: a recomputation has no auditor and is stored as `PASSED`,
  against `docs/product-very-spec.md:411`.
* `persistence.py:492`: nothing inserts into `evidence_records`, from which a
  recomputation takes its evidence, so signals and official documents are gone after the
  first change, against `api/README.md:210`.

Seen while translating, each in the modules but without a run of its own:

* `lease.py:56`: reclaiming an expired lease keeps the checkpoints of the crashed
  attempt. The first checkpoint that already succeeded refuses the new attempt
  (`execution.py:94`), the answer is a 409 that is not retryable, and the run
  fails. A scheduled retry does reset them (`lease.py:247`).
* `evidence/refresh.py:213`: nothing looks for a recompute in progress, against
  `api/README.md:256`. A selection while one is pending drops it for good.
* `worker/outbox.py:55`: the exponential delay of a cleanup retry is stored but
  not waited for, against `api/README.md:231`.
* `agents/runtime.py:320`: the report of a failed deletion is only read behind a result
  that is in time and well formed, against `docs/contracts/agent-runtime-protocol.md:106`.
* `franchise_grounding.py:109`: a brand whose finance evidence is not accepted loses its
  references, not the fact that its royalty is unknown; the royalty then counts as zero
  (`docs/product-spec.md:238`).
* `linear_agent_pipeline.py:184`: a researcher that is unavailable leaves no brand's
  eligibility accepted, so the run of a founder who wants a franchise fails
  (`docs/contracts/agent-runtime-protocol.md:610`); `task_factory.py:692` fails a founder
  who is open to both when no cafe model fits, although brands are verified. Both are part
  of what `FailsOnlyWithoutAnyProposal` allows (`NothingSuits`), and no other refusal is.
* `simple_proposal.py:199`: a change of the preferred kind by feedback has no result when
  the source has no candidate of that kind.
* `property_benchmark.py:226`: a reference hidden by the user's own input in every
  candidate is not found again by later recomputations.
* `delta.py:13`: the delta compares with the source of the recomputation, which need not
  be the result shown before (`api/README.md:202`).

## 5. Proofs

All proofs are checked by TLAPS, each from the assumptions its module names and for any
value of the constants, finite or not.

**The store.** `WorkflowStore_proofs` uses `StoreAssumption` alone (any number of runs,
attempts, versions).

`TypeOK` is inductive and is proved first. The other invariants are not inductive
one by one: that the result pointer never falls back needs every run to be no newer
than the head and the pointer to name a stored bundle; that attempts are bounded
needs a run that can be claimed to have one left; that the state version agrees with
the head needs that there is no head before onboarding; and each of them needs that
run and stage agree, so that a live lease means a `RUNNING` run. `StoreInvariant` is
their conjunction, and the `store` run checks it as an invariant. One lemma per action
shows that it is kept, with a step per conjunct.

From it follow `ResultNeverFallsBack`, `AttemptsBounded`, `RunStageAndHeadAgree`, and,
with a lemma on what one step may do to one run (`NextRunStep`), the action
properties `TerminalRunsStay` and `SupersededRunsFail`; `CheckpointsOfCurrentAttempt`
uses that a live lease is that of the last attempt. `StoreImplementsPublication`
maps a run's status to a job's, its head to the version it was opened against:
starting a run is `Open`, committing is `Publish`, failing or going stale is
`Close`, moving the head without a run is `Advance`, and everything else (claims,
heartbeats, retries, checkpoints, time) stutters.

**Workers and executors.** `WorkflowRuntime_proofs` extends the store's proofs and adds
`RuntimeAssumption`: the checkpoints tracked are among the six of the code, and the bound
on expired leases leaves room for every crash and stall. `RuntimeImplementsStore` carries
every theorem of the store over to the real clients, `RuntimeImplementsPublication` among
them: whatever crashes or is redelivered, users see what `ResultPublication` says. A step of theirs is one of the store
if the token it names is one the store has issued and the checkpoint one the run has; both
are true only because of what they remember, so `RuntimeInvariant` says it:

* handlers and executors hold issued tokens, and a run that was not queued has issued none;
  outbox rows, dispatchers, messages and deliveries are of queued runs
  (`WorkersHoldIssuedTokens`, `ExecutorsHoldIssuedTokens`, `UnclaimedBeforeQueued`,
  `DeliveriesAreOfQueuedRuns`);
* the checkpoints of a run in progress show one place of its plan, whichever attempts
  brought it there: each is `PENDING` or at the target of an operation of the plan, and
  what is behind a passed place is passed (`PassedInOrder`); the executor of the attempt
  that holds the lease has passed everything behind the place where it stands
  (`ExecutorsStandAtStops`, `HolderHasPassed`). An executor of an earlier attempt may stand
  anywhere: the lease is what keeps it from disturbing this. The lemma `PlanWellFormed`
  says of both plans what is needed: a checkpoint is skipped, or started and completed in
  the next place, none occurs again, and the commit is last;
* a run that is not active shows no open checkpoint, and a successful one only finished
  ones (`OnlyActiveRunsShowOpen`, `SuccessShowsEveryCheckpoint`); a call that answered 200
  has committed (`DoneMeansSucceeded`);
* generation and state version of the head only grow (`HeadsGrow`), and inputs were read
  at a head between that of their run and the present one (`InputsBetweenHeads`).

`SuccessIsComplete` and `CheckpointsInTurn` follow: a place that starts a checkpoint is
passed only by completing it, so the order of the plan leaves one open at most.
`ResultsFromTheirHead`: the commit demands that the head is that of the run, and inputs
read between the two are read at the same. `MessagesKept` looks at each way to an
acknowledgement: a 200, a refused claim of a run that is no longer pending, a failure that
was recorded, and the one that was refused (section 4).

**Dispatch.** `WorkflowDispatch_proofs`, from `DispatchAssumption`, proves
`DispatchTypeCorrect`, `DuplicatesArePaidFor` (a message is sent more than once only for
as many faults as happened) and `PublishedStays`. That duplicates are paid for is not
inductive: it needs that a dispatcher's token is one the row has given
(`ClaimsWereGiven`), that a row nobody is at work on has cost a fault for every claim so
far (`UnheldIsPaid`), and so has one whose publication failed (`FailedIsPaid`); without
them a row could be claimed again for free. Together they are `DispatchInvariant`.

**Agent sessions.** `AgentSessionCleanup_proofs`, from `CleanupAssumption`, proves
`CleanupTypeCorrect`, `SettledRowsAreFinal` and `CleanupKeepsPromise`. `CleanupInvariant`
adds to the types that a consumer at work holds the id of a row that exists
(`ConsumersHoldRows`), that a reprocess command names a request (`OperatorsHoldRequests`),
that a delete call which reports success has seen the session go or not found it
(`DeletedIsReal`), and that a settled row waits for nothing (`SettledIsNotDelayed`),
without which the passing of time would change it. For the refinement a row's status maps
to what it reports: inserting is `Enqueue`, a delete call that does something is `Remove`,
marking the row published is `Finish`, a dead letter is `GiveUp`, `reprocess` is
`Requeue`, and claims, releases, lost claims, crashes and time stutter. `Finish` is
allowed by `DeletedIsReal`, whichever of the consumers that held the claim gets through.
The fair half of `CleanupPromise` stays with the `outbox` run.

`Outbox_proofs`, from `CallAssumption`, proves `AcceptedAfterDeletion` and
`CleanupOnlyOfGivenUp`. The first relates the API to a Runtime it only hears over a stream,
so `CallInvariant` says what the stream carries: a result that was closed without a report
is that of a deleted session (`QuietCloseMeansDeleted`), what the API has received is the
closed stream of its own session, and it accepts only where nothing was reported
(`ReceivedIsClosed`). A deleted session stays deleted, whatever the cleanup does
(`GoneStays`). The second needs no more than that a row is written when an attempt is left
and that the next attempt has another session (`AttemptIsLeft` keeps their number).

It also shows that a behaviour of `Outbox` is one of each of its parts
(`OutboxIsItsParts`), so the theorems on the parts hold of it, the types first
(`OutboxTypeCorrect`).

**What users enter.** `ProjectInputs_proofs` uses the assumptions of `VentureProject`,
`FeedbackFlow`, `DocumentFlow` and `InputsAssumption`; the last says that ids of previews
and of revisions are distinct, as the code draws both with uuid4. The properties compare
what was shown with the log of versions, which a later command may extend at any time.
`InputsInvariant` therefore says, for each preview and each revision, exactly which versions
are its own: none, or the one after its base (`PreviewsAppliedOnce`,
`RevisionsAppliedOnce`), and which claims (`ClaimsAsApplied`). Its other parts are why a
second one cannot come: a preview that is being confirmed is locked by one resolver and
still to be reviewed (`LocksKeepReviewable`); a preview was made at the state its head
stands for (`PreviewsFitTheirHead`), and so is the head of the project
(`HeadFollowsState`), from which `PreviewsAreForTheirHead` follows.
`ConfirmedOnceWhereShown`, `FormsAppliedAsRead` and `ContradictionsAreFound` are read off
the invariant, `ProposalsAreStable` and `ReadyFormsStay` are proved of each action: every
caller that comes back late finds its row moved on and leaves it alone.

**The proposal pipeline.** `CaseRecompute_proofs` is about first runs within everything
else that happens to the project, for any seeds, tool answers, replies and failures. It uses
`BuilderAssumption` (the registry is a list; `None` is no line) and `McpAssumption` (the
brands to ask for, what a tool returns and the references of a brand's profile are lists; a
profile has the fields the code fills in, perhaps with nothing; and the issues of a
disclosure, which the code sorts by version and year, are numbered in that order), which is
all the code relies on as well.

`PipelineInv` says of each step what the ones before it have left: the outcomes of the
retrieval; after the assessment that the first agent asked was the assessor and each later
one was asked about one source, which the founder's preference allows (`AskedForProposals`);
before ranking that there is a proposal; and of a result that is not published yet that each
of its candidates has the answer of the agent asked about its source and, if independent,
shows its advice (`AdvisedBy`). It is an invariant only with `PassedMeansAudited` and
`FailsOnlyWithoutAnyProposal`, which are its last parts, and it holds through every command
because those run when the pipeline is done. Then:

* `AdvisoriesAreOfTheirAgents`: an accepted reply has only allocated ids and at most the
  count it was asked for, so an agent asked about one source can only propose that one
  (`UsedProposal`), and `AdviceBySource` finds no other's advice (`AgentsAnswered`);
* `FailsWithoutProposals`: a source that was proposed is a seed that was selected, or a
  verified brand, so it has a draft (`ProposedHaveDrafts`) and ranking has a candidate. A run
  that asks nobody has nothing that suits its founder (`RefusedWithoutSuit`): a compatible
  seed is always among those selected and cut to three (`NoIndependentTask`), and a brand
  with accepted evidence always gives a franchise task (`NoFranchiseTask`);
* `PassedIsAudited`: the audit is asked about the candidates of this bundle, and `PASSED`
  needs a passing row for each.

Most lemmas are about lists, since a result is one: that selecting, sorting, cutting and
flattening make lists of what they were given (`Lists`), what the drafts of a context are
(`DraftsOfContext`), and that what is ranked and shown are drafts with decisions on them
(`BuiltFromDrafts`). `Lists` takes places and keys where the library takes operators, which
the provers cannot instantiate; its recursive functions exist by `StepsDefineFunction`.

**What a recomputation reads.** `CaseInputs_proofs` follows the selected case through every
order of commands. It adds `CaseAssumption`: no brand has the id of a registered model, won
are natural numbers, terms and lines are not `None`, and a form has at most nine claims,
because the ids of claims are numbered by the version that stored them.

`CaseInv` says what a recomputation may start from, so that what it leaves is current:

* claims, conflicts and terms fit together (`CaseKept`): no two claims have one id, each is
  of a candidate and names its source, the terms of a case are of its source; a conflict is
  about one fact of one case, and whatever two revisions say differently of a fact is in one
  (`ConflictsKept`);
* the current result, the one a queued recomputation starts from and every one that was
  selected from are of versions so far, and a candidate shows a shop only where terms were
  entered for it (`ResultsKept`). Without that a recomputation from an old selection could
  bring back terms that nobody has entered for this case;
* before the first result nothing has happened to the case, and the bundle that is audited
  has no line of the user (`RunKept`).

A recomputation knows the shop of the active case whatever result it starts from
(`ShopOfContext`). What the resolver finds in it for a line is then the newest terms, or what
one revision says and none contradicts, or nothing of the user (`ResolvedIsCurrent`): a
fact is settled only when all its claims say one thing in won (`SettledFact`), an occupancy
only when the complete revisions of its family agree (`SettledOccupancy`). `InputsAreCurrent`
follows. If two claims of the deciding family differ the category stays unknown, and with it
the sum and the recommendation (`ContradictedCandidate`): `ContestedIsOpen`.

**What a first result rests on.** The last part of `CaseInputs_proofs` follows evidence through
the first run. `GroundInv` is inductive relative to the two invariants above: from the
assessment on, every record the run goes on with was stored before or is accepted in the reply
that was asked for first, and every candidate of a result not yet published rests on such
records (`RestsOn`): its lines and its rate where they are facts, its brand, its signals and
its documents. `_freeze_assessed_evidence` looks for one value in each field, the property for
any of them in any field; that they say the same is because the boundary has compared the
reply with the schema, which gives each field its own values (`AssessmentValue`,
`FrozenIsAssessed`). The second half goes from the tools upwards: disclosed fees are
those of accepted items (`DisclosedFeesRest`), rents, wages and insurances are benchmarks and
no facts (`OfficialLines`), a brand loses costs that were not accepted and may then get
disclosed ones (`UniverseRests`), so each draft rests on them (`FirstDraftRests`), and ranking
changes none of it (`FirstResultRests`). `FactsAreAssessed` follows. It holds for any number
of seeds, brands, tools that fail and replies with a defect.

**Only model-checked**: liveness (`EveryRunEndsUnlessStalled`, `EveryRunIsSent`,
`EverySessionEnds` and the fair half of `CleanupPromise`), which is out of reach of the
provers; what the algorithms compute of amounts and orders (`RecomputeTypeOK`,
`TraceExplainsOrder`), which are sums and sorted lists, facts about recursive functions of
data that would each need an induction of its own; and what a recomputation does to its
source (`BenchmarksSurviveTheReplay`, `DeltaNamesEveryChange`, `BothFamiliesCompete`), whose
replays and comparisons are built on operators of the library that take operators, which the
provers cannot expand.

## 6. Not modelled

* Idempotency keys of commands (`workflows/postgres_repository.py:335` and the
  replays of each command), and creation of a project.
* Of the boundary, the checks of `DOCUMENT_EXTRACT` and `EVIDENCE_PLAN`, and the JSON
  schemas but for the required fields and the values of an assessment; of the result views,
  `projection.py:15-209` and the queries of
  `results/postgres_repository.py`; the payload of the independent finance snapshot.
* First runs that start at a later version, after a failed one: the pipeline is run once
  per project.
* Transport and scope of MCP calls, the MCP server, the agents' dispatcher, prompts and
  tools, retrieval, ingest, evaluation, deployment and UI (stateless calls, batch I/O or
  presentation).
* Revision numbers of documents, so that `documents/extraction.py:573`, which does not
  compare them, is not checked against `docs/product-spec.md:364`; checklist and
  preparation guide; malformed references, which raise.
* The five seconds a released dispatch row is withheld: it is only picked up later.
  `persist_completed_first_proposal` is the synchronous path of tests.

## 7. Plan

1. Proofs about recomputations: that a result has the types `RecomputeTypeOK` says and is in
   the order its trace explains.
2. `DocumentFlow`: revision numbers, and that a revision does not stay in PARSING for
   ever.
3. `UserCommands`: idempotency keys (`_claim_idempotency`, replay, reuse with another
   payload) and creation.
4. `EvidenceRefresh`: source heads, expiry, and the freshness of `get_current`.
5. MCP scope and the agents' tool gating.
