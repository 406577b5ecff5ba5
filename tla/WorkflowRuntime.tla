--------------------------- MODULE WorkflowRuntime ---------------------------
(***************************************************************************)
(* WorkflowStore with its real clients: the outbox dispatchers and the       *)
(* broker (WorkflowDispatch), the workers that receive a delivery, hold the  *)
(* lease and report failures (worker/), and the executors inside the         *)
(* Control API that walk the checkpoints and commit (workflows/execution.py).*)
(*                                                                         *)
(* Nothing ties the life of an executor to that of the worker that called    *)
(* it: a worker that times out, loses its lease or crashes leaves it running.*)
(***************************************************************************)
EXTENDS WorkflowStore, Sequences

CONSTANTS
  Worker,             \* deliveries handled at the same time
  Dispatcher,         \* concurrent calls of dispatch
  MaxDispatchFaults,  \* bound: see WorkflowDispatch
  MaxCrashes,         \* bound: handlers that vanish, over the whole behaviour
  MaxStalls           \* bound: leases that run out under a live holder

\* The checkpoints of a FIRST_PROPOSAL run (FIRST_PROPOSAL_PROGRESS_STAGES).
CheckpointStage ==
  {"EVIDENCE_RETRIEVAL", "EVIDENCE_ASSESS", "PROPOSAL_GENERATION", "FINANCE_AND_RANK",
   "CANDIDATE_AUDIT", "COMMIT_RESULT"}

ASSUME RuntimeAssumption ==
  /\ ProgressStage \subseteq CheckpointStage
  /\ MaxDispatchFaults \in Nat
  /\ MaxCrashes \in Nat
  /\ MaxStalls \in Nat
  /\ MaxLapses >= MaxCrashes + MaxStalls  \* so that MaxLapses itself never binds

VARIABLES
  outbox, dispatcher, messages, dispatchFaults,   \* WorkflowDispatch
  worker,      \* the push handler: pc, the delivery, its lease token, its failure
  executor,    \* executor[w][token]: the API call made for one lease
  crashes, stalls

workerVars == <<worker, executor, crashes, stalls>>
brokerVars == <<outbox, dispatcher, messages, dispatchFaults>>
runtimeVars == <<vars, brokerVars, workerVars>>

Dispatch == INSTANCE WorkflowDispatch WITH Run <- Workflow, NoRunToPublish <- NoWorkflow

-----------------------------------------------------------------------------
NoDelivery == <<NoWorkflow, 0>>

Waiting == [pc |-> "idle", delivery |-> NoDelivery, token |-> 0, retryable |-> FALSE]

\* All tokens that can be issued for one run: claim never looks at MAX_STAGE_ATTEMPTS.
Token == 1..(MaxStageAttempts + MaxLapses)

Unread == [generation |-> 0, state |-> 0]

NoCall == [pc |-> "none", step |-> 0, inputs |-> Unread]

\* "requested" and "reading" come before the pipeline; "done" is the 200 answer, "rejected"
\* the 409 of StageLeaseRejectedError, "invalid" the 422 of ContractValidationError,
\* "unavailable" a 5xx or a broken connection.
Answer == {"done", "rejected", "invalid", "unavailable"}

WorkerRow ==
  [pc : {"idle", "processing", "checking", "failing"},
   delivery : (Workflow \X Nat) \cup {NoDelivery},
   token : Token \cup {0}, retryable : BOOLEAN]

CallRow ==
  [pc : {"none", "requested", "reading", "running"} \cup Answer,
   step : Nat, inputs : HeadFence]

RuntimeTypeOK ==
  /\ TypeOK
  /\ Dispatch!DispatchTypeOK
  /\ worker \in [Worker -> WorkerRow]
  /\ executor \in [Workflow -> [Token -> CallRow]]
  /\ crashes \in 0..MaxCrashes
  /\ stalls \in 0..MaxStalls

\* The checkpoints in the order the pipeline and execute pass them.  FirstProposal
\* is LinearMultiAgentProposalPipeline.run, Selective the recompute branch of execute.
Pass(s, op) == [stage |-> s, op |-> op]

FirstProposalPlan ==
  <<Pass("EVIDENCE_RETRIEVAL", "start"), Pass("EVIDENCE_RETRIEVAL", "complete"),
    Pass("EVIDENCE_ASSESS", "start"), Pass("EVIDENCE_ASSESS", "complete"),
    Pass("PROPOSAL_GENERATION", "start"), Pass("PROPOSAL_GENERATION", "complete"),
    Pass("FINANCE_AND_RANK", "start"), Pass("FINANCE_AND_RANK", "complete"),
    Pass("CANDIDATE_AUDIT", "start"), Pass("CANDIDATE_AUDIT", "complete"),
    Pass("COMMIT_RESULT", "start")>>

\* Bug: the recompute forgets the checkpoint it has nothing to do for.
PlanWithoutAudit ==
  <<Pass("EVIDENCE_RETRIEVAL", "skip"), Pass("EVIDENCE_ASSESS", "skip"),
    Pass("PROPOSAL_GENERATION", "skip"),
    Pass("FINANCE_AND_RANK", "start"), Pass("FINANCE_AND_RANK", "complete"),
    Pass("COMMIT_RESULT", "start")>>

SelectivePlan ==
  <<Pass("EVIDENCE_RETRIEVAL", "skip"), Pass("EVIDENCE_ASSESS", "skip"),
    Pass("PROPOSAL_GENERATION", "skip"),
    Pass("FINANCE_AND_RANK", "start"), Pass("FINANCE_AND_RANK", "complete"),
    Pass("CANDIDATE_AUDIT", "skip"),
    Pass("COMMIT_RESULT", "start")>>

Plan(w) == IF run[w].source = NoWorkflow THEN FirstProposalPlan ELSE SelectivePlan

\* The places in its plan where w meets a checkpoint of ProgressStage.
Stops(w) == {k \in 1..Len(Plan(w)) : Plan(w)[k].stage \in ProgressStage}

AfterLast(w) == Len(Plan(w)) + 1

RuntimeInit ==
  /\ Init
  /\ Dispatch!DispatchInit
  /\ worker = [i \in Worker |-> Waiting]
  /\ executor = [w \in Workflow |-> [t \in Token |-> NoCall]]
  /\ crashes = 0
  /\ stalls = 0

-----------------------------------------------------------------------------
(* Commands of the project.                                                *)

\* A run is queued and its outbox row inserted in one transaction.
QueueRun(w) ==
  /\ \/ StartFirstProposal(w)
     \/ StartSelectiveRefresh(w)
     \/ \E source \in Workflow : StartSelectiveWithState(w, source)
  /\ Dispatch!InsertOutbox(w)
  /\ UNCHANGED workerVars

MoveHead ==
  /\ ConfirmOnboarding \/ SelectCandidate
  /\ UNCHANGED <<brokerVars, workerVars>>

DispatchMove == Dispatch!DispatchStep /\ UNCHANGED <<vars, workerVars>>

-----------------------------------------------------------------------------
(* DurableWorkflowWorker.handle.                                           *)

Holds(i, w) == worker[i].pc = "processing" /\ worker[i].delivery[1] = w

\* Any unacknowledged message may be delivered, also one that is being handled: its
\* acknowledgement deadline may have passed.  The claim is won: the request goes out.
DeliverAndClaim(i, m) ==
  LET w == m[1]
      token == stage[w].attempt + 1
  IN  /\ worker[i].pc = "idle"
      /\ m \in messages
      /\ Claim(w)
      /\ worker' = [worker EXCEPT ![i] = [pc |-> "processing", delivery |-> m,
                      token |-> token, retryable |-> FALSE]]
      /\ executor' = [executor EXCEPT ![w][token] =
                        [NoCall EXCEPT !.pc = "requested"]]
      /\ UNCHANGED <<brokerVars, crashes, stalls>>

DeliverAndMiss(i, m) ==
  /\ worker[i].pc = "idle"
  /\ m \in messages
  /\ \/ ClaimStale(m[1])
     \/ ClaimRefused(m[1]) /\ UNCHANGED vars
  /\ worker' = [worker EXCEPT ![i].pc = "checking", ![i].delivery = m]
  /\ UNCHANGED <<brokerVars, executor, crashes, stalls>>

Free(i) == worker' = [worker EXCEPT ![i] = Waiting]

\* 503: the broker keeps the message and delivers it again.
Nack(i) == Free(i) /\ UNCHANGED brokerVars

\* 204: the message is gone.  (Another handler of the same message may have been first.)
Ack(i) ==
  /\ Free(i)
  /\ messages' = messages \ {worker[i].delivery}
  /\ UNCHANGED <<outbox, dispatcher, dispatchFaults>>

\* Bug: a run that somebody works on needs no message any more.
IsWaiting(w) == run[w].status \notin TerminalStatus /\ stage[w].status = "READY"

\* is_pending_delivery, in a transaction of its own after the refused claim.
IsPending(w) ==
  run[w].status \notin TerminalStatus /\ stage[w].status \in {"READY", "RUNNING"}

CheckPending(i) ==
  /\ worker[i].pc = "checking"
  /\ IF IsPending(worker[i].delivery[1]) THEN Nack(i) ELSE Ack(i)
  /\ UNCHANGED <<vars, executor, crashes, stalls>>

\* Bug: the lease is renewed without looking at it.
KeepAnyLease(i) ==
  /\ worker[i].pc = "processing"
  /\ stage' = [stage EXCEPT ![worker[i].delivery[1]].lease = LeaseTicks]
  /\ UNCHANGED <<projectVars, run, progress, lapses, brokerVars, workerVars>>

KeepLease(i) ==
  /\ worker[i].pc = "processing"
  /\ Heartbeat(worker[i].delivery[1], worker[i].token)
  /\ UNCHANGED <<brokerVars, workerVars>>

\* An answer that has already come is not read any more.
HangUp(i) ==
  LET w == worker[i].delivery[1]
      token == worker[i].token
  IN  executor' = [executor EXCEPT ![w][token] =
                     IF executor[w][token].pc \in Answer THEN NoCall
                     ELSE executor[w][token]]

LoseLease(i) ==
  LET w == worker[i].delivery[1] IN
  /\ worker[i].pc = "processing"
  /\ \/ HeartbeatStale(w, worker[i].token)
     \/ ~ LeaseIsCurrent(w, worker[i].token) /\ UNCHANGED vars
  /\ worker' = [worker EXCEPT ![i].pc = "checking", ![i].token = 0]
  /\ HangUp(i)
  /\ UNCHANGED <<brokerVars, crashes, stalls>>

Fail(i, retryable) ==
  worker' = [worker EXCEPT ![i].pc = "failing", ![i].retryable = retryable]

\* The 600 second bound, the 590 second client timeout, a lease that expired before
\* the request was sent, a heartbeat that raised: the executor is left behind.
GiveUp(i) ==
  /\ worker[i].pc = "processing"
  /\ Fail(i, TRUE)
  /\ HangUp(i)
  /\ UNCHANGED <<vars, brokerVars, crashes, stalls>>

ReceiveAnswer(i) ==
  LET w == worker[i].delivery[1]
      call == executor[w][worker[i].token]
  IN  /\ worker[i].pc = "processing"
      /\ call.pc \in Answer
      /\ \/ call.pc = "done" /\ Ack(i)
         \/ call.pc \in {"rejected", "invalid"} /\ Fail(i, FALSE) /\ UNCHANGED brokerVars
         \/ call.pc = "unavailable" /\ Fail(i, TRUE) /\ UNCHANGED brokerVars
      /\ executor' = [executor EXCEPT ![w][worker[i].token] = NoCall]
      /\ UNCHANGED <<vars, crashes, stalls>>

\* record_failure: only a scheduled retry keeps the message; TERMINAL_FAILED,
\* STALE_DISCARDED, DUPLICATE_DISCARDED and LEASE_REJECTED all acknowledge it.
ReportFailure(i) ==
  LET w == worker[i].delivery[1]
      token == worker[i].token
      retryable == worker[i].retryable
  IN  /\ worker[i].pc = "failing"
      /\ \/ RecordRetry(w, token, retryable) /\ Nack(i)
         \/ RecordFailed(w, token, retryable) /\ Ack(i)
         \/ RecordStale(w, token) /\ Ack(i)
         \/ ~ FailureAccepted(w, token) /\ UNCHANGED vars /\ Ack(i)
      /\ UNCHANGED <<executor, crashes, stalls>>

\* The handler vanishes (or answers 500 because a transaction of its own failed).
WorkerCrash(i) ==
  /\ worker[i].pc # "idle"
  /\ crashes < MaxCrashes
  /\ crashes' = crashes + 1
  /\ Nack(i)
  /\ IF worker[i].pc = "processing" THEN HangUp(i) ELSE UNCHANGED executor
  /\ UNCHANGED <<vars, stalls>>

-----------------------------------------------------------------------------
(* PostgresFirstProposalExecutor.execute, one call per lease token.        *)

Go(w, t, call) == executor' = [executor EXCEPT ![w][t] = call]

\* Nobody is told when the worker that sent the request has turned away.
Finish(w, t, answer) ==
  Go(w, t, IF \E i \in Worker : Holds(i, w) /\ worker[i].token = t
           THEN [NoCall EXCEPT !.pc = answer]
           ELSE NoCall)

\* The place of the next checkpoint behind place k of the plan, or the end of the plan.
IsNextStop(w, k, next) ==
  /\ next \in Stops(w) \cup {AfterLast(w)}
  /\ next > k
  /\ \A stop \in Stops(w) : stop <= k \/ next <= stop

GoOn(w, t, k, inputs) ==
  \E next \in Stops(w) \cup {AfterLast(w)} :
    /\ IsNextStop(w, k, next)
    /\ Go(w, t, [pc |-> "running", step |-> next, inputs |-> inputs])

QuietExecutor == UNCHANGED <<brokerVars, worker, crashes, stalls>>

\* authorize, with no lock: only an early refusal.
Authorize(w, t) ==
  /\ executor[w][t].pc = "requested"
  /\ IF LeaseIsCurrent(w, t) /\ HeadIsCurrent(w)
     THEN Go(w, t, [NoCall EXCEPT !.pc = "reading"])
     ELSE Finish(w, t, "rejected")
  /\ UNCHANGED vars
  /\ QuietExecutor

\* Evidence, property and case facts are read with no lock held: they are those of
\* whatever head the project has by then.
ReadInputs(w, t) ==
  /\ executor[w][t].pc = "reading"
  /\ GoOn(w, t, 0, head)
  /\ UNCHANGED vars
  /\ QuietExecutor

Checkpoint(w, t) ==
  LET step == executor[w][t].step
      pass == Plan(w)[step]
  IN  /\ executor[w][t].pc = "running"
      /\ step # AfterLast(w)
      /\ \/ /\ Transition(w, t, pass.stage, pass.op)
            /\ GoOn(w, t, step, executor[w][t].inputs)
         \/ /\ ~ TransitionAccepted(w, t, pass.stage, pass.op)
            /\ Finish(w, t, "rejected")
            /\ UNCHANGED vars
      /\ QuietExecutor

Commit(w, t) ==
  /\ executor[w][t].pc = "running"
  /\ executor[w][t].step = AfterLast(w)
  /\ \/ PersistFirstProposalResult(w, t) /\ Finish(w, t, "done")
     \/ ~ AuthorizeMutation(w, t) /\ Finish(w, t, "rejected") /\ UNCHANGED vars
  /\ QuietExecutor

\* MCP, agents or the database are unavailable, or the API instance dies ("unavailable");
\* the pipeline raises ContractValidationError ("invalid").
ExecutorFails(w, t) ==
  /\ executor[w][t].pc \in {"requested", "reading", "running"}
  /\ Finish(w, t, "unavailable") \/ Finish(w, t, "invalid")
  /\ UNCHANGED vars
  /\ QuietExecutor

-----------------------------------------------------------------------------
\* Time: a lease nobody renews runs out; under a live holder only as a stall.
HolderAlive(w) ==
  \E i \in Worker : /\ worker[i].pc \in {"processing", "failing"}
                    /\ worker[i].delivery[1] = w
                    /\ worker[i].token = stage[w].token

Tick(w) ==
  /\ LeaseTick(w)
  /\ IF stage[w].lease = 1 /\ HolderAlive(w)
     THEN stalls < MaxStalls /\ stalls' = stalls + 1
     ELSE UNCHANGED stalls
  /\ UNCHANGED <<brokerVars, worker, executor, crashes>>

WorkerStep(i) ==
  \/ CheckPending(i)
  \/ KeepLease(i)
  \/ LoseLease(i)
  \/ GiveUp(i)
  \/ ReceiveAnswer(i)
  \/ ReportFailure(i)

ExecutorStep(w, t) ==
  Authorize(w, t) \/ ReadInputs(w, t) \/ Checkpoint(w, t) \/ Commit(w, t)

RuntimeNext ==
  \/ MoveHead
  \/ DispatchMove
  \/ \E w \in Workflow :
       \/ QueueRun(w)
       \/ Tick(w)
       \/ \E t \in Token : ExecutorStep(w, t) \/ ExecutorFails(w, t)
  \/ \E i \in Worker :
       \/ \E m \in messages : DeliverAndClaim(i, m) \/ DeliverAndMiss(i, m)
       \/ WorkerStep(i)
       \/ WorkerCrash(i)

\* The broker redelivers what was not acknowledged; handlers, executors and dispatchers
\* that did not fail go on; a lease without a holder runs out.
RuntimeFairness ==
  /\ \A d \in Dispatcher :
       WF_runtimeVars(Dispatch!DispatcherStep(d) /\ UNCHANGED <<vars, workerVars>>)
  /\ \A w \in Workflow :
       /\ WF_runtimeVars(Dispatch!ClaimExpires(w) /\ UNCHANGED <<vars, workerVars>>)
       /\ SF_runtimeVars(\E i \in Worker, m \in messages :
            m[1] = w /\ (DeliverAndClaim(i, m) \/ DeliverAndMiss(i, m)))
       /\ WF_runtimeVars(Tick(w) /\ ~ HolderAlive(w))
       /\ \A t \in Token : WF_runtimeVars(ExecutorStep(w, t))
  /\ \A i \in Worker :
       /\ WF_runtimeVars(CheckPending(i) \/ LoseLease(i))
       /\ WF_runtimeVars(ReceiveAnswer(i) \/ ReportFailure(i))

RuntimeSpec == RuntimeInit /\ [][RuntimeNext]_runtimeVars

FairRuntimeSpec == RuntimeSpec /\ RuntimeFairness

-----------------------------------------------------------------------------
(* Properties.                                                             *)

\* Workers and executors are clients the store expects: they use the lease tokens that
\* were issued to them and change nothing but through its operations.
StoreSpec == Spec

Finished == {"SUCCEEDED", "SKIPPED"}

\* A run is reported as SUCCEEDED only with every public checkpoint finished, whatever
\* attempts, leftovers of crashed attempts and late executors came before the commit.
SuccessShowsEveryCheckpoint ==
  \A w \in Workflow : run[w].status = "SUCCEEDED" =>
    \A s \in ProgressStage : progress[w][s].status \in Finished

\* A polling client never sees two checkpoints of a run in progress at once, and none
\* at all once the run has ended: two executors of one run never interleave there.
OneCheckpointAtATime ==
  \A w \in Workflow :
    LET open == {s \in ProgressStage : progress[w][s].status = "RUNNING"} IN
    /\ \A s, t \in open : s = t
    /\ run[w].status \in TerminalStatus => open = {}

\* A result is computed from the evidence and the terms of the head it is published
\* for, although they are read before the commit with no lock held (execution.py:142).
ResultFromItsOwnHead ==
  [][\A w \in Workflow :
       run'[w].status = "SUCCEEDED" /\ run[w].status # "SUCCEEDED" =>
         \E t \in Token :
           executor[w][t].pc = "running" /\ executor[w][t].inputs = run[w].head]_runtimeVars

\* The message of an unfinished run is acknowledged in one case only: by a handler that
\* reports a failure after its lease ran out (workflow_runtime.py:113).
UnfinishedRunKeepsItsMessage ==
  [][\A m \in messages \ messages' :
       run'[m[1]].status \in TerminalStatus \/
         \E i \in Worker :
           /\ worker[i].delivery = m
           /\ worker[i].pc = "failing"
           /\ ~ LeaseIsCurrent(m[1], worker[i].token)]_runtimeVars

\* No message, none to come, and nobody working on it.
Abandoned(w) ==
  /\ run[w].status \in ActiveStatus
  /\ outbox[w].status = "PUBLISHED"
  /\ \A m \in messages : m[1] # w

Ended(w) == run[w].status \in TerminalStatus

\* Every run that is queued ends, as agent-runtime-protocol.md:416 says.
EveryRunEnds == \A w \in Workflow : run[w].status = "QUEUED" ~> Ended(w)

\* What the code guarantees: a queued run ends whatever crashes, unless a lease ran out
\* under a live holder, and then it may also be left without message and owner.
EveryRunEndsUnlessStalled ==
  \A w \in Workflow :
    run[w].status = "QUEUED" ~> Ended(w) \/ (Abandoned(w) /\ stalls > 0)
=============================================================================
