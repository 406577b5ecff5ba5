-------------------------- MODULE AgentSessionCleanup --------------------------
(***************************************************************************)
(* The other use of workflow_outbox: agent sessions whose deletion failed or *)
(* is uncertain.  The Scheduler lets consumers claim a row for 45 seconds,   *)
(* delete the session and mark the row; five failed attempts, or a refusal,  *)
(* make it a dead letter, which an operator may requeue with a request id    *)
(* (worker/outbox.py, agent_cleanup.py, dead_letter.py).                     *)
(***************************************************************************)
EXTENDS Naturals

CONSTANTS
  Session,             \* the agent sessions that may need a cleanup
  NoSession,           \* an idle consumer or operator has none
  Consumer,            \* concurrent runs of the cleanup endpoint
  Operator,            \* concurrent reprocess commands
  Request,             \* bound: the request ids operators use
  MaxCleanupAttempts,  \* MAX_CLEANUP_ATTEMPTS of agent_cleanup.py
  MaxFaults            \* bound: crashes and claims that outlive their 45 seconds

ASSUME CleanupAssumption ==
  /\ NoSession \notin Session
  /\ MaxCleanupAttempts \in Nat \ {0}
  /\ MaxFaults \in Nat

VARIABLES
  session,   \* in the Agent Runtime: "none" (not created), "alive" or "gone"
  row,       \* the AGENT_SESSION_CLEANUP rows; claims names the fresh claim tokens
  consumer,  \* cleanup_one: the claimed row and what its delete call returned
  operator,  \* reprocess, between its look-up and its row lock
  events,    \* outbox_reprocess_events
  missed,    \* the sessions whose delete call was answered with 404
  faults

vars == <<session, row, consumer, operator, events, missed, faults>>

Retryable == "AGENT_CLEANUP_RETRY_EXHAUSTED"

Refused == "AGENT_CLEANUP_SCOPE_INVALID"   \* or ..._PAYLOAD_INVALID

CleanupRow ==
  [status : {"absent", "PENDING", "PUBLISHING", "PUBLISHED", "DEAD_LETTER"},
   attempts : Nat, claims : Nat, token : Nat, expired : BOOLEAN, delayed : BOOLEAN,
   failure : {"none", Retryable, Refused}]

TypeOK ==
  /\ session \in [Session -> {"none", "alive", "gone"}]
  /\ row \in [Session -> CleanupRow]
  /\ consumer \in [Consumer ->
        [pc : {"idle", "claimed", "deleted", "refused", "unreachable"},
         session : Session \cup {NoSession}, token : Nat, attempts : Nat]]
  /\ operator \in [Operator ->
        [request : Request \cup {"none"}, session : Session \cup {NoSession}]]
  /\ events \subseteq [request : Request, session : Session]
  /\ missed \subseteq Session
  /\ faults \in 0..MaxFaults

NoCleanup == [status |-> "absent", attempts |-> 0, claims |-> 0, token |-> 0,
          expired |-> FALSE, delayed |-> FALSE, failure |-> "none"]

Idle == [pc |-> "idle", session |-> NoSession, token |-> 0, attempts |-> 0]

AtRest == [request |-> "none", session |-> NoSession]

Init ==
  /\ session \in [Session -> {"none", "alive", "gone"}]
  /\ row = [s \in Session |-> NoCleanup]
  /\ consumer = [c \in Consumer |-> Idle]
  /\ operator = [o \in Operator |-> AtRest]
  /\ events = {}
  /\ missed = {}
  /\ faults = 0

Fault == faults < MaxFaults /\ faults' = faults + 1

-----------------------------------------------------------------------------
\* ON CONFLICT DO NOTHING; the call that failed (AgentCalls) leaves its session in
\* whatever state it is.
EnqueueSessionDelete(s) ==
  /\ row[s].status = "absent"
  /\ row' = [row EXCEPT ![s].status = "PENDING"]
  /\ UNCHANGED <<session, consumer, operator, events, missed, faults>>

\* What the Agent Runtime does with the session on its own, late or not.
RuntimeStep(s) ==
  /\ \/ session[s] = "none" /\ session' = [session EXCEPT ![s] = "alive"]
     \/ session[s] = "alive" /\ session' = [session EXCEPT ![s] = "gone"]
  /\ UNCHANGED <<row, consumer, operator, events, missed, faults>>

\* Bug: a claim whose holder vanished is never taken over.
OutstandingWhilePending(s) == row[s].status = "PENDING"

\* claim_next; unlike the dispatcher's claim it does not look at available_at.
Outstanding(s) ==
  \/ row[s].status = "PENDING"
  \/ row[s].status = "PUBLISHING" /\ row[s].expired

ClaimNext(c, s) ==
  LET token == row[s].claims + 1 IN
  /\ consumer[c].pc = "idle"
  /\ Outstanding(s)
  /\ row' = [row EXCEPT ![s] = [row[s] EXCEPT
       !.status = "PUBLISHING", !.attempts = row[s].attempts + 1, !.claims = token,
       !.token = token, !.expired = FALSE]]
  /\ consumer' = [consumer EXCEPT ![c] =
       [pc |-> "claimed", session |-> s, token |-> token,
        attempts |-> row[s].attempts + 1]]
  /\ UNCHANGED <<session, operator, events, missed, faults>>

\* The delete call: 2xx or 404, a refusal (4xx, wrong resource or payload), or a
\* transport error, after which the session may be gone.
Delete(c) ==
  LET s == consumer[c].session
      Return(pc) == consumer' = [consumer EXCEPT ![c].pc = pc]
      Removed == session' = [session EXCEPT ![s] = IF @ = "alive" THEN "gone" ELSE @]
      NotFound == IF session[s] = "none" THEN {s} ELSE {}
  IN  /\ consumer[c].pc = "claimed"
      /\ \/ Return("deleted") /\ Removed /\ missed' = missed \cup NotFound
         \/ Return("refused") /\ UNCHANGED <<session, missed>>
         \/ Return("unreachable") /\ (UNCHANGED session \/ Removed) /\ UNCHANGED missed
      /\ UNCHANGED <<row, operator, events, faults>>

\* Bug: the claim token is not compared.
OwnsAnyCleanup(c) == row[consumer[c].session].status # "absent"

\* The WHERE clause of mark_published, release_for_retry and mark_dead_letter.
OwnsCleanup(c) ==
  LET r == row[consumer[c].session] IN
  r.status = "PUBLISHING" /\ r.token = consumer[c].token

\* A consumer that lost its claim raises RuntimeError and writes nothing.  (The delay of
\* a settled row means nothing and is cleared here.)
EndCleanup(c, status, failure, delayed) ==
  LET s == consumer[c].session IN
  /\ row' = IF OwnsCleanup(c)
            THEN [row EXCEPT ![s] = [row[s] EXCEPT
                    !.status = status, !.token = 0, !.expired = FALSE,
                    !.failure = failure, !.delayed = delayed]]
            ELSE row
  /\ consumer' = [consumer EXCEPT ![c] = Idle]
  /\ UNCHANGED <<session, operator, events, missed, faults>>

\* Bug: an unanswered delete call counts as a deletion.
MarkDeletedUnanswered(c) ==
  consumer[c].pc \in {"deleted", "unreachable"} /\ EndCleanup(c, "PUBLISHED", "none", FALSE)

MarkDeleted(c) ==
  consumer[c].pc = "deleted" /\ EndCleanup(c, "PUBLISHED", "none", FALSE)

DeadLetterRefused(c) ==
  consumer[c].pc = "refused" /\ EndCleanup(c, "DEAD_LETTER", Refused, FALSE)

DeadLetterExhausted(c) ==
  /\ consumer[c].pc = "unreachable"
  /\ consumer[c].attempts >= MaxCleanupAttempts
  /\ EndCleanup(c, "DEAD_LETTER", Retryable, FALSE)

ReleaseForRetry(c) ==
  /\ consumer[c].pc = "unreachable"
  /\ consumer[c].attempts < MaxCleanupAttempts
  /\ EndCleanup(c, "PENDING", "none", TRUE)

ConsumerCrash(c) ==
  /\ consumer[c].pc # "idle"
  /\ Fault
  /\ consumer' = [consumer EXCEPT ![c] = Idle]
  /\ UNCHANGED <<session, row, operator, events, missed>>

CleanupClaimExpires(s) ==
  /\ row[s].status = "PUBLISHING"
  /\ ~ row[s].expired
  /\ IF \E c \in Consumer : consumer[c].session = s /\ OwnsCleanup(c)
     THEN Fault
     ELSE UNCHANGED faults
  /\ row' = [row EXCEPT ![s].expired = TRUE]
  /\ UNCHANGED <<session, consumer, operator, events, missed>>

\* available_at of a released row is reached.
DelayElapses(s) ==
  /\ row[s].delayed
  /\ row' = [row EXCEPT ![s].delayed = FALSE]
  /\ UNCHANGED <<session, consumer, operator, events, missed, faults>>

-----------------------------------------------------------------------------
\* reprocess looks its request id up with no lock ...  (Bound: the row was listed as a
\* dead letter when the command was given.)
LookUpRequest(o, request, s) ==
  /\ operator[o] = AtRest
  /\ row[s].status = "DEAD_LETTER"
  /\ \A e \in events : e.request # request    \* a known one is replayed or refused
  /\ operator' = [operator EXCEPT ![o] = [request |-> request, session |-> s]]
  /\ UNCHANGED <<session, row, consumer, events, missed, faults>>

\* ... and locks the row: its failure code must be the expected, requeueable one and
\* request_id is UNIQUE, or the transaction has no effect.
MayRequeue(o) ==
  /\ row[operator[o].session].failure = Retryable
  /\ row[operator[o].session].status = "DEAD_LETTER"
  /\ \A e \in events : e.request # operator[o].request

Reprocess(o) ==
  LET s == operator[o].session IN
  /\ operator[o] # AtRest
  /\ IF MayRequeue(o)
     THEN /\ events' = events \cup {[request |-> operator[o].request, session |-> s]}
          /\ row' = [row EXCEPT ![s] = [row[s] EXCEPT
               !.status = "PENDING", !.attempts = 0, !.failure = "none",
               !.token = 0, !.expired = FALSE, !.delayed = FALSE]]
     ELSE UNCHANGED <<events, row>>
  /\ operator' = [operator EXCEPT ![o] = AtRest]
  /\ UNCHANGED <<session, consumer, missed, faults>>

-----------------------------------------------------------------------------
CleanupStep(c) ==
  \/ \E s \in Session : ClaimNext(c, s)
  \/ Delete(c)
  \/ MarkDeleted(c)
  \/ DeadLetterRefused(c)
  \/ DeadLetterExhausted(c)
  \/ ReleaseForRetry(c)

Next ==
  \/ \E s \in Session :
       \/ EnqueueSessionDelete(s)
       \/ RuntimeStep(s)
       \/ CleanupClaimExpires(s)
       \/ DelayElapses(s)
  \/ \E c \in Consumer : CleanupStep(c) \/ ConsumerCrash(c)
  \/ \E o \in Operator :
       \/ \E request \in Request, s \in Session : LookUpRequest(o, request, s)
       \/ Reprocess(o)

Spec == Init /\ [][Next]_vars

\* The Scheduler keeps calling, calls that did not crash go on, time passes for a claim.
Fairness ==
  /\ \A c \in Consumer : WF_vars(CleanupStep(c))
  /\ \A s \in Session : WF_vars(CleanupClaimExpires(s))

FairSpec == Spec /\ Fairness

-----------------------------------------------------------------------------
\* A settled row is only reopened by a reprocess command with a request id of its own:
\* no late consumer and no repeated or concurrent command requeues it.
SettledRowsStay ==
  [][\A s \in Session :
       row[s].status \in {"PUBLISHED", "DEAD_LETTER"} /\ row'[s] # row[s] =>
         /\ row[s].failure = Retryable
         /\ \E e \in events' \ events : e.session = s]_vars

Reported(status) ==
  CASE status = "absent" -> "none"
    [] status \in {"PENDING", "PUBLISHING"} -> "pending"
    [] status = "PUBLISHED" -> "done"
    [] status = "DEAD_LETTER" -> "dead"

Promise == INSTANCE SessionCleanup WITH
  cleanup <- [s \in Session |-> Reported(row[s].status)]

\* The rows, claims and retries keep what SessionCleanup promises: a row is done only
\* for a session that was deleted or not found, whichever of the consumers that held
\* its claim got through, and every row is settled (agent_cleanup.py:112, main.py:270).
CleanupPromise == Promise!CleanupSpec
=============================================================================
