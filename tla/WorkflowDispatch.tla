--------------------------- MODULE WorkflowDispatch ---------------------------
(***************************************************************************)
(* The transactional outbox between a queued run and Pub/Sub: the row is    *)
(* inserted with the run, and dispatchers (the API after its commit, the     *)
(* Scheduler's drain) claim it for 45 seconds, publish it and mark it.       *)
(*                                                                         *)
(* A claim may run out while its holder is alive, so two dispatchers can be  *)
(* publishing the same row; the claim token decides who may write it.  The   *)
(* five seconds a released row is withheld for are not modelled: it is only  *)
(* picked up later.                                                         *)
(***************************************************************************)
EXTENDS Naturals

CONSTANTS
  Run,                \* the runs that may be queued
  NoRunToPublish,     \* an idle dispatcher has no run
  Dispatcher,         \* concurrent calls of dispatch
  MaxDispatchFaults   \* bound: failed publishes, crashes, claims outlived

ASSUME DispatchAssumption ==
  NoRunToPublish \notin Run /\ MaxDispatchFaults \in Nat

VARIABLES
  outbox,          \* the workflow_outbox row of each run
  dispatcher,      \* where each dispatcher is
  messages,        \* what the broker accepted and nobody acknowledged yet
  dispatchFaults

dispatchVars == <<outbox, dispatcher, messages, dispatchFaults>>

NoRow == [status |-> "absent", attempts |-> 0, expired |-> FALSE]

Resting == [pc |-> "idle", run |-> NoRunToPublish, claim |-> 0]

DispatchTypeOK ==
  /\ outbox \in [Run ->
        [status : {"absent", "PENDING", "PUBLISHING", "PUBLISHED"},
         attempts : Nat, expired : BOOLEAN]]
  /\ dispatcher \in [Dispatcher ->
        [pc : {"idle", "claimed", "failed", "sent"},
         run : Run \cup {NoRunToPublish}, claim : Nat]]
  /\ messages \subseteq Run \X Nat
  /\ dispatchFaults \in 0..MaxDispatchFaults

DispatchInit ==
  /\ outbox = [r \in Run |-> NoRow]
  /\ dispatcher = [d \in Dispatcher |-> Resting]
  /\ messages = {}
  /\ dispatchFaults = 0

-----------------------------------------------------------------------------
InsertOutbox(r) ==
  /\ outbox[r].status = "absent"
  /\ outbox' = [outbox EXCEPT ![r].status = "PENDING"]
  /\ UNCHANGED <<dispatcher, messages, dispatchFaults>>

\* Bug: a row that is being published may be claimed at once.
ClaimableAtOnce(r) == outbox[r].status \in {"PENDING", "PUBLISHING"}

\* Bug: a claim whose holder vanished is never taken over.
ClaimableWhilePending(r) == outbox[r].status = "PENDING"

Claimable(r) ==
  \/ outbox[r].status = "PENDING"
  \/ outbox[r].status = "PUBLISHING" /\ outbox[r].expired

\* attempts + 1 also names the fresh claim token.
ClaimOutbox(d, r) ==
  /\ dispatcher[d].pc = "idle"
  /\ Claimable(r)
  /\ outbox' = [outbox EXCEPT ![r] = [status |-> "PUBLISHING",
                  attempts |-> outbox[r].attempts + 1, expired |-> FALSE]]
  /\ dispatcher' = [dispatcher EXCEPT ![d] = [pc |-> "claimed", run |-> r,
                      claim |-> outbox[r].attempts + 1]]
  /\ UNCHANGED <<messages, dispatchFaults>>

Publish(d) ==
  /\ dispatcher[d].pc = "claimed"
  /\ messages' = messages \cup {<<dispatcher[d].run, dispatcher[d].claim>>}
  /\ dispatcher' = [dispatcher EXCEPT ![d].pc = "sent"]
  /\ UNCHANGED <<outbox, dispatchFaults>>

DispatchFault ==
  /\ dispatchFaults < MaxDispatchFaults
  /\ dispatchFaults' = dispatchFaults + 1

\* publish raised, or its result did not come within ten seconds: the broker may
\* have accepted the message all the same.
PublishFails(d) ==
  /\ dispatcher[d].pc = "claimed"
  /\ DispatchFault
  /\ \/ messages' = messages
     \/ messages' = messages \cup {<<dispatcher[d].run, dispatcher[d].claim>>}
  /\ dispatcher' = [dispatcher EXCEPT ![d].pc = "failed"]
  /\ UNCHANGED outbox

\* Bug: the row is found by its id alone.
OwnsEveryClaim(d) == dispatcher[d].run # NoRunToPublish

\* The WHERE clause of both UPDATEs that end a claim.
OwnsClaim(d) ==
  LET row == outbox[dispatcher[d].run] IN
  row.status = "PUBLISHING" /\ row.attempts = dispatcher[d].claim

EndClaim(d, status) ==
  /\ outbox' = IF OwnsClaim(d)
               THEN [outbox EXCEPT ![dispatcher[d].run] =
                       [status |-> status, attempts |-> @.attempts, expired |-> FALSE]]
               ELSE outbox
  /\ dispatcher' = [dispatcher EXCEPT ![d] = Resting]
  /\ UNCHANGED <<messages, dispatchFaults>>

\* Bug: a status the column does not know.
ReleaseAsReady(d) == dispatcher[d].pc = "failed" /\ EndClaim(d, "READY")

Release(d) == dispatcher[d].pc = "failed" /\ EndClaim(d, "PENDING")

MarkPublished(d) == dispatcher[d].pc = "sent" /\ EndClaim(d, "PUBLISHED")

DispatcherCrash(d) ==
  /\ dispatcher[d].pc # "idle"
  /\ DispatchFault
  /\ dispatcher' = [dispatcher EXCEPT ![d] = Resting]
  /\ UNCHANGED <<outbox, messages>>

\* 45 seconds pass; that the holder is still at work then is a fault.
ClaimExpires(r) ==
  /\ outbox[r].status = "PUBLISHING"
  /\ ~ outbox[r].expired
  /\ IF \E d \in Dispatcher : dispatcher[d].run = r /\ OwnsClaim(d)
     THEN DispatchFault
     ELSE UNCHANGED dispatchFaults
  /\ outbox' = [outbox EXCEPT ![r].expired = TRUE]
  /\ UNCHANGED <<dispatcher, messages>>

\* The subscriber acknowledges a message (WorkflowRuntime says when).
Acknowledge(m) ==
  /\ m \in messages
  /\ messages' = messages \ {m}
  /\ UNCHANGED <<outbox, dispatcher, dispatchFaults>>

DispatcherStep(d) ==
  \/ \E r \in Run : ClaimOutbox(d, r)
  \/ Publish(d)
  \/ Release(d)
  \/ MarkPublished(d)

DispatchStep ==
  \/ \E d \in Dispatcher : DispatcherStep(d) \/ PublishFails(d) \/ DispatcherCrash(d)
  \/ \E r \in Run : ClaimExpires(r)

DispatchNext ==
  \/ DispatchStep
  \/ \E r \in Run : InsertOutbox(r)
  \/ \E m \in messages : Acknowledge(m)

\* The Scheduler calls the drain again and again, a call that did not crash goes on,
\* and time passes for a claim nobody holds any more.
DispatchFairness ==
  /\ \A d \in Dispatcher : WF_dispatchVars(DispatcherStep(d))
  /\ \A r \in Run : WF_dispatchVars(ClaimExpires(r))

DispatchSpec == DispatchInit /\ [][DispatchNext]_dispatchVars /\ DispatchFairness

-----------------------------------------------------------------------------
\* A row that was marked as published is never sent again: a dispatcher whose claim
\* was taken over cannot release or re-mark it (dispatch.py, the two WHERE clauses).
PublishedIsFinal ==
  [][\A r \in Run :
       outbox[r].status = "PUBLISHED" => outbox'[r] = outbox[r]]_dispatchVars

\* Delivery is at-least-once only because of faults: each extra claim of a row, and so
\* each duplicate of its message, is paid for by a failure, a crash or an outlived claim.
DuplicatesComeFromFaults ==
  \A r \in Run : outbox[r].attempts <= 1 + dispatchFaults

\* Every queued run reaches the broker in the end, whatever its dispatchers went
\* through: a claim whose holder vanished is taken over (dispatch.py:92, main.py:244).
EveryRunIsSent ==
  \A r \in Run :
    outbox[r].status = "PENDING" ~> \E m \in messages : m[1] = r
=============================================================================
