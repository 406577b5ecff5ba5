------------------------------ MODULE AgentCalls ------------------------------
(***************************************************************************)
(* One logical agent call of the API (agents/runtime.py): up to three        *)
(* transport attempts, each with an invocation id and so a session of its    *)
(* own.  The Agent Runtime creates the session, runs the agent and deletes   *)
(* the session before it closes the stream; where the API cannot know that   *)
(* it did, it leaves the session to the cleanup, of which SessionCleanup     *)
(* says what it promises.                                                   *)
(*                                                                         *)
(* Time is the budget left until deadline_at: "ample" (more than the two     *)
(* seconds reserved for the cleanup), "reserve" or "over".                  *)
(***************************************************************************)
EXTENDS Naturals

CONSTANTS
  CallSession,           \* the sessions that attempts may get
  NoCallSession,         \* before its first attempt a call has none
  MaxTransportAttempts,  \* range(1, 4) of _invoke_with_transport_retries
  MaxCallFaults          \* bound: crashes, deletions and enqueues that fail

ASSUME CallAssumption ==
  /\ NoCallSession \notin CallSession
  /\ MaxTransportAttempts \in Nat \ {0}
  /\ MaxCallFaults \in Nat

VARIABLES
  callSession, callCleanup, callMissed,   \* see SessionCleanup
  call,        \* the API: attempt, its session and how far it is
  server,      \* the Agent Runtime: the request of each session and its answer
  budget,
  untracked,   \* sessions the API lost sight of without a row (see LoseSight)
  callFaults

Sessions == INSTANCE SessionCleanup WITH
  Session <- CallSession, session <- callSession,
  cleanup <- callCleanup, missed <- callMissed

sessionVars == <<callSession, callCleanup, callMissed>>

callVars == <<sessionVars, call, server, budget, untracked, callFaults>>

AtWork == {"arriving", "running", "deleting"}

Result == {"result", "quoted"}   \* "quoted": a result whose text holds a ``` fence

Failure == {"retryable", "terminal"}

CallTypeOK ==
  /\ Sessions!CleanupTypeOK
  /\ call \in
       [pc : {"idle", "ready", "waiting", "received", "accepted", "failed"},
        attempt : 0..MaxTransportAttempts, session : CallSession \cup {NoCallSession}]
  /\ server \in [CallSession ->
        [pc : {"none", "crashed", "closed"} \cup AtWork,
         reply : {"none"} \cup Result \cup Failure, reported : BOOLEAN]]
  /\ budget \in {"ample", "reserve", "over"}
  /\ untracked \subseteq CallSession
  /\ callFaults \in 0..MaxCallFaults

NoQuery == [pc |-> "none", reply |-> "none", reported |-> FALSE]

CallInit ==
  /\ Sessions!CleanupInit
  /\ callSession = [s \in CallSession |-> "none"]
  /\ call = [pc |-> "idle", attempt |-> 0, session |-> NoCallSession]
  /\ server = [s \in CallSession |-> NoQuery]
  /\ budget = "ample"
  /\ untracked = {}
  /\ callFaults = 0

CallFault == callFaults < MaxCallFaults /\ callFaults' = callFaults + 1

-----------------------------------------------------------------------------
\* A task that passed the checks of its contract and digest; one that does not is
\* refused before anything is sent.
Invoke ==
  /\ call.pc = "idle"
  /\ call' = [call EXCEPT !.pc = "ready"]
  /\ UNCHANGED <<sessionVars, server, budget, untracked, callFaults>>

Fresh(s) == server[s].pc = "none" /\ callCleanup[s] = "none"

\* Bug: a retry keeps the invocation id.
SameSession(s) ==
  IF call.attempt = 0 THEN Fresh(s) ELSE s = call.session

\* The invocation id, and so the session, of an attempt is new.
AttemptSession(s) == Fresh(s)

\* A retry waits first, for which it needs the reserve; no attempt starts too late.
TooLate == budget = "over" \/ (call.attempt > 0 /\ budget # "ample")

NoAttempt ==
  /\ call.pc = "ready"
  /\ TooLate
  /\ call' = [call EXCEPT !.pc = "failed"]
  /\ UNCHANGED <<sessionVars, server, budget, untracked, callFaults>>

SendQuery(s) ==
  /\ call.pc = "ready"
  /\ AttemptSession(s)
  /\ budget = "ample"
  /\ call' = [pc |-> "waiting", attempt |-> call.attempt + 1, session |-> s]
  /\ server' = [server EXCEPT ![s] = [NoQuery EXCEPT !.pc = "arriving"]]
  /\ UNCHANGED <<sessionVars, budget, untracked, callFaults>>

\* _enqueue_uncertain_cleanup: its own failure is swallowed.
LeaveToCleanup(s) ==
  \/ Sessions!Enqueue(s) /\ UNCHANGED <<untracked, callFaults>>
  \/ CallFault /\ untracked' = untracked \cup {s} /\ UNCHANGED sessionVars

\* _stream_timeout raises inside the try of _invoke_once: a session that was never
\* asked for gets a row.  (After the wait of a retry the reserve may be reached, too.)
NoTimeToQuery(s) ==
  /\ call.pc = "ready"
  /\ AttemptSession(s)
  /\ budget = "reserve"
  /\ call' = [pc |-> "failed", attempt |-> call.attempt + 1, session |-> s]
  /\ LeaveToCleanup(s)
  /\ UNCHANGED <<server, budget>>

\* Bug: only failures that are not retried are left to the cleanup.
LeaveIfTerminal(retryable) ==
  IF retryable
  THEN UNCHANGED <<sessionVars, untracked, callFaults>>
  ELSE LeaveToCleanup(call.session)

LeaveFailed(retryable) == LeaveToCleanup(call.session)

\* An exception in the stream: cleanup first, then the next attempt where it may help.
AttemptFails(retryable) ==
  /\ LeaveFailed(retryable)
  /\ call' = [call EXCEPT !.pc =
       IF retryable /\ budget = "ample" /\ call.attempt < MaxTransportAttempts
       THEN "ready" ELSE "failed"]
  /\ UNCHANGED <<server, budget>>

\* The connection breaks, the stream is no protocol, or the reserve is reached.
StreamBreaks == call.pc = "waiting" /\ \E retryable \in BOOLEAN : AttemptFails(retryable)

\* _raise_for_http_status.
ReceiveError ==
  /\ call.pc = "waiting"
  /\ server[call.session].pc = "closed"
  /\ server[call.session].reply \in Failure
  /\ AttemptFails(server[call.session].reply = "retryable")

ReceiveStream ==
  /\ call.pc = "waiting"
  /\ budget = "ample"
  /\ server[call.session].pc = "closed"
  /\ server[call.session].reply \in Result
  /\ call' = [call EXCEPT !.pc = "received"]
  /\ UNCHANGED <<sessionVars, server, budget, untracked, callFaults>>

\* Nothing in the API remembers the session; where one is left, nobody looks for it.
LoseSight(s) == untracked' = untracked \cup {s}

\* The checks before the report of a failed deletion is read: the deadline, then the
\* events in their order.
RejectBeforeReport ==
  /\ call.pc = "received"
  /\ budget = "over" \/ server[call.session].reply = "quoted"
  /\ call' = [call EXCEPT !.pc = "failed"]
  /\ LoseSight(call.session)
  /\ UNCHANGED <<sessionVars, server, budget, callFaults>>

ReadReport ==
  /\ call.pc = "received"
  /\ budget # "over" /\ server[call.session].reply = "result"
  /\ server[call.session].reported
  /\ call' = [call EXCEPT !.pc = "failed"]
  /\ LeaveToCleanup(call.session)
  /\ UNCHANGED <<server, budget>>

Accept ==
  /\ call.pc = "received"
  /\ budget # "over" /\ server[call.session].reply = "result"
  /\ ~ server[call.session].reported
  /\ call' = [call EXCEPT !.pc = "accepted"]
  /\ UNCHANGED <<sessionVars, server, budget, untracked, callFaults>>

\* The process that waits for the answer dies.
ApiCrash ==
  /\ call.pc \in {"waiting", "received"}
  /\ CallFault
  /\ call' = [call EXCEPT !.pc = "failed"]
  /\ LoseSight(call.session)
  /\ UNCHANGED <<sessionVars, server, budget>>

\* (After the end of the call its deadline means nothing.)
TimePasses ==
  /\ call.pc \notin {"idle", "accepted", "failed"}
  /\ budget # "over"
  /\ budget' = IF budget = "ample" THEN "reserve" ELSE "over"
  /\ UNCHANGED <<sessionVars, call, server, untracked, callFaults>>

-----------------------------------------------------------------------------
Serve(s, pc) == server' = [server EXCEPT ![s].pc = pc]

\* prepareRuntimeStreamMethod; a creation that fails, or returns another id, is
\* answered with an error and not undone.
CreateSession(s) ==
  /\ server[s].pc = "arriving"
  /\ \/ Serve(s, "running") /\ Sessions!RuntimeCreates(s)
     \/ /\ server' = [server EXCEPT ![s] =
             [server[s] EXCEPT !.pc = "closed", !.reply = "retryable"]]
        /\ Sessions!RuntimeCreates(s) \/ UNCHANGED sessionVars
  /\ UNCHANGED <<call, budget, untracked, callFaults>>

\* The agent, with its one repair, ends with a result or an error.
RunAgent(s) ==
  /\ server[s].pc = "running"
  /\ \E reply \in Result \cup Failure :
       server' = [server EXCEPT ![s] =
         [server[s] EXCEPT !.pc = "deleting", !.reply = reply]]
  /\ UNCHANGED <<sessionVars, call, budget, untracked, callFaults>>

\* Bug: a deletion that failed is only logged.
ReportNothing(s) == FALSE

\* The trailing error_code record; an earlier error is sent in its place.
ReportDeletion(s) == server[s].reply \in Result

\* runEphemeralSession's finally, before the stream is closed.
DeleteOwnSession(s) ==
  /\ server[s].pc = "deleting"
  /\ \/ Sessions!RuntimeDeletes(s) /\ Serve(s, "closed") /\ UNCHANGED callFaults
     \/ /\ server' = [server EXCEPT ![s] =
             [server[s] EXCEPT !.pc = "closed", !.reported = ReportDeletion(s)]]
        /\ \/ callSession[s] = "gone" /\ UNCHANGED callFaults
           \/ callSession[s] # "gone" /\ CallFault
        /\ UNCHANGED sessionVars
  /\ UNCHANGED <<call, budget, untracked>>

ServerCrash(s) ==
  /\ server[s].pc \in AtWork
  /\ CallFault
  /\ Serve(s, "crashed")
  /\ UNCHANGED <<sessionVars, call, budget, untracked>>

-----------------------------------------------------------------------------
ClientStep ==
  \/ NoAttempt
  \/ \E s \in CallSession : SendQuery(s) \/ NoTimeToQuery(s)
  \/ StreamBreaks
  \/ ReceiveError
  \/ ReceiveStream
  \/ RejectBeforeReport
  \/ ReadReport
  \/ Accept

ServerStep(s) == CreateSession(s) \/ RunAgent(s) \/ DeleteOwnSession(s)

CallNext ==
  \/ Invoke
  \/ ClientStep
  \/ ApiCrash
  \/ TimePasses
  \/ \E s \in CallSession :
       \/ ServerStep(s)
       \/ ServerCrash(s)
       \/ /\ Sessions!CleanupStep(s)
          /\ UNCHANGED <<call, server, budget, untracked, callFaults>>

\* Neither side waits for ever (timeouts, AbortSignal) and the cleanup settles its rows.
CallFairness ==
  /\ WF_callVars(ClientStep)
  /\ \A s \in CallSession :
       WF_callVars(ServerStep(s)) /\ WF_sessionVars(Sessions!Settle(s))

CallSpec == CallInit /\ [][CallNext]_callVars /\ CallFairness

-----------------------------------------------------------------------------
\* An answer is used only after its session was deleted: the stream is closed, without
\* a report, only then (docs/contracts/agent-runtime-protocol.md:105).
AcceptedMeansDeleted == call.pc = "accepted" => callSession[call.session] = "gone"

\* The cleanup never works on the session of an attempt the API still waits for or
\* whose answer it used: a retry has a session of its own (runtime.py:287).
CleanupIsForGivenUp ==
  \A s \in CallSession :
    callCleanup[s] # "none" /\ call.session = s => call.pc \in {"ready", "failed"}

\* Every session the Agent Runtime created is deleted in the end, by the Runtime or by
\* the cleanup, or is a dead letter, whatever fails in between - except where the API
\* died or could not write the row, did not read on to the report, or the session was
\* created after the cleanup had looked for it.
EverySessionEnds ==
  \A s \in CallSession :
    callSession[s] = "alive" ~>
      \/ callSession[s] = "gone"
      \/ callCleanup[s] = "dead"
      \/ s \in untracked \cup callMissed
=============================================================================
