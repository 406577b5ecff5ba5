----------------------------- MODULE Outbox_proofs -----------------------------
(***************************************************************************)
(* Theorems about Outbox, for any number of sessions, attempts, messages and *)
(* faults.  The parts behave as their own modules say, so that what is       *)
(* proved of them holds of the whole.  Those of the dispatch and the cleanup *)
(* are proved in modules of their own; the agent calls come first here: no   *)
(* answer is used before its session was deleted, and the cleanup only works *)
(* on the sessions of attempts that were given up.                          *)
(***************************************************************************)
EXTENDS Outbox, WorkflowDispatch_proofs, AgentSessionCleanup_proofs

-----------------------------------------------------------------------------
(* The calls of agents.                                                    *)

\* An attempt is left before each one that is started.
AttemptIsLeft ==
  /\ call.pc = "idle" => call.attempt = 0
  /\ call.pc = "ready" => call.attempt < MaxTransportAttempts

\* The Runtime closes the stream of a result without a report only after the deletion.
QuietCloseMeansDeleted ==
  \A s \in CallSession :
    server[s].pc = "closed" /\ server[s].reply \in Result /\ ~ server[s].reported =>
      callSession[s] = "gone"

\* What the API has received is the whole stream of its own session.
ReceivedIsClosed ==
  /\ call.pc \in {"waiting", "received", "accepted"} => call.session \in CallSession
  /\ call.pc \in {"received", "accepted"} =>
       server[call.session].pc = "closed" /\ server[call.session].reply \in Result
  /\ call.pc = "accepted" => ~ server[call.session].reported

CallInvariant ==
  /\ CallTypeOK
  /\ AttemptIsLeft
  /\ QuietCloseMeansDeleted
  /\ ReceivedIsClosed
  /\ CleanupIsForGivenUp

-----------------------------------------------------------------------------
(* What may happen to the sessions.                                        *)

GoneStays ==
  \A s \in CallSession : callSession[s] = "gone" => callSession'[s] = "gone"

LEMMA SessionsKept ==
  ASSUME Sessions!CleanupTypeOK, UNCHANGED sessionVars
  PROVE  Sessions!CleanupTypeOK' /\ GoneStays
  BY DEF sessionVars, Sessions!CleanupTypeOK, GoneStays

LEMMA RuntimeMoves ==
  ASSUME Sessions!CleanupTypeOK, NEW s \in CallSession,
         Sessions!RuntimeCreates(s) \/ Sessions!RuntimeDeletes(s)
  PROVE  /\ Sessions!CleanupTypeOK' /\ GoneStays
         /\ UNCHANGED callCleanup
         /\ Sessions!RuntimeDeletes(s) => callSession'[s] = "gone"
  BY DEF Sessions!CleanupTypeOK, Sessions!RuntimeCreates, Sessions!RuntimeDeletes, GoneStays

LEMMA Enqueued ==
  ASSUME Sessions!CleanupTypeOK, NEW s \in CallSession, Sessions!Enqueue(s)
  PROVE  Sessions!CleanupTypeOK' /\ GoneStays
  BY DEF Sessions!CleanupTypeOK, Sessions!Enqueue, Sessions!Becomes, GoneStays

\* The cleanup works on the sessions it was left.
LEMMA CleanupStepKeeps ==
  ASSUME Sessions!CleanupTypeOK, NEW s \in CallSession, Sessions!CleanupStep(s)
  PROVE  /\ Sessions!CleanupTypeOK' /\ GoneStays
         /\ \A t \in CallSession : callCleanup'[t] # "none" => callCleanup[t] # "none"
<1>1. CASE Sessions!Remove(s)
  BY <1>1 DEF Sessions!CleanupTypeOK, Sessions!Remove, GoneStays
<1>2. CASE Sessions!Finish(s) \/ Sessions!GiveUp(s) \/ Sessions!Requeue(s)
  BY <1>2 DEF Sessions!CleanupTypeOK, Sessions!Finish, Sessions!GiveUp, Sessions!Requeue,
              Sessions!Becomes, GoneStays
<1>3. QED
  BY <1>1, <1>2 DEF Sessions!CleanupStep, Sessions!Settle

\* Whether the row could be written or not.
LEMMA LeftToCleanup ==
  ASSUME CallTypeOK, NEW s \in CallSession, LeaveToCleanup(s)
  PROVE  /\ Sessions!CleanupTypeOK' /\ GoneStays
         /\ untracked' \subseteq CallSession /\ callFaults' \in 0..MaxCallFaults
<1>1. /\ Sessions!CleanupTypeOK /\ untracked \subseteq CallSession
      /\ callFaults \in 0..MaxCallFaults /\ MaxCallFaults \in Nat
  BY CallAssumption DEF CallTypeOK
<1>2. CASE Sessions!Enqueue(s) /\ UNCHANGED <<untracked, callFaults>>
  BY <1>1, <1>2, Enqueued
<1>3. CASE CallFault /\ untracked' = untracked \cup {s} /\ UNCHANGED sessionVars
  <2>1. callFaults' \in 0..MaxCallFaults
    BY <1>1, <1>3 DEF CallFault
  <2>2. Sessions!CleanupTypeOK' /\ GoneStays
    BY <1>1, <1>3, SessionsKept
  <2>3. QED
    BY <1>1, <1>3, <2>1, <2>2
<1>4. QED
  BY <1>2, <1>3 DEF LeaveToCleanup

-----------------------------------------------------------------------------
(* The steps of the API.                                                   *)

Call ==
  [pc : {"idle", "ready", "waiting", "received", "accepted", "failed"},
   attempt : 0..MaxTransportAttempts, session : CallSession \cup {NoCallSession}]

Query ==
  [pc : {"none", "crashed", "closed"} \cup AtWork,
   reply : {"none"} \cup Result \cup Failure, reported : BOOLEAN]

LEMMA CallTypes ==
  CallTypeOK <=>
    /\ Sessions!CleanupTypeOK
    /\ call \in Call
    /\ server \in [CallSession -> Query]
    /\ budget \in {"ample", "reserve", "over"}
    /\ untracked \subseteq CallSession
    /\ callFaults \in 0..MaxCallFaults
  BY DEF CallTypeOK, Call, Query

\* The API gives an attempt up, and its session with it or not.
LEMMA CallGivenUp ==
  ASSUME CallInvariant, Sessions!CleanupTypeOK', GoneStays, UNCHANGED <<server, budget>>,
         untracked' \subseteq CallSession, callFaults' \in 0..MaxCallFaults,
         call' \in Call, call'.pc \in {"ready", "failed"},
         call'.pc = "ready" => call'.attempt < MaxTransportAttempts
  PROVE  CallInvariant'
<1>1. CallTypeOK'
  BY DEF CallInvariant, CallTypeOK, Call
<1>2. AttemptIsLeft' /\ ReceivedIsClosed'
  BY DEF AttemptIsLeft, ReceivedIsClosed
<1>3. QuietCloseMeansDeleted'
  BY DEF CallInvariant, QuietCloseMeansDeleted, GoneStays
<1>4. CleanupIsForGivenUp'
  BY DEF CleanupIsForGivenUp
<1>5. QED
  BY <1>1, <1>2, <1>3, <1>4 DEF CallInvariant

\* What changes nothing but the API's own view.
LEMMA CallMoves ==
  ASSUME CallInvariant, UNCHANGED <<sessionVars, server>>,
         budget' \in {"ample", "reserve", "over"},
         untracked' \subseteq CallSession, callFaults' \in 0..MaxCallFaults,
         call' \in Call, call'.attempt = call.attempt, call'.session = call.session,
         AttemptIsLeft', ReceivedIsClosed',
         call.pc \in {"ready", "failed"} => call'.pc \in {"ready", "failed"}
  PROVE  CallInvariant'
<1>1. Sessions!CleanupTypeOK'
  BY SessionsKept DEF CallInvariant, CallTypeOK
<1>2. CallTypeOK'
  BY <1>1 DEF CallInvariant, CallTypeOK, Call
<1>3. QuietCloseMeansDeleted'
  BY DEF CallInvariant, QuietCloseMeansDeleted, sessionVars
<1>4. CleanupIsForGivenUp'
  BY DEF CallInvariant, CleanupIsForGivenUp, sessionVars
<1>5. QED
  BY <1>2, <1>3, <1>4 DEF CallInvariant

LEMMA CallTyped ==
  ASSUME CallInvariant
  PROVE  /\ call \in Call /\ MaxTransportAttempts \in Nat /\ call.attempt \in Nat
         /\ call.attempt <= MaxTransportAttempts
         /\ server \in [CallSession -> Query]
         /\ untracked \subseteq CallSession /\ callFaults \in 0..MaxCallFaults
         /\ budget \in {"ample", "reserve", "over"}
         /\ Sessions!CleanupTypeOK
<1>1. call \in Call
  BY CallTypes DEF CallInvariant
<1>2. call.attempt \in 0..MaxTransportAttempts /\ MaxTransportAttempts \in Nat
  BY <1>1, CallAssumption DEF Call
<1>3. QED
  BY <1>1, <1>2, CallTypes DEF CallInvariant

LEMMA FaultTyped ==
  ASSUME CallInvariant, CallFault
  PROVE  callFaults' \in 0..MaxCallFaults
<1>1. callFaults \in 0..MaxCallFaults /\ MaxCallFaults \in Nat
  BY CallTyped, CallAssumption
<1>2. callFaults < MaxCallFaults /\ callFaults' = callFaults + 1
  BY DEF CallFault
<1>3. QED
  BY <1>1, <1>2

\* Steps that change how far the call is, and its budget.
LEMMA ProgressStep ==
  ASSUME CallInvariant,
         \/ Invoke \/ NoAttempt \/ ReceiveStream \/ RejectBeforeReport \/ Accept
         \/ ApiCrash \/ TimePasses
  PROVE  CallInvariant'
<1>1. /\ call \in Call /\ MaxTransportAttempts \in Nat \ {0}
      /\ untracked \subseteq CallSession /\ callFaults \in 0..MaxCallFaults
      /\ budget \in {"ample", "reserve", "over"}
      /\ AttemptIsLeft /\ ReceivedIsClosed
  BY CallTyped, CallAssumption DEF CallInvariant
<1>2. UNCHANGED <<sessionVars, server>>
  BY DEF Invoke, NoAttempt, ReceiveStream, RejectBeforeReport, Accept, ApiCrash, TimePasses
<1>3. /\ call' \in Call
      /\ call'.attempt = call.attempt /\ call'.session = call.session
      /\ call.pc \in {"ready", "failed"} => call'.pc \in {"ready", "failed"}
  BY <1>1 DEF Invoke, NoAttempt, ReceiveStream, RejectBeforeReport, Accept, ApiCrash,
              TimePasses, Call
<1>4. budget' \in {"ample", "reserve", "over"}
  BY <1>1 DEF Invoke, NoAttempt, ReceiveStream, RejectBeforeReport, Accept, ApiCrash,
              TimePasses
<1>5. AttemptIsLeft'
  BY <1>1, <1>3 DEF Invoke, NoAttempt, ReceiveStream, RejectBeforeReport, Accept, ApiCrash,
              TimePasses, Call, AttemptIsLeft
<1>6. ReceivedIsClosed'
  BY <1>1, <1>2, <1>3 DEF Invoke, NoAttempt, ReceiveStream, RejectBeforeReport, Accept,
              ApiCrash, TimePasses, Call, ReceivedIsClosed
<1>7. untracked' \subseteq CallSession
  <2>1. call.pc \in {"waiting", "received"} => call.session \in CallSession
    BY <1>1 DEF ReceivedIsClosed
  <2>2. QED
    BY <1>1, <2>1 DEF Invoke, NoAttempt, ReceiveStream, RejectBeforeReport, Accept,
                      ApiCrash, TimePasses, LoseSight
<1>8. callFaults' \in 0..MaxCallFaults
  BY <1>1, FaultTyped DEF Invoke, NoAttempt, ReceiveStream, RejectBeforeReport, Accept,
                          ApiCrash, TimePasses
<1>9. QED
  BY <1>2, <1>3, <1>4, <1>5, <1>6, <1>7, <1>8, CallMoves

LEMMA AttemptFailsStep ==
  ASSUME CallInvariant, call.pc = "waiting", NEW retryable \in BOOLEAN,
         AttemptFails(retryable)
  PROVE  CallInvariant'
<1>1. call \in Call /\ call.session \in CallSession
  BY CallTyped DEF CallInvariant, ReceivedIsClosed
<1>2. /\ Sessions!CleanupTypeOK' /\ GoneStays
      /\ untracked' \subseteq CallSession /\ callFaults' \in 0..MaxCallFaults
  BY <1>1, LeftToCleanup DEF AttemptFails, LeaveFailed, CallInvariant
<1>3. /\ call' \in Call /\ call'.pc \in {"ready", "failed"}
      /\ call'.pc = "ready" => call'.attempt < MaxTransportAttempts
  BY <1>1 DEF AttemptFails, Call
<1>4. QED
  BY <1>2, <1>3, CallGivenUp DEF AttemptFails

LEMMA ReadReportStep ==
  ASSUME CallInvariant, ReadReport
  PROVE  CallInvariant'
<1>1. call \in Call /\ call.session \in CallSession
  BY CallTyped DEF CallInvariant, ReceivedIsClosed, ReadReport
<1>2. /\ Sessions!CleanupTypeOK' /\ GoneStays
      /\ untracked' \subseteq CallSession /\ callFaults' \in 0..MaxCallFaults
  BY <1>1, LeftToCleanup DEF ReadReport, CallInvariant
<1>3. call' \in Call /\ call'.pc = "failed"
  BY <1>1 DEF ReadReport, Call
<1>4. QED
  BY <1>2, <1>3, CallGivenUp DEF ReadReport

LEMMA NoTimeToQueryStep ==
  ASSUME CallInvariant, NEW s \in CallSession, NoTimeToQuery(s)
  PROVE  CallInvariant'
<1>1. /\ Sessions!CleanupTypeOK' /\ GoneStays
      /\ untracked' \subseteq CallSession /\ callFaults' \in 0..MaxCallFaults
  BY LeftToCleanup DEF NoTimeToQuery, CallInvariant
<1>2. call.attempt + 1 \in 0..MaxTransportAttempts
  BY CallTyped DEF CallInvariant, AttemptIsLeft, NoTimeToQuery
<1>3. call' \in Call /\ call'.pc = "failed"
  BY <1>2 DEF NoTimeToQuery, Call
<1>4. QED
  BY <1>1, <1>3, CallGivenUp DEF NoTimeToQuery

\* The session of a new attempt is nobody's yet.
LEMMA SendQueryStep ==
  ASSUME CallInvariant, NEW s \in CallSession, SendQuery(s)
  PROVE  CallInvariant'
<1> DEFINE query == [NoQuery EXCEPT !.pc = "arriving"]
<1>1. query \in Query /\ query.pc = "arriving"
  BY DEF NoQuery, Query, AtWork
<1>2. /\ call' = [pc |-> "waiting", attempt |-> call.attempt + 1, session |-> s]
      /\ server' = [server EXCEPT ![s] = query]
      /\ UNCHANGED <<sessionVars, budget, untracked, callFaults>>
      /\ callCleanup[s] = "none"
  BY DEF SendQuery, AttemptSession, Fresh
<1> HIDE DEF query
<1>3. call.attempt + 1 \in 0..MaxTransportAttempts
  BY CallTyped DEF CallInvariant, AttemptIsLeft, SendQuery
<1>4. call' \in Call
  BY <1>2, <1>3 DEF Call
<1>5. server' \in [CallSession -> Query] /\ server'[s] = query
      /\ \A t \in CallSession : t # s => server'[t] = server[t]
  BY <1>1, <1>2, CallTyped
<1>6. CallTypeOK'
  <2>1. Sessions!CleanupTypeOK'
    BY <1>2, CallTyped, SessionsKept
  <2>2. QED
    BY <1>2, <1>4, <1>5, <2>1, CallTyped DEF CallTypeOK, Call, Query
<1>7. AttemptIsLeft' /\ ReceivedIsClosed'
  BY <1>2 DEF AttemptIsLeft, ReceivedIsClosed
<1>8. QuietCloseMeansDeleted'
  BY <1>1, <1>2, <1>5 DEF CallInvariant, QuietCloseMeansDeleted, sessionVars
<1>9. CleanupIsForGivenUp'
  BY <1>2 DEF CleanupIsForGivenUp, sessionVars
<1>10. QED
  BY <1>6, <1>7, <1>8, <1>9 DEF CallInvariant

-----------------------------------------------------------------------------
(* The steps of the Agent Runtime and of the cleanup.                      *)

\* A session that the Runtime is at work on gets an answer or goes on.
LEMMA ServerMoves ==
  ASSUME CallInvariant, NEW s \in CallSession, NEW query \in Query,
         server[s].pc # "closed", server' = [server EXCEPT ![s] = query],
         query.pc = "closed" /\ query.reply \in Result /\ ~ query.reported =>
           callSession'[s] = "gone",
         Sessions!CleanupTypeOK', GoneStays,
         UNCHANGED <<callCleanup, call, budget, untracked>>,
         callFaults' \in 0..MaxCallFaults
  PROVE  CallInvariant'
<1>1. /\ server' \in [CallSession -> Query] /\ server'[s] = query
      /\ \A t \in CallSession : t # s => server'[t] = server[t]
  BY CallTyped
<1>2. CallTypeOK'
  BY <1>1, CallTyped DEF CallTypeOK, Call, Query
<1>3. AttemptIsLeft' /\ CleanupIsForGivenUp'
  BY DEF CallInvariant, AttemptIsLeft, CleanupIsForGivenUp
<1>4. ReceivedIsClosed'
  BY <1>1 DEF CallInvariant, ReceivedIsClosed
<1>5. QuietCloseMeansDeleted'
  BY <1>1 DEF CallInvariant, QuietCloseMeansDeleted, GoneStays
<1>6. QED
  BY <1>2, <1>3, <1>4, <1>5 DEF CallInvariant

LEMMA ServerSteps ==
  ASSUME CallInvariant, NEW s \in CallSession, ServerStep(s) \/ ServerCrash(s)
  PROVE  CallInvariant'
<1>1. server[s] \in Query /\ Sessions!CleanupTypeOK /\ callFaults \in 0..MaxCallFaults
  BY CallTyped
<1>2. /\ [server[s] EXCEPT !.pc = "running"] \in Query
      /\ [server[s] EXCEPT !.pc = "closed"] \in Query
      /\ [server[s] EXCEPT !.pc = "crashed"] \in Query
      /\ [server[s] EXCEPT !.pc = "closed", !.reply = "retryable"] \in Query
      /\ \A reply \in Result \cup Failure :
           [server[s] EXCEPT !.pc = "deleting", !.reply = reply] \in Query
      /\ \A reported \in BOOLEAN :
           [server[s] EXCEPT !.pc = "closed", !.reported = reported] \in Query
  BY <1>1 DEF Query, AtWork, Failure
<1>3. ASSUME CreateSession(s)  PROVE  CallInvariant'
  <2>1. /\ Sessions!CleanupTypeOK' /\ GoneStays /\ UNCHANGED callCleanup
        /\ server[s].pc = "arriving" /\ UNCHANGED <<call, budget, untracked, callFaults>>
    BY <1>1, <1>3, RuntimeMoves, SessionsKept DEF CreateSession, sessionVars
  <2>2. CASE Serve(s, "running")
    <3> DEFINE query == [server[s] EXCEPT !.pc = "running"]
    <3>1. query \in Query /\ query.pc = "running" /\ server' = [server EXCEPT ![s] = query]
      BY <1>1, <1>2, <2>2 DEF Serve, Query
    <3> HIDE DEF query
    <3>2. QED
      BY <1>1, <2>1, <3>1, ServerMoves
  <2>3. CASE server' = [server EXCEPT ![s] =
               [server[s] EXCEPT !.pc = "closed", !.reply = "retryable"]]
    <3> DEFINE query == [server[s] EXCEPT !.pc = "closed", !.reply = "retryable"]
    <3>1. query \in Query /\ query.reply \notin Result
      BY <1>1, <1>2 DEF Query, Result
    <3> HIDE DEF query
    <3>2. server' = [server EXCEPT ![s] = query]
      BY <2>3 DEF query
    <3>3. QED
      BY <1>1, <2>1, <3>1, <3>2, ServerMoves
  <2>4. QED
    BY <1>3, <2>2, <2>3 DEF CreateSession
<1>4. ASSUME RunAgent(s)  PROVE  CallInvariant'
  <2>1. PICK reply \in Result \cup Failure :
          server' = [server EXCEPT ![s] =
            [server[s] EXCEPT !.pc = "deleting", !.reply = reply]]
    BY <1>4 DEF RunAgent
  <2> DEFINE query == [server[s] EXCEPT !.pc = "deleting", !.reply = reply]
  <2>2. query \in Query /\ query.pc = "deleting"
    BY <1>1, <1>2 DEF Query
  <2> HIDE DEF query
  <2>3. server' = [server EXCEPT ![s] = query]
    BY <2>1 DEF query
  <2>4. /\ Sessions!CleanupTypeOK' /\ GoneStays /\ UNCHANGED callCleanup
        /\ server[s].pc = "running" /\ UNCHANGED <<call, budget, untracked, callFaults>>
    BY <1>1, <1>4, SessionsKept DEF RunAgent, sessionVars
  <2>5. QED
    BY <1>1, <2>2, <2>3, <2>4, ServerMoves
<1>5. ASSUME DeleteOwnSession(s)  PROVE  CallInvariant'
  <2>1. CASE Sessions!RuntimeDeletes(s) /\ Serve(s, "closed") /\ UNCHANGED callFaults
    <3> DEFINE query == [server[s] EXCEPT !.pc = "closed"]
    <3>1. query \in Query /\ server' = [server EXCEPT ![s] = query]
      BY <1>1, <1>2, <2>1 DEF Serve, Query
    <3> HIDE DEF query
    <3>2. /\ Sessions!CleanupTypeOK' /\ GoneStays /\ UNCHANGED callCleanup
          /\ callSession'[s] = "gone"
      BY <1>1, <2>1, RuntimeMoves
    <3>3. QED
      BY <1>1, <1>5, <2>1, <3>1, <3>2, ServerMoves DEF DeleteOwnSession
  <2>2. CASE /\ server' = [server EXCEPT ![s] =
                  [server[s] EXCEPT !.pc = "closed", !.reported = ReportDeletion(s)]]
             /\ UNCHANGED callFaults \/ CallFault
             /\ UNCHANGED sessionVars
    <3> DEFINE query == [server[s] EXCEPT !.pc = "closed", !.reported = ReportDeletion(s)]
    <3>1. ReportDeletion(s) \in BOOLEAN
      BY DEF ReportDeletion
    <3>2. query \in Query /\ (query.reply \in Result => query.reported)
      BY <1>1, <1>2, <3>1 DEF Query, ReportDeletion
    <3> HIDE DEF query
    <3>3. server' = [server EXCEPT ![s] = query]
      BY <2>2 DEF query
    <3>4. /\ Sessions!CleanupTypeOK' /\ GoneStays /\ UNCHANGED callCleanup
          /\ callFaults' \in 0..MaxCallFaults
      BY <1>1, <2>2, SessionsKept, FaultTyped DEF sessionVars
    <3>5. QED
      BY <1>1, <1>5, <3>2, <3>3, <3>4, ServerMoves DEF DeleteOwnSession
  <2>3. QED
    BY <1>5, <2>1, <2>2 DEF DeleteOwnSession
<1>6. ASSUME ServerCrash(s)  PROVE  CallInvariant'
  <2> DEFINE query == [server[s] EXCEPT !.pc = "crashed"]
  <2>1. query \in Query /\ query.pc = "crashed" /\ server' = [server EXCEPT ![s] = query]
    BY <1>1, <1>2, <1>6 DEF ServerCrash, Serve, Query
  <2> HIDE DEF query
  <2>2. /\ Sessions!CleanupTypeOK' /\ GoneStays /\ UNCHANGED callCleanup
        /\ callFaults' \in 0..MaxCallFaults
    BY <1>1, <1>6, SessionsKept, FaultTyped DEF ServerCrash, sessionVars
  <2>3. server[s].pc # "closed"
    BY <1>6 DEF ServerCrash, AtWork
  <2>4. QED
    BY <1>6, <2>1, <2>2, <2>3, ServerMoves DEF ServerCrash
<1>7. QED
  BY <1>3, <1>4, <1>5, <1>6 DEF ServerStep

LEMMA CleanupSteps ==
  ASSUME CallInvariant, NEW s \in CallSession, Sessions!CleanupStep(s),
         UNCHANGED <<call, server, budget, untracked, callFaults>>
  PROVE  CallInvariant'
<1>1. /\ Sessions!CleanupTypeOK' /\ GoneStays
      /\ \A t \in CallSession : callCleanup'[t] # "none" => callCleanup[t] # "none"
  BY CallTyped, CleanupStepKeeps
<1>2. CallTypeOK'
  BY <1>1 DEF CallInvariant, CallTypeOK
<1>3. AttemptIsLeft' /\ ReceivedIsClosed'
  BY DEF CallInvariant, AttemptIsLeft, ReceivedIsClosed
<1>4. QuietCloseMeansDeleted'
  BY <1>1 DEF CallInvariant, QuietCloseMeansDeleted, GoneStays
<1>5. CleanupIsForGivenUp'
  BY <1>1 DEF CallInvariant, CleanupIsForGivenUp
<1>6. QED
  BY <1>2, <1>3, <1>4, <1>5 DEF CallInvariant

-----------------------------------------------------------------------------
(* The theorems.                                                           *)

LEMMA CallInitInvariant == CallInit => CallInvariant
<1> SUFFICES ASSUME CallInit
             PROVE  CallInvariant
  OBVIOUS
<1>1. NoQuery \in Query /\ NoQuery.pc = "none"
  BY DEF NoQuery, Query
<1>2. Sessions!CleanupTypeOK
  BY DEF CallInit, Sessions!CleanupInit, Sessions!CleanupTypeOK
<1>3. 0 \in 0..MaxTransportAttempts /\ 0 \in 0..MaxCallFaults
  BY CallAssumption
<1>4. CallTypeOK
  BY <1>1, <1>2, <1>3 DEF CallInit, CallTypeOK, Query
<1>5. AttemptIsLeft /\ ReceivedIsClosed /\ QuietCloseMeansDeleted
  BY <1>1 DEF CallInit, AttemptIsLeft, ReceivedIsClosed, QuietCloseMeansDeleted
<1>6. CleanupIsForGivenUp
  BY CallAssumption DEF CallInit, CleanupIsForGivenUp
<1>7. QED
  BY <1>4, <1>5, <1>6 DEF CallInvariant

LEMMA CallNextInvariant ==
  ASSUME CallInvariant, [CallNext]_callVars
  PROVE  CallInvariant'
<1>1. CASE ClientStep
  BY <1>1, ProgressStep, SendQueryStep, NoTimeToQueryStep, AttemptFailsStep, ReadReportStep
  DEF ClientStep, StreamBreaks, ReceiveError
<1>2. CASE UNCHANGED callVars
  BY <1>2 DEF callVars, sessionVars, CallInvariant, CallTypeOK, AttemptIsLeft,
              ReceivedIsClosed, QuietCloseMeansDeleted, CleanupIsForGivenUp,
              Sessions!CleanupTypeOK
<1>3. QED
  BY <1>1, <1>2, ProgressStep, ServerSteps, CleanupSteps DEF CallNext

LEMMA CallInvariantHolds == CallSpec => []CallInvariant
<1>1. CallInvariant /\ [CallNext]_callVars => CallInvariant'
  BY CallNextInvariant
<1>2. QED
  BY CallInitInvariant, <1>1, PTL DEF CallSpec

\* The call, the Runtime's sessions and what is left to the cleanup keep their types.
THEOREM CallTypeCorrect == CallSpec => []CallTypeOK
<1>1. CallInvariant => CallTypeOK
  BY DEF CallInvariant
<1>2. QED
  BY <1>1, CallInvariantHolds, PTL

\* The API uses an answer only after the Runtime has deleted its session, however many
\* attempts came before and whatever failed.
THEOREM AcceptedAfterDeletion == CallSpec => []AcceptedMeansDeleted
<1>1. CallInvariant => AcceptedMeansDeleted
  BY DEF CallInvariant, ReceivedIsClosed, QuietCloseMeansDeleted, AcceptedMeansDeleted
<1>2. QED
  BY <1>1, CallInvariantHolds, PTL

\* The cleanup is left no session of an attempt that goes on.
THEOREM CleanupOnlyOfGivenUp == CallSpec => []CleanupIsForGivenUp
<1>1. CallInvariant => CleanupIsForGivenUp
  BY DEF CallInvariant
<1>2. QED
  BY <1>1, CallInvariantHolds, PTL

-----------------------------------------------------------------------------
(* The whole.                                                              *)

\* Each part of the outbox sees its own steps and nothing of the others.
THEOREM OutboxIsItsParts == OutboxSpec => FairSpec /\ DispatchSpec /\ CallSpec
<1>1. OutboxInit => Init /\ DispatchInit /\ CallInit
  BY DEF OutboxInit
<1>2. [OutboxNext]_outboxVars =>
        [Next]_vars /\ [DispatchNext]_dispatchVars /\ [CallNext]_callVars
  BY DEF OutboxNext, outboxVars
<1>3. QED
  BY <1>1, <1>2, PTL DEF OutboxSpec, FairSpec, Spec, DispatchSpec, CallSpec

\* Every reachable state of the outbox and its users has the types of its columns.
THEOREM OutboxTypeCorrect == OutboxSpec => []OutboxTypeOK
<1>1. TypeOK /\ DispatchTypeOK /\ CallTypeOK => OutboxTypeOK
  BY DEF OutboxTypeOK
<1>2. QED
  BY <1>1, OutboxIsItsParts, CleanupTypeCorrect, DispatchTypeCorrect, CallTypeCorrect, PTL
  DEF FairSpec
=============================================================================
