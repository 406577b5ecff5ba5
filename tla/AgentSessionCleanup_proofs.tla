----------------------- MODULE AgentSessionCleanup_proofs -----------------------
(***************************************************************************)
(* Theorems about AgentSessionCleanup, for any number of sessions, consumers,*)
(* operators and attempts: its type invariant, that settled rows stay, and   *)
(* the safety half of what SessionCleanup promises.                         *)
(***************************************************************************)
EXTENDS AgentSessionCleanup, TLAPS

-----------------------------------------------------------------------------
(* The inductive invariant.                                                *)

ConsumersHoldRows ==
  \A c \in Consumer :
    \/ consumer[c] = Idle
    \/ /\ consumer[c].session \in Session
       /\ row[consumer[c].session].status # "absent"

OperatorsHoldRequests ==
  \A o \in Operator :
    \/ operator[o] = AtRest
    \/ operator[o].request \in Request /\ operator[o].session \in Session

\* A delete call that reports success has seen the session go, or has not found it.
DeletedIsReal ==
  \A c \in Consumer :
    consumer[c].pc = "deleted" =>
      session[consumer[c].session] = "gone" \/ consumer[c].session \in missed

SettledIsNotDelayed ==
  \A s \in Session : row[s].status \in {"PUBLISHED", "DEAD_LETTER"} => ~ row[s].delayed

CleanupInvariant ==
  /\ TypeOK
  /\ ConsumersHoldRows
  /\ OperatorsHoldRequests
  /\ DeletedIsReal
  /\ SettledIsNotDelayed

-----------------------------------------------------------------------------
LEMMA CleanupInitInvariant == Init => CleanupInvariant
<1> SUFFICES ASSUME Init
             PROVE  CleanupInvariant
  OBVIOUS
<1>1. TypeOK
  <2>1. NoCleanup \in CleanupRow
    BY DEF NoCleanup, CleanupRow
  <2>2. QED
    <3>1. faults \in 0..MaxFaults
      BY CleanupAssumption DEF Init
    <3>2. consumer \in [Consumer ->
            [pc : {"idle", "claimed", "deleted", "refused", "unreachable"},
             session : Session \cup {NoSession}, token : Nat, attempts : Nat]]
      BY DEF Init, Idle
    <3>3. operator \in [Operator ->
            [request : Request \cup {"none"}, session : Session \cup {NoSession}]]
      BY DEF Init, AtRest
    <3>4. row \in [Session -> CleanupRow]
      BY <2>1 DEF Init
    <3>5. /\ session \in [Session -> {"none", "alive", "gone"}]
          /\ events \subseteq [request : Request, session : Session]
          /\ missed \subseteq Session
      BY DEF Init
    <3>6. QED
      BY <3>1, <3>2, <3>3, <3>4, <3>5 DEF TypeOK
<1>2. ConsumersHoldRows /\ OperatorsHoldRequests
  <2>1. /\ \A c \in Consumer : consumer[c] = Idle
        /\ \A o \in Operator : operator[o] = AtRest
    BY DEF Init
  <2>2. ConsumersHoldRows
    BY <2>1, Zenon DEF ConsumersHoldRows
  <2>3. OperatorsHoldRequests
    BY <2>1, Zenon DEF OperatorsHoldRequests
  <2>4. QED
    BY <2>2, <2>3
<1>3. DeletedIsReal
  BY DEF Init, Idle, DeletedIsReal
<1>4. SettledIsNotDelayed
  BY DEF Init, NoCleanup, SettledIsNotDelayed
<1>5. QED
  BY <1>1, <1>2, <1>3, <1>4 DEF CleanupInvariant

\* What a row becomes keeps what is known of the rows.
LEMMA RowStep ==
  ASSUME CleanupInvariant, NEW s \in Session, NEW next \in CleanupRow,
         next.status # "absent",
         next.status \in {"PUBLISHED", "DEAD_LETTER"} => ~ next.delayed,
         row' = [row EXCEPT ![s] = next]
  PROVE  /\ row' \in [Session -> CleanupRow]
         /\ row'[s] = next
         /\ \A t \in Session : t # s => row'[t] = row[t]
         /\ \A t \in Session : row[t].status # "absent" => row'[t].status # "absent"
         /\ SettledIsNotDelayed'
<1>1. row \in [Session -> CleanupRow]
  BY DEF CleanupInvariant, TypeOK
<1>2. /\ row' \in [Session -> CleanupRow]
      /\ row'[s] = next
      /\ \A t \in Session : t # s => row'[t] = row[t]
  BY <1>1
<1>3. \A t \in Session : row[t].status # "absent" => row'[t].status # "absent"
  BY <1>2
<1>4. SettledIsNotDelayed'
  BY <1>2 DEF CleanupInvariant, SettledIsNotDelayed
<1>5. QED
  BY <1>2, <1>3, <1>4

\* What does not touch the consumers keeps what is known of them and the operators.
LEMMA ConsumersRest ==
  ASSUME CleanupInvariant, UNCHANGED <<session, consumer, operator, missed>>,
         \A t \in Session : row[t].status # "absent" => row'[t].status # "absent"
  PROVE  ConsumersHoldRows' /\ OperatorsHoldRequests' /\ DeletedIsReal'
<1>1. ConsumersHoldRows'
  BY DEF CleanupInvariant, ConsumersHoldRows, Idle
<1>2. OperatorsHoldRequests' /\ DeletedIsReal'
  BY DEF CleanupInvariant, OperatorsHoldRequests, DeletedIsReal, AtRest
<1>3. QED
  BY <1>1, <1>2

LEMMA EnqueueInvariant ==
  ASSUME CleanupInvariant, NEW s \in Session, EnqueueSessionDelete(s)
  PROVE  CleanupInvariant'
<1> DEFINE next == [row[s] EXCEPT !.status = "PENDING"]
<1>1. row[s] \in CleanupRow
  BY DEF CleanupInvariant, TypeOK
<1>2. next \in CleanupRow /\ next.status = "PENDING"
  BY <1>1 DEF CleanupRow
<1>3. row' = [row EXCEPT ![s] = next]
  BY DEF EnqueueSessionDelete
<1> HIDE DEF next
<1>4. /\ row' \in [Session -> CleanupRow]
      /\ \A t \in Session : row[t].status # "absent" => row'[t].status # "absent"
      /\ SettledIsNotDelayed'
  BY <1>2, <1>3, RowStep
<1>5. TypeOK'
  BY <1>4 DEF EnqueueSessionDelete, CleanupInvariant, TypeOK
<1>6. QED
  BY <1>4, <1>5, ConsumersRest DEF EnqueueSessionDelete, CleanupInvariant

LEMMA RuntimeInvariant ==
  ASSUME CleanupInvariant, NEW s \in Session, RuntimeStep(s)
  PROVE  CleanupInvariant'
<1>1. TypeOK'
  BY DEF RuntimeStep, CleanupInvariant, TypeOK
<1>2. \A t \in Session : session[t] = "gone" => session'[t] = "gone"
  BY DEF RuntimeStep, CleanupInvariant, TypeOK
<1>3. DeletedIsReal'
  BY <1>2 DEF RuntimeStep, CleanupInvariant, ConsumersHoldRows, DeletedIsReal, Idle
<1>4. ConsumersHoldRows' /\ OperatorsHoldRequests' /\ SettledIsNotDelayed'
  BY DEF RuntimeStep, CleanupInvariant, ConsumersHoldRows, OperatorsHoldRequests,
         SettledIsNotDelayed, Idle, AtRest
<1>5. QED
  BY <1>1, <1>3, <1>4 DEF CleanupInvariant

LEMMA ClaimNextInvariant ==
  ASSUME CleanupInvariant, NEW c \in Consumer, NEW s \in Session, ClaimNext(c, s)
  PROVE  CleanupInvariant'
<1> DEFINE next == [row[s] EXCEPT
                      !.status = "PUBLISHING", !.attempts = row[s].attempts + 1,
                      !.claims = row[s].claims + 1, !.token = row[s].claims + 1,
                      !.expired = FALSE]
<1>1. row[s] \in CleanupRow
  BY DEF CleanupInvariant, TypeOK
<1>2. row[s].attempts + 1 \in Nat /\ row[s].claims + 1 \in Nat
  BY <1>1 DEF CleanupRow
<1>3. next \in CleanupRow /\ next.status = "PUBLISHING"
  BY <1>1, <1>2 DEF CleanupRow
<1>4. row' = [row EXCEPT ![s] = next]
  BY DEF ClaimNext
<1> HIDE DEF next
<1>5. /\ row' \in [Session -> CleanupRow]
      /\ row'[s] = next
      /\ \A t \in Session : row[t].status # "absent" => row'[t].status # "absent"
      /\ SettledIsNotDelayed'
  BY <1>3, <1>4, RowStep
<1>6. /\ consumer'[c].pc = "claimed" /\ consumer'[c].session = s
      /\ \A d \in Consumer : d # c => consumer'[d] = consumer[d]
  BY DEF ClaimNext, CleanupInvariant, TypeOK
<1>7. TypeOK'
  <2>1. consumer' \in [Consumer ->
          [pc : {"idle", "claimed", "deleted", "refused", "unreachable"},
           session : Session \cup {NoSession}, token : Nat, attempts : Nat]]
    BY <1>2 DEF ClaimNext, CleanupInvariant, TypeOK
  <2>2. QED
    BY <1>5, <2>1 DEF ClaimNext, CleanupInvariant, TypeOK
<1>8. ConsumersHoldRows'
  BY <1>3, <1>5, <1>6 DEF CleanupInvariant, ConsumersHoldRows
<1>9. DeletedIsReal'
  BY <1>6 DEF ClaimNext, CleanupInvariant, DeletedIsReal
<1>10. OperatorsHoldRequests'
  BY DEF ClaimNext, CleanupInvariant, OperatorsHoldRequests, AtRest
<1>11. QED
  BY <1>5, <1>7, <1>8, <1>9, <1>10 DEF CleanupInvariant

LEMMA DeleteInvariant ==
  ASSUME CleanupInvariant, NEW c \in Consumer, Delete(c)
  PROVE  CleanupInvariant'
<1> DEFINE s == consumer[c].session
<1>1. s \in Session /\ row[s].status # "absent" /\ consumer[c].pc = "claimed"
  BY DEF Delete, CleanupInvariant, ConsumersHoldRows, Idle
<1>2. PICK pc \in {"deleted", "refused", "unreachable"} :
        /\ consumer' = [consumer EXCEPT ![c].pc = pc]
        /\ session' = [session EXCEPT ![s] = IF session[s] = "alive" THEN "gone"
                                             ELSE session[s]]
           \/ session' = session
        /\ pc = "deleted" =>
             /\ session' = [session EXCEPT ![s] = IF session[s] = "alive" THEN "gone"
                                                  ELSE session[s]]
             /\ session[s] = "none" => s \in missed'
        /\ missed' \in {missed, missed \cup {s}}
  BY DEF Delete
<1>3. /\ consumer'[c].pc = pc /\ consumer'[c].session = s
      /\ \A d \in Consumer : d # c => consumer'[d] = consumer[d]
  BY <1>2 DEF CleanupInvariant, TypeOK
<1>4. UNCHANGED <<row, operator, events, faults>>
  BY DEF Delete
<1>5. session' \in [Session -> {"none", "alive", "gone"}] /\ missed' \subseteq Session
  BY <1>1, <1>2 DEF CleanupInvariant, TypeOK
<1>6. TypeOK'
  <2>1. consumer' \in [Consumer ->
          [pc : {"idle", "claimed", "deleted", "refused", "unreachable"},
           session : Session \cup {NoSession}, token : Nat, attempts : Nat]]
    BY <1>2 DEF CleanupInvariant, TypeOK
  <2>2. QED
    BY <1>4, <1>5, <2>1 DEF CleanupInvariant, TypeOK
<1>7. ConsumersHoldRows'
  BY <1>1, <1>3, <1>4 DEF CleanupInvariant, ConsumersHoldRows, Idle
<1>8. DeletedIsReal'
  <2>1. /\ missed \subseteq missed'
        /\ \A t \in Session : session[t] = "gone" => session'[t] = "gone"
    BY <1>1, <1>2 DEF CleanupInvariant, TypeOK
  <2>2. pc = "deleted" => session'[s] = "gone" \/ s \in missed'
    BY <1>1, <1>2 DEF CleanupInvariant, TypeOK
  <2>3. ASSUME NEW d \in Consumer, consumer[d].pc = "deleted"
        PROVE  consumer[d].session \in Session
    BY <2>3 DEF CleanupInvariant, ConsumersHoldRows, Idle
  <2>4. QED
    BY <1>3, <2>1, <2>2, <2>3 DEF CleanupInvariant, DeletedIsReal
<1>9. OperatorsHoldRequests' /\ SettledIsNotDelayed'
  BY <1>4 DEF CleanupInvariant, OperatorsHoldRequests, SettledIsNotDelayed, AtRest
<1>10. QED
  BY <1>6, <1>7, <1>8, <1>9 DEF CleanupInvariant

\* The row is only written by the consumer whose claim it is; either way it lets go.
LEMMA EndCleanupInvariant ==
  ASSUME CleanupInvariant, NEW c \in Consumer, consumer[c].pc # "idle",
         NEW status \in {"PENDING", "PUBLISHED", "DEAD_LETTER"},
         NEW failure \in {"none", Retryable, Refused}, NEW delayed \in BOOLEAN,
         status \in {"PUBLISHED", "DEAD_LETTER"} => ~ delayed,
         EndCleanup(c, status, failure, delayed)
  PROVE  CleanupInvariant'
<1> DEFINE s == consumer[c].session
           next == [row[s] EXCEPT
                      !.status = status, !.token = 0, !.expired = FALSE,
                      !.failure = failure, !.delayed = delayed]
<1>1. s \in Session
  BY DEF CleanupInvariant, ConsumersHoldRows, Idle
<1>2. row[s] \in CleanupRow
  BY <1>1 DEF CleanupInvariant, TypeOK
<1>3. next \in CleanupRow /\ next.status = status /\ next.delayed = delayed
  BY <1>2 DEF CleanupRow
<1>4. row' = [row EXCEPT ![s] = next] \/ row' = row
  BY DEF EndCleanup
<1> HIDE DEF next
<1>5. /\ row' \in [Session -> CleanupRow]
      /\ \A t \in Session : row[t].status # "absent" => row'[t].status # "absent"
      /\ SettledIsNotDelayed'
  <2>1. CASE row' = [row EXCEPT ![s] = next]
    BY <1>1, <1>3, <2>1, RowStep
  <2>2. CASE row' = row
    BY <2>2 DEF CleanupInvariant, TypeOK, SettledIsNotDelayed
  <2>3. QED
    BY <1>4, <2>1, <2>2
<1>6. /\ consumer'[c] = Idle
      /\ \A d \in Consumer : d # c => consumer'[d] = consumer[d]
      /\ UNCHANGED <<session, operator, events, missed, faults>>
  BY DEF EndCleanup, CleanupInvariant, TypeOK
<1>7. TypeOK'
  <2>1. consumer' \in [Consumer ->
          [pc : {"idle", "claimed", "deleted", "refused", "unreachable"},
           session : Session \cup {NoSession}, token : Nat, attempts : Nat]]
    BY DEF EndCleanup, CleanupInvariant, TypeOK, Idle
  <2>2. QED
    BY <1>5, <1>6, <2>1 DEF CleanupInvariant, TypeOK
<1>8. ConsumersHoldRows'
  BY <1>5, <1>6 DEF CleanupInvariant, ConsumersHoldRows
<1>9. DeletedIsReal'
  BY <1>6 DEF CleanupInvariant, DeletedIsReal, Idle
<1>10. OperatorsHoldRequests'
  BY <1>6 DEF CleanupInvariant, OperatorsHoldRequests, AtRest
<1>11. QED
  BY <1>5, <1>7, <1>8, <1>9, <1>10 DEF CleanupInvariant

LEMMA FaultTypeOK ==
  ASSUME CleanupInvariant, Fault
  PROVE  faults' \in 0..MaxFaults
BY CleanupAssumption DEF CleanupInvariant, TypeOK, Fault

LEMMA ConsumerCrashInvariant ==
  ASSUME CleanupInvariant, NEW c \in Consumer, ConsumerCrash(c)
  PROVE  CleanupInvariant'
<1>1. /\ consumer'[c] = Idle
      /\ \A d \in Consumer : d # c => consumer'[d] = consumer[d]
      /\ UNCHANGED <<session, row, operator, events, missed>>
  BY DEF ConsumerCrash, CleanupInvariant, TypeOK
<1>2. TypeOK'
  <2>1. consumer' \in [Consumer ->
          [pc : {"idle", "claimed", "deleted", "refused", "unreachable"},
           session : Session \cup {NoSession}, token : Nat, attempts : Nat]]
    BY DEF ConsumerCrash, CleanupInvariant, TypeOK, Idle
  <2>2. faults' \in 0..MaxFaults
    BY FaultTypeOK DEF ConsumerCrash
  <2>3. QED
    BY <1>1, <2>1, <2>2 DEF CleanupInvariant, TypeOK
<1>3. ConsumersHoldRows'
  BY <1>1 DEF CleanupInvariant, ConsumersHoldRows
<1>4. DeletedIsReal'
  BY <1>1 DEF CleanupInvariant, DeletedIsReal, Idle
<1>5. OperatorsHoldRequests' /\ SettledIsNotDelayed'
  BY <1>1 DEF CleanupInvariant, OperatorsHoldRequests, SettledIsNotDelayed, AtRest
<1>6. QED
  BY <1>2, <1>3, <1>4, <1>5 DEF CleanupInvariant

LEMMA CleanupExpiryInvariant ==
  ASSUME CleanupInvariant, NEW s \in Session, CleanupClaimExpires(s)
  PROVE  CleanupInvariant'
<1> DEFINE next == [row[s] EXCEPT !.expired = TRUE]
<1>1. row[s] \in CleanupRow /\ row[s].status = "PUBLISHING"
  BY DEF CleanupClaimExpires, CleanupInvariant, TypeOK
<1>2. next \in CleanupRow /\ next.status = "PUBLISHING"
  BY <1>1 DEF CleanupRow
<1>3. row' = [row EXCEPT ![s] = next]
  BY DEF CleanupClaimExpires, CleanupInvariant, TypeOK
<1> HIDE DEF next
<1>4. /\ row' \in [Session -> CleanupRow]
      /\ \A t \in Session : row[t].status # "absent" => row'[t].status # "absent"
      /\ SettledIsNotDelayed'
  BY <1>2, <1>3, RowStep
<1>5. faults' \in 0..MaxFaults
  BY FaultTypeOK DEF CleanupClaimExpires, CleanupInvariant, TypeOK
<1>6. TypeOK'
  BY <1>4, <1>5 DEF CleanupClaimExpires, CleanupInvariant, TypeOK
<1>7. QED
  BY <1>4, <1>6, ConsumersRest DEF CleanupClaimExpires, CleanupInvariant

LEMMA DelayInvariant ==
  ASSUME CleanupInvariant, NEW s \in Session, DelayElapses(s)
  PROVE  CleanupInvariant'
<1> DEFINE next == [row[s] EXCEPT !.delayed = FALSE]
<1>1. row[s] \in CleanupRow /\ row[s].delayed
  BY DEF DelayElapses, CleanupInvariant, TypeOK
<1>2. next \in CleanupRow /\ next.status = row[s].status /\ ~ next.delayed
  BY <1>1 DEF CleanupRow
<1>3. row' = [row EXCEPT ![s] = next]
  BY DEF DelayElapses, CleanupInvariant, TypeOK
<1> HIDE DEF next
<1>4. row \in [Session -> CleanupRow]
  BY DEF CleanupInvariant, TypeOK
<1>5. /\ row' \in [Session -> CleanupRow]
      /\ \A t \in Session : row[t].status # "absent" => row'[t].status # "absent"
      /\ SettledIsNotDelayed'
  BY <1>2, <1>3, <1>4 DEF CleanupInvariant, SettledIsNotDelayed
<1>6. TypeOK'
  BY <1>5 DEF DelayElapses, CleanupInvariant, TypeOK
<1>7. QED
  BY <1>5, <1>6, ConsumersRest DEF DelayElapses, CleanupInvariant

LEMMA LookUpInvariant ==
  ASSUME CleanupInvariant, NEW o \in Operator, NEW request \in Request, NEW s \in Session,
         LookUpRequest(o, request, s)
  PROVE  CleanupInvariant'
<1>1. /\ operator'[o] = [request |-> request, session |-> s]
      /\ \A p \in Operator : p # o => operator'[p] = operator[p]
      /\ UNCHANGED <<session, row, consumer, events, missed, faults>>
  BY DEF LookUpRequest, CleanupInvariant, TypeOK
<1>2. operator' \in [Operator ->
        [request : Request \cup {"none"}, session : Session \cup {NoSession}]]
  BY DEF LookUpRequest, CleanupInvariant, TypeOK
<1>3. TypeOK'
  BY <1>1, <1>2 DEF CleanupInvariant, TypeOK
<1>4. OperatorsHoldRequests'
  BY <1>1 DEF CleanupInvariant, OperatorsHoldRequests
<1>5. ConsumersHoldRows' /\ DeletedIsReal' /\ SettledIsNotDelayed'
  BY <1>1 DEF CleanupInvariant, ConsumersHoldRows, DeletedIsReal, SettledIsNotDelayed, Idle
<1>6. QED
  BY <1>3, <1>4, <1>5 DEF CleanupInvariant

LEMMA ReprocessInvariant ==
  ASSUME CleanupInvariant, NEW o \in Operator, Reprocess(o)
  PROVE  CleanupInvariant'
<1> DEFINE s == operator[o].session
           next == [row[s] EXCEPT
                      !.status = "PENDING", !.attempts = 0, !.failure = "none",
                      !.token = 0, !.expired = FALSE, !.delayed = FALSE]
<1>1. s \in Session /\ operator[o].request \in Request
  BY DEF Reprocess, CleanupInvariant, OperatorsHoldRequests
<1>2. row[s] \in CleanupRow
  BY <1>1 DEF CleanupInvariant, TypeOK
<1>3. next \in CleanupRow /\ next.status = "PENDING"
  BY <1>2 DEF CleanupRow
<1>4. row' = [row EXCEPT ![s] = next] \/ row' = row
  BY DEF Reprocess
<1> HIDE DEF next
<1>5. /\ row' \in [Session -> CleanupRow]
      /\ \A t \in Session : row[t].status # "absent" => row'[t].status # "absent"
      /\ SettledIsNotDelayed'
  <2>1. CASE row' = [row EXCEPT ![s] = next]
    BY <1>1, <1>3, <2>1, RowStep
  <2>2. CASE row' = row
    BY <2>2 DEF CleanupInvariant, TypeOK, SettledIsNotDelayed
  <2>3. QED
    BY <1>4, <2>1, <2>2
<1>6. events' \subseteq [request : Request, session : Session]
  BY <1>1 DEF Reprocess, CleanupInvariant, TypeOK
<1>7. /\ operator'[o] = AtRest
      /\ \A p \in Operator : p # o => operator'[p] = operator[p]
      /\ UNCHANGED <<session, consumer, missed, faults>>
  BY DEF Reprocess, CleanupInvariant, TypeOK
<1>8. operator' \in [Operator ->
        [request : Request \cup {"none"}, session : Session \cup {NoSession}]]
  BY DEF Reprocess, CleanupInvariant, TypeOK, AtRest
<1>9. TypeOK'
  BY <1>5, <1>6, <1>7, <1>8 DEF CleanupInvariant, TypeOK
<1>10. OperatorsHoldRequests'
  BY <1>7 DEF CleanupInvariant, OperatorsHoldRequests
<1>11. ConsumersHoldRows' /\ DeletedIsReal'
  BY <1>5, <1>7 DEF CleanupInvariant, ConsumersHoldRows, DeletedIsReal, Idle
<1>12. QED
  BY <1>5, <1>9, <1>10, <1>11 DEF CleanupInvariant

-----------------------------------------------------------------------------
LEMMA CleanupStepInvariant ==
  ASSUME CleanupInvariant, NEW c \in Consumer, CleanupStep(c)
  PROVE  CleanupInvariant'
<1>1. ASSUME NEW s \in Session, ClaimNext(c, s)
      PROVE  CleanupInvariant'
  BY <1>1, ClaimNextInvariant
<1>2. CASE Delete(c)
  BY <1>2, DeleteInvariant
<1>3. CASE MarkDeleted(c)
  BY <1>3, EndCleanupInvariant DEF MarkDeleted
<1>4. CASE DeadLetterRefused(c)
  BY <1>4, EndCleanupInvariant DEF DeadLetterRefused
<1>5. CASE DeadLetterExhausted(c)
  BY <1>5, EndCleanupInvariant DEF DeadLetterExhausted
<1>6. CASE ReleaseForRetry(c)
  BY <1>6, EndCleanupInvariant DEF ReleaseForRetry
<1>7. QED
  BY <1>1, <1>2, <1>3, <1>4, <1>5, <1>6 DEF CleanupStep

LEMMA CleanupNextInvariant == CleanupInvariant /\ [Next]_vars => CleanupInvariant'
<1> SUFFICES ASSUME CleanupInvariant, [Next]_vars
             PROVE  CleanupInvariant'
  OBVIOUS
<1>1. ASSUME NEW s \in Session,
             EnqueueSessionDelete(s) \/ RuntimeStep(s) \/ CleanupClaimExpires(s) \/ DelayElapses(s)
      PROVE  CleanupInvariant'
  BY <1>1, EnqueueInvariant, RuntimeInvariant, CleanupExpiryInvariant, DelayInvariant
<1>2. ASSUME NEW c \in Consumer, CleanupStep(c) \/ ConsumerCrash(c)
      PROVE  CleanupInvariant'
  BY <1>2, CleanupStepInvariant, ConsumerCrashInvariant
<1>3. ASSUME NEW o \in Operator, NEW request \in Request, NEW s \in Session,
             LookUpRequest(o, request, s)
      PROVE  CleanupInvariant'
  BY <1>3, LookUpInvariant
<1>4. ASSUME NEW o \in Operator, Reprocess(o)
      PROVE  CleanupInvariant'
  BY <1>4, ReprocessInvariant
<1>5. CASE UNCHANGED vars
  BY <1>5 DEF vars, CleanupInvariant, TypeOK, ConsumersHoldRows, OperatorsHoldRequests,
              DeletedIsReal, SettledIsNotDelayed, Idle, AtRest
<1>6. QED
  BY <1>1, <1>2, <1>3, <1>4, <1>5 DEF Next

LEMMA CleanupIsConsistent == Spec => []CleanupInvariant
BY CleanupInitInvariant, CleanupNextInvariant, PTL DEF Spec

\* Rows, consumers, operators and events are what the code can store or hold.
THEOREM CleanupTypeCorrect == Spec => []TypeOK
BY CleanupIsConsistent, PTL DEF CleanupInvariant

-----------------------------------------------------------------------------
(* Settled rows.                                                           *)

\* A step that changes a settled row is a reprocess command that records its request.
LEMMA OnlyReprocessReopens ==
  ASSUME CleanupInvariant, [Next]_vars, NEW s \in Session,
         row[s].status \in {"PUBLISHED", "DEAD_LETTER"}, row'[s] # row[s]
  PROVE  row[s].failure = Retryable /\ \E e \in events' \ events : e.session = s
<1>0. row \in [Session -> CleanupRow] /\ ~ row[s].delayed
  BY DEF CleanupInvariant, TypeOK, SettledIsNotDelayed
<1>1. ASSUME NEW t \in Session,
             EnqueueSessionDelete(t) \/ RuntimeStep(t) \/ CleanupClaimExpires(t) \/ DelayElapses(t)
      PROVE  FALSE
  <2>1. \/ row'[s] = row[s] \/ t # s
        \/ row[t].status \in {"absent", "PUBLISHING"} \/ row[t].delayed
    BY <1>1 DEF EnqueueSessionDelete, RuntimeStep, CleanupClaimExpires, DelayElapses
  <2>2. t # s => row'[s] = row[s]
    BY <1>0, <1>1 DEF EnqueueSessionDelete, RuntimeStep, CleanupClaimExpires, DelayElapses
  <2>3. QED
    BY <1>0, <2>1, <2>2
<1>2. ASSUME NEW c \in Consumer, NEW t \in Session, ClaimNext(c, t)
      PROVE  FALSE
  BY <1>0, <1>2 DEF ClaimNext, Outstanding
<1>3. ASSUME NEW c \in Consumer, NEW status, NEW failure, NEW delayed,
             EndCleanup(c, status, failure, delayed)
      PROVE  FALSE
  <2>1. CASE consumer[c].session = s
    BY <1>3, <2>1 DEF EndCleanup, OwnsCleanup
  <2>2. CASE consumer[c].session # s
    BY <1>0, <1>3, <2>2 DEF EndCleanup
  <2>3. QED
    BY <2>1, <2>2
<1>4. ASSUME NEW c \in Consumer, CleanupStep(c) \/ ConsumerCrash(c)
      PROVE  FALSE
  <2>1. ~ Delete(c) /\ ~ ConsumerCrash(c)
    BY DEF Delete, ConsumerCrash
  <2>2. QED
    BY <1>2, <1>3, <1>4, <2>1
       DEF CleanupStep, MarkDeleted, DeadLetterRefused, DeadLetterExhausted, ReleaseForRetry
<1>5. ASSUME NEW o \in Operator, Reprocess(o)
      PROVE  row[s].failure = Retryable /\ \E e \in events' \ events : e.session = s
  <2>1. MayRequeue(o) /\ operator[o].session = s
    BY <1>0, <1>5 DEF Reprocess
  <2> DEFINE e == [request |-> operator[o].request, session |-> s]
  <2>2. events' = events \cup {e}
    BY <1>5, <2>1 DEF Reprocess
  <2>3. e \notin events
    BY <2>1 DEF MayRequeue
  <2>4. QED
    BY <2>1, <2>2, <2>3 DEF MayRequeue
<1>6. ASSUME NEW o \in Operator, NEW request \in Request, NEW t \in Session,
             LookUpRequest(o, request, t)
      PROVE  FALSE
  BY <1>6 DEF LookUpRequest
<1>7. CASE UNCHANGED vars
  BY <1>7 DEF vars
<1>8. QED
  BY <1>1, <1>4, <1>5, <1>6, <1>7 DEF Next

\* No late consumer, crashed claim or repeated command reopens a settled row: only a
\* reprocess command that is the first with its request id.
THEOREM SettledRowsAreFinal == Spec => SettledRowsStay
<1>1. CleanupInvariant /\ [Next]_vars =>
        [\A s \in Session :
           row[s].status \in {"PUBLISHED", "DEAD_LETTER"} /\ row'[s] # row[s] =>
             /\ row[s].failure = Retryable
             /\ \E e \in events' \ events : e.session = s]_vars
  BY OnlyReprocessReopens
<1>2. QED
  BY <1>1, CleanupIsConsistent, PTL DEF Spec, SettledRowsStay

-----------------------------------------------------------------------------
(* AgentSessionCleanup implements the safety half of SessionCleanup.       *)

LEMMA ReportedValues ==
  /\ Reported("absent") = "none"
  /\ Reported("PENDING") = "pending"
  /\ Reported("PUBLISHING") = "pending"
  /\ Reported("PUBLISHED") = "done"
  /\ Reported("DEAD_LETTER") = "dead"
BY DEF Reported

\* The image of row under the refinement mapping.
Cleanups == [s \in Session |-> Reported(row[s].status)]

\* A step that changes one row changes one cleanup, to what its new status reports.
LEMMA OneCleanupChanges ==
  ASSUME NEW s \in Session, \A t \in Session : t # s => row'[t] = row[t]
  PROVE  Cleanups' = [Cleanups EXCEPT ![s] = Reported(row'[s].status)]
BY DEF Cleanups

\* One that leaves what the statuses report leaves every cleanup.
LEMMA CleanupsRest ==
  ASSUME \A t \in Session : Reported(row'[t].status) = Reported(row[t].status)
  PROVE  Cleanups' = Cleanups
BY DEF Cleanups

LEMMA InitKeepsPromise == Init => Promise!CleanupInit
<1> SUFFICES ASSUME Init
             PROVE  Promise!CleanupInit
  OBVIOUS
<1>1. \A s \in Session : row[s].status = "absent"
  BY DEF Init, NoCleanup
<1>2. Cleanups = [s \in Session |-> "none"]
  BY <1>1, ReportedValues DEF Cleanups
<1>3. QED
  BY <1>2 DEF Init, Cleanups, Promise!CleanupInit

\* A step of the specification maps to a step of SessionCleanup or to a stutter.
KeepsPromise == [Promise!CleanupNext]_(Promise!cleanupVars)

LEMMA StutterKeepsPromise ==
  ASSUME UNCHANGED <<session, missed>>, Cleanups' = Cleanups
  PROVE  KeepsPromise
BY DEF KeepsPromise, Cleanups, Promise!cleanupVars

LEMMA EnqueueKeepsPromise ==
  ASSUME CleanupInvariant, NEW s \in Session, EnqueueSessionDelete(s)
  PROVE  KeepsPromise
<1>1. /\ row[s].status = "absent" /\ row'[s].status = "PENDING"
      /\ \A t \in Session : t # s => row'[t] = row[t]
  BY DEF EnqueueSessionDelete, CleanupInvariant, TypeOK, CleanupRow
<1>2. Cleanups[s] = "none" /\ Cleanups' = [Cleanups EXCEPT ![s] = "pending"]
  BY <1>1, ReportedValues, OneCleanupChanges DEF Cleanups
<1>3. Promise!Enqueue(s)
  BY <1>2 DEF EnqueueSessionDelete, Cleanups, Promise!Enqueue, Promise!Becomes
<1>4. QED
  BY <1>3 DEF KeepsPromise, Promise!CleanupNext

LEMMA RuntimeKeepsPromise ==
  ASSUME NEW s \in Session, RuntimeStep(s)
  PROVE  KeepsPromise
<1>1. Cleanups' = Cleanups
  BY CleanupsRest DEF RuntimeStep
<1>2. Promise!RuntimeCreates(s) \/ Promise!RuntimeDeletes(s)
  BY <1>1 DEF RuntimeStep, Cleanups, Promise!RuntimeCreates, Promise!RuntimeDeletes
<1>3. QED
  BY <1>2 DEF KeepsPromise, Promise!CleanupNext

\* Expiring claims, elapsing delays and a crashing consumer are invisible.
LEMMA TimeKeepsPromise ==
  ASSUME CleanupInvariant,
         NEW s \in Session, CleanupClaimExpires(s) \/ DelayElapses(s)
  PROVE  KeepsPromise
<1>1. /\ \A t \in Session : row'[t].status = row[t].status
      /\ UNCHANGED <<session, missed>>
  BY DEF CleanupClaimExpires, DelayElapses, CleanupInvariant, TypeOK, CleanupRow
<1>2. QED
  BY <1>1, CleanupsRest, StutterKeepsPromise

\* Nor is a claim visible: what is claimed was pending, also when it was claimed before.
LEMMA ClaimKeepsPromise ==
  ASSUME CleanupInvariant, NEW c \in Consumer, NEW s \in Session, ClaimNext(c, s)
  PROVE  KeepsPromise
<1>1. row[s].status \in {"PENDING", "PUBLISHING"}
  BY DEF ClaimNext, Outstanding
<1>2. /\ row'[s].status = "PUBLISHING" /\ UNCHANGED <<session, missed>>
      /\ \A t \in Session : t # s => row'[t] = row[t]
  BY DEF ClaimNext, CleanupInvariant, TypeOK, CleanupRow
<1>3. Reported(row'[s].status) = Reported(row[s].status)
  BY <1>1, <1>2, ReportedValues
<1>4. QED
  BY <1>2, <1>3, CleanupsRest, StutterKeepsPromise

\* A delete call removes the session, does not find it, or changes nothing.
LEMMA DeleteKeepsPromise ==
  ASSUME CleanupInvariant, NEW c \in Consumer, Delete(c)
  PROVE  KeepsPromise
<1> DEFINE s == consumer[c].session
<1>1. consumer[c].pc = "claimed"
  BY DEF Delete
<1>2. s \in Session /\ row[s].status # "absent"
  BY <1>1 DEF CleanupInvariant, ConsumersHoldRows, Idle
<1>3. /\ row[s].status \in {"PENDING", "PUBLISHING", "PUBLISHED", "DEAD_LETTER"}
      /\ session \in [Session -> {"none", "alive", "gone"}]
  BY <1>2 DEF CleanupInvariant, TypeOK, CleanupRow
<1>4. Cleanups[s] # "none"
  BY <1>2, <1>3, ReportedValues DEF Cleanups
<1>5. Cleanups' = Cleanups
  BY CleanupsRest DEF Delete
<1>6. \/ session' = session
      \/ session[s] = "alive" /\ session' = [session EXCEPT ![s] = "gone"]
  BY <1>3 DEF Delete
<1>7. \/ missed' = missed
      \/ session[s] = "none" /\ session' = session /\ missed' = missed \cup {s}
  BY <1>3 DEF Delete
<1>8. CASE UNCHANGED <<session, missed>>
  BY <1>5, <1>8, StutterKeepsPromise
<1>9. CASE ~ UNCHANGED <<session, missed>>
  <2>1. Promise!Remove(s)
    BY <1>4, <1>5, <1>6, <1>7, <1>9 DEF Cleanups, Promise!Remove
  <2>2. QED
    BY <1>2, <2>1 DEF KeepsPromise, Promise!CleanupNext, Promise!CleanupStep
<1>10. QED
  BY <1>8, <1>9

\* Whoever ends a claim settles the row as its delete call allows, or writes nothing.
LEMMA EndKeepsPromise ==
  ASSUME CleanupInvariant, NEW c \in Consumer, consumer[c].pc # "idle",
         NEW status \in {"PENDING", "PUBLISHED", "DEAD_LETTER"}, NEW failure, NEW delayed,
         status = "PUBLISHED" => consumer[c].pc = "deleted",
         EndCleanup(c, status, failure, delayed)
  PROVE  KeepsPromise
<1> DEFINE s == consumer[c].session
<1>1. s \in Session
  BY DEF CleanupInvariant, ConsumersHoldRows, Idle
<1>2. UNCHANGED <<session, missed>>
  BY DEF EndCleanup
<1>3. CASE ~ OwnsCleanup(c)
  <2>1. row' = row
    BY <1>3 DEF EndCleanup
  <2>2. QED
    BY <1>2, <2>1, CleanupsRest, StutterKeepsPromise
<1>4. CASE OwnsCleanup(c)
  <2>1. row[s].status = "PUBLISHING"
    BY <1>4 DEF OwnsCleanup
  <2>2. row'[s].status = status /\ \A t \in Session : t # s => row'[t] = row[t]
    BY <1>1, <1>4 DEF EndCleanup, CleanupInvariant, TypeOK, CleanupRow
  <2>3. Cleanups[s] = "pending" /\ Cleanups' = [Cleanups EXCEPT ![s] = Reported(status)]
    BY <1>1, <2>1, <2>2, ReportedValues, OneCleanupChanges DEF Cleanups
  <2>4. CASE status = "PENDING"
    <3>1. Reported(row'[s].status) = Reported(row[s].status)
      BY <2>1, <2>2, <2>4, ReportedValues
    <3>2. QED
      BY <1>2, <2>2, <3>1, CleanupsRest, StutterKeepsPromise
  <2>5. CASE status = "PUBLISHED"
    <3>1. session[s] = "gone" \/ s \in missed
      BY <2>5 DEF CleanupInvariant, DeletedIsReal
    <3>2. Promise!Finish(s)
      BY <1>2, <2>3, <2>5, <3>1, ReportedValues
         DEF Cleanups, Promise!Finish, Promise!Becomes
    <3>3. QED
      BY <1>1, <3>2
         DEF KeepsPromise, Promise!CleanupNext, Promise!CleanupStep, Promise!Settle
  <2>6. CASE status = "DEAD_LETTER"
    <3>1. Promise!GiveUp(s)
      BY <1>2, <2>3, <2>6, ReportedValues DEF Cleanups, Promise!GiveUp, Promise!Becomes
    <3>2. QED
      BY <1>1, <3>1
         DEF KeepsPromise, Promise!CleanupNext, Promise!CleanupStep, Promise!Settle
  <2>7. QED
    BY <2>4, <2>5, <2>6
<1>5. QED
  BY <1>3, <1>4

LEMMA ReprocessKeepsPromise ==
  ASSUME CleanupInvariant, NEW o \in Operator, Reprocess(o)
  PROVE  KeepsPromise
<1> DEFINE s == operator[o].session
<1>1. UNCHANGED <<session, missed>>
  BY DEF Reprocess
<1>2. CASE ~ MayRequeue(o)
  <2>1. row' = row
    BY <1>2 DEF Reprocess
  <2>2. QED
    BY <1>1, <2>1, CleanupsRest, StutterKeepsPromise
<1>3. CASE MayRequeue(o)
  <2>1. s \in Session /\ row[s].status = "DEAD_LETTER"
    BY <1>3 DEF Reprocess, MayRequeue, CleanupInvariant, OperatorsHoldRequests
  <2>2. row'[s].status = "PENDING" /\ \A t \in Session : t # s => row'[t] = row[t]
    <3> DEFINE next == [row[s] EXCEPT
                          !.status = "PENDING", !.attempts = 0, !.failure = "none",
                          !.token = 0, !.expired = FALSE, !.delayed = FALSE]
    <3>1. row[s] \in CleanupRow /\ row \in [Session -> CleanupRow]
      BY <2>1 DEF CleanupInvariant, TypeOK
    <3>2. next.status = "PENDING"
      BY <3>1 DEF CleanupRow
    <3>3. row' = [row EXCEPT ![s] = next]
      BY <1>3 DEF Reprocess
    <3>4. QED
      BY <2>1, <3>1, <3>2, <3>3
  <2>3. Cleanups[s] = "dead" /\ Cleanups' = [Cleanups EXCEPT ![s] = "pending"]
    BY <2>1, <2>2, ReportedValues, OneCleanupChanges DEF Cleanups
  <2>4. Promise!Requeue(s)
    BY <1>1, <2>3 DEF Cleanups, Promise!Requeue, Promise!Becomes
  <2>5. QED
    BY <2>1, <2>4 DEF KeepsPromise, Promise!CleanupNext, Promise!CleanupStep
<1>4. QED
  BY <1>2, <1>3

LEMMA ConsumerKeepsPromise ==
  ASSUME CleanupInvariant, NEW c \in Consumer, CleanupStep(c) \/ ConsumerCrash(c)
  PROVE  KeepsPromise
<1>1. CASE \E s \in Session : ClaimNext(c, s)
  BY <1>1, ClaimKeepsPromise
<1>2. CASE Delete(c)
  BY <1>2, DeleteKeepsPromise
<1>3. CASE MarkDeleted(c)
  BY <1>3, EndKeepsPromise DEF MarkDeleted
<1>4. CASE DeadLetterRefused(c)
  BY <1>4, EndKeepsPromise DEF DeadLetterRefused
<1>5. CASE DeadLetterExhausted(c)
  BY <1>5, EndKeepsPromise DEF DeadLetterExhausted
<1>6. CASE ReleaseForRetry(c)
  BY <1>6, EndKeepsPromise DEF ReleaseForRetry
<1>7. CASE ConsumerCrash(c)
  BY <1>7, CleanupsRest, StutterKeepsPromise DEF ConsumerCrash
<1>8. QED
  BY <1>1, <1>2, <1>3, <1>4, <1>5, <1>6, <1>7 DEF CleanupStep

LEMMA NextKeepsPromise ==
  ASSUME CleanupInvariant, [Next]_vars
  PROVE  KeepsPromise
<1>1. ASSUME NEW s \in Session,
             EnqueueSessionDelete(s) \/ RuntimeStep(s) \/ CleanupClaimExpires(s) \/ DelayElapses(s)
      PROVE  KeepsPromise
  BY <1>1, EnqueueKeepsPromise, RuntimeKeepsPromise, TimeKeepsPromise
<1>2. ASSUME NEW c \in Consumer, CleanupStep(c) \/ ConsumerCrash(c)
      PROVE  KeepsPromise
  BY <1>2, ConsumerKeepsPromise
<1>3. ASSUME NEW o \in Operator, NEW request \in Request, NEW s \in Session,
             LookUpRequest(o, request, s)
      PROVE  KeepsPromise
  BY <1>3, CleanupsRest, StutterKeepsPromise DEF LookUpRequest
<1>4. ASSUME NEW o \in Operator, Reprocess(o)
      PROVE  KeepsPromise
  BY <1>4, ReprocessKeepsPromise
<1>5. CASE UNCHANGED vars
  BY <1>5, CleanupsRest, StutterKeepsPromise DEF vars
<1>6. QED
  BY <1>1, <1>2, <1>3, <1>4, <1>5 DEF Next

\* Whichever consumers hold a claim one after the other, a session counts as cleaned up
\* only when it is gone or was not found, and a cleanup ends only as done or as a dead
\* letter.  (That it ends is the other half of CleanupPromise.)
THEOREM CleanupKeepsPromise == Spec => Promise!CleanupSafety
<1>1. CleanupInvariant /\ [Next]_vars => [Promise!CleanupNext]_(Promise!cleanupVars)
  BY NextKeepsPromise DEF KeepsPromise
<1>2. QED
  BY <1>1, InitKeepsPromise, CleanupIsConsistent, PTL DEF Spec, Promise!CleanupSafety
=============================================================================
