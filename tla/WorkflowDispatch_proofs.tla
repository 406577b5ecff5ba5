------------------------ MODULE WorkflowDispatch_proofs ------------------------
(***************************************************************************)
(* Theorems about WorkflowDispatch, for any number of runs, dispatchers and  *)
(* faults.  That delivery is duplicated by faults only is not inductive: it  *)
(* needs that a row which may be claimed again has been paid for, which in   *)
(* turn needs to know whose claims are still clean.                          *)
(***************************************************************************)
EXTENDS WorkflowDispatch, TLAPS

-----------------------------------------------------------------------------
(* The inductive invariant.                                                *)

\* Every claim of the row so far was followed by a fault.
Paid(r) == outbox[r].attempts <= dispatchFaults

\* The dispatcher at work on the row's present claim.
Holds(d, r) ==
  /\ dispatcher[d].pc \in {"claimed", "sent"}
  /\ dispatcher[d].run = r
  /\ OwnsClaim(d)

\* A dispatcher that is not resting was given its claim by the row it works on.
ClaimsWereGiven ==
  \A d \in Dispatcher :
    \/ dispatcher[d] = Resting
    \/ /\ dispatcher[d].pc # "idle"
       /\ dispatcher[d].run \in Run
       /\ dispatcher[d].claim <= outbox[dispatcher[d].run].attempts

\* A row without a dispatcher at work on its claim has been paid for.
UnheldIsPaid ==
  \A r \in Run :
    /\ outbox[r].status \in {"absent", "PENDING"} => Paid(r)
    /\ outbox[r].status = "PUBLISHING" =>
         Paid(r) \/ (~ outbox[r].expired /\ \E d \in Dispatcher : Holds(d, r))

FailedIsPaid ==
  \A d \in Dispatcher :
    dispatcher[d].pc = "failed" /\ OwnsClaim(d) => Paid(dispatcher[d].run)

DispatchInvariant ==
  /\ DispatchTypeOK
  /\ ClaimsWereGiven
  /\ UnheldIsPaid
  /\ FailedIsPaid
  /\ DuplicatesComeFromFaults

-----------------------------------------------------------------------------
LEMMA DispatchInitInvariant == DispatchInit => DispatchInvariant
<1> SUFFICES ASSUME DispatchInit
             PROVE  DispatchInvariant
  OBVIOUS
<1>1. DispatchTypeOK
  BY DispatchAssumption DEF DispatchInit, DispatchTypeOK, NoRow, Resting
<1>2. ClaimsWereGiven
  BY DEF DispatchInit, ClaimsWereGiven
<1>3. ASSUME NEW r \in Run
      PROVE  outbox[r].attempts <= dispatchFaults /\ outbox[r].attempts <= 1 + dispatchFaults
  BY DEF DispatchInit, NoRow
<1>4. UnheldIsPaid
  BY <1>3 DEF DispatchInit, NoRow, Paid, UnheldIsPaid
<1>5. FailedIsPaid
  BY DEF DispatchInit, Resting, FailedIsPaid
<1>6. DuplicatesComeFromFaults
  BY <1>3 DEF DuplicatesComeFromFaults
<1>7. QED
  BY <1>1, <1>2, <1>4, <1>5, <1>6 DEF DispatchInvariant

\* A fault pays for the last claim of every row.
LEMMA FaultPays ==
  ASSUME DispatchInvariant, DispatchFault,
         \A r \in Run : outbox'[r].attempts = outbox[r].attempts
  PROVE  /\ dispatchFaults' \in 0..MaxDispatchFaults
         /\ \A r \in Run : Paid(r)'
         /\ DuplicatesComeFromFaults'
<1>1. dispatchFaults \in Nat /\ dispatchFaults' = dispatchFaults + 1
  BY DispatchAssumption DEF DispatchInvariant, DispatchTypeOK, DispatchFault
<1>2. dispatchFaults' \in 0..MaxDispatchFaults
  BY <1>1, DispatchAssumption DEF DispatchFault
<1>3. \A r \in Run : outbox[r].attempts \in Nat /\ outbox[r].attempts <= 1 + dispatchFaults
  BY DEF DispatchInvariant, DispatchTypeOK, DuplicatesComeFromFaults
<1>4. \A r \in Run : Paid(r)'
  BY <1>1, <1>3 DEF Paid
<1>5. DuplicatesComeFromFaults'
  BY <1>1, <1>3 DEF DuplicatesComeFromFaults
<1>6. QED
  BY <1>2, <1>4, <1>5

LEMMA InsertInvariant ==
  ASSUME DispatchInvariant, NEW r \in Run, InsertOutbox(r)
  PROVE  DispatchInvariant'
<1>1. outbox'[r].status = "PENDING" /\ outbox[r].status = "absent"
  BY DEF InsertOutbox, DispatchInvariant, DispatchTypeOK
<1>2. DispatchTypeOK'
  BY DEF InsertOutbox, DispatchInvariant, DispatchTypeOK
<1>3. \A q \in Run : /\ outbox'[q].attempts = outbox[q].attempts
                     /\ q # r => outbox'[q] = outbox[q]
  BY DEF InsertOutbox, DispatchInvariant, DispatchTypeOK
<1>4. ClaimsWereGiven'
  BY <1>3 DEF InsertOutbox, DispatchInvariant, ClaimsWereGiven, Resting
<1>5. \A q \in Run : Paid(q)' <=> Paid(q)
  BY <1>3 DEF Paid, InsertOutbox
<1>6. UnheldIsPaid'
  <2>1. outbox[r].status = "absent" /\ Paid(r) /\ outbox'[r].status = "PENDING"
    BY <1>1 DEF InsertOutbox, DispatchInvariant, DispatchTypeOK, UnheldIsPaid
  <2>2. ASSUME NEW q \in Run, q # r, outbox[q].status = "PUBLISHING", ~ Paid(q)
        PROVE  ~ outbox[q].expired /\ \E d \in Dispatcher : Holds(d, q)'
    <3>1. PICK d \in Dispatcher : Holds(d, q)
      BY <2>2 DEF DispatchInvariant, UnheldIsPaid
    <3>2. Holds(d, q)'
      BY <1>3, <2>2, <3>1 DEF Holds, OwnsClaim, InsertOutbox
    <3>3. QED
      BY <2>2, <3>2 DEF DispatchInvariant, UnheldIsPaid
  <2>3. QED
    BY <1>3, <1>5, <2>1, <2>2 DEF DispatchInvariant, UnheldIsPaid
<1>7. FailedIsPaid'
  <2> SUFFICES ASSUME NEW d \in Dispatcher,
                      dispatcher'[d].pc = "failed", OwnsClaim(d)'
               PROVE  outbox'[dispatcher[d].run].attempts <= dispatchFaults'
    BY DEF FailedIsPaid, Paid, InsertOutbox
  <2>1. dispatcher[d].run \in Run /\ dispatcher[d].pc = "failed"
    BY DEF InsertOutbox, DispatchInvariant, ClaimsWereGiven, Resting
  <2>2. dispatcher[d].run # r
    BY <1>1, <2>1 DEF OwnsClaim, InsertOutbox, DispatchInvariant, DispatchTypeOK
  <2>3. OwnsClaim(d)
    BY <1>3, <2>1, <2>2 DEF OwnsClaim, InsertOutbox
  <2>4. QED
    BY <1>3, <2>1, <2>3 DEF DispatchInvariant, FailedIsPaid, Paid, InsertOutbox
<1>8. DuplicatesComeFromFaults'
  BY <1>3 DEF InsertOutbox, DispatchInvariant, DuplicatesComeFromFaults
<1>9. QED
  BY <1>2, <1>4, <1>6, <1>7, <1>8 DEF DispatchInvariant

LEMMA ClaimInvariant ==
  ASSUME DispatchInvariant, NEW d \in Dispatcher, NEW r \in Run, ClaimOutbox(d, r)
  PROVE  DispatchInvariant'
<1>1. /\ outbox'[r].status = "PUBLISHING"
      /\ outbox'[r].attempts = outbox[r].attempts + 1
      /\ ~ outbox'[r].expired
      /\ \A q \in Run : q # r => outbox'[q] = outbox[q]
  BY DEF ClaimOutbox, DispatchInvariant, DispatchTypeOK
<1>2. /\ dispatcher'[d].pc = "claimed"
      /\ dispatcher'[d].run = r
      /\ dispatcher'[d].claim = outbox[r].attempts + 1
      /\ \A e \in Dispatcher : e # d => dispatcher'[e] = dispatcher[e]
  BY DEF ClaimOutbox, DispatchInvariant, DispatchTypeOK
<1>3. DispatchTypeOK'
  BY DEF ClaimOutbox, DispatchInvariant, DispatchTypeOK
<1>4. /\ outbox[r].attempts \in Nat
      /\ dispatchFaults \in Nat
      /\ outbox[r].attempts <= dispatchFaults
      /\ dispatchFaults' = dispatchFaults
  BY DispatchAssumption
     DEF ClaimOutbox, Claimable, DispatchInvariant, DispatchTypeOK, UnheldIsPaid, Paid
<1>5. ClaimsWereGiven'
  <2> SUFFICES ASSUME NEW e \in Dispatcher, dispatcher'[e] # Resting
               PROVE  /\ dispatcher'[e].pc # "idle"
                      /\ dispatcher'[e].run \in Run
                      /\ dispatcher'[e].claim <= outbox'[dispatcher'[e].run].attempts
    BY DEF ClaimsWereGiven
  <2>1. CASE e = d
    BY <1>1, <1>2, <1>4, <2>1
  <2>2. CASE e # d
    <3>1. /\ dispatcher[e].pc # "idle"
          /\ dispatcher[e].run \in Run
          /\ dispatcher[e].claim <= outbox[dispatcher[e].run].attempts
          /\ dispatcher[e].claim \in Nat
      BY <1>2, <2>2 DEF DispatchInvariant, ClaimsWereGiven, DispatchTypeOK
    <3>2. QED
      BY <1>1, <1>2, <1>4, <2>2, <3>1
  <2>3. QED
    BY <2>1, <2>2
<1>6. UnheldIsPaid'
  <2>1. Holds(d, r)'
    BY <1>1, <1>2 DEF Holds, OwnsClaim
  <2>2. ASSUME NEW q \in Run, q # r, outbox[q].status = "PUBLISHING", ~ Paid(q)
        PROVE  ~ outbox[q].expired /\ \E e \in Dispatcher : Holds(e, q)'
    <3>1. ~ outbox[q].expired /\ \E e \in Dispatcher : Holds(e, q)
      BY <2>2 DEF DispatchInvariant, UnheldIsPaid
    <3>2. PICK e \in Dispatcher : Holds(e, q)
      BY <3>1
    <3>3. e # d
      BY <3>2 DEF Holds, ClaimOutbox
    <3>4. Holds(e, q)'
      BY <1>1, <1>2, <2>2, <3>2, <3>3 DEF Holds, OwnsClaim
    <3>5. QED
      BY <3>1, <3>4
  <2>3. \A q \in Run : q # r => (Paid(q)' <=> Paid(q))
    BY <1>1, <1>4 DEF Paid
  <2>4. QED
    BY <1>1, <2>1, <2>2, <2>3 DEF DispatchInvariant, UnheldIsPaid
<1>7. FailedIsPaid'
  <2> SUFFICES ASSUME NEW e \in Dispatcher, dispatcher'[e].pc = "failed", OwnsClaim(e)'
               PROVE  outbox'[dispatcher'[e].run].attempts <= dispatchFaults'
    BY DEF FailedIsPaid, Paid
  <2>1. e # d
    BY <1>2
  <2>2. /\ dispatcher'[e] = dispatcher[e]
        /\ dispatcher[e].run \in Run
        /\ dispatcher[e].claim <= outbox[dispatcher[e].run].attempts
    BY <1>2, <2>1 DEF DispatchInvariant, ClaimsWereGiven, Resting
  <2>3. dispatcher[e].run # r
    BY <1>1, <1>4, <2>2 DEF OwnsClaim
  <2>4. OwnsClaim(e)
    BY <1>1, <2>2, <2>3 DEF OwnsClaim
  <2>5. QED
    BY <1>1, <1>4, <2>2, <2>3, <2>4 DEF DispatchInvariant, FailedIsPaid, Paid
<1>8. DuplicatesComeFromFaults'
  BY <1>1, <1>4 DEF DispatchInvariant, DuplicatesComeFromFaults
<1>9. QED
  BY <1>3, <1>5, <1>6, <1>7, <1>8 DEF DispatchInvariant

\* Where a step leaves every claim paid for, nothing else is owed.
LEMMA AllPaid ==
  ASSUME DispatchTypeOK', ClaimsWereGiven', DuplicatesComeFromFaults',
         \A r \in Run : Paid(r)'
  PROVE  DispatchInvariant'
<1>1. UnheldIsPaid'
  BY DEF UnheldIsPaid
<1>2. FailedIsPaid'
  BY DEF FailedIsPaid, ClaimsWereGiven, Resting
<1>3. QED
  BY <1>1, <1>2 DEF DispatchInvariant

LEMMA PublishInvariant ==
  ASSUME DispatchInvariant, NEW d \in Dispatcher, Publish(d)
  PROVE  DispatchInvariant'
<1>1. /\ dispatcher'[d].pc = "sent"
      /\ dispatcher[d].pc = "claimed"
      /\ dispatcher'[d].run = dispatcher[d].run
      /\ dispatcher'[d].claim = dispatcher[d].claim
      /\ \A e \in Dispatcher : e # d => dispatcher'[e] = dispatcher[e]
      /\ outbox' = outbox /\ dispatchFaults' = dispatchFaults
  BY DEF Publish, DispatchInvariant, DispatchTypeOK
<1>2. dispatcher[d].run \in Run /\ dispatcher[d].claim \in Nat
  BY <1>1 DEF DispatchInvariant, ClaimsWereGiven, DispatchTypeOK, Resting
<1>3. DispatchTypeOK'
  BY <1>2 DEF Publish, DispatchInvariant, DispatchTypeOK
<1>4. ClaimsWereGiven'
  BY <1>1, <1>2 DEF DispatchInvariant, ClaimsWereGiven, Resting
<1>5. \A e \in Dispatcher, r \in Run : Holds(e, r) => Holds(e, r)'
  BY <1>1 DEF Holds, OwnsClaim
<1>6. UnheldIsPaid'
  BY <1>1, <1>5 DEF DispatchInvariant, UnheldIsPaid, Paid
<1>7. FailedIsPaid'
  BY <1>1 DEF DispatchInvariant, FailedIsPaid, OwnsClaim, Paid
<1>8. DuplicatesComeFromFaults'
  BY <1>1 DEF DispatchInvariant, DuplicatesComeFromFaults
<1>9. QED
  BY <1>3, <1>4, <1>6, <1>7, <1>8 DEF DispatchInvariant

LEMMA PublishFailsInvariant ==
  ASSUME DispatchInvariant, NEW d \in Dispatcher, PublishFails(d)
  PROVE  DispatchInvariant'
<1>1. dispatcher[d].run \in Run /\ dispatcher[d].claim \in Nat
  BY DEF PublishFails, DispatchInvariant, ClaimsWereGiven, DispatchTypeOK, Resting
<1>2. /\ dispatchFaults' \in 0..MaxDispatchFaults
      /\ \A r \in Run : Paid(r)'
      /\ DuplicatesComeFromFaults'
  BY FaultPays DEF PublishFails
<1>3. DispatchTypeOK'
  BY <1>1, <1>2 DEF PublishFails, DispatchInvariant, DispatchTypeOK
<1>4. /\ dispatcher'[d].pc = "failed"
      /\ dispatcher[d].pc = "claimed"
      /\ dispatcher'[d].run = dispatcher[d].run
      /\ dispatcher'[d].claim = dispatcher[d].claim
      /\ \A e \in Dispatcher : e # d => dispatcher'[e] = dispatcher[e]
      /\ outbox' = outbox
  BY DEF PublishFails, DispatchInvariant, DispatchTypeOK
<1>5. ClaimsWereGiven'
  BY <1>1, <1>4 DEF DispatchInvariant, ClaimsWereGiven, Resting
<1>6. QED
  BY <1>2, <1>3, <1>5, AllPaid

LEMMA CrashInvariant ==
  ASSUME DispatchInvariant, NEW d \in Dispatcher, DispatcherCrash(d)
  PROVE  DispatchInvariant'
<1>1. /\ dispatchFaults' \in 0..MaxDispatchFaults
      /\ \A r \in Run : Paid(r)'
      /\ DuplicatesComeFromFaults'
  BY FaultPays DEF DispatcherCrash
<1>2. DispatchTypeOK'
  BY <1>1 DEF DispatcherCrash, DispatchInvariant, DispatchTypeOK, Resting
<1>3. ClaimsWereGiven'
  BY DEF DispatcherCrash, DispatchInvariant, ClaimsWereGiven, DispatchTypeOK
<1>4. QED
  BY <1>1, <1>2, <1>3, AllPaid

\* A claim ends as PENDING after a failure, for which it was paid, or as PUBLISHED, from
\* where it is not claimed again.
LEMMA EndClaimInvariant ==
  ASSUME DispatchInvariant, NEW d \in Dispatcher, NEW status, EndClaim(d, status),
         \/ status = "PENDING" /\ dispatcher[d].pc = "failed"
         \/ status = "PUBLISHED" /\ dispatcher[d].pc = "sent"
  PROVE  DispatchInvariant'
<1> DEFINE r == dispatcher[d].run
<1>1. /\ dispatcher'[d] = Resting
      /\ \A e \in Dispatcher : e # d => dispatcher'[e] = dispatcher[e]
      /\ dispatchFaults' = dispatchFaults
  BY DEF EndClaim, DispatchInvariant, DispatchTypeOK
<1>2. r \in Run
  BY DEF DispatchInvariant, ClaimsWereGiven, Resting
<1>3. /\ \A q \in Run : outbox'[q].attempts = outbox[q].attempts
      /\ \A q \in Run : q # r => outbox'[q] = outbox[q]
      /\ ~ OwnsClaim(d) => outbox' = outbox
      /\ OwnsClaim(d) => outbox'[r].status = status
  BY <1>2 DEF EndClaim, DispatchInvariant, DispatchTypeOK
<1>4. DispatchTypeOK'
  <2>1. dispatcher' \in [Dispatcher ->
          [pc : {"idle", "claimed", "failed", "sent"},
           run : Run \cup {NoRunToPublish}, claim : Nat]]
    BY DEF EndClaim, DispatchInvariant, DispatchTypeOK, Resting
  <2>2. outbox' \in [Run ->
          [status : {"absent", "PENDING", "PUBLISHING", "PUBLISHED"},
           attempts : Nat, expired : BOOLEAN]]
    BY <1>2 DEF EndClaim, DispatchInvariant, DispatchTypeOK
  <2>3. QED
    BY <2>1, <2>2 DEF EndClaim, DispatchInvariant, DispatchTypeOK
<1>5. ClaimsWereGiven'
  BY <1>1, <1>3 DEF DispatchInvariant, ClaimsWereGiven
<1>6. UnheldIsPaid'
  <2>1. \A q \in Run : Paid(q)' <=> Paid(q)
    BY <1>1, <1>3 DEF Paid
  <2>2. OwnsClaim(d) /\ status = "PENDING" => Paid(r)
    BY DEF DispatchInvariant, FailedIsPaid
  <2>3. ASSUME NEW q \in Run, outbox'[q] = outbox[q], ~ (q = r /\ OwnsClaim(d)),
               outbox[q].status = "PUBLISHING", ~ Paid(q)
        PROVE  ~ outbox[q].expired /\ \E e \in Dispatcher : Holds(e, q)'
    <3>1. ~ outbox[q].expired /\ \E e \in Dispatcher : Holds(e, q)
      BY <2>3 DEF DispatchInvariant, UnheldIsPaid
    <3>2. PICK e \in Dispatcher : Holds(e, q)
      BY <3>1
    <3>3. e # d
      BY <2>3, <3>2 DEF Holds
    <3>4. Holds(e, q)'
      BY <1>1, <2>3, <3>2, <3>3 DEF Holds, OwnsClaim
    <3>5. QED
      BY <3>1, <3>4
  <2>4. ASSUME NEW q \in Run, q # r \/ ~ OwnsClaim(d)
        PROVE  outbox'[q] = outbox[q]
    BY <1>3, <2>4
  <2>5. ASSUME NEW q \in Run
        PROVE  /\ outbox'[q].status \in {"absent", "PENDING"} => Paid(q)'
               /\ outbox'[q].status = "PUBLISHING" =>
                    \/ Paid(q)'
                    \/ ~ outbox'[q].expired /\ \E e \in Dispatcher : Holds(e, q)'
    <3>1. CASE q = r /\ OwnsClaim(d)
      BY <1>3, <2>1, <2>2, <3>1
    <3>2. CASE ~ (q = r /\ OwnsClaim(d))
      BY <2>1, <2>3, <2>4, <3>2 DEF DispatchInvariant, UnheldIsPaid
    <3>3. QED
      BY <3>1, <3>2
  <2>6. QED
    BY <2>5 DEF UnheldIsPaid
<1>7. FailedIsPaid'
  <2> SUFFICES ASSUME NEW e \in Dispatcher, dispatcher'[e].pc = "failed", OwnsClaim(e)'
               PROVE  outbox'[dispatcher'[e].run].attempts <= dispatchFaults'
    BY DEF FailedIsPaid, Paid
  <2>1. e # d /\ dispatcher'[e] = dispatcher[e] /\ dispatcher[e].run \in Run
    BY <1>1 DEF Resting, DispatchInvariant, ClaimsWereGiven
  <2>2. outbox'[dispatcher[e].run].status = "PUBLISHING"
    BY <2>1 DEF OwnsClaim
  <2>3. OwnsClaim(e)
    BY <1>3, <2>1, <2>2 DEF OwnsClaim
  <2>4. QED
    BY <1>1, <1>3, <2>1, <2>3 DEF DispatchInvariant, FailedIsPaid, Paid
<1>8. DuplicatesComeFromFaults'
  BY <1>1, <1>3 DEF DispatchInvariant, DuplicatesComeFromFaults
<1>9. QED
  BY <1>4, <1>5, <1>6, <1>7, <1>8 DEF DispatchInvariant

\* Time runs out for a claim nobody holds, which is paid for, or a fault pays for it.
LEMMA DispatchExpiryInvariant ==
  ASSUME DispatchInvariant, NEW r \in Run, ClaimExpires(r)
  PROVE  DispatchInvariant'
<1>1. /\ outbox'[r].status = "PUBLISHING"
      /\ outbox'[r].attempts = outbox[r].attempts
      /\ \A q \in Run : q # r => outbox'[q] = outbox[q]
      /\ dispatcher' = dispatcher
      /\ outbox[r].status = "PUBLISHING"
  BY DEF ClaimExpires, DispatchInvariant, DispatchTypeOK
<1>2. \A q \in Run : outbox'[q].attempts = outbox[q].attempts
  BY <1>1
<1>3. ClaimsWereGiven'
  BY <1>1, <1>2 DEF DispatchInvariant, ClaimsWereGiven, Resting
<1>4. CASE \E d \in Dispatcher : dispatcher[d].run = r /\ OwnsClaim(d)
  <2>1. DispatchFault
    BY <1>4 DEF ClaimExpires
  <2>2. /\ dispatchFaults' \in 0..MaxDispatchFaults
        /\ \A q \in Run : Paid(q)'
        /\ DuplicatesComeFromFaults'
    BY <1>2, <2>1, FaultPays
  <2>3. DispatchTypeOK'
    BY <2>2 DEF ClaimExpires, DispatchInvariant, DispatchTypeOK
  <2>4. QED
    BY <1>3, <2>2, <2>3, AllPaid
<1>5. CASE ~ \E d \in Dispatcher : dispatcher[d].run = r /\ OwnsClaim(d)
  <2>1. dispatchFaults' = dispatchFaults
    BY <1>5 DEF ClaimExpires
  <2>2. Paid(r)
    BY <1>1, <1>5 DEF DispatchInvariant, UnheldIsPaid, Holds
  <2>3. DispatchTypeOK'
    BY <2>1 DEF ClaimExpires, DispatchInvariant, DispatchTypeOK
  <2>4. \A q \in Run : Paid(q)' <=> Paid(q)
    BY <1>2, <2>1 DEF Paid
  <2>5. \A d \in Dispatcher, q \in Run : q # r /\ Holds(d, q) => Holds(d, q)'
    BY <1>1 DEF Holds, OwnsClaim
  <2>6. UnheldIsPaid'
    BY <1>1, <2>2, <2>4, <2>5 DEF DispatchInvariant, UnheldIsPaid
  <2>7. FailedIsPaid'
    <3> SUFFICES ASSUME NEW d \in Dispatcher, dispatcher[d].pc = "failed", OwnsClaim(d)'
                 PROVE  outbox'[dispatcher[d].run].attempts <= dispatchFaults'
      BY <1>1 DEF FailedIsPaid, Paid
    <3>1. dispatcher[d].run \in Run
      BY DEF DispatchInvariant, ClaimsWereGiven, Resting
    <3>2. OwnsClaim(d)
      BY <1>1, <1>2, <3>1 DEF OwnsClaim
    <3>3. QED
      BY <1>2, <2>1, <3>1, <3>2 DEF DispatchInvariant, FailedIsPaid, Paid
  <2>8. DuplicatesComeFromFaults'
    BY <1>2, <2>1 DEF DispatchInvariant, DuplicatesComeFromFaults
  <2>9. QED
    BY <1>3, <2>3, <2>6, <2>7, <2>8 DEF DispatchInvariant
<1>6. QED
  BY <1>4, <1>5

-----------------------------------------------------------------------------
LEMMA DispatchNextInvariant == DispatchInvariant /\ [DispatchNext]_dispatchVars => DispatchInvariant'
<1> SUFFICES ASSUME DispatchInvariant, [DispatchNext]_dispatchVars
             PROVE  DispatchInvariant'
  OBVIOUS
<1>1. ASSUME NEW r \in Run, InsertOutbox(r)
      PROVE  DispatchInvariant'
  BY <1>1, InsertInvariant
<1>2. ASSUME NEW d \in Dispatcher, NEW r \in Run, ClaimOutbox(d, r)
      PROVE  DispatchInvariant'
  BY <1>2, ClaimInvariant
<1>3. ASSUME NEW d \in Dispatcher, Publish(d)
      PROVE  DispatchInvariant'
  BY <1>3, PublishInvariant
<1>4. ASSUME NEW d \in Dispatcher, PublishFails(d)
      PROVE  DispatchInvariant'
  BY <1>4, PublishFailsInvariant
<1>5. ASSUME NEW d \in Dispatcher, Release(d)
      PROVE  DispatchInvariant'
  BY <1>5, EndClaimInvariant DEF Release
<1>6. ASSUME NEW d \in Dispatcher, MarkPublished(d)
      PROVE  DispatchInvariant'
  BY <1>6, EndClaimInvariant DEF MarkPublished
<1>7. ASSUME NEW d \in Dispatcher, DispatcherCrash(d)
      PROVE  DispatchInvariant'
  BY <1>7, CrashInvariant
<1>8. ASSUME NEW r \in Run, ClaimExpires(r)
      PROVE  DispatchInvariant'
  BY <1>8, DispatchExpiryInvariant
<1>9. CASE UNCHANGED <<outbox, dispatcher, dispatchFaults>> /\ messages' \subseteq messages
  BY <1>9
     DEF DispatchInvariant, DispatchTypeOK, ClaimsWereGiven, UnheldIsPaid, FailedIsPaid,
         DuplicatesComeFromFaults, Paid, Holds, OwnsClaim
<1>10. ASSUME NEW m \in messages, Acknowledge(m)
       PROVE  DispatchInvariant'
  BY <1>9, <1>10 DEF Acknowledge
<1>11. CASE UNCHANGED dispatchVars
  BY <1>9, <1>11 DEF dispatchVars
<1>12. QED
  BY <1>1, <1>2, <1>3, <1>4, <1>5, <1>6, <1>7, <1>8, <1>10, <1>11
     DEF DispatchNext, DispatchStep, DispatcherStep

LEMMA DispatchIsConsistent == DispatchSpec => []DispatchInvariant
BY DispatchInitInvariant, DispatchNextInvariant, PTL DEF DispatchSpec

\* Every row, dispatcher and message is what the code can store or hold.
THEOREM DispatchTypeCorrect == DispatchSpec => []DispatchTypeOK
BY DispatchIsConsistent, PTL DEF DispatchInvariant

\* However many dispatchers work on a row and however often their claims are taken over,
\* each claim after the first, and so each duplicate message, has its own fault.
THEOREM DuplicatesArePaidFor == DispatchSpec => []DuplicatesComeFromFaults
BY DispatchIsConsistent, PTL DEF DispatchInvariant

\* No late dispatcher releases or marks a row that another one settled.
THEOREM PublishedStays == DispatchSpec => PublishedIsFinal
<1>1. ASSUME DispatchInvariant, [DispatchNext]_dispatchVars,
             NEW r \in Run, outbox[r].status = "PUBLISHED"
      PROVE  outbox'[r] = outbox[r]
  <2>1. ASSUME NEW q \in Run, InsertOutbox(q)
        PROVE  outbox'[r] = outbox[r]
    BY <1>1, <2>1 DEF InsertOutbox, DispatchInvariant, DispatchTypeOK
  <2>2. ASSUME NEW d \in Dispatcher, NEW q \in Run, ClaimOutbox(d, q)
        PROVE  outbox'[r] = outbox[r]
    BY <1>1, <2>2 DEF ClaimOutbox, Claimable, DispatchInvariant, DispatchTypeOK
  <2>3. ASSUME NEW d \in Dispatcher, NEW status, EndClaim(d, status)
        PROVE  outbox'[r] = outbox[r]
    <3>1. CASE dispatcher[d].run = r
      BY <1>1, <2>3, <3>1 DEF EndClaim, OwnsClaim
    <3>2. CASE dispatcher[d].run # r
      BY <1>1, <2>3, <3>2 DEF EndClaim, DispatchInvariant, DispatchTypeOK
    <3>3. QED
      BY <3>1, <3>2
  <2>4. ASSUME NEW q \in Run, ClaimExpires(q)
        PROVE  outbox'[r] = outbox[r]
    BY <1>1, <2>4 DEF ClaimExpires, DispatchInvariant, DispatchTypeOK
  <2>5. QED
    BY <1>1, <2>1, <2>2, <2>3, <2>4
       DEF DispatchNext, DispatchStep, DispatcherStep, Publish, PublishFails, Release,
           MarkPublished, DispatcherCrash, Acknowledge, dispatchVars
<1>2. DispatchInvariant /\ [DispatchNext]_dispatchVars =>
        [\A r \in Run : outbox[r].status = "PUBLISHED" => outbox'[r] = outbox[r]]_dispatchVars
  BY <1>1
<1>3. QED
  BY <1>2, DispatchIsConsistent, PTL DEF DispatchSpec, PublishedIsFinal

=============================================================================
