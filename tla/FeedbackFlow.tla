----------------------------- MODULE FeedbackFlow -----------------------------
(***************************************************************************)
(* Natural language feedback on a result (api/app/feedback): a call reads    *)
(* the project, asks an agent for a change of the founder's answers, and     *)
(* stores a preview that the user confirms or cancels later.                 *)
(*                                                                         *)
(* Transactions run at READ COMMITTED.  "SELECT ... JOIN project_heads h     *)
(* ... FOR UPDATE OF p" takes its snapshot first and then waits for p; after  *)
(* the wait it sees the new p, but h and the state row s as they were.  Where *)
(* that matters, in confirm_preview, snapshot and commit are two steps; where *)
(* the outcome is also that of a head that moves right afterwards, one.       *)
(***************************************************************************)
EXTENDS VentureProject

CONSTANTS
  Key,       \* Idempotency-Keys of preview requests; each names its preview
  NoKey,     \* an idle caller
  Decision,  \* what an answer may be (a subset, to check this module alone)
  Creator,   \* concurrent POST .../previews calls
  NoProposal,
  Resolver   \* concurrent confirm calls

ASSUME FeedbackAssumption ==
  /\ NoKey \notin Key
  /\ {"REVIEW_REQUIRED"} \subseteq Decision
  /\ Decision \subseteq
       {"REVIEW_REQUIRED", "CLARIFICATION_REQUIRED", "NOOP", "UNSUPPORTED"}
  /\ NoProposal \notin Creator
  /\ Key \subseteq Author

VARIABLES
  preview,   \* the feedback_previews rows
  creator,   \* create_preview, between its transactions
  resolver   \* confirm_preview, while it waits for the project

feedbackVars == <<preview, creator, resolver>>

NoHead == [generation |-> 0, state |-> 0]

PreviewStatus ==
  {"absent", "PROCESSING", "EXPIRED", "CONFIRMED", "CANCELLED"} \cup Decision

FeedbackTypeOK ==
  /\ ProjectTypeOK
  /\ preview \in [Key ->
       [status : PreviewStatus, base : Nat, head : HeadFence, result : HeadFence,
        proposal : Creator \cup {NoProposal}]]
  /\ creator \in [Creator ->
       [pc : {"idle", "project read", "result read", "invoking"},
        key : Key \cup {NoKey}, base : Nat, result : HeadFence, head : HeadFence]]
  /\ resolver \in [Resolver -> Key \cup {NoKey}]

NoPreview == [status |-> "absent", base |-> 0, head |-> NoHead, result |-> NoHead,
              proposal |-> NoProposal]

NoCall == [pc |-> "idle", key |-> NoKey, base |-> 0, result |-> NoHead,
           head |-> NoHead]

FeedbackInit ==
  /\ preview = [k \in Key |-> NoPreview]
  /\ creator = [c \in Creator |-> NoCall]
  /\ resolver = [x \in Resolver |-> NoKey]

\* confirm_preview holds the row lock of its preview while it waits.
Locked(k) == \E x \in Resolver : resolver[x] = k

-----------------------------------------------------------------------------
(* create_preview *)

\* get_project: the state the agent's task will describe.
ReadProject(c, k) ==
  /\ creator[c].pc = "idle"
  /\ creator' = [creator EXCEPT ![c] =
       [NoCall EXCEPT !.pc = "project read", !.key = k, !.base = StateVersion]]
  /\ UNCHANGED <<projectVars, preview, resolver>>

\* get_current, in a transaction of its own.
ReadResult(c) ==
  /\ creator[c].pc = "project read"
  /\ creator' = [creator EXCEPT ![c] = [creator[c] EXCEPT
       !.pc = "result read", !.result = result, !.head = head]]
  /\ UNCHANGED <<projectVars, preview, resolver>>

\* Bug: the state of the first read is not compared with the head of the second.
PreconditionWithoutBase(call) ==
  result = call.result /\ head = call.head

FeedbackPrecondition(call) ==
  result = call.result /\ head = call.head /\ call.head.state = call.base

\* begin_preview with the project locked: a known key must come with the same digest,
\* which covers result and head.  An unfinished preview is taken up again.
BeginPreview(c) ==
  LET call == creator[c]
      row == preview[call.key]
      new == [status |-> "PROCESSING", base |-> call.base, head |-> call.head,
              result |-> call.result, proposal |-> NoProposal]
      Invoke == creator' = [creator EXCEPT ![c] =
                  [NoCall EXCEPT !.pc = "invoking", !.key = call.key]]
  IN  /\ call.pc = "result read"
      /\ FeedbackPrecondition(call)
      /\ \/ row.status = "absent" /\ preview' = [preview EXCEPT ![call.key] = new]
         \/ /\ row.status = "PROCESSING"
            /\ row.head = call.head /\ row.result = call.result
            /\ UNCHANGED preview
      /\ Invoke
      /\ UNCHANGED <<projectVars, resolver>>

\* Bug: the answer of a second call replaces that of the first.
CompleteAlways(row) == row.status \notin {"CONFIRMED", "CANCELLED"}

MayComplete(row) == row.status = "PROCESSING"

\* The agent's validated answer is stored, unless the head moved meanwhile.
CompletePreview(c, decision) ==
  LET k == creator[c].key
      row == preview[k]
  IN  /\ creator[c].pc = "invoking"
      /\ ~ Locked(k)
      /\ preview' = IF MayComplete(row)
                    THEN [preview EXCEPT ![k] = [row EXCEPT !.proposal = c,
                            !.status = IF head = row.head THEN decision ELSE "EXPIRED"]]
                    ELSE preview
      /\ creator' = [creator EXCEPT ![c] = NoCall]
      /\ UNCHANGED <<projectVars, resolver>>

\* A rejected, failed or interrupted call, at any point; nothing of a transaction
\* that did not commit remains.
AbandonCreate(c) ==
  /\ creator[c].pc # "idle"
  /\ creator' = [creator EXCEPT ![c] = NoCall]
  /\ UNCHANGED <<projectVars, preview, resolver>>

-----------------------------------------------------------------------------
(* confirm_preview and cancel_preview; replays of a resolution write nothing *)

\* The preview is locked and reviewable, head and digest of the request are its own
\* (neither changes while it is reviewable); the project statement takes its snapshot.
\* Any other head or state in it would have the command rejected.
ConfirmStatement(x, k) ==
  /\ resolver[x] = NoKey
  /\ ~ Locked(k)
  /\ preview[k].status = "REVIEW_REQUIRED"
  /\ head = preview[k].head
  /\ StateVersion = preview[k].base
  /\ resolver' = [resolver EXCEPT ![x] = k]
  /\ UNCHANGED <<projectVars, preview, creator>>

\* Bug: only the result is compared.
ConfirmPreconditionOnResult(k) == result = preview[k].result

\* With the project locked: the state row was joined on p.current_state_version, so
\* that no row is left if it moved.
ConfirmPrecondition(k) ==
  StateVersion = preview[k].base /\ result = preview[k].result

ConfirmPreview(x) ==
  LET k == resolver[x] IN
  /\ k # NoKey
  /\ ConfirmPrecondition(k)
  /\ NewVersion("FEEDBACK_CHANGE_CONFIRMED", k)
  /\ StartSelectiveFirstProposal(StateVersion + 1)
  /\ preview' = [preview EXCEPT ![k] = [preview[k] EXCEPT !.status = "CONFIRMED"]]
  /\ resolver' = [resolver EXCEPT ![x] = NoKey]
  /\ UNCHANGED <<result, activeCase, creator>>

AbandonConfirm(x) ==
  /\ resolver[x] # NoKey
  /\ resolver' = [resolver EXCEPT ![x] = NoKey]
  /\ UNCHANGED <<projectVars, preview, creator>>

CancelPreview(k) ==
  /\ ~ Locked(k)
  /\ preview[k].status = "REVIEW_REQUIRED"
  /\ preview' = [preview EXCEPT ![k] = [preview[k] EXCEPT !.status = "CANCELLED"]]
  /\ UNCHANGED <<projectVars, creator, resolver>>

FeedbackNext ==
  \/ \E c \in Creator :
       \/ \E k \in Key : ReadProject(c, k)
       \/ ReadResult(c)
       \/ BeginPreview(c)
       \/ \E decision \in Decision : CompletePreview(c, decision)
       \/ AbandonCreate(c)
  \/ \E x \in Resolver :
       \/ \E k \in Key : ConfirmStatement(x, k)
       \/ ConfirmPreview(x)
       \/ AbandonConfirm(x)
  \/ \E k \in Key : CancelPreview(k)

-----------------------------------------------------------------------------
\* A preview is for the state its head stands for, although the two are read in
\* different transactions: while its head is current, so is the state the agent saw.
PreviewIsForItsHead ==
  \A k \in Key :
    preview[k].status # "absent" /\ preview[k].head = head =>
      preview[k].base = StateVersion

\* What the user was shown is what gets resolved: once a preview has left PROCESSING
\* no other call's answer replaces its proposal, and only a reviewable one is resolved.
ProposalIsStable ==
  [][\A k \in Key :
       preview[k].status \notin {"absent", "PROCESSING"} /\ preview'[k] # preview[k] =>
         /\ preview[k].status = "REVIEW_REQUIRED"
         /\ preview'[k].status \in {"CONFIRMED", "CANCELLED"}
         /\ preview'[k].proposal = preview[k].proposal]_<<projectVars, feedbackVars>>

\* A confirmed change is the one that follows the state the preview was made from, and
\* the preview is applied once.
ConfirmedOnTheStateItShowed ==
  \A k \in Key :
    preview[k].status = "CONFIRMED" =>
      {v \in 1..StateVersion : versions[v].by = k} = {preview[k].base + 1}

\* A confirmation is refused when the full head is no longer that of the preview
\* (api/README.md:130).
ConfirmedOnlyOnTheCurrentHead ==
  [][\A k \in Key :
       preview[k].status # "CONFIRMED" /\ preview'[k].status = "CONFIRMED" =>
         preview[k].head = head]_<<projectVars, feedbackVars>>
=============================================================================
