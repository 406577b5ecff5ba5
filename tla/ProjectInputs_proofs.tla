------------------------- MODULE ProjectInputs_proofs -------------------------
(***************************************************************************)
(* Theorems about ProjectInputs, for any number of previews, documents and  *)
(* concurrent calls: what a user confirms or applies is what they were shown,*)
(* once, and on the state it was made for.                                  *)
(***************************************************************************)
EXTENDS ProjectInputs, TLAPS

-----------------------------------------------------------------------------
(* The inductive invariant.                                                *)

\* Every transaction that stores a version moves the head to it.
HeadFollowsState == head.state = StateVersion

\* begin_preview compared the state of the first read with the head of the second.
PreviewsFitTheirHead ==
  \A k \in Key : preview[k].status # "absent" => preview[k].base = preview[k].head.state

\* The row lock of confirm_preview is exclusive and keeps its preview reviewable.
LocksKeepReviewable ==
  \A x \in Resolver :
    resolver[x] # NoKey =>
      /\ preview[resolver[x]].status = "REVIEW_REQUIRED"
      /\ \A y \in Resolver : resolver[y] = resolver[x] => y = x

\* The versions that a preview or a revision caused.
VersionsBy(author) == {v \in 1..StateVersion : versions[v].by = author}

PreviewsAppliedOnce ==
  \A k \in Key :
    VersionsBy(k) = IF preview[k].status = "CONFIRMED" THEN {preview[k].base + 1} ELSE {}

RevisionsAppliedOnce ==
  \A r \in Revision :
    VersionsBy(r) = IF revision[r].status = "APPLIED"
                    THEN {application[r].version + 1} ELSE {}

\* The claims of a revision are those of the form that was applied.
ClaimsAsApplied ==
  \A r \in Revision :
    {c.value : c \in {c \in claims : c.revision = r}}
      = IF revision[r].status = "APPLIED" THEN {application[r].value} \ {Cleared} ELSE {}

FeedbackInvariant ==
  /\ PreviewsFitTheirHead
  /\ LocksKeepReviewable
  /\ PreviewsAppliedOnce

DocumentInvariant ==
  /\ RevisionsAppliedOnce
  /\ ClaimsAsApplied
  /\ CompetingClaimsAreInConflict

InputsInvariant ==
  /\ InputsTypeOK
  /\ HeadFollowsState
  /\ FeedbackInvariant
  /\ DocumentInvariant

-----------------------------------------------------------------------------
(* What the steps of the project do to versions and head.                  *)

LEMMA AuthorsApart ==
  /\ Key \subseteq Author /\ Revision \subseteq Author
  /\ Key \cap Revision = {}
  /\ NoAuthor \notin Author
  BY ProjectAssumption, FeedbackAssumption, DocumentAssumption, InputsAssumption

\* A version more has one author, and the others have authored what they had.
LEMMA VersionAppended ==
  ASSUME versions \in Seq(Event), NEW type \in EventType,
         NEW by \in Author \cup {NoAuthor}, NewVersion(type, by)
  PROVE  /\ versions' \in Seq(Event)
         /\ StateVersion \in Nat
         /\ StateVersion' = StateVersion + 1
         /\ VersionsBy(by)' = VersionsBy(by) \cup {StateVersion + 1}
         /\ \A a : a # by => VersionsBy(a)' = VersionsBy(a)
<1> DEFINE event == [type |-> type, by |-> by]
<1>1. event \in Event
  BY DEF Event
<1>2. event.by = by
  OBVIOUS
<1>3. versions' = Append(versions, event)
  BY DEF NewVersion
<1> HIDE DEF event
<1>4. /\ versions' \in Seq(Event)
      /\ Len(versions) \in Nat
      /\ Len(versions') = Len(versions) + 1
      /\ versions'[Len(versions) + 1] = event
      /\ \A v \in 1..Len(versions) : versions'[v] = versions[v]
  BY <1>1, <1>3
<1>5. VersionsBy(by)' = VersionsBy(by) \cup {StateVersion + 1}
  BY <1>2, <1>4 DEF VersionsBy, StateVersion
<1>6. ASSUME NEW a, a # by
      PROVE  VersionsBy(a)' = VersionsBy(a)
  BY <1>2, <1>4, <1>6 DEF VersionsBy, StateVersion
<1>7. QED
  BY <1>4, <1>5, <1>6 DEF StateVersion

LEMMA VersionsKept ==
  ASSUME UNCHANGED versions
  PROVE  StateVersion' = StateVersion /\ \A a : VersionsBy(a)' = VersionsBy(a)
  BY DEF StateVersion, VersionsBy

LEMMA RunStarted ==
  ASSUME head \in HeadFence, NEW version \in Nat, StartSelectiveFirstProposal(version)
  PROVE  head' \in HeadFence /\ latest' = head' /\ head'.state = version
<1>1. head.generation + 1 \in Nat
  BY DEF HeadFence
<1>2. head' = [generation |-> head.generation + 1, state |-> version]
  BY DEF StartSelectiveFirstProposal
<1>3. QED
  BY <1>1, <1>2 DEF HeadFence, StartSelectiveFirstProposal

\* A command that changes the state: the version, and a run for it.
LEMMA CommandApplied ==
  ASSUME ProjectTypeOK, NEW type \in EventType, NEW by \in Author \cup {NoAuthor},
         NewVersion(type, by), StartSelectiveFirstProposal(StateVersion + 1),
         UNCHANGED <<result, activeCase>>
  PROVE  ProjectTypeOK' /\ HeadFollowsState'
<1>1. /\ versions' \in Seq(Event)
      /\ StateVersion + 1 \in Nat
      /\ StateVersion' = StateVersion + 1
  BY VersionAppended DEF ProjectTypeOK
<1>2. head' \in HeadFence /\ latest' = head' /\ head'.state = StateVersion + 1
  BY <1>1, RunStarted DEF ProjectTypeOK
<1>3. QED
  BY <1>1, <1>2 DEF ProjectTypeOK, HeadFollowsState

LEMMA ProjectKept ==
  ASSUME UNCHANGED projectVars, ProjectTypeOK, HeadFollowsState
  PROVE  ProjectTypeOK' /\ HeadFollowsState'
  BY DEF projectVars, ProjectTypeOK, HeadFollowsState, StateVersion

\* The commands of the project itself have no author.
LEMMA ProjectStep ==
  ASSUME ProjectTypeOK, HeadFollowsState, ProjectNext
  PROVE  /\ ProjectTypeOK' /\ HeadFollowsState'
         /\ \A a \in Author : VersionsBy(a)' = VersionsBy(a)
<1>1. \A a \in Author : a # NoAuthor
  BY ProjectAssumption
<1>2. {"CANDIDATE_SELECTED", "PROPERTY_TERMS_APPLIED"} \subseteq EventType
  BY DEF EventType
<1>3. ASSUME NEW c \in Case, SelectCandidate(c)
      PROVE  /\ ProjectTypeOK' /\ HeadFollowsState'
             /\ \A a \in Author : VersionsBy(a)' = VersionsBy(a)
  <2>1. /\ versions' \in Seq(Event)
        /\ StateVersion \in Nat
        /\ StateVersion' = StateVersion + 1
        /\ \A a \in Author : VersionsBy(a)' = VersionsBy(a)
    BY <1>1, <1>2, <1>3, VersionAppended DEF SelectCandidate, ProjectTypeOK
  <2>2. head' \in HeadFence /\ head'.state = StateVersion + 1
    <3>1. head \in HeadFence /\ StateVersion + 1 \in Nat
      BY <2>1 DEF ProjectTypeOK
    <3>2. head' = [head EXCEPT !.state = StateVersion + 1]
      BY <1>3 DEF SelectCandidate
    <3>3. QED
      BY <3>1, <3>2 DEF HeadFence
  <2>3. QED
    BY <1>3, <2>1, <2>2 DEF SelectCandidate, ProjectTypeOK, HeadFollowsState
<1>4. ASSUME ApplyPropertyTerms
      PROVE  /\ ProjectTypeOK' /\ HeadFollowsState'
             /\ \A a \in Author : VersionsBy(a)' = VersionsBy(a)
  <2>1. \A a \in Author : VersionsBy(a)' = VersionsBy(a)
    BY <1>1, <1>2, <1>4, VersionAppended DEF ApplyPropertyTerms, ProjectTypeOK
  <2>2. QED
    BY <1>2, <1>4, <2>1, CommandApplied DEF ApplyPropertyTerms
<1>5. ASSUME RefreshEvidence
      PROVE  /\ ProjectTypeOK' /\ HeadFollowsState'
             /\ \A a \in Author : VersionsBy(a)' = VersionsBy(a)
  <2>1. StateVersion \in Nat /\ StateVersion' = StateVersion
    BY <1>5 DEF RefreshEvidence, ProjectTypeOK, StateVersion
  <2>2. head' \in HeadFence /\ latest' = head' /\ head'.state = StateVersion
    BY <1>5, <2>1, RunStarted DEF RefreshEvidence, ProjectTypeOK
  <2>3. QED
    BY <1>5, <2>1, <2>2, VersionsKept DEF RefreshEvidence, ProjectTypeOK, HeadFollowsState
<1>6. ASSUME CommitResult
      PROVE  /\ ProjectTypeOK' /\ HeadFollowsState'
             /\ \A a \in Author : VersionsBy(a)' = VersionsBy(a)
  BY <1>6, VersionsKept DEF CommitResult, ProjectTypeOK, HeadFollowsState, StateVersion
<1>7. QED
  BY <1>3, <1>4, <1>5, <1>6 DEF ProjectNext

-----------------------------------------------------------------------------
(* Feedback.                                                               *)

PreviewRow ==
  [status : PreviewStatus, base : Nat, head : HeadFence, result : HeadFence,
   proposal : Creator \cup {NoProposal}]

CreatorCall ==
  [pc : {"idle", "project read", "result read", "invoking"},
   key : Key \cup {NoKey}, base : Nat, result : HeadFence, head : HeadFence]

FeedbackRowsOK ==
  /\ preview \in [Key -> PreviewRow]
  /\ creator \in [Creator -> CreatorCall]
  /\ resolver \in [Resolver -> Key \cup {NoKey}]

LEMMA FeedbackTypes == FeedbackTypeOK <=> ProjectTypeOK /\ FeedbackRowsOK
  BY DEF FeedbackTypeOK, FeedbackRowsOK, PreviewRow, CreatorCall

LEMMA NoCallTyped == NoCall \in CreatorCall /\ NoCall.key = NoKey
  BY DEF NoCall, CreatorCall, NoHead, HeadFence

LEMMA LockedIsReviewable ==
  ASSUME FeedbackInvariant, NEW k \in Key, Locked(k)
  PROVE  preview[k].status = "REVIEW_REQUIRED"
  BY FeedbackAssumption DEF FeedbackInvariant, LocksKeepReviewable, Locked

\* What a step may do to the previews: nothing to one that was resolved.
ProposalsKept ==
  \A k \in Key :
    preview[k].status \notin {"absent", "PROCESSING"} /\ preview'[k] # preview[k] =>
      /\ preview[k].status = "REVIEW_REQUIRED"
      /\ preview'[k].status \in {"CONFIRMED", "CANCELLED"}
      /\ preview'[k].proposal = preview[k].proposal

LEMMA PreviewsRest ==
  ASSUME UNCHANGED <<preview, resolver>>, FeedbackInvariant,
         \A k \in Key : VersionsBy(k)' = VersionsBy(k)
  PROVE  FeedbackInvariant' /\ ProposalsKept
<1>1. PreviewsFitTheirHead' /\ LocksKeepReviewable'
  BY DEF FeedbackInvariant, PreviewsFitTheirHead, LocksKeepReviewable
<1>2. PreviewsAppliedOnce'
  BY DEF FeedbackInvariant, PreviewsAppliedOnce
<1>3. ProposalsKept
  BY DEF ProposalsKept
<1>4. QED
  BY <1>1, <1>2, <1>3 DEF FeedbackInvariant

\* A preview that nobody has locked changes, and not to CONFIRMED.
LEMMA PreviewStep ==
  ASSUME FeedbackRowsOK, FeedbackInvariant, UNCHANGED <<resolver, versions>>,
         NEW k \in Key, ~ Locked(k), NEW row \in PreviewRow,
         row.status \notin {"absent", "CONFIRMED"}, row.base = row.head.state,
         preview[k].status # "CONFIRMED",
         \/ preview[k].status \in {"absent", "PROCESSING"}
         \/ /\ preview[k].status = "REVIEW_REQUIRED"
            /\ row.status = "CANCELLED" /\ row.proposal = preview[k].proposal,
         preview' = [preview EXCEPT ![k] = row]
  PROVE  preview' \in [Key -> PreviewRow] /\ FeedbackInvariant' /\ ProposalsKept
<1>1. /\ preview' \in [Key -> PreviewRow]
      /\ preview'[k] = row
      /\ \A j \in Key : j # k => preview'[j] = preview[j]
  BY DEF FeedbackRowsOK
<1>2. PreviewsFitTheirHead'
  BY <1>1 DEF FeedbackInvariant, PreviewsFitTheirHead
<1>3. LocksKeepReviewable'
  BY <1>1 DEF FeedbackInvariant, LocksKeepReviewable, Locked, FeedbackRowsOK
<1>4. PreviewsAppliedOnce'
  BY <1>1, VersionsKept DEF FeedbackInvariant, PreviewsAppliedOnce
<1>5. ProposalsKept
  BY <1>1 DEF ProposalsKept
<1>6. QED
  BY <1>1, <1>2, <1>3, <1>4, <1>5 DEF FeedbackInvariant

\* The steps of create_preview before and after its transactions on the preview.
LEMMA CreatorStep ==
  ASSUME InputsInvariant, NEW c \in Creator, NEW call \in CreatorCall,
         creator' = [creator EXCEPT ![c] = call], UNCHANGED <<projectVars, preview, resolver>>
  PROVE  FeedbackRowsOK' /\ FeedbackInvariant' /\ ProposalsKept
<1>1. FeedbackRowsOK'
  BY FeedbackTypes DEF InputsInvariant, InputsTypeOK, FeedbackRowsOK
<1>2. \A k \in Key : VersionsBy(k)' = VersionsBy(k)
  BY VersionsKept DEF projectVars
<1>3. QED
  BY <1>1, <1>2, PreviewsRest DEF InputsInvariant

LEMMA CreatorReads ==
  ASSUME InputsInvariant, NEW c \in Creator,
         (\E k \in Key : ReadProject(c, k)) \/ ReadResult(c) \/ AbandonCreate(c)
  PROVE  /\ FeedbackRowsOK' /\ FeedbackInvariant' /\ ProposalsKept
         /\ UNCHANGED projectVars
<1>1. ProjectTypeOK /\ FeedbackRowsOK
  BY FeedbackTypes DEF InputsInvariant, InputsTypeOK
<1>2. ASSUME NEW k \in Key, ReadProject(c, k)
      PROVE  \E call \in CreatorCall : creator' = [creator EXCEPT ![c] = call]
  <2>1. StateVersion \in Nat
    BY <1>1 DEF ProjectTypeOK, StateVersion
  <2>2. [NoCall EXCEPT !.pc = "project read", !.key = k, !.base = StateVersion]
          \in CreatorCall
    BY <2>1, NoCallTyped DEF CreatorCall
  <2>3. QED
    BY <1>2, <2>2 DEF ReadProject
<1>3. ASSUME ReadResult(c)
      PROVE  \E call \in CreatorCall : creator' = [creator EXCEPT ![c] = call]
  <2>1. creator[c] \in CreatorCall /\ result \in HeadFence /\ head \in HeadFence
    BY <1>1 DEF FeedbackRowsOK, ProjectTypeOK
  <2>2. [creator[c] EXCEPT !.pc = "result read", !.result = result, !.head = head]
          \in CreatorCall
    BY <2>1 DEF CreatorCall
  <2>3. QED
    BY <1>3, <2>2 DEF ReadResult
<1>4. ASSUME AbandonCreate(c)
      PROVE  \E call \in CreatorCall : creator' = [creator EXCEPT ![c] = call]
  BY <1>4, NoCallTyped DEF AbandonCreate
<1>5. UNCHANGED <<projectVars, preview, resolver>>
  BY DEF ReadProject, ReadResult, AbandonCreate
<1>6. \E call \in CreatorCall : creator' = [creator EXCEPT ![c] = call]
  BY <1>2, <1>3, <1>4
<1>7. QED
  BY <1>5, <1>6, CreatorStep

LEMMA BeginPreviewStep ==
  ASSUME InputsInvariant, NEW c \in Creator, BeginPreview(c)
  PROVE  /\ FeedbackRowsOK' /\ FeedbackInvariant' /\ ProposalsKept
         /\ UNCHANGED projectVars
<1> DEFINE call == creator[c]
           new == [status |-> "PROCESSING", base |-> call.base, head |-> call.head,
                   result |-> call.result, proposal |-> NoProposal]
           next == [NoCall EXCEPT !.pc = "invoking", !.key = call.key]
<1>1. ProjectTypeOK /\ FeedbackRowsOK /\ FeedbackInvariant
  BY FeedbackTypes DEF InputsInvariant, InputsTypeOK
<1>2. call \in CreatorCall
  BY <1>1 DEF FeedbackRowsOK
<1>3. next \in CreatorCall
  BY <1>2, NoCallTyped DEF CreatorCall
<1>4. creator' = [creator EXCEPT ![c] = next] /\ UNCHANGED <<projectVars, resolver>>
  BY DEF BeginPreview
<1>5. CASE UNCHANGED preview
  BY <1>3, <1>4, <1>5, CreatorStep
<1>6. CASE /\ preview[call.key].status = "absent"
           /\ preview' = [preview EXCEPT ![call.key] = new]
  <2>1. CASE call.key \in Key
    <3>1. new \in PreviewRow
      BY <1>2 DEF CreatorCall, PreviewRow, PreviewStatus
    <3>2. new.base = new.head.state /\ new.status = "PROCESSING"
      BY DEF BeginPreview, FeedbackPrecondition
    <3>3. ~ Locked(call.key)
      BY <1>1, <1>6, <2>1, LockedIsReviewable
    <3>4. preview' \in [Key -> PreviewRow] /\ FeedbackInvariant' /\ ProposalsKept
      <4> HIDE DEF new
      <4>1. QED
        BY <1>1, <1>4, <1>6, <2>1, <3>1, <3>2, <3>3, PreviewStep DEF projectVars
    <3>5. creator' \in [Creator -> CreatorCall]
      BY <1>1, <1>3, <1>4 DEF FeedbackRowsOK
    <3>6. QED
      BY <1>1, <1>4, <3>4, <3>5 DEF FeedbackRowsOK
  <2>2. CASE call.key \notin Key
    <3>1. preview' = preview
      BY <1>1, <1>6, <2>2 DEF FeedbackRowsOK
    <3>2. QED
      BY <1>3, <1>4, <3>1, CreatorStep
  <2>3. QED
    BY <2>1, <2>2
<1>7. QED
  BY <1>4, <1>5, <1>6 DEF BeginPreview

LEMMA CompletePreviewStep ==
  ASSUME InputsInvariant, NEW c \in Creator, NEW decision \in Decision,
         CompletePreview(c, decision)
  PROVE  /\ FeedbackRowsOK' /\ FeedbackInvariant' /\ ProposalsKept
         /\ UNCHANGED projectVars
<1> DEFINE k == creator[c].key
           next == [preview[k] EXCEPT !.proposal = c,
                     !.status = IF head = preview[k].head THEN decision ELSE "EXPIRED"]
<1>1. ProjectTypeOK /\ FeedbackRowsOK /\ FeedbackInvariant
  BY FeedbackTypes DEF InputsInvariant, InputsTypeOK
<1>2. creator' = [creator EXCEPT ![c] = NoCall] /\ UNCHANGED <<projectVars, resolver>>
  BY DEF CompletePreview
<1>3. CASE UNCHANGED preview
  BY <1>2, <1>3, NoCallTyped, CreatorStep
<1>4. CASE k \in Key /\ MayComplete(preview[k])
  <2>1. preview[k] \in PreviewRow /\ preview[k].status = "PROCESSING"
    BY <1>1, <1>4 DEF FeedbackRowsOK, MayComplete
  <2>2. decision \in PreviewStatus \ {"absent", "PROCESSING", "CONFIRMED"}
    BY FeedbackAssumption DEF PreviewStatus
  <2>3. /\ next \in PreviewRow /\ next.status \notin {"absent", "CONFIRMED"}
        /\ next.base = preview[k].base /\ next.head = preview[k].head
    BY <2>1, <2>2 DEF PreviewRow, PreviewStatus
  <2>4. next.base = next.head.state
    BY <1>1, <1>4, <2>1, <2>3 DEF FeedbackInvariant, PreviewsFitTheirHead
  <2>5. preview' = [preview EXCEPT ![k] = next] /\ ~ Locked(k)
    BY <1>4 DEF CompletePreview
  <2>6. preview' \in [Key -> PreviewRow] /\ FeedbackInvariant' /\ ProposalsKept
    <3> HIDE DEF next, k
    <3>1. QED
      BY <1>1, <1>2, <1>4, <2>1, <2>3, <2>4, <2>5, PreviewStep DEF projectVars
  <2>7. creator' \in [Creator -> CreatorCall]
    BY <1>1, <1>2, NoCallTyped DEF FeedbackRowsOK
  <2>8. QED
    BY <1>1, <1>2, <2>6, <2>7 DEF FeedbackRowsOK
<1>5. CASE k \notin Key \/ ~ MayComplete(preview[k])
  <2>1. preview' = preview
    BY <1>1, <1>5 DEF CompletePreview, FeedbackRowsOK
  <2>2. QED
    BY <1>3, <2>1
<1>6. QED
  BY <1>4, <1>5

LEMMA CancelPreviewStep ==
  ASSUME InputsInvariant, NEW k \in Key, CancelPreview(k)
  PROVE  /\ FeedbackRowsOK' /\ FeedbackInvariant' /\ ProposalsKept
         /\ UNCHANGED projectVars
<1> DEFINE next == [preview[k] EXCEPT !.status = "CANCELLED"]
<1>1. ProjectTypeOK /\ FeedbackRowsOK /\ FeedbackInvariant
  BY FeedbackTypes DEF InputsInvariant, InputsTypeOK
<1>2. preview[k] \in PreviewRow /\ preview[k].status = "REVIEW_REQUIRED"
  BY <1>1 DEF FeedbackRowsOK, CancelPreview
<1>3. /\ next \in PreviewRow /\ next.status = "CANCELLED"
      /\ next.base = preview[k].base /\ next.head = preview[k].head
      /\ next.proposal = preview[k].proposal
  BY <1>2 DEF PreviewRow, PreviewStatus
<1>4. next.base = next.head.state
  BY <1>1, <1>2, <1>3 DEF FeedbackInvariant, PreviewsFitTheirHead
<1>5. /\ preview' = [preview EXCEPT ![k] = next] /\ ~ Locked(k)
      /\ UNCHANGED <<projectVars, creator, resolver>>
  BY DEF CancelPreview
<1>6. preview' \in [Key -> PreviewRow] /\ FeedbackInvariant' /\ ProposalsKept
  <2> HIDE DEF next
  <2>1. QED
    BY <1>1, <1>2, <1>3, <1>4, <1>5, PreviewStep DEF projectVars
<1>7. QED
  BY <1>1, <1>5, <1>6 DEF FeedbackRowsOK

\* Taking and giving up the row lock of a preview.
LEMMA LockStep ==
  ASSUME InputsInvariant, NEW x \in Resolver,
         (\E k \in Key : ConfirmStatement(x, k)) \/ AbandonConfirm(x)
  PROVE  /\ FeedbackRowsOK' /\ FeedbackInvariant' /\ ProposalsKept
         /\ UNCHANGED projectVars
<1>1. ProjectTypeOK /\ FeedbackRowsOK /\ FeedbackInvariant
  BY FeedbackTypes DEF InputsInvariant, InputsTypeOK
<1>2. UNCHANGED <<projectVars, preview, creator>>
  BY DEF ConfirmStatement, AbandonConfirm
<1>3. /\ resolver' \in [Resolver -> Key \cup {NoKey}]
      /\ LocksKeepReviewable'
  <2>1. ASSUME NEW k \in Key, ConfirmStatement(x, k)
        PROVE  /\ resolver' \in [Resolver -> Key \cup {NoKey}]
               /\ LocksKeepReviewable'
    <3>1. resolver' = [resolver EXCEPT ![x] = k] /\ ~ Locked(k)
          /\ preview[k].status = "REVIEW_REQUIRED"
      BY <2>1 DEF ConfirmStatement
    <3>2. QED
      BY <1>1, <1>2, <3>1 DEF FeedbackRowsOK, FeedbackInvariant, LocksKeepReviewable,
                              Locked
  <2>2. ASSUME AbandonConfirm(x)
        PROVE  /\ resolver' \in [Resolver -> Key \cup {NoKey}]
               /\ LocksKeepReviewable'
    <3>1. resolver' = [resolver EXCEPT ![x] = NoKey]
      BY <2>2 DEF AbandonConfirm
    <3>2. QED
      BY <1>1, <1>2, <3>1 DEF FeedbackRowsOK, FeedbackInvariant, LocksKeepReviewable
  <2>3. QED
    BY <2>1, <2>2
<1>4. PreviewsFitTheirHead' /\ PreviewsAppliedOnce'
  BY <1>1, <1>2, VersionsKept
  DEF FeedbackInvariant, PreviewsFitTheirHead, PreviewsAppliedOnce, projectVars
<1>5. ProposalsKept
  BY <1>2 DEF ProposalsKept
<1>6. QED
  BY <1>1, <1>2, <1>3, <1>4, <1>5 DEF FeedbackRowsOK, FeedbackInvariant

\* The change is stored as the version after the one it was made from.
LEMMA ConfirmPreviewStep ==
  ASSUME InputsInvariant, NEW x \in Resolver, NEW k \in Key, resolver[x] = k,
         ConfirmPreview(x)
  PROVE  /\ ProjectTypeOK' /\ HeadFollowsState'
         /\ FeedbackRowsOK' /\ FeedbackInvariant' /\ ProposalsKept
         /\ \A r \in Revision : VersionsBy(r)' = VersionsBy(r)
<1> DEFINE next == [preview[k] EXCEPT !.status = "CONFIRMED"]
<1>1. ProjectTypeOK /\ FeedbackRowsOK /\ FeedbackInvariant
  BY FeedbackTypes DEF InputsInvariant, InputsTypeOK
<1>2. k \in Key
  OBVIOUS
<1>3. k \in Author \cup {NoAuthor} /\ "FEEDBACK_CHANGE_CONFIRMED" \in EventType
  BY AuthorsApart DEF EventType
<1>4. /\ NewVersion("FEEDBACK_CHANGE_CONFIRMED", k)
      /\ StartSelectiveFirstProposal(StateVersion + 1)
      /\ UNCHANGED <<result, activeCase, creator>>
      /\ preview' = [preview EXCEPT ![k] = next]
      /\ resolver' = [resolver EXCEPT ![x] = NoKey]
      /\ StateVersion = preview[k].base
  BY DEF ConfirmPreview, ConfirmPrecondition
<1>5. preview[k] \in PreviewRow /\ preview[k].status = "REVIEW_REQUIRED"
  BY <1>1, <1>2, FeedbackAssumption DEF FeedbackRowsOK, FeedbackInvariant, LocksKeepReviewable
<1>6. /\ next \in PreviewRow /\ next.status = "CONFIRMED"
      /\ next.base = preview[k].base /\ next.head = preview[k].head
      /\ next.proposal = preview[k].proposal
  BY <1>5 DEF PreviewRow, PreviewStatus
<1>7. \A y \in Resolver : resolver[y] = k => y = x
  BY <1>1, <1>2, FeedbackAssumption DEF FeedbackInvariant, LocksKeepReviewable
<1> HIDE DEF next
<1>8. /\ preview' \in [Key -> PreviewRow] /\ preview'[k] = next
      /\ \A j \in Key : j # k => preview'[j] = preview[j]
      /\ resolver' \in [Resolver -> Key \cup {NoKey}] /\ resolver'[x] = NoKey
      /\ \A y \in Resolver : y # x => resolver'[y] = resolver[y]
  BY <1>1, <1>2, <1>4, <1>6 DEF FeedbackRowsOK
<1>9. /\ VersionsBy(k)' = VersionsBy(k) \cup {StateVersion + 1}
      /\ \A a : a # k => VersionsBy(a)' = VersionsBy(a)
  BY <1>1, <1>3, <1>4, VersionAppended DEF ProjectTypeOK
<1>10. ProjectTypeOK' /\ HeadFollowsState'
  BY <1>1, <1>3, <1>4, CommandApplied
<1>11. FeedbackRowsOK'
  BY <1>1, <1>4, <1>8 DEF FeedbackRowsOK
<1>12. PreviewsFitTheirHead'
  BY <1>1, <1>5, <1>6, <1>8 DEF FeedbackInvariant, PreviewsFitTheirHead
<1>13. LocksKeepReviewable'
  BY <1>1, <1>7, <1>8 DEF FeedbackInvariant, LocksKeepReviewable, FeedbackRowsOK
<1>14. PreviewsAppliedOnce'
  <2>1. VersionsBy(k)' = {preview[k].base + 1}
    BY <1>1, <1>2, <1>4, <1>5, <1>9 DEF FeedbackInvariant, PreviewsAppliedOnce
  <2>2. QED
    BY <1>1, <1>6, <1>8, <1>9, <2>1 DEF FeedbackInvariant, PreviewsAppliedOnce
<1>15. ProposalsKept
  BY <1>5, <1>6, <1>8 DEF ProposalsKept
<1>16. \A r \in Revision : VersionsBy(r)' = VersionsBy(r)
  BY <1>2, <1>9, AuthorsApart
<1>17. QED
  BY <1>10, <1>11, <1>12, <1>13, <1>14, <1>15, <1>16 DEF FeedbackInvariant

LEMMA FeedbackStep ==
  ASSUME InputsInvariant, FeedbackNext
  PROVE  /\ FeedbackTypeOK' /\ HeadFollowsState' /\ FeedbackInvariant' /\ ProposalsKept
         /\ \A r \in Revision : VersionsBy(r)' = VersionsBy(r)
<1>1. CASE \E x \in Resolver : ConfirmPreview(x)
  <2>1. ProjectTypeOK' /\ FeedbackRowsOK' => FeedbackTypeOK'
    BY FeedbackTypes DEF FeedbackTypeOK, FeedbackRowsOK, PreviewRow, CreatorCall
  <2>2. PICK x \in Resolver : ConfirmPreview(x)
    BY <1>1
  <2>3. resolver[x] \in Key
    BY <2>2, FeedbackTypes
    DEF ConfirmPreview, InputsInvariant, InputsTypeOK, FeedbackRowsOK
  <2>4. QED
    BY <2>1, <2>2, <2>3, ConfirmPreviewStep
<1>2. CASE ~ \E x \in Resolver : ConfirmPreview(x)
  <2>1. /\ FeedbackRowsOK' /\ FeedbackInvariant' /\ ProposalsKept
        /\ UNCHANGED projectVars
    BY <1>2, CreatorReads, BeginPreviewStep, CompletePreviewStep, LockStep,
       CancelPreviewStep DEF FeedbackNext
  <2>2. ProjectTypeOK' /\ HeadFollowsState'
    BY <2>1, ProjectKept, FeedbackTypes DEF InputsInvariant, InputsTypeOK
  <2>3. \A r \in Revision : VersionsBy(r)' = VersionsBy(r)
    BY <2>1, VersionsKept DEF projectVars
  <2>4. FeedbackTypeOK'
    BY <2>1, <2>2 DEF FeedbackTypeOK, FeedbackRowsOK, PreviewRow, CreatorCall
  <2>5. QED
    BY <2>1, <2>2, <2>3, <2>4
<1>3. QED
  BY <1>1, <1>2

-----------------------------------------------------------------------------
(* Documents.                                                              *)

RevisionRow == [status : RevisionStatus, document : Document \cup {NoRevision}]

FormRow == [version : Nat, value : Field]

Work ==
  [pc : {"idle", "scanning", "parsing", "extracting", "failing"},
   revision : Revision \cup {NoRevision}, version : Nat]

Reading == [revision : Revision \cup {NoRevision}, form : FormRow]

DocumentRowsOK ==
  /\ document \in [Document -> Case \cup {NoCase}]
  /\ revision \in [Revision -> RevisionRow]
  /\ form \in [Revision -> FormRow]
  /\ application \in [Revision -> FormRow]
  /\ claims \subseteq [revision : Revision, case : Case, value : Value]
  /\ conflicts \subseteq SUBSET Revision
  /\ processor \in [Processor -> Work]
  /\ editor \in [Editor -> Revision \cup {NoRevision}]
  /\ applier \in [Applier -> Reading]

LEMMA DocumentTypes == DocumentTypeOK <=> ProjectTypeOK /\ DocumentRowsOK
  BY DEF DocumentTypeOK, DocumentRowsOK, RevisionRow, FormRow, Work, Reading

LEMMA RestTyped ==
  NoForm \in FormRow /\ NoWork \in Work /\ NotReading \in Reading
  BY DEF NoForm, FormRow, Field, NoWork, Work, NotReading, Reading

\* What a step may do to the revisions: one that is ready is applied at most.
FormsKept ==
  \A r \in Revision :
    revision[r].status \in {"EXTRACTION_READY", "APPLIED", "QUARANTINED"}
      /\ revision'[r] # revision[r] =>
         revision[r].status = "EXTRACTION_READY" /\ revision'[r].status = "APPLIED"

\* No revision is applied.
NothingApplied ==
  \A r \in Revision : revision'[r].status = "APPLIED" <=> revision[r].status = "APPLIED"

LEMMA RevisionsRest ==
  ASSUME UNCHANGED revision
  PROVE  NothingApplied /\ FormsKept
  BY DEF NothingApplied, FormsKept

LEMMA StatusStep ==
  ASSUME DocumentRowsOK, NEW r,
         NEW status \in RevisionStatus \ {"APPLIED"},
         revision[r].status \notin {"EXTRACTION_READY", "APPLIED", "QUARANTINED"},
         SetStatus(r, status)
  PROVE  revision' \in [Revision -> RevisionRow] /\ NothingApplied /\ FormsKept
<1> DEFINE next == [revision[r] EXCEPT !.status = status]
<1>1. revision' = [revision EXCEPT ![r] = next] /\ revision \in [Revision -> RevisionRow]
  BY DEF SetStatus, DocumentRowsOK
<1>2. CASE r \in Revision
  <2>1. next \in RevisionRow /\ next.status = status
    BY <1>1, <1>2 DEF RevisionRow
  <2> HIDE DEF next
  <2>2. /\ revision' \in [Revision -> RevisionRow] /\ revision'[r] = next
        /\ \A s \in Revision : s # r => revision'[s] = revision[s]
    BY <1>1, <1>2, <2>1
  <2>3. QED
    BY <2>1, <2>2 DEF NothingApplied, FormsKept
<1>3. CASE r \notin Revision
  <2>1. revision' = revision
    BY <1>1, <1>3
  <2>2. QED
    BY <1>1, <2>1, RevisionsRest
<1>4. QED
  BY <1>2, <1>3

LEMMA GotoStep ==
  ASSUME DocumentRowsOK, NEW q \in Processor, NEW version \in Nat,
         NEW pc \in {"idle", "scanning", "parsing", "extracting", "failing"},
         Goto(q, pc, version)
  PROVE  processor' \in [Processor -> Work]
<1>1. processor \in [Processor -> Work] /\ processor[q] \in Work
  BY DEF DocumentRowsOK
<1>2. [pc |-> pc, revision |-> processor[q].revision, version |-> version] \in Work
  BY <1>1 DEF Work
<1>3. QED
  BY <1>1, <1>2, RestTyped DEF Goto

LEMMA ClaimsRest ==
  ASSUME DocumentInvariant, NothingApplied, UNCHANGED <<application, claims, conflicts>>,
         \A r \in Revision : VersionsBy(r)' = VersionsBy(r)
  PROVE  DocumentInvariant'
<1>1. RevisionsAppliedOnce'
  BY DEF DocumentInvariant, RevisionsAppliedOnce, NothingApplied
<1>2. ClaimsAsApplied'
  BY DEF DocumentInvariant, ClaimsAsApplied, NothingApplied
<1>3. CompetingClaimsAreInConflict'
  BY DEF DocumentInvariant, CompetingClaimsAreInConflict
<1>4. QED
  BY <1>1, <1>2, <1>3 DEF DocumentInvariant

\* What every step but apply_form leaves alone and keeps.
NoApplication ==
  /\ UNCHANGED <<projectVars, application, claims, conflicts>>
  /\ NothingApplied
  /\ FormsKept
  /\ DocumentRowsOK'

LEMMA BeginUploadStep ==
  ASSUME InputsInvariant, NEW r \in Revision, NEW d \in Document, BeginUpload(r, d)
  PROVE  NoApplication
<1> DEFINE next == [status |-> "UPLOAD_PENDING", document |-> d]
<1>1. ProjectTypeOK /\ DocumentRowsOK
  BY DocumentTypes DEF InputsInvariant, InputsTypeOK
<1>2. next \in RevisionRow /\ next.status = "UPLOAD_PENDING"
  BY DEF RevisionRow, RevisionStatus
<1>3. /\ revision' = [revision EXCEPT ![r] = next] /\ revision[r].status = "absent"
      /\ document' = [document EXCEPT ![d] = activeCase]
      /\ UNCHANGED <<projectVars, form, application, claims, conflicts, processor,
                     editor, applier>>
  BY DEF BeginUpload
<1> HIDE DEF next
<1>4. /\ revision' \in [Revision -> RevisionRow] /\ revision'[r] = next
      /\ \A s \in Revision : s # r => revision'[s] = revision[s]
  BY <1>1, <1>2, <1>3 DEF DocumentRowsOK
<1>5. NothingApplied /\ FormsKept
  BY <1>2, <1>3, <1>4 DEF NothingApplied, FormsKept
<1>6. document' \in [Document -> Case \cup {NoCase}]
  BY <1>1, <1>3 DEF DocumentRowsOK, ProjectTypeOK
<1>7. DocumentRowsOK'
  BY <1>1, <1>3, <1>4, <1>6 DEF DocumentRowsOK
<1>8. QED
  BY <1>3, <1>5, <1>7 DEF NoApplication

\* The steps of a processing request change its revision's status, its own place and,
\* once, the form.
LEMMA ProcessorFrame ==
  ASSUME DocumentRowsOK, revision' \in [Revision -> RevisionRow], NothingApplied, FormsKept,
         processor' \in [Processor -> Work], form' \in [Revision -> FormRow],
         UNCHANGED <<projectVars, document, application, claims, conflicts, editor, applier>>
  PROVE  NoApplication
  BY DEF NoApplication, DocumentRowsOK

LEMMA CompleteUploadStep ==
  ASSUME InputsInvariant, NEW q \in Processor, NEW r \in Revision, CompleteUpload(q, r)
  PROVE  NoApplication
<1> DEFINE next == [pc |-> "scanning", revision |-> r, version |-> 0]
<1>1. DocumentRowsOK /\ form \in [Revision -> FormRow] /\ revision \in [Revision -> RevisionRow]
      /\ processor \in [Processor -> Work]
  BY DocumentTypes DEF InputsInvariant, InputsTypeOK, DocumentRowsOK
<1>2. next \in Work
  BY DEF Work
<1>3. processor' \in [Processor -> Work]
  BY <1>1, <1>2 DEF CompleteUpload
<1>4. revision' \in [Revision -> RevisionRow] /\ NothingApplied /\ FormsKept
  <2>1. {"QUARANTINED", "SCAN_PENDING"} \subseteq RevisionStatus \ {"APPLIED"}
    BY DEF RevisionStatus
  <2>2. CASE UNCHANGED revision
    BY <1>1, <2>2, RevisionsRest
  <2>3. CASE /\ revision[r].status = "UPLOAD_PENDING"
             /\ SetStatus(r, "QUARANTINED") \/ SetStatus(r, "SCAN_PENDING")
    BY <1>1, <2>1, <2>3, StatusStep
  <2>4. QED
    BY <2>2, <2>3 DEF CompleteUpload
<1>5. UNCHANGED <<projectVars, document, form, application, claims, conflicts, editor, applier>>
  BY DEF CompleteUpload
<1>6. QED
  BY <1>1, <1>3, <1>4, <1>5, ProcessorFrame

LEMMA ProcessorSteps ==
  ASSUME InputsInvariant, NEW q \in Processor,
         ProcessorStep(q) \/ ProcessingFails(q) \/ ProcessorVanishes(q)
  PROVE  NoApplication
<1> DEFINE r == processor[q].revision
<1>1. /\ DocumentRowsOK /\ form \in [Revision -> FormRow]
      /\ revision \in [Revision -> RevisionRow] /\ processor[q].version \in Nat
      /\ ProjectTypeOK
  BY DocumentTypes DEF InputsInvariant, InputsTypeOK, DocumentRowsOK, Work
<1>2. 0 \in Nat /\ StateVersion \in Nat
  BY <1>1 DEF ProjectTypeOK, StateVersion
<1>3. {"READY_FOR_PARSING", "QUARANTINED", "PARSING", "EXTRACTION_READY", "EXTRACTION_FAILED"}
        \subseteq RevisionStatus \ {"APPLIED"}
  BY DEF RevisionStatus
<1>4. ASSUME RecordScanResult(q)  PROVE  NoApplication
  <2>1. processor' \in [Processor -> Work]
    <3>1. \/ Goto(q, "parsing", 0)
          \/ Goto(q, "idle", 0)
      BY <1>4 DEF RecordScanResult
    <3>2. QED
      BY <1>1, <1>2, <3>1, GotoStep
  <2>2. revision' \in [Revision -> RevisionRow] /\ NothingApplied /\ FormsKept
    <3>1. CASE UNCHANGED revision
      BY <1>1, <3>1, RevisionsRest
    <3>2. CASE /\ revision[r].status = "SCAN_PENDING"
               /\ SetStatus(r, "READY_FOR_PARSING") \/ SetStatus(r, "QUARANTINED")
      BY <1>1, <1>3, <3>2, StatusStep
    <3>3. QED
      BY <1>4, <3>1, <3>2 DEF RecordScanResult
  <2>3. QED
    BY <1>1, <1>4, <2>1, <2>2, ProcessorFrame DEF RecordScanResult
<1>5. ASSUME AcceptParserResult(q)  PROVE  NoApplication
  <2>1. processor' \in [Processor -> Work]
    <3>1. \/ Goto(q, "idle", 0)
          \/ Goto(q, "extracting", StateVersion)
          \/ Goto(q, "failing", 0)
      BY <1>5 DEF AcceptParserResult
    <3>2. QED
      BY <1>1, <1>2, <3>1, GotoStep
  <2>2. revision' \in [Revision -> RevisionRow] /\ NothingApplied /\ FormsKept
    <3>1. CASE UNCHANGED revision
      BY <1>1, <3>1, RevisionsRest
    <3>2. CASE /\ revision[r].status \in {"READY_FOR_PARSING", "PARSING"}
               /\ SetStatus(r, "PARSING")
      BY <1>1, <1>3, <3>2, StatusStep
    <3>3. QED
      BY <1>5, <3>1, <3>2 DEF AcceptParserResult
  <2>3. QED
    BY <1>1, <1>5, <2>1, <2>2, ProcessorFrame DEF AcceptParserResult
<1>6. ASSUME NEW value \in Field, StoreForm(q, value)  PROVE  NoApplication
  <2>1. processor' \in [Processor -> Work]
    <3>1. Goto(q, "idle", 0) \/ Goto(q, "failing", 0)
      BY <1>6 DEF StoreForm
    <3>2. QED
      BY <1>1, <1>2, <3>1, GotoStep
  <2>2. /\ revision' \in [Revision -> RevisionRow] /\ NothingApplied /\ FormsKept
        /\ form' \in [Revision -> FormRow]
    <3>1. CASE ExtractionIsCurrent(r, processor[q].version)
      <4>1. /\ SetStatus(r, "EXTRACTION_READY")
            /\ form' = [form EXCEPT ![r] =
                          [version |-> processor[q].version, value |-> value]]
            /\ revision[r].status = "PARSING"
        BY <1>6, <3>1 DEF StoreForm, ExtractionIsCurrent
      <4>2. [version |-> processor[q].version, value |-> value] \in FormRow
        BY <1>1 DEF FormRow
      <4>3. form' \in [Revision -> FormRow]
        BY <1>1, <4>1, <4>2
      <4>4. QED
        BY <1>1, <1>3, <4>1, <4>3, StatusStep
    <3>2. CASE ~ ExtractionIsCurrent(r, processor[q].version)
      <4>1. UNCHANGED <<revision, form>>
        BY <1>6, <3>2 DEF StoreForm
      <4>2. QED
        BY <1>1, <4>1, RevisionsRest
    <3>3. QED
      BY <3>1, <3>2
  <2>3. QED
    BY <1>1, <1>6, <2>1, <2>2, ProcessorFrame DEF StoreForm
<1>7. ASSUME MarkExtractionFailed(q)  PROVE  NoApplication
  <2>1. processor' \in [Processor -> Work]
    BY <1>1, <1>2, <1>7, GotoStep DEF MarkExtractionFailed
  <2>2. revision' \in [Revision -> RevisionRow] /\ NothingApplied /\ FormsKept
    <3>1. CASE UNCHANGED revision
      BY <1>1, <3>1, RevisionsRest
    <3>2. CASE MayFail(r) /\ SetStatus(r, "EXTRACTION_FAILED")
      BY <1>1, <1>3, <3>2, StatusStep DEF MayFail
    <3>3. QED
      BY <1>7, <3>1, <3>2 DEF MarkExtractionFailed
  <2>3. QED
    BY <1>1, <1>7, <2>1, <2>2, ProcessorFrame DEF MarkExtractionFailed
<1>8. ASSUME ProcessingFails(q) \/ ProcessorVanishes(q)  PROVE  NoApplication
  <2>1. processor' \in [Processor -> Work]
    BY <1>1, <1>2, <1>8, GotoStep DEF ProcessingFails, ProcessorVanishes
  <2>2. UNCHANGED <<projectVars, documentRows, editor, applier>>
    BY <1>8 DEF ProcessingFails, ProcessorVanishes
  <2>3. QED
    BY <1>1, <2>1, <2>2, RevisionsRest, ProcessorFrame DEF documentRows
<1>9. QED
  BY <1>4, <1>5, <1>6, <1>7, <1>8 DEF ProcessorStep

\* Users who read and edit forms.
LEMMA ReaderSteps ==
  ASSUME InputsInvariant,
         \/ \E e \in Editor :
              \/ \E r \in Revision : UpdateStatement(e, r)
              \/ \E value \in Field : UpdateForm(e, value)
              \/ AbandonUpdate(e)
         \/ \E a \in Applier : (\E r \in Revision : GetForm(a, r)) \/ StopReading(a)
  PROVE  NoApplication
<1>1. DocumentRowsOK
  BY DocumentTypes DEF InputsInvariant, InputsTypeOK
<1>2. /\ UNCHANGED <<projectVars, document, revision, application, claims, conflicts,
                     processor>>
      /\ NothingApplied /\ FormsKept
  BY RevisionsRest DEF UpdateStatement, UpdateForm, AbandonUpdate, GetForm, StopReading,
                       documentRows
<1>3. form' \in [Revision -> FormRow]
  <2>1. ASSUME NEW e \in Editor, NEW value \in Field, UpdateForm(e, value)
        PROVE  form' \in [Revision -> FormRow]
    <3>1. form' = [form EXCEPT ![editor[e]] = [form[editor[e]] EXCEPT !.value = value]]
          /\ editor[e] \in Revision
      BY <1>1, <2>1 DEF UpdateForm, DocumentRowsOK
    <3>2. form[editor[e]] \in FormRow
      BY <1>1, <3>1 DEF DocumentRowsOK
    <3>3. [form[editor[e]] EXCEPT !.value = value] \in FormRow
      BY <3>2 DEF FormRow
    <3>4. QED
      BY <1>1, <3>1, <3>3 DEF DocumentRowsOK
  <2>2. CASE UNCHANGED form
    BY <1>1, <2>2 DEF DocumentRowsOK
  <2>3. QED
    BY <2>1, <2>2 DEF UpdateStatement, AbandonUpdate, GetForm, StopReading, documentRows
<1>4. editor' \in [Editor -> Revision \cup {NoRevision}]
  BY <1>1 DEF DocumentRowsOK, UpdateStatement, UpdateForm, AbandonUpdate, GetForm, StopReading
<1>5. applier' \in [Applier -> Reading]
  <2>1. ASSUME NEW a \in Applier, NEW r \in Revision, GetForm(a, r)
        PROVE  applier' \in [Applier -> Reading]
    <3>1. [revision |-> r, form |-> form[r]] \in Reading
      BY <1>1 DEF DocumentRowsOK, Reading
    <3>2. QED
      BY <1>1, <2>1, <3>1 DEF DocumentRowsOK, GetForm
  <2>2. ASSUME NEW a \in Applier, StopReading(a)
        PROVE  applier' \in [Applier -> Reading]
    BY <1>1, <2>2, RestTyped DEF DocumentRowsOK, StopReading
  <2>3. QED
    BY <1>1, <2>1, <2>2 DEF DocumentRowsOK, UpdateStatement, UpdateForm, AbandonUpdate
<1>6. DocumentRowsOK'
  BY <1>1, <1>2, <1>3, <1>4, <1>5 DEF DocumentRowsOK
<1>7. QED
  BY <1>2, <1>6 DEF NoApplication

\* A new claim is in conflict with all those that it contradicts.
LEMMA ClaimTaken ==
  ASSUME CompetingClaimsAreInConflict, NEW claim, claims' = claims \cup {claim},
         LET competing == Competing(claim)
         IN  conflicts' = IF competing = {} THEN conflicts
               ELSE conflicts \cup {{c.revision : c \in competing} \cup {claim.revision}}
  PROVE  CompetingClaimsAreInConflict'
<1> SUFFICES ASSUME NEW c \in claims', NEW d \in claims', c.case = d.case, c.value # d.value
             PROVE  \E conflict \in conflicts' : {c.revision, d.revision} \subseteq conflict
  BY DEF CompetingClaimsAreInConflict
<1>1. conflicts \subseteq conflicts'
  OBVIOUS
<1>2. CASE c \in claims /\ d \in claims
  BY <1>1, <1>2 DEF CompetingClaimsAreInConflict
<1>3. ASSUME NEW e \in Competing(claim)
      PROVE  \E conflict \in conflicts' : e.revision \in conflict /\ claim.revision \in conflict
  <2>1. conflicts' = conflicts
          \cup {{x.revision : x \in Competing(claim)} \cup {claim.revision}}
    BY <1>3
  <2>2. {e.revision, claim.revision}
          \subseteq {x.revision : x \in Competing(claim)} \cup {claim.revision}
    BY <1>3
  <2>3. QED
    BY <2>1, <2>2
<1>4. CASE c = claim /\ d \in claims
  <2>1. d \in Competing(claim)
    BY <1>4 DEF Competing
  <2>2. PICK conflict \in conflicts' : d.revision \in conflict /\ claim.revision \in conflict
    BY <1>3, <2>1
  <2>3. QED
    BY <1>4, <2>2
<1>5. CASE d = claim /\ c \in claims
  <2>1. c \in Competing(claim)
    BY <1>5 DEF Competing
  <2>2. PICK conflict \in conflicts' : c.revision \in conflict /\ claim.revision \in conflict
    BY <1>3, <2>1
  <2>3. QED
    BY <1>5, <2>2
<1>6. QED
  BY <1>2, <1>4, <1>5

\* apply_form takes over what was read, as the version after the one it was made for.
LEMMA ApplyFormStep ==
  ASSUME InputsInvariant, NEW a \in Applier, NEW r \in Revision,
         applier[a].revision = r, ApplyForm(a)
  PROVE  /\ ProjectTypeOK' /\ HeadFollowsState'
         /\ DocumentRowsOK' /\ DocumentInvariant' /\ FormsKept
         /\ \A k \in Key : VersionsBy(k)' = VersionsBy(k)
<1> DEFINE read == applier[a].form
           claim == [revision |-> r, case |-> activeCase, value |-> form[r].value]
           next == [revision[r] EXCEPT !.status = "APPLIED"]
<1>1. ProjectTypeOK /\ DocumentRowsOK /\ DocumentInvariant
  BY DocumentTypes DEF InputsInvariant, InputsTypeOK
<1>2. /\ revision[r].status = "EXTRACTION_READY"
      /\ StateVersion = read.version
      /\ form[r].value = read.value
      /\ activeCase # NoCase
      /\ NewVersion("DOCUMENT_CLAIMS_APPLIED", r)
      /\ StartSelectiveFirstProposal(StateVersion + 1)
      /\ revision' = [revision EXCEPT ![r] = next]
      /\ application' = [application EXCEPT ![r] = read]
      /\ applier' = [applier EXCEPT ![a] = NotReading]
      /\ UNCHANGED <<result, activeCase, document, form, processor, editor>>
  BY DEF ApplyForm, ApplyPrecondition, SetStatus
<1>3. IF form[r].value = Cleared
      THEN UNCHANGED <<claims, conflicts>>
      ELSE /\ claims' = claims \cup {claim}
           /\ conflicts' = IF Competing(claim) = {} THEN conflicts
                ELSE conflicts \cup {{c.revision : c \in Competing(claim)} \cup {r}}
  BY DEF ApplyForm
<1>4. read \in FormRow /\ read.value \in Value \cup {Cleared} /\ form[r].value = read.value
  BY <1>1, <1>2 DEF DocumentRowsOK, Reading, FormRow, Field
<1>5. next \in RevisionRow /\ next.status = "APPLIED"
  BY <1>1 DEF DocumentRowsOK, RevisionRow, RevisionStatus
<1>6. claim.revision = r /\ claim.value = read.value
  BY <1>2
<1>7. read.value # Cleared =>
        claim \in [revision : Revision, case : Case, value : Value]
  BY <1>1, <1>2, <1>4 DEF ProjectTypeOK
<1> HIDE DEF claim, next
<1>8. /\ revision' \in [Revision -> RevisionRow] /\ revision'[r] = next
      /\ \A s \in Revision : s # r => revision'[s] = revision[s]
      /\ application' \in [Revision -> FormRow] /\ application'[r] = read
      /\ \A s \in Revision : s # r => application'[s] = application[s]
      /\ applier' \in [Applier -> Reading]
  <2>1. application' \in [Revision -> FormRow] /\ application'[r] = read
        /\ \A s \in Revision : s # r => application'[s] = application[s]
    <3> HIDE DEF read
    <3>1. QED
      BY <1>1, <1>2, <1>4 DEF DocumentRowsOK
  <2>2. QED
    BY <1>1, <1>2, <1>5, <2>1, RestTyped DEF DocumentRowsOK
<1>9. r \in Author \cup {NoAuthor} /\ "DOCUMENT_CLAIMS_APPLIED" \in EventType
  BY AuthorsApart DEF EventType
<1>10. /\ VersionsBy(r)' = VersionsBy(r) \cup {StateVersion + 1}
       /\ \A s : s # r => VersionsBy(s)' = VersionsBy(s)
  BY <1>1, <1>2, <1>9, VersionAppended DEF ProjectTypeOK
<1>11. ProjectTypeOK' /\ HeadFollowsState'
  BY <1>1, <1>2, <1>9, CommandApplied
<1>12. DocumentRowsOK'
  <2>1. claims' \subseteq [revision : Revision, case : Case, value : Value]
    BY <1>1, <1>3, <1>4, <1>7 DEF DocumentRowsOK
  <2>2. conflicts' \subseteq SUBSET Revision
    <3>1. \A c \in Competing(claim) : c.revision \in Revision
      BY <1>1 DEF DocumentRowsOK, Competing
    <3>2. {c.revision : c \in Competing(claim)} \cup {r} \subseteq Revision
      BY <3>1
    <3>3. QED
      BY <1>1, <1>3, <3>2 DEF DocumentRowsOK
  <2>3. QED
    BY <1>1, <1>2, <1>8, <2>1, <2>2 DEF DocumentRowsOK
<1>13. RevisionsAppliedOnce'
  <2>1. VersionsBy(r)' = {read.version + 1}
    BY <1>1, <1>2, <1>10 DEF DocumentInvariant, RevisionsAppliedOnce
  <2>2. QED
    BY <1>1, <1>5, <1>8, <1>10, <2>1 DEF DocumentInvariant, RevisionsAppliedOnce
<1>14. ClaimsAsApplied'
  <2>1. \A s \in Revision :
          {c.value : c \in {c \in claims' : c.revision = s}}
            = IF s = r THEN {read.value} \ {Cleared}
              ELSE {c.value : c \in {c \in claims : c.revision = s}}
    <3>1. {c.value : c \in {c \in claims : c.revision = r}} = {}
      BY <1>1, <1>2 DEF DocumentInvariant, ClaimsAsApplied
    <3>2. CASE read.value = Cleared
      BY <1>3, <1>4, <3>1, <3>2
    <3>3. CASE read.value # Cleared
      <4>1. claims' = claims \cup {claim}
        BY <1>3, <1>4, <3>3
      <4>2. ASSUME NEW s \in Revision, s # r
            PROVE  {c.value : c \in {c \in claims' : c.revision = s}}
                     = {c.value : c \in {c \in claims : c.revision = s}}
        BY <1>6, <4>1, <4>2
      <4>3. {c.value : c \in {c \in claims' : c.revision = r}} = {read.value}
        BY <1>6, <3>1, <4>1
      <4>4. QED
        BY <3>3, <4>2, <4>3
    <3>4. QED
      BY <3>2, <3>3
  <2>2. QED
    BY <1>1, <1>5, <1>8, <2>1 DEF DocumentInvariant, ClaimsAsApplied
<1>15. CompetingClaimsAreInConflict'
  <2>1. CASE read.value = Cleared
    BY <1>1, <1>3, <1>4, <2>1 DEF DocumentInvariant, CompetingClaimsAreInConflict
  <2>2. CASE read.value # Cleared
    BY <1>1, <1>3, <1>4, <1>6, <2>2, ClaimTaken DEF DocumentInvariant
  <2>3. QED
    BY <2>1, <2>2
<1>16. FormsKept
  BY <1>2, <1>5, <1>8 DEF FormsKept
<1>17. \A k \in Key : VersionsBy(k)' = VersionsBy(k)
  BY <1>10, AuthorsApart
<1>18. QED
  BY <1>11, <1>12, <1>13, <1>14, <1>15, <1>16, <1>17 DEF DocumentInvariant

LEMMA DocumentStep ==
  ASSUME InputsInvariant, DocumentNext
  PROVE  /\ DocumentTypeOK' /\ HeadFollowsState' /\ DocumentInvariant' /\ FormsKept
         /\ \A k \in Key : VersionsBy(k)' = VersionsBy(k)
<1>1. ProjectTypeOK' /\ DocumentRowsOK' => DocumentTypeOK'
  BY DEF DocumentTypeOK, DocumentRowsOK, RevisionRow, FormRow, Work, Reading
<1>2. ASSUME NEW a \in Applier, ApplyForm(a)
      PROVE  /\ DocumentTypeOK' /\ HeadFollowsState' /\ DocumentInvariant' /\ FormsKept
             /\ \A k \in Key : VersionsBy(k)' = VersionsBy(k)
  <2>1. applier[a].revision \in Revision
    BY <1>2, DocumentTypes
    DEF InputsInvariant, InputsTypeOK, DocumentRowsOK, Reading, ApplyForm
  <2>2. QED
    BY <1>1, <1>2, <2>1, ApplyFormStep
<1>3. CASE NoApplication
  <2>1. \A s \in Key \cup Revision : VersionsBy(s)' = VersionsBy(s)
    BY <1>3, VersionsKept DEF NoApplication, projectVars
  <2>2. ProjectTypeOK' /\ HeadFollowsState'
    BY <1>3, ProjectKept, DocumentTypes DEF NoApplication, InputsInvariant, InputsTypeOK
  <2>3. DocumentInvariant'
    BY <1>3, <2>1, ClaimsRest DEF NoApplication, InputsInvariant
  <2>4. QED
    BY <1>1, <1>3, <2>1, <2>2, <2>3 DEF NoApplication
<1>4. (\E a \in Applier : ApplyForm(a)) \/ NoApplication
  BY BeginUploadStep, CompleteUploadStep, ProcessorSteps, ReaderSteps DEF DocumentNext
<1>5. QED
  BY <1>2, <1>3, <1>4

-----------------------------------------------------------------------------
(* The theorems.                                                           *)

LEMMA InputsInitInvariant == InputsInit => InputsInvariant
<1> SUFFICES ASSUME InputsInit
             PROVE  InputsInvariant
  OBVIOUS
<1> DEFINE first == [type |-> "ONBOARDING_CONFIRMED", by |-> NoAuthor]
           second == [type |-> "CANDIDATE_SELECTED", by |-> NoAuthor]
<1>1. versions = <<first, second>> /\ first \in Event /\ second \in Event
  BY DEF InputsInit, ProjectInit, Event, EventType
<1>2. first.by = NoAuthor /\ second.by = NoAuthor
  OBVIOUS
<1> HIDE DEF first, second
<1>3. /\ versions \in Seq(Event) /\ Len(versions) = 2
      /\ versions[1].by = NoAuthor /\ versions[2].by = NoAuthor
  BY <1>1, <1>2
<1>4. ProjectTypeOK /\ HeadFollowsState
  BY <1>3 DEF InputsInit, ProjectInit, ProjectTypeOK, HeadFollowsState, HeadFence,
              StateVersion
<1>5. \A a \in Author : VersionsBy(a) = {}
  BY <1>3, ProjectAssumption DEF VersionsBy, StateVersion
<1>6. NoPreview \in PreviewRow /\ NoPreview.status = "absent"
  BY DEF NoPreview, NoHead, HeadFence, PreviewRow, PreviewStatus
<1>7. FeedbackRowsOK
  BY <1>6, NoCallTyped DEF InputsInit, FeedbackInit, FeedbackRowsOK
<1>8. FeedbackInvariant
  BY <1>5, <1>6, AuthorsApart
  DEF InputsInit, FeedbackInit, FeedbackInvariant, PreviewsFitTheirHead,
      LocksKeepReviewable, PreviewsAppliedOnce
<1>9. DocumentRowsOK
  BY RestTyped DEF InputsInit, DocumentInit, DocumentRowsOK, RevisionRow, RevisionStatus
<1>10. DocumentInvariant
  BY <1>5, AuthorsApart
  DEF InputsInit, DocumentInit, DocumentInvariant, RevisionsAppliedOnce, ClaimsAsApplied,
      CompetingClaimsAreInConflict
<1>11. QED
  BY <1>4, <1>7, <1>8, <1>9, <1>10, FeedbackTypes, DocumentTypes
  DEF InputsInvariant, InputsTypeOK

LEMMA InputsNextInvariant ==
  ASSUME InputsInvariant, [InputsNext]_inputVars
  PROVE  InputsInvariant' /\ ProposalsKept /\ FormsKept
<1>1. CASE FeedbackNext /\ UNCHANGED documentVars
  <2>1. /\ FeedbackTypeOK' /\ HeadFollowsState' /\ FeedbackInvariant' /\ ProposalsKept
        /\ \A r \in Revision : VersionsBy(r)' = VersionsBy(r)
    BY <1>1, FeedbackStep
  <2>2. NothingApplied /\ FormsKept
    BY <1>1, RevisionsRest DEF documentVars, documentRows
  <2>3. DocumentInvariant'
    BY <1>1, <2>1, <2>2, ClaimsRest DEF InputsInvariant, documentVars, documentRows
  <2>4. DocumentTypeOK'
    BY <1>1, <2>1
    DEF InputsInvariant, InputsTypeOK, DocumentTypeOK, FeedbackTypeOK, documentVars,
        documentRows
  <2>5. QED
    BY <2>1, <2>2, <2>3, <2>4 DEF InputsInvariant, InputsTypeOK
<1>2. CASE DocumentNext /\ UNCHANGED feedbackVars
  <2>1. /\ DocumentTypeOK' /\ HeadFollowsState' /\ DocumentInvariant' /\ FormsKept
        /\ \A k \in Key : VersionsBy(k)' = VersionsBy(k)
    BY <1>2, DocumentStep
  <2>2. FeedbackInvariant' /\ ProposalsKept
    BY <1>2, <2>1, PreviewsRest DEF InputsInvariant, feedbackVars
  <2>3. FeedbackTypeOK'
    BY <1>2, <2>1
    DEF InputsInvariant, InputsTypeOK, FeedbackTypeOK, DocumentTypeOK, feedbackVars
  <2>4. QED
    BY <2>1, <2>2, <2>3 DEF InputsInvariant, InputsTypeOK
<1>3. CASE /\ ProjectNext \/ UNCHANGED projectVars
           /\ UNCHANGED <<feedbackVars, documentVars>>
  <2>1. /\ ProjectTypeOK' /\ HeadFollowsState'
        /\ \A a \in Author : VersionsBy(a)' = VersionsBy(a)
    <3>1. ProjectTypeOK /\ HeadFollowsState
      BY DEF InputsInvariant, InputsTypeOK, FeedbackTypeOK
    <3>2. CASE ProjectNext
      BY <3>1, <3>2, ProjectStep
    <3>3. CASE UNCHANGED projectVars
      BY <3>1, <3>3, ProjectKept, VersionsKept DEF projectVars
    <3>4. QED
      BY <1>3, <3>2, <3>3
  <2>2. FeedbackInvariant' /\ ProposalsKept
    BY <1>3, <2>1, AuthorsApart, PreviewsRest DEF InputsInvariant, feedbackVars
  <2>3. NothingApplied /\ FormsKept
    BY <1>3, RevisionsRest DEF documentVars, documentRows
  <2>4. DocumentInvariant'
    BY <1>3, <2>1, <2>3, AuthorsApart, ClaimsRest
    DEF InputsInvariant, documentVars, documentRows
  <2>5. InputsTypeOK'
    BY <1>3, <2>1
    DEF InputsInvariant, InputsTypeOK, FeedbackTypeOK, DocumentTypeOK, feedbackVars,
        documentVars, documentRows
  <2>6. QED
    BY <2>1, <2>2, <2>3, <2>4, <2>5 DEF InputsInvariant
<1>4. QED
  BY <1>1, <1>2, <1>3 DEF InputsNext, inputVars

\* What the invariant says in the words of the components.
LEMMA InvariantMeans ==
  ASSUME InputsInvariant
  PROVE  /\ PreviewIsForItsHead
         /\ ConfirmedOnTheStateItShowed
         /\ AppliedAsRead
<1>1. PreviewIsForItsHead
  BY DEF InputsInvariant, FeedbackInvariant, PreviewsFitTheirHead, HeadFollowsState,
         PreviewIsForItsHead
<1>2. ConfirmedOnTheStateItShowed
  BY DEF InputsInvariant, FeedbackInvariant, PreviewsAppliedOnce, VersionsBy,
         ConfirmedOnTheStateItShowed
<1>3. AppliedAsRead
  <2> SUFFICES ASSUME NEW r \in Revision
               PROVE  IF revision[r].status = "APPLIED"
                      THEN /\ VersionsBy(r) = {application[r].version + 1}
                           /\ {c.value : c \in {c \in claims : c.revision = r}}
                                = {application[r].value} \ {Cleared}
                      ELSE \A v \in 1..StateVersion : versions[v].by # r
    BY DEF AppliedAsRead, VersionsBy
  <2>1. CASE revision[r].status = "APPLIED"
    BY <2>1 DEF InputsInvariant, DocumentInvariant, RevisionsAppliedOnce, ClaimsAsApplied
  <2>2. CASE revision[r].status # "APPLIED"
    <3>1. VersionsBy(r) = {}
      BY <2>2 DEF InputsInvariant, DocumentInvariant, RevisionsAppliedOnce
    <3>2. QED
      BY <2>2, <3>1 DEF VersionsBy
  <2>3. QED
    BY <2>1, <2>2
<1>4. QED
  BY <1>1, <1>2, <1>3

LEMMA InputsInvariantHolds == InputsSpec => []InputsInvariant
<1>1. InputsInvariant /\ [InputsNext]_inputVars => InputsInvariant'
  BY InputsNextInvariant
<1>2. QED
  BY InputsInitInvariant, <1>1, PTL DEF InputsSpec

\* The rows of previews, calls, documents, forms and claims keep their types.
THEOREM InputsTypeCorrect == InputsSpec => []InputsTypeOK
<1>1. InputsInvariant => InputsTypeOK
  BY DEF InputsInvariant
<1>2. QED
  BY <1>1, InputsInvariantHolds, PTL

\* create_preview reads the state and the head in two transactions, and a preview still
\* is for the state that its head stands for.
THEOREM PreviewsAreForTheirHead == InputsSpec => []PreviewIsForItsHead
<1>1. InputsInvariant => PreviewIsForItsHead
  BY InvariantMeans
<1>2. QED
  BY <1>1, InputsInvariantHolds, PTL

\* confirm_preview applies a preview once, as the version after the state it was made
\* from.
THEOREM ConfirmedOnceWhereShown == InputsSpec => []ConfirmedOnTheStateItShowed
<1>1. InputsInvariant => ConfirmedOnTheStateItShowed
  BY InvariantMeans
<1>2. QED
  BY <1>1, InputsInvariantHolds, PTL

\* apply_form finds every claim that contradicts the one it takes over.
THEOREM ContradictionsAreFound == InputsSpec => []CompetingClaimsAreInConflict
<1>1. InputsInvariant => CompetingClaimsAreInConflict
  BY DEF InputsInvariant, DocumentInvariant
<1>2. QED
  BY <1>1, InputsInvariantHolds, PTL

\* apply_form takes over what its user had read, once, as the version after the one the
\* form was made for.
THEOREM FormsAppliedAsRead == InputsSpec => []AppliedAsRead
<1>1. InputsInvariant => AppliedAsRead
  BY InvariantMeans
<1>2. QED
  BY <1>1, InputsInvariantHolds, PTL

\* A late answer or a second resolution leaves a preview that was answered as it is.
THEOREM ProposalsAreStable == InputsSpec => ProposalIsStable
<1>1. InputsInvariant /\ [InputsNext]_inputVars => [ProposalsKept]_<<projectVars, feedbackVars>>
  BY InputsNextInvariant
<1>2. QED
  BY <1>1, InputsInvariantHolds, PTL DEF InputsSpec, ProposalIsStable, ProposalsKept

\* A late or repeated processing request leaves a form that is ready as it is.
THEOREM ReadyFormsStay == InputsSpec => ReadyFormsAreKept
<1>1. InputsInvariant /\ [InputsNext]_inputVars => [FormsKept]_<<projectVars, documentVars>>
  BY InputsNextInvariant
<1>2. QED
  BY <1>1, InputsInvariantHolds, PTL DEF InputsSpec, ReadyFormsAreKept, FormsKept
=============================================================================
