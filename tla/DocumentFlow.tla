----------------------------- MODULE DocumentFlow -----------------------------
(***************************************************************************)
(* Documents about the selected candidate (api/app/documents): a revision is *)
(* uploaded, scanned, parsed and turned into a form by an agent; the user     *)
(* edits the form and applies it to the Venture State.                       *)
(*                                                                         *)
(* The API processes a revision inside the request that completes its        *)
(* upload; repeated requests process it side by side.  A form has one field   *)
(* here.  Transactions are at READ COMMITTED, as in FeedbackFlow: a statement *)
(* that waits for the rows it locks keeps what it saw of the others.          *)
(***************************************************************************)
EXTENDS VentureProject

CONSTANTS
  Document,    \* document_ids
  Revision,    \* document_revision_ids, also their Idempotency-Keys
  NoRevision,  \* an idle call
  Value,       \* what the field of a form may hold
  Cleared,     \* current_value is null
  Processor,   \* concurrent uploads:complete calls
  Editor,      \* concurrent PUT extraction-form calls
  Applier      \* concurrent readers of a form that apply it

ASSUME DocumentAssumption ==
  /\ NoRevision \notin Revision
  /\ Cleared \notin Value
  /\ Revision \subseteq Author

VARIABLES
  document,     \* the documents rows: the case of each
  revision,     \* the document_revisions rows
  form,         \* the document_extraction_forms rows
  application,  \* the document_form_applications rows
  claims,       \* venture_claims, by the revision they came from
  conflicts,    \* document_claim_conflicts: the competing claims of each
  processor,    \* complete_upload and process, between their transactions
  editor,       \* update_form, while it waits for the form
  applier       \* what a user read of a form

documentRows == <<document, revision, form, application, claims, conflicts>>
documentVars == <<documentRows, processor, editor, applier>>

RevisionStatus ==
  {"absent", "UPLOAD_PENDING", "SCAN_PENDING", "READY_FOR_PARSING", "PARSING",
   "EXTRACTION_READY", "APPLIED", "EXTRACTION_FAILED", "QUARANTINED"}

Field == Value \cup {Cleared}

\* version 0: no form, no application
NoForm == [version |-> 0, value |-> Cleared]

NoWork == [pc |-> "idle", revision |-> NoRevision, version |-> 0]

NotReading == [revision |-> NoRevision, form |-> NoForm]

DocumentTypeOK ==
  /\ ProjectTypeOK
  /\ document \in [Document -> Case \cup {NoCase}]
  /\ revision \in [Revision ->
       [status : RevisionStatus, document : Document \cup {NoRevision}]]
  /\ form \in [Revision -> [version : Nat, value : Field]]
  /\ application \in [Revision -> [version : Nat, value : Field]]
  /\ claims \subseteq [revision : Revision, case : Case, value : Value]
  /\ conflicts \subseteq SUBSET Revision
  /\ processor \in [Processor ->
       [pc : {"idle", "scanning", "parsing", "extracting", "failing"},
        revision : Revision \cup {NoRevision}, version : Nat]]
  /\ editor \in [Editor -> Revision \cup {NoRevision}]
  /\ applier \in [Applier ->
       [revision : Revision \cup {NoRevision}, form : [version : Nat, value : Field]]]

DocumentInit ==
  /\ document = [d \in Document |-> NoCase]
  /\ revision = [r \in Revision |-> [status |-> "absent", document |-> NoRevision]]
  /\ form = [r \in Revision |-> NoForm]
  /\ application = [r \in Revision |-> NoForm]
  /\ claims = {}
  /\ conflicts = {}
  /\ processor = [q \in Processor |-> NoWork]
  /\ editor = [e \in Editor |-> NoRevision]
  /\ applier = [a \in Applier |-> NotReading]

\* Bug: the document_id column gets the id of the revision.
SetStatusOfRevision(r, status) ==
  revision' = [revision EXCEPT ![r] = [status |-> status, document |-> r]]

SetStatus(r, status) ==
  revision' = [revision EXCEPT ![r] = [revision[r] EXCEPT !.status = status]]

-----------------------------------------------------------------------------
\* A first revision opens its document for the selected case, a further one must be of
\* the same case; a repeated call changes nothing.
BeginUpload(r, d) ==
  /\ activeCase # NoCase
  /\ revision[r].status = "absent"
  /\ document[d] \in {NoCase, activeCase}
  /\ document' = [document EXCEPT ![d] = activeCase]
  /\ revision' = [revision EXCEPT ![r] =
                    [status |-> "UPLOAD_PENDING", document |-> d]]
  /\ UNCHANGED <<projectVars, form, application, claims, conflicts, processor,
                 editor, applier>>

\* The stored object matches its declaration or not.
CompleteUpload(q, r) ==
  /\ processor[q] = NoWork
  /\ \/ /\ revision[r].status = "UPLOAD_PENDING"
        /\ \/ SetStatus(r, "QUARANTINED") /\ UNCHANGED processor
           \/ /\ SetStatus(r, "SCAN_PENDING")
              /\ processor' = [processor EXCEPT ![q] =
                   [pc |-> "scanning", revision |-> r, version |-> 0]]
     \/ /\ revision[r].status = "SCAN_PENDING"
        /\ processor' = [processor EXCEPT ![q] =
             [pc |-> "scanning", revision |-> r, version |-> 0]]
        /\ UNCHANGED revision
  /\ UNCHANGED <<projectVars, document, form, application, claims, conflicts,
                 editor, applier>>

\* Where processor q goes next; "idle" ends its call.
Goto(q, pc, version) ==
  processor' = [processor EXCEPT ![q] =
    IF pc = "idle" THEN NoWork
    ELSE [pc |-> pc, revision |-> processor[q].revision, version |-> version]]

\* Somebody else's scan counts as well.
RecordScanResult(q) ==
  LET r == processor[q].revision IN
  /\ processor[q].pc = "scanning"
  /\ \/ /\ revision[r].status = "SCAN_PENDING"
        /\ \/ SetStatus(r, "READY_FOR_PARSING") /\ Goto(q, "parsing", 0)
           \/ SetStatus(r, "QUARANTINED") /\ Goto(q, "idle", 0)
     \/ /\ revision[r].status # "SCAN_PENDING"
        /\ Goto(q, IF revision[r].status = "READY_FOR_PARSING"
                   THEN "parsing" ELSE "idle", 0)
        /\ UNCHANGED revision
  /\ UNCHANGED <<projectVars, document, form, application, claims, conflicts,
                 editor, applier>>

\* accept_parser_result up to its first commit.
AcceptParserResult(q) ==
  LET r == processor[q].revision IN
  /\ processor[q].pc = "parsing"
  /\ \/ /\ form[r] # NoForm
        /\ Goto(q, "idle", 0)
        /\ UNCHANGED revision
     \/ /\ form[r] = NoForm
        /\ revision[r].status \in {"READY_FOR_PARSING", "PARSING"}
        /\ SetStatus(r, "PARSING")
        /\ Goto(q, "extracting", StateVersion)
     \/ /\ form[r] = NoForm
        /\ revision[r].status \notin {"READY_FOR_PARSING", "PARSING"}
        /\ Goto(q, "failing", 0)
        /\ UNCHANGED revision
  /\ UNCHANGED <<projectVars, document, form, application, claims, conflicts,
                 editor, applier>>

ExtractionIsCurrent(r, version) ==
  revision[r].status = "PARSING" /\ StateVersion = version

\* The agent answered; the second transaction stores the form or finds it stale.
StoreForm(q, value) ==
  LET r == processor[q].revision
      version == processor[q].version
  IN  /\ processor[q].pc = "extracting"
      /\ \/ /\ ExtractionIsCurrent(r, version)
            /\ form' = [form EXCEPT ![r] = [version |-> version, value |-> value]]
            /\ SetStatus(r, "EXTRACTION_READY")
            /\ Goto(q, "idle", 0)
         \/ /\ ~ ExtractionIsCurrent(r, version)
            /\ Goto(q, "failing", 0)
            /\ UNCHANGED <<revision, form>>
      /\ UNCHANGED <<projectVars, document, application, claims, conflicts,
                     editor, applier>>

\* The object is gone, it cannot be parsed, or the agent fails.
ProcessingFails(q) ==
  /\ processor[q].pc \in {"scanning", "parsing", "extracting"}
  /\ Goto(q, "failing", 0)
  /\ UNCHANGED <<projectVars, documentRows, editor, applier>>

\* Bug: a late failure does not look at the status.
MayFailAlways(r) == TRUE

MayFail(r) == revision[r].status \notin {"EXTRACTION_READY", "APPLIED", "QUARANTINED"}

MarkExtractionFailed(q) ==
  LET r == processor[q].revision IN
  /\ processor[q].pc = "failing"
  /\ IF MayFail(r) THEN SetStatus(r, "EXTRACTION_FAILED") ELSE UNCHANGED revision
  /\ Goto(q, "idle", 0)
  /\ UNCHANGED <<projectVars, document, form, application, claims, conflicts,
                 editor, applier>>

ProcessorVanishes(q) ==
  /\ processor[q] # NoWork
  /\ Goto(q, "idle", 0)
  /\ UNCHANGED <<projectVars, documentRows, editor, applier>>

-----------------------------------------------------------------------------
\* update_form locks the form only; state version and revision status are those of its
\* snapshot.
UpdateStatement(e, r) ==
  /\ editor[e] = NoRevision
  /\ revision[r].status = "EXTRACTION_READY"
  /\ form[r].version = StateVersion
  /\ editor' = [editor EXCEPT ![e] = r]
  /\ UNCHANGED <<projectVars, documentRows, processor, applier>>

UpdateForm(e, value) ==
  LET r == editor[e] IN
  /\ r # NoRevision
  /\ form' = [form EXCEPT ![r] = [form[r] EXCEPT !.value = value]]
  /\ editor' = [editor EXCEPT ![e] = NoRevision]
  /\ UNCHANGED <<projectVars, document, revision, application, claims, conflicts,
                 processor, applier>>

AbandonUpdate(e) ==
  /\ editor[e] # NoRevision
  /\ editor' = [editor EXCEPT ![e] = NoRevision]
  /\ UNCHANGED <<projectVars, documentRows, processor, applier>>

\* The user looks at a form: its version and digest go into the apply command.
GetForm(a, r) ==
  /\ form[r] # NoForm
  /\ applier' = [applier EXCEPT ![a] = [revision |-> r, form |-> form[r]]]
  /\ UNCHANGED <<projectVars, documentRows, processor, editor>>

\* Bug: the digest is not compared.
ApplyPreconditionWithoutDigest(r, read) ==
  /\ revision[r].status = "EXTRACTION_READY"
  /\ form[r].version = read.version
  /\ StateVersion = read.version

ApplyPrecondition(r, read) ==
  /\ revision[r].status = "EXTRACTION_READY"
  /\ form[r].version = read.version
  /\ StateVersion = read.version
  /\ form[r].value = read.value

\* Bug: the apply command takes the claims over without looking for conflicts.
NoConflict(claim) == {}

\* Confirmed claims of the case with another value; none of an empty field.
Competing(claim) ==
  {c \in claims : c.case = claim.case /\ c.value # claim.value}

\* apply_form holds form, revision and project; a repeated call is answered from its
\* application row.
ApplyForm(a) ==
  LET r == applier[a].revision
      read == applier[a].form
      claim == [revision |-> r, case |-> activeCase, value |-> form[r].value]
      competing == Competing(claim)
  IN  /\ r # NoRevision
      /\ ApplyPrecondition(r, read)
      /\ activeCase # NoCase
      /\ NewVersion("DOCUMENT_CLAIMS_APPLIED", r)
      /\ StartSelectiveFirstProposal(StateVersion + 1)
      /\ SetStatus(r, "APPLIED")
      /\ application' = [application EXCEPT ![r] = read]
      /\ IF form[r].value = Cleared
         THEN UNCHANGED <<claims, conflicts>>
         ELSE /\ claims' = claims \cup {claim}
              /\ conflicts' = IF competing = {} THEN conflicts
                   ELSE conflicts \cup {{c.revision : c \in competing} \cup {r}}
      /\ applier' = [applier EXCEPT ![a] = NotReading]
      /\ UNCHANGED <<result, activeCase, document, form, processor, editor>>

StopReading(a) ==
  /\ applier[a] # NotReading
  /\ applier' = [applier EXCEPT ![a] = NotReading]
  /\ UNCHANGED <<projectVars, documentRows, processor, editor>>

ProcessorStep(q) ==
  \/ RecordScanResult(q)
  \/ AcceptParserResult(q)
  \/ \E value \in Field : StoreForm(q, value)
  \/ MarkExtractionFailed(q)

DocumentNext ==
  \/ \E r \in Revision, d \in Document : BeginUpload(r, d)
  \/ \E q \in Processor :
       \/ \E r \in Revision : CompleteUpload(q, r)
       \/ ProcessorStep(q)
       \/ ProcessingFails(q)
       \/ ProcessorVanishes(q)
  \/ \E e \in Editor :
       \/ \E r \in Revision : UpdateStatement(e, r)
       \/ \E value \in Field : UpdateForm(e, value)
       \/ AbandonUpdate(e)
  \/ \E a \in Applier :
       \/ \E r \in Revision : GetForm(a, r)
       \/ ApplyForm(a)
       \/ StopReading(a)

-----------------------------------------------------------------------------
\* Values that contradict each other are never both taken: any two confirmed claims of
\* one case with different values are in a conflict (api/README.md:191-192).
CompetingClaimsAreInConflict ==
  \A c, d \in claims :
    c.case = d.case /\ c.value # d.value =>
      \E conflict \in conflicts : {c.revision, d.revision} \subseteq conflict

\* What is taken over is what the user had read when asking for it, once, and as the
\* version that follows the one the form was made for.
AppliedAsRead ==
  \A r \in Revision :
    IF revision[r].status = "APPLIED"
    THEN /\ {v \in 1..StateVersion : versions[v].by = r} = {application[r].version + 1}
         /\ {c.value : c \in {c \in claims : c.revision = r}}
              = {application[r].value} \ {Cleared}
    ELSE \A v \in 1..StateVersion : versions[v].by # r

\* A form that is ready stays until it is applied: no other request that processes the
\* revision, however late, fails or restarts it.
ReadyFormsAreKept ==
  [][\A r \in Revision :
       revision[r].status \in {"EXTRACTION_READY", "APPLIED", "QUARANTINED"}
         /\ revision'[r] # revision[r] =>
            revision[r].status = "EXTRACTION_READY" /\ revision'[r].status = "APPLIED"
    ]_<<projectVars, documentVars>>
=============================================================================
