---------------------------- MODULE VentureProject ----------------------------
(***************************************************************************)
(* One project after its first proposal, as the user's commands see it: the  *)
(* chain of Venture State versions, the head that fences everything computed *)
(* from them, the current result, the selected candidate.                    *)
(*                                                                         *)
(* Each action is one transaction that locks the venture_projects row.  Runs *)
(* are reduced to the head they were queued for (WorkflowStore has the rest: *)
(* only a run whose head is still the project's publishes).                  *)
(***************************************************************************)
EXTENDS Naturals, Sequences

CONSTANTS
  Case,             \* candidate_ids a result may offer
  NoCase,           \* active_case_id is null
  Author,           \* what may have caused a version: previews, documents ...
  NoAuthor,         \* ... or a command that keeps no row of its own
  MaxStateVersion,  \* bound: versions of the Venture State
  MaxGeneration     \* bound: runs that are queued

ASSUME ProjectAssumption ==
  /\ NoCase \notin Case
  /\ NoAuthor \notin Author
  /\ MaxStateVersion \in Nat \ {0}
  /\ MaxGeneration \in Nat \ {0}

VARIABLES
  versions,    \* project_events with the venture_states they produced, by version
  head,        \* the project_heads row
  latest,      \* the head of the newest run
  result,      \* the head of the run whose bundle is current
  activeCase   \* active_case_id of the newest state

projectVars == <<versions, head, latest, result, activeCase>>

HeadFence == [generation : Nat, state : Nat]

EventType ==
  {"ONBOARDING_CONFIRMED", "CANDIDATE_SELECTED", "PROPERTY_TERMS_APPLIED",
   "FEEDBACK_CHANGE_CONFIRMED", "DOCUMENT_CLAIMS_APPLIED"}

Event == [type : EventType, by : Author \cup {NoAuthor}]

ProjectTypeOK ==
  /\ versions \in Seq(Event)
  /\ {head, latest, result} \subseteq HeadFence
  /\ activeCase \in Case \cup {NoCase}

\* venture_projects.current_state_version
StateVersion == Len(versions)

\* The first proposal of a confirmed onboarding was published and one of its candidates
\* selected, which moved the head past the result.
ProjectInit ==
  /\ versions = <<[type |-> "ONBOARDING_CONFIRMED", by |-> NoAuthor],
                  [type |-> "CANDIDATE_SELECTED", by |-> NoAuthor]>>
  /\ latest = [generation |-> 1, state |-> 1]
  /\ result = latest
  /\ head = [generation |-> 1, state |-> 2]
  /\ activeCase \in Case

-----------------------------------------------------------------------------
\* reduce_venture_state and the rows that store what it returns.
NewVersion(type, by) ==
  /\ StateVersion < MaxStateVersion
  /\ versions' = Append(versions, [type |-> type, by |-> by])

\* start_selective_first_proposal for the state of that version.
StartSelectiveFirstProposal(version) ==
  /\ head.generation < MaxGeneration
  /\ head' = [generation |-> head.generation + 1, state |-> version]
  /\ latest' = head'

\* The candidates on offer must be of the current state: a second selection needs a
\* new result first.
SelectCandidate(c) ==
  /\ result.state = StateVersion
  /\ NewVersion("CANDIDATE_SELECTED", NoAuthor)
  /\ head' = [head EXCEPT !.state = StateVersion + 1]
  /\ activeCase' = c
  /\ UNCHANGED <<latest, result>>

ApplyPropertyTerms ==
  /\ activeCase # NoCase
  /\ NewVersion("PROPERTY_TERMS_APPLIED", NoAuthor)
  /\ StartSelectiveFirstProposal(StateVersion + 1)
  /\ UNCHANGED <<result, activeCase>>

\* Changed evidence; starting a full proposal again has the same effect here.
RefreshEvidence ==
  /\ StartSelectiveFirstProposal(StateVersion)
  /\ UNCHANGED <<versions, result, activeCase>>

\* The newest run publishes, unless the head has moved on.
CommitResult ==
  /\ head = latest
  /\ result # latest
  /\ result' = latest
  /\ UNCHANGED <<versions, head, latest, activeCase>>

ProjectNext ==
  \/ \E c \in Case : SelectCandidate(c)
  \/ ApplyPropertyTerms
  \/ RefreshEvidence
  \/ CommitResult
=============================================================================
