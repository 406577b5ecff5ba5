----------------------------- MODULE ProjectInputs -----------------------------
(***************************************************************************)
(* Everything a user may do to a project after its first proposal, at once:  *)
(* selections, property terms, feedback and documents, next to evidence      *)
(* refreshes and the runs that publish.                                     *)
(***************************************************************************)
EXTENDS FeedbackFlow, DocumentFlow, FiniteSets

CONSTANTS
  MaxInputs,  \* bound: previews and revisions that are opened
  MaxCalls    \* bound: calls that are between two of their transactions

\* Previews and revisions get their ids from uuid4: no id is of both.
ASSUME InputsAssumption ==
  /\ MaxInputs \in Nat
  /\ MaxCalls \in Nat
  /\ Key \cap Revision = {}

inputVars == <<projectVars, feedbackVars, documentVars>>

InputsTypeOK == FeedbackTypeOK /\ DocumentTypeOK

InputsInit == ProjectInit /\ FeedbackInit /\ DocumentInit

Inputs ==
  Cardinality({k \in Key : preview[k] # NoPreview})
    + Cardinality({r \in Revision : revision[r].status # "absent"})

Calls ==
  Cardinality({c \in Creator : creator[c] # NoCall})
    + Cardinality({x \in Resolver : resolver[x] # NoKey})
    + Cardinality({q \in Processor : processor[q] # NoWork})
    + Cardinality({e \in Editor : editor[e] # NoRevision})
    + Cardinality({a \in Applier : applier[a] # NotReading})

InputsNext ==
  /\ \/ FeedbackNext /\ UNCHANGED documentVars
     \/ DocumentNext /\ UNCHANGED feedbackVars
     \/ ProjectNext /\ UNCHANGED <<feedbackVars, documentVars>>
  /\ Inputs' <= MaxInputs
  /\ Calls' <= MaxCalls

InputsSpec == InputsInit /\ [][InputsNext]_inputVars
=============================================================================
