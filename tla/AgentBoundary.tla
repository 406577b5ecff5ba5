---------------------------- MODULE AgentBoundary ----------------------------
(***************************************************************************)
(* What the API accepts of an agent's reply (api/app/agents/boundary.py and   *)
(* linear_agent_pipeline.py:_invoke_accepted): the reply belongs to its task, *)
(* names only what the task gave it, and says nothing the task contradicts.   *)
(*                                                                         *)
(* A task is [type, id, head, records, claims, candidates, evidence,          *)
(* assumptions, sources, count, calculations]: the evidence records it shows, *)
(* the scope of every claim, the ids it names by kind, the source of every    *)
(* proposal id it allocates and how many proposals it asks for.  A proposal    *)
(* names evidence and assumptions, and both as the support of what it adjusts.*)
(*                                                                         *)
(* A reply is [valid, task, fence, status, rows, findings], valid when the     *)
(* rest of it matches its JSON schema; rows is the payload's sequence of       *)
(* assessments, proposals or audits, or None without a payload.  No reply at  *)
(* all is None.                                                            *)
(***************************************************************************)
EXTENDS ResultDelta

Task(type, id, head, records) ==
  [type |-> type, id |-> id, head |-> head, records |-> records, claims |-> <<>>,
   candidates |-> {}, evidence |-> {}, assumptions |-> {}, sources |-> <<>>,
   count |-> 0, calculations |-> {}]

Proposing(task) == task.type \in {"PROPOSE_INDEPENDENT", "PROPOSE_FRANCHISE"}

EvidenceRef(e) == <<"evidence", e.id>>
Refs(records) == {EvidenceRef(e) : e \in records}

Rows(reply) == IF reply.rows = None THEN {} ELSE Range(reply.rows)

\* What the rows name in a field: one id each, or a set of them.
Named(reply, field) == {row[field] : row \in {r \in Rows(reply) : field \in DOMAIN r}}
NamedIn(reply, field) == UNION Named(reply, field)

Assumed(task) ==
  Refs({e \in task.records : e.kind \in {"DECLARED_ASSUMPTION", "UNKNOWN"}})

UnallocatedIds(task, reply) ==
  When(Proposing(task) /\ ~(Named(reply, "id") \subseteq DOMAIN task.sources),
       "UNALLOCATED_OUTPUT_ID")

SupportedCandidates(task) ==
  IF task.type = "EVIDENCE_ASSESS" THEN Refs(task.records) ELSE task.candidates

UnsupportedReferences(task, reply) ==
  When(\/ ~(NamedIn(reply, "evidence") \subseteq task.evidence \cup Refs(task.records))
       \/ ~(Named(reply, "claim") \subseteq DOMAIN task.claims)
       \/ ~(Named(reply, "candidate") \subseteq SupportedCandidates(task))
       \/ ~(NamedIn(reply, "assumptions") \subseteq task.assumptions \cup Assumed(task))
       \/ ~(NamedIn(reply, "support") \subseteq
              task.evidence \cup Refs(task.records) \cup task.assumptions),
       "UNSUPPORTED_REFERENCE")

Claimed(task, reply) ==
  IF task.type # "EVIDENCE_ASSESS" THEN {}
  ELSE {r.candidate : r \in {s \in Rows(reply) : s.relation \in {"SUPPORTS", "CONTRADICTS"}}}

AssumptionsAsEvidence(task, reply) ==
  When((NamedIn(reply, "evidence") \cup NamedIn(reply, "support") \cup Claimed(task, reply))
         \cap Assumed(task) # {},
       "ASSUMPTION_USED_AS_EVIDENCE")

MoneyRanges(reply) ==
  When(\E r \in Named(reply, "range") \ {None} :
         /\ \A s \in Scenario : r[s] # None
         /\ ~(r.low <= r.base /\ r.base <= r.high),
       "MONEY_RANGE_NON_MONOTONIC")

\* A row on a claim and a record that the task knows.
ScopeOrDateInvalid(task, row) ==
  LET claim == task.claims[row.claim]
      record == CHOOSE e \in task.records : EvidenceRef(e) = row.candidate
  IN  /\ row.claim \in DOMAIN task.claims
      /\ row.candidate \in Refs(task.records)
      /\ \/ row.scope = "MATCH" /\ claim[1] = record.scope[1] /\ claim[2] # record.scope[2]
         \/ "FRESH" = row.freshness /\ record.freshness # "FRESH"
         \/ row.date = "MATCH" /\ record.freshness # "FRESH"

AssessmentMetadata(task, reply) ==
  When(/\ task.type = "EVIDENCE_ASSESS"
       /\ \E row \in Rows(reply) : ScopeOrDateInvalid(task, row),
       "EVIDENCE_SCOPE_OR_DATE_INVALID")

Duplicated(reply, field) ==
  Rows(reply) # {} /\ \E i, j \in DOMAIN reply.rows :
                        i # j /\ reply.rows[i][field] = reply.rows[j][field]

\* Bug: a proposal may be of any registered source.
ProposalSemanticsOfAnySource(task, reply) ==
  IF ~Proposing(task) \/ reply.rows = None THEN {}
  ELSE When(Duplicated(reply, "id"), "PROPOSAL_DUPLICATED")
         \cup When(Len(reply.rows) > task.count, "PROPOSAL_COUNT_EXCEEDED")

ProposalSemantics(task, reply) ==
  IF ~Proposing(task) \/ reply.rows = None THEN {}
  ELSE When(Duplicated(reply, "id"), "PROPOSAL_DUPLICATED")
         \cup When(Len(reply.rows) > task.count, "PROPOSAL_COUNT_EXCEEDED")
         \cup When(\E row \in Rows(reply) : /\ row.id \in DOMAIN task.sources
                                            /\ row.source # task.sources[row.id],
                   "SOURCE_REFERENCE_MISMATCH")

CandidateAudit(task, reply) ==
  IF task.type # "CANDIDATE_AUDIT" \/ reply.status # "COMPLETE" THEN {}
  ELSE When(Duplicated(reply, "candidate"), "CANDIDATE_AUDIT_DUPLICATED")
         \cup When(~(NamedIn(reply, "calculations") \subseteq task.calculations),
                   "CANDIDATE_AUDIT_CALCULATION_REFERENCE_INVALID")
         \cup When(\E row \in Rows(reply) : row.status = "PASS" /\ row.findings,
                   "CANDIDATE_AUDIT_STATUS_INCOHERENT")

RequiredFields(task) ==
  CASE task.type = "EVIDENCE_ASSESS" ->
         {"claim", "candidate", "relation", "scope", "date", "freshness", "anchor",
          "authority"}
    [] task.type = "CANDIDATE_AUDIT" -> {"candidate", "status", "findings"}
    [] OTHER -> {"id", "source", "evidence", "assumptions", "support"}

\* What an assessment may say in its fields.
AssessmentValue ==
  [relation |-> {"SUPPORTS", "CONTRADICTS", "IRRELEVANT", "AMBIGUOUS"},
   scope |-> {"MATCH", "MISMATCH", "UNKNOWN"},
   date |-> {"MATCH", "MISMATCH", "UNKNOWN"},
   freshness |-> {"FRESH", "STALE", "UNKNOWN", "NOT_APPLICABLE"},
   anchor |-> {"VALID", "INVALID", "MISSING"},
   authority |-> {"ACCEPTABLE", "INSUFFICIENT", "UNKNOWN"}]

\* The JSON schema of the reply, that of its payload's rows included.
MatchesSchema(task, reply) ==
  /\ reply.valid
  /\ reply.rows # None =>
       /\ List(reply.rows)
       /\ \A row \in Range(reply.rows) :
            /\ RequiredFields(task) \subseteq DOMAIN row
            /\ task.type = "EVIDENCE_ASSESS" =>
                 \A field \in DOMAIN AssessmentValue : row[field] \in AssessmentValue[field]

\* validate_agent_boundary; SEED_ and BRAND_REFERENCE_MISMATCH have one name here
BoundaryCodes(task, reply, head) ==
  IF ~MatchesSchema(task, reply) THEN {"CONTRACT_SCHEMA_INVALID"}
  ELSE When(reply.task # task.id, "TASK_ECHO_MISMATCH")
         \cup When(reply.fence # task.head, "FENCE_ECHO_MISMATCH")
         \cup When(task.head # head, "CURRENT_HEAD_MISMATCH")
         \cup UnallocatedIds(task, reply)
         \cup UnsupportedReferences(task, reply)
         \cup AssumptionsAsEvidence(task, reply)
         \cup MoneyRanges(reply)
         \cup AssessmentMetadata(task, reply)
         \cup ProposalSemantics(task, reply)
         \cup CandidateAudit(task, reply)

FatalCode ==
  {"TASK_ECHO_MISMATCH", "FENCE_ECHO_MISMATCH", "CURRENT_HEAD_MISMATCH",
   "UNALLOCATED_OUTPUT_ID", "UNSUPPORTED_REFERENCE", "SOURCE_REFERENCE_MISMATCH"}

Tampered(task, reply, head) ==
  reply # None /\ BoundaryCodes(task, reply, head) \cap FatalCode # {}

\* Bug: a reply that is refused for any reason ends the run.
JudgedStrictly(task, reply, head) ==
  IF reply = None THEN "UNAVAILABLE"
  ELSE IF BoundaryCodes(task, reply, head) = {} THEN "ACCEPTED" ELSE "FATAL"

\* _invoke_accepted: what its caller sees of the reply
Judged(task, reply, head) ==
  IF reply = None THEN "UNAVAILABLE"
  ELSE LET codes == BoundaryCodes(task, reply, head) IN
       IF codes = {} THEN "ACCEPTED"
       ELSE IF codes \cap FatalCode # {} THEN "FATAL"
       ELSE "UNAVAILABLE"

\* The rows of a reply whose payload is used, or None.
UsableRows(task, reply, head) ==
  IF Judged(task, reply, head) # "ACCEPTED" THEN None
  ELSE IF reply.status \notin {"COMPLETE", "NEEDS_EVIDENCE"} THEN None
  ELSE reply.rows
=============================================================================
