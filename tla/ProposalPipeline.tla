--------------------------- MODULE ProposalPipeline ---------------------------
(***************************************************************************)
(* The run that makes a project's first result                               *)
(* (api/app/workflows/linear_agent_pipeline.py, proposal_evidence_retrieval,  *)
(* franchise_grounding, agents/task_factory.py): it asks the MCP tools, has   *)
(* the researcher assess the evidence, one proposal agent for each source     *)
(* propose, ranks what they propose and has the auditor look at the result.   *)
(*                                                                         *)
(* The calls of a phase run concurrently, are all awaited and taken up in     *)
(* their order, so a phase is one step, in which any of its calls may fail.   *)
(* The leases and checkpoints around a run are modelled in WorkflowRuntime.   *)
(*                                                                         *)
(* An outcome is [tool, status, records, data].  A founder's area is None or  *)
(* <<region, district>>.  The agents and the tools are outside of src/api:     *)
(* Reply(task, None) is the faithful answer of an agent, and Reply(task, d)    *)
(* that with a defect d of Defects(task).                                   *)
(***************************************************************************)
EXTENDS AgentBoundary

CONSTANTS
  FirstFounders,     \* the onboardings
  StoredEvidence,    \* what evidence records the project may have before its first run
  FranchiseQueries,  \* FRANCHISE_RAG_QUERIES
  McpAnswer,         \* by call <<tool, argument>> its [status, records, data]
  Reply(_, _), Defects(_),
  AssessCapacity,    \* MAX_EVIDENCE_ASSESS_CANDIDATES_TOTAL
  MaxFaults,         \* bound on the calls that fail and the replies with a defect
  FollowedFounders,  \* bounds: the projects whose life goes on after the first result
  FollowedFaults

\* Lists are lists, and the versions of a disclosure are numbered in their order.
ASSUME McpAssumption ==
  /\ List(FranchiseQueries)
  /\ \A call \in DOMAIN McpAnswer :
       /\ List(McpAnswer[call].data)
       /\ List(McpAnswer[call].records)
       /\ \A item \in Range(McpAnswer[call].data) :
            /\ call[1] = "list_franchise_universe" =>
                 /\ {"initial", "refs", "missing"} \subseteq DOMAIN item.profile
                 /\ List(item.profile.refs)
            /\ call[1] = "get_franchise_disclosure" => item.version \in Nat

VARIABLES
  founder, evidence, result,
  phase, outcomes,
  frozen,  \* the records the run goes on with
  asked,   \* [task, reply] of every agent, in the order they are taken up
  bundle,
  faults

runVars == <<phase, outcomes, frozen, asked, bundle, faults>>

RunHead == 1  \* that of the first state; a run that the head has passed is refused

PipelineInit ==
  /\ founder \in FirstFounders
  /\ evidence \in StoredEvidence
  /\ result = None
  /\ phase = "RETRIEVE"
  /\ outcomes = <<>>
  /\ frozen = {}
  /\ asked = <<>>
  /\ bundle = None
  /\ faults = 0

-----------------------------------------------------------------------------
\* Retrieval.

Calls ==
  (IF founder.area = None THEN <<>>
   ELSE [i \in 1..3 |-> <<<<"get_area_profile", "get_property_reference",
                            "search_cafe_observations">>[i], "area">>])
  \o (IF founder.preference = "FRANCHISE_ONLY" THEN <<>>
      ELSE << <<"get_cost_reference", "wages">> >>)
  \o (IF founder.preference = "INDEPENDENT_ONLY" THEN <<>>
      ELSE << <<"list_franchise_universe", "cafe">> >>)
  \o << <<"retrieve_official_documents", "guide">> >>
  \o (IF founder.preference = "INDEPENDENT_ONLY" THEN <<>>
      ELSE [i \in DOMAIN FranchiseQueries |->
              <<"retrieve_official_documents", FranchiseQueries[i]>>])

\* A call that fails or has no answer is an outcome with nothing in it.
RetrieveOne(call, failed) ==
  LET answer == IF call \in DOMAIN McpAnswer \ failed THEN McpAnswer[call]
                ELSE [status |-> "ERROR", records |-> <<>>, data |-> <<>>]
  IN  [tool |-> call[1], status |-> answer.status, records |-> answer.records,
       data |-> answer.data]

RetrieveAll(calls, failed) == [i \in DOMAIN calls |-> RetrieveOne(calls[i], failed)]

UniverseItems(results) ==
  FlattenSeq([i \in DOMAIN results |->
                IF results[i].tool = "list_franchise_universe" THEN results[i].data
                ELSE <<>>])

\* Known costs first, then the cheap ones, then by name.
ByCost(items) ==
  LET Key(item) ==
        <<IF item.profile.initial = None THEN 1 ELSE 0,
          IF item.profile.initial = None THEN 0 ELSE item.profile.initial.base,
          IdOrder[CandidateId("FRANCHISE", item.id)]>>
  IN  SortedBy(items, [i \in DOMAIN items |-> Key(items[i])])

VerifiedBrands(results) ==
  LET items == UniverseItems(results)
      verified == {i \in DOMAIN items : items[i].eligibility = "VERIFIED"}
      sorted == Upto(ByCost(Picked(items, verified)), 3)
  IN  [i \in DOMAIN sorted |-> sorted[i].id]

DisclosureCalls(results) ==
  LET brands == VerifiedBrands(results) IN
  [i \in DOMAIN brands |-> <<"get_franchise_disclosure", brands[i]>>]

\* deduplicate_evidence: the last record of an id, in a set as they are sorted by id
DeduplicateEvidence(records) == LastPerKey(records, LAMBDA e : e.id)

\* Search hits become records when they are complete and exactly one trace vouches for
\* them; a hit is [complete, traces, record].
WithOfficialRagEvidence(outcome) ==
  LET hits == SelectSeq(outcome.data, LAMBDA hit : hit.complete /\ hit.traces = 1)
      records == DeduplicateEvidence([i \in DOMAIN hits |-> hits[i].record])
  IN  IF outcome.tool # "retrieve_official_documents" \/ outcome.records # <<>>
      THEN outcome
      ELSE [outcome EXCEPT !.records = SetToSortSeq(records, LAMBDA a, b : a.id < b.id)]

Retrieve(failed) ==
  LET first == RetrieveAll(Calls, failed)
      disclosures == DisclosureCalls(first)
      all == first \o RetrieveAll(disclosures, failed)
  IN  /\ phase = "RETRIEVE"
      /\ failed \subseteq Range(Calls \o disclosures)
      /\ outcomes' = [k \in DOMAIN all |-> WithOfficialRagEvidence(all[k])]
      /\ faults' = Cardinality(failed)
      /\ phase' = "ASSESS"
      /\ UNCHANGED <<frozen, asked, bundle>>

-----------------------------------------------------------------------------
\* Assessment.  The k-th claim is about the k-th outcome.

ClaimScope(tool) ==
  CASE tool \in {"get_area_profile", "search_cafe_observations"} ->
         <<"ADMINISTRATIVE_AREA", founder.area>>
    [] tool = "get_property_reference" -> <<"REGION", <<founder.area[1]>>>>
    [] OTHER -> <<"NATIONAL", <<"KR">>>>

\* One record of every outcome in turn, until the agent's input is full.
AssessedRecords ==
  LET places == UNION {{<<i, k>> : i \in DOMAIN outcomes[k].records} : k \in DOMAIN outcomes}
      Before(p) == {q \in places : Smaller(q, p)}
  IN  {outcomes[p[2]].records[p[1]] :
         p \in {q \in places : Cardinality(Before(q)) < AssessCapacity}}

AssessTask ==
  [Task("EVIDENCE_ASSESS", <<"assess">>, RunHead, AssessedRecords) EXCEPT
     !.claims = [k \in DOMAIN outcomes |-> ClaimScope(outcomes[k].tool)]]

Asks(task, defect) == [task |-> task, reply |-> Reply(task, defect)]

Verdict(a) == Judged(a.task, a.reply, RunHead)
Used(a) == UsableRows(a.task, a.reply, RunHead)

AcceptedRefs(rows) ==
  {row.candidate : row \in
     {r \in Range(rows) : /\ r.relation \in {"SUPPORTS", "CONTRADICTS", "AMBIGUOUS"}
                          /\ r.scope # "MISMATCH"
                          /\ r.date # "MISMATCH"
                          /\ r.anchor # "INVALID"
                          /\ r.authority # "INSUFFICIENT"}}

\* _freeze_assessed_evidence, or only what was stored without a usable assessment
Freeze(rows) ==
  LET retrieved == DeduplicateEvidence(
                     FlattenSeq([k \in DOMAIN outcomes |-> outcomes[k].records]))
      accepted == IF rows = None THEN {}
                  ELSE {e \in retrieved : EvidenceRef(e) \in AcceptedRefs(rows)}
  IN  accepted \cup {e \in evidence : EvidenceRef(e) \notin Refs(accepted)}

Assess(defect) ==
  LET answer == Asks(AssessTask, defect) IN
  /\ phase = "ASSESS"
  /\ defect \in {None} \cup Defects(AssessTask)
  /\ asked' = <<answer>>
  /\ IF Verdict(answer) = "FATAL"
     THEN phase' = "FAILED" /\ frozen' = frozen
     ELSE phase' = "PROPOSE" /\ frozen' = Freeze(Used(answer))
  /\ faults' = faults + Cardinality({defect} \ {None})
  /\ UNCHANGED <<outcomes, bundle>>

-----------------------------------------------------------------------------
\* Proposals.

\* Of every verified brand that has one: the line of its disclosed fees.
FranchiseDisclosures ==
  LinesBySource(Range(VerifiedBrands(outcomes)),
                LAMBDA b : DisclosedFees(outcomes, Refs(frozen), b))

\* Bug: a brand's costs count whether or not their evidence was accepted.
WithAnyFinance(profile) == profile

WithAcceptedFinance(profile) ==
  IF Range(profile.refs) \subseteq Refs(frozen) THEN profile
  ELSE [profile EXCEPT !.initial = None, !.refs = <<>>,
                       !.missing = @ \cup {"TOTAL_INITIAL_COST"}]

WithDisclosure(profile, line) ==
  IF line = None THEN profile
  ELSE [profile EXCEPT !.initial = line.amount, !.refs = <<line.ref>>,
                       !.missing = @ \ {"TOTAL_INITIAL_COST"}]

FranchiseUniverse ==
  LET items == UniverseItems(outcomes)
      eligible == Picked(items, {i \in DOMAIN items : /\ items[i].eligibility = "VERIFIED"
                                                      /\ items[i].evidence \in Refs(frozen)})
      Brand(item) ==
        [id |-> item.id, eligibility |-> "VERIFIED", refs |-> <<item.evidence>>,
         profile |-> WithDisclosure(WithAcceptedFinance(item.profile),
                                    LineOf(FranchiseDisclosures, item.id))]
  IN  ByCost([i \in DOMAIN eligible |-> Brand(eligible[i])])

ProposalId(source) == <<"proposal", source>>

Offer(source) == [id \in {ProposalId(source)} |-> source]

\* A task offers one source only, with the evidence and the assumptions it brings.
ProposalTask(type, source, refs, assumptions) ==
  [Task(type, <<type, source>>, RunHead, frozen) EXCEPT
     !.evidence = refs, !.assumptions = assumptions, !.sources = Offer(source), !.count = 1]

IndependentTasks ==
  LET seeds == Upto(SelectSeeds(founder), 3) IN
  IF founder.preference = "FRANCHISE_ONLY" THEN <<>>
  ELSE [i \in DOMAIN seeds |->
          ProposalTask("PROPOSE_INDEPENDENT", seeds[i].id, {}, seeds[i].support)]

FranchiseTasks ==
  LET brands == Upto(FranchiseUniverse, 3) IN
  IF founder.preference = "INDEPENDENT_ONLY" THEN <<>>
  ELSE [i \in DOMAIN brands |->
          ProposalTask("PROPOSE_FRANCHISE", brands[i].id,
                       Range(brands[i].refs) \cup Range(brands[i].profile.refs), {})]

\* Bug: the three places go to the independents first.
InOrder(independent, franchise) == Upto(independent \o franchise, 3)

\* One independent and then the franchises, when there are both.
InTurn(independent, franchise) ==
  IF <<>> \notin {independent, franchise}
  THEN Upto(<<Head(independent)>> \o franchise, 3)
  ELSE Upto(independent \o franchise, 3)

\* _proposal_tasks
ProposalTasks == InTurn(IndependentTasks, FranchiseTasks)

\* Bug: the tasks of both families are required of a founder who is open to both.
NothingOfOneFamily(tasks) ==
  \/ founder.preference # "FRANCHISE_ONLY" /\ IndependentTasks = <<>>
  \/ founder.preference # "INDEPENDENT_ONLY" /\ FranchiseTasks = <<>>

\* Without a seed the task factory refuses to build the independent tasks.
NothingToPropose(tasks) ==
  \/ tasks = <<>>
  \/ founder.preference # "FRANCHISE_ONLY" /\ IndependentTasks = <<>>

\* _validated_proposals
Proposals(answers) ==
  FlattenSeq([k \in DOMAIN answers |->
                IF Used(answers[k]) = None THEN <<>> ELSE Used(answers[k])])

Refuse(tasks) ==
  /\ phase = "PROPOSE"
  /\ NothingToPropose(tasks)
  /\ phase' = "FAILED"
  /\ UNCHANGED <<outcomes, frozen, asked, bundle, faults>>

Propose(tasks, defects) ==
  LET answers == [k \in DOMAIN tasks |-> Asks(tasks[k], defects[k])] IN
  /\ phase = "PROPOSE"
  /\ ~NothingToPropose(tasks)
  /\ asked' = asked \o answers
  /\ phase' = IF \/ \E k \in DOMAIN answers : Verdict(answers[k]) = "FATAL"
                 \/ Proposals(answers) = <<>>
              THEN "FAILED" ELSE "RANK"
  /\ faults' = faults + Cardinality({k \in DOMAIN tasks : defects[k] # None})
  /\ UNCHANGED <<outcomes, frozen, bundle>>

-----------------------------------------------------------------------------
\* The result, and its audit.

\* What the agents say of each source; the last that says it counts.
AdviceBySource(rows) ==
  LET LastOf(source) == Max({i \in DOMAIN rows : rows[i].source = source}) IN
  [source \in {row.source : row \in Range(rows)} |-> rows[LastOf(source)].advice]

ProposalsBySource == AdviceBySource(Proposals(Tail(asked)))

ProposalContext ==
  [version |-> RunHead, founder |-> founder, evidence |-> frozen,
   property |-> None, claims |-> {}, contested |-> {},
   disclosure |-> FranchiseDisclosures,
   rents |-> RentBenchmarks(outcomes), wages |-> MinimumWages(outcomes),
   insurances |-> SocialInsurances(outcomes),
   proposals |-> ProposalsBySource, proposed |-> DOMAIN ProposalsBySource,
   universe |-> FranchiseUniverse]

RankProposals ==
  /\ phase = "RANK"
  /\ bundle' = Build(ProposalContext)
  /\ phase' = IF Drafts(ProposalContext) = <<>> THEN "FAILED" ELSE "AUDIT"
  /\ UNCHANGED <<outcomes, frozen, asked, faults>>

BrandRefs(c) ==
  IF c.franchise = None THEN {}
  ELSE Range(c.franchise.refs) \cup Range(c.franchise.profile.refs)

CalculationRefs == {<<"calculation", part>> : part \in {"version", "input", "output"}}

\* build_result_bundle_audit
AuditTask ==
  LET candidates == Range(bundle.candidates) IN
  [Task("CANDIDATE_AUDIT", <<"audit">>, RunHead, frozen) EXCEPT
     !.candidates = CandidateIds(bundle),
     !.evidence = UNION {BrandRefs(c) : c \in candidates},
     !.calculations = CalculationRefs \cup CandidateIds(bundle)]

\* Bug: no finding is as good as an audit.
AuditWithoutCoverage(answer) ==
  LET reply == answer.reply IN
  IF Verdict(answer) # "ACCEPTED" THEN "UNAVAILABLE"
  ELSE IF reply.status \in {"ABSTAIN", "INVALID"} THEN "UNAVAILABLE"
  ELSE IF reply.status # "COMPLETE" THEN "REQUIRES_HUMAN"
  ELSE IF reply.findings \/ \E row \in Range(reply.rows) : row.status # "PASS"
  THEN "REQUIRES_HUMAN"
  ELSE "PASSED"

\* _apply_audit
AuditStatus(answer) ==
  LET reply == answer.reply IN
  IF Verdict(answer) # "ACCEPTED" THEN "UNAVAILABLE"
  ELSE IF reply.status \in {"ABSTAIN", "INVALID"} THEN "UNAVAILABLE"
  ELSE IF reply.status \in {"NEEDS_EVIDENCE", "NEEDS_HUMAN"} THEN "REQUIRES_HUMAN"
  ELSE IF reply.status # "COMPLETE" \/ reply.rows = None THEN "UNAVAILABLE"
  ELSE IF \/ {row.candidate : row \in Range(reply.rows)} # CandidateIds(bundle)
          \/ reply.findings
          \/ \E row \in Range(reply.rows) : row.status # "PASS"
  THEN "REQUIRES_HUMAN"
  ELSE "PASSED"

Audit(defect) ==
  LET answer == Asks(AuditTask, defect) IN
  /\ phase = "AUDIT"
  /\ defect \in {None} \cup Defects(AuditTask)
  /\ asked' = Append(asked, answer)
  /\ IF Verdict(answer) = "FATAL"
     THEN phase' = "FAILED" /\ bundle' = bundle
     ELSE phase' = "COMMIT" /\ bundle' = [bundle EXCEPT !.audit = AuditStatus(answer)]
  /\ faults' = faults + Cardinality({defect} \ {None})
  /\ UNCHANGED <<outcomes, frozen>>

\* persist_first_proposal_result.  The run is over, and with it what it knew.
Publish ==
  /\ phase = "COMMIT"
  /\ result' = bundle
  /\ phase' = IF founder \in FollowedFounders /\ faults <= FollowedFaults
              THEN "FOLLOWED" ELSE "DONE"
  /\ outcomes' = <<>>
  /\ frozen' = {}
  /\ asked' = <<>>
  /\ bundle' = None
  /\ faults' = 0

\* At most `budget' of the tasks get an answer with a defect.
DefectChoices(tasks, budget) ==
  {d \in [DOMAIN tasks -> {None} \cup UNION {Defects(tasks[k]) : k \in DOMAIN tasks}] :
     Cardinality({k \in DOMAIN tasks : d[k] # None}) <= budget}

Budget == MaxFaults - faults

PipelineStep ==
  \/ Publish
  \/ /\ UNCHANGED result
     /\ \/ \E n \in 0..MaxFaults : \E failed \in kSubset(n, DOMAIN McpAnswer) : Retrieve(failed)
        \/ phase = "ASSESS" /\ \E d \in DefectChoices(<<AssessTask>>, Budget) : Assess(d[1])
        \/ /\ phase = "PROPOSE"
           /\ \E tasks \in {ProposalTasks} :
                Refuse(tasks) \/ \E d \in DefectChoices(tasks, Budget) : Propose(tasks, d)
        \/ RankProposals
        \/ phase = "AUDIT" /\ \E d \in DefectChoices(<<AuditTask>>, Budget) : Audit(d[1])

-----------------------------------------------------------------------------
\* What the researcher has not turned down, or was stored before the run.
Assessed ==
  Refs(evidence) \cup
    (IF Used(asked[1]) = None THEN {}
     ELSE {row.candidate : row \in
             {r \in Range(Used(asked[1])) :
                {r.relation, r.scope, r.date, r.anchor, r.authority} \cap
                  {"IRRELEVANT", "MISMATCH", "INVALID", "INSUFFICIENT"} = {}}})

\* Everything a first result calls a fact, a signal, an official document or the ground of
\* a brand's eligibility rests on evidence that was stored before or that the researcher
\* has accepted, whichever tool brought it and whatever else failed
\* (linear_agent_pipeline.py:159-168, franchise_grounding.py:63-166).
NothingUnassessedIsFact ==
  phase = "COMMIT" =>
    \A c \in Range(bundle.candidates) :
      /\ \A category \in DOMAIN c.inputs :
           c.inputs[category].provenance = "FACT" => c.inputs[category].ref \in Assessed
      /\ c.rate # None /\ c.rate.provenance = "FACT" => c.rate.ref \in Assessed
      /\ BrandRefs(c) \subseteq Assessed
      /\ Refs(c.signals) \subseteq Assessed
      /\ \A d \in c.documents : \A id \in d.refs : <<"evidence", id>> \in Assessed

\* A candidate of a first result was proposed by the agent that was asked about it, and
\* an independent one shows the advice of that agent and no other's, although the agents
\* answer concurrently and with ids of their own (boundary.py:431-492).
EachAdvisoryIsOfItsAgent ==
  phase = "COMMIT" =>
    \A c \in Range(bundle.candidates) :
      \E k \in DOMAIN asked :
        /\ asked[k].task.sources = Offer(c.source)
        /\ Used(asked[k]) \notin {None, <<>>}
        /\ c.family = "INDEPENDENT" => c.advisory = Used(asked[k])[1].advice

\* PASSED says that the auditor was heard, has nothing to say of the whole and passes
\* every candidate that is shown (linear_agent_pipeline.py:536-563).
PassedMeansAudited ==
  phase = "COMMIT" /\ bundle.audit = "PASSED" =>
    LET audit == Last(asked) IN
    /\ audit.task.type = "CANDIDATE_AUDIT"
    /\ Verdict(audit) = "ACCEPTED"
    /\ ~audit.reply.findings
    /\ \A id \in CandidateIds(bundle) :
         \E row \in Range(Used(audit)) : row.candidate = id /\ row.status = "PASS"

\* A founder for whom nobody can be asked: no verified brand has evidence the run goes on
\* with, where only a franchise will do, or else no cafe model of the registry is compatible.
NothingSuits ==
  IF founder.preference = "FRANCHISE_ONLY"
  THEN \A item \in Range(UniverseItems(outcomes)) :
         item.eligibility = "VERIFIED" => item.evidence \notin Refs(frozen)
  ELSE \A seed \in Range(Seeds) : ~Compatible(founder, seed)

\* The intent of the pipeline (linear_agent_pipeline.py:151-153): an agent's incomplete
\* answer or a tool's failure costs only what depends on it.  A run fails only when an
\* agent oversteps its authority, when none of those asked has anything to propose, or
\* when there was nobody to ask: what the tools and the researcher leave out can do that
\* to a founder who wants a franchise, but to no other.
FailsOnlyWithoutAnyProposal ==
  LET proposing == {k \in DOMAIN asked : Proposing(asked[k].task)} IN
  phase = "FAILED" =>
    \/ \E k \in DOMAIN asked : Tampered(asked[k].task, asked[k].reply, RunHead)
    \/ proposing # {} /\ \A k \in proposing : Used(asked[k]) \in {None, <<>>}
    \/ proposing = {} /\ NothingSuits
=============================================================================
