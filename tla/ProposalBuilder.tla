--------------------------- MODULE ProposalBuilder ---------------------------
(***************************************************************************)
(* The deterministic proposal (api/app/workflows/simple_proposal.py and       *)
(* proposal_franchise.py, api/app/candidates/seed_registry.py): from a        *)
(* founder, the inputs of the active case, the official references and the    *)
(* brands that may be franchised to a ranked result of at most three          *)
(* candidates.                                                             *)
(*                                                                         *)
(* Its context is a record: version, founder, evidence, property, claims and  *)
(* contested (CaseFacts), rents, wages, insurances and disclosure             *)
(* (Benchmarks), proposals, the agents' advisory by the source they propose,  *)
(* proposed, the sources that may become candidates: every one when no agent  *)
(* was asked, and universe, the sequence of brands.                         *)
(***************************************************************************)
EXTENDS ResultProjection

CONSTANTS
  Seeds,               \* the registry: [id, modes, minFunds, keywords, explicit, support, profile]
  FranchiseAssumption, \* FRANCHISE_BENCHMARK_COSTS, by category
  FranchiseSales       \* margin, days and ticket of every franchise

ASSUME BuilderAssumption ==
  /\ List(Seeds)
  /\ None \notin {Unsettled, UnknownLine}

CandidateLimit == 3

CandidateId(family, source) == <<family, source>>

\* founder: funds, borrowing, preference, mode and interests
Matches(founder, seed) == Cardinality(seed.keywords \cap founder.interests)

Compatible(founder, seed) ==
  /\ founder.mode \in seed.modes
  /\ seed.minFunds # None => founder.funds >= seed.minFunds
  /\ seed.explicit => Matches(founder, seed) > 0

\* The best match first, then as registered.
BestFirst(founder, seeds) ==
  SortedBy(seeds, [k \in DOMAIN seeds |-> <<-Matches(founder, seeds[k])>>])

SelectSeeds(founder) ==
  BestFirst(founder, Picked(Seeds, {k \in DOMAIN Seeds : Compatible(founder, Seeds[k])}))

Sources(seeds) == {seeds[i].id : i \in DOMAIN seeds}

ProfileOf(seeds, source) ==
  (CHOOSE seed \in Range(seeds) : seed.id = source).profile

\* The three resolutions for the eligible seeds, joined to what the case says.
FinancialInputs(context, seeds) ==
  LET wage == OnlyReference(context.wages)
      insurance == OnlyReference(context.insurances)
  IN  [property |-> context.property,
       claims |-> context.claims,
       contested |-> context.contested,
       disclosure |-> context.disclosure,
       rent |-> LinesBySource(Sources(seeds),
                  LAMBDA s : RentLine(context.rents, s, ProfileOf(seeds, s))),
       labor |-> LinesBySource(Sources(seeds),
                   LAMBDA s : LaborLine(wage, s, ProfileOf(seeds, s))),
       oncost |-> LinesBySource(Sources(seeds),
                    LAMBDA s : OncostLine(wage, insurance, s, ProfileOf(seeds, s)))]

-----------------------------------------------------------------------------
\* Drafts.  A draft is what the candidate shows, with the input of its ranking.

PropertyOf(context, source) ==
  IF context.property = None THEN None
  ELSE IF context.property.source = source THEN context.property ELSE None

CapitalRisks(gate) ==
  CASE gate.status = "PASS" -> <<>>
    [] gate.status = "FAIL" -> <<"HIGH">>
    [] OTHER -> <<"MEDIUM">>

IndependentLines(seed, inputs) ==
  [category \in InitialCategory \cup MonthlyCategory |->
     IF category = "FRANCHISE_INITIAL_FEES" THEN CostLine(Exactly(0), "DERIVED", None)
     ELSE ResolveCostLine(inputs, seed.id, category,
            IF category = "MONTHLY_EMPLOYER_ONCOST" THEN UnknownLine
            ELSE IndependentFallback(seed.id, seed.profile.costs[category]))]

FranchiseLines(brand, inputs) ==
  [category \in InitialCategory \cup RegisteredMonthlyCategory |->
     ResolveCostLine(inputs, brand.id, category,
       FranchiseFallback(brand.id, category, brand.profile, FranchiseAssumption))]

\* What both kinds of draft have in common.
Draft(context, family, source, lines, rate, sales, franchise) ==
  LET finance == CalculateFinance(lines, rate, sales)
      gate == CapitalGate(context.founder.funds, context.founder.borrowing,
                          finance.initial)
  IN  [id |-> CandidateId(family, source),
       family |-> family,
       source |-> source,
       version |-> context.version,
       inputs |-> DecisionInputs(lines, family, context.evidence),
       rate |-> RateInput(rate, context.evidence),
       finance |-> finance,
       gate |-> gate,
       property |-> PropertyOf(context, source),
       documents |-> OfficialDocuments(context.evidence, family,
                       IF franchise = None THEN None ELSE source),
       signals |-> MarketSignals(context.evidence),
       gaps |-> OfficialDocumentGaps(context.evidence, family),
       franchise |-> franchise,
       advisory |-> IF family = "FRANCHISE" THEN None
                    ELSE LineOf(context.proposals, source)]

IndependentDraft(context, inputs, seed) ==
  Draft(context, "INDEPENDENT", seed.id, IndependentLines(seed, inputs), None,
        seed.profile, None)

FranchiseDraft(context, inputs, brand) ==
  Draft(context, "FRANCHISE", brand.id, FranchiseLines(brand, inputs),
        ResolveRateLine(inputs, brand.id, FranchiseRateFallback(brand.profile)),
        FranchiseSales, [refs |-> brand.refs, profile |-> brand.profile])

\* CandidateDecisionInput
RankingInput(context, draft) ==
  LET franchise == draft.family = "FRANCHISE" IN
  [id |-> draft.id,
   family |-> draft.family,
   finance |-> draft.finance,
   gate |-> draft.gate,
   fit |-> "PASS",
   burden |-> "MEDIUM",
   hardConstraints |-> {},
   missing |-> When(franchise, "franchise_disclosure"),
   conditions |->
     IF franchise THEN {"FRANCHISE_DISCLOSURE_MISSING"}
     ELSE When(/\ draft.gate.status = "PASS"
               /\ EvidenceRefs(context.evidence, draft.family, None) = {},
               "EVIDENCE_CONFIRMATION_REQUIRED"),
   risks |-> IF franchise THEN <<"HIGH">> ELSE CapitalRisks(draft.gate),
   eligibility |-> IF franchise THEN "VERIFIED" ELSE "NOT_APPLICABLE",
   eligibilityRefs |-> IF franchise THEN Range(draft.franchise.refs) ELSE {},
   availability |-> IF franchise THEN "HQ_CONFIRMATION_REQUIRED" ELSE "NOT_APPLICABLE"]

-----------------------------------------------------------------------------
Drafts(context) ==
  LET seeds == SelectSeeds(context.founder)
      inputs == FinancialInputs(context, seeds)
      independent == Picked(seeds, {i \in DOMAIN seeds : seeds[i].id \in context.proposed})
      brands == Picked(context.universe,
                  {i \in DOMAIN context.universe :
                     /\ context.universe[i].eligibility = "VERIFIED"
                     /\ context.universe[i].id \in context.proposed})
      preference == context.founder.preference
  IN  (IF preference = "FRANCHISE_ONLY" THEN <<>>
       ELSE [i \in DOMAIN independent |-> IndependentDraft(context, inputs, independent[i])])
      \o
      (IF preference = "INDEPENDENT_ONLY" THEN <<>>
       ELSE [i \in DOMAIN brands |-> FranchiseDraft(context, inputs, brands[i])])

\* _open_to_both_pool
OpenToBothPool(drafts) ==
  LET OfFamily(family) == Picked(drafts, {i \in DOMAIN drafts : drafts[i].family = family})
      both == OfFamily("INDEPENDENT") # <<>> /\ OfFamily("FRANCHISE") # <<>>
      first == <<Head(OfFamily("INDEPENDENT")), Head(OfFamily("FRANCHISE"))>>
      others == Picked(drafts, {i \in DOMAIN drafts : drafts[i] \notin Range(first)})
  IN  IF Len(drafts) <= CandidateLimit THEN drafts
      ELSE IF ~both THEN Upto(drafts, CandidateLimit)
      ELSE Upto(first \o others, CandidateLimit)

\* Bug: the excluded are shown behind the reviewable.
ShownWithExcluded(decisions) == Upto(decisions, CandidateLimit)

\* The candidates of a result: the reviewable, or the excluded when there are none.
Shown(decisions) ==
  LET reviewable == Picked(decisions, {i \in DOMAIN decisions :
                                        decisions[i].status # "EXCLUDED"})
  IN  Upto(IF reviewable = <<>> THEN decisions ELSE reviewable, CandidateLimit)

Finished(draft, decision) ==
  [field \in DOMAIN draft \cup {"decision"} |->
     IF field = "decision" THEN decision ELSE draft[field]]

\* The drafts that compete, ranked.
Competing(context, drafts) ==
  IF context.founder.preference = "OPEN_TO_BOTH" THEN OpenToBothPool(drafts) ELSE drafts

Ranked(context, drafts) ==
  RankCandidates([i \in DOMAIN drafts |-> RankingInput(context, drafts[i])])

Bundle(version, drafts, shown) ==
  LET DraftOf(id) == CHOOSE d \in Range(drafts) : d.id = id
      excluded == shown[1].status = "EXCLUDED"
  IN  [candidates |-> [i \in DOMAIN shown |-> Finished(DraftOf(shown[i].id), shown[i])],
       primary |-> IF excluded THEN None ELSE shown[1].id,
       outcome |-> IF excluded THEN "NO_REVIEWABLE_CANDIDATES" ELSE "REVIEWABLE_CANDIDATES",
       audit |-> "PASSED",
       version |-> version]

ResultOf(context, drafts) ==
  Bundle(context.version, drafts, Shown(Ranked(context, drafts)))

\* None: no registered candidate is compatible with the founder, which fails the run.
Build(context) ==
  IF Drafts(context) = <<>> THEN None
  ELSE ResultOf(context, Competing(context, Drafts(context)))

-----------------------------------------------------------------------------
\* ResultBundlePayload's own checks: a bundle that fails one is not stored.
BundleOK(bundle) ==
  LET candidates == bundle.candidates
      decisions == {c.decision : c \in Range(candidates)}
      excluded == {d \in decisions : d.status = "EXCLUDED"}
  IN  /\ Len(candidates) \in 1..CandidateLimit
      /\ \A i, j \in DOMAIN candidates : candidates[i].id = candidates[j].id => i = j
      /\ IF bundle.outcome = "NO_REVIEWABLE_CANDIDATES"
         THEN /\ excluded = decisions
              /\ bundle.primary = None
              /\ \A d \in decisions : d.rank = None /\ ~d.primary
         ELSE /\ excluded = {}
              /\ \A i \in DOMAIN candidates : candidates[i].decision.rank = i
              /\ {d.id : d \in {e \in decisions : e.primary}} = {bundle.primary}
              /\ candidates[1].id = bundle.primary
=============================================================================
