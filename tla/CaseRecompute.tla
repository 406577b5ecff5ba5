---------------------------- MODULE CaseRecompute ----------------------------
(***************************************************************************)
(* A project, its first result included (api/app/selections, documents,       *)
(* feedback, evidence, workflows/execution.py): the founder selects a         *)
(* candidate, enters the terms of a shop, confirms claims of documents,        *)
(* changes a condition, sources expire; each change but a selection queues a  *)
(* recomputation from a source result, which carries all that is known of     *)
(* brands and official references.                                         *)
(*                                                                         *)
(* Every command runs in a transaction under the project's lock and           *)
(* expects the current version, so a command is one step; the fence that      *)
(* stops a run of an older head is modelled in WorkflowStore, and here a run  *)
(* that the head has passed is gone from `queued'.                          *)
(***************************************************************************)
EXTENDS ProposalPipeline

CONSTANTS
  FounderValue,     \* by scalar field of the founder, the values feedback may set
  InterestWords,    \* the words it may add and remove
  ShopTerms,        \* [deposit, rent, fee, keyMoney] that may be entered
  Forms,            \* by document revision: its type and its claims, a sequence
  MaxVersion        \* bound on the versions of the state

\* The brands that a tool may name, and whatever a candidate may stand for.
ListedBrands ==
  {item.id : item \in UNION {Range(McpAnswer[call].data) :
     call \in {k \in DOMAIN McpAnswer : k[1] = "list_franchise_universe"}}}

CaseSource == Sources(Seeds) \cup ListedBrands

Terms ==
  [id : Nat, source : CaseSource, deposit : Nat, rent : Nat, fee : Nat,
   keyMoney : Nat \cup {None}]

\* Won are natural numbers.  No brand has the id of a registered model, as a brand's names
\* its country.  The ids of claims leave room for nine of one form.
ASSUME CaseAssumption ==
  /\ Sources(Seeds) \cap ListedBrands = {}
  /\ None \notin Terms
  /\ None \notin [amount : [low : Nat, base : Nat, high : Nat], provenance : Provenance,
                  ref : {"property-input"} \X Nat, derivation : {None}]
  /\ ShopTerms \subseteq [deposit : Nat, rent : Nat, fee : Nat, keyMoney : Nat \cup {None}]
  /\ \A revision \in DOMAIN Forms :
       List(Forms[revision].claims) /\ Len(Forms[revision].claims) < 10

VARIABLES
  version, activeCase,
  selections,  \* [candidate, bundle]
  terms,       \* the newest intake of each case that has one
  claims, conflicts,
  queued,      \* the source of the pending recomputation, or None
  delta        \* the delta of the current result, or None

caseVars == <<version, activeCase, selections, terms, claims, conflicts, queued, delta>>
vars == <<founder, evidence, result, runVars, caseVars>>

Init ==
  /\ PipelineInit
  /\ version = 1
  /\ activeCase = None
  /\ selections = {}
  /\ terms = <<>>
  /\ claims = {}
  /\ conflicts = {}
  /\ queued = None
  /\ delta = None

-----------------------------------------------------------------------------
\* Commands.

\* Of the current result at the current state.  A pending recomputation of evidence is
\* of the head before, and lost.
Select(c) ==
  /\ version < MaxVersion
  /\ result.version = version
  /\ c \in Range(result.candidates)
  /\ version' = version + 1
  /\ activeCase' = c.id
  /\ selections' = selections \cup {[candidate |-> c.id, bundle |-> result]}
  /\ queued' = None
  /\ UNCHANGED <<founder, terms, claims, conflicts, evidence, result, delta, runVars>>

\* start_selective_first_proposal
Changed(source) ==
  /\ version < MaxVersion
  /\ version' = version + 1
  /\ queued' = source

TermsOfActiveCase(shop) ==
  [id |-> version + 1, source |-> activeCase[2], deposit |-> shop.deposit,
   rent |-> shop.rent, fee |-> shop.fee, keyMoney |-> shop.keyMoney]

\* To any selection of the active case, from whose result the recomputation starts.
ApplyTerms(selection, shop) ==
  /\ selection \in selections
  /\ selection.candidate = activeCase
  /\ terms' = [case \in DOMAIN terms \cup {activeCase} |->
                 IF case = activeCase THEN TermsOfActiveCase(shop) ELSE terms[case]]
  /\ Changed(selection.bundle)
  /\ UNCHANGED <<founder, activeCase, selections, claims, conflicts, evidence, result, delta,
                 runVars>>

\* The claims of a form; those of one transaction have one time, and its id order.
ClaimsIn(revision) ==
  {[id |-> 10 * (version + 1) + k, case |-> activeCase, source |-> activeCase[2],
    document |-> Forms[revision].document, revision |-> revision,
    type |-> Forms[revision].claims[k].type, value |-> Forms[revision].claims[k].value,
    unit |-> Forms[revision].claims[k].unit] : k \in DOMAIN Forms[revision].claims}

\* A form is applied once.
ApplyDocument(revision) ==
  /\ activeCase # None
  /\ \A c \in claims : c.revision # revision
  /\ claims' = claims \cup ClaimsIn(revision)
  /\ conflicts' = conflicts \cup ConflictsOf(claims, ClaimsIn(revision))
  /\ Changed(result)
  /\ UNCHANGED <<founder, activeCase, selections, terms, evidence, result, delta, runVars>>

ConfirmFeedback(updated) ==
  /\ founder' = updated
  /\ Changed(result)
  /\ UNCHANGED <<activeCase, selections, terms, claims, conflicts, evidence, result, delta,
                 runVars>>

\* apply_feedback_operations: the value of a scalar changes
SetScalar(field, value) ==
  /\ founder[field] # value
  /\ ConfirmFeedback([founder EXCEPT ![field] = value])

AddInterest(word) ==
  /\ word \notin founder.interests
  /\ ConfirmFeedback([founder EXCEPT !.interests = @ \cup {word}])

RemoveInterest(word) ==
  /\ word \in founder.interests
  /\ ConfirmFeedback([founder EXCEPT !.interests = @ \ {word}])

\* The records of sources that changed or expired; the state's version stays.
RefreshEvidence(stale) ==
  /\ stale # {}
  /\ stale \subseteq evidence
  /\ evidence' = evidence \ stale
  /\ queued' = result
  /\ UNCHANGED <<founder, version, activeCase, selections, terms, claims, conflicts,
                 result, delta, runVars>>

-----------------------------------------------------------------------------
\* The recomputation.

\* Bug: the shop's terms are those of the source result.
PropertyOfSource(source) ==
  IF activeCase \in CandidateIds(source) THEN CandidateOf(source, activeCase).property
  ELSE None

\* The newest terms of the active case, or those its candidate had in the source.
PropertyContext(source) ==
  IF activeCase \in DOMAIN terms THEN terms[activeCase]
  ELSE IF activeCase \in CandidateIds(source) THEN CandidateOf(source, activeCase).property
  ELSE None

\* _franchise_universe_from_bundle
UniverseOf(source) ==
  LET brands == Picked(source.candidates, {i \in DOMAIN source.candidates :
                                             source.candidates[i].franchise # None}) IN
  [i \in DOMAIN brands |->
     [id |-> brands[i].source, eligibility |-> "VERIFIED",
      refs |-> brands[i].franchise.refs, profile |-> brands[i].franchise.profile]]

RecomputeContext(source) ==
  LET current == CurrentClaims(claims, activeCase) IN
  [version |-> version, founder |-> founder, evidence |-> evidence,
   property |-> PropertyContext(source),
   claims |-> current, contested |-> OpenConflictKeys(current, conflicts),
   disclosure |-> <<>>,
   rents |-> ReplayedRents(source.candidates),
   wages |-> ReplayedWages(source.candidates),
   insurances |-> ReplayedInsurances(source.candidates),
   proposals |-> <<>>,
   proposed |-> Sources(Seeds) \cup Sources(UniverseOf(source)),
   universe |-> UniverseOf(source)]

\* Without a candidate the run fails and the current result stays.
Replace(source, built) ==
  IF built = None THEN UNCHANGED <<result, delta>>
  ELSE /\ result' = built
       /\ delta' = DecisionDelta(source, built)

Recompute ==
  /\ queued # None
  /\ Replace(queued, Build(RecomputeContext(queued)))
  /\ queued' = None
  /\ UNCHANGED <<founder, version, activeCase, selections, terms, claims, conflicts,
                 evidence, runVars>>

Command ==
  \/ \E c \in Range(result.candidates) : Select(c)
  \/ \E selection \in selections, shop \in ShopTerms : ApplyTerms(selection, shop)
  \/ \E revision \in DOMAIN Forms : ApplyDocument(revision)
  \/ \E field \in DOMAIN FounderValue : \E value \in FounderValue[field] :
       SetScalar(field, value)
  \/ \E word \in InterestWords : AddInterest(word) \/ RemoveInterest(word)
  \/ \E stale \in SUBSET evidence : RefreshEvidence(stale)

Next ==
  \/ PipelineStep /\ UNCHANGED <<founder, evidence, caseVars>>
  \/ phase = "FOLLOWED" /\ Command
  \/ Recompute

Spec == Init /\ [][Next]_vars

-----------------------------------------------------------------------------
\* Every result has the lines its candidates' calculations need, each a line that
\* CostLine and VariableCostRateLine accept, and is a bundle that is accepted to be
\* stored (results/models.py).
RecomputeTypeOK ==
  /\ version \in 1..MaxVersion
  /\ activeCase # None <=> selections # {}
  /\ queued # None => result # None
  /\ \A stored \in {bundle, result} \ {None} :
       /\ BundleOK(stored)
       /\ \A c \in Range(stored.candidates) :
            /\ InitialCategory \cup RegisteredMonthlyCategory \subseteq DOMAIN c.inputs
            /\ c.decision.status \in ReviewStatus
            /\ \A category \in DOMAIN c.inputs :
                 /\ c.inputs[category].provenance \in Provenance
                 /\ LineOK(c.inputs[category])
            /\ c.rate # None => RateLineOK(c.rate)

\* The candidates of the current result, those of a result of the current state.
Candidates == IF result = None THEN {} ELSE Range(result.candidates)
CurrentCandidates == {c \in Candidates : result.version = version}

\* The terms that a line of the case would show, or None when none were entered for it.
Entered(id, category) ==
  IF id = activeCase /\ id \in DOMAIN terms THEN PropertyAmount(terms[id], category)
  ELSE None

ActiveClaims(document, type) ==
  {c \in claims : c.case = activeCase /\ c.document = document /\ c.type = type}

\* A claim of the revision, which no other of the active case contradicts.
Undisputed(claim, revision, document, type) ==
  /\ claim.revision = revision
  /\ \A other \in ActiveClaims(document, type) : other.value = claim.value

DocumentSays(revision, category, amount) ==
  IF category = "MONTHLY_OCCUPANCY"
  THEN \E document \in {"COMMERCIAL_LEASE", "PROPERTY_LISTING"} :
         \E rent \in ActiveClaims(document, "MONTHLY_RENT"),
            fee \in ActiveClaims(document, "MANAGEMENT_FEE") :
           /\ Undisputed(rent, revision, document, "MONTHLY_RENT")
           /\ Undisputed(fee, revision, document, "MANAGEMENT_FEE")
           /\ amount = rent.value + fee.value
  ELSE \E family \in Range(Families(category)) :
         \E claim \in ActiveClaims(family[1], family[2]) :
           /\ Undisputed(claim, revision, family[1], family[2])
           /\ amount = claim.value

\* In a result of the current state the user's words are of the selected case only: a line
\* shows the newest terms of its shop and no others, or what the document it names says
\* and no other confirmed claim contradicts (execution.py:180-210, case_facts.py:432-511).
UserInputsAreCurrent ==
  \A c \in CurrentCandidates, category \in InitialCategory \cup MonthlyCategory :
    category \in DOMAIN c.inputs =>
      LET line == c.inputs[category] IN
      IF Entered(c.id, category) # None
      THEN /\ line.provenance = "USER_INPUT"
           /\ line.amount = Exactly(Entered(c.id, category))
      ELSE line.provenance = "USER_INPUT" =>
             /\ c.id = activeCase
             /\ line.amount = Exactly(line.amount.base)
             /\ \E revision \in DOMAIN Forms :
                  /\ line.ref = DocumentRef(revision)
                  /\ DocumentSays(revision, category, line.amount.base)

\* What the documents of the selected case contradict each other about enters no sum: the
\* line is open, the initial cash is unknown and the candidate is not recommended, until
\* one document more agrees or the terms say it (case_facts.py:204-242).
ContestedStaysOpen ==
  \A c \in CurrentCandidates, category \in InitialCategory :
    LET decides == Families(category)
        contested ==
          /\ decides # <<>>
          /\ Cardinality({claim.value : claim \in
                            ActiveClaims(decides[1][1], decides[1][2])}) > 1
    IN  c.id = activeCase /\ Entered(c.id, category) = None /\ contested =>
          /\ c.inputs[category].provenance = "UNKNOWN"
          /\ c.finance.initial = NoAmount
          /\ c.decision.status # "REVIEW_RECOMMENDED"

\* The trace of a candidate names what decided its place: of the two it compares, the one
\* ranked first is of the better class, or has the smaller amount of the decisive factor
\* and as much of every factor before it, or wins by its id (ranking.py:176-229).
TraceExplainsOrder ==
  result # None => \A i \in DOMAIN result.candidates :
    LET c == result.candidates[i]
        trace == c.decision.trace
        j == IF i = 1 THEN 2 ELSE i - 1
        e == result.candidates[j]
        Input(candidate) == RankingInput([evidence |-> {}], candidate)
        Value(candidate, code) == KnownOrMax(FactorValue(Input(candidate), code))
        codes == FactorCodes(c.decision.status)
        Better(a, b, code) ==
          /\ Value(a, code) < Value(b, code)
          /\ \A k \in 1..(CHOOSE n \in DOMAIN codes : codes[n] = code) - 1 :
               Value(a, codes[k]) = Value(b, codes[k])
        first == IF i < j THEN c ELSE e
        second == IF i < j THEN e ELSE c
    IN  trace.compared # None =>
          /\ trace.compared = e.id
          /\ CASE trace.decisive = "REVIEW_STATUS" ->
                    /\ first.decision.status = "REVIEW_RECOMMENDED"
                    /\ second.decision.status = "CONDITIONAL_REVIEW"
               [] trace.tie -> IdOrder[first.id] < IdOrder[second.id]
               [] OTHER -> Better(first, second, trace.decisive)

\* A recomputation finds again the references its source was made with: an amount from an
\* official reference stays, unless the user's words replace it (property_benchmark.py,
\* labor_benchmark.py and labor_oncost.py, replay_*).
BenchmarksSurviveTheReplay ==
  [][queued # None /\ result' # result => \A id \in CandidateIds(result') :
       LET before == CandidateOf(queued, id).inputs
           after == CandidateOf(result', id).inputs
           Benchmarked(category) ==
             /\ before[category].provenance = "BENCHMARK"
             /\ after[category].provenance # "USER_INPUT"
       IN  id \in CandidateIds(queued) =>
             \A category \in DOMAIN before :
               Benchmarked(category) => /\ after[category].provenance = "BENCHMARK"
                                        /\ after[category].amount = before[category].amount]_vars

\* What a person may act upon has not changed when the delta names no reason: the same
\* candidates in the same order, with the same sums, gates and kinds of values
\* (delta.py:39-75).
Shows(shown) ==
  [i \in DOMAIN shown.candidates |->
     LET c == shown.candidates[i] IN
     [id |-> c.id, status |-> c.decision.status, initial |-> c.finance.initial,
      monthly |-> c.finance.monthly, breakEven |-> c.finance.breakEven,
      gate |-> c.gate.status,
      kinds |-> [category \in DOMAIN c.inputs |-> c.inputs[category].provenance]]]

DeltaNamesEveryChange ==
  [][delta' # delta /\ delta'.reasons = {} => Shows(queued) = Shows(result')]_vars

\* A founder who is open to both kinds of cafe gets both to compare when three candidates
\* are shown, if there is anything of the other kind to offer
\* (linear_agent_pipeline.py:330-340, simple_proposal.py:245-272).
NothingToOffer(family) ==
  IF queued # None THEN \A c \in Range(queued.candidates) : c.family # family
  ELSE LET tasks == IF family = "FRANCHISE" THEN FranchiseTasks ELSE IndependentTasks
           heard == {a \in Range(asked) : a.task \in Range(tasks)}
       IN  \/ tasks = <<>>
           \/ heard # {} /\ \A a \in heard : Used(a) \in {None, <<>>}

BothFamiliesCompete ==
  [][/\ result' # result
     /\ founder.preference = "OPEN_TO_BOTH"
     /\ Len(result'.candidates) = CandidateLimit
     => \A family \in Family :
          NothingToOffer(family) \/ \E c \in Range(result'.candidates) : c.family = family]_vars

-----------------------------------------------------------------------------
\* What the demo promises of a document (docs/demo-fixtures/README.md:98): the selected
\* candidate stays after its form is applied.  Here nothing else has changed.
OnlyDocumentsChanged ==
  claims # {} /\ founder \in FirstFounders /\ terms = <<>> /\ evidence \in StoredEvidence

SelectedCaseSurvives ==
  [][/\ OnlyDocumentsChanged
     /\ result # None
     /\ activeCase \in CandidateIds(result)
     => activeCase' \in CandidateIds(result')]_vars

\* docs/product-very-spec.md:411: that there was no auditor is not recorded as a passed
\* audit.  No agent is asked during a recomputation.
PassedOnlyWithAuditor ==
  [][result' # result /\ result'.audit = "PASSED" => queued = None]_vars

\* api/README.md:210: a recomputation reuses the evidence the project has; unless a source
\* went stale, a candidate keeps the official documents it showed.
RecomputeReusesEvidence ==
  [][queued # None /\ result' # result /\ evidence \in StoredEvidence =>
       \A id \in CandidateIds(result') \cap CandidateIds(queued) :
         CandidateOf(queued, id).documents \subseteq CandidateOf(result', id).documents]_vars
=============================================================================
