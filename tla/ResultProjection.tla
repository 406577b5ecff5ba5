--------------------------- MODULE ResultProjection ---------------------------
(***************************************************************************)
(* What a candidate shows of the evidence and of its finance lines           *)
(* (api/app/results/projection.py, api/app/decisions/projection.py).        *)
(*                                                                         *)
(* An evidence record is [id, claim, metric, kind, conflict, authority, date, *)
(* document, numeric]: its claim type, the metric it measures (or the brand   *)
(* it is about), its value kind, its conflict status, its source's authority  *)
(* and data date, the document version and anchor it quotes, and whether its  *)
(* value is a number.                                                      *)
(***************************************************************************)
EXTENDS CandidateRanking

CONSTANT MarketClaim  \* the claim type of every market metric, by metric

GuideClaim == {"CAFE_OPENING_REQUIRED_PROCEDURES", "CAFE_CONTRACT_REQUIRED_CHECKS"}

BrandClaim ==
  {"FRANCHISE_INDIVIDUAL_ELIGIBILITY", "FRANCHISE_OFFICIAL_OPENING_COST_GUIDANCE"}

AllowedClaims(family) ==
  GuideClaim \cup
  (IF family = "INDEPENDENT"
   THEN {"INDEPENDENT_STARTUP_COST_BENCHMARK", "INDEPENDENT_OPERATING_COST_BENCHMARK"}
   ELSE BrandClaim \cup {"FRANCHISE_DISCLOSURE_AVAILABILITY"})

Settled(e) == e.conflict \in {"NONE", "RESOLVED"}

\* _market_signals: of every metric the record with the latest date, then the highest id
MarketSignals(evidence) ==
  LET Of(metric) ==
        {e \in evidence : /\ e.metric = metric
                          /\ e.claim = MarketClaim[metric]
                          /\ Settled(e)
                          /\ e.numeric}
      Latest(records) ==
        {e \in records : \A f \in records : ~Smaller(<<e.date, e.id>>, <<f.date, f.id>>)}
  IN  UNION {Latest(Of(metric)) : metric \in DOMAIN MarketClaim}

OfficialRecord(e, family, source) ==
  /\ e.claim \in AllowedClaims(family)
  /\ e.kind = "EVIDENCED_FACT"
  /\ Settled(e)
  /\ e.authority = IF e.claim \in BrandClaim THEN "COMPANY_OFFICIAL" ELSE "PRIMARY_OFFICIAL"
  /\ e.claim \in BrandClaim /\ source # None => e.metric = source
  /\ ~e.numeric

\* _official_documents: one entry for each place that is quoted
OfficialDocuments(evidence, family, source) ==
  LET official == {e \in evidence : OfficialRecord(e, family, source)} IN
  {[document |-> d,
    claims |-> {e.claim : e \in {f \in official : f.document = d}},
    refs |-> {e.id : e \in {f \in official : f.document = d}}] :
      d \in {e.document : e \in official}}

OfficialDocumentGaps(evidence, family) ==
  (GuideClaim \cup (IF family = "FRANCHISE" THEN {"FRANCHISE_DISCLOSURE_AVAILABILITY"}
                    ELSE {}))
    \ {e.claim : e \in {f \in evidence : /\ f.authority = "PRIMARY_OFFICIAL"
                                         /\ f.kind = "EVIDENCED_FACT"
                                         /\ Settled(f)}}

\* project_evidence_for_candidate
EvidenceRefs(evidence, family, source) ==
  {e.id : e \in MarketSignals(evidence)}
    \cup UNION {d.refs : d \in OfficialDocuments(evidence, family, source)}

-----------------------------------------------------------------------------
\* A decision input: the line, what would settle it, and the source it names.

PropertyCategory == {"DEPOSIT", "ACQUISITION_OR_PREMIUM", "MONTHLY_OCCUPANCY"}

ResolutionAction(line, category, family) ==
  IF line.provenance \in {"FACT", "USER_INPUT"} THEN "NONE"
  ELSE IF category \in PropertyCategory THEN "PROPERTY_TERMS"
  ELSE IF \/ category \in {"CONSTRUCTION", "EQUIPMENT"}
          \/ /\ category \in {"FRANCHISE_INITIAL_FEES", "SALES_ROYALTY"}
             /\ family = "FRANCHISE"
  THEN "DOCUMENT_INTAKE"
  ELSE "NONE"

ResolutionStatus(line, category, family) ==
  CASE line.provenance = "FACT" -> "RESOLVED_FACT"
    [] line.provenance = "USER_INPUT" -> "RESOLVED_USER_CONFIRMED"
    [] line.provenance = "BENCHMARK" -> "RESOLVED_BENCHMARK"
    [] line.provenance = "ASSUMPTION" -> "ASSUMED"
    [] line.provenance = "DERIVED" -> "RESOLVED_DERIVED"
    [] line.provenance = "UNKNOWN" ->
         IF ResolutionAction(line, category, family) = "DOCUMENT_INTAKE"
         THEN "DOCUMENT_REQUIRED" ELSE "INPUT_REQUIRED"

\* Where the value is said to come from: a fact only names evidence that is still active.
SourceOf(line, evidence) ==
  IF line.provenance = "USER_INPUT" THEN line.ref
  ELSE IF line.provenance = "FACT" /\ line.ref \in {<<"evidence", e.id>> : e \in evidence}
  THEN line.ref
  ELSE None

DecisionInput(line, category, family, evidence) ==
  [amount |-> line.amount, provenance |-> line.provenance, ref |-> line.ref,
   derivation |-> line.derivation,
   status |-> ResolutionStatus(line, category, family),
   source |-> SourceOf(line, evidence)]

DecisionInputs(lines, family, evidence) ==
  [category \in DOMAIN lines |->
     DecisionInput(lines[category], category, family, evidence)]

RateInput(line, evidence) ==
  IF line = None THEN None
  ELSE [rate |-> line.rate, provenance |-> line.provenance, ref |-> line.ref,
        source |-> SourceOf(line, evidence)]
=============================================================================
