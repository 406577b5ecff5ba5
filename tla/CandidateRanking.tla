--------------------------- MODULE CandidateRanking ---------------------------
(***************************************************************************)
(* The deterministic order of candidates (api/app/candidates/ranking.py):    *)
(* each is excluded, to be reviewed on conditions or recommended; the         *)
(* reviewable ones are ranked, the recommended before the conditional, and    *)
(* each carries a trace of what decided its place.                          *)
(*                                                                         *)
(* A decision input is a record: id, family, finance and gate (Finance), fit, *)
(* burden, hardConstraints, missing and conditions (sets), risks (a sequence  *)
(* of severities), eligibility, eligibilityRefs and availability.           *)
(***************************************************************************)
EXTENDS Benchmarks

CONSTANT IdOrder  \* the place of every candidate id in the order of strings

Family == {"INDEPENDENT", "FRANCHISE"}

ReviewStatus == {"REVIEW_RECOMMENDED", "CONDITIONAL_REVIEW", "EXCLUDED"}

When(condition, code) == IF condition THEN {code} ELSE {}

ExclusionReasons(d) ==
  d.hardConstraints
    \cup When(d.gate.status = "FAIL", d.gate.reason)
    \cup When(d.fit = "FAIL", "FOUNDER_FIT_HARD_CONFLICT")
    \cup (IF d.family # "FRANCHISE" THEN {}
          ELSE When(d.eligibility = "INELIGIBLE", "FRANCHISE_INELIGIBLE")
                 \cup When(/\ d.eligibility # "INELIGIBLE"
                           /\ d.eligibility # "VERIFIED" \/ d.eligibilityRefs = {},
                           "FRANCHISE_ELIGIBILITY_UNVERIFIED")
                 \cup When(d.availability = "UNAVAILABLE",
                           "FRANCHISE_UNAVAILABLE_IN_AREA"))

RiskCount(d, severity) == Len(SelectSeq(d.risks, LAMBDA r : r = severity))

ConditionalReasons(d) ==
  d.conditions
    \cup When(d.gate.status = "CONDITIONAL", d.gate.reason)
    \cup When(d.fit = "CONDITIONAL", "FOUNDER_FIT_REQUIRES_CONFIRMATION")
    \cup When(d.finance.unknown # {}, "MATERIAL_COST_UNKNOWN")
    \cup When(d.missing # {}, "MATERIAL_FIELD_MISSING")
    \cup When(RiskCount(d, "CRITICAL") > 0, "CRITICAL_RISK_REQUIRES_REVIEW")

Status(d) ==
  IF ExclusionReasons(d) # {} THEN "EXCLUDED"
  ELSE IF ConditionalReasons(d) # {} THEN "CONDITIONAL_REVIEW"
  ELSE "REVIEW_RECOMMENDED"

Reasons(d) ==
  CASE Status(d) = "EXCLUDED" -> ExclusionReasons(d)
    [] Status(d) = "CONDITIONAL_REVIEW" -> ConditionalReasons(d)
    [] OTHER -> {"CURRENT_CONSTRAINTS_SATISFIED"}

RankBasis(d) ==
  CASE Status(d) = "EXCLUDED" -> "NOT_RANKED"
    [] Status(d) = "CONDITIONAL_REVIEW" -> "NEXT_REVIEW_PRIORITY"
    [] OTHER -> "ECONOMIC_AND_FOUNDER_FIT"

-----------------------------------------------------------------------------
BurdenOrder == [LOW |-> 0, MEDIUM |-> 1, HIGH |-> 2, UNKNOWN |-> 3]

MaterialGapCount(d) == Cardinality(d.missing \cup d.finance.unknown)

Unbounded == 2147483647  \* the code's 2**63 - 1: larger than every amount

KnownOrMax(v) == IF v = None THEN Unbounded ELSE v

RecommendedKey(d) ==
  <<RiskCount(d, "HIGH"), BurdenOrder[d.burden], KnownOrMax(d.finance.monthly.base),
    KnownOrMax(d.finance.initial.base), IdOrder[d.id]>>

\* Bug: what is not known does not count.
ConditionalKeyWithoutGaps(d) ==
  <<RiskCount(d, "CRITICAL"), RiskCount(d, "HIGH"), BurdenOrder[d.burden], IdOrder[d.id]>>

ConditionalKey(d) ==
  <<RiskCount(d, "CRITICAL"), MaterialGapCount(d), RiskCount(d, "HIGH"),
    BurdenOrder[d.burden], IdOrder[d.id]>>

OfStatus(ds, status) == Picked(ds, {i \in DOMAIN ds : Status(ds[i]) = status})

SortedRecommended(ds) == SortedBy(ds, [i \in DOMAIN ds |-> RecommendedKey(ds[i])])
SortedConditional(ds) == SortedBy(ds, [i \in DOMAIN ds |-> ConditionalKey(ds[i])])
SortedExcluded(ds) == SortedBy(ds, [i \in DOMAIN ds |-> <<IdOrder[ds[i].id]>>])

-----------------------------------------------------------------------------
\* What the trace names, in the order in which it looks for the first difference.

FactorCodes(status) ==
  IF status = "REVIEW_RECOMMENDED"
  THEN <<"HIGH_RISK_COUNT", "FOUNDER_BURDEN", "MONTHLY_FIXED_COST_BASE_KRW",
         "INITIAL_CASH_BASE_KRW">>
  ELSE <<"CRITICAL_RISK_COUNT", "MATERIAL_GAP_COUNT", "HIGH_RISK_COUNT",
         "FOUNDER_BURDEN">>

FactorValue(d, code) ==
  CASE code = "HIGH_RISK_COUNT" -> RiskCount(d, "HIGH")
    [] code = "CRITICAL_RISK_COUNT" -> RiskCount(d, "CRITICAL")
    [] code = "FOUNDER_BURDEN" -> BurdenOrder[d.burden]
    [] code = "MATERIAL_GAP_COUNT" -> MaterialGapCount(d)
    [] code = "MONTHLY_FIXED_COST_BASE_KRW" -> d.finance.monthly.base
    [] code = "INITIAL_CASH_BASE_KRW" -> d.finance.initial.base

FirstDifferentFactor(d, e) ==
  LET different == SelectSeq(FactorCodes(Status(d)),
                             LAMBDA code : FactorValue(d, code) # FactorValue(e, code))
  IN  IF different = <<>> THEN None ELSE Head(different)

RankTrace(d, compared, decisive, tie) ==
  [class |-> Status(d), compared |-> compared, decisive |-> decisive, tie |-> tie]

\* The first is compared with the second, any other with the one before it.
TraceAt(ordered, i) ==
  LET d == ordered[i] IN
  IF Len(ordered) < 2 THEN RankTrace(d, None, None, FALSE)
  ELSE LET e == ordered[IF i = 1 THEN 2 ELSE i - 1] IN
       IF Status(e) # Status(d) THEN RankTrace(d, e.id, "REVIEW_STATUS", FALSE)
       ELSE RankTrace(d, e.id, FirstDifferentFactor(d, e),
                      FirstDifferentFactor(d, e) = None)

Decision(d, rank, trace) ==
  [id |-> d.id, status |-> Status(d), reasons |-> Reasons(d), rank |-> rank,
   basis |-> RankBasis(d), primary |-> rank = 1, trace |-> trace]

\* rank_candidates: decisions on the inputs ds, whose ids are distinct
RankCandidates(ds) ==
  LET ordered == SortedRecommended(OfStatus(ds, "REVIEW_RECOMMENDED"))
                   \o SortedConditional(OfStatus(ds, "CONDITIONAL_REVIEW"))
      excluded == SortedExcluded(OfStatus(ds, "EXCLUDED"))
  IN  [i \in DOMAIN ordered |-> Decision(ordered[i], i, TraceAt(ordered, i))]
        \o [i \in DOMAIN excluded |->
              Decision(excluded[i], None, RankTrace(excluded[i], None, None, FALSE))]
=============================================================================
