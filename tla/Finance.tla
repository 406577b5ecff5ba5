------------------------------- MODULE Finance -------------------------------
(***************************************************************************)
(* The deterministic finance of a candidate (api/app/finance): amounts with  *)
(* three scenarios, cost lines with their provenance, the sums, the          *)
(* break-even point and the capital gate.  Pure operators; a failing         *)
(* validation is a value the operators are never applied to: LineOK and         *)
(* RateLineOK are invariants of what the builder makes.                      *)
(*                                                                         *)
(* Won, basis points and tenths of a full-time employee are all integers.    *)
(* TLC has 32 bits, so Whole, the code's 10_000 basis points, is a constant. *)
(***************************************************************************)
EXTENDS Integers, Sequences, FiniteSets, Functions

CONSTANTS
  None,   \* Python's None
  Whole   \* one, in the unit of the rates

ASSUME FinanceAssumption ==
  /\ Whole \in Nat \ {0}
  /\ None \notin Int

InitialCategory ==
  {"DEPOSIT", "ACQUISITION_OR_PREMIUM", "CONSTRUCTION", "EQUIPMENT",
   "FRANCHISE_INITIAL_FEES", "PREOPENING", "OPENING_INVENTORY", "CONTINGENCY",
   "OPERATING_RESERVE"}

RegisteredMonthlyCategory ==
  {"MONTHLY_OCCUPANCY", "MONTHLY_LABOR", "MONTHLY_OTHER_FIXED"}

MonthlyCategory == RegisteredMonthlyCategory \cup {"MONTHLY_EMPLOYER_ONCOST"}

Grounded == {"FACT", "USER_INPUT", "BENCHMARK"}
Provenance == Grounded \cup {"ASSUMPTION", "DERIVED", "UNKNOWN"}

Scenario == {"low", "base", "high"}

MoneyRange(low, base, high) == [low |-> low, base |-> base, high |-> high]
Exactly(v) == MoneyRange(v, v, v)
NoAmount == Exactly(None)

\* ordered_known_values
Ordered(r) ==
  \A lower, upper \in {<<"low", "base">>, <<"base", "high">>, <<"low", "high">>} :
    None \notin {r[lower[1]], r[lower[2]]} => r[lower[1]] <= r[lower[2]]

\* A line without derivation is not a benchmark of an official schedule.
CostLine(amount, provenance, ref) ==
  [amount |-> amount, provenance |-> provenance, ref |-> ref, derivation |-> None]

BenchmarkLine(amount, ref, derivation) ==
  [amount |-> amount, provenance |-> "BENCHMARK", ref |-> ref,
   derivation |-> derivation]

UnknownLine == CostLine(NoAmount, "UNKNOWN", None)

\* provenance_matches_value
LineOK(line) ==
  /\ Ordered(line.amount)
  /\ line.provenance \in Grounded => line.ref # None
  /\ (line.provenance = "UNKNOWN") <=> (line.amount = NoAmount)

\* The one sales-linked rate there is, SALES_ROYALTY, or None for no such line.
RateLine(rate, provenance, ref) ==
  [rate |-> rate, provenance |-> provenance, ref |-> ref]

RateLineOK(line) ==
  /\ line.provenance \in Grounded => line.ref # None
  /\ (line.provenance = "UNKNOWN") <=> (line.rate = None)
  /\ line.rate # None => line.rate \in 0..Whole

-----------------------------------------------------------------------------
\* The calculator.  Lines are functions from categories, as every category occurs once.

SumScenario(lines, s) ==
  IF \E c \in DOMAIN lines : lines[c].amount[s] = None THEN None
  ELSE SumFunction([c \in DOMAIN lines |-> lines[c].amount[s]])

SumLines(lines, required) ==
  IF required \subseteq DOMAIN lines
  THEN [s \in Scenario |-> SumScenario(lines, s)]
  ELSE NoAmount

UnknownFields(lines, required) ==
  {c \in DOMAIN lines : \E s \in Scenario : lines[c].amount[s] = None}
    \cup (required \ DOMAIN lines)

EffectiveMargin(margin, rate) ==
  IF None \in {margin, rate} \/ margin <= rate THEN None ELSE margin - rate

CeilingDiv(a, b) == (a + b - 1) \div b

BreakEven(fixed, margin) ==
  IF None \in {fixed, margin} THEN None ELSE CeilingDiv(fixed * Whole, margin)

\* In hundredths of an order.
RequiredOrders(breakEven, days, ticket) ==
  IF None \in {breakEven, days, ticket} THEN None
  ELSE CeilingDiv(100 * breakEven, days * ticket)

\* sales: the margin, the opening days and the average ticket of the candidate
CalculateFinance(lines, rate, sales) ==
  LET initialLines == Restrict(lines, InitialCategory \cap DOMAIN lines)
      monthlyLines == Restrict(lines, MonthlyCategory \cap DOMAIN lines)
      monthly == SumLines(monthlyLines, RegisteredMonthlyCategory)
      variable == IF rate = None THEN 0 ELSE rate.rate
      margin == EffectiveMargin(sales.margin, variable)
      breakEven == BreakEven(monthly.base, margin)
  IN  [initial |-> SumLines(initialLines, InitialCategory),
       monthly |-> monthly,
       margin |-> margin,
       breakEven |-> breakEven,
       orders |-> RequiredOrders(breakEven, sales.days, sales.ticket),
       unknown |-> UnknownFields(initialLines, InitialCategory)
                     \cup UnknownFields(monthlyLines, RegisteredMonthlyCategory)
                     \cup (IF variable = None THEN {"SALES_ROYALTY"} ELSE {})
                     \cup (IF margin = None /\ None \notin {sales.margin, variable}
                           THEN {"EFFECTIVE_CONTRIBUTION_MARGIN"} ELSE {})]

Gate(status, reason, reduction) ==
  [status |-> status, reason |-> reason, reduction |-> reduction]

CapitalGate(ownFunds, borrowing, cash) ==
  IF cash.low = None
  THEN Gate("CONDITIONAL", "INITIAL_CASH_LOW_UNKNOWN", None)
  ELSE IF cash.high # None /\ cash.high <= ownFunds
  THEN Gate("PASS", "OWN_FUNDS_COVER_HIGH_SCENARIO", None)
  ELSE IF borrowing = "NO" /\ cash.low > ownFunds
  THEN Gate("FAIL", "MINIMUM_INITIAL_CASH_EXCEEDS_OWN_FUNDS", cash.low - ownFunds)
  ELSE Gate("CONDITIONAL", "CAPITAL_COVERAGE_REQUIRES_CONFIRMATION", None)

-----------------------------------------------------------------------------
\* The fallback lines of proposal_finance.py.

IndependentFallback(model, amount) ==
  CostLine(amount, "ASSUMPTION", <<"declared-assumption", model>>)

\* A franchise profile: what the official guide says of the initial fees (an amount or
\* None) and the evidence for it, which further costs it says nothing about, and the
\* royalty it asks for, per month or of the sales.
AssumedCategories(profile) ==
  {"DEPOSIT", "ACQUISITION_OR_PREMIUM", "PREOPENING", "CONTINGENCY",
   "OPERATING_RESERVE"} \cup RegisteredMonthlyCategory
  \cup ({"CONSTRUCTION", "EQUIPMENT", "OPENING_INVENTORY"} \cap profile.missing)

Plus(amount, v) == [s \in Scenario |-> amount[s] + v]

\* assumption: FRANCHISE_BENCHMARK_COSTS
FranchiseFallback(brand, category, profile, assumption) ==
  IF category = "FRANCHISE_INITIAL_FEES"
  THEN IF profile.initial # None /\ profile.refs # <<>>
       THEN CostLine(profile.initial, "FACT", Head(profile.refs))
       ELSE UnknownLine
  ELSE IF category \notin AssumedCategories(profile)
  THEN CostLine(Exactly(0), "DERIVED", None)
  ELSE CostLine(
         IF category = "MONTHLY_OTHER_FIXED" /\ profile.monthlyRoyalty # None
         THEN Plus(assumption[category], profile.monthlyRoyalty)
         ELSE assumption[category],
         "ASSUMPTION", <<"declared-assumption", brand>>)

FranchiseRateFallback(profile) ==
  IF profile.royaltyRate # None /\ profile.refs # <<>>
  THEN RateLine(profile.royaltyRate, "FACT", Head(profile.refs))
  ELSE IF "ROYALTY" \in profile.missing /\ profile.monthlyRoyalty = None
  THEN RateLine(None, "UNKNOWN", None)
  ELSE None
=============================================================================
