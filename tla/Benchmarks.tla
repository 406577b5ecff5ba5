----------------------------- MODULE Benchmarks -----------------------------
(***************************************************************************)
(* Official references in the finance (api/app/finance/property_benchmark.py,*)
(* labor_benchmark.py, labor_oncost.py, franchise_disclosure.py): what the    *)
(* MCP tools' results yield, the cost line derived from each, and how a       *)
(* later computation finds them again in the result it starts from, which is  *)
(* the only place they are kept.                                           *)
(*                                                                         *)
(* A tool's result is [tool, status, data], data the items it returned.  An   *)
(* item is complete when every field the code reads is there, its evidence    *)
(* record included.  Malformed references raise in the code and are not       *)
(* among the inputs.                                                       *)
(***************************************************************************)
EXTENDS CaseFacts

Usable(result, tool) == result.tool = tool /\ result.status \in {"OK", "PARTIAL"}

ItemsOf(results, tool) ==
  FlattenSeq([i \in DOMAIN results |->
                IF Usable(results[i], tool) THEN results[i].data ELSE <<>>])

Complete(items) == SelectSeq(items, LAMBDA item : item.complete)

References(items) == [i \in DOMAIN items |-> items[i].reference]

\* [ref, region, class, rent (per square metre), conversion]
RentBenchmarks(results) ==
  References(Complete(ItemsOf(results, "get_property_reference")))

CostReferences(results, type) ==
  References(SelectSeq(Complete(ItemsOf(results, "get_cost_reference")),
                       LAMBDA item : item.type = type))

\* [ref, period, monthly]
MinimumWages(results) == CostReferences(results, "MINIMUM_WAGE")

\* [ref, period, bound (employees), rate]
SocialInsurances(results) == CostReferences(results, "EMPLOYER_SOCIAL_INSURANCE")

\* _reference_for_date without a date: more than one is as good as none.
OnlyReference(references) ==
  IF Len(references) = 1 THEN Head(references) ELSE None

-----------------------------------------------------------------------------
\* Derivations.  A line keeps what its reference says, and of a labor or rent reference
\* not which evidence said it.  A profile is a seed's finance profile: its costs by category, space and
\* paid staff (in tenths) per scenario, property class and management-fee ratio.

WithoutRef(reference) == Restrict(reference, DOMAIN reference \ {"ref"})
WithRef(reference, ref) == reference @@ [r \in {"ref"} |-> ref]

\* monthly rent of the area without the deposit's carrying cost, plus the management fee
Occupancy(benchmark, profile, area) ==
  LET carried == 12 * Whole * benchmark.rent * area
                   - profile.costs["DEPOSIT"].base * benchmark.conversion
  IN  IF carried < 0 THEN 0
      ELSE (carried * (Whole + profile.feeRatio)) \div (12 * Whole * Whole)

OfClass(benchmarks, class) == SelectSeq(benchmarks, LAMBDA b : b.class = class)

\* None when there is no benchmark for the seed's class; the last of a class counts
RentLine(benchmarks, source, profile) ==
  LET mine == OfClass(benchmarks, profile.class) IN
  IF mine = <<>> THEN None
  ELSE BenchmarkLine([s \in Scenario |-> Occupancy(Last(mine), profile, profile.area[s])],
                     <<"rent", source, Last(mine).ref>>,
                     [of |-> "rent", benchmark |-> WithoutRef(Last(mine))])

LegalFloor(monthly, fte) == CeilingDiv(monthly * fte, 10)

Greater(a, b) == IF a >= b THEN a ELSE b

LaborLine(wage, source, profile) ==
  LET seedLabor == profile.costs["MONTHLY_LABOR"]
      amount == [s \in Scenario |->
                   Greater(seedLabor[s], LegalFloor(wage.monthly, profile.fte[s]))]
  IN  IF wage = None \/ profile.fte.high = 0 THEN None
      ELSE IF amount = seedLabor THEN None
      ELSE BenchmarkLine(amount, <<"labor", source, wage.ref>>,
                         [of |-> "labor", wage |-> WithoutRef(wage)])

OncostLine(wage, insurance, source, profile) ==
  IF profile.fte.high = 0 THEN CostLine(Exactly(0), "DERIVED", None)
  ELSE IF None \in {wage, insurance} THEN UnknownLine
  ELSE IF CeilingDiv(profile.fte.high, 10) > insurance.bound THEN UnknownLine
  ELSE BenchmarkLine(
         [s \in Scenario |->
            CeilingDiv(LegalFloor(wage.monthly, profile.fte[s]) * insurance.rate, Whole)],
         <<"oncost", source, wage.ref, insurance.ref>>,
         [of |-> "oncost", wage |-> wage, insurance |-> insurance])

\* The lines of several seeds, by source: those that are not None.
LinesBySource(sources, Line(_)) ==
  [source \in {t \in sources : Line(t) # None} |-> Line(source)]

-----------------------------------------------------------------------------
\* The disclosed initial fees of a brand: groups of [brand, version, fees (by field, or
\* None), evidence] whose parts sum to the official total.  Sorted: the latest counts.

InitialFeePart ==
  {"FRANCHISE_FEE", "EDUCATION_FEE", "FRANCHISEE_DEPOSIT", "OTHER_INITIAL_FEE"}

InitialFeeTotal == "FRANCHISE_INITIAL_FEE_TOTAL"

DisclosedFees(results, accepted, brand) ==
  LET all == ItemsOf(results, "get_franchise_disclosure")
      items == Picked(all, {i \in DOMAIN all : /\ all[i].brand = brand
                                              /\ all[i].ref \in accepted})
      Item(version, field) ==
        LET of == Picked(items, {i \in DOMAIN items : /\ items[i].version = version
                                                     /\ items[i].field = field}) IN
        IF of = <<>> THEN None ELSE Last(of)
      Amount(version, field) ==
        IF Item(version, field) = None THEN None ELSE Item(version, field).value
      Parts(version) == [field \in InitialFeePart |-> Amount(version, field)]
      Holds(version) ==
        /\ \A field \in InitialFeePart \cup {InitialFeeTotal} :
             Amount(version, field) \in Nat
        /\ SumFunction(Parts(version)) = Amount(version, InitialFeeTotal)
      versions == {v \in {items[i].version : i \in DOMAIN items} : Holds(v)}
  IN  IF versions = {} THEN None
      ELSE CostLine(Exactly(Amount(Max(versions), InitialFeeTotal)), "FACT",
                    Item(Max(versions), InitialFeeTotal).ref)

-----------------------------------------------------------------------------
\* Replay from a result's candidates (a sequence).  References come back sorted by
\* region or period; of several for one key the last candidate's counts.

Derivations(candidates, category, of) ==
  LET Derived(i) ==
        IF category \notin DOMAIN candidates[i].inputs THEN None
        ELSE candidates[i].inputs[category].derivation
  IN  SelectSeq([i \in DOMAIN candidates |-> Derived(i)],
                LAMBDA d : d # None /\ d.of = of)

LastPerKey(values, Key(_)) ==
  {values[i] : i \in {j \in DOMAIN values :
                        \A k \in DOMAIN values : Key(values[k]) = Key(values[j]) => k <= j}}

ReplayedRents(candidates) ==
  LET derived == Derivations(candidates, "MONTHLY_OCCUPANCY", "rent")
      kept == LastPerKey([i \in DOMAIN derived |-> derived[i].benchmark],
                         LAMBDA b : <<b.region, b.class>>)
  IN  SetToSortSeq({WithRef(b, <<"rent-replay", b.region, b.class>>) : b \in kept},
                   LAMBDA a, b : a.region < b.region)

Sorted(references) == SetToSortSeq(references, LAMBDA a, b : a.period < b.period)

LaborWages(candidates) ==
  LET derived == Derivations(candidates, "MONTHLY_LABOR", "labor")
      kept == LastPerKey([i \in DOMAIN derived |-> derived[i].wage], LAMBDA w : w.period)
  IN  {WithRef(w, <<"wage-replay", w.period>>) : w \in kept}

OncostWages(candidates) ==
  LET derived == Derivations(candidates, "MONTHLY_EMPLOYER_ONCOST", "oncost") IN
  LastPerKey([i \in DOMAIN derived |-> derived[i].wage], LAMBDA w : w.period)

ReplayedInsurances(candidates) ==
  LET derived == Derivations(candidates, "MONTHLY_EMPLOYER_ONCOST", "oncost") IN
  Sorted(LastPerKey([i \in DOMAIN derived |-> derived[i].insurance], LAMBDA v : v.period))

\* Bug: both wages of a period are kept.
EveryReplayedWage(candidates) == Sorted(OncostWages(candidates) \cup LaborWages(candidates))

\* _merge_minimum_wage_references: the on-cost's own wage replaces a labor line's.
ReplayedWages(candidates) ==
  LET oncost == OncostWages(candidates) IN
  Sorted(oncost \cup {w \in LaborWages(candidates) :
                        \A v \in oncost : v.period # w.period})
=============================================================================
