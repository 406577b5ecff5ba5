------------------------------ MODULE CaseFacts ------------------------------
(***************************************************************************)
(* Which value of a case enters its finance (api/app/finance/case_facts.py   *)
(* and case_fact_repository.py): the user's confirmed document claims, the   *)
(* user's property terms and the official benchmarks, each over the less     *)
(* specific ones.                                                          *)
(*                                                                         *)
(* A claim is [id, case, source, document, revision, type, value, unit]:     *)
(* document is the document's type, ids grow with (created_at, claim_id),    *)
(* and a value that is not a number is None.                               *)
(***************************************************************************)
EXTENDS Finance, Lists, FiniteSetsExt

\* A fact the documents leave open: they name it and do not settle it.
Unsettled == [value |-> None, revision |-> None]

KrwValue(claim) ==
  IF claim.unit = "KRW" /\ claim.value \in Nat THEN claim.value ELSE None

RateBps(claim) ==
  LET unit == CASE claim.unit = "PERCENT" -> Whole \div 100
                [] claim.unit = "BPS" -> 1
                [] OTHER -> None
  IN  IF unit # None /\ claim.value \in Nat /\ claim.value * unit <= Whole
      THEN claim.value * unit ELSE None

Newest(claims) == CHOOSE c \in claims : \A d \in claims : d.id <= c.id

OfType(claims, document, types) ==
  {c \in claims : c.document = document /\ c.type \in types}

\* One fact of one document family.  None when no claim names it.
SingleFact(claims, contested, document, type, Value(_)) ==
  LET matching == OfType(claims, document, {type})
      values == {Value(c) : c \in matching}
  IN  IF matching = {} THEN None
      ELSE IF \/ <<document, type>> \in contested
              \/ None \in values
              \/ Cardinality(values) # 1
      THEN Unsettled
      ELSE [value |-> CHOOSE v \in values : TRUE,
            revision |-> Newest(matching).revision]

\* Rent and management fee of one revision, or None unless it has exactly one of each.
CompleteRevision(claims, revision) ==
  LET OfRevision(type) == {c \in claims : c.revision = revision /\ c.type = type}
      rent == CHOOSE c \in OfRevision("MONTHLY_RENT") : TRUE
      fee == CHOOSE c \in OfRevision("MANAGEMENT_FEE") : TRUE
  IN  IF \/ Cardinality(OfRevision("MONTHLY_RENT")) # 1
         \/ Cardinality(OfRevision("MANAGEMENT_FEE")) # 1
      THEN None
      ELSE [revision |-> revision, at |-> Newest({rent, fee}).id,
            total |-> IF None \in {KrwValue(rent), KrwValue(fee)} THEN None
                      ELSE KrwValue(rent) + KrwValue(fee)]

OccupancyOf(claims, contested, document) ==
  LET scoped == OfType(claims, document, {"MONTHLY_RENT", "MANAGEMENT_FEE"})
      complete == {CompleteRevision(scoped, r) : r \in {c.revision : c \in scoped}}
                    \ {None}
      totals == {r.total : r \in complete}
      latest == CHOOSE r \in complete : \A s \in complete : s.at <= r.at
  IN  IF scoped = {} THEN None
      ELSE IF \/ \E c \in scoped : <<document, c.type>> \in contested
              \/ None \in totals
              \/ Cardinality(totals) # 1
      THEN Unsettled
      ELSE [value |-> latest.total, revision |-> latest.revision]

\* The document families that may name a category, the one that decides first.
Families(category) ==
  CASE category = "DEPOSIT" ->
         << <<"COMMERCIAL_LEASE", "LEASE_DEPOSIT">>,
            <<"PROPERTY_LISTING", "LEASE_DEPOSIT">> >>
    [] category = "ACQUISITION_OR_PREMIUM" ->
         << <<"COMMERCIAL_LEASE", "KEY_MONEY">>, <<"PROPERTY_LISTING", "KEY_MONEY">> >>
    [] category = "CONSTRUCTION" -> << <<"INTERIOR_QUOTE", "QUOTE_TOTAL">> >>
    [] category = "EQUIPMENT" -> << <<"EQUIPMENT_QUOTE", "QUOTE_TOTAL">> >>
    [] OTHER -> <<>>

FirstGiven(values, default) ==
  LET given == {i \in DOMAIN values : values[i] # None} IN
  IF given = {} THEN default ELSE values[Min(given)]

OccupancyFact(claims, contested) ==
  FirstGiven(<<OccupancyOf(claims, contested, "COMMERCIAL_LEASE"),
               OccupancyOf(claims, contested, "PROPERTY_LISTING")>>, None)

RoyaltyFact(claims, contested) ==
  FirstGiven(<<SingleFact(claims, contested, "FRANCHISE_AGREEMENT", "ROYALTY", RateBps),
               SingleFact(claims, contested, "FRANCHISE_DISCLOSURE", "ROYALTY", RateBps)>>,
             None)

\* Bug: the newest value decides, whatever the others say.
NewestCostFact(claims, contested, category) ==
  LET family == Families(category)[1]
      matching == OfType(claims, family[1], {family[2]})
  IN  IF Families(category) = <<>> THEN None
      ELSE IF matching = {} THEN None
      ELSE [value |-> KrwValue(Newest(matching)), revision |-> Newest(matching).revision]

CostFact(claims, contested, category) ==
  LET Fact(family) == SingleFact(claims, contested, family[1], family[2], KrwValue)
      families == Families(category)
  IN  IF category = "MONTHLY_OCCUPANCY" THEN OccupancyFact(claims, contested)
      ELSE FirstGiven([i \in DOMAIN families |-> Fact(families[i])], None)

DocumentRef(revision) == <<"document-revision", revision>>

CostLineOf(fact) ==
  IF fact = None THEN None
  ELSE IF fact.value = None THEN UnknownLine
  ELSE CostLine(Exactly(fact.value), "USER_INPUT", DocumentRef(fact.revision))

CaseCostLine(claims, contested, category) ==
  CostLineOf(CostFact(claims, contested, category))

RateLineOf(fact) ==
  IF fact = None THEN None
  ELSE IF fact.value = None THEN RateLine(None, "UNKNOWN", None)
  ELSE RateLine(fact.value, "USER_INPUT", DocumentRef(fact.revision))

CaseRateLine(claims, contested) == RateLineOf(RoyaltyFact(claims, contested))

-----------------------------------------------------------------------------
\* What the repository loads: the confirmed claims of the active case, and of its open
\* conflicts (sets of claim ids) those whose known claims are about one fact.

CurrentClaims(claims, activeCase) == {c \in claims : c.case = activeCase}

ConflictKeys(claims, conflict) ==
  {<<c.document, c.type>> : c \in {d \in claims : d.id \in conflict}}

OpenConflictKeys(claims, conflicts) ==
  UNION {ConflictKeys(claims, k) :
           k \in {l \in conflicts : Cardinality(ConflictKeys(claims, l)) = 1}}

\* extraction.py: a claim that is confirmed conflicts with those of its case, type and
\* document type that have another value.  Their units are not compared.
ConflictsOf(claims, new) ==
  LET Competing(c) ==
        {d \in claims : /\ d.case = c.case
                        /\ d.type = c.type
                        /\ d.document = c.document
                        /\ d.value # c.value}
  IN  {{c.id} \cup {d.id : d \in Competing(c)} : c \in {e \in new : Competing(e) # {}}}

-----------------------------------------------------------------------------
\* FinancialInputResolver.  Its inputs are a record: property, the terms the user entered
\* for a case (or None); claims and contested, those of the active case; and the lines of
\* disclosure, labor, oncost and rent by source.

LineOf(lines, source) == IF source \in DOMAIN lines THEN lines[source] ELSE None

PropertyRef(terms) == <<"property-input", terms.id>>

PropertyAmount(terms, category) ==
  CASE category = "DEPOSIT" -> terms.deposit
    [] category = "ACQUISITION_OR_PREMIUM" -> terms.keyMoney
    [] category = "MONTHLY_OCCUPANCY" -> terms.rent + terms.fee
    [] OTHER -> None

PropertyLine(terms, source, category) ==
  IF terms = None THEN None
  ELSE IF terms.source # source \/ PropertyAmount(terms, category) = None THEN None
  ELSE CostLine(Exactly(PropertyAmount(terms, category)), "USER_INPUT", PropertyRef(terms))

ClaimsOf(inputs, source) == {c \in inputs.claims : c.source = source}

ResolveCostLine(inputs, source, category, fallback) ==
  FirstGiven(
    <<PropertyLine(inputs.property, source, category),
      CaseCostLine(ClaimsOf(inputs, source), inputs.contested, category),
      CASE category = "FRANCHISE_INITIAL_FEES" -> LineOf(inputs.disclosure, source)
        [] category = "MONTHLY_LABOR" -> LineOf(inputs.labor, source)
        [] category = "MONTHLY_EMPLOYER_ONCOST" -> LineOf(inputs.oncost, source)
        [] category = "MONTHLY_OCCUPANCY" -> LineOf(inputs.rent, source)
        [] OTHER -> None>>, fallback)

ResolveRateLine(inputs, source, fallback) ==
  FirstGiven(<<CaseRateLine(ClaimsOf(inputs, source), inputs.contested)>>, fallback)
=============================================================================
