--------------------------- MODULE MCCaseRecompute ---------------------------
\* Two cafe models of the registry, and one that needs an interest in it, two brands, and
\* amounts in units of ten thousand won; rates are in per cent.
EXTENDS CaseRecompute

Range3(low, base, high) == MoneyRange(low, base, high)

Costs(deposit, premium, construction, equipment, other, occupancy, labor) ==
  [c \in (InitialCategory \cup RegisteredMonthlyCategory) \ {"FRANCHISE_INITIAL_FEES"} |->
     CASE c = "DEPOSIT" -> deposit
       [] c = "ACQUISITION_OR_PREMIUM" -> premium
       [] c = "CONSTRUCTION" -> construction
       [] c = "EQUIPMENT" -> equipment
       [] c = "MONTHLY_OCCUPANCY" -> occupancy
       [] c = "MONTHLY_LABOR" -> labor
       [] OTHER -> other]

Seed(id, modes, minFunds, keywords, explicit, class, costs, area, fte) ==
  [id |-> id, modes |-> modes, minFunds |-> minFunds, keywords |-> keywords,
   explicit |-> explicit, support |-> {<<"declared-assumption", id>>},
   profile |-> [costs |-> costs, area |-> area, fte |-> fte, class |-> class,
                feeRatio |-> 10, margin |-> 65, days |-> 26, ticket |-> 1]]

MCSeeds ==
  <<Seed("takeout", {"FULL", "PART"}, None, {"fast"}, FALSE, "SMALL",
         Costs(Range3(2000, 3500, 6000), Range3(0, 1000, 3000), Range3(2000, 3200, 4800),
               Range3(1800, 2600, 3800), Range3(100, 200, 300), Range3(250, 400, 650),
               Range3(100, 250, 500)),
         Range3(20, 30, 40), Range3(0, 5, 10)),
    Seed("balanced", {"FULL", "EMPLOYEE"}, 8000, {"local"}, FALSE, "SMALL",
         Costs(Range3(3000, 5000, 8000), Range3(0, 2000, 5000), Range3(3500, 5500, 8500),
               Range3(2500, 3800, 5500), Range3(100, 300, 600), Range3(400, 650, 1000),
               Range3(150, 500, 900)),
         Range3(35, 50, 70), Range3(10, 20, 40)),
    Seed("bakery", {"FULL", "EMPLOYEE"}, 20000, {"bread"}, TRUE, "LARGE",
         Costs(Range3(3000, 6000, 9000), Range3(0, 3500, 9000), Range3(3500, 5500, 8500),
               Range3(3500, 5500, 9000), Range3(100, 300, 600), Range3(250, 500, 850),
               Range3(400, 800, 1400)),
         Range3(50, 75, 100), Range3(20, 30, 40))>>

MCFranchiseAssumption ==
  Costs(Range3(2000, 4000, 7000), Range3(0, 2000, 5000), Range3(3000, 4500, 7000),
        Range3(2000, 3000, 4500), Range3(100, 300, 600), Range3(300, 500, 800),
        Range3(300, 600, 900))

MCFranchiseSales == [margin |-> 60, days |-> 27, ticket |-> 1]

MCIdOrder ==
  [id \in Family \X {"takeout", "balanced", "bakery", "brand1", "brand2", "brand3"} |->
     CASE id[2] = "brand2" -> 1 [] id[2] = "brand1" -> 2 [] id[2] = "brand3" -> 3
       [] id[2] = "takeout" -> 4 [] id[2] = "balanced" -> 5 [] id[2] = "bakery" -> 6]

MCMarketClaim == [m \in {"SALES_TREND"} |-> "AREA_SALES"]

\* ------------------------------ what the tools answer

MCArea == <<"11", "680">>
National == <<"NATIONAL", <<"KR">>>>
OfArea == <<"ADMINISTRATIVE_AREA", MCArea>>

Evidence(id, claim, metric, authority, numeric, scope) ==
  [id |-> id, claim |-> claim, metric |-> metric, kind |-> "EVIDENCED_FACT",
   conflict |-> "NONE", authority |-> authority, date |-> 1, document |-> id,
   numeric |-> numeric, freshness |-> "FRESH", scope |-> scope]

Official(id, claim, numeric) ==
  Evidence(id, claim, None, "PRIMARY_OFFICIAL", numeric, National)

OfBrand(id, claim, brand) == Evidence(id, claim, brand, "COMPANY_OFFICIAL", FALSE, National)

Sales == Evidence(1, "AREA_SALES", "SALES_TREND", "PRIMARY_OFFICIAL", TRUE, OfArea)

Eligible(id, brand) == OfBrand(id, "FRANCHISE_INDIVIDUAL_ELIGIBILITY", brand)
CostGuide(id, brand) == OfBrand(id, "FRANCHISE_OFFICIAL_OPENING_COST_GUIDANCE", brand)

MCEvidence == {Sales, Eligible(2, "brand1")}

Ref(id) == <<"evidence", id>>

Answer(records, data) == [status |-> "OK", records |-> records, data |-> data]
Item(reference) == [complete |-> TRUE, reference |-> reference]
CostItem(type, reference) == Item(reference) @@ [t \in {"type"} |-> type]
Hit(record, traces) == [complete |-> TRUE, traces |-> traces, record |-> record]

Brand(id, eligibility, ground, initial, cost, rate) ==
  [id |-> id, eligibility |-> eligibility, evidence |-> Ref(ground),
   profile |-> [initial |-> initial, refs |-> <<Ref(cost)>>, missing |-> {"EQUIPMENT"},
                monthlyRoyalty |-> None, royaltyRate |-> rate]]

Fee(field, value) ==
  [brand |-> "brand1", version |-> 1, field |-> field, value |-> value, ref |-> Ref(12)]

MCQueries == <<"company">>

MCAnswer ==
  [call \in {<<"get_area_profile", "area">>, <<"get_property_reference", "area">>,
             <<"search_cafe_observations", "area">>, <<"get_cost_reference", "wages">>,
             <<"list_franchise_universe", "cafe">>, <<"retrieve_official_documents", "guide">>,
             <<"retrieve_official_documents", "company">>,
             <<"get_franchise_disclosure", "brand1">>,
             <<"get_franchise_disclosure", "brand2">>} |->
     CASE call[1] = "get_area_profile" -> Answer(<<Sales>>, <<>>)
       [] call[1] = "get_property_reference" ->
            Answer(<<Evidence(4, "RENT", None, "PRIMARY_OFFICIAL", TRUE, <<"REGION", <<"11">>>>)>>,
                   <<Item([ref |-> <<"mcp", 1>>, region |-> 1, class |-> "SMALL", rent |-> 13,
                           conversion |-> 6])>>)
       [] call[1] = "search_cafe_observations" ->
            Answer(<<[Evidence(5, "AREA_SALES", "SALES_TREND", "PRIMARY_OFFICIAL", TRUE, OfArea)
                        EXCEPT !.kind = "DECLARED_ASSUMPTION", !.numeric = FALSE]>>, <<>>)
       [] call[1] = "get_cost_reference" ->
            Answer(<<Official(6, "WAGE", TRUE), Official(7, "INSURANCE", TRUE)>>,
                   <<CostItem("MINIMUM_WAGE", [ref |-> <<"mcp", 2>>, period |-> 2026,
                                               monthly |-> 206]),
                     CostItem("EMPLOYER_SOCIAL_INSURANCE",
                              [ref |-> <<"mcp", 3>>, period |-> 2026, bound |-> 149,
                               rate |-> 10])>>)
       [] call[1] = "list_franchise_universe" ->
            Answer(<<CostGuide(3, "brand2"), Eligible(9, "brand2"), Eligible(2, "brand1"),
                     CostGuide(8, "brand1")>>,
                   <<Brand("brand3", "INELIGIBLE", 9, None, 3, None),
                     Brand("brand2", "VERIFIED", 9, None, 3, 3),
                     Brand("brand1", "VERIFIED", 2, Range3(3000, 3000, 3000), 8, None)>>)
       [] call[2] = "guide" ->
            Answer(<<>>, <<Hit(Official(10, "CAFE_OPENING_REQUIRED_PROCEDURES", FALSE), 1)>>)
       [] call[2] = "company" ->
            Answer(<<>>, <<Hit(Eligible(13, "brand1"), 2),
                           Hit([CostGuide(11, "brand1") EXCEPT !.freshness = "STALE"], 1)>>)
       [] call[2] = "brand1" ->
            Answer(<<Official(12, "FRANCHISE_DISCLOSURE_AVAILABILITY", FALSE)>>,
                   <<Fee("FRANCHISE_FEE", 1500), Fee("EDUCATION_FEE", 500),
                     Fee("FRANCHISEE_DEPOSIT", 1000), Fee("OTHER_INITIAL_FEE", 200),
                     Fee(InitialFeeTotal, 3200)>>)
       [] call[2] = "brand2" -> [status |-> "PARTIAL", records |-> <<>>, data |-> <<>>]]

\* ------------------------------ what the agents answer

Says(task, status, rows) ==
  [valid |-> TRUE, task |-> task.id, fence |-> task.head, status |-> status, rows |-> rows,
   findings |-> FALSE]

AssessRow(task, e) ==
  [candidate |-> EvidenceRef(e),
   claim |-> CHOOSE k \in DOMAIN task.claims : task.claims[k] = e.scope,
   relation |-> IF e.kind = "EVIDENCED_FACT" THEN "SUPPORTS" ELSE "AMBIGUOUS",
   scope |-> "MATCH",
   date |-> IF e.freshness = "FRESH" THEN "MATCH" ELSE "UNKNOWN",
   freshness |-> e.freshness, anchor |-> "VALID", authority |-> "ACCEPTABLE"]

ForeignRow ==
  [candidate |-> Ref(99), claim |-> 1, relation |-> "SUPPORTS", scope |-> "MATCH",
   date |-> "MATCH", freshness |-> "FRESH", anchor |-> "VALID", authority |-> "ACCEPTABLE"]

ProposalRow(task) ==
  LET source == CHOOSE s \in Range(task.sources) : TRUE IN
  [id |-> ProposalId(source), source |-> source, evidence |-> task.evidence,
   assumptions |-> task.assumptions, support |-> task.evidence \cup task.assumptions,
   range |-> Range3(1, 2, 3), advice |-> <<"advice", source>>]

AuditRow(candidate) ==
  [candidate |-> candidate, status |-> "PASS", findings |-> FALSE, evidence |-> {},
   calculations |-> CalculationRefs]

FaithfulRows(task) ==
  CASE task.type = "EVIDENCE_ASSESS" ->
         [i \in 1..Cardinality(task.records) |->
            AssessRow(task, CHOOSE e \in task.records :
                              Cardinality({f \in task.records : f.id < e.id}) = i - 1)]
    [] task.type = "CANDIDATE_AUDIT" ->
         LET ids == SetToSortSeq(task.candidates, LAMBDA a, b : IdOrder[a] < IdOrder[b]) IN
         [i \in DOMAIN ids |-> AuditRow(ids[i])]
    [] OTHER -> <<ProposalRow(task)>>

OtherSource(source) ==
  CASE source = "takeout" -> "balanced" [] source = "brand1" -> "brand2"
    [] source = "brand2" -> "brand1" [] OTHER -> "takeout"

MCDefects(task) ==
  {<<name>> : name \in
     {"UNAVAILABLE", "SCHEMA", "ECHO", "ABSTAIN"} \cup
     CASE task.type = "EVIDENCE_ASSESS" -> {"FOREIGN", "STALE_AS_FRESH", "ASSUMPTION"}
       [] task.type = "CANDIDATE_AUDIT" ->
            {"NEEDS_HUMAN", "MISSING", "FINDING", "PASS_WITH_FINDING", "GLOBAL",
             "FOREIGN_CALC", "TWICE"}
       [] OTHER -> {"FENCE", "FOREIGN", "UNSUPPORTED", "OTHER_SOURCE", "UNALLOCATED",
                    "EMPTY", "TWICE", "RANGE", "NEEDS_EVIDENCE"}}
  \cup (IF task.type # "EVIDENCE_ASSESS" THEN {}
        ELSE {<<name, e.id>> : name \in {"REJECTS", "OMITS"}, e \in task.records})

Each(rows, field, value) == [i \in DOMAIN rows |-> [rows[i] EXCEPT ![field] = value]]

Defective(task, name, defect, faithful, rows) ==
  LET With(newRows) == [faithful EXCEPT !.rows = newRows] IN
  CASE name = "UNAVAILABLE" -> None
    [] name = "SCHEMA" -> [faithful EXCEPT !.valid = FALSE]
    [] name = "ECHO" -> [faithful EXCEPT !.task = <<"another">>]
    [] name = "FENCE" -> [faithful EXCEPT !.fence = 0]
    [] name \in {"ABSTAIN", "NEEDS_HUMAN"} -> Says(task, name, None)
    [] name = "NEEDS_EVIDENCE" -> [faithful EXCEPT !.status = name]
    [] name = "FOREIGN" ->
         With(IF task.type = "EVIDENCE_ASSESS"
              THEN Append(rows, ForeignRow)
              ELSE Each(rows, "evidence", {Ref(99)}))
    [] name = "UNSUPPORTED" -> With(Each(rows, "support", {<<"declared-assumption", "x">>}))
    [] name = "STALE_AS_FRESH" -> With(Each(rows, "freshness", "FRESH"))
    [] name = "ASSUMPTION" -> With(Each(rows, "relation", "SUPPORTS"))
    [] name = "REJECTS" ->
         With([i \in DOMAIN rows |->
                 IF rows[i].candidate = Ref(defect[2])
                 THEN [rows[i] EXCEPT !.authority = "INSUFFICIENT"] ELSE rows[i]])
    [] name = "OMITS" ->
         With(SelectSeq(rows, LAMBDA r : r.candidate # Ref(defect[2])))
    [] name = "OTHER_SOURCE" ->
         With(Each(rows, "source", OtherSource(rows[1].source)))
    [] name = "UNALLOCATED" -> With(Each(rows, "id", ProposalId("new")))
    [] name = "EMPTY" -> With(<<>>)
    [] name = "TWICE" -> With(rows \o rows)
    [] name = "RANGE" -> With(Each(rows, "range", Range3(3, 2, 1)))
    [] name = "MISSING" -> With(Tail(rows))
    [] name = "FINDING" ->
         With(<<[rows[1] EXCEPT !.status = "REVISE", !.findings = TRUE]>> \o Tail(rows))
    [] name = "PASS_WITH_FINDING" -> With(Each(rows, "findings", TRUE))
    [] name = "GLOBAL" -> [faithful EXCEPT !.findings = TRUE]
    [] name = "FOREIGN_CALC" -> With(Each(rows, "calculations", {<<"calculation", "x">>}))

Answered(task, defect, rows) ==
  LET faithful == Says(task, "COMPLETE", rows) IN
  IF defect = None THEN faithful ELSE Defective(task, defect[1], defect, faithful, rows)

MCReply(task, defect) == Answered(task, defect, FaithfulRows(task))

\* ------------------------------ the founders, and what they do

Founder(preference, mode, funds, interests, area) ==
  [funds |-> funds, borrowing |-> "NO", preference |-> preference, mode |-> mode,
   interests |-> interests, area |-> area]

Open == Founder("OPEN_TO_BOTH", "FULL", 25000, {}, MCArea)

MCFounders ==
  {Open, Founder("OPEN_TO_BOTH", "FULL", 25000, {"bread"}, MCArea),
   Founder("INDEPENDENT_ONLY", "FULL", 25000, {"bread"}, None),
   Founder("FRANCHISE_ONLY", "FULL", 25000, {}, None),
   Founder("OPEN_TO_BOTH", "EMPLOYEE", 5000, {}, None)}

MCFollowed == {Open}

MCStored == {{}, MCEvidence}

\* No statement of the repository inserts into evidence_records.
MCNothingStored == {{}}

MCFounderValue == [f \in {"funds", "mode"} |-> IF f = "funds" THEN {8000} ELSE {"PART"}]

MCInterestWords == {"bread"}

MCShopTerms == {[deposit |-> 3000, rent |-> 300, fee |-> 20, keyMoney |-> None]}

Claim(type, value, unit) == [type |-> type, value |-> value, unit |-> unit]

MCForms ==
  [r \in {"lease", "quote1", "quote2"} |->
     CASE r = "lease" ->
            [document |-> "COMMERCIAL_LEASE",
             claims |-> <<Claim("LEASE_DEPOSIT", 2500, "KRW"), Claim("MONTHLY_RENT", 280, "KRW"),
                          Claim("MANAGEMENT_FEE", 30, "KRW")>>]
       [] r = "quote1" ->
            [document |-> "INTERIOR_QUOTE", claims |-> <<Claim("QUOTE_TOTAL", 3500, "KRW")>>]
       [] r = "quote2" ->
            [document |-> "INTERIOR_QUOTE", claims |-> <<Claim("QUOTE_TOTAL", 4500, "KRW")>>]]
=============================================================================
