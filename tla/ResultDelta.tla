----------------------------- MODULE ResultDelta -----------------------------
(***************************************************************************)
(* What a recomputed result says has changed (api/app/results/delta.py):     *)
(* candidate by candidate, and the reasons for which a person should look.   *)
(* A candidate that only one of the two results has is None in the other.   *)
(***************************************************************************)
EXTENDS ProposalBuilder

CONSTANTS MaterialCash, MaterialMonthly, MaterialSales  \* in won

CandidateIds(bundle) == {c.id : c \in Range(bundle.candidates)}

CandidateOf(bundle, id) ==
  IF id \in CandidateIds(bundle)
  THEN CHOOSE c \in Range(bundle.candidates) : c.id = id ELSE None

Rank(c) == IF c = None THEN None ELSE c.decision.rank
ReviewStatusOf(c) == IF c = None THEN None ELSE c.decision.status
ReasonCodes(c) == IF c = None THEN {} ELSE c.decision.reasons

Difference(old, new) == IF None \in {old, new} THEN None ELSE new - old

FinancialDelta(previous, current, field) ==
  IF None \in {previous, current} THEN None
  ELSE Difference(previous.finance[field].base, current.finance[field].base)

BreakEvenDelta(previous, current) ==
  IF None \in {previous, current} THEN None
  ELSE Difference(previous.finance.breakEven, current.finance.breakEven)

\* The projected inputs: a line without its evidence reference, the royalty among them.
InputMap(c) ==
  IF c = None THEN <<>>
  ELSE [category \in DOMAIN c.inputs |-> Restrict(c.inputs[category],
          {"amount", "provenance", "derivation", "status", "source"})]
       @@ [category \in IF c.rate = None THEN {} ELSE {"SALES_ROYALTY"} |->
             Restrict(c.rate, {"rate", "provenance", "source"})]

InputChanges(previous, current) ==
  LET old == InputMap(previous) new == InputMap(current) IN
  {field \in DOMAIN old \cup DOMAIN new : LineOf(old, field) # LineOf(new, field)}

\* The metrics of a gate do not count.
GateChanged(previous, current) ==
  LET Of(c) == IF c = None THEN None ELSE <<c.gate.status, c.gate.reason>> IN
  Of(previous) # Of(current)

ChangeType(previous, current) ==
  CASE previous = None -> "ADDED"
    [] current = None -> "REMOVED"
    [] OTHER -> "UPDATED"

CandidateDelta(previous, current) ==
  [type |-> ChangeType(previous, current),
   rank |-> <<Rank(previous), Rank(current)>>,
   status |-> <<ReviewStatusOf(previous), ReviewStatusOf(current)>>,
   cash |-> FinancialDelta(previous, current, "initial"),
   monthly |-> FinancialDelta(previous, current, "monthly"),
   sales |-> BreakEvenDelta(previous, current),
   reasons |-> <<ReasonCodes(previous), ReasonCodes(current)>>,
   inputs |-> InputChanges(previous, current),
   gate |-> GateChanged(previous, current)]

Material(delta, threshold) ==
  delta # None /\ (delta >= threshold \/ -delta >= threshold)

\* Bug: an input counts only when it moves a sum by a material amount.
MaterialReasons(change) ==
  When(change.type # "UPDATED", "CANDIDATE_SET_CHANGED")
    \cup When(change.rank[1] # change.rank[2], "CANDIDATE_RANK_CHANGED")
    \cup When(change.status[1] # change.status[2], "REVIEW_STATUS_CHANGED")
    \cup When(change.gate, "GATE_DECISION_CHANGED")
    \cup When(change.reasons[1] # change.reasons[2], "DECISION_REASON_CHANGED")
    \cup When(Material(change.cash, MaterialCash), "MATERIAL_INITIAL_CASH_CHANGE")
    \cup When(Material(change.monthly, MaterialMonthly), "MATERIAL_MONTHLY_COST_CHANGE")
    \cup When(Material(change.sales, MaterialSales), "MATERIAL_BREAK_EVEN_CHANGE")

ChangeReasons(change) ==
  When(change.type # "UPDATED", "CANDIDATE_SET_CHANGED")
    \cup When(change.rank[1] # change.rank[2], "CANDIDATE_RANK_CHANGED")
    \cup When(change.status[1] # change.status[2], "REVIEW_STATUS_CHANGED")
    \cup When(change.inputs # {}, "DECISION_INPUT_CHANGED")
    \cup When(change.gate, "GATE_DECISION_CHANGED")
    \cup When(change.reasons[1] # change.reasons[2], "DECISION_REASON_CHANGED")
    \cup When(Material(change.cash, MaterialCash), "MATERIAL_INITIAL_CASH_CHANGE")
    \cup When(Material(change.monthly, MaterialMonthly), "MATERIAL_MONTHLY_COST_CHANGE")
    \cup When(Material(change.sales, MaterialSales), "MATERIAL_BREAK_EVEN_CHANGE")

\* build_result_decision_delta: the changes by candidate, and the reasons for a review
DecisionDelta(previous, current) ==
  LET changes == [id \in CandidateIds(previous) \cup CandidateIds(current) |->
                    CandidateDelta(CandidateOf(previous, id), CandidateOf(current, id))]
  IN  [changes |-> changes,
       primaryChanged |-> previous.primary # current.primary,
       reasons |-> When(previous.primary # current.primary, "PRIMARY_CANDIDATE_CHANGED")
                     \cup UNION {ChangeReasons(changes[id]) : id \in DOMAIN changes}]
=============================================================================
