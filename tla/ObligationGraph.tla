--------------------------- MODULE ObligationGraph ---------------------------
(***************************************************************************)
(* The obligation graph: services/knowledge/obligation_graph.  A node says *)
(* to which businesses an obligation applies; the field that decides,      *)
(* threshold_value, is overwritten when its regulation changes.  This      *)
(* module holds the nodes build_graph makes, and the pure functions on     *)
(* them; RegulationImpact is the program that uses them.                   *)
(*                                                                         *)
(* Amounts are in lakhs of rupees.                                         *)
(***************************************************************************)
EXTENDS Integers, Sequences

\* What a threshold_value, or a field of a regulation, can be.
Number(n) == [kind |-> "number", n |-> n]
Text(s) == [kind |-> "text", text |-> s]
Slab(general, special) == [kind |-> "slab", general |-> general, special |-> special]
Band(min, max) == [kind |-> "band", min |-> min, max |-> max]
None == [kind |-> "none"]

Sectors == {"food_business", "it_services", "manufacturing", "retail", "healthcare", "logistics"}

Node(id, regulation, type, value, op, sectors, states, parents) ==
  [node_id |-> id, regulation_id |-> regulation, threshold_type |-> type,
   threshold_value |-> value, threshold_operator |-> op,
   applies_to_business_types |-> sectors, applies_to_states |-> states,
   parent_nodes |-> parents]

\* An obligation of everyone who is registered: its threshold decides nothing.
Standing(id, regulation, value, sectors, parents) ==
  Node(id, regulation, "business_type", Text(value), "eq", sectors, {"ALL"}, parents)
Headcount(id, regulation, n, parents) ==
  Node(id, regulation, "employee_count", Number(n), "gte", Sectors, {"ALL"}, parents)
Turnover(id, regulation, value, op, sectors, parents) ==
  Node(id, regulation, "turnover", value, op, sectors, {"ALL"}, parents)
OfState(id, regulation, state, parents) ==
  Node(id, regulation, "state", Text(state), "eq", Sectors, {state}, parents)

Food == {"food_business"}

\* In the order of the list, which is the order of every traversal.
BuildGraph == <<
  Turnover("GST_REGISTRATION", "GST_THRESHOLD_001", Slab(20, 40), "gt", Sectors, {}),
  Standing("GST_MONTHLY_FILING", "GST_DUE_DATE_001", "GST_REGISTERED", Sectors, {"GST_REGISTRATION"}),
  Standing("GST_LATE_FEE", "GST_LATE_FEE_001", "GST_REGISTERED", Sectors, {"GST_MONTHLY_FILING"}),
  Standing("GST_ANNUAL_RETURN", "GST_ANNUAL_RETURN_001", "GST_REGISTERED", Sectors, {"GST_REGISTRATION"}),
  Standing("GST_TDS_DEDUCTION", "GST_TDS_001", "GST_REGISTERED", Sectors \ Food, {"GST_REGISTRATION"}),
  Headcount("PF_REGISTRATION", "PF_REGISTRATION_THRESHOLD_001", 20, {}),
  Standing("PF_MONTHLY_CHALLAN", "PF_ECR_DUE_DATE_001", "PF_REGISTERED", Sectors, {"PF_REGISTRATION"}),
  Standing("PF_ECR_FILING", "PF_ECR_DUE_DATE_001", "PF_REGISTERED", Sectors, {"PF_REGISTRATION"}),
  Headcount("PF_EMPLOYER_CONTRIBUTION", "PF_EMPLOYER_RATE_001", 1, {"PF_REGISTRATION"}),
  Headcount("ESI_REGISTRATION", "ESI_THRESHOLD_001", 10, {}),
  Standing("ESI_MONTHLY_CHALLAN", "ESI_THRESHOLD_001", "ESI_REGISTERED", Sectors, {"ESI_REGISTRATION"}),
  Headcount("ESI_EMPLOYER_CONTRIBUTION", "ESI_THRESHOLD_001", 1, {"ESI_REGISTRATION"}),
  Turnover("FSSAI_BASIC_REGISTRATION", "FSSAI_THRESHOLD_STATE_001", Number(12), "lte", Food, {}),
  Turnover("FSSAI_STATE_LICENSE", "FSSAI_THRESHOLD_STATE_001", Band(12, 2000), "gte", Food, {"FSSAI_BASIC_REGISTRATION"}),
  Standing("FSSAI_ANNUAL_RETURN", "FSSAI_ANNUAL_RETURN_001", "FOOD_BUSINESSES_STATE_LICENSE", Food, {"FSSAI_STATE_LICENSE"}),
  Standing("FSSAI_LICENSE_RENEWAL", "FSSAI_RENEWAL_PERIOD_001", "FOOD_BUSINESSES", Food, {"FSSAI_STATE_LICENSE"}),
  OfState("PT_MH_REGISTRATION", "PT_MH_SLAB_001", "MH", {}),
  OfState("PT_MH_MONTHLY_DEDUCTION", "PT_MH_SLAB_002", "MH", {"PT_MH_REGISTRATION"}),
  OfState("PT_KA_MONTHLY_DEDUCTION", "PT_KA_SLAB_001", "KA", {}),
  OfState("PT_WB_MONTHLY_DEDUCTION", "PT_WB_SLAB_001", "WB", {}),
  Standing("TDS_194C", "TDS_194C_001", "ALL_BUSINESSES", Sectors, {}),
  Standing("TDS_194J", "TDS_194J_001", "ALL_BUSINESSES", Sectors, {}),
  Standing("TDS_QUARTERLY_RETURN", "TDS_Q_RETURN_001", "ALL_BUSINESSES", Sectors, {"TDS_194C", "TDS_194J"})
>>

-----------------------------------------------------------------------------
(* _matches, of a node whose threshold_value has become v: it answers, or  *)
(* raises when float() or int() cannot convert the threshold.              *)

InScope(node, b) ==
  /\ "ALL" \in node.applies_to_business_types \/ b.business_type \in node.applies_to_business_types
  /\ "ALL" \in node.applies_to_states \/ b.state \in node.applies_to_states

BelowBand(v, b) == v.kind = "band" /\ b.annual_turnover < v.min

\* What `gt' compares with: a dict counts as its "general" entry, or as 0.
GtBound(v) ==
  CASE v.kind = "number" -> v.n
    [] v.kind = "slab" -> v.general
    [] OTHER -> 0

Unreadable(node, v) ==
  \/ /\ node.threshold_type = "turnover" /\ node.threshold_operator = "gt"
     /\ v.kind \in {"text", "none"}
  \/ /\ node.threshold_type = "turnover" /\ node.threshold_operator = "lte"
     /\ v.kind # "number"
  \/ /\ node.threshold_type = "employee_count" /\ v.kind # "number"

MatchRaises(node, v, b) ==
  /\ InScope(node, b)
  /\ Unreadable(node, v)
  /\ ~(node.threshold_type = "turnover" /\ BelowBand(v, b))

Matches(node, v, b) ==
  /\ InScope(node, b)
  /\ ~Unreadable(node, v)
  /\ node.threshold_type = "turnover" =>
       /\ ~BelowBand(v, b)
       /\ node.threshold_operator = "gt" => b.annual_turnover > GtBound(v)
       /\ node.threshold_operator = "lte" => b.annual_turnover <= v.n
  /\ node.threshold_type = "employee_count" => b.employee_count >= v.n
  /\ node.threshold_type = "state" => v = Text(b.state)

-----------------------------------------------------------------------------
(* The live part of a node, and update_node.                               *)

Fresh(node) == [threshold |-> node.threshold_value, version |-> 1, history |-> <<>>]

\* A plausible slip: the snapshot is taken after the assignment.
UpdateThenSnapshot(s, v) ==
  [threshold |-> v, version |-> s.version + 1,
   history |-> Append(s.history, [version |-> s.version, threshold |-> v])]

UpdateNode(s, v) ==
  [threshold |-> v, version |-> s.version + 1,
   history |-> Append(s.history, [version |-> s.version, threshold |-> s.threshold])]
=============================================================================
