-------------------------- MODULE MCRegulationImpact --------------------------
(* RegulationImpact on one portal of the mock ones at a time.              *)
EXTENDS RegulationImpact

Business(type, state, turnover, employees) ==
  [business_type |-> type, state |-> state, annual_turnover |-> turnover, employee_count |-> employees]
Stall == Business("food_business", "MH", 8, 4)
Restaurant == Business("food_business", "MH", 90, 25)
Agency == Business("it_services", "KA", 30, 12)
FoodBusinesses == {Stall, Restaurant}
TwoStates == {Restaurant, Agency}

Part(regulations) == SelectSeq(BuildGraph, LAMBDA node : node.regulation_id \in regulations)
FssaiRegulations == {"FSSAI_THRESHOLD_STATE_001", "FSSAI_ANNUAL_RETURN_001"}
PtRegulations == {"PT_MH_SLAB_001", "PT_MH_SLAB_002", "PT_KA_SLAB_001"}
Fssai == Part(FssaiRegulations)
Pt == Part(PtRegulations)

SortedFields == <<"title", "value">>
Regulation(title, value) == [title |-> Text(title), value |-> value]

Limit(title, n) == ("FSSAI_THRESHOLD_STATE_001" :> Regulation(title, Number(n)))
Return(day) == ("FSSAI_ANNUAL_RETURN_001" :> Regulation("Return", Text(day)))

\* The limit is raised, or goes; the limit's title or the due date is edited.
FssaiContents == {Limit("Limit", 12) @@ Return("31_MAY"), Limit("Limit", 15) @@ Return("31_MAY"),
                  Limit("New limit", 12) @@ Return("31_MAY"), Return("31_MAY")}
PtContents == {("PT_MH_SLAB_001" :> Regulation("Slab", Number(n))) : n \in {200, 300}}

LicenceHolder == {<<Restaurant, "FSSAI_THRESHOLD_STATE_001">>}
Nothing == {}
=============================================================================
