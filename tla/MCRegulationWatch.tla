-------------------------- MODULE MCRegulationWatch --------------------------
(* Instances of RegulationWatch for TLC.                                   *)
EXTENDS RegulationWatch, TLC

CONSTANTS p1, p2, v1, v2, v3

OnePortal == <<p1>>
TwoPortals == <<p1, p2>>

\* v3 differs from v1 in last_updated only.
CosmeticEdit == {<<v1, v3>>, <<v3, v1>>}
NoCosmetic == {}

Once == [p \in Portals |-> 1]
Twice == [p \in Portals |-> 2]
=============================================================================
