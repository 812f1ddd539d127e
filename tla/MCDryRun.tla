------------------------------ MODULE MCDryRun ------------------------------
(* An instance of DryRun for TLC.                                          *)
EXTENDS DryRun, TLC

CONSTANTS gstn, pt

TwoRegulators == <<gstn, pt>>
Lengths == [t \in Texts |-> IF t = 1 THEN 1 ELSE 2]
CounterNames == {"documents_scraped"}

Symmetry == Permutations(Runs)
=============================================================================
