------------------------- MODULE MCDocumentPipeline -------------------------
(* DocumentPipeline with two regulators at most.                           *)
EXTENDS DocumentPipeline, TLC

CONSTANTS r1, r2, b1, b2, c1, c2, c3

One == <<r1>>
Two == <<r1, r2>>

\* A page of one chunk, and a longer one; and one collect task, or two of the
\* first regulator from overlapping hourly runs, alone or with one of the second.
Counts == b1 :> 1 @@ b2 :> 2 @@ Empty :> 0
Both == c1 :> r1 @@ c2 :> r1
Lone == c1 :> r1
Three == c1 :> r1 @@ c2 :> r1 @@ c3 :> r2
=============================================================================
