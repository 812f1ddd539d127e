----------------------------- MODULE MCApiServer -----------------------------
(* An instance of ApiServer for TLC.                                       *)
EXTENDS ApiServer, TLC

CONSTANT b1

OneGst == <<[business |-> b1, domain |-> "GST", due |-> 1, status |-> "pending"]>>
Bodies == {[business |-> b1, domain |-> "GST", due |-> 1, status |-> "pending"]}

Symmetry == Permutations(Handlers) \cup Permutations(Sockets)
=============================================================================
