----------------------------- MODULE MCWorkQueue -----------------------------
(* WorkQueue for TLC.  Payloads and workers differ only in name, but the   *)
(* liveness properties rule a symmetry set out.                            *)
EXTENDS WorkQueue
=============================================================================
