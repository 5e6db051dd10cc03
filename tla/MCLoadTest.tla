----------------------------- MODULE MCLoadTest -----------------------------
(***************************************************************************)
(* LoadTestScheduler on small instances.  The configurations give the      *)
(* bounds; the recorders' samples and the runs are numbered from them.     *)
(***************************************************************************)
EXTENDS LoadTestInvariant
=============================================================================
