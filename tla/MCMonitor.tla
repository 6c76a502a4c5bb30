----------------------------- MODULE MCMonitor -----------------------------
(* Instances of Monitor for TLC.                                           *)
EXTENDS Monitor, TLC

MonitorSymmetry ==
  Permutations(Handlers) \union Permutations(Pollers) \union
  Permutations(PIDs) \union Permutations(Methods)
=============================================================================
