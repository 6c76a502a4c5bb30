--------------------------- MODULE MCNsaResolver ---------------------------
(* Instances of NsaResolver for TLC.                                       *)
EXTENDS NsaResolver, TLC

\* Nothing tells goroutines, consoles or accounts apart.  For safety only.
ResolverSymmetry ==
  Permutations(Callers) \union Permutations(NSAs) \union Permutations(PIDs)
=============================================================================
