------------------------------ MODULE MCLogin ------------------------------
(* Instances of Login for TLC.                                             *)
EXTENDS Login, TLC

\* Nothing tells logins, consoles or accounts apart.  For safety only.
LoginSymmetry ==
  Permutations(Callers) \union Permutations(NSAs) \union Permutations(PIDs)
=============================================================================
