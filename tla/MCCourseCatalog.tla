-------------------------- MODULE MCCourseCatalog --------------------------
(* Instances of CourseCatalog for TLC: the constants are set in the .cfg   *)
(* files.                                                                  *)
EXTENDS CourseCatalog, TLC

\* Accounts are told apart by nothing but their PID.
OwnerSymmetry == Permutations(Owners)
=============================================================================
