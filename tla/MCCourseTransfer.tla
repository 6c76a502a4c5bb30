-------------------------- MODULE MCCourseTransfer --------------------------
(* Instances of CourseTransfer for TLC.                                    *)
EXTENDS CourseTransfer, TLC

OwnerSymmetry == Permutations(Owners)
=============================================================================
