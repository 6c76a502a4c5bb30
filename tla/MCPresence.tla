----------------------------- MODULE MCPresence -----------------------------
(* Instances of Presence for TLC.  No symmetry: the run checks liveness.   *)
EXTENDS Presence
=============================================================================
