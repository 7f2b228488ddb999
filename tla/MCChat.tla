------------------------------- MODULE MCChat -------------------------------
(***************************************************************************)
(* Instances of Chat for TLC.  The tasks are interchangeable, so the runs  *)
(* without liveness properties take them as a symmetry set.                *)
(***************************************************************************)
EXTENDS Chat, TLC

TaskSymmetry == Permutations(Tasks)
=============================================================================
