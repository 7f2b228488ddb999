----------------------------- MODULE MCFileTools -----------------------------
(***************************************************************************)
(* Small instances of FileTools for TLC.                                   *)
(***************************************************************************)
EXTENDS FileTools, TLC

ToolSymmetry ==
  Permutations(Tasks) \cup Permutations(Contents) \cup Permutations(Instants)
=============================================================================
