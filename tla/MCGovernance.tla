---------------------------- MODULE MCGovernance ----------------------------
(***************************************************************************)
(* Small instances of Governance for TLC.                                  *)
(***************************************************************************)
EXTENDS Governance, TLC

CharterSymmetry == Permutations(Processes) \cup Permutations(Texts)
=============================================================================
