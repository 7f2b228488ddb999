-------------------------- MODULE MCContextPruning --------------------------
(***************************************************************************)
(* Small instances of ContextPruning for TLC: one length of each remainder *)
(* modulo four, absent sections, and caps around the totals they make.     *)
(***************************************************************************)
EXTENDS ContextPruning

MCCaps == 0..9
=============================================================================
