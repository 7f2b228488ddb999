----------------------------- MODULE MCToolLoop -----------------------------
(***************************************************************************)
(* Small instances of ToolLoop for TLC.                                    *)
(***************************************************************************)
EXTENDS ToolLoop, TLC

\* One fallback.
MCOneFallback == <<"gpt">>

TaskSymmetry == Permutations(Tasks)
=============================================================================
