----------------------------- MODULE MCLLMBudget -----------------------------
(***************************************************************************)
(* Small instances of LLMBudget for TLC.  Workers and routes are           *)
(* interchangeable.                                                        *)
(***************************************************************************)
EXTENDS LLMBudget, TLC

Symmetry == Permutations(Workers) \cup Permutations(Configs)
=============================================================================
