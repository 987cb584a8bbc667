------------------------- MODULE MCDeepResearchRuns -------------------------
(* Instance of DeepResearchRuns for TLC. *)
EXTENDS DeepResearchRuns, TLC
=============================================================================
