-------------------------- MODULE MCAssistantTools --------------------------
(* Instance of AssistantTools for TLC. *)
EXTENDS AssistantTools, TLC

Symmetry == Permutations(Procs)
=============================================================================
