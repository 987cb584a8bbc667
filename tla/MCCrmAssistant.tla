--------------------------- MODULE MCCrmAssistant ---------------------------
(* Instances of CrmAssistant for TLC. *)
EXTENDS CrmAssistant, TLC

Symmetry == Permutations(Turns) \cup Permutations(Calls) \cup Permutations(Admissions)
              \cup Permutations(Actions)
=============================================================================
