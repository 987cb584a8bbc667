---------------------------- MODULE MCOwnerChat -----------------------------
(* Instances of OwnerChat for TLC: one owner with two phones, of which the *)
(* first one commands; its two actions have the same input.                *)
EXTENDS OwnerChat, TLC

CONSTANTS p1, p2

TheSender(k) == p1

TheInput(k) == "same"

Symmetry == Permutations(Calls) \cup Permutations(Searches) \cup Permutations(Actions)
=============================================================================
