--------------------------- MODULE MCSalesDelivery ---------------------------
(* Instances of SalesDelivery for TLC. *)
EXTENDS SalesDelivery, TLC

Symmetry == Permutations(Procs) \cup Permutations(Approvals) \cup Permutations(Keys)
=============================================================================
