--------------------------- MODULE MCOwnerNotify ---------------------------
(* An instance of OwnerNotify for TLC. *)
EXTENDS OwnerNotify
=============================================================================
