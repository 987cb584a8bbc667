---------------------------- MODULE MCRenderJobs ----------------------------
(* Instances of RenderJobs for TLC. *)
EXTENDS RenderJobs, TLC

Symmetry == Permutations(Procs) \cup Permutations(Hashes)
=============================================================================
