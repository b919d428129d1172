------------------------------- MODULE MCPool -------------------------------
(* Symmetric instances of SandboxPool for TLC. *)
EXTENDS SandboxPool, TLC

Symmetry == Permutations(Callers) \cup Permutations(Sandboxes)
=============================================================================
