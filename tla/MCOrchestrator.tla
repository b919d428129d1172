---------------------------- MODULE MCOrchestrator ----------------------------
(* Symmetric instances of Orchestrator for TLC. *)
EXTENDS Orchestrator, TLC

Symmetry == Permutations(Actors \ (Picky \cup Reused)) \cup Permutations(Workers)
              \cup Permutations(Sandboxes) \cup Permutations(Calls)
=============================================================================
