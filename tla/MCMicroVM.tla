------------------------------ MODULE MCMicroVM ------------------------------
(* Instances of MicroVM for TLC.                                             *)
EXTENDS MicroVM, TLC

Symmetry == Permutations(Exchanges) \cup Permutations(Procs)
=============================================================================
