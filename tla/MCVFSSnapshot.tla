----------------------------- MODULE MCVFSSnapshot -----------------------------
(* Instances of VFSSnapshot for TLC: the name of t2 is that of one of t1's  *)
(* temporary directories.                                                  *)
EXTENDS VFSSnapshot, TLC

CONSTANTS t1, t2
MCTags == {t1, t2}
MCNested == {<<t1, t2>>}
Symmetry == Permutations(Contents)
=============================================================================
